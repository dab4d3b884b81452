----------------------------- MODULE ReadyRecord -----------------------------
(***************************************************************************)
(* The ready record of one change or component (specs.py): .change.yaml,   *)
(* the spec files its revision hashes, the processes that call mark_ready, *)
(* mark_draft, set_spec_issues and is_ready on it, and an editor who may   *)
(* write or remove a file between any two of their steps.                  *)
(*                                                                         *)
(* write_change_meta reads the record, then replaces the whole file in one *)
(* step; nothing locks it in between.  spec_revision looks for the files   *)
(* one by one, then reads them one by one.  A version stands for a file's  *)
(* content with its line endings normalised, and the record of the         *)
(* versions read stands for the sha256 digest.  An edit may bring back an  *)
(* earlier content, as a checkout does.  use-cases.md is treated like      *)
(* proposal.md, and requirements/ like a directory of one file.            *)
(***************************************************************************)
EXTENDS Integers

CONSTANTS
    Files,      \* the spec files there may be, of SpecFileNames
    Processes,  \* the processes that use the record
    Component,  \* TRUE when change_dir is a component of a change
    NoRevision, \* spec_revision missing from the record
    MaxEdits    \* bound: files the editor writes or removes, all those there
                \* are at first counting for one

SpecFileNames == {"plan", "proposal", "requirements", "specs"}

ASSUME RecordAssumption ==
    /\ Files \subseteq SpecFileNames
    /\ Component \in BOOLEAN /\ MaxEdits \in Nat /\ MaxEdits >= 1

VARIABLES
    disk,    \* version of each spec file, Absent when there is none
    edits,   \* edits so far; the one that writes new content numbers it
    meta,    \* the record in .change.yaml
    call,    \* the call each process is in
    verdict, \* what its last is_ready returned
    recorded \* history: the revisions mark_ready has put in the record

vars == <<disk, edits, meta, call, verdict, recorded>>

Absent == 0
Versions == 0..MaxEdits
Views == UNION {[S -> Versions \ {Absent}] : S \in SUBSET Files}
Statuses == {"unset", "draft", "ready"}
Records == [status : Statuses, revision : Views \cup {NoRevision}]

Writes == {"mark_ready", "mark_draft", "set_spec_issues"}
NoRecord == [status |-> "unset", revision |-> NoRevision]
\* A call: its stage, the files spec_revision still has to look for and those
\* it has still to read, what it has read, and the record it read.  History:
\* the disk when is_ready read that, and the files that have been removed or
\* put back to an earlier content from then until it answered.
NoView == [f \in {} |-> Absent]
Idle == [op |-> "none", stage |-> "idle", toList |-> {}, toRead |-> {},
         view |-> NoView, saved |-> NoRecord, then |-> NoView, undone |-> {}]
Calls == [op : Writes \cup {"is_ready", "none"},
          stage : {"idle", "choosing", "globbing", "hashing", "reading",
                   "replacing"},
          toList : SUBSET Files, toRead : SUBSET Files,
          view : Views, saved : Records,
          then : [Files -> Versions] \cup {NoView}, undone : SUBSET Files]

TypeOK ==
    /\ disk \in [Files -> Versions] /\ edits \in Versions
    /\ meta \in Records
    /\ call \in [Processes -> Calls]
    /\ verdict \in [Processes -> {"none", "ready", "not ready"}]
    /\ recorded \subseteq Views

Init ==
    /\ disk \in [Files -> {Absent, 1}]
    /\ edits = 1
    /\ meta = NoRecord
    /\ call = [p \in Processes |-> Idle]
    /\ verdict = [p \in Processes |-> "none"]
    /\ recorded = {}

-----------------------------------------------------------------------------
(* spec_files and spec_revision.                                           *)

\* is_file of f; and read_bytes, which raises OSError when it is gone.
Present(f) == f \in Files /\ disk[f] # Absent

\* plan.md counts for a component, and for a change that has a specs.md.
PlanCounts == Component \/ Present("specs")

\* The order of the candidates, and that of the files taken: by the path
\* relative to the change root.
ListOrder == <<"proposal", "plan", "specs", "requirements">>
PathOrder == IF Component
             THEN <<"plan", "requirements", "specs", "proposal">>
             ELSE <<"plan", "proposal", "requirements", "specs">>
FirstOf(files, order) ==
    order[CHOOSE i \in 1..4 : /\ order[i] \in files
                              /\ \A j \in 1..(i - 1) : order[j] \notin files]

Extend(view, f, version) ==
    [g \in DOMAIN view \cup {f} |-> IF g = f THEN version ELSE view[g]]

-----------------------------------------------------------------------------
(* The calls.                                                              *)

\* mark_ready hashes first; every other call starts with the record.
Begin(p, op) ==
    /\ call[p].op = "none"
    /\ call' = [call EXCEPT ![p] =
           [Idle EXCEPT !.op = op,
                !.stage = IF op = "mark_ready" THEN "choosing" ELSE "reading"]]
    /\ verdict' = [verdict EXCEPT ![p] = "none"]
    /\ UNCHANGED <<disk, edits, meta, recorded>>

\* is_ready answers at once, and False, when the record does not say ready.
SaysReady(record) == record.status = "ready" /\ record.revision # NoRevision

\* The call p reads .change.yaml.
ReadMeta(p) ==
    /\ call[p].stage = "reading"
    /\ IF call[p].op # "is_ready"
       THEN /\ call' = [call EXCEPT ![p].stage = "replacing", ![p].saved = meta]
            /\ UNCHANGED verdict
       ELSE IF SaysReady(meta)
       THEN /\ call' = [call EXCEPT ![p].stage = "choosing", ![p].saved = meta,
                                    ![p].then = disk]
            /\ UNCHANGED verdict
       ELSE /\ call' = [call EXCEPT ![p] = Idle]
            /\ verdict' = [verdict EXCEPT ![p] = "not ready"]
    /\ UNCHANGED <<disk, edits, meta, recorded>>

\* spec_files asks whether plan.md counts.
ChoosePlan(p) ==
    /\ call[p].stage = "choosing"
    /\ call' = [call EXCEPT ![p].stage = "globbing",
           ![p].toList = Files \ IF PlanCounts THEN {"requirements"}
                                 ELSE {"requirements", "plan"}]
    /\ UNCHANGED <<disk, edits, meta, verdict, recorded>>

\* Then what is in requirements/.
GlobRequirements(p) ==
    /\ call[p].stage = "globbing"
    /\ call' = [call EXCEPT ![p].stage = "hashing",
           ![p].toList = IF Present("requirements")
                         THEN @ \cup {"requirements"} ELSE @]
    /\ UNCHANGED <<disk, edits, meta, verdict, recorded>>

\* Then whether each of the candidates is there.
ListFile(p) ==
    /\ call[p].stage = "hashing" /\ call[p].toList # {}
    /\ LET f == FirstOf(call[p].toList, ListOrder)
       IN  call' = [call EXCEPT
               ![p].toList = @ \ {f},
               ![p].toRead = IF Present(f) THEN @ \cup {f} ELSE @]
    /\ UNCHANGED <<disk, edits, meta, verdict, recorded>>

\* spec_revision reads the next of the files listed.  One that is gone raises
\* OSError: the call of mark_ready fails, that of is_ready answers False.
ReadFile(p) ==
    /\ call[p].stage = "hashing" /\ call[p].toList = {} /\ call[p].toRead # {}
    /\ LET f == FirstOf(call[p].toRead, PathOrder)
       IN  IF Present(f)
           THEN /\ call' = [call EXCEPT
                       ![p].toRead = @ \ {f},
                       ![p].view = Extend(@, f, disk[f])]
                /\ UNCHANGED verdict
           ELSE /\ call' = [call EXCEPT ![p] = Idle]
                /\ verdict' = [verdict EXCEPT ![p] =
                       IF call[p].op = "is_ready" THEN "not ready" ELSE "none"]
    /\ UNCHANGED <<disk, edits, meta, recorded>>

\* saved == current.
UnchangedSinceMutant(saved, current) == DOMAIN saved = DOMAIN current
UnchangedSince(saved, current) == saved = current

\* Every file is read.
Hashed(p) ==
    /\ call[p].stage = "hashing" /\ call[p].toList = {} /\ call[p].toRead = {}
    /\ IF call[p].op = "mark_ready"
       THEN /\ call' = [call EXCEPT ![p].stage = "reading"]
            /\ UNCHANGED verdict
       ELSE IF UnchangedSince(call[p].saved.revision, call[p].view)
       THEN /\ call' = [call EXCEPT ![p].stage = "idle", ![p].op = "none",
                                    ![p].saved = NoRecord]
            /\ verdict' = [verdict EXCEPT ![p] = "ready"]
       ELSE /\ call' = [call EXCEPT ![p] = Idle]
            /\ verdict' = [verdict EXCEPT ![p] = "not ready"]
    /\ UNCHANGED <<disk, edits, meta, recorded>>

\* The keys a call sets, over the record it read.  set_spec_issues sets one
\* that is not modelled, and so writes back the others as it read them.
Updated(op, record, view) ==
    CASE op = "mark_ready" -> [record EXCEPT !.status = "ready",
                                             !.revision = view]
      [] op = "mark_draft" -> [record EXCEPT !.status = "draft"]
      [] OTHER -> record

\* os.replace of .change.yaml.
ReplaceMeta(p) ==
    /\ call[p].stage = "replacing"
    /\ meta' = Updated(call[p].op, call[p].saved, call[p].view)
    /\ recorded' = IF call[p].op = "mark_ready"
                   THEN recorded \cup {call[p].view} ELSE recorded
    /\ call' = [call EXCEPT ![p] = Idle]
    /\ UNCHANGED <<disk, edits, verdict>>

\* The process is killed: its call leaves the record as it was.
Killed(p) ==
    /\ call[p].op # "none"
    /\ call' = [call EXCEPT ![p] = Idle]
    /\ UNCHANGED <<disk, edits, meta, verdict, recorded>>

\* is_ready has read the record, and has not answered.
AtWork(c) == c.op = "is_ready" /\ c.stage # "reading"

\* External: someone writes a spec file, new content or an earlier one's, or
\* removes it.
Edit(f) ==
    /\ edits < MaxEdits
    /\ edits' = edits + 1
    /\ \E version \in 0..edits' :
           /\ version # disk[f]
           /\ disk' = [disk EXCEPT ![f] = version]
           /\ call' = [p \in Processes |->
                  IF AtWork(call[p]) /\ version # edits'
                  THEN [call[p] EXCEPT !.undone = @ \cup {f}] ELSE call[p]]
    /\ UNCHANGED <<meta, verdict, recorded>>

Next ==
    \/ \E p \in Processes :
           \/ \E op \in Writes \cup {"is_ready"} : Begin(p, op)
           \/ ReadMeta(p) \/ ChoosePlan(p) \/ GlobRequirements(p)
           \/ ListFile(p) \/ ReadFile(p) \/ Hashed(p) \/ ReplaceMeta(p)
           \/ Killed(p)
    \/ \E f \in Files : Edit(f)

Spec == Init /\ [][Next]_vars

-----------------------------------------------------------------------------
(* Properties.                                                             *)

\* A builder that is told the specs are ready has been told of one state of
\* the disk, the one at the moment is_ready read the record, though it lists
\* and reads the files later, one by one, while an editor and a checker are at
\* work: a file it hashed stood there with that content, and one it did not
\* hash was not there (is_ready reads .change.yaml before it lists, mark_ready
\* writes it after it has read).  A file that is removed or put back to an
\* earlier content between the two reads is not covered: is_ready takes an
\* edit that is undone for no edit.  Nor is a change's plan.md that is there
\* and left out, as it is when specs.md is away while spec_files asks for it.
ReadyIsOneSnapshot ==
    \A p \in Processes :
        verdict[p] = "ready" =>
            \A f \in Files \ call[p].undone :
                IF f \in DOMAIN call[p].view
                THEN call[p].view[f] = call[p].then[f]
                ELSE call[p].then[f] = Absent \/ (f = "plan" /\ ~Component)

\* What a builder is told is ready was checked as it is: is_ready says so only
\* of the very files and contents that one mark_ready has hashed and put in the
\* record, whatever edits came in between, whichever calls replace the record
\* over one another's, and wherever they are killed (is_ready, mark_ready,
\* write_change_meta).  A draft that another call writes over is not covered:
\* the record then says ready again.
ReadyWasMarked ==
    \A p \in Processes : verdict[p] = "ready" => call[p].view \in recorded
=============================================================================
