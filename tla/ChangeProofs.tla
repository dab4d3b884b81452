---------------------------- MODULE ChangeProofs ----------------------------
(***************************************************************************)
(* The safety properties of a change, proved for every value of the        *)
(* constants: those of its ready record (ReadyRecord) and that of its      *)
(* archive (ChangeArchive).                                                *)
(*                                                                         *)
(* That is_ready has been told of one state of the disk rests on the       *)
(* numbers of the edits: a record holds versions that were written before  *)
(* it was read, and a file that has changed since holds a later one, which *)
(* no digest in that record can match, unless it is away or was put back.  *)
(*                                                                         *)
(* That the registry shows what the deltas say rests on apply_delta: a     *)
(* delta merged into a file that follows the deltas written so far gives   *)
(* one that follows them and it, whatever their order and however often    *)
(* they are repeated.  Dropping is defined by recursion over the file;     *)
(* what it leaves is proved by induction over sequences, which the lemma   *)
(* BuiltByAppending states with a set in the place of a predicate.         *)
(***************************************************************************)
EXTENDS ReadyRecord, ChangeArchive, SequenceTheorems, WellFoundedInduction, TLAPS

-----------------------------------------------------------------------------
(* The inductive invariant.                                                *)

\* Every version comes from an edit that has been made.
Made(view) == \A f \in DOMAIN view : view[f] <= edits

\* A revision is missing, or mark_ready has put it in the record.
Marked(revision) ==
    revision # NoRevision => Made(revision) /\ revision \in recorded
RecordInv ==
    /\ \A f \in Files : disk[f] <= edits
    /\ Marked(meta.revision)

\* The record that call c has read does not hold the version, nor can.
Newer(c, f, version) ==
    f \in DOMAIN c.saved.revision => c.saved.revision[f] < version

\* A change's plan.md may be left out though it is there.
LeftOut(f) == f = "plan" /\ ~Component

\* While is_ready is at work, what has changed on the disk since it read the
\* record, and was not undone, is newer than the record, read already or not.
DiskIsLater(c) ==
    \A f \in Files \ c.undone :
        disk[f] = c.then[f] \/ (disk[f] # Absent /\ Newer(c, f, disk[f]))
ViewIsLater(c) ==
    \A f \in DOMAIN c.view \ c.undone :
        c.view[f] = c.then[f] \/ Newer(c, f, c.view[f])

\* A file that spec_files has passed over was not there at that moment.
PassedOver(c) ==
    /\ c.stage = "globbing" =>
           \A f \in Files \ {"requirements"} : f \in c.toList \/ LeftOut(f)
    /\ c.stage = "hashing" =>
           \A f \in Files \ c.undone :
               \/ f \in c.toList \cup c.toRead \cup DOMAIN c.view
               \/ c.then[f] = Absent \/ LeftOut(f)

Checking(c) ==
    /\ c.saved.revision # NoRevision
    /\ c.then \in [Files -> Versions]
    /\ DiskIsLater(c) /\ ViewIsLater(c) /\ PassedOver(c)

Sound(c) ==
    /\ Made(c.view)
    /\ Marked(c.saved.revision)
    /\ c.op = "none" <=> c.stage = "idle"
    /\ c.stage = "reading" /\ c.op = "is_ready" =>
           c = [Idle EXCEPT !.op = "is_ready", !.stage = "reading"]
    /\ c.op = "is_ready" => c.stage # "replacing"
    /\ AtWork(c) => Checking(c)
    /\ c.stage \in {"choosing", "globbing", "hashing"} => c.op \in {"mark_ready", "is_ready"}
CallsInv == \A p \in Processes : Sound(call[p])

\* What a process is told, and what its call had read by then.
OneSnapshot(c) ==
    \A f \in Files \ c.undone :
        IF f \in DOMAIN c.view THEN c.view[f] = c.then[f]
                               ELSE c.then[f] = Absent \/ LeftOut(f)
Told(answer, c) ==
    answer = "ready" => c.op = "none" /\ OneSnapshot(c) /\ c.view \in recorded
VerdictInv == \A p \in Processes : Told(verdict[p], call[p])

IInv == TypeOK /\ RecordInv /\ CallsInv /\ VerdictInv

-----------------------------------------------------------------------------
(* Operators.                                                              *)

LEMMA ViewIs ==
    ASSUME NEW view \in Views
    PROVE  /\ DOMAIN view \subseteq Files
           /\ \A f \in DOMAIN view : view[f] \in Nat /\ view[f] \in Versions \ {Absent}
  <1>1. PICK S \in SUBSET Files : view \in [S -> Versions \ {Absent}]
    BY DEF Views
  <1> QED
    BY <1>1, RecordAssumption DEF Versions

LEMMA NoViewIsView == NoView \in Views /\ DOMAIN NoView = {}
  <1>1. NoView \in [{} -> Versions \ {Absent}]
    BY DEF NoView
  <1>2. {} \in SUBSET Files
    OBVIOUS
  <1> QED
    BY <1>1, <1>2 DEF Views, NoView

\* The revision of a record is a view or is missing.
LEMMA RevisionIs ==
    ASSUME NEW record \in Records, record.revision # NoRevision
    PROVE  record.revision \in Views
  BY DEF Records

LEMMA ExtendIs ==
    ASSUME NEW view \in Views, NEW f \in Files, NEW version \in Versions \ {Absent}
    PROVE  /\ Extend(view, f, version) \in Views
           /\ DOMAIN Extend(view, f, version) = DOMAIN view \cup {f}
           /\ \A g \in DOMAIN view \cup {f} :
                  Extend(view, f, version)[g] = IF g = f THEN version ELSE view[g]
  <1>1. /\ DOMAIN Extend(view, f, version) = DOMAIN view \cup {f}
        /\ \A g \in DOMAIN view \cup {f} :
               Extend(view, f, version)[g] = IF g = f THEN version ELSE view[g]
    BY DEF Extend
  <1>2. DOMAIN view \cup {f} \in SUBSET Files
    BY ViewIs
  <1>3. Extend(view, f, version) \in [DOMAIN view \cup {f} -> Versions \ {Absent}]
    BY ViewIs DEF Extend
  <1> QED
    BY <1>1, <1>2, <1>3 DEF Views

\* The first of some files is one of them.
LEMMA FirstOfIs ==
    ASSUME NEW those \in SUBSET Files, those # {}, NEW order \in {ListOrder, PathOrder}
    PROVE  FirstOf(those, order) \in those
  <1> DEFINE IsFirst(i) == /\ order[i] \in those
                           /\ \A j \in 1..(i - 1) : order[j] \notin those
  <1>1. \A f \in SpecFileNames : \E i \in 1..4 : order[i] = f
    BY DEF SpecFileNames, ListOrder, PathOrder
  <1>2. \E i \in 1..4 : order[i] \in those
    BY <1>1, RecordAssumption
  <1>3. \E i \in 1..4 : IsFirst(i)
    <2>1. CASE order[1] \in those
      BY <2>1
    <2>2. CASE order[1] \notin those /\ order[2] \in those
      <3>1. IsFirst(2)
        BY <2>2
      <3> QED
        BY <3>1
    <2>3. CASE order[1] \notin those /\ order[2] \notin those /\ order[3] \in those
      <3>1. IsFirst(3)
        BY <2>3
      <3> QED
        BY <3>1
    <2>4. CASE /\ order[1] \notin those /\ order[2] \notin those
               /\ order[3] \notin those /\ order[4] \in those
      <3>1. IsFirst(4)
        BY <2>4
      <3> QED
        BY <3>1
    <2> QED
      BY <1>2, <2>1, <2>2, <2>3, <2>4
  <1> QED
    BY <1>3 DEF FirstOf

LEMMA IdleIs == Idle \in Calls /\ Sound(Idle) /\ Idle.op = "none" /\ Idle.undone = {}
  BY NoViewIsView DEF Idle, Calls, NoRecord, Records, Statuses, Sound, Made, Marked,
                      Writes, AtWork

-----------------------------------------------------------------------------
(* The steps.                                                              *)

LEMMA InitEstablishes == Init => IInv
  <1> SUFFICES ASSUME Init PROVE IInv
    OBVIOUS
  <1>1. 1 \in Versions /\ Absent \in Versions
    BY RecordAssumption DEF Versions, Absent
  <1>2. disk \in [Files -> Versions] /\ \A f \in Files : disk[f] <= 1
    BY <1>1 DEF Init, Absent
  <1>3. meta \in Records /\ meta.revision = NoRevision
    BY DEF Init, NoRecord, Records, Statuses
  <1>4. TypeOK
    BY <1>1, <1>2, <1>3, IdleIs DEF Init, TypeOK
  <1>5. RecordInv
    BY <1>2, <1>3 DEF Init, RecordInv, Marked
  <1>6. CallsInv /\ VerdictInv
    BY IdleIs DEF Init, CallsInv, VerdictInv, Told
  <1> QED
    BY <1>4, <1>5, <1>6 DEF IInv

\* A step of one process: its call becomes c, and it is given the answer.
LEMMA ProcessStep ==
    ASSUME IInv, NEW p \in Processes, NEW c \in Calls, Sound(c),
           NEW answer \in {"none", "ready", "not ready"}, Told(answer, c),
           call' = [call EXCEPT ![p] = c], verdict' = [verdict EXCEPT ![p] = answer],
           UNCHANGED <<disk, edits>>, recorded \subseteq recorded'
    PROVE  /\ disk' \in [Files -> Versions] /\ edits' \in Versions
           /\ call' \in [Processes -> Calls]
           /\ verdict' \in [Processes -> {"none", "ready", "not ready"}]
           /\ CallsInv' /\ VerdictInv'
  <1>1. /\ disk \in [Files -> Versions] /\ edits \in Versions
        /\ call \in [Processes -> Calls]
        /\ verdict \in [Processes -> {"none", "ready", "not ready"}]
    BY DEF IInv, TypeOK
  <1>2. \A q \in Processes : /\ call'[q] = IF q = p THEN c ELSE call[q]
                             /\ verdict'[q] = IF q = p THEN answer ELSE verdict[q]
    BY <1>1
  <1>3. ASSUME NEW q \in Processes PROVE Sound(call[q])' /\ Told(verdict[q], call[q])'
    <2>1. Sound(call'[q]) /\ Told(verdict'[q], call'[q])
      BY <1>2 DEF IInv, CallsInv, VerdictInv
    <2>2. disk' = disk /\ edits' = edits
      OBVIOUS
    <2>3. Checking(call'[q]) => Checking(call[q])'
      BY <2>2 DEF Checking, DiskIsLater, ViewIsLater, PassedOver, Newer, LeftOut
    <2>4. Sound(call[q])'
      BY <2>1, <2>2, <2>3 DEF Sound, Made, Marked, AtWork, Idle, NoRecord, NoView
    <2>5. Told(verdict[q], call[q])'
      BY <2>1 DEF Told, OneSnapshot, LeftOut
    <2> QED
      BY <2>4, <2>5
  <1> QED
    BY <1>1, <1>3 DEF CallsInv, VerdictInv

\* Its call alone, while the record stays.
LEMMA CallStep ==
    ASSUME IInv, NEW p \in Processes, NEW c \in Calls, Sound(c),
           NEW answer \in {"none", "ready", "not ready"}, Told(answer, c),
           call' = [call EXCEPT ![p] = c], verdict' = [verdict EXCEPT ![p] = answer],
           UNCHANGED <<disk, edits, meta, recorded>>
    PROVE  IInv'
  <1>1. /\ disk' \in [Files -> Versions] /\ edits' \in Versions
        /\ call' \in [Processes -> Calls]
        /\ verdict' \in [Processes -> {"none", "ready", "not ready"}]
        /\ CallsInv' /\ VerdictInv'
    BY ProcessStep
  <1> QED
    BY <1>1 DEF IInv, TypeOK, RecordInv, Made, Marked

\* What is known of a call under way.
LEMMA CallIs ==
    ASSUME IInv, NEW p \in Processes
    PROVE  /\ call[p] \in Calls /\ Sound(call[p]) /\ Told(verdict[p], call[p])
           /\ verdict[p] \in {"none", "ready", "not ready"}
           /\ verdict = [verdict EXCEPT ![p] = verdict[p]]
           /\ call[p].op # "none" => verdict[p] # "ready"
  BY DEF IInv, TypeOK, CallsInv, VerdictInv, Told

\* A call under way goes on, and its process has no new answer.
LEMMA GoesOnStep ==
    ASSUME IInv, NEW p \in Processes, call[p].op # "none", NEW c \in Calls, Sound(c),
           call' = [call EXCEPT ![p] = c], UNCHANGED <<disk, edits, meta, verdict, recorded>>
    PROVE  IInv'
  <1>1. /\ verdict[p] \in {"none", "ready", "not ready"} /\ verdict[p] # "ready"
        /\ verdict' = [verdict EXCEPT ![p] = verdict[p]]
    BY CallIs
  <1>2. Told(verdict[p], c)
    BY <1>1 DEF Told
  <1> QED
    BY <1>1, <1>2, CallStep, ZenonT(60)

LEMMA BeginStep ==
    ASSUME IInv, NEW p \in Processes, NEW op \in Writes \cup {"is_ready"}, Begin(p, op)
    PROVE  IInv'
  <1>1. PICK c : c = [Idle EXCEPT !.op = op,
                          !.stage = IF op = "mark_ready" THEN "choosing" ELSE "reading"]
    OBVIOUS
  <1>2. call' = [call EXCEPT ![p] = c] /\ verdict' = [verdict EXCEPT ![p] = "none"]
    BY <1>1 DEF Begin
  <1>3. c \in Calls
    <2>1. Idle \in Calls
      BY IdleIs
    <2>2. op \in Writes \cup {"is_ready", "none"}
      OBVIOUS
    <2> HIDE DEF Idle
    <2> QED
      BY <1>1, <2>1, <2>2 DEF Calls
  <1>4. Sound(c)
    BY <1>1, NoViewIsView DEF Idle, NoRecord, Sound, Made, Marked, Writes, AtWork
  <1> QED
    BY <1>2, <1>3, <1>4, CallStep DEF Begin, Told

\* A call that ends with no answer, or with a "no".
LEMMA EndStep ==
    ASSUME IInv, NEW p \in Processes, call[p].op # "none", call' = [call EXCEPT ![p] = Idle],
           verdict' = verdict \/ verdict' = [verdict EXCEPT ![p] = "not ready"]
                              \/ verdict' = [verdict EXCEPT ![p] = "none"],
           UNCHANGED <<disk, edits, meta, recorded>>
    PROVE  IInv'
  <1>1. PICK answer \in {"none", "not ready"} : verdict' = [verdict EXCEPT ![p] = answer]
    BY CallIs
  <1> QED
    BY <1>1, IdleIs, CallStep DEF Told

LEMMA ReadMetaStep == ASSUME IInv, NEW p \in Processes, ReadMeta(p) PROVE IInv'
  <1>1. call[p] \in Calls /\ Sound(call[p]) /\ call[p].stage = "reading"
    BY CallIs DEF ReadMeta
  <1>2. call[p].op # "none"
    BY <1>1 DEF Sound
  <1>3. meta \in Records /\ disk \in [Files -> Versions] /\ RecordInv
    BY DEF IInv, TypeOK
  <1>4. CASE call[p].op # "is_ready"
    <2>1. PICK c : c = [call[p] EXCEPT !.stage = "replacing", !.saved = meta]
      OBVIOUS
    <2>2. call' = [call EXCEPT ![p] = c] /\ UNCHANGED <<disk, edits, meta, verdict, recorded>>
      BY <1>4, <2>1 DEF ReadMeta, IInv, TypeOK
    <2>3. c \in Calls
      BY <1>1, <1>3, <2>1 DEF Calls
    <2>4. Sound(c)
      BY <1>1, <1>2, <1>3, <1>4, <2>1 DEF Sound, Calls, RecordInv, AtWork
    <2> QED
      BY <1>2, <2>2, <2>3, <2>4, GoesOnStep
  <1>5. CASE call[p].op = "is_ready" /\ SaysReady(meta)
    <2>1. PICK c : c = [call[p] EXCEPT !.stage = "choosing", !.saved = meta, !.then = disk]
      OBVIOUS
    <2>2. call' = [call EXCEPT ![p] = c] /\ UNCHANGED <<disk, edits, meta, verdict, recorded>>
      BY <1>5, <2>1 DEF ReadMeta, IInv, TypeOK
    <2>3. c \in Calls
      BY <1>1, <1>3, <2>1 DEF Calls
    <2>4. /\ c.saved = meta /\ c.then = disk /\ c.view = NoView /\ c.op = "is_ready"
          /\ c.stage = "choosing"
      <3>1. call[p].view = NoView
        BY <1>1, <1>5 DEF Sound, Idle
      <3> QED
        BY <1>1, <1>5, <2>1, <3>1 DEF Calls
    <2>5. meta.revision # NoRevision
      BY <1>5 DEF SaysReady
    <2>6. Checking(c) /\ Made(c.view)
      BY <1>3, <2>4, <2>5, NoViewIsView DEF Checking, DiskIsLater, ViewIsLater,
                                            PassedOver, Made
    <2>7. Sound(c)
      BY <1>3, <2>4, <2>5, <2>6 DEF Sound, RecordInv
    <2> QED
      BY <1>2, <2>2, <2>3, <2>7, GoesOnStep
  <1>6. CASE call[p].op = "is_ready" /\ ~SaysReady(meta)
    BY <1>2, <1>6, EndStep DEF ReadMeta
  <1> QED
    BY <1>4, <1>5, <1>6

LEMMA KilledStep == ASSUME IInv, NEW p \in Processes, Killed(p) PROVE IInv'
  BY EndStep DEF Killed

\* A call that looks for files, and reads none: is_ready must not pass over one
\* that was there.
LEMMA LooksStep ==
    ASSUME IInv, NEW p \in Processes,
           call[p].stage \in {"choosing", "globbing", "hashing"},
           NEW stage \in {"globbing", "hashing"},
           NEW toList \in SUBSET Files, NEW toRead \in SUBSET Files,
           NEW c, c = [call[p] EXCEPT !.stage = stage, !.toList = toList, !.toRead = toRead],
           call[p].op = "is_ready" => PassedOver(c),
           call' = [call EXCEPT ![p] = c], UNCHANGED <<disk, edits, meta, verdict, recorded>>
    PROVE  IInv'
  <1>1. call[p] \in Calls /\ Sound(call[p])
    BY CallIs
  <1>2. /\ c \in Calls /\ c.stage = stage /\ c.op = call[p].op /\ c.view = call[p].view
        /\ c.saved = call[p].saved /\ c.then = call[p].then /\ c.undone = call[p].undone
    BY <1>1 DEF Calls
  <1>3. ASSUME AtWork(c) PROVE Checking(c)
    <2>1. AtWork(call[p]) /\ call[p].op = "is_ready"
      BY <1>2, <1>3 DEF AtWork
    <2>2. Checking(call[p]) /\ PassedOver(c)
      BY <1>1, <2>1 DEF Sound
    <2> QED
      BY <1>2, <2>2 DEF Checking, DiskIsLater, ViewIsLater, Newer
  <1>4. Sound(c) /\ call[p].op # "none"
    BY <1>1, <1>2, <1>3 DEF Sound
  <1> QED
    BY <1>2, <1>4, GoesOnStep

LEMMA ChoosePlanStep == ASSUME IInv, NEW p \in Processes, ChoosePlan(p) PROVE IInv'
  <1>1. PICK toList : toList = Files \ IF PlanCounts THEN {"requirements"}
                                       ELSE {"requirements", "plan"}
    OBVIOUS
  <1>2. PICK c : c = [call[p] EXCEPT !.stage = "globbing", !.toList = toList,
                                     !.toRead = call[p].toRead]
    OBVIOUS
  <1>3. call[p] \in Calls /\ call[p].stage = "choosing"
    BY CallIs DEF ChoosePlan
  <1>4. call' = [call EXCEPT ![p] = c] /\ UNCHANGED <<disk, edits, meta, verdict, recorded>>
    <2>1. c = [call[p] EXCEPT !.stage = "globbing", !.toList = toList]
      BY <1>2, <1>3 DEF Calls
    <2> QED
      BY <1>1, <2>1 DEF ChoosePlan, IInv, TypeOK
  <1>5. PassedOver(c)
    <2>1. c.stage = "globbing" /\ c.toList = toList
      BY <1>2, <1>3 DEF Calls
    <2>2. \A f \in Files \ {"requirements"} : f \in toList \/ LeftOut(f)
      BY <1>1 DEF PlanCounts, LeftOut
    <2> QED
      BY <2>1, <2>2 DEF PassedOver
  <1>6. toList \in SUBSET Files /\ call[p].toRead \in SUBSET Files
    BY <1>1, <1>3 DEF Calls
  <1> QED
    BY <1>2, <1>3, <1>4, <1>5, <1>6, LooksStep

\* What is known of the file that a call finds away.
LEMMA AwayIs ==
    ASSUME NEW c, DiskIsLater(c), NEW f \in Files \ c.undone, ~Present(f)
    PROVE  c.then[f] = Absent
  BY DEF DiskIsLater, Present

LEMMA GlobRequirementsStep ==
    ASSUME IInv, NEW p \in Processes, GlobRequirements(p) PROVE IInv'
  <1>1. PICK toList : toList = IF Present("requirements")
                               THEN call[p].toList \cup {"requirements"} ELSE call[p].toList
    OBVIOUS
  <1>2. PICK c : c = [call[p] EXCEPT !.stage = "hashing", !.toList = toList,
                                     !.toRead = call[p].toRead]
    OBVIOUS
  <1>3. call[p] \in Calls /\ Sound(call[p]) /\ call[p].stage = "globbing"
    BY CallIs DEF GlobRequirements
  <1>4. call' = [call EXCEPT ![p] = c] /\ UNCHANGED <<disk, edits, meta, verdict, recorded>>
    <2>1. c = [call[p] EXCEPT !.stage = "hashing", !.toList = toList]
      BY <1>2, <1>3 DEF Calls
    <2> QED
      BY <1>1, <2>1 DEF GlobRequirements, IInv, TypeOK
  <1>5. ASSUME call[p].op = "is_ready" PROVE PassedOver(c)
    <2>1. /\ c.stage = "hashing" /\ c.toList = toList /\ c.then = call[p].then
          /\ c.undone = call[p].undone
      BY <1>2, <1>3 DEF Calls
    <2>2. DiskIsLater(call[p]) /\ PassedOver(call[p])
      BY <1>3, <1>5 DEF Sound, AtWork, Checking
    <2>3. ASSUME NEW f \in Files \ c.undone, ~LeftOut(f)
          PROVE  f \in toList \/ c.then[f] = Absent
      <3>1. CASE f = "requirements"
        BY <1>1, <2>1, <2>2, <3>1, AwayIs
      <3>2. CASE f # "requirements"
        BY <1>1, <1>3, <2>2, <2>3, <3>2 DEF PassedOver
      <3> QED
        BY <3>1, <3>2
    <2> QED
      BY <2>1, <2>3 DEF PassedOver
  <1>6. toList \in SUBSET Files /\ call[p].toRead \in SUBSET Files
    BY <1>1, <1>3 DEF Calls, Present
  <1> QED
    BY <1>2, <1>3, <1>4, <1>5, <1>6, LooksStep

LEMMA ListFileStep == ASSUME IInv, NEW p \in Processes, ListFile(p) PROVE IInv'
  <1> DEFINE f == FirstOf(call[p].toList, ListOrder)
  <1>1. PICK toRead : toRead = IF Present(f) THEN call[p].toRead \cup {f} ELSE call[p].toRead
    OBVIOUS
  <1>2. PICK c : c = [call[p] EXCEPT !.stage = "hashing", !.toList = call[p].toList \ {f},
                                     !.toRead = toRead]
    OBVIOUS
  <1>3. /\ call[p] \in Calls /\ Sound(call[p]) /\ call[p].stage = "hashing"
        /\ call[p].toList # {}
    BY CallIs DEF ListFile
  <1>4. call' = [call EXCEPT ![p] = c] /\ UNCHANGED <<disk, edits, meta, verdict, recorded>>
    <2>1. c = [call[p] EXCEPT !.toList = call[p].toList \ {f}, !.toRead = toRead]
      BY <1>2, <1>3 DEF Calls
    <2> QED
      BY <1>1, <2>1 DEF ListFile, IInv, TypeOK
  <1>5. call[p].toList \in SUBSET Files /\ call[p].toRead \in SUBSET Files /\ f \in Files
    <2>1. call[p].toList \in SUBSET Files /\ call[p].toRead \in SUBSET Files
      BY <1>3 DEF Calls
    <2> QED
      BY <1>3, <2>1, FirstOfIs
  <1> HIDE DEF f
  <1>6. ASSUME call[p].op = "is_ready" PROVE PassedOver(c)
    <2>1. /\ c.stage = "hashing" /\ c.toList = call[p].toList \ {f} /\ c.toRead = toRead
          /\ c.then = call[p].then /\ c.undone = call[p].undone /\ c.view = call[p].view
      BY <1>2, <1>3 DEF Calls
    <2>2. DiskIsLater(call[p]) /\ PassedOver(call[p])
      BY <1>3, <1>6 DEF Sound, AtWork, Checking
    <2>3. ASSUME NEW g \in Files \ c.undone, ~LeftOut(g), c.then[g] # Absent
          PROVE  g \in c.toList \cup c.toRead \cup DOMAIN c.view
      <3>1. g \in call[p].toList \cup call[p].toRead \cup DOMAIN call[p].view
        BY <1>3, <2>1, <2>2, <2>3 DEF PassedOver
      <3>2. CASE g = f
        BY <1>1, <2>1, <2>2, <2>3, <3>2, AwayIs
      <3>3. CASE g # f
        BY <1>1, <2>1, <3>1, <3>3
      <3> QED
        BY <3>2, <3>3
    <2> QED
      BY <2>1, <2>3 DEF PassedOver
  <1>7. toRead \in SUBSET Files /\ call[p].toList \ {f} \in SUBSET Files
    BY <1>1, <1>5
  <1> QED
    BY <1>2, <1>3, <1>4, <1>6, <1>7, LooksStep

LEMMA ReadFileStep == ASSUME IInv, NEW p \in Processes, ReadFile(p) PROVE IInv'
  <1> DEFINE f == FirstOf(call[p].toRead, PathOrder)
  <1>1. /\ call[p] \in Calls /\ Sound(call[p]) /\ call[p].op # "none"
        /\ call[p].stage = "hashing" /\ call[p].toRead # {}
    BY CallIs DEF ReadFile, Sound
  <1>2. call[p].toRead \in SUBSET Files /\ f \in Files
    <2>1. call[p].toRead \in SUBSET Files
      BY <1>1 DEF Calls
    <2> QED
      BY <1>1, <2>1, FirstOfIs
  <1>3. disk \in [Files -> Versions] /\ edits \in Versions /\ RecordInv
    BY DEF IInv, TypeOK
  <1> HIDE DEF f
  <1>4. CASE Present(f)
    <2> DEFINE old == call[p].view
               version == disk[f]
               view == Extend(old, f, version)
    <2>1. version \in Versions \ {Absent} /\ version <= edits
      BY <1>2, <1>3, <1>4 DEF Present, RecordInv
    <2>2. old \in Views
      BY <1>1 DEF Calls
    <2>3. /\ view \in Views /\ DOMAIN view = DOMAIN old \cup {f}
          /\ \A g \in DOMAIN view : view[g] = IF g = f THEN version ELSE old[g]
      <3> HIDE DEF old, version
      <3>1. version \in Versions \ {Absent}
        BY <2>1
      <3>2. /\ view \in Views
            /\ DOMAIN view = DOMAIN old \cup {f}
        BY ONLY <1>2, <2>2, <3>1, ExtendIs, ZenonT(60)
      <3>3. \A g \in DOMAIN old \cup {f} : view[g] = IF g = f THEN version ELSE old[g]
        BY DEF Extend
      <3> HIDE DEF view
      <3> QED
        BY ONLY <3>2, <3>3
    <2> HIDE DEF view
    <2>4. PICK c : c = [call[p] EXCEPT !.toRead = call[p].toRead \ {f}, !.view = view]
      OBVIOUS
    <2>5. call' = [call EXCEPT ![p] = c] /\ UNCHANGED <<disk, edits, meta, verdict, recorded>>
      BY <1>4, <2>4 DEF ReadFile, IInv, TypeOK, f, view
    <2>6. /\ c \in Calls /\ c.view = view /\ c.op = call[p].op /\ c.stage = "hashing"
          /\ c.saved = call[p].saved /\ c.then = call[p].then /\ c.undone = call[p].undone
          /\ c.toList = call[p].toList /\ c.toRead = call[p].toRead \ {f}
      BY <1>1, <1>2, <2>3, <2>4 DEF Calls
    <2>7. Made(view)
      BY <1>1, <2>1, <2>3 DEF Sound, Made
    <2>8. ASSUME AtWork(c) PROVE Checking(c)
      <3>1. Checking(call[p])
        BY <1>1, <2>6, <2>8 DEF Sound, AtWork
      <3>2. ASSUME NEW g \in DOMAIN view \ c.undone
            PROVE  view[g] = c.then[g] \/ Newer(c, g, view[g])
        <4>1. CASE g = f
          BY <1>2, <2>1, <2>3, <2>6, <3>1, <3>2, <4>1 DEF Checking, DiskIsLater, Newer
        <4>2. CASE g # f
          BY <2>3, <2>6, <3>1, <3>2, <4>2 DEF Checking, ViewIsLater, Newer
        <4> QED
          BY <4>1, <4>2
      <3>3. ViewIsLater(c)
        BY <2>6, <3>2 DEF ViewIsLater
      <3>4. PassedOver(c)
        BY <1>1, <2>3, <2>6, <3>1 DEF Checking, PassedOver
      <3> QED
        BY <2>6, <3>1, <3>3, <3>4 DEF Checking, DiskIsLater, Newer
    <2>9. Sound(c)
      BY <1>1, <2>6, <2>7, <2>8 DEF Sound
    <2> QED
      BY <1>1, <2>5, <2>6, <2>9, GoesOnStep
  <1>5. CASE ~Present(f)
    <2>1. \/ verdict' = [verdict EXCEPT ![p] = "not ready"]
          \/ verdict' = [verdict EXCEPT ![p] = "none"]
      BY <1>5 DEF ReadFile, f
    <2> QED
      BY <1>1, <1>5, <2>1, EndStep DEF ReadFile, f
  <1> QED
    BY <1>4, <1>5

\* What is_ready has hashed matches the record, so none of it is newer.
LEMMA MatchIsOneSnapshot ==
    ASSUME NEW c \in Calls, Checking(c), c.saved.revision = c.view,
           c.stage = "hashing", c.toList = {}, c.toRead = {}
    PROVE  OneSnapshot(c)
  <1> SUFFICES ASSUME NEW f \in Files \ c.undone
               PROVE  IF f \in DOMAIN c.view THEN c.view[f] = c.then[f]
                      ELSE c.then[f] = Absent \/ LeftOut(f)
    BY DEF OneSnapshot
  <1>1. CASE f \in DOMAIN c.view
    <2>1. c.view \in Views
      BY DEF Calls
    <2>2. c.view[f] \in Nat
      BY <1>1, <2>1, ViewIs
    <2>3. ~(c.view[f] < c.view[f])
      BY <2>2
    <2> QED
      BY <1>1, <2>3 DEF Checking, ViewIsLater, Newer
  <1>2. CASE f \notin DOMAIN c.view
    BY <1>2 DEF Checking, PassedOver
  <1> QED
    BY <1>1, <1>2

LEMMA HashedStep == ASSUME IInv, NEW p \in Processes, Hashed(p) PROVE IInv'
  <1>1. /\ call[p] \in Calls /\ Sound(call[p]) /\ call[p].stage = "hashing"
        /\ call[p].toList = {} /\ call[p].toRead = {} /\ call[p].op \in {"mark_ready", "is_ready"}
    BY CallIs DEF Hashed, Sound
  <1>2. UNCHANGED <<disk, edits, meta, recorded>>
    BY DEF Hashed
  <1>3. CASE call[p].op = "mark_ready"
    <2>1. PICK c : c = [call[p] EXCEPT !.stage = "reading"]
      OBVIOUS
    <2>2. call' = [call EXCEPT ![p] = c] /\ verdict' = verdict
      BY <1>3, <2>1 DEF Hashed, IInv, TypeOK
    <2>3. c \in Calls /\ Sound(c)
      BY <1>1, <1>3, <2>1 DEF Calls, Sound, AtWork
    <2> QED
      BY <1>2, <1>3, <2>2, <2>3, GoesOnStep
  <1>4. CASE /\ call[p].op = "is_ready"
             /\ UnchangedSince(call[p].saved.revision, call[p].view)
    <2>1. PICK c : c = [call[p] EXCEPT !.stage = "idle", !.op = "none", !.saved = NoRecord]
      OBVIOUS
    <2>2. call' = [call EXCEPT ![p] = c] /\ verdict' = [verdict EXCEPT ![p] = "ready"]
      BY <1>4, <2>1 DEF Hashed, IInv, TypeOK
    <2>3. /\ c \in Calls /\ c.op = "none" /\ c.stage = "idle" /\ c.saved = NoRecord
          /\ c.view = call[p].view /\ c.then = call[p].then /\ c.undone = call[p].undone
      BY <1>1, <2>1 DEF Calls, NoRecord, Records, Statuses
    <2>4. Sound(c)
      <3>1. Made(c.view)
        BY <1>1, <2>3 DEF Sound, Made
      <3>2. c.saved.revision = NoRevision
        <4>1. NoRecord.revision = NoRevision
          BY DEF NoRecord
        <4> QED
          BY <2>3, <4>1, Zenon
      <3> QED
        BY <2>3, <3>1, <3>2 DEF Sound, Marked, AtWork
    <2>5. Told("ready", c)
      <3>1. Checking(call[p]) /\ Marked(call[p].saved.revision)
        BY <1>1, <1>4 DEF Sound, AtWork
      <3>2. call[p].saved.revision = call[p].view
        BY <1>4 DEF UnchangedSince
      <3>3. OneSnapshot(call[p]) /\ call[p].view \in recorded
        BY <1>1, <3>1, <3>2, MatchIsOneSnapshot DEF Checking, Marked
      <3> QED
        BY <2>3, <3>3 DEF Told, OneSnapshot
    <2> QED
      BY <1>2, <2>2, <2>3, <2>4, <2>5, CallStep
  <1>5. CASE /\ call[p].op = "is_ready"
             /\ ~UnchangedSince(call[p].saved.revision, call[p].view)
    BY <1>2, <1>5, EndStep DEF Hashed
  <1> QED
    BY <1>1, <1>3, <1>4, <1>5

LEMMA ReplaceMetaStep == ASSUME IInv, NEW p \in Processes, ReplaceMeta(p) PROVE IInv'
  <1> DEFINE op == call[p].op
             saved == call[p].saved
             view == call[p].view
  <1>1. call[p] \in Calls /\ Sound(call[p]) /\ call[p].stage = "replacing"
    BY CallIs DEF ReplaceMeta
  <1>2. saved \in Records /\ view \in Views /\ op # "none"
    BY <1>1 DEF Calls, Sound
  <1>3. /\ meta' = Updated(op, saved, view)
        /\ recorded' = IF op = "mark_ready" THEN recorded \cup {view} ELSE recorded
        /\ call' = [call EXCEPT ![p] = Idle]
        /\ UNCHANGED <<disk, edits, verdict>>
    BY DEF ReplaceMeta
  <1>4. Made(view) /\ Marked(saved.revision)
    BY <1>1 DEF Sound
  <1> HIDE DEF op, saved, view
  <1>5. /\ meta' \in Records
        /\ meta'.revision = IF op = "mark_ready" THEN view ELSE saved.revision
    BY <1>2, <1>3 DEF Updated, Records, Statuses
  <1>6. /\ verdict[p] \in {"none", "ready", "not ready"} /\ verdict[p] # "ready"
        /\ verdict' = [verdict EXCEPT ![p] = verdict[p]]
    BY <1>2, <1>3, CallIs DEF op
  <1>7. /\ disk' \in [Files -> Versions] /\ edits' \in Versions
        /\ call' \in [Processes -> Calls]
        /\ verdict' \in [Processes -> {"none", "ready", "not ready"}]
        /\ CallsInv' /\ VerdictInv'
    BY <1>3, <1>6, IdleIs, ProcessStep DEF Told
  <1>8. TypeOK'
    BY <1>2, <1>3, <1>5, <1>7 DEF IInv, TypeOK
  <1>9. RecordInv'
    BY <1>3, <1>4, <1>5 DEF IInv, RecordInv, Made, Marked
  <1> QED
    BY <1>7, <1>8, <1>9 DEF IInv

\* An edit: what it writes is newer than every record that has been read, or
\* the file counts as undone.
LEMMA EditStep == ASSUME IInv, NEW e \in Files, Edit(e) PROVE IInv'
  <1>1. /\ edits \in Nat /\ edits' = edits + 1 /\ edits' \in Versions
        /\ edits' # Absent /\ disk \in [Files -> Versions]
    <2>1. edits \in Versions /\ disk \in [Files -> Versions]
      BY DEF IInv, TypeOK
    <2>2. edits < MaxEdits /\ edits' = edits + 1
      BY DEF Edit
    <2> QED
      BY <2>1, <2>2, RecordAssumption DEF Versions, Absent
  <1> DEFINE Later(c, version) ==
                 IF AtWork(c) /\ version # edits' THEN [c EXCEPT !.undone = @ \cup {e}] ELSE c
  <1>2. PICK version \in 0..edits' :
            /\ disk' = [disk EXCEPT ![e] = version]
            /\ call' = [p \in Processes |-> Later(call[p], version)]
    BY DEF Edit
  <1>3. UNCHANGED <<meta, verdict, recorded>>
    BY DEF Edit
  <1>4. /\ disk' \in [Files -> Versions] /\ version <= edits'
        /\ \A f \in Files : disk'[f] = IF f = e THEN version ELSE disk[f]
    <2>1. version \in Versions /\ version <= edits'
      BY <1>1, <1>2, RecordAssumption DEF Versions
    <2> QED
      BY <1>1, <1>2, <2>1
  <1>5. ASSUME NEW view \in Views, Made(view) PROVE Made(view)'
    BY <1>1, <1>5, ViewIs DEF Made
  <1>6. ASSUME NEW record \in Records, Marked(record.revision) PROVE Marked(record.revision)'
    BY <1>3, <1>5, <1>6, RevisionIs DEF Marked
  <1>7. RecordInv'
    <2>1. \A f \in Files : disk[f] \in Nat /\ disk[f] <= edits
      BY <1>1 DEF IInv, RecordInv, Versions
    <2>2. \A f \in Files : disk'[f] <= edits'
      BY <1>1, <1>4, <2>1
    <2>3. Marked(meta.revision)'
      BY <1>3, <1>6 DEF IInv, TypeOK, RecordInv
    <2> QED
      BY <2>2, <2>3 DEF RecordInv
  <1>8. ASSUME NEW p \in Processes
        PROVE  /\ call'[p] \in Calls /\ call'[p].op = call[p].op
               /\ call'[p].op = "none" => call'[p] = call[p]
               /\ Sound(call[p])'
    <2>1. PICK c : c = call[p]
      OBVIOUS
    <2>2. c \in Calls /\ Sound(c) /\ c.saved \in Records /\ c.view \in Views
          /\ c.undone \in SUBSET Files
      BY <2>1, CallIs DEF Calls
    <2>3. PICK d : d = Later(c, version) /\ d = call'[p]
      BY <1>2, <2>1
    <2>4. /\ d \in Calls /\ d.op = c.op /\ d.stage = c.stage /\ d.view = c.view
          /\ d.saved = c.saved /\ d.then = c.then /\ d.toList = c.toList
          /\ d.toRead = c.toRead /\ c.undone \subseteq d.undone
          /\ AtWork(c) /\ version # edits' => e \in d.undone
          /\ ~AtWork(c) => d = c
      BY <2>2, <2>3 DEF Calls
    <2> HIDE DEF Later
    <2>5. Made(c.view)' /\ Marked(c.saved.revision)'
      BY <1>5, <1>6, <2>2 DEF Sound
    <2>6. ASSUME AtWork(d) PROVE Checking(d)'
      <3>1. AtWork(c) /\ Checking(c)
        BY <2>2, <2>4, <2>6 DEF Sound, AtWork
      <3>2. c.saved.revision \in Views /\ Made(c.saved.revision)
        BY <2>2, <3>1, RevisionIs DEF Checking, Sound, Marked
      <3>3. \A f \in DOMAIN c.saved.revision : c.saved.revision[f] < edits'
        BY <1>1, <3>2, ViewIs DEF Made
      <3>4. ASSUME NEW f \in Files \ d.undone
            PROVE  disk'[f] = d.then[f] \/ (disk'[f] # Absent /\ Newer(d, f, disk'[f]))
        <4>1. CASE f = e
          BY <1>1, <1>4, <2>4, <3>1, <3>3, <3>4, <4>1 DEF Newer
        <4>2. CASE f # e
          BY <1>4, <2>4, <3>1, <3>4, <4>2 DEF Checking, DiskIsLater, Newer
        <4> QED
          BY <4>1, <4>2
      <3>5. ViewIsLater(d) /\ PassedOver(d)
        BY <2>4, <3>1 DEF Checking, ViewIsLater, PassedOver, Newer
      <3>6. DiskIsLater(d)' /\ ViewIsLater(d)' /\ PassedOver(d)'
        BY <3>4, <3>5 DEF DiskIsLater, ViewIsLater, PassedOver, Newer, LeftOut
      <3> QED
        BY <2>4, <3>1, <3>6 DEF Checking
    <2>7. /\ d.op = "none" <=> d.stage = "idle"
          /\ d.stage = "reading" /\ d.op = "is_ready" =>
                 d = [Idle EXCEPT !.op = "is_ready", !.stage = "reading"]
          /\ d.op = "is_ready" => d.stage # "replacing"
          /\ d.stage \in {"choosing", "globbing", "hashing"} =>
                 d.op \in {"mark_ready", "is_ready"}
      BY <2>2, <2>4 DEF Sound, AtWork
    <2>8. Sound(d)'
      BY <2>4, <2>5, <2>6, <2>7 DEF Sound, AtWork, Made, Marked, Idle, NoRecord, NoView
    <2>9. d.op = "none" => d = c
      BY <2>4 DEF AtWork
    <2>10. Sound(call[p])'
      BY <2>3, <2>8 DEF Sound, AtWork, Made, Marked, Checking, DiskIsLater, ViewIsLater,
                        PassedOver, Newer, LeftOut, Idle, NoRecord, NoView
    <2> QED
      BY <2>1, <2>3, <2>4, <2>9, <2>10
  <1>9. TypeOK'
    <2>1. call' \in [Processes -> Calls]
      BY <1>2, <1>8
    <2> QED
      BY <1>1, <1>3, <1>4, <2>1 DEF IInv, TypeOK
  <1>10. VerdictInv'
    <2> SUFFICES ASSUME NEW p \in Processes PROVE Told(verdict[p], call[p])'
      BY DEF VerdictInv
    <2>1. Told(verdict[p], call[p])
      BY CallIs
    <2>2. verdict'[p] = "ready" => call'[p] = call[p]
      BY <1>3, <1>8, <2>1 DEF Told
    <2> QED
      BY <1>3, <2>1, <2>2 DEF Told, OneSnapshot, LeftOut
  <1>11. CallsInv'
    BY <1>8 DEF CallsInv
  <1> QED
    BY <1>7, <1>9, <1>10, <1>11 DEF IInv

LEMMA Invariant == Spec => []IInv
  <1>1. ASSUME IInv, UNCHANGED vars PROVE IInv'
    <2>1. UNCHANGED <<disk, edits, meta, call, verdict, recorded>>
      BY <1>1 DEF vars
    <2>2. ASSUME NEW p \in Processes PROVE Sound(call[p])' /\ Told(verdict[p], call[p])'
      <3>1. Sound(call[p]) /\ Told(verdict[p], call[p])
        BY <1>1, CallIs
      <3>2. Checking(call[p]) => Checking(call[p])'
        BY <2>1 DEF Checking, DiskIsLater, ViewIsLater, PassedOver, Newer, LeftOut
      <3> QED
        BY <2>1, <3>1, <3>2 DEF Sound, Told, OneSnapshot, LeftOut, Made, Marked, AtWork,
                                Idle, NoRecord, NoView
    <2> QED
      BY <1>1, <2>1, <2>2 DEF IInv, TypeOK, RecordInv, Made, Marked, CallsInv, VerdictInv
  <1>2. ASSUME IInv, [Next]_vars PROVE IInv'
    BY <1>1, <1>2, BeginStep, ReadMetaStep, ChoosePlanStep, GlobRequirementsStep,
       ListFileStep, ReadFileStep, HashedStep, ReplaceMetaStep, KilledStep, EditStep DEF Next
  <1> QED
    BY <1>2, InitEstablishes, PTL DEF Spec

-----------------------------------------------------------------------------
(* The theorems.                                                           *)

\* The types of ReadyRecord.
THEOREM TypeCorrect == Spec => []TypeOK
  <1>1. IInv => TypeOK
    BY DEF IInv
  <1> QED
    BY <1>1, Invariant, PTL

\* ReadyIsOneSnapshot: a builder that is_ready tells yes has been told of the
\* spec files as they were when it read the record, whoever edited them and
\* marked the record meanwhile; not of a file that was removed or put back to
\* an earlier content by the time it answered, nor of a change's plan.md that
\* is left out though it is there.
THEOREM ReadyIsASnapshot == Spec => []ReadyIsOneSnapshot
  <1>1. IInv => ReadyIsOneSnapshot
    BY DEF IInv, VerdictInv, Told, OneSnapshot, LeftOut, ReadyIsOneSnapshot
  <1> QED
    BY <1>1, Invariant, PTL

\* ReadyWasMarked: what is_ready says yes of is what one mark_ready has hashed
\* and put in the record, whichever calls replace the record over one
\* another's and wherever they are killed.
THEOREM ReadyIsMarked == Spec => []ReadyWasMarked
  <1>1. IInv => ReadyWasMarked
    BY DEF IInv, VerdictInv, Told, ReadyWasMarked
  <1> QED
    BY <1>1, Invariant, PTL

-----------------------------------------------------------------------------
(* ChangeArchive: numbers and sequences.                                   *)

\* A set of numbers has a least one.
LEMMA NatMin ==
    ASSUME NEW T, T \subseteq Nat, T # {}
    PROVE  \E x \in T : \A y \in T : x <= y
  <1>1. \E x \in T : \A y \in T : ~ (<<y, x>> \in OpToRel(<, Nat))
    BY NatLessThanWellFounded, WFMin, Zenon
  <1>2. PICK x \in T : \A y \in T : ~ (<<y, x>> \in OpToRel(<, Nat))
    BY <1>1
  <1>3. ASSUME NEW y \in T PROVE x <= y
    <2>1. x \in Nat /\ y \in Nat /\ <<y, x>> \in Nat \X Nat
      OBVIOUS
    <2>2. ~(y < x)
      BY <1>2, <2>1 DEF OpToRel
    <2> QED
      BY <2>1, <2>2
  <1> QED
    BY <1>3

\* And, if it is bounded, a greatest one.
LEMMA RangeMax ==
    ASSUME NEW len \in Nat, NEW T, T \subseteq 1..len, T # {}
    PROVE  \E x \in T : \A y \in T : x >= y
  <1> DEFINE below == {len - i : i \in T}
  <1>1. below \subseteq Nat /\ below # {}
    <2>1. \A i \in T : len - i \in Nat
      OBVIOUS
    <2> QED
      BY <2>1, Zenon
  <1>2. PICK k \in below : \A l \in below : k <= l
    BY <1>1, NatMin, Zenon
  <1>3. PICK x \in T : k = len - x
    BY <1>2
  <1>4. ASSUME NEW y \in T PROVE x >= y
    <2>1. k <= len - y
      BY <1>2
    <2> QED
      BY <1>3, <2>1
  <1> QED
    BY <1>4

\* The sequences that are built by appending are all there are.
LEMMA BuiltByAppending ==
    ASSUME NEW S, NEW good, good \subseteq Seq(S), <<>> \in good,
           \A s \in good, e \in S : Append(s, e) \in good
    PROVE  good = Seq(S)
  <1> SUFFICES ASSUME Seq(S) \ good # {} PROVE FALSE
    OBVIOUS
  <1> DEFINE lengths == {Len(s) : s \in Seq(S) \ good}
  <1>0. \A s \in Seq(S) : Len(s) \in Nat
    OBVIOUS
  <1>1. lengths \subseteq Nat /\ lengths # {}
    BY <1>0, Zenon
  <1>2. PICK n \in lengths : \A k \in lengths : n <= k
    BY <1>1, NatMin
  <1>3. PICK s \in Seq(S) : s \notin good /\ Len(s) = n
    BY <1>2
  <1>4. s # <<>>
    BY <1>3
  <1>5. PICK t \in Seq(S), e \in S : s = Append(t, e)
    BY <1>3, <1>4, SequenceEmptyOrAppend
  <1>6. Len(t) \in Nat /\ Len(s) = Len(t) + 1
    BY <1>5
  <1>7. t \in good
    <2> SUFFICES ASSUME t \notin good PROVE FALSE
      OBVIOUS
    <2>1. Len(t) \in lengths
      BY <1>6
    <2>2. n <= Len(t)
      BY <1>2, <2>1
    <2> QED
      BY <1>3, <1>5, <1>6, <2>2
  <1> QED
    BY <1>3, <1>5, <1>7

-----------------------------------------------------------------------------
(* Dropping.                                                               *)

\* What Dropping has kept of the first blocks of a sequence.
IsKept(kept, s, names) ==
    kept = [i \in 0..Len(s) |->
               IF i = 0 THEN <<>>
               ELSE IF s[i].name \in names THEN kept[i - 1]
               ELSE Append(kept[i - 1], s[i])]

LEMMA KeptExists ==
    ASSUME NEW S, NEW names
    PROVE  \A s \in Seq(S) : \E kept : IsKept(kept, s, names)
  <1> DEFINE good == {s \in Seq(S) : \E kept : IsKept(kept, s, names)}
  <1>1. <<>> \in good
    <2>1. IsKept([i \in 0..Len(<<>>) |-> <<>>], <<>>, names)
      BY DEF IsKept
    <2> QED
      BY <2>1
  <1>2. ASSUME NEW s \in good, NEW e \in S PROVE Append(s, e) \in good
    <2>1. PICK kept : IsKept(kept, s, names)
      OBVIOUS
    <2> DEFINE n == Len(s)
               t == Append(s, e)
               more == [i \in 0..(n + 1) |->
                           IF i <= n THEN kept[i]
                           ELSE IF e.name \in names THEN kept[n] ELSE Append(kept[n], e)]
    <2>2. n \in Nat /\ Len(t) = n + 1 /\ t[n + 1] = e /\ \A i \in 1..n : t[i] = s[i]
      OBVIOUS
    <2>3. \A i \in 0..n : kept[i] = IF i = 0 THEN <<>>
                                    ELSE IF s[i].name \in names THEN kept[i - 1]
                                    ELSE Append(kept[i - 1], s[i])
      BY <2>1, <2>2 DEF IsKept
    <2> HIDE DEF n, t
    <2>4. ASSUME NEW i \in 0..(n + 1)
          PROVE  more[i] = IF i = 0 THEN <<>>
                           ELSE IF t[i].name \in names THEN more[i - 1]
                           ELSE Append(more[i - 1], t[i])
      <3>1. CASE i <= n
        <4>1. more[i] = kept[i] /\ i \in 0..n
          BY <2>2, <3>1
        <4>2. i # 0 => t[i] = s[i] /\ more[i - 1] = kept[i - 1]
          BY <2>2, <3>1
        <4> HIDE DEF more
        <4> QED
          BY <2>3, <4>1, <4>2
      <3>2. CASE i = n + 1
        <4>1. more[i] = (IF e.name \in names THEN kept[n] ELSE Append(kept[n], e))
          BY <2>2, <3>2
        <4>2. i # 0 /\ t[i] = e /\ more[i - 1] = kept[n]
          BY <2>2, <3>2
        <4> HIDE DEF more
        <4> QED
          BY <4>1, <4>2
      <3> QED
        BY <2>2, <3>1, <3>2
    <2>5. more = [i \in 0..(n + 1) |-> more[i]]
      OBVIOUS
    <2> HIDE DEF more
    <2>6. IsKept(more, t, names)
      BY <2>2, <2>4, <2>5 DEF IsKept
    <2> QED
      BY <2>6 DEF t
  <1> HIDE DEF good
  <1>3. good = Seq(S)
    BY <1>1, <1>2, BuiltByAppending DEF good
  <1> QED
    BY <1>3 DEF good

LEMMA KeptIsUnique ==
    ASSUME NEW S, NEW s \in Seq(S), NEW names, NEW f, NEW g,
           IsKept(f, s, names), IsKept(g, s, names)
    PROVE  f = g
  <1> DEFINE bad == {i \in 0..Len(s) : f[i] # g[i]}
  <1>1. Len(s) \in Nat
    OBVIOUS
  <1>2. /\ f = [i \in 0..Len(s) |-> f[i]] /\ g = [i \in 0..Len(s) |-> g[i]]
        /\ \A i \in 0..Len(s) :
               /\ f[i] = IF i = 0 THEN <<>> ELSE IF s[i].name \in names THEN f[i - 1]
                                                 ELSE Append(f[i - 1], s[i])
               /\ g[i] = IF i = 0 THEN <<>> ELSE IF s[i].name \in names THEN g[i - 1]
                                                 ELSE Append(g[i - 1], s[i])
    BY <1>1 DEF IsKept
  <1>3. bad = {}
    <2> SUFFICES ASSUME bad # {} PROVE FALSE
      OBVIOUS
    <2>0. bad \subseteq Nat
      BY <1>1
    <2>1. PICK i \in bad : \A j \in bad : i <= j
      BY <2>0, NatMin, Zenon
    <2>2. i \in 0..Len(s) /\ f[i] # g[i]
      OBVIOUS
    <2>3. i # 0
      BY <1>2, <2>2
    <2>4. i - 1 \in 0..Len(s) /\ ~(i <= i - 1)
      BY <1>1, <2>2, <2>3
    <2>5. f[i - 1] = g[i - 1]
      BY <2>1, <2>4
    <2> QED
      BY <1>2, <2>2, <2>3, <2>5
  <1> QED
    BY <1>2, <1>3

LEMMA DroppingIs ==
    ASSUME NEW S, NEW s \in Seq(S), NEW names, NEW kept, IsKept(kept, s, names)
    PROVE  Dropping(s, names) = kept[Len(s)]
  <1> DEFINE chosen == CHOOSE f : IsKept(f, s, names)
  <1>1. Dropping(s, names) = chosen[Len(s)]
    BY DEF Dropping, IsKept
  <1>2. IsKept(chosen, s, names)
    BY Zenon
  <1> HIDE DEF chosen
  <1>3. chosen = kept
    BY <1>2, KeptIsUnique
  <1> QED
    BY <1>1, <1>3

\* Dropping goes through the blocks one by one.
LEMMA DroppingNothing == ASSUME NEW names PROVE Dropping(<<>>, names) = <<>>
  <1>1. <<>> \in Seq({}) /\ Len(<<>>) = 0
    OBVIOUS
  <1>2. PICK kept : IsKept(kept, <<>>, names)
    BY <1>1, KeptExists
  <1>3. kept[0] = <<>>
    BY <1>1, <1>2 DEF IsKept
  <1> QED
    BY <1>1, <1>2, <1>3, DroppingIs

LEMMA DroppingStep ==
    ASSUME NEW S, NEW names, NEW s \in Seq(S), NEW e \in S
    PROVE  /\ e.name \in names => Dropping(Append(s, e), names) = Dropping(s, names)
           /\ e.name \notin names =>
                  Dropping(Append(s, e), names) = Append(Dropping(s, names), e)
  <1> DEFINE t == Append(s, e)
             n == Len(s)
  <1>1. t \in Seq(S) /\ n \in Nat /\ Len(t) = n + 1 /\ t[n + 1] = e
        /\ \A i \in 1..n : t[i] = s[i]
    OBVIOUS
  <1> HIDE DEF t
  <1>2. PICK all : IsKept(all, t, names)
    BY <1>1, KeptExists
  <1> DEFINE first == [i \in 0..n |-> all[i]]
  <1>3. \A i \in 0..(n + 1) : all[i] = IF i = 0 THEN <<>>
                                       ELSE IF t[i].name \in names THEN all[i - 1]
                                       ELSE Append(all[i - 1], t[i])
    BY <1>1, <1>2 DEF IsKept
  <1>4. ASSUME NEW i \in 0..n
        PROVE  first[i] = IF i = 0 THEN <<>>
                          ELSE IF s[i].name \in names THEN first[i - 1]
                          ELSE Append(first[i - 1], s[i])
    <2>1. first[i] = all[i] /\ i \in 0..(n + 1)
      BY <1>1
    <2>2. i # 0 => first[i - 1] = all[i - 1] /\ t[i] = s[i]
      BY <1>1
    <2> HIDE DEF first
    <2> QED
      BY <1>3, <2>1, <2>2
  <1>5. first[n] = all[n] /\ first = [i \in 0..n |-> first[i]]
    BY <1>1
  <1> HIDE DEF first
  <1>6. IsKept(first, s, names)
    BY <1>4, <1>5 DEF IsKept
  <1>7. Dropping(s, names) = all[n]
    BY <1>5, <1>6, DroppingIs
  <1>8. Dropping(t, names) = all[n + 1]
    BY <1>1, <1>2, DroppingIs
  <1>9. all[n + 1] = IF e.name \in names THEN all[n] ELSE Append(all[n], e)
    <2>1. n + 1 \in 0..(n + 1) /\ n + 1 # 0 /\ (n + 1) - 1 = n
      BY <1>1
    <2> QED
      BY <1>1, <1>3, <2>1
  <1> QED
    BY <1>7, <1>8, <1>9 DEF t

\* The elements of a sequence, as it is built.
LEMMA ElementsAreBuilt ==
    ASSUME NEW S
    PROVE  /\ ToSet(<<>>) = {}
           /\ \A s \in Seq(S), e \in S : ToSet(Append(s, e)) = ToSet(s) \cup {e}
  <1>1. ToSet(<<>>) = {}
    BY DEF ToSet
  <1>2. ASSUME NEW s \in Seq(S), NEW e \in S PROVE ToSet(Append(s, e)) = ToSet(s) \cup {e}
    <2>1. /\ Append(s, e) \in Seq(S) /\ Len(Append(s, e)) = Len(s) + 1
          /\ \A i \in 1..Len(s) : Append(s, e)[i] = s[i]
          /\ Append(s, e)[Len(s) + 1] = e
      BY AppendProperties
    <2> DEFINE t == Append(s, e)
               n == Len(s)
    <2>2. /\ n \in Nat /\ DOMAIN t = 1..(n + 1) /\ DOMAIN s = 1..n
          /\ t[n + 1] = e /\ \A i \in 1..n : t[i] = s[i]
      BY <2>1
    <2> HIDE DEF t, n
    <2>3. ToSet(t) = ToSet(s) \cup {e}
      BY <2>2 DEF ToSet
    <2> QED
      BY <2>3 DEF t
  <1> QED
    BY <1>1, <1>2

LEMMA ConcatHas ==
    ASSUME NEW S, NEW s \in Seq(S), NEW t \in Seq(S)
    PROVE  s \o t \in Seq(S) /\ ToSet(s \o t) = ToSet(s) \cup ToSet(t)
  <1>1. /\ s \o t \in Seq(S) /\ Len(s \o t) = Len(s) + Len(t)
        /\ \A i \in 1..(Len(s) + Len(t)) :
               (s \o t)[i] = IF i <= Len(s) THEN s[i] ELSE t[i - Len(s)]
    BY ConcatProperties
  <1> DEFINE u == s \o t
             m == Len(s)
             n == Len(t)
  <1>2. /\ m \in Nat /\ n \in Nat /\ DOMAIN u = 1..(m + n)
        /\ DOMAIN s = 1..m /\ DOMAIN t = 1..n
        /\ \A i \in 1..(m + n) : u[i] = IF i <= m THEN s[i] ELSE t[i - m]
    BY <1>1
  <1> HIDE DEF u, m, n
  <1>3. ASSUME NEW x \in ToSet(u) PROVE x \in ToSet(s) \cup ToSet(t)
    <2>1. PICK i \in 1..(m + n) : x = u[i]
      BY <1>2 DEF ToSet
    <2>2. CASE i <= m
      BY <1>2, <2>1, <2>2 DEF ToSet
    <2>3. CASE ~(i <= m)
      <3>1. i - m \in 1..n /\ x = t[i - m]
        BY <1>2, <2>1, <2>3
      <3> QED
        BY <1>2, <3>1 DEF ToSet
    <2> QED
      BY <2>2, <2>3
  <1>4. ASSUME NEW x \in ToSet(s) PROVE x \in ToSet(u)
    <2>1. PICK i \in 1..m : x = s[i]
      BY <1>2 DEF ToSet
    <2>2. i \in 1..(m + n) /\ x = u[i]
      BY <1>2, <2>1
    <2> QED
      BY <1>2, <2>2 DEF ToSet
  <1>5. ASSUME NEW x \in ToSet(t) PROVE x \in ToSet(u)
    <2>1. PICK i \in 1..n : x = t[i]
      BY <1>2 DEF ToSet
    <2>2. m + i \in 1..(m + n) /\ x = u[m + i]
      BY <1>2, <2>1
    <2> QED
      BY <1>2, <2>2 DEF ToSet
  <1>6. ToSet(u) = ToSet(s) \cup ToSet(t)
    BY <1>3, <1>4, <1>5
  <1> QED
    BY <1>1, <1>6 DEF u

\* Dropping leaves the blocks of other names.
LEMMA DroppingLeaves ==
    ASSUME NEW S, NEW names
    PROVE  \A s \in Seq(S) :
               /\ Dropping(s, names) \in Seq(S)
               /\ ToSet(Dropping(s, names)) = {b \in ToSet(s) : b.name \notin names}
  <1> DEFINE Left(s) ==
                 /\ Dropping(s, names) \in Seq(S)
                 /\ ToSet(Dropping(s, names)) = {b \in ToSet(s) : b.name \notin names}
             good == {s \in Seq(S) : Left(s)}
  <1>1. <<>> \in good
    <2>1. <<>> \in Seq(S)
      OBVIOUS
    <2>2. ToSet(<<>>) = {}
      BY ElementsAreBuilt
    <2>3. Dropping(<<>>, names) = <<>>
      BY DroppingNothing
    <2> QED
      BY <2>1, <2>2, <2>3
  <1>2. ASSUME NEW s \in good, NEW e \in S PROVE Append(s, e) \in good
    <2>1. s \in Seq(S) /\ Left(s) /\ Append(s, e) \in Seq(S)
      OBVIOUS
    <2>2. ToSet(Append(s, e)) = ToSet(s) \cup {e}
      BY <2>1, ElementsAreBuilt
    <2>3. CASE e.name \in names
      <3>1. Dropping(Append(s, e), names) = Dropping(s, names)
        BY <2>1, <2>3, DroppingStep
      <3> QED
        BY <2>1, <2>2, <2>3, <3>1
    <2>4. CASE e.name \notin names
      <3>1. Dropping(Append(s, e), names) = Append(Dropping(s, names), e)
        BY <2>1, <2>4, DroppingStep
      <3>2. ToSet(Append(Dropping(s, names), e)) = ToSet(Dropping(s, names)) \cup {e}
        BY <2>1, ElementsAreBuilt
      <3>3. Append(Dropping(s, names), e) \in Seq(S)
        BY <2>1
      <3> QED
        BY <2>1, <2>2, <2>4, <3>1, <3>2, <3>3
    <2> QED
      BY <2>3, <2>4
  <1> HIDE DEF good
  <1>3. good = Seq(S)
    BY <1>1, <1>2, BuiltByAppending DEF good
  <1> QED
    BY <1>3 DEF good

\* Dropping more names undoes nothing of what fewer leave.
LEMMA DroppingTwice ==
    ASSUME NEW S, NEW few, NEW many, few \subseteq many
    PROVE  \A s \in Seq(S) : Dropping(Dropping(s, few), many) = Dropping(s, many)
  <1> DEFINE good == {s \in Seq(S) : Dropping(Dropping(s, few), many) = Dropping(s, many)}
  <1>1. <<>> \in good
    BY DroppingNothing
  <1>2. ASSUME NEW s \in good, NEW e \in S PROVE Append(s, e) \in good
    <2>1. /\ s \in Seq(S) /\ Append(s, e) \in Seq(S)
          /\ Dropping(Dropping(s, few), many) = Dropping(s, many)
      OBVIOUS
    <2>2. Dropping(s, few) \in Seq(S)
      BY <2>1, DroppingLeaves
    <2>3. CASE e.name \in few
      <3>1. /\ Dropping(Append(s, e), few) = Dropping(s, few)
            /\ Dropping(Append(s, e), many) = Dropping(s, many)
        BY <2>1, <2>3, DroppingStep
      <3> QED
        BY <2>1, <3>1
    <2>4. CASE e.name \notin few /\ e.name \in many
      <3>1. /\ Dropping(Append(s, e), few) = Append(Dropping(s, few), e)
            /\ Dropping(Append(s, e), many) = Dropping(s, many)
        BY <2>1, <2>4, DroppingStep
      <3>2. Dropping(Append(Dropping(s, few), e), many) = Dropping(Dropping(s, few), many)
        BY <2>2, <2>4, DroppingStep
      <3> QED
        BY <2>1, <3>1, <3>2
    <2>5. CASE e.name \notin many
      <3>1. /\ Dropping(Append(s, e), few) = Append(Dropping(s, few), e)
            /\ Dropping(Append(s, e), many) = Append(Dropping(s, many), e)
        BY <2>1, <2>5, DroppingStep
      <3>2. Dropping(Append(Dropping(s, few), e), many)
                = Append(Dropping(Dropping(s, few), many), e)
        BY <2>2, <2>5, DroppingStep
      <3> QED
        BY <2>1, <3>1, <3>2
    <2> QED
      BY <2>3, <2>4, <2>5
  <1> HIDE DEF good
  <1>3. good = Seq(S)
    BY <1>1, <1>2, BuiltByAppending DEF good
  <1> QED
    BY <1>3 DEF good

\* Of what is appended, Dropping leaves nothing when it drops all its names.
LEMMA DroppingAppended ==
    ASSUME NEW S, NEW names, NEW s \in Seq(S)
    PROVE  \A t \in Seq(S) : Names(t) \subseteq names =>
               Dropping(s \o t, names) = Dropping(s, names)
  <1> DEFINE good == {t \in Seq(S) : Names(t) \subseteq names =>
                                         Dropping(s \o t, names) = Dropping(s, names)}
  <1>1. <<>> \in good
    BY ConcatEmptySeq
  <1>2. ASSUME NEW t \in good, NEW e \in S PROVE Append(t, e) \in good
    <2>1. t \in Seq(S) /\ Append(t, e) \in Seq(S)
      OBVIOUS
    <2>2. ASSUME Names(Append(t, e)) \subseteq names
          PROVE  Dropping(s \o Append(t, e), names) = Dropping(s, names)
      <3>1. ToSet(Append(t, e)) = ToSet(t) \cup {e}
        BY <2>1, ElementsAreBuilt
      <3>2. Names(t) \subseteq names /\ e.name \in names
        BY <2>2, <3>1 DEF Names
      <3>3. Dropping(s \o t, names) = Dropping(s, names)
        BY <3>2
      <3>4. s \o t \in Seq(S)
        BY <2>1, ConcatProperties
      <3>5. s \o Append(t, e) = Append(s \o t, e)
        <4>1. /\ <<e>> \in Seq(S)
              /\ Append(t, e) = t \o <<e>> /\ Append(s \o t, e) = (s \o t) \o <<e>>
          BY <2>1, <3>4, AppendIsConcat
        <4>2. (s \o t) \o <<e>> = s \o (t \o <<e>>)
          BY <2>1, <4>1, ConcatAssociative
        <4> QED
          BY <4>1, <4>2
      <3> QED
        BY <3>2, <3>3, <3>4, <3>5, DroppingStep
    <2> QED
      BY <2>1, <2>2
  <1> HIDE DEF good
  <1>3. good = Seq(S)
    BY <1>1, <1>2, BuiltByAppending DEF good
  <1> QED
    BY <1>3 DEF good

\* Dropping does not tell apart files that differ in the blocks it drops.
LEMMA DroppingDiffering ==
    ASSUME NEW S, NEW s \in Seq(S), NEW t \in Seq(S), Len(s) = Len(t), NEW names,
           \A i \in 1..Len(s) : \/ s[i] = t[i]
                                \/ s[i].name \in names /\ t[i].name \in names
    PROVE  Dropping(s, names) = Dropping(t, names)
  <1>1. PICK kept : IsKept(kept, s, names)
    BY KeptExists
  <1>2. \A i \in 0..Len(s) : kept[i] = IF i = 0 THEN <<>>
                                       ELSE IF s[i].name \in names THEN kept[i - 1]
                                       ELSE Append(kept[i - 1], s[i])
    BY <1>1 DEF IsKept
  <1>3. kept = [i \in 0..Len(s) |-> kept[i]]
    BY <1>1 DEF IsKept
  <1>4. ASSUME NEW i \in 0..Len(s)
        PROVE  kept[i] = IF i = 0 THEN <<>>
                         ELSE IF t[i].name \in names THEN kept[i - 1]
                         ELSE Append(kept[i - 1], t[i])
    <2>1. i # 0 => i \in 1..Len(s)
      OBVIOUS
    <2>2. i = 0 \/ s[i] = t[i] \/ (s[i].name \in names /\ t[i].name \in names)
      BY <2>1
    <2> QED
      BY <1>2, <2>2
  <1>5. IsKept(kept, t, names)
    BY <1>3, <1>4 DEF IsKept
  <1> QED
    BY <1>1, <1>5, DroppingIs

-----------------------------------------------------------------------------
(* apply_delta.                                                            *)

\* The last block of a name.
LEMMA BlockOfIs ==
    ASSUME NEW S, NEW s \in Seq(S), NEW name \in Names(s)
    PROVE  BlockOf(s, name) \in ToSet(s) /\ BlockOf(s, name).name = name
  <1> DEFINE places == {i \in 1..Len(s) : s[i].name = name}
             last == SelectLastInSeq(s, LAMBDA b : b.name = name)
  <1>1. Len(s) \in Nat /\ DOMAIN s = 1..Len(s)
    OBVIOUS
  <1>2. places # {} /\ places \subseteq 1..Len(s)
    BY <1>1 DEF Names, ToSet
  <1>3. last = (CHOOSE x \in places : \A y \in places : x >= y)
    BY <1>2 DEF SelectLastInSeq, Max
  <1>4. \E x \in places : \A y \in places : x >= y
    BY <1>1, <1>2, RangeMax
  <1>5. last \in places
    BY <1>3, <1>4
  <1> QED
    BY <1>1, <1>5 DEF BlockOf, ToSet

LEMMA ReplacedIs ==
    ASSUME NEW S, NEW s \in Seq(S), NEW modified \in Seq(S)
    PROVE  /\ Replaced(s, modified) \in Seq(S)
           /\ Len(Replaced(s, modified)) = Len(s)
           /\ \A i \in 1..Len(s) :
                  /\ Replaced(s, modified)[i].name = s[i].name
                  /\ s[i].name \in Names(modified) =>
                         Replaced(s, modified)[i] = BlockOf(modified, s[i].name)
                  /\ s[i].name \notin Names(modified) => Replaced(s, modified)[i] = s[i]
  <1> DEFINE r == Replaced(s, modified)
  <1>1. /\ Len(s) \in Nat /\ DOMAIN s = 1..Len(s) /\ \A i \in 1..Len(s) : s[i] \in S
    OBVIOUS
  <1>2. /\ DOMAIN r = 1..Len(s)
        /\ \A i \in 1..Len(s) :
               /\ s[i].name \in Names(modified) => r[i] = BlockOf(modified, s[i].name)
               /\ s[i].name \notin Names(modified) => r[i] = s[i]
        /\ r = [i \in 1..Len(s) |-> r[i]]
    BY <1>1 DEF Replaced
  <1> HIDE DEF r
  <1>3. \A b \in ToSet(modified) : b \in S
    BY DEF ToSet
  <1>4. \A name \in Names(modified) : BlockOf(modified, name) \in S /\ BlockOf(modified, name).name = name
    BY <1>3, BlockOfIs
  <1>5. \A i \in 1..Len(s) : r[i] \in S /\ r[i].name = s[i].name
    BY <1>1, <1>2, <1>4
  <1>6. r \in Seq(S) /\ Len(r) = Len(s)
    BY <1>1, <1>2, <1>5
  <1> QED
    BY <1>2, <1>5, <1>6 DEF r

\* What a file holds once a delta is applied: the blocks the delta does not
\* name, the last text of what it modifies, and what it adds.
LEMMA ApplyDeltaIs ==
    ASSUME NEW S, NEW file \in Seq(S), NEW d,
           d.added \in Seq(S), d.removed \in Seq(S), d.modified \in Seq(S)
    PROVE  /\ ApplyDelta(file, d) \in Seq(S)
           /\ \A b \in ToSet(ApplyDelta(file, d)) :
                  /\ b.name \notin Names(d.removed)
                  /\ b.name \in Names(d.modified) => b = BlockOf(d.modified, b.name)
                  /\ b.name \notin NamedIn(d) => b \in ToSet(file)
           /\ \A b \in ToSet(file) \cup ToSet(d.added) :
                  b.name \notin Names(d.removed) /\ b.name \notin Names(d.modified) =>
                      b \in ToSet(ApplyDelta(file, d))
           /\ Dropping(ApplyDelta(file, d), NamedIn(d)) = Dropping(file, NamedIn(d))
  <1> DEFINE main == file \o d.added
             kept == Without(main, d.removed)
             result == Replaced(kept, d.modified)
  <1>1. main \in Seq(S) /\ ToSet(main) = ToSet(file) \cup ToSet(d.added)
    BY ConcatHas
  <1>2. Dropping(main, NamedIn(d)) = Dropping(file, NamedIn(d))
    BY DroppingAppended DEF NamedIn
  <1> HIDE DEF main
  <1>3. /\ kept \in Seq(S)
        /\ ToSet(kept) = {b \in ToSet(main) : b.name \notin Names(d.removed)}
    BY <1>1, DroppingLeaves DEF Without
  <1>4. Dropping(kept, NamedIn(d)) = Dropping(main, NamedIn(d))
    <2>1. Names(d.removed) \subseteq NamedIn(d)
      BY DEF NamedIn
    <2> QED
      BY <1>1, <2>1, DroppingTwice DEF Without
  <1> HIDE DEF kept
  <1>5. /\ result \in Seq(S) /\ Len(result) = Len(kept)
        /\ \A i \in 1..Len(kept) :
               /\ result[i].name = kept[i].name
               /\ kept[i].name \in Names(d.modified) =>
                      result[i] = BlockOf(d.modified, kept[i].name)
               /\ kept[i].name \notin Names(d.modified) => result[i] = kept[i]
    BY <1>3, ReplacedIs
  <1>6. ApplyDelta(file, d) = result
    BY DEF ApplyDelta, result, kept, main
  <1> HIDE DEF result
  <1>7. DOMAIN result = 1..Len(kept) /\ DOMAIN kept = 1..Len(kept)
    BY <1>3, <1>5
  <1>8. Dropping(result, NamedIn(d)) = Dropping(kept, NamedIn(d))
    <2>1. \A i \in 1..Len(result) :
              \/ result[i] = kept[i]
              \/ result[i].name \in NamedIn(d) /\ kept[i].name \in NamedIn(d)
      BY <1>5 DEF NamedIn
    <2> QED
      BY <1>3, <1>5, <2>1, DroppingDiffering
  <1>9. ASSUME NEW b \in ToSet(result)
        PROVE  /\ b.name \notin Names(d.removed)
               /\ b.name \in Names(d.modified) => b = BlockOf(d.modified, b.name)
               /\ b.name \notin NamedIn(d) => b \in ToSet(file)
    <2>1. PICK i \in 1..Len(kept) : b = result[i]
      BY <1>7 DEF ToSet
    <2>2. kept[i] \in ToSet(kept)
      BY <1>7 DEF ToSet
    <2>3. b.name = kept[i].name /\ b.name \notin Names(d.removed)
      BY <1>3, <1>5, <2>1, <2>2
    <2>4. b.name \in Names(d.modified) => b = BlockOf(d.modified, b.name)
      BY <1>5, <2>1, <2>3
    <2>5. ASSUME b.name \notin NamedIn(d) PROVE b \in ToSet(file)
      <3>1. b = kept[i]
        BY <1>5, <2>1, <2>3, <2>5 DEF NamedIn
      <3>2. b \in ToSet(file) \cup ToSet(d.added)
        BY <1>1, <1>3, <2>2, <3>1
      <3>3. b \notin ToSet(d.added)
        BY <2>5 DEF NamedIn, Names
      <3> QED
        BY <3>2, <3>3
    <2> QED
      BY <2>3, <2>4, <2>5
  <1>10. ASSUME NEW b \in ToSet(main), b.name \notin Names(d.removed),
                b.name \notin Names(d.modified)
         PROVE  b \in ToSet(result)
    <2>1. b \in ToSet(kept)
      BY <1>3, <1>10
    <2>2. PICK i \in 1..Len(kept) : b = kept[i]
      BY <1>7, <2>1 DEF ToSet
    <2>3. result[i] = b
      BY <1>5, <1>10, <2>2
    <2> QED
      BY <1>7, <2>3 DEF ToSet
  <1>11. Dropping(result, NamedIn(d)) = Dropping(file, NamedIn(d))
    BY <1>2, <1>4, <1>8
  <1> QED
    BY <1>1, <1>5, <1>6, <1>9, <1>10, <1>11

-----------------------------------------------------------------------------
(* What a file shows of the deltas written to it.                          *)

\* The deltas that were written to the file of a capability.
OutcomesAre(cap, outcomes) ==
    /\ outcomes = [name \in AllNames |-> outcomes[name]]
    /\ \A name \in AllNames : outcomes[name].op # "none" =>
           LET last == outcomes[name]
           IN /\ last.by \in Changes /\ last.delta \in 1..Len(Deltas(last.by))
              /\ Deltas(last.by)[last.delta].cap = cap
              /\ last.op = OpOn(Deltas(last.by)[last.delta], name)

\* The outcomes once delta k of change n is written.
OutcomesAfter(n, k, outcomes) ==
    LET d == Deltas(n)[k]
    IN [name \in AllNames |->
           IF name \in NamedIn(d) THEN [by |-> n, delta |-> k, op |-> OpOn(d, name)]
           ELSE outcomes[name]]

LEMMA DeltaIs ==
    ASSUME ConstantsAreSound, NEW n \in Changes, NEW k \in 1..Len(Deltas(n))
    PROVE  /\ Deltas(n)[k] \in DeltaRecords
           /\ NamedIn(Deltas(n)[k]) \subseteq AllNames
  <1>1. Deltas(n) \in Seq(DeltaRecords)
    BY DEF ConstantsAreSound
  <1> DEFINE deltas == Deltas(n)
  <1>2. deltas[k] \in DeltaRecords /\ deltas[k] \in ToSet(deltas)
    <2> HIDE DEF deltas
    <2>1. k \in 1..Len(deltas) /\ deltas \in Seq(DeltaRecords)
      BY <1>1 DEF deltas
    <2> QED
      BY <2>1 DEF ToSet
  <1>3. ASSUME NEW name \in NamedIn(deltas[k]) PROVE name \in AllNames
    <2> DEFINE names(m) == UNION {NamedIn(d) : d \in ToSet(Deltas(m))}
    <2>1. name \in names(n)
      <3> HIDE DEF deltas
      <3>1. deltas = Deltas(n)
        BY DEF deltas
      <3> HIDE DEF Deltas, NamedIn
      <3> QED
        BY <1>2, <1>3, <3>1
    <2> HIDE DEF names
    <2>2. name \in UNION {names(m) : m \in Changes}
      BY <2>1
    <2> QED
      BY <2>2 DEF AllNames, names
  <1> QED
    BY <1>2, <1>3

\* What a delta does to a name it has.
LEMMA OpIs ==
    ASSUME NEW d, NEW name
    PROVE  /\ OpOn(d, name) \in {"none", "added", "modified", "removed"}
           /\ OpOn(d, name) # "none" <=> name \in NamedIn(d)
           /\ OpOn(d, name) = "removed" => name \in Names(d.removed)
           /\ OpOn(d, name) = "modified" =>
                  name \in Names(d.modified) /\ name \notin Names(d.removed)
           /\ OpOn(d, name) = "added" =>
                  /\ name \in Names(d.added)
                  /\ name \notin Names(d.modified) /\ name \notin Names(d.removed)
  <1>1. CASE name \in Names(d.removed)
    <2>1. OpOn(d, name) = "removed"
      BY <1>1 DEF OpOn
    <2> QED
      BY <1>1, <2>1 DEF NamedIn
  <1>2. CASE name \notin Names(d.removed) /\ name \in Names(d.modified)
    <2>1. OpOn(d, name) = "modified"
      BY <1>2 DEF OpOn
    <2> QED
      BY <1>2, <2>1 DEF NamedIn
  <1>3. CASE name \notin Names(d.removed) /\ name \notin Names(d.modified) /\ name \in Names(d.added)
    <2>1. OpOn(d, name) = "added"
      BY <1>3 DEF OpOn
    <2> QED
      BY <1>3, <2>1 DEF NamedIn
  <1>4. CASE name \notin NamedIn(d)
    <2>1. OpOn(d, name) = "none"
      BY <1>4 DEF OpOn, NamedIn
    <2> QED
      BY <1>4, <2>1 DEF NamedIn
  <1> QED
    BY <1>1, <1>2, <1>3, <1>4 DEF NamedIn

LEMMA AfterIs ==
    ASSUME ConstantsAreSound, NEW n \in Changes, NEW k \in 1..Len(Deltas(n)), NEW outcomes,
           OutcomesAre(Deltas(n)[k].cap, outcomes)
    PROVE  /\ OutcomesAre(Deltas(n)[k].cap, OutcomesAfter(n, k, outcomes))
           /\ Named(OutcomesAfter(n, k, outcomes)) = Named(outcomes) \cup NamedIn(Deltas(n)[k])
  <1> DEFINE d == Deltas(n)[k]
             next == OutcomesAfter(n, k, outcomes)
  <1>1. /\ next = [name \in AllNames |-> next[name]]
        /\ \A name \in AllNames :
               /\ name \in NamedIn(d) =>
                      next[name] = [by |-> n, delta |-> k, op |-> OpOn(d, name)]
               /\ name \notin NamedIn(d) => next[name] = outcomes[name]
    BY DEF OutcomesAfter
  <1>2. NamedIn(d) \subseteq AllNames
    BY DeltaIs
  <1> HIDE DEF next
  <1>3. ASSUME NEW name \in AllNames, next[name].op # "none"
        PROVE  /\ next[name].by \in Changes
               /\ next[name].delta \in 1..Len(Deltas(next[name].by))
               /\ Deltas(next[name].by)[next[name].delta].cap = d.cap
               /\ next[name].op = OpOn(Deltas(next[name].by)[next[name].delta], name)
    <2>1. CASE name \in NamedIn(d)
      <3>1. next[name].by = n /\ next[name].delta = k /\ next[name].op = OpOn(d, name)
        BY <1>1, <2>1
      <3> QED
        BY <3>1
    <2>2. CASE name \notin NamedIn(d)
      BY <1>1, <1>3, <2>2 DEF OutcomesAre
    <2> QED
      BY <2>1, <2>2
  <1>4. Named(next) = Named(outcomes) \cup NamedIn(d)
    <2>1. \A name \in AllNames : name \in NamedIn(d) => next[name].op # "none"
      BY <1>1, OpIs
    <2> QED
      BY <1>1, <1>2, <2>1 DEF Named
  <1>5. OutcomesAre(d.cap, next)
    BY <1>1, <1>3 DEF OutcomesAre
  <1> QED
    BY <1>4, <1>5 DEF next

\* Merging the next delta into a file that follows the deltas written so far
\* gives one that follows them and it.
LEMMA ApplyFollows ==
    ASSUME ConstantsAreSound, NEW n \in Changes, NEW k \in 1..Len(Deltas(n)), NEW file \in Seq(Blocks),
           NEW outcomes, OutcomesAre(Deltas(n)[k].cap, outcomes),
           Follows(Deltas(n)[k].cap, file, outcomes)
    PROVE  /\ ApplyDelta(file, Deltas(n)[k]) \in Seq(Blocks)
           /\ Follows(Deltas(n)[k].cap, ApplyDelta(file, Deltas(n)[k]), OutcomesAfter(n, k, outcomes))
  <1> DEFINE d == Deltas(n)[k]
             cap == d.cap
             result == ApplyDelta(file, d)
             next == OutcomesAfter(n, k, outcomes)
  <1>1. d \in DeltaRecords /\ NamedIn(d) \subseteq AllNames
    BY DeltaIs
  <1>2. d.added \in Seq(Blocks) /\ d.removed \in Seq(Blocks) /\ d.modified \in Seq(Blocks)
    BY <1>1 DEF DeltaRecords
  <1>3. /\ result \in Seq(Blocks)
        /\ \A b \in ToSet(result) :
               /\ b.name \notin Names(d.removed)
               /\ b.name \in Names(d.modified) => b = BlockOf(d.modified, b.name)
               /\ b.name \notin NamedIn(d) => b \in ToSet(file)
        /\ \A b \in ToSet(file) \cup ToSet(d.added) :
               b.name \notin Names(d.removed) /\ b.name \notin Names(d.modified) =>
                   b \in ToSet(result)
        /\ Dropping(result, NamedIn(d)) = Dropping(file, NamedIn(d))
    BY <1>2, ApplyDeltaIs
  <1>4. Named(next) = Named(outcomes) \cup NamedIn(d)
    BY AfterIs
  <1>5. ASSUME NEW name \in AllNames PROVE Shows(cap, result, name, next[name])
    <2>1. CASE name \in NamedIn(d)
      <3>1. next[name] = [by |-> n, delta |-> k, op |-> OpOn(d, name)]
        BY <2>1 DEF OutcomesAfter
      <3> DEFINE op == OpOn(d, name)
                 last == next[name]
      <3>2. last.by = n /\ last.delta = k /\ last.op = op /\ Deltas(last.by)[last.delta] = d
        BY <3>1
      <3> HIDE DEF d, result, next, last, op
      <3>3. CASE op = "removed"
        <4>1. name \notin Names(result)
          BY <1>3, <3>3, OpIs DEF Names, op
        <4> QED
          BY <3>2, <3>3, <4>1 DEF Shows, last
      <3>4. CASE op = "modified"
        <4>1. name \in Names(d.modified)
          BY <3>4, OpIs DEF op
        <4>2. \A b \in ToSet(result) : b.name = name => b = BlockOf(d.modified, name)
          BY <1>3, <4>1
        <4> QED
          BY <3>2, <3>4, <4>2 DEF Shows, last
      <3>5. CASE op = "added"
        <4>1. name \in Names(d.added) /\ name \notin Names(d.modified) /\ name \notin Names(d.removed)
          BY <3>5, OpIs DEF op
        <4>2. BlockOf(d.added, name) \in ToSet(d.added) /\ BlockOf(d.added, name).name = name
          BY <1>2, <4>1, BlockOfIs
        <4>3. BlockOf(d.added, name) \in ToSet(result)
          BY <1>3, <4>1, <4>2
        <4> QED
          BY <3>2, <3>5, <4>3 DEF Shows, last
      <3>6. op \in {"added", "modified", "removed"}
        BY <2>1, OpIs DEF op
      <3> QED
        BY <3>3, <3>4, <3>5, <3>6
    <2>2. CASE name \notin NamedIn(d)
      <3>1. next[name] = outcomes[name]
        BY <2>2 DEF OutcomesAfter
      <3> DEFINE last == outcomes[name]
                 e == Deltas(last.by)[last.delta]
      <3>2. Shows(cap, file, name, last)
        BY DEF Follows
      <3>3. last.op # "none" => /\ e.added \in Seq(Blocks) /\ last.op = OpOn(e, name)
        <4> SUFFICES ASSUME last.op # "none"
                     PROVE  e.added \in Seq(Blocks) /\ last.op = OpOn(e, name)
          OBVIOUS
        <4>1. last.by \in Changes /\ last.delta \in 1..Len(Deltas(last.by)) /\ last.op = OpOn(e, name)
          BY DEF OutcomesAre
        <4>2. e \in DeltaRecords
          BY <4>1, DeltaIs
        <4> QED
          BY <4>1, <4>2 DEF DeltaRecords
      <3> HIDE DEF d, result, next, last, cap, e
      <3> SUFFICES Shows(cap, result, name, last)
        BY <3>1 DEF last
      <3>4. \A b \in ToSet(result) : b.name = name => b \in ToSet(file)
        BY <1>3, <2>2
      <3>5. CASE last.op = "none"
        BY <3>5 DEF Shows, e
      <3>6. CASE last.op = "added"
        <4>1. name \in Names(e.added)
          BY <3>3, <3>6, OpIs
        <4>2. BlockOf(e.added, name).name = name
          BY <3>3, <3>6, <4>1, BlockOfIs
        <4>3. BlockOf(e.added, name) \in ToSet(file)
          BY <3>2, <3>6 DEF Shows, e
        <4>4. name \notin Names(d.removed) /\ name \notin Names(d.modified)
          BY <2>2 DEF NamedIn
        <4>5. BlockOf(e.added, name) \in ToSet(result)
          BY <1>3, <4>2, <4>3, <4>4
        <4> QED
          BY <3>6, <4>5 DEF Shows, e
      <3>7. CASE last.op = "modified"
        <4>1. \A b \in ToSet(file) : b.name = name => b = BlockOf(e.modified, name)
          BY <3>2, <3>7 DEF Shows, e
        <4> QED
          BY <3>4, <3>7, <4>1 DEF Shows, e
      <3>8. CASE last.op = "removed"
        <4>1. FirstFiles[cap] # NoFile => name \notin Names(file)
          BY <3>2, <3>8 DEF Shows, e
        <4>2. FirstFiles[cap] # NoFile => name \notin Names(result)
          BY <3>4, <4>1 DEF Names
        <4> QED
          BY <3>8, <4>2 DEF Shows, e
      <3>9. last.op \in {"none", "added", "modified", "removed"}
        BY <3>3, OpIs
      <3> QED
        BY <3>5, <3>6, <3>7, <3>8, <3>9
    <2> QED
      BY <2>1, <2>2
  <1>6. ASSUME FirstFiles[cap] # NoFile
        PROVE  Dropping(result, Named(next)) = Dropping(FirstFiles[cap], Named(next))
    <2> DEFINE first == FirstFiles[cap]
    <2>1. Dropping(file, Named(outcomes)) = Dropping(first, Named(outcomes))
      BY <1>6 DEF Follows
    <2>2. first \in Seq(Blocks)
      BY <1>1, <1>6 DEF ConstantsAreSound, DeltaRecords
    <2>3. Named(outcomes) \subseteq Named(next) /\ NamedIn(d) \subseteq Named(next)
      BY <1>4
    <2> HIDE DEF first, result, next
    <2>4. /\ Dropping(Dropping(file, Named(outcomes)), Named(next)) = Dropping(file, Named(next))
          /\ Dropping(Dropping(first, Named(outcomes)), Named(next)) = Dropping(first, Named(next))
      BY <2>2, <2>3, DroppingTwice
    <2>5. /\ Dropping(Dropping(file, NamedIn(d)), Named(next)) = Dropping(file, Named(next))
          /\ Dropping(Dropping(result, NamedIn(d)), Named(next)) = Dropping(result, Named(next))
      BY <1>3, <2>3, DroppingTwice
    <2>6. Dropping(result, Named(next)) = Dropping(first, Named(next))
      BY <1>3, <2>1, <2>4, <2>5
    <2> QED
      BY <2>6 DEF first
  <1> QED
    BY <1>3, <1>5, <1>6 DEF Follows

\* A delta that may become a new file says once what it modifies: a repeated
\* block of another text would stay beside the last.
DeltasAreClear ==
    \A n \in Changes : \A d \in ToSet(Deltas(n)) : FirstFiles[d.cap] = NoFile =>
        \A b \in ToSet(d.added) \cup ToSet(d.modified), m \in ToSet(d.modified) :
            b.name = m.name /\ m.name \notin Names(d.removed) => b = m

LEMMA NewFileFollows ==
    ASSUME ConstantsAreSound, DeltasAreClear,
           NEW n \in Changes, NEW k \in 1..Len(Deltas(n)),
           FirstFiles[Deltas(n)[k].cap] = NoFile,
           NEW outcomes, \A name \in AllNames : outcomes[name].op = "none"
    PROVE  /\ Merge(NoFile, Deltas(n)[k]) \in Seq(Blocks)
           /\ Follows(Deltas(n)[k].cap, Merge(NoFile, Deltas(n)[k]), OutcomesAfter(n, k, outcomes))
  <1> DEFINE d == Deltas(n)[k]
             cap == d.cap
             result == Merge(NoFile, d)
             next == OutcomesAfter(n, k, outcomes)
  <1>1. d \in DeltaRecords /\ NamedIn(d) \subseteq AllNames
    BY DeltaIs
  <1>2. d.added \in Seq(Blocks) /\ d.removed \in Seq(Blocks) /\ d.modified \in Seq(Blocks)
    BY <1>1 DEF DeltaRecords
  <1>3. d \in ToSet(Deltas(n))
    <2> DEFINE deltas == Deltas(n)
    <2>1. deltas \in Seq(DeltaRecords) /\ k \in 1..Len(deltas)
      BY DEF ConstantsAreSound
    <2> HIDE DEF deltas
    <2>2. deltas[k] \in ToSet(deltas)
      BY <2>1 DEF ToSet
    <2> QED
      BY <2>2 DEF deltas
  <1>4. \A b \in ToSet(d.added) \cup ToSet(d.modified), m \in ToSet(d.modified) :
            b.name = m.name /\ m.name \notin Names(d.removed) => b = m
    BY <1>3 DEF DeltasAreClear
  <1>5. /\ result \in Seq(Blocks)
        /\ ToSet(result) = ToSet(d.added) \cup ToSet(d.modified) \cup ToSet(d.removed)
    <2> DEFINE first == d.added \o d.modified
    <2>1. first \in Seq(Blocks) /\ ToSet(first) = ToSet(d.added) \cup ToSet(d.modified)
      BY <1>2, ConcatHas
    <2>2. result = first \o d.removed
      BY DEF Merge
    <2> HIDE DEF first, result, d
    <2>3. /\ first \o d.removed \in Seq(Blocks)
          /\ ToSet(first \o d.removed) = ToSet(first) \cup ToSet(d.removed)
      BY <1>2, <2>1, ConcatHas
    <2> QED
      BY <2>1, <2>2, <2>3
  <1> HIDE DEF result
  <1>6. ASSUME NEW name \in AllNames PROVE Shows(cap, result, name, next[name])
    <2>1. CASE name \in NamedIn(d)
      <3>1. next[name] = [by |-> n, delta |-> k, op |-> OpOn(d, name)]
        BY <2>1 DEF OutcomesAfter
      <3> DEFINE op == OpOn(d, name)
                 last == next[name]
      <3>2. last.by = n /\ last.delta = k /\ last.op = op /\ Deltas(last.by)[last.delta] = d
        BY <3>1
      <3>3. FirstFiles[cap] = NoFile
        OBVIOUS
      <3> HIDE DEF d, next, last, op, cap
      <3>4. CASE op = "removed"
        BY <3>2, <3>3, <3>4 DEF Shows, last
      <3>5. CASE op = "modified"
        <4>1. name \in Names(d.modified) /\ name \notin Names(d.removed)
          BY <3>5, OpIs DEF op
        <4> DEFINE m == BlockOf(d.modified, name)
        <4>2. m \in ToSet(d.modified) /\ m.name = name
          BY <1>2, <4>1, BlockOfIs
        <4> HIDE DEF m
        <4>3. \A b \in ToSet(result) : b.name = name => b = m
          BY <1>4, <1>5, <4>1, <4>2 DEF Names
        <4> QED
          BY <3>2, <3>5, <4>3 DEF Shows, last, m
      <3>6. CASE op = "added"
        <4>1. name \in Names(d.added)
          BY <3>6, OpIs DEF op
        <4>2. BlockOf(d.added, name) \in ToSet(result)
          BY <1>2, <1>5, <4>1, BlockOfIs
        <4> QED
          BY <3>2, <3>6, <4>2 DEF Shows, last
      <3>7. op \in {"added", "modified", "removed"}
        BY <2>1, OpIs DEF op
      <3> QED
        BY <3>4, <3>5, <3>6, <3>7
    <2>2. CASE name \notin NamedIn(d)
      <3>1. next[name] = outcomes[name] /\ outcomes[name].op = "none"
        BY <2>2 DEF OutcomesAfter
      <3> HIDE DEF next
      <3> QED
        BY <3>1 DEF Shows
    <2> QED
      BY <2>1, <2>2
  <1> QED
    BY <1>5, <1>6 DEF Follows, result

\* Whatever the file is at first.
LEMMA MergeFollows ==
    ASSUME ConstantsAreSound, DeltasAreClear,
           NEW n \in Changes, NEW k \in 1..Len(Deltas(n)),
           NEW file \in Seq(Blocks) \cup {NoFile}, NEW outcomes,
           OutcomesAre(Deltas(n)[k].cap, outcomes),
           file = NoFile => /\ FirstFiles[Deltas(n)[k].cap] = NoFile
                            /\ \A name \in AllNames : outcomes[name].op = "none",
           file # NoFile => Follows(Deltas(n)[k].cap, file, outcomes)
    PROVE  Follows(Deltas(n)[k].cap, Merge(file, Deltas(n)[k]), OutcomesAfter(n, k, outcomes))
  <1>1. CASE file = NoFile
    BY <1>1, NewFileFollows
  <1>2. CASE file # NoFile
    <2>1. file \in Seq(Blocks) /\ Merge(file, Deltas(n)[k]) = ApplyDelta(file, Deltas(n)[k])
      BY <1>2 DEF Merge
    <2> QED
      BY <1>2, <2>1, ApplyFollows
  <1> QED
    BY <1>1, <1>2

\* What is merged is a file.
LEMMA MergeIsFile ==
    ASSUME ConstantsAreSound, NEW n \in Changes, NEW k \in 1..Len(Deltas(n)),
           NEW file \in Seq(Blocks) \cup {NoFile}
    PROVE  Merge(file, Deltas(n)[k]) \in Seq(Blocks)
  <1> DEFINE d == Deltas(n)[k]
  <1>1. d \in DeltaRecords
    BY DeltaIs
  <1>2. d.added \in Seq(Blocks) /\ d.removed \in Seq(Blocks) /\ d.modified \in Seq(Blocks)
    BY <1>1 DEF DeltaRecords
  <1> HIDE DEF d
  <1>3. CASE file = NoFile
    <2>1. d.added \o d.modified \in Seq(Blocks)
      BY <1>2, ConcatHas
    <2>2. (d.added \o d.modified) \o d.removed \in Seq(Blocks)
      BY <1>2, <2>1, ConcatHas
    <2> QED
      BY <1>3, <2>2 DEF Merge, d
  <1>4. CASE file # NoFile
    <2>1. ApplyDelta(file, d) \in Seq(Blocks)
      BY <1>2, <1>4, ApplyDeltaIs
    <2> QED
      BY <1>4, <2>1 DEF Merge, d
  <1> QED
    BY <1>3, <1>4

-----------------------------------------------------------------------------
(* The invariant.                                                          *)

\* A process that has read a registry file and not yet written it.
Busy(p) == pc[p] \in {"opening", "writing"}
\* The file is truncated and its text is not there yet.
WritesAt(p, cap) == pc[p] = "writing" /\ AtHand(p).cap = cap

ArchiveTypes ==
    /\ pc \in [Procs -> {"idle", "merging", "opening", "writing", "moving", "returned"}]
    /\ change \in [Procs -> Changes \cup {0}] /\ merging \in [Procs -> BOOLEAN]
    /\ merged \in [Procs -> Nat] /\ content \in [Procs -> Seq(Blocks)]
    /\ registry \in [Capabilities -> Seq(Blocks) \cup {NoFile}]
    /\ outdated \subseteq Procs /\ spoilt \subseteq Capabilities
    /\ outcome = [cap \in Capabilities |-> outcome[cap]]
    /\ \A cap \in Capabilities : OutcomesAre(cap, outcome[cap])

\* Where a process is in the deltas of its change.
PlaceInv ==
    \A p \in Procs :
        /\ pc[p] # "idle" => change[p] \in Changes
        /\ pc[p] \in {"merging", "opening", "writing"} => merging[p]
        /\ pc[p] # "idle" /\ merging[p] => merged[p] <= Len(Deltas(change[p]))
        /\ Busy(p) => merged[p] < Len(Deltas(change[p]))
        /\ pc[p] \in {"moving", "returned"} /\ merging[p] =>
               merged[p] = Len(Deltas(change[p]))
        /\ p \in outdated => Busy(p)

\* A change is archived by one process at a time.
DistinctInv == \A p, q \in Procs : p # q /\ change[p] = change[q] => change[p] = 0

\* A file that nobody is writing follows the deltas written to it.
FileInv ==
    \A cap \in Capabilities :
        /\ registry[cap] = NoFile =>
               /\ FirstFiles[cap] = NoFile
               /\ \A name \in AllNames : outcome[cap][name].op = "none"
        /\ registry[cap] # NoFile /\ cap \notin spoilt
               /\ (\A p \in Procs : ~WritesAt(p, cap))
           => Follows(cap, registry[cap], outcome[cap])

\* What a process is about to write follows them and its own delta, unless
\* the file was written since it was read, or is being written.
ContentInv ==
    \A p \in Procs : Busy(p) =>
        LET cap == AtHand(p).cap
        IN /\ pc[p] = "writing" => registry[cap] # NoFile
           /\ p \notin outdated /\ cap \notin spoilt =>
                  /\ pc[p] = "writing" => registry[cap] = <<>>
                  /\ (\A q \in Procs \ {p} : ~WritesAt(q, cap)) =>
                         Follows(cap, content[p],
                                 OutcomesAfter(change[p], merged[p] + 1, outcome[cap]))

\* Delta i is the last of the first k deltas of a change that names name.
LastOf(n, i, k, cap, name) ==
    /\ Deltas(n)[i].cap = cap /\ name \in NamedIn(Deltas(n)[i])
    /\ \A j \in 1..k : Deltas(n)[j].cap = cap /\ name \in NamedIn(Deltas(n)[j]) => j <= i

\* Of the deltas a process has merged, the last that names a requirement is
\* the last written of it, or another change has written it since.
MergedInv ==
    \A p \in Procs : change[p] \in Changes /\ merging[p] =>
        \A cap \in Capabilities \ spoilt, name \in AllNames, i \in 1..merged[p] :
            LastOf(change[p], i, merged[p], cap, name) =>
                LET last == outcome[cap][name]
                IN IF last.by = change[p] THEN last.delta = i ELSE last.by # 0

ArchiveInv ==
    ArchiveTypes /\ PlaceInv /\ DistinctInv /\ FileInv /\ ContentInv /\ MergedInv

LEMMA ArchiveInvInit == ASSUME ConstantsAreSound, ArchiveInit PROVE ArchiveInv
  <1>1. ArchiveTypes
    <2>1. \A cap \in Capabilities : OutcomesAre(cap, outcome[cap])
      BY DEF ArchiveInit, OutcomesAre, Untouched
    <2>2. outcome = [cap \in Capabilities |-> outcome[cap]]
      BY DEF ArchiveInit
    <2> QED
      BY <2>1, <2>2 DEF ArchiveInit, ArchiveTypes, ConstantsAreSound
  <1>2. PlaceInv /\ DistinctInv /\ ContentInv
    BY DEF ArchiveInit, PlaceInv, DistinctInv, ContentInv, Busy
  <1>3. FileInv
    <2> SUFFICES ASSUME NEW cap \in Capabilities
                 PROVE  /\ registry[cap] = NoFile => FirstFiles[cap] = NoFile
                        /\ \A name \in AllNames : outcome[cap][name].op = "none"
                        /\ Follows(cap, registry[cap], outcome[cap])
      BY DEF FileInv
    <2>1. registry[cap] = FirstFiles[cap]
      BY DEF ArchiveInit
    <2>2. \A name \in AllNames : outcome[cap][name].op = "none"
      BY DEF ArchiveInit, Untouched
    <2>3. Named(outcome[cap]) = {}
      BY <2>2 DEF Named
    <2>4. \A name \in AllNames : Shows(cap, registry[cap], name, outcome[cap][name])
      BY <2>2 DEF Shows
    <2> QED
      BY <2>1, <2>2, <2>4 DEF Follows
  <1>4. MergedInv
    <2>1. 0 \notin Changes /\ \A p \in Procs : change[p] = 0
      BY DEF ArchiveInit, ConstantsAreSound, Changes
    <2> QED
      BY <2>1 DEF MergedInv
  <1> QED
    BY <1>1, <1>2, <1>3, <1>4 DEF ArchiveInv

\* The delta at hand is one of the change.
LEMMA AtHandIs ==
    ASSUME ConstantsAreSound, ArchiveTypes, PlaceInv, NEW p \in Procs,
           change[p] \in Changes, merged[p] < Len(Deltas(change[p]))
    PROVE  /\ Len(Deltas(change[p])) \in Nat
           /\ merged[p] + 1 \in 1..Len(Deltas(change[p]))
           /\ AtHand(p) = Deltas(change[p])[merged[p] + 1]
           /\ AtHand(p).cap \in Capabilities
           /\ NamedIn(AtHand(p)) \subseteq AllNames
  <1>1. merged[p] \in Nat
    BY DEF ArchiveTypes
  <1>2. Len(Deltas(change[p])) \in Nat
    <2>1. Deltas(change[p]) \in Seq(DeltaRecords)
      BY DEF ConstantsAreSound
    <2> DEFINE deltas == Deltas(change[p])
    <2> HIDE DEF deltas
    <2>2. Len(deltas) \in Nat
      BY <2>1 DEF deltas
    <2> QED
      BY <2>2 DEF deltas
  <1>3. merged[p] + 1 \in 1..Len(Deltas(change[p]))
    BY <1>1, <1>2
  <1>4. AtHand(p) = Deltas(change[p])[merged[p] + 1]
    BY DEF AtHand
  <1>5. AtHand(p) \in DeltaRecords /\ NamedIn(AtHand(p)) \subseteq AllNames
    BY <1>3, <1>4, DeltaIs
  <1> QED
    BY <1>2, <1>3, <1>4, <1>5 DEF DeltaRecords

LEMMA BusyIs ==
    ASSUME ConstantsAreSound, ArchiveTypes, PlaceInv, NEW p \in Procs, Busy(p)
    PROVE  /\ change[p] \in Changes /\ merged[p] < Len(Deltas(change[p]))
           /\ AtHand(p).cap \in Capabilities
  <1>1. change[p] \in Changes /\ merged[p] < Len(Deltas(change[p]))
    BY DEF PlaceInv, Busy
  <1> QED
    BY <1>1, AtHandIs

\* A process that writes no file and begins no write.
LEMMA QuietStep ==
    ASSUME ConstantsAreSound, ArchiveInv, NEW p \in Procs, pc[p] # "writing",
           NEW to \in {"idle", "merging", "moving", "returned"},
           NEW n \in Changes \cup {0}, NEW b \in BOOLEAN, NEW k \in Nat, NEW t \in Seq(Blocks),
           pc' = [pc EXCEPT ![p] = to], change' = [change EXCEPT ![p] = n],
           merging' = [merging EXCEPT ![p] = b], merged' = [merged EXCEPT ![p] = k],
           content' = [content EXCEPT ![p] = t], outdated' = outdated \ {p},
           UNCHANGED <<registry, spoilt, outcome>>,
           k = 0 \/ (n = change[p] /\ k = merged[p] /\ b = merging[p]),
           n # 0 => \A q \in Procs \ {p} : change[q] # n,
           to # "idle" => n \in Changes /\ (b => k <= Len(Deltas(n))),
           to = "merging" => b,
           to \in {"moving", "returned"} /\ b => k = Len(Deltas(n))
    PROVE  ArchiveInv'
  <1> USE DEF ArchiveInv
  <1>1. ArchiveTypes'
    BY DEF ArchiveTypes
  <1>2. /\ pc'[p] = to /\ change'[p] = n /\ merging'[p] = b /\ merged'[p] = k /\ content'[p] = t
        /\ ~Busy(p)' /\ p \notin outdated'
    BY DEF ArchiveTypes, Busy
  <1>3. ASSUME NEW q \in Procs, q # p
        PROVE  /\ pc'[q] = pc[q] /\ change'[q] = change[q] /\ merging'[q] = merging[q]
               /\ merged'[q] = merged[q] /\ content'[q] = content[q]
               /\ (Busy(q)' <=> Busy(q)) /\ AtHand(q)' = AtHand(q)
               /\ (q \in outdated' <=> q \in outdated)
    <2>1. /\ pc'[q] = pc[q] /\ change'[q] = change[q] /\ merging'[q] = merging[q]
          /\ merged'[q] = merged[q] /\ content'[q] = content[q]
          /\ (q \in outdated' <=> q \in outdated)
      BY <1>3 DEF ArchiveTypes
    <2> QED
      BY <2>1 DEF Busy, AtHand
  <1>4. \A q \in Procs, cap \in Capabilities : WritesAt(q, cap)' <=> WritesAt(q, cap)
    <2> SUFFICES ASSUME NEW q \in Procs, NEW cap \in Capabilities
                 PROVE  WritesAt(q, cap)' <=> WritesAt(q, cap)
      OBVIOUS
    <2>1. CASE q = p
      <3>1. pc[q] # "writing" /\ pc'[q] # "writing"
        BY <1>2, <2>1
      <3> QED
        BY <3>1 DEF WritesAt
    <2>2. CASE q # p
      BY <1>3, <2>2 DEF WritesAt
    <2> QED
      BY <2>1, <2>2
  <1>5. PlaceInv'
    <2> SUFFICES ASSUME NEW q \in Procs
                 PROVE  (/\ pc[q] # "idle" => change[q] \in Changes
                         /\ pc[q] \in {"merging", "opening", "writing"} => merging[q]
                         /\ pc[q] # "idle" /\ merging[q] => merged[q] <= Len(Deltas(change[q]))
                         /\ Busy(q) => merged[q] < Len(Deltas(change[q]))
                         /\ pc[q] \in {"moving", "returned"} /\ merging[q] =>
                                merged[q] = Len(Deltas(change[q]))
                         /\ q \in outdated => Busy(q))'
      BY DEF PlaceInv
    <2>1. CASE q = p
      <3>1. /\ pc'[q] = to /\ change'[q] = n /\ merging'[q] = b /\ merged'[q] = k
            /\ q \notin outdated'
        BY <1>2, <2>1
      <3> QED
        BY <3>1 DEF Busy
    <2>2. CASE q # p
      BY <1>3, <2>2 DEF PlaceInv
    <2> QED
      BY <2>1, <2>2
  <1>6. DistinctInv'
    <2> SUFFICES ASSUME NEW q \in Procs, NEW r \in Procs, q # r, change'[q] = change'[r]
                 PROVE  change'[q] = 0
      BY DEF DistinctInv
    <2>1. CASE q = p
      BY <1>2, <1>3, <2>1
    <2>2. CASE r = p
      BY <1>2, <1>3, <2>2
    <2>3. CASE q # p /\ r # p
      BY <1>3, <2>3 DEF DistinctInv
    <2> QED
      BY <2>1, <2>2, <2>3
  <1>7. FileInv'
    <2> SUFFICES ASSUME NEW cap \in Capabilities
                 PROVE  (/\ registry[cap] = NoFile =>
                                /\ FirstFiles[cap] = NoFile
                                /\ \A name \in AllNames : outcome[cap][name].op = "none"
                         /\ registry[cap] # NoFile /\ cap \notin spoilt
                                /\ (\A q \in Procs : ~WritesAt(q, cap))
                            => Follows(cap, registry[cap], outcome[cap]))'
      BY DEF FileInv
    <2>1. registry'[cap] = registry[cap] /\ outcome'[cap] = outcome[cap] /\ spoilt' = spoilt
      OBVIOUS
    <2>2. Follows(cap, registry[cap], outcome[cap])' <=> Follows(cap, registry[cap], outcome[cap])
      BY <2>1
    <2> QED
      BY <1>4, <2>1, <2>2 DEF FileInv
  <1>8. ContentInv'
    <2> SUFFICES ASSUME NEW q \in Procs, Busy(q)'
                 PROVE  (LET cap == AtHand(q).cap
                         IN /\ pc[q] = "writing" => registry[cap] # NoFile
                            /\ q \notin outdated /\ cap \notin spoilt =>
                               /\ pc[q] = "writing" => registry[cap] = <<>>
                               /\ (\A r \in Procs \ {q} : ~WritesAt(r, cap)) =>
                                      Follows(cap, content[q],
                                              OutcomesAfter(change[q], merged[q] + 1, outcome[cap])))'
      BY DEF ContentInv
    <2>1. q # p
      BY <1>2
    <2> DEFINE cap == AtHand(q).cap
    <2>2. AtHand(q)'.cap = cap /\ Busy(q)
      BY <1>3, <2>1
    <2>3. cap \in Capabilities
      BY <2>1, <2>2, BusyIs
    <2> QED
      BY <1>3, <1>4, <2>1, <2>2, <2>3 DEF ContentInv
  <1>9. MergedInv'
    <2> SUFFICES ASSUME NEW q \in Procs, change'[q] \in Changes, merging'[q],
                        NEW cap \in Capabilities \ spoilt', NEW name \in AllNames,
                        NEW i \in 1..merged'[q],
                        LastOf(change'[q], i, merged'[q], cap, name)
                 PROVE  IF outcome'[cap][name].by = change'[q]
                        THEN outcome'[cap][name].delta = i
                        ELSE outcome'[cap][name].by # 0
      BY DEF MergedInv
    <2>1. change'[q] = change[q] /\ merging'[q] = merging[q] /\ merged'[q] = merged[q]
      <3>1. CASE q = p
        <4>1. k # 0
          BY <1>2, <3>1
        <4> QED
          BY <1>2, <3>1, <4>1
      <3> QED
        BY <1>3, <3>1
    <2> QED
      BY <2>1, ZenonT(60) DEF MergedInv
  <1> QED
    BY <1>1, <1>5, <1>6, <1>7, <1>8, <1>9

LEMMA SameStep ==
    ASSUME ArchiveInv, UNCHANGED <<pc, change, merging, merged, content, registry, outdated,
                             spoilt, outcome>>
    PROVE  ArchiveInv'
  <1>1. \A p \in Procs : /\ (Busy(p)' <=> Busy(p)) /\ AtHand(p)' = AtHand(p)
                         /\ \A cap \in Capabilities : WritesAt(p, cap)' <=> WritesAt(p, cap)
    BY DEF Busy, AtHand, WritesAt
  <1>2. ArchiveTypes'
    BY DEF ArchiveInv, ArchiveTypes
  <1>3. PlaceInv' /\ DistinctInv' /\ MergedInv'
    BY DEF ArchiveInv, PlaceInv, DistinctInv, MergedInv, Busy
  <1>4. FileInv' /\ ContentInv'
    BY DEF ArchiveInv, FileInv, ContentInv, Busy, AtHand, WritesAt
  <1> QED
    BY <1>2, <1>3, <1>4 DEF ArchiveInv

\* A process with no file in its hands holds no file that was written since.
LEMMA IdleHoldsNothing ==
    ASSUME ArchiveInv, NEW p \in Procs, ~Busy(p)
    PROVE  outdated \ {p} = outdated
  BY DEF ArchiveInv, PlaceInv

LEMMA LeavesStep ==
    ASSUME ConstantsAreSound, ArchiveInv, NEW p \in Procs, pc[p] # "writing", Leaves(p),
           outdated' = outdated \ {p}, UNCHANGED <<registry, spoilt, outcome>>
    PROVE  ArchiveInv'
  <1> DEFINE to == "idle"
             n == 0
             b == TRUE
             k == 0
             t == <<>>
  <1>1. /\ to \in {"idle", "merging", "moving", "returned"} /\ n \in Changes \cup {0}
        /\ b \in BOOLEAN /\ k \in Nat /\ t \in Seq(Blocks)
    OBVIOUS
  <1>2. /\ pc' = [pc EXCEPT ![p] = to] /\ change' = [change EXCEPT ![p] = n]
        /\ merging' = [merging EXCEPT ![p] = b] /\ merged' = [merged EXCEPT ![p] = k]
        /\ content' = [content EXCEPT ![p] = t]
    BY DEF Leaves, Goto
  <1>3. k = 0 /\ n = 0 /\ to = "idle"
    OBVIOUS
  <1> HIDE DEF to, n, b, k, t
  <1> QED
    BY <1>1, <1>2, <1>3, QuietStep

LEMMA RunStep ==
    ASSUME ConstantsAreSound, ArchiveInv, NEW p \in Procs, NEW n \in Changes, Run(p, n)
    PROVE  ArchiveInv'
  <1>1. pc[p] \in {"idle", "returned"} /\ \A q \in Procs \ {p} : change[q] # n
    BY DEF Run, MayArchive
  <1>2. PICK b \in BOOLEAN : /\ merging' = [merging EXCEPT ![p] = b]
                             /\ pc' = [pc EXCEPT ![p] = IF b THEN "merging" ELSE "moving"]
    BY DEF Run, Goto
  <1> DEFINE to == IF b THEN "merging" ELSE "moving"
             k == 0
             t == content[p]
  <1>3. /\ to \in {"idle", "merging", "moving", "returned"} /\ k \in Nat /\ t \in Seq(Blocks)
        /\ n \in Changes \cup {0}
    BY DEF ArchiveInv, ArchiveTypes
  <1>4. content' = [content EXCEPT ![p] = t] /\ merged' = [merged EXCEPT ![p] = k]
        /\ change' = [change EXCEPT ![p] = n]
    BY DEF Run, ArchiveInv, ArchiveTypes
  <1>5. outdated' = outdated \ {p} /\ UNCHANGED <<registry, spoilt, outcome>>
    BY <1>1, IdleHoldsNothing DEF Run, files, Busy
  <1>6. 0 <= Len(Deltas(n))
    <2> DEFINE deltas == Deltas(n)
    <2>1. deltas \in Seq(DeltaRecords)
      BY DEF ConstantsAreSound
    <2> HIDE DEF deltas
    <2>2. 0 <= Len(deltas)
      BY <2>1
    <2> QED
      BY <2>2 DEF deltas
  <1>7. /\ pc[p] # "writing" /\ k = 0 /\ pc' = [pc EXCEPT ![p] = to]
        /\ to = "merging" => b
        /\ to \in {"moving", "returned"} => ~b
        /\ b => k <= Len(Deltas(n))
    BY <1>1, <1>2, <1>6
  <1> HIDE DEF to, k, t
  <1> QED
    BY <1>1, <1>2, <1>3, <1>4, <1>5, <1>7, QuietStep

\* The end of the merge, and the move that leaves the process returned.
LEMMA OnwardStep ==
    ASSUME ConstantsAreSound, ArchiveInv, NEW p \in Procs, NEW to \in {"moving", "returned"},
           \/ pc[p] = "merging" /\ merged[p] = Len(Deltas(change[p]))
           \/ pc[p] = "moving",
           pc' = [pc EXCEPT ![p] = to], UNCHANGED locals, UNCHANGED files
    PROVE  ArchiveInv'
  <1> DEFINE n == change[p]
             b == merging[p]
             k == merged[p]
             t == content[p]
  <1>1. n \in Changes \cup {0} /\ b \in BOOLEAN /\ k \in Nat /\ t \in Seq(Blocks)
    BY DEF ArchiveInv, ArchiveTypes
  <1>2. /\ change' = [change EXCEPT ![p] = n] /\ merging' = [merging EXCEPT ![p] = b]
        /\ merged' = [merged EXCEPT ![p] = k] /\ content' = [content EXCEPT ![p] = t]
    BY DEF ArchiveInv, ArchiveTypes, locals
  <1>3. outdated' = outdated \ {p} /\ UNCHANGED <<registry, spoilt, outcome>>
    BY IdleHoldsNothing DEF files, Busy
  <1>4. n # 0 => \A q \in Procs \ {p} : change[q] # n
    BY DEF ArchiveInv, DistinctInv
  <1>5. n \in Changes /\ (b => k <= Len(Deltas(n))) /\ (b => k = Len(Deltas(n)))
    BY DEF ArchiveInv, PlaceInv
  <1>6. /\ pc[p] # "writing" /\ to \in {"idle", "merging", "moving", "returned"}
        /\ n = change[p] /\ k = merged[p] /\ b = merging[p]
        /\ to # "merging" /\ to # "idle"
    OBVIOUS
  <1> HIDE DEF n, b, k, t
  <1> QED
    BY <1>1, <1>2, <1>3, <1>4, <1>5, <1>6, QuietStep

LEMMA MergeReturnsStep ==
    ASSUME ConstantsAreSound, ArchiveInv, NEW p \in Procs, MergeReturns(p)
    PROVE  ArchiveInv'
  BY OnwardStep DEF MergeReturns, Goto

LEMMA MoveStep ==
    ASSUME ConstantsAreSound, ArchiveInv, NEW p \in Procs, Move(p) PROVE ArchiveInv'
  <1> DEFINE e == <<began[p], NameOf[change[p]]>>
  <1>1. pc[p] = "moving" /\ UNCHANGED files
    BY DEF Move
  <1>2. CASE pc' = [pc EXCEPT ![p] = "returned"] /\ UNCHANGED locals
    BY <1>1, <1>2, OnwardStep
  <1>3. CASE Leaves(p)
    <2>1. pc[p] # "writing" /\ outdated' = outdated \ {p}
          /\ UNCHANGED <<registry, spoilt, outcome>>
      BY <1>1, IdleHoldsNothing DEF files, Busy
    <2> QED
      BY <1>3, <2>1, LeavesStep
  <1> QED
    BY <1>2, <1>3 DEF Move, Goto

LEMMA ReadSourceStep ==
    ASSUME ConstantsAreSound, ArchiveInv, NEW p \in Procs, ReadSource(p)
    PROVE  ArchiveInv'
  <1>1. pc[p] = "merging" /\ UNCHANGED files
    BY DEF ReadSource
  <1>2. CASE UNCHANGED <<pc, change, began, merging, merged, content, runs, day, archive>>
    BY <1>1, <1>2, SameStep DEF files
  <1>3. CASE Leaves(p)
    <2>1. pc[p] # "writing" /\ outdated' = outdated \ {p}
          /\ UNCHANGED <<registry, spoilt, outcome>>
      BY <1>1, IdleHoldsNothing DEF files, Busy
    <2> QED
      BY <1>3, <2>1, LeavesStep
  <1> QED
    BY <1>2, <1>3 DEF ReadSource

LEMMA ReadTargetStep ==
    ASSUME ConstantsAreSound, DeltasAreClear, ArchiveInv, NEW p \in Procs, ReadTarget(p)
    PROVE  ArchiveInv'
  <1> DEFINE n == change[p]
             k == merged[p] + 1
             d == AtHand(p)
             c == AtHand(p).cap
  <1>0. ArchiveTypes /\ PlaceInv /\ DistinctInv /\ FileInv /\ ContentInv /\ MergedInv
    BY DEF ArchiveInv
  <1>1. /\ pc[p] = "merging" /\ n \in Changes /\ merging[p] /\ merged[p] < Len(Deltas(n))
        /\ ~Busy(p) /\ p \notin outdated
    BY <1>0 DEF ReadTarget, PlaceInv, Busy
  <1>2. /\ k \in 1..Len(Deltas(n)) /\ d = Deltas(n)[k] /\ c \in Capabilities
        /\ Len(Deltas(n)) \in Nat
    BY <1>0, <1>1, AtHandIs
  <1>3. /\ pc' = [pc EXCEPT ![p] = "opening"]
        /\ content' = [content EXCEPT ![p] = Merge(registry[c], d)]
        /\ UNCHANGED <<change, merging, merged, registry, outdated, spoilt, outcome>>
    BY DEF ReadTarget, Goto, files
  <1>4. registry[c] \in Seq(Blocks) \cup {NoFile} /\ OutcomesAre(c, outcome[c])
    BY <1>0, <1>2 DEF ArchiveTypes
  <1>5. Merge(registry[c], d) \in Seq(Blocks)
    BY <1>1, <1>2, <1>4, MergeIsFile
  <1>6. ArchiveTypes'
    BY <1>0, <1>3, <1>5 DEF ArchiveTypes
  <1>7. /\ pc'[p] = "opening" /\ content'[p] = Merge(registry[c], d)
        /\ \A q \in Procs : q # p => pc'[q] = pc[q] /\ content'[q] = content[q]
    BY <1>0, <1>3 DEF ArchiveTypes
  <1>8. \A q \in Procs : AtHand(q)' = AtHand(q) /\ (q # p => (Busy(q)' <=> Busy(q)))
    BY <1>3, <1>7 DEF AtHand, Busy
  <1>9. \A q \in Procs, cap \in Capabilities : WritesAt(q, cap)' <=> WritesAt(q, cap)
    BY <1>1, <1>7, <1>8 DEF WritesAt
  <1>10. PlaceInv'
    <2> SUFFICES ASSUME NEW q \in Procs
                 PROVE  (/\ pc[q] # "idle" => change[q] \in Changes
                         /\ pc[q] \in {"merging", "opening", "writing"} => merging[q]
                         /\ pc[q] # "idle" /\ merging[q] => merged[q] <= Len(Deltas(change[q]))
                         /\ Busy(q) => merged[q] < Len(Deltas(change[q]))
                         /\ pc[q] \in {"moving", "returned"} /\ merging[q] =>
                                merged[q] = Len(Deltas(change[q]))
                         /\ q \in outdated => Busy(q))'
      BY DEF PlaceInv
    <2>1. CASE q = p
      BY <1>0, <1>1, <1>3, <1>7, <2>1 DEF Busy, PlaceInv
    <2>2. CASE q # p
      BY <1>0, <1>3, <1>7, <1>8, <2>2 DEF PlaceInv
    <2> QED
      BY <2>1, <2>2
  <1>11. DistinctInv' /\ MergedInv'
    BY <1>0, <1>3 DEF DistinctInv, MergedInv
  <1>12. FileInv'
    BY <1>0, <1>3, <1>9 DEF FileInv
  <1>13. ContentInv'
    <2> SUFFICES ASSUME NEW q \in Procs, Busy(q)'
                 PROVE  (LET cap == AtHand(q).cap
                         IN /\ pc[q] = "writing" => registry[cap] # NoFile
                            /\ q \notin outdated /\ cap \notin spoilt =>
                               /\ pc[q] = "writing" => registry[cap] = <<>>
                               /\ (\A r \in Procs \ {q} : ~WritesAt(r, cap)) =>
                                      Follows(cap, content[q],
                                              OutcomesAfter(change[q], merged[q] + 1, outcome[cap])))'
      BY DEF ContentInv
    <2>1. CASE q = p
      <3>1. ASSUME c \notin spoilt, \A r \in Procs \ {p} : ~WritesAt(r, c)
            PROVE  Follows(c, Merge(registry[c], d), OutcomesAfter(n, k, outcome[c]))
        <4>1. \A r \in Procs : ~WritesAt(r, c)
          BY <1>1, <3>1 DEF WritesAt
        <4>2. registry[c] # NoFile => Follows(c, registry[c], outcome[c])
          BY <1>0, <1>2, <3>1, <4>1 DEF FileInv
        <4>3. registry[c] = NoFile => /\ FirstFiles[c] = NoFile
                                      /\ \A name \in AllNames : outcome[c][name].op = "none"
          BY <1>0, <1>2 DEF FileInv
        <4> DEFINE file == registry[c]
                   outcomes == outcome[c]
        <4> HIDE DEF n, k, c, d, file, outcomes
        <4>4. c = Deltas(n)[k].cap
          BY <1>2 DEF c, d
        <4>5. Follows(Deltas(n)[k].cap, Merge(file, Deltas(n)[k]), OutcomesAfter(n, k, outcomes))
          BY <1>1, <1>2, <1>4, <4>2, <4>3, <4>4, MergeFollows DEF file, outcomes
        <4> QED
          BY <1>2, <4>4, <4>5 DEF file, outcomes
      <3>2. /\ AtHand(q)'.cap = c /\ pc'[q] # "writing" /\ content'[q] = Merge(registry[c], d)
            /\ change'[q] = n /\ merged'[q] + 1 = k
        BY <1>3, <1>7, <1>8, <2>1
      <3> HIDE DEF n, k, c, d
      <3> QED
        BY <1>2, <1>3, <1>9, <2>1, <3>1, <3>2
    <2>2. CASE q # p
      <3>1. Busy(q) /\ AtHand(q)'.cap = AtHand(q).cap /\ AtHand(q).cap \in Capabilities
        BY <1>0, <1>8, <2>2, BusyIs
      <3> QED
        BY <1>0, <1>3, <1>7, <1>8, <1>9, <2>2, <3>1 DEF ContentInv
    <2> QED
      BY <2>1, <2>2
  <1> QED
    BY <1>6, <1>10, <1>11, <1>12, <1>13 DEF ArchiveInv

LEMMA TruncateStep ==
    ASSUME ConstantsAreSound, ArchiveInv, NEW p \in Procs, Truncate(p)
    PROVE  ArchiveInv'
  <1>0. ArchiveTypes /\ PlaceInv /\ DistinctInv /\ FileInv /\ ContentInv /\ MergedInv
    BY DEF ArchiveInv
  <1>1. pc[p] = "opening" /\ Busy(p) /\ AtHand(p).cap \in Capabilities
    BY <1>0, BusyIs DEF Truncate, Busy
  <1>2. PICK c \in Capabilities : c = AtHand(p).cap
    BY <1>1
  <1>3. /\ pc' = [pc EXCEPT ![p] = "writing"]
        /\ registry' = [registry EXCEPT ![c] = <<>>]
        /\ UNCHANGED <<change, merging, merged, content, outdated, spoilt, outcome>>
    BY <1>2 DEF Truncate, Goto, locals
  <1>4. <<>> \in Seq(Blocks)
    OBVIOUS
  <1>5. registry' \in [Capabilities -> Seq(Blocks) \cup {NoFile}]
    BY <1>0, <1>3, <1>4 DEF ArchiveTypes
  <1>6. ArchiveTypes'
    BY <1>0, <1>3, <1>5 DEF ArchiveTypes
  <1>7. /\ pc'[p] = "writing" /\ \A q \in Procs : q # p => pc'[q] = pc[q]
        /\ registry'[c] = <<>>
        /\ \A cap \in Capabilities : cap # c => registry'[cap] = registry[cap]
    BY <1>0, <1>2, <1>3 DEF ArchiveTypes
  <1>8. \A q \in Procs : AtHand(q)' = AtHand(q) /\ (Busy(q)' <=> Busy(q))
    BY <1>1, <1>3, <1>7 DEF AtHand, Busy
  <1>9. /\ WritesAt(p, c)'
        /\ \A q \in Procs, cap \in Capabilities :
               /\ cap # c => (WritesAt(q, cap)' <=> WritesAt(q, cap))
               /\ q # p => (WritesAt(q, cap)' <=> WritesAt(q, cap))
               /\ ~WritesAt(p, cap)
    BY <1>1, <1>2, <1>7, <1>8 DEF WritesAt
  <1>10. <<>> # NoFile
    BY <1>4 DEF ConstantsAreSound
  <1>11. PlaceInv'
    <2> SUFFICES ASSUME NEW q \in Procs
                 PROVE  (/\ pc[q] # "idle" => change[q] \in Changes
                         /\ pc[q] \in {"merging", "opening", "writing"} => merging[q]
                         /\ pc[q] # "idle" /\ merging[q] => merged[q] <= Len(Deltas(change[q]))
                         /\ Busy(q) => merged[q] < Len(Deltas(change[q]))
                         /\ pc[q] \in {"moving", "returned"} /\ merging[q] =>
                                merged[q] = Len(Deltas(change[q]))
                         /\ q \in outdated => Busy(q))'
      BY DEF PlaceInv
    <2>1. CASE q = p
      BY <1>0, <1>1, <1>3, <1>7, <1>8, <2>1 DEF PlaceInv
    <2>2. CASE q # p
      BY <1>0, <1>3, <1>7, <1>8, <2>2 DEF PlaceInv
    <2> QED
      BY <2>1, <2>2
  <1>12. DistinctInv' /\ MergedInv'
    BY <1>0, <1>3 DEF DistinctInv, MergedInv
  <1>13. FileInv'
    <2> SUFFICES ASSUME NEW cap \in Capabilities
                 PROVE  (/\ registry[cap] = NoFile =>
                                /\ FirstFiles[cap] = NoFile
                                /\ \A name \in AllNames : outcome[cap][name].op = "none"
                         /\ registry[cap] # NoFile /\ cap \notin spoilt
                                /\ (\A q \in Procs : ~WritesAt(q, cap))
                            => Follows(cap, registry[cap], outcome[cap]))'
      BY DEF FileInv
    <2>1. CASE cap = c
      BY <1>7, <1>9, <1>10, <2>1
    <2>2. CASE cap # c
      BY <1>0, <1>3, <1>7, <1>9, <2>2 DEF FileInv
    <2> QED
      BY <2>1, <2>2
  <1>14. ContentInv'
    <2> SUFFICES ASSUME NEW q \in Procs, Busy(q)'
                 PROVE  (LET cap == AtHand(q).cap
                         IN /\ pc[q] = "writing" => registry[cap] # NoFile
                            /\ q \notin outdated /\ cap \notin spoilt =>
                               /\ pc[q] = "writing" => registry[cap] = <<>>
                               /\ (\A r \in Procs \ {q} : ~WritesAt(r, cap)) =>
                                      Follows(cap, content[q],
                                              OutcomesAfter(change[q], merged[q] + 1, outcome[cap])))'
      BY DEF ContentInv
    <2>1. Busy(q) /\ AtHand(q)'.cap = AtHand(q).cap /\ AtHand(q).cap \in Capabilities
      BY <1>0, <1>8, BusyIs
    <2>2. CASE q = p
      <3>1. AtHand(q)'.cap = c
        BY <1>2, <2>1, <2>2
      <3>2. ASSUME c \notin spoilt, p \notin outdated,
                   \A r \in Procs \ {p} : ~WritesAt(r, c)'
            PROVE  Follows(c, content[p], OutcomesAfter(change[p], merged[p] + 1, outcome[c]))
        <4>1. \A r \in Procs \ {p} : ~WritesAt(r, c)
          BY <1>1, <1>9, <3>2
        <4> QED
          BY <1>0, <1>1, <1>2, <3>2, <4>1 DEF ContentInv
      <3> QED
        BY <1>3, <1>7, <1>10, <2>2, <3>1, <3>2
    <2>3. CASE q # p /\ AtHand(q).cap = c
      <3>1. AtHand(q)'.cap = c /\ p \in Procs \ {q} /\ WritesAt(p, c)'
        BY <1>9, <2>1, <2>3
      <3> QED
        BY <1>7, <1>10, <3>1
    <2>4. CASE q # p /\ AtHand(q).cap # c
      BY <1>0, <1>3, <1>7, <1>9, <2>1, <2>4 DEF ContentInv
    <2> QED
      BY <2>2, <2>3, <2>4
  <1> QED
    BY <1>6, <1>11, <1>12, <1>13, <1>14 DEF ArchiveInv

\* What is left behind a text that is written into a file.
LEMMA BehindIs ==
    ASSUME NEW S, NEW file \in Seq(S), NEW rest \in Behind(file)
    PROVE  rest \in Seq(S) /\ (file = <<>> => rest = <<>>)
  <1>1. CASE rest = <<>>
    BY <1>1
  <1>2. CASE rest # <<>>
    <2>1. PICK k \in 2..Len(file) : rest = SubSeq(file, k, Len(file))
      BY <1>2 DEF Behind
    <2>2. Len(file) \in Nat /\ k \in Nat /\ k >= 2 /\ k <= Len(file)
      BY <2>1
    <2>3. \A i \in k..Len(file) : file[i] \in S
      BY <2>2
    <2>4. rest \in Seq(S)
      BY <2>1, <2>2, <2>3, SubSeqProperties
    <2>5. file # <<>>
      BY <2>2
    <2> QED
      BY <2>4, <2>5
  <1> QED
    BY <1>1, <1>2

LEMMA WriteStep ==
    ASSUME ConstantsAreSound, ArchiveInv, NEW p \in Procs, Write(p)
    PROVE  ArchiveInv'
  <1> DEFINE n == change[p]
             k == merged[p] + 1
  <1>0. ArchiveTypes /\ PlaceInv /\ DistinctInv /\ FileInv /\ ContentInv /\ MergedInv
    BY DEF ArchiveInv
  <1>1. pc[p] = "writing" /\ Busy(p) /\ n \in Changes /\ merged[p] < Len(Deltas(n))
    BY <1>0, BusyIs DEF Write, Busy
  <1>2. /\ Len(Deltas(n)) \in Nat /\ k \in 1..Len(Deltas(n)) /\ AtHand(p) = Deltas(n)[k]
        /\ AtHand(p).cap \in Capabilities /\ NamedIn(AtHand(p)) \subseteq AllNames
    BY <1>0, <1>1, AtHandIs
  <1>3. PICK c \in Capabilities : c = AtHand(p).cap
    BY <1>2
  <1>4. PICK d : d = AtHand(p)
    OBVIOUS
  <1>5. PICK rest \in Behind(registry[c]) :
            registry' = [registry EXCEPT ![c] = content[p] \o rest]
    BY <1>3, Zenon DEF Write
  <1>6. /\ pc' = [pc EXCEPT ![p] = "merging"] /\ merged' = [merged EXCEPT ![p] = @ + 1]
        /\ outdated' = (outdated \ {p}) \cup {q \in Procs \ {p} :
               pc[q] \in {"opening", "writing"} /\ AtHand(q).cap = c}
        /\ content' = [content EXCEPT ![p] = <<>>]
        /\ change' = change /\ merging' = merging
    BY <1>3 DEF Write, Goto
  <1> DEFINE next == OutcomesAfter(n, k, outcome[c])
  <1>7. /\ spoilt' = IF p \in outdated THEN spoilt \cup {c} ELSE spoilt
        /\ outcome' = [outcome EXCEPT ![c] =
               IF c \in spoilt' THEN [name \in AllNames |-> Untouched] ELSE next]
    <2>1. [name \in AllNames |-> IF name \in NamedIn(d) THEN Effect(p, d, name)
                                 ELSE outcome[c][name]] = next
      BY <1>2, <1>4 DEF Effect, OutcomesAfter
    <2>2. Note(c, p \in outdated, [name \in AllNames |->
              IF name \in NamedIn(d) THEN Effect(p, d, name) ELSE outcome[c][name]])
      BY <1>3, <1>4 DEF Write
    <2> HIDE DEF next
    <2>3. Note(c, p \in outdated, next)
      BY <2>1, <2>2
    <2> QED
      BY <2>3 DEF Note
  <1>8. registry[c] \in Seq(Blocks) /\ content[p] \in Seq(Blocks)
    BY <1>0, <1>1, <1>3 DEF ArchiveTypes, ContentInv
  <1>9. rest \in Seq(Blocks) /\ (registry[c] = <<>> => rest = <<>>)
    BY <1>8, BehindIs
  <1>10. content[p] \o rest \in Seq(Blocks)
    BY <1>8, <1>9, ConcatProperties
  <1>11. OutcomesAre(c, next)
    BY <1>0, <1>1, <1>2, <1>3, AfterIs DEF ArchiveTypes
  <1>12. OutcomesAre(c, [name \in AllNames |-> Untouched])
    BY DEF OutcomesAre, Untouched
  <1> HIDE DEF n, k, next
  <1>13. /\ \A cap \in Capabilities : cap # c =>
                /\ registry'[cap] = registry[cap] /\ outcome'[cap] = outcome[cap]
                /\ (cap \in spoilt' <=> cap \in spoilt)
         /\ registry'[c] = content[p] \o rest
         /\ outcome'[c] = IF c \in spoilt' THEN [name \in AllNames |-> Untouched] ELSE next
         /\ outcome' = [cap \in Capabilities |-> outcome'[cap]]
    <2>1. /\ registry \in [Capabilities -> Seq(Blocks) \cup {NoFile}]
          /\ outcome = [cap \in Capabilities |-> outcome[cap]]
      BY <1>0 DEF ArchiveTypes
    <2> QED
      BY <1>5, <1>7, <2>1
  <1>14. /\ pc'[p] = "merging" /\ merged'[p] = k /\ p \notin outdated'
         /\ \A q \in Procs : q # p => /\ pc'[q] = pc[q] /\ merged'[q] = merged[q]
                                      /\ content'[q] = content[q]
    BY <1>0, <1>6 DEF ArchiveTypes, k
  <1>15. /\ ~Busy(p)'
         /\ \A q \in Procs : q # p => (Busy(q)' <=> Busy(q)) /\ AtHand(q)' = AtHand(q)
    BY <1>6, <1>14 DEF Busy, AtHand
  <1>16. \A q \in Procs, cap \in Capabilities :
             /\ cap # c => (WritesAt(q, cap)' <=> WritesAt(q, cap))
             /\ q # p => (WritesAt(q, cap)' <=> WritesAt(q, cap))
    BY <1>1, <1>3, <1>14, <1>15 DEF WritesAt
  <1>17. \A q \in Procs : q # p =>
             (q \in outdated' <=> q \in outdated \/ (Busy(q) /\ AtHand(q).cap = c))
    BY <1>6 DEF Busy
  <1>18. ArchiveTypes'
    <2>1. registry' \in [Capabilities -> Seq(Blocks) \cup {NoFile}]
      BY <1>0, <1>5, <1>10 DEF ArchiveTypes
    <2>2. \A cap \in Capabilities : OutcomesAre(cap, outcome'[cap])
      <3> SUFFICES ASSUME NEW cap \in Capabilities PROVE OutcomesAre(cap, outcome'[cap])
        OBVIOUS
      <3>1. CASE cap = c
        BY <1>11, <1>12, <1>13, <3>1
      <3>2. CASE cap # c
        BY <1>0, <1>13, <3>2 DEF ArchiveTypes
      <3> QED
        BY <3>1, <3>2
    <2>3. /\ pc' \in [Procs -> {"idle", "merging", "opening", "writing", "moving", "returned"}]
          /\ merged' \in [Procs -> Nat] /\ content' \in [Procs -> Seq(Blocks)]
          /\ outdated' \subseteq Procs /\ spoilt' \subseteq Capabilities
      BY <1>0, <1>6, <1>7 DEF ArchiveTypes
    <2> QED
      BY <1>0, <1>6, <1>13, <2>1, <2>2, <2>3 DEF ArchiveTypes
  <1>19. PlaceInv'
    <2> SUFFICES ASSUME NEW q \in Procs
                 PROVE  (/\ pc[q] # "idle" => change[q] \in Changes
                         /\ pc[q] \in {"merging", "opening", "writing"} => merging[q]
                         /\ pc[q] # "idle" /\ merging[q] => merged[q] <= Len(Deltas(change[q]))
                         /\ Busy(q) => merged[q] < Len(Deltas(change[q]))
                         /\ pc[q] \in {"moving", "returned"} /\ merging[q] =>
                                merged[q] = Len(Deltas(change[q]))
                         /\ q \in outdated => Busy(q))'
      BY DEF PlaceInv
    <2>1. CASE q = p
      <3>1. merging[q] /\ change[q] \in Changes
        BY <1>0, <1>1, <2>1 DEF PlaceInv
      <3>2. /\ pc'[q] = "merging" /\ merged'[q] <= Len(Deltas(change[q])) /\ q \notin outdated'
            /\ ~Busy(q)'
        BY <1>2, <1>14, <1>15, <2>1 DEF n
      <3> QED
        BY <1>6, <3>1, <3>2
    <2>2. CASE q # p
      BY <1>0, <1>6, <1>14, <1>15, <1>17, <2>2 DEF PlaceInv
    <2> QED
      BY <2>1, <2>2
  <1>20. DistinctInv'
    BY <1>0, <1>6 DEF DistinctInv
  <1>21. FileInv'
    <2> SUFFICES ASSUME NEW cap \in Capabilities
                 PROVE  (/\ registry[cap] = NoFile =>
                                /\ FirstFiles[cap] = NoFile
                                /\ \A name \in AllNames : outcome[cap][name].op = "none"
                         /\ registry[cap] # NoFile /\ cap \notin spoilt
                                /\ (\A q \in Procs : ~WritesAt(q, cap))
                            => Follows(cap, registry[cap], outcome[cap]))'
      BY DEF FileInv
    <2>1. CASE cap = c
      <3>1. registry'[c] # NoFile
        BY <1>10, <1>13 DEF ConstantsAreSound
      <3>2. ASSUME c \notin spoilt', \A q \in Procs : ~WritesAt(q, cap)'
            PROVE  Follows(c, registry'[c], outcome'[c])
        <4>1. p \notin outdated /\ c \notin spoilt
          BY <1>7, <3>2
        <4>2. \A q \in Procs \ {p} : ~WritesAt(q, c)
          BY <1>16, <2>1, <3>2
        <4>3. registry[c] = <<>> /\ Follows(c, content[p], next)
          BY <1>0, <1>1, <1>3, <4>1, <4>2 DEF ContentInv, next, n, k
        <4>4. registry'[c] = content[p]
          BY <1>8, <1>9, <1>13, <4>3, ConcatEmptySeq
        <4> QED
          BY <1>13, <3>2, <4>3, <4>4
      <3> QED
        BY <2>1, <3>1, <3>2
    <2>2. CASE cap # c
      BY <1>0, <1>13, <1>16, <2>2 DEF FileInv
    <2> QED
      BY <2>1, <2>2
  <1>22. ContentInv'
    <2> SUFFICES ASSUME NEW q \in Procs, Busy(q)'
                 PROVE  (LET cap == AtHand(q).cap
                         IN /\ pc[q] = "writing" => registry[cap] # NoFile
                            /\ q \notin outdated /\ cap \notin spoilt =>
                               /\ pc[q] = "writing" => registry[cap] = <<>>
                               /\ (\A r \in Procs \ {q} : ~WritesAt(r, cap)) =>
                                      Follows(cap, content[q],
                                              OutcomesAfter(change[q], merged[q] + 1, outcome[cap])))'
      BY DEF ContentInv
    <2>1. q # p
      BY <1>15
    <2>2. Busy(q) /\ AtHand(q)'.cap = AtHand(q).cap /\ AtHand(q).cap \in Capabilities
      BY <1>0, <1>15, <2>1, BusyIs
    <2>3. CASE AtHand(q).cap = c
      <3>1. q \in outdated'
        BY <1>17, <2>1, <2>2, <2>3
      <3>2. registry'[c] # NoFile
        BY <1>10, <1>13 DEF ConstantsAreSound
      <3> QED
        BY <2>2, <2>3, <3>1, <3>2
    <2>4. CASE AtHand(q).cap # c
      <3>1. PICK cap \in Capabilities : cap = AtHand(q).cap
        BY <2>2
      <3>2. /\ registry'[cap] = registry[cap] /\ outcome'[cap] = outcome[cap]
            /\ (cap \in spoilt' <=> cap \in spoilt) /\ (q \in outdated' <=> q \in outdated)
        BY <1>13, <1>17, <2>1, <2>4, <3>1
      <3>3. \A r \in Procs : WritesAt(r, cap)' <=> WritesAt(r, cap)
        BY <1>16, <2>4, <3>1
      <3> QED
        BY <1>0, <1>6, <1>14, <2>1, <2>2, <3>1, <3>2, <3>3 DEF ContentInv
    <2> QED
      BY <2>3, <2>4
  <1>23. MergedInv'
    <2> SUFFICES ASSUME NEW q \in Procs, change'[q] \in Changes, merging'[q],
                        NEW cap \in Capabilities \ spoilt', NEW name \in AllNames,
                        NEW i \in 1..merged'[q],
                        LastOf(change'[q], i, merged'[q], cap, name)
                 PROVE  IF outcome'[cap][name].by = change'[q]
                        THEN outcome'[cap][name].delta = i
                        ELSE outcome'[cap][name].by # 0
      BY DEF MergedInv
    <2> DEFINE last == outcome[cap][name]
    <2>1. cap \notin spoilt
      BY <1>7
    <2>2. ASSUME cap = c, name \in NamedIn(d)
          PROVE  IF outcome'[cap][name].by = change'[q]
                 THEN outcome'[cap][name].delta = i
                 ELSE outcome'[cap][name].by # 0
      <3>1. outcome'[cap][name].by = n /\ outcome'[cap][name].delta = k
        BY <1>2, <1>4, <1>13, <2>2 DEF next, OutcomesAfter
      <3>2. n # 0
        BY <1>1 DEF ConstantsAreSound, Changes
      <3>3. CASE q = p
        <4>1. /\ change'[q] = n /\ merged'[q] = k /\ k \in 1..k
              /\ Deltas(n)[k].cap = cap /\ name \in NamedIn(Deltas(n)[k])
          BY <1>2, <1>3, <1>4, <1>6, <1>14, <2>2, <3>3 DEF n
        <4>2. k <= i
          BY <4>1 DEF LastOf
        <4>3. i = k
          BY <4>1, <4>2
        <4> QED
          BY <3>1, <4>1, <4>3
      <3>4. CASE q # p
        <4>1. change[q] # n
          BY <1>0, <1>6, <3>2, <3>4 DEF DistinctInv, n
        <4> QED
          BY <1>6, <3>1, <3>2, <4>1
      <3> QED
        BY <3>3, <3>4
    <2>3. ASSUME cap # c \/ name \notin NamedIn(d)
          PROVE  IF outcome'[cap][name].by = change'[q]
                 THEN outcome'[cap][name].delta = i
                 ELSE outcome'[cap][name].by # 0
      <3>1. outcome'[cap][name] = last
        <4>1. CASE cap = c
          BY <1>4, <1>2, <1>13, <2>3, <4>1 DEF next, OutcomesAfter
        <4>2. CASE cap # c
          BY <1>13, <4>2
        <4> QED
          BY <4>1, <4>2
      <3>2. /\ change[q] \in Changes /\ merging[q] /\ i \in 1..merged[q]
            /\ LastOf(change[q], i, merged[q], cap, name)
        <4>1. CASE q # p
          BY <1>6, <1>14, <4>1
        <4>2. CASE q = p
          <5>1. change'[q] = n /\ merged'[q] = k /\ merged[p] \in Nat /\ k = merged[p] + 1
            BY <1>0, <1>6, <1>14, <4>2 DEF n, k, ArchiveTypes
          <5>2. Deltas(n)[i].cap = cap /\ name \in NamedIn(Deltas(n)[i])
            BY <5>1 DEF LastOf
          <5>3. i # k
            BY <1>2, <1>3, <1>4, <2>3, <5>2
          <5>4. i \in 1..merged[p]
            BY <5>1, <5>3
          <5>5. LastOf(n, i, merged[p], cap, name)
            BY <5>1, <5>2 DEF LastOf
          <5> QED
            BY <1>6, <4>2, <5>4, <5>5 DEF n
        <4> QED
          BY <4>1, <4>2
      <3>3. IF last.by = change[q] THEN last.delta = i ELSE last.by # 0
        BY <1>0, <2>1, <3>2 DEF MergedInv
      <3> QED
        BY <1>6, <3>1, <3>3
    <2> QED
      BY <2>2, <2>3
  <1> QED
    BY <1>18, <1>19, <1>20, <1>21, <1>22, <1>23 DEF ArchiveInv

\* A process killed while it writes a file.
LEMMA TornStep ==
    ASSUME ConstantsAreSound, ArchiveInv, NEW p \in Procs, RunKilled(p), pc[p] = "writing"
    PROVE  ArchiveInv'
  <1>1. ArchiveTypes /\ PlaceInv /\ DistinctInv /\ FileInv /\ ContentInv /\ MergedInv
    BY DEF ArchiveInv
  <1>2. AtHand(p).cap \in Capabilities
    BY <1>1, BusyIs DEF Busy
  <1>3. PICK c \in Capabilities : c = AtHand(p).cap
    BY <1>2
  <1>4. /\ pc' = [pc EXCEPT ![p] = "idle"] /\ change' = [change EXCEPT ![p] = 0]
        /\ merging' = [merging EXCEPT ![p] = TRUE] /\ merged' = [merged EXCEPT ![p] = 0]
        /\ content' = [content EXCEPT ![p] = <<>>]
        /\ outdated' = outdated \ {p} /\ registry' = registry
    BY DEF RunKilled, Leaves, Goto
  <1>5. /\ spoilt' = spoilt \cup {c}
        /\ outcome' = [outcome EXCEPT ![c] = [name \in AllNames |-> Untouched]]
    BY <1>3 DEF RunKilled, Note
  <1>6. /\ \A cap \in Capabilities : cap # c => outcome'[cap] = outcome[cap]
        /\ outcome'[c] = [name \in AllNames |-> Untouched]
        /\ outcome' = [cap \in Capabilities |-> outcome'[cap]]
    BY <1>1, <1>5 DEF ArchiveTypes
  <1>7. /\ pc'[p] = "idle" /\ change'[p] = 0 /\ ~Busy(p)' /\ p \notin outdated'
        /\ merging'[p] /\ merged'[p] = 0
    BY <1>1, <1>4 DEF ArchiveTypes, Busy
  <1>8. \A q \in Procs : q # p =>
            /\ pc'[q] = pc[q] /\ change'[q] = change[q] /\ merging'[q] = merging[q]
            /\ merged'[q] = merged[q] /\ content'[q] = content[q]
            /\ (q \in outdated' <=> q \in outdated)
    BY <1>1, <1>4 DEF ArchiveTypes
  <1>9. \A q \in Procs : q # p => (Busy(q)' <=> Busy(q)) /\ AtHand(q)' = AtHand(q)
    BY <1>8 DEF Busy, AtHand
  <1>10. \A q \in Procs, cap \in Capabilities :
             cap # c => (WritesAt(q, cap)' <=> WritesAt(q, cap))
    <2> SUFFICES ASSUME NEW q \in Procs, NEW cap \in Capabilities, cap # c
                 PROVE  WritesAt(q, cap)' <=> WritesAt(q, cap)
      OBVIOUS
    <2>1. CASE q = p
      <3>1. pc'[q] # "writing" /\ AtHand(q).cap # cap
        BY <1>3, <1>7, <2>1
      <3> QED
        BY <3>1 DEF WritesAt
    <2>2. CASE q # p
      BY <1>8, <1>9, <2>2 DEF WritesAt
    <2> QED
      BY <2>1, <2>2
  <1>11. ArchiveTypes'
    <2>1. OutcomesAre(c, [name \in AllNames |-> Untouched])
      BY DEF OutcomesAre, Untouched
    <2>2. \A cap \in Capabilities : OutcomesAre(cap, outcome'[cap])
      <3> SUFFICES ASSUME NEW cap \in Capabilities PROVE OutcomesAre(cap, outcome'[cap])
        OBVIOUS
      <3>1. CASE cap = c
        BY <1>6, <2>1, <3>1
      <3>2. CASE cap # c
        BY <1>1, <1>6, <3>2 DEF ArchiveTypes
      <3> QED
        BY <3>1, <3>2
    <2>3. /\ pc' \in [Procs -> {"idle", "merging", "opening", "writing", "moving", "returned"}]
          /\ change' \in [Procs -> Changes \cup {0}] /\ merging' \in [Procs -> BOOLEAN]
          /\ merged' \in [Procs -> Nat] /\ content' \in [Procs -> Seq(Blocks)]
      BY <1>1, <1>4 DEF ArchiveTypes
    <2>4. outdated' \subseteq Procs /\ spoilt' \subseteq Capabilities
      BY <1>1, <1>4, <1>5 DEF ArchiveTypes
    <2> QED
      BY <1>1, <1>4, <1>6, <2>2, <2>3, <2>4 DEF ArchiveTypes
  <1>12. PlaceInv'
    <2> SUFFICES ASSUME NEW q \in Procs
                 PROVE  (/\ pc[q] # "idle" => change[q] \in Changes
                         /\ pc[q] \in {"merging", "opening", "writing"} => merging[q]
                         /\ pc[q] # "idle" /\ merging[q] => merged[q] <= Len(Deltas(change[q]))
                         /\ Busy(q) => merged[q] < Len(Deltas(change[q]))
                         /\ pc[q] \in {"moving", "returned"} /\ merging[q] =>
                                merged[q] = Len(Deltas(change[q]))
                         /\ q \in outdated => Busy(q))'
      BY DEF PlaceInv
    <2>1. CASE q = p
      <3>1. pc'[q] = "idle" /\ ~Busy(q)' /\ q \notin outdated'
        BY <1>7, <2>1
      <3> QED
        BY <3>1
    <2>2. CASE q # p
      BY <1>1, <1>8, <1>9, <2>2 DEF PlaceInv
    <2> QED
      BY <2>1, <2>2
  <1>13. DistinctInv'
    <2> SUFFICES ASSUME NEW q \in Procs, NEW r \in Procs, q # r, change'[q] = change'[r]
                 PROVE  change'[q] = 0
      BY DEF DistinctInv
    <2>1. CASE q = p \/ r = p
      BY <1>7, <2>1
    <2>2. CASE q # p /\ r # p
      BY <1>1, <1>8, <2>2 DEF DistinctInv
    <2> QED
      BY <2>1, <2>2
  <1>14. FileInv'
    <2> SUFFICES ASSUME NEW cap \in Capabilities
                 PROVE  (/\ registry[cap] = NoFile =>
                                /\ FirstFiles[cap] = NoFile
                                /\ \A name \in AllNames : outcome[cap][name].op = "none"
                         /\ registry[cap] # NoFile /\ cap \notin spoilt
                                /\ (\A q \in Procs : ~WritesAt(q, cap))
                            => Follows(cap, registry[cap], outcome[cap]))'
      BY DEF FileInv
    <2>1. CASE cap = c
      <3>1. \A name \in AllNames : outcome'[cap][name].op = "none"
        BY <1>6, <2>1 DEF Untouched
      <3>2. registry'[cap] = NoFile => FirstFiles[cap] = NoFile
        BY <1>1, <1>4 DEF FileInv
      <3> QED
        BY <1>5, <2>1, <3>1, <3>2
    <2>2. CASE cap # c
      BY <1>1, <1>4, <1>5, <1>6, <1>10, <2>2 DEF FileInv
    <2> QED
      BY <2>1, <2>2
  <1>15. ContentInv'
    <2> SUFFICES ASSUME NEW q \in Procs, Busy(q)'
                 PROVE  (LET cap == AtHand(q).cap
                         IN /\ pc[q] = "writing" => registry[cap] # NoFile
                            /\ q \notin outdated /\ cap \notin spoilt =>
                               /\ pc[q] = "writing" => registry[cap] = <<>>
                               /\ (\A r \in Procs \ {q} : ~WritesAt(r, cap)) =>
                                      Follows(cap, content[q],
                                              OutcomesAfter(change[q], merged[q] + 1, outcome[cap])))'
      BY DEF ContentInv
    <2>1. q # p
      BY <1>7
    <2>2. Busy(q) /\ AtHand(q)'.cap = AtHand(q).cap /\ AtHand(q).cap \in Capabilities
      BY <1>1, <1>9, <2>1, BusyIs
    <2>3. CASE AtHand(q).cap = c
      <3>1. pc'[q] = "writing" => registry'[c] # NoFile
        BY <1>1, <1>4, <1>8, <2>1, <2>2, <2>3 DEF ContentInv
      <3> QED
        BY <1>5, <2>2, <2>3, <3>1
    <2>4. CASE AtHand(q).cap # c
      <3>1. PICK cap \in Capabilities : cap = AtHand(q).cap
        BY <2>2
      <3>2. outcome'[cap] = outcome[cap] /\ (cap \in spoilt' <=> cap \in spoilt)
        BY <1>5, <1>6, <2>4, <3>1
      <3>3. \A r \in Procs : WritesAt(r, cap)' <=> WritesAt(r, cap)
        BY <1>10, <2>4, <3>1
      <3> QED
        BY <1>1, <1>4, <1>8, <2>1, <2>2, <3>1, <3>2, <3>3 DEF ContentInv
    <2> QED
      BY <2>3, <2>4
  <1>16. MergedInv'
    <2> SUFFICES ASSUME NEW q \in Procs, change'[q] \in Changes, merging'[q],
                        NEW cap \in Capabilities \ spoilt', NEW name \in AllNames,
                        NEW i \in 1..merged'[q],
                        LastOf(change'[q], i, merged'[q], cap, name)
                 PROVE  IF outcome'[cap][name].by = change'[q]
                        THEN outcome'[cap][name].delta = i
                        ELSE outcome'[cap][name].by # 0
      BY DEF MergedInv
    <2>1. q # p
      BY <1>7 DEF ConstantsAreSound, Changes
    <2>2. cap \notin spoilt /\ outcome'[cap] = outcome[cap]
      BY <1>5, <1>6
    <2> QED
      BY <1>1, <1>8, <2>1, <2>2 DEF MergedInv
  <1> QED
    BY <1>11, <1>12, <1>13, <1>14, <1>15, <1>16 DEF ArchiveInv

LEMMA RunKilledStep ==
    ASSUME ConstantsAreSound, ArchiveInv, NEW p \in Procs, RunKilled(p)
    PROVE  ArchiveInv'
  <1>1. CASE pc[p] = "writing"
    BY <1>1, TornStep
  <1>2. CASE pc[p] # "writing"
    BY <1>2, LeavesStep DEF RunKilled
  <1> QED
    BY <1>1, <1>2

LEMMA ArchiveStep ==
    ASSUME ConstantsAreSound, DeltasAreClear, ArchiveInv, [ArchiveNext]_archiveVars
    PROVE  ArchiveInv'
  <1>1. ASSUME NEW p \in Procs, NEW n \in Changes, Run(p, n) PROVE ArchiveInv'
    BY <1>1, RunStep
  <1>2. ASSUME NEW p \in Procs, ReadSource(p) PROVE ArchiveInv'
    BY <1>2, ReadSourceStep
  <1>3. ASSUME NEW p \in Procs, ReadTarget(p) PROVE ArchiveInv'
    BY <1>3, ReadTargetStep
  <1>4. ASSUME NEW p \in Procs, Truncate(p) PROVE ArchiveInv'
    BY <1>4, TruncateStep
  <1>5. ASSUME NEW p \in Procs, Write(p) PROVE ArchiveInv'
    BY <1>5, WriteStep
  <1>6. ASSUME NEW p \in Procs, MergeReturns(p) PROVE ArchiveInv'
    BY <1>6, MergeReturnsStep
  <1>7. ASSUME NEW p \in Procs, Move(p) PROVE ArchiveInv'
    BY <1>7, MoveStep
  <1>8. ASSUME NEW p \in Procs, RunKilled(p) PROVE ArchiveInv'
    BY <1>8, RunKilledStep
  <1>9. CASE NewDay
    BY <1>9, SameStep DEF NewDay, locals, files
  <1>10. CASE UNCHANGED archiveVars
    BY <1>10, SameStep DEF archiveVars, locals, files
  <1> QED
    BY <1>1, <1>2, <1>3, <1>4, <1>5, <1>6, <1>7, <1>8, <1>9, <1>10 DEF ArchiveNext

\* The last delta that names a requirement is the one LastNaming gives.
LEMMA LastNamingIs ==
    ASSUME ConstantsAreSound, NEW n \in Changes, NEW cap, NEW name,
           LastNaming(n, cap, name) # 0
    PROVE  /\ LastNaming(n, cap, name) \in 1..Len(Deltas(n))
           /\ LastOf(n, LastNaming(n, cap, name), Len(Deltas(n)), cap, name)
  <1> DEFINE deltas == Deltas(n)
             naming == {i \in 1..Len(deltas) :
                            deltas[i].cap = cap /\ name \in NamedIn(deltas[i])}
  <1>1. deltas \in Seq(DeltaRecords)
    BY DEF ConstantsAreSound
  <1>2. LastNaming(n, cap, name) = IF naming = {} THEN 0
                                   ELSE CHOOSE i \in naming : \A j \in naming : j <= i
    <2> DEFINE those == {i \in DOMAIN deltas :
                             deltas[i].cap = cap /\ name \in NamedIn(deltas[i])}
    <2>1. LastNaming(n, cap, name) = IF those = {} THEN 0
                                     ELSE CHOOSE i \in those : \A j \in those : j <= i
      BY DEF LastNaming
    <2>2. DOMAIN deltas = 1..Len(deltas)
      <3> HIDE DEF deltas
      <3> QED
        BY <1>1
    <2>3. those = naming
      BY <2>2
    <2> HIDE DEF those, naming
    <2> QED
      BY <2>1, <2>3
  <1>3. Len(deltas) \in Nat
    <2> HIDE DEF deltas
    <2> QED
      BY <1>1
  <1>4. naming # {} /\ naming \subseteq 1..Len(deltas)
    BY <1>2
  <1>5. \E x \in naming : \A y \in naming : y <= x
    <2> DEFINE len == Len(deltas)
    <2>1. len \in Nat /\ naming \subseteq 1..len
      BY <1>3, <1>4
    <2> HIDE DEF naming, len
    <2>2. PICK x \in naming : \A y \in naming : x >= y
      BY <1>4, <2>1, RangeMax
    <2> QED
      BY <2>1, <2>2
  <1> DEFINE last == LastNaming(n, cap, name)
  <1>6. last \in naming /\ \A y \in naming : y <= last
    <2> HIDE DEF naming
    <2> QED
      BY <1>2, <1>4, <1>5
  <1> HIDE DEF last
  <1>7. last \in 1..Len(deltas) /\ LastOf(n, last, Len(deltas), cap, name)
    BY <1>6 DEF LastOf
  <1> QED
    BY <1>7 DEF last

LEMMA DeltasAreAppliedFollows ==
    ASSUME ConstantsAreSound, ArchiveInv PROVE DeltasAreApplied
  <1>1. ArchiveTypes /\ PlaceInv /\ FileInv /\ MergedInv
    BY DEF ArchiveInv
  <1>2. RegistryFollowsDeltas
    BY <1>1 DEF RegistryFollowsDeltas, FileInv, WritesAt
  <1>3. ArchivedIsMerged
    <2> SUFFICES ASSUME NEW p \in Procs, pc[p] = "returned", merging[p],
                        NEW cap \in Capabilities, NEW name \in AllNames,
                        LastNaming(change[p], cap, name) # 0, cap \notin spoilt
                 PROVE  IF outcome[cap][name].by = change[p]
                        THEN outcome[cap][name].delta = LastNaming(change[p], cap, name)
                        ELSE outcome[cap][name].by # 0
      BY DEF ArchivedIsMerged
    <2>1. change[p] \in Changes /\ merged[p] = Len(Deltas(change[p]))
      BY <1>1 DEF PlaceInv
    <2>2. /\ LastNaming(change[p], cap, name) \in 1..merged[p]
          /\ LastOf(change[p], LastNaming(change[p], cap, name), merged[p], cap, name)
      BY <2>1, LastNamingIs
    <2> QED
      BY <1>1, <2>1, <2>2 DEF MergedInv
  <1> QED
    BY <1>2, <1>3 DEF DeltasAreApplied

-----------------------------------------------------------------------------
(* The theorem.                                                            *)

\* DeltasAreApplied: whichever changes are archived at once, in whatever order
\* and however often their merges are cut short and run again, a registry
\* file shows what the last delta written of each requirement says, and what
\* archive_change has merged when it returns is there (merge_delta_requirements).
THEOREM RegistryHoldsWhatIsArchived ==
    ASSUME DeltasAreClear
    PROVE  ArchiveSpec => []DeltasAreApplied
  <1>1. ArchiveInit => ArchiveInv
    BY ArchiveAssumption, ArchiveInvInit
  <1>2. ArchiveInv /\ [ArchiveNext]_archiveVars => ArchiveInv'
    BY ArchiveAssumption, ArchiveStep
  <1>3. ArchiveInv => DeltasAreApplied
    BY ArchiveAssumption, DeltasAreAppliedFollows
  <1> QED
    BY <1>1, <1>2, <1>3, PTL DEF ArchiveSpec
=============================================================================
