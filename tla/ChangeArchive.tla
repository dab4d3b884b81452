---------------------------- MODULE ChangeArchive ----------------------------
(***************************************************************************)
(* archive_change and merge_delta_requirements (specs.py): the deltas of a *)
(* change and of its components are merged into the registry, one file per *)
(* capability, and the change directory is moved into the archive.         *)
(*                                                                         *)
(* Processes that archive different changes share the registry files and   *)
(* take no lock.  A file is read, truncated and written in three steps     *)
(* (read_text, write_text), so that updates are lost, and a process killed *)
(* on the way leaves a change half merged, whose archive is run again.  A  *)
(* requirement block is its name and its text; a file is the sequence of   *)
(* its blocks.  Two processes that archive one change are left out.        *)
(***************************************************************************)
EXTENDS Integers, Sequences, SequencesExt

CONSTANTS
    Procs,
    Capabilities,
    Blocks,      \* requirement blocks
    NameOf,      \* the changes 1, 2, ...: [change -> its name]
    DeltasOf,    \* [change -> [component id, 0 for the change itself ->
                 \*     the sequence of its [cap, added, removed, modified]]]
    TableOf,     \* [change -> component ids in components.md, as listed]
    FirstFiles,  \* the registry at first
    FirstArchive,\* [name -> the changes of it archived on the first day before]
    NoFile,      \* a capability with no registry file
    MaxDay,      \* bound: days that pass
    MaxRuns      \* bound: runs of archive_change for one change

VARIABLES
    pc,        \* [process -> where archive_change is]
    change,    \* [process -> the change it archives]
    began,     \* [process -> the day its run began]
    merging,   \* [process -> merge_specs]
    read,      \* [process -> sources whose requirement_texts it has read]
    merged,    \* [process -> deltas it has merged]
    content,   \* [process -> what it will write to the registry file at hand]
    runs,      \* [change -> runs of archive_change for it so far]
    registry,  \* registry/<cap>.md
    day,       \* today
    archive,   \* [<<day, name>> -> changes in archive/<day>-<name>, outermost first]
    outdated,  \* history: processes that hold a file written since they read it
    spoilt,    \* history: capabilities whose file was left torn, or written
               \* over a write that the writer had not read
    outcome    \* history: [capability -> [name -> the last delta written that
               \*     names it, and what that does to it]]

locals == <<change, began, merging, read, merged, content>>
files == <<registry, outdated, spoilt, outcome>>
archiveVars == <<pc, locals, runs, files, day, archive>>

Changes == DOMAIN NameOf

-----------------------------------------------------------------------------
(* _component_order, and the list of deltas it gives.                      *)

\* The components the table lists, in its order and once each, then the
\* others, sorted.
ComponentOrder(dirs, table) ==
    LET firsts == {i \in DOMAIN table :
                       /\ table[i] \in dirs
                       /\ \A j \in 1..(i - 1) : table[j] # table[i]}
        listed == [k \in 1..Cardinality(firsts) |->
                       table[SetToSortSeq(firsts, <)[k]]]
    IN  listed \o SetToSortSeq(dirs \ ToSet(listed), <)

Sources(n) == <<0>> \o ComponentOrder(DOMAIN DeltasOf[n] \ {0}, TableOf[n])
AllDeltas == [n \in DOMAIN NameOf |->
    LET sources == Sources(n)
    IN FlattenSeq([i \in DOMAIN sources |-> DeltasOf[n][sources[i]]])]
Deltas(n) == AllDeltas[n]

DeltaRecords == [cap : Capabilities, added : Seq(Blocks), removed : Seq(Blocks),
                 modified : Seq(Blocks)]
ConstantsAreSound ==
    /\ DOMAIN NameOf \subseteq Nat \ {0} /\ NoFile \notin Seq(Blocks)
    /\ FirstFiles \in [Capabilities -> Seq(Blocks) \cup {NoFile}]
    /\ \A n \in Changes : Deltas(n) \in Seq(DeltaRecords)
ASSUME ArchiveAssumption == ConstantsAreSound

-----------------------------------------------------------------------------
(* apply_delta.                                                            *)

Names(blocks) == {b.name : b \in ToSet(blocks)}
BlockOf(blocks, name) ==
    blocks[SelectLastInSeq(blocks, LAMBDA b : b.name = name)]

\* The blocks of other names, in their order.
Dropping(blocks, names) ==
    LET kept[i \in 0..Len(blocks)] ==
            IF i = 0 THEN <<>>
            ELSE IF blocks[i].name \in names THEN kept[i - 1]
            ELSE Append(kept[i - 1], blocks[i])
    IN kept[Len(blocks)]

\* Every block of a removed name goes.
Without(blocks, removed) == Dropping(blocks, Names(removed))

\* Every block of a modified name is replaced, by the last of that name.
ReplacedMutant(blocks, modified) ==
    LET named(name) == SelectInSeq(blocks, LAMBDA b : b.name = name)
    IN  [i \in DOMAIN blocks |->
            IF blocks[i].name \in Names(modified) /\ i = named(blocks[i].name)
            THEN BlockOf(modified, blocks[i].name) ELSE blocks[i]]
Replaced(blocks, modified) ==
    [i \in DOMAIN blocks |->
        IF blocks[i].name \in Names(modified)
        THEN BlockOf(modified, blocks[i].name) ELSE blocks[i]]

ApplyDelta(main, d) ==
    Replaced(Without(main \o d.added, d.removed), d.modified)

\* A capability that has no file yet gets the delta as it is.
Merge(file, d) == IF file = NoFile THEN d.added \o d.modified \o d.removed
                                   ELSE ApplyDelta(file, d)

-----------------------------------------------------------------------------

OpOn(d, name) == IF name \in Names(d.removed) THEN "removed"
                 ELSE IF name \in Names(d.modified) THEN "modified"
                 ELSE IF name \in Names(d.added) THEN "added" ELSE "none"
NamedIn(d) == Names(d.added) \cup Names(d.modified) \cup Names(d.removed)
AllNames == UNION {UNION {NamedIn(d) : d \in ToSet(Deltas(n))} : n \in Changes}

Untouched == [by |-> 0, delta |-> 0, op |-> "none"]

ArchiveInit ==
    /\ pc = [p \in Procs |-> "idle"] /\ change = [p \in Procs |-> 0]
    /\ began = [p \in Procs |-> 0]
    /\ merging = [p \in Procs |-> TRUE] /\ read = [p \in Procs |-> 0]
    /\ merged = [p \in Procs |-> 0] /\ content = [p \in Procs |-> <<>>]
    /\ runs = [n \in Changes |-> 0]
    /\ registry = FirstFiles
    /\ day = 0
    /\ archive = [e \in (0..MaxDay) \X ToSet(NameOf) |->
                     IF e[1] = 0 THEN FirstArchive[e[2]] ELSE <<>>]
    /\ outdated = {} /\ spoilt = {}
    /\ outcome = [c \in Capabilities |-> [name \in AllNames |-> Untouched]]

Goto(p, to) == pc' = [pc EXCEPT ![p] = to]
Archived == UNION {ToSet(archive[e]) : e \in DOMAIN archive}
\* A change directory has one archiver, and its name is taken while it is there.
MayArchive(p, n) ==
    /\ n \notin Archived
    /\ \A q \in Procs \ {p} : change[q] # n
    /\ \A m \in 1..(n - 1) : NameOf[m] = NameOf[n] => m \in Archived

\* archive_change begins; after a crash or an error, again.
Run(p, n) ==
    /\ pc[p] \in {"idle", "returned"} /\ MayArchive(p, n)
    /\ runs[n] < MaxRuns /\ runs' = [runs EXCEPT ![n] = @ + 1]
    /\ change' = [change EXCEPT ![p] = n]
    /\ began' = [began EXCEPT ![p] = day]
    /\ \E m \in BOOLEAN : /\ merging' = [merging EXCEPT ![p] = m]
                          /\ Goto(p, IF m THEN "merging" ELSE "moving")
    /\ read' = [read EXCEPT ![p] = 0] /\ merged' = [merged EXCEPT ![p] = 0]
    /\ UNCHANGED <<content, files, day, archive>>

\* The run ends without the change archived: an error, or a kill.
Leaves(p) ==
    /\ Goto(p, "idle")
    /\ change' = [change EXCEPT ![p] = 0] /\ content' = [content EXCEPT ![p] = <<>>]
    /\ read' = [read EXCEPT ![p] = 0] /\ merged' = [merged EXCEPT ![p] = 0]
    /\ merging' = [merging EXCEPT ![p] = TRUE] /\ began' = [began EXCEPT ![p] = 0]
    /\ UNCHANGED <<runs, day, archive>>

\* requirement_texts of the next source, which raises when it is malformed.
ReadSource(p) ==
    /\ pc[p] = "merging" /\ read[p] < Len(Sources(change[p]))
    /\ \/ /\ read' = [read EXCEPT ![p] = @ + 1]
          /\ UNCHANGED <<pc, change, began, merging, merged, content, runs, day, archive>>
       \/ Leaves(p)
    /\ UNCHANGED files

\* Every delta is read before the first registry file is written.
MayWrite(p) == read[p] = Len(Sources(change[p]))
AtHand(p) == Deltas(change[p])[merged[p] + 1]

\* The next delta's registry file is read.
ReadTarget(p) ==
    /\ pc[p] = "merging" /\ MayWrite(p) /\ merged[p] < Len(Deltas(change[p]))
    /\ Goto(p, "opening")
    /\ content' = [content EXCEPT ![p] = Merge(registry[AtHand(p).cap], AtHand(p))]
    /\ UNCHANGED <<change, began, merging, read, merged, runs, files, day, archive>>

\* write_text opens the file, which truncates it.
Truncate(p) ==
    /\ pc[p] = "opening"
    /\ Goto(p, "writing")
    /\ registry' = [registry EXCEPT ![AtHand(p).cap] = <<>>]
    /\ UNCHANGED <<locals, runs, outdated, spoilt, outcome, day, archive>>

\* The text is written from the start of the file: what is left of a longer
\* one that another process wrote meanwhile stays behind it.
Behind(file) == {<<>>} \cup {SubSeq(file, k, Len(file)) : k \in 2..Len(file)}
Effect(p, d, name) ==
    [by |-> change[p], delta |-> merged[p] + 1, op |-> OpOn(d, name)]

\* The outcomes of a spoilt file are no longer followed.
Note(c, spoils, outcomes) ==
    /\ spoilt' = IF spoils THEN spoilt \cup {c} ELSE spoilt
    /\ outcome' = [outcome EXCEPT ![c] =
          IF c \in spoilt' THEN [name \in AllNames |-> Untouched] ELSE outcomes]

Write(p) ==
    LET d == AtHand(p)
        c == d.cap
    IN /\ pc[p] = "writing"
       /\ Goto(p, "merging")
       /\ merged' = [merged EXCEPT ![p] = @ + 1]
       /\ \E rest \in Behind(registry[c]) :
              registry' = [registry EXCEPT ![c] = content[p] \o rest]
       /\ outdated' = (outdated \ {p}) \cup {q \in Procs \ {p} :
              pc[q] \in {"opening", "writing"} /\ AtHand(q).cap = c}
       /\ Note(c, p \in outdated, [name \in AllNames |->
              IF name \in NamedIn(d) THEN Effect(p, d, name) ELSE outcome[c][name]])
       /\ content' = [content EXCEPT ![p] = <<>>]
       /\ UNCHANGED <<change, began, merging, read, runs, day, archive>>

MergeReturns(p) ==
    /\ pc[p] = "merging" /\ MayWrite(p) /\ merged[p] = Len(Deltas(change[p]))
    /\ Goto(p, "moving")
    /\ UNCHANGED <<locals, runs, files, day, archive>>

\* shutil.move to archive/<day>-<name>, of the day the run began.  A directory
\* of that name takes the change inside it; when it holds one already, the
\* move raises.
Move(p) ==
    LET e == <<began[p], NameOf[change[p]]>>
    IN /\ pc[p] = "moving"
       /\ \/ /\ Len(archive[e]) < 2
             /\ archive' = [archive EXCEPT ![e] = Append(@, change[p])]
             /\ Goto(p, "returned")
             /\ UNCHANGED <<locals, runs, day>>
          \/ Len(archive[e]) >= 2 /\ Leaves(p)
       /\ UNCHANGED files

RunKilled(p) ==
    /\ pc[p] \in {"merging", "opening", "writing", "moving"}
    /\ Leaves(p)
    /\ outdated' = outdated \ {p}
    /\ IF pc[p] = "writing" THEN Note(AtHand(p).cap, TRUE, <<>>)
                            ELSE UNCHANGED <<spoilt, outcome>>
    /\ UNCHANGED registry

NewDay ==
    /\ day < MaxDay
    /\ day' = day + 1
    /\ UNCHANGED <<pc, locals, runs, files, archive>>

ArchiveNext ==
    \/ \E p \in Procs : \/ \E n \in Changes : Run(p, n)
                        \/ ReadSource(p) \/ ReadTarget(p) \/ Truncate(p) \/ Write(p)
                        \/ MergeReturns(p) \/ Move(p) \/ RunKilled(p)
    \/ NewDay

ArchiveSpec == ArchiveInit /\ [][ArchiveNext]_archiveVars

-----------------------------------------------------------------------------
(* Properties.  An interrupted merge is run again from its first delta, on *)
(* files that already hold some of them, and the deltas of two changes are *)
(* written in any order: what must come of it is stated by the last delta  *)
(* written that names a requirement.                                       *)

\* A repeated ADDED may have put a second block of a name into a file, and a
\* file made from a delta keeps what that delta removes.
Shows(cap, file, name, last) ==
    LET d == Deltas(last.by)[last.delta]
    IN CASE last.op = "none"     -> TRUE
         [] last.op = "added"    -> BlockOf(d.added, name) \in ToSet(file)
         [] last.op = "modified" -> \A b \in ToSet(file) :
                                        b.name = name => b = BlockOf(d.modified, name)
         [] last.op = "removed"  -> FirstFiles[cap] # NoFile => name \notin Names(file)

Named(outcomes) == {name \in AllNames : outcomes[name].op # "none"}
Follows(cap, file, outcomes) ==
    /\ \A name \in AllNames : Shows(cap, file, name, outcomes[name])
    /\ FirstFiles[cap] # NoFile => Dropping(file, Named(outcomes)) =
                                       Dropping(FirstFiles[cap], Named(outcomes))

\* A registry file shows what the last delta written of each requirement
\* says: what it adds is there, no block keeps a text it replaces, what it
\* removes is gone, and what no delta names is as and where it was; however
\* often merges were cut short and run again, and whoever else merges into
\* the file or into others; unless one was killed inside write_text, or wrote
\* the file over a write it had not read (merge_delta_requirements).
RegistryFollowsDeltas ==
    \A cap \in Capabilities :
        /\ registry[cap] # NoFile /\ cap \notin spoilt
        /\ \A p \in Procs : pc[p] = "writing" => AtHand(p).cap # cap
        => Follows(cap, registry[cap], outcome[cap])

\* When archive_change returns, every requirement the change names was last
\* written by its last delta that names it, or by another change.
LastNaming(n, cap, name) ==
    LET naming == {i \in DOMAIN Deltas(n) :
                       Deltas(n)[i].cap = cap /\ name \in NamedIn(Deltas(n)[i])}
    IN IF naming = {} THEN 0 ELSE CHOOSE i \in naming : \A j \in naming : j <= i
ArchivedIsMerged ==
    \A p \in Procs : pc[p] = "returned" /\ merging[p] =>
        \A cap \in Capabilities, name \in AllNames :
            LET i == LastNaming(change[p], cap, name)
                last == outcome[cap][name]
            IN i # 0 /\ cap \notin spoilt =>
                   IF last.by = change[p] THEN last.delta = i ELSE last.by # 0

\* Whatever is archived with its specs is in the registry, and the registry
\* holds nothing else.
DeltasAreApplied == RegistryFollowsDeltas /\ ArchivedIsMerged
=============================================================================
