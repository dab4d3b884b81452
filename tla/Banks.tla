--------------------------------- MODULE Banks ---------------------------------
(***************************************************************************)
(* load_banks (banks.py): the memory banks a configuration declares.       *)
(*                                                                         *)
(* The entries are parsed one by one, then the relocation of the personal  *)
(* bank is settled, then the banks that overlap one another are left out.  *)
(* Paths are resolved directories; mode, remote and sync decide nothing    *)
(* here.  An entry without a usable name stands for one that is no mapping *)
(* too.  resolve() falling back on a path it cannot resolve is left out.   *)
(***************************************************************************)
EXTENDS Naturals, Sequences, FiniteSets

CONSTANTS
    Dirs,
    Below,      \* [dir -> the directories at or below it]
    MemoryDir,  \* the configured memory directory
    Existing,   \* the directories is_dir finds
    Names,      \* names a shared bank may have
    Personal,   \* the name of the personal bank
    NoName,     \* no mapping, or no usable name
    DefaultDir, \* [name -> <workspace_base>/banks/<name>]
    NoPath,     \* an entry without a path
    BadPath,    \* a path whose reading raises, like "~nobody/notes"
    MaxEntries  \* bound: entries of the configuration

\* Directories form a tree: what holds one directory is a chain.
ASSUME BanksAssumption ==
    /\ MemoryDir \in Dirs /\ Existing \subseteq Dirs
    /\ Below \in [Dirs -> SUBSET Dirs] /\ DefaultDir \in [Names -> Dirs]
    /\ Personal \notin Names /\ NoName \notin Names \cup {Personal}
    /\ NoPath \notin Dirs /\ BadPath \notin Dirs \cup {NoPath}
    /\ \A d \in Dirs : d \in Below[d]
    /\ \A a, b, d \in Dirs :
           d \in Below[a] /\ d \in Below[b] => a \in Below[b] \/ b \in Below[a]

VARIABLES
    config,     \* memory_banks: the entries, in order
    pc,         \* "parsing", "settling", "filtering", "returned"
    next,       \* the entry, then the candidate, that is looked at next
    seen,       \* names met so far
    candidates, \* shared banks parsed so far
    personal,   \* the directory of the personal bank
    kept        \* candidates that may coexist

vars == <<config, pc, next, seen, candidates, personal, kept>>

Entries == [name : Names \cup {Personal}, path : Dirs \cup {NoPath, BadPath}]
           \cup [name : {NoName}, path : {NoPath}]
Shared == [name : Names, path : Dirs]

TypeOK ==
    /\ config \in Seq(Entries)
    /\ pc \in {"parsing", "settling", "filtering", "returned"}
    /\ next \in Nat \ {0}
    /\ pc = "parsing" => next <= Len(config) + 1
    /\ pc = "filtering" => next <= Len(candidates) + 1
    /\ seen \subseteq Names \cup {Personal}
    /\ candidates \in Seq(Shared) /\ kept \in Seq(Shared)
    /\ personal \in Dirs

Init ==
    /\ config \in UNION {[1..n -> Entries] : n \in 0..MaxEntries}
    /\ pc = "parsing" /\ next = 1 /\ seen = {}
    /\ candidates = <<>> /\ kept = <<>>
    /\ personal = MemoryDir

-----------------------------------------------------------------------------
(* Phase 1: every entry is parsed, and compared to nothing.                *)

Inside(child, parent) == child \in Below[parent]
\* Mistake: only one of the two ways to nest is looked at.
OverlapsMutant(a, b) == Inside(a, b)
Overlaps(a, b) == Inside(a, b) \/ Inside(b, a)

\* Where an entry says its bank is.
BankDir(e) == IF e.path = NoPath THEN DefaultDir[e.name] ELSE e.path
Usable(e) == e.path # BadPath
Relocates(e) == e.name = Personal /\ e.path \in Existing

Fresh(name) == name # NoName /\ name \notin seen

\* Mistake: an entry that cannot be read ends the loop.
AfterFailureMutant == Len(config) + 1
AfterFailure == next + 1

Entry == config[next]
Parsing == pc = "parsing" /\ next <= Len(config)
Advance(n) == next' = n /\ UNCHANGED <<config, pc, kept>>

\* No mapping, an unusable name, or a name declared before.
SkipEntry ==
    /\ Parsing /\ ~Fresh(Entry.name)
    /\ Advance(next + 1)
    /\ UNCHANGED <<seen, candidates, personal>>

\* The entry counts as its name's, whatever comes of it.
Take(n) == Fresh(Entry.name) /\ seen' = seen \cup {Entry.name} /\ Advance(n)

\* Its path raises: the exception is logged and the loop goes on.
EntryFails ==
    /\ Parsing /\ ~Usable(Entry)
    /\ Take(AfterFailure)
    /\ UNCHANGED <<candidates, personal>>

\* The personal bank moves, but only to a directory that exists.
Relocate ==
    /\ Parsing /\ Usable(Entry) /\ Entry.name = Personal
    /\ Take(next + 1)
    /\ personal' = IF Relocates(Entry) THEN Entry.path ELSE personal
    /\ UNCHANGED candidates

AddCandidate ==
    /\ Parsing /\ Usable(Entry) /\ Entry.name \in Names
    /\ Take(next + 1)
    /\ candidates' = Append(candidates, [name |-> Entry.name, path |-> BankDir(Entry)])
    /\ UNCHANGED personal

EndParsing ==
    /\ pc = "parsing" /\ next > Len(config)
    /\ pc' = "settling"
    /\ UNCHANGED <<config, next, seen, candidates, personal, kept>>

-----------------------------------------------------------------------------
(* Phase 2: one pass over the resolved list.                               *)

\* A relocation loses to a shared bank.  Mistake: only to one that has the
\* very same directory.
ClashesMutant(dir) == \E i \in DOMAIN candidates : candidates[i].path = dir
Clashes(dir) == \E i \in DOMAIN candidates : Overlaps(dir, candidates[i].path)

SettlePersonal ==
    /\ pc = "settling"
    /\ pc' = "filtering" /\ next' = 1
    /\ personal' = IF personal # MemoryDir /\ Clashes(personal)
                   THEN MemoryDir ELSE personal
    /\ UNCHANGED <<config, seen, candidates, kept>>

Coexists(bank) ==
    /\ ~Overlaps(bank.path, personal)
    /\ \A i \in DOMAIN kept : ~Overlaps(bank.path, kept[i].path)

\* The next candidate is kept or left out (_without_overlaps).
FilterNext ==
    /\ pc = "filtering" /\ next <= Len(candidates)
    /\ kept' = IF Coexists(candidates[next]) THEN Append(kept, candidates[next])
               ELSE kept
    /\ next' = next + 1
    /\ UNCHANGED <<config, pc, seen, candidates, personal>>

Return ==
    /\ pc = "filtering" /\ next > Len(candidates)
    /\ pc' = "returned"
    /\ UNCHANGED <<config, next, seen, candidates, personal, kept>>

Next ==
    \/ SkipEntry \/ EntryFails \/ Relocate \/ AddCandidate \/ EndParsing
    \/ SettlePersonal \/ FilterNext \/ Return

Spec == Init /\ [][Next]_vars

-----------------------------------------------------------------------------
(* The banks that come back, and references to their files.                *)

Banks == <<[name |-> Personal, path |-> personal]>> \o kept

\* bank_ref and parse_bank_ref: what stands before the filename, which is
\* nothing for the personal bank.
BankRef(bank) == IF bank.name = Personal THEN <<>> ELSE <<bank.name>>
RefName(ref) == IF ref = <<>> THEN Personal ELSE ref[1]
ParseBankRef(ref) ==
    LET named == {i \in DOMAIN Banks : Banks[i].name = RefName(ref)}
    IN  CHOOSE i \in named : \A j \in named : i <= j

-----------------------------------------------------------------------------
(* Properties.                                                             *)

\* "A memory file belongs to exactly one bank": no directory lies in two of
\* the banks that load_banks returns, whichever way the entries nest.
OneBankPerFile ==
    pc = "returned" =>
        \A d \in Dirs, i, j \in DOMAIN Banks :
            Inside(d, Banks[i].path) /\ Inside(d, Banks[j].path) => i = j

\* The entries that count: the first of each name.
Counts(i) == config[i].name # NoName /\ \A j \in 1..(i - 1) : config[j].name # config[i].name
DeclaredAt(d) ==
    \E i \in DOMAIN config : /\ Counts(i) /\ Usable(config[i])
                             /\ config[i].name \in Names /\ BankDir(config[i]) = d
RelocatedTo(d) == \E i \in DOMAIN config :
                      Counts(i) /\ Relocates(config[i]) /\ config[i].path = d

\* The personal bank is where the configuration relocates it exactly when no
\* shared bank is declared over, under or at that directory, before or after
\* the relocation; otherwise it is where it was (load_banks, the two phases).
Allowed == {d \in Dirs : /\ RelocatedTo(d)
                         /\ \A e \in Dirs : DeclaredAt(e) => ~Overlaps(d, e)}
PersonalIsSettled ==
    IF Allowed \ {MemoryDir} = {} THEN personal = MemoryDir ELSE personal \in Allowed

RelocationIgnoresOrder == pc = "returned" => PersonalIsSettled

\* A bank over, under or at the memory directory, at what that is relocated to,
\* or at another declared bank may be left out; any other one stands apart.
StandsApart(i) ==
    /\ \A d \in Dirs : d = MemoryDir \/ RelocatedTo(d) => ~Overlaps(BankDir(config[i]), d)
    /\ \A j \in DOMAIN config \ {i} :
           Counts(j) /\ Usable(config[j]) /\ config[j].name \in Names =>
               ~Overlaps(BankDir(config[i]), BankDir(config[j]))

\* What becomes of a name is decided by its first entry, whatever else stands in
\* the configuration.  Usable and apart from the others, its bank is returned and
\* the references of its files lead to it, however many other entries could not
\* be read.  Unusable, it still has the name: no bank of that name is returned,
\* though a later entry of it may well be usable.
FirstEntryDecides ==
    pc = "returned" =>
        \A i \in DOMAIN config : Counts(i) /\ config[i].name \in Names =>
            /\ Usable(config[i]) /\ StandsApart(i) =>
                   \E k \in DOMAIN Banks :
                       /\ Banks[k] = [name |-> config[i].name, path |-> BankDir(config[i])]
                       /\ ParseBankRef(BankRef(Banks[k])) = k
            /\ ~Usable(config[i]) =>
                   \A k \in DOMAIN Banks : Banks[k].name # config[i].name

=============================================================================
