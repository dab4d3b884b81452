------------------------------ MODULE BanksProofs ------------------------------
(***************************************************************************)
(* Proofs about Banks: no file belongs to two banks, the order of the      *)
(* entries does not decide whether the personal bank moves, and a bank     *)
(* that nests with no other comes back, for every configuration, however   *)
(* long, and every tree of directories.                                    *)
(***************************************************************************)
EXTENDS Banks, TLAPS

\* No two banks kept so far overlap, nor does one of them overlap the
\* personal bank; nothing is kept before that bank is settled.
KeptApart ==
    /\ pc \in {"parsing", "settling"} => kept = <<>>
    /\ \A i \in DOMAIN kept : ~Overlaps(kept[i].path, personal)
    /\ \A i, j \in DOMAIN kept : i # j => ~Overlaps(kept[i].path, kept[j].path)

\* The entries that have been parsed.
Parsed == IF pc = "parsing" THEN 1..(next - 1) ELSE DOMAIN config
Declares(i, d) == /\ Counts(i) /\ Usable(config[i])
                  /\ config[i].name \in Names /\ BankDir(config[i]) = d
RelocatesTo(i, d) == Counts(i) /\ Relocates(config[i]) /\ config[i].path = d

\* What parsing knows is what the parsed entries say.
ParsedIsKnown ==
    /\ seen = {config[i].name : i \in Parsed} \ {NoName}
    /\ \A d \in Dirs : (\E k \in DOMAIN candidates : candidates[k].path = d)
                           <=> \E i \in Parsed : Declares(i, d)
    /\ pc \in {"parsing", "settling"} =>
           /\ \A i \in Parsed, d \in Dirs : RelocatesTo(i, d) => personal = d
           /\ personal # MemoryDir => \E i \in Parsed : RelocatesTo(i, personal)

Settled == pc \in {"filtering", "returned"} => PersonalIsSettled

-----------------------------------------------------------------------------
(* Type correctness.                                                       *)

\* Every variable of load_banks has its type at every step.
THEOREM TypeCorrect == Spec => []TypeOK
<1>1. Init => TypeOK
  BY BanksAssumption DEF Init, TypeOK
<1>2. TypeOK /\ [Next]_vars => TypeOK'
  <2> SUFFICES ASSUME TypeOK, [Next]_vars PROVE TypeOK'
    OBVIOUS
  <2> USE BanksAssumption DEF TypeOK
  <2>1. CASE SkipEntry
    BY <2>1 DEF SkipEntry, Parsing, Advance
  <2>2. CASE EntryFails
    BY <2>2 DEF EntryFails, Parsing, Take, Fresh, Advance, Entry, AfterFailure, Entries
  <2>3. CASE Relocate
    BY <2>3 DEF Relocate, Parsing, Take, Fresh, Advance, Entry, Relocates, Entries
  <2>4. CASE AddCandidate
    <3>1. Entry \in Entries
      BY <2>4 DEF AddCandidate, Parsing, Entry
    <3>2. BankDir(Entry) \in Dirs
      BY <2>4, <3>1 DEF AddCandidate, Usable, BankDir, Entries
    <3>3. candidates' \in Seq(Shared)
      BY <2>4, <3>2 DEF AddCandidate, Shared
    <3> QED
      BY <2>4, <3>1, <3>3 DEF AddCandidate, Parsing, Take, Fresh, Advance
  <2>5. CASE EndParsing
    BY <2>5 DEF EndParsing
  <2>6. CASE SettlePersonal
    BY <2>6 DEF SettlePersonal
  <2>7. CASE FilterNext
    BY <2>7 DEF FilterNext
  <2>8. CASE Return
    BY <2>8 DEF Return
  <2>9. CASE UNCHANGED vars
    BY <2>9 DEF vars
  <2> QED
    BY <2>1, <2>2, <2>3, <2>4, <2>5, <2>6, <2>7, <2>8, <2>9 DEF Next
<1> QED
  BY <1>1, <1>2, PTL DEF Spec
-----------------------------------------------------------------------------
(* No file belongs to two banks.                                           *)

LEMMA OverlapsIsSymmetric ==
  ASSUME NEW a, NEW b PROVE Overlaps(a, b) <=> Overlaps(b, a)
  BY DEF Overlaps

\* The directories that hold a file lie one below another.
LEMMA SharedFileMeansOverlap ==
  \A a, b, d \in Dirs : Inside(d, a) /\ Inside(d, b) => Overlaps(a, b)
  BY BanksAssumption DEF Overlaps, Inside

\* A candidate that coexists with what is kept can be appended to it.
LEMMA AppendKeepsApart ==
  ASSUME TypeOK, KeptApart, NEW bank \in Shared, Coexists(bank),
         NEW longer, longer = Append(kept, bank)
  PROVE  /\ \A i \in DOMAIN longer : ~Overlaps(longer[i].path, personal)
         /\ \A i, j \in DOMAIN longer :
                i # j => ~Overlaps(longer[i].path, longer[j].path)
<1>1. kept \in Seq(Shared)
  BY DEF TypeOK
<1>2. /\ DOMAIN longer = 1..(Len(kept) + 1)
      /\ \A i \in DOMAIN kept : longer[i] = kept[i]
      /\ longer[Len(kept) + 1] = bank
  BY <1>1
<1>3. \A i \in DOMAIN longer : i \in DOMAIN kept \/ i = Len(kept) + 1
  BY <1>1, <1>2
<1>4. \A i \in DOMAIN longer : ~Overlaps(longer[i].path, personal)
  BY <1>2, <1>3 DEF KeptApart, Coexists
<1>5. \A i \in DOMAIN kept : ~Overlaps(bank.path, kept[i].path)
                             /\ ~Overlaps(kept[i].path, bank.path)
  BY OverlapsIsSymmetric DEF Coexists
<1>6. \A i, j \in DOMAIN longer :
          i # j => ~Overlaps(longer[i].path, longer[j].path)
  BY <1>2, <1>3, <1>5 DEF KeptApart
<1> QED
  BY <1>4, <1>6

LEMMA KeptApartIsInvariant == Spec => []KeptApart
<1>1. Init => KeptApart
  BY DEF Init, KeptApart
<1>2. TypeOK /\ KeptApart /\ [Next]_vars => KeptApart'
  <2> SUFFICES ASSUME TypeOK, KeptApart, [Next]_vars PROVE KeptApart'
    OBVIOUS
  <2>1. CASE SkipEntry \/ EntryFails \/ Relocate \/ AddCandidate
    <3>1. pc = "parsing" /\ pc' = pc /\ kept' = kept
      BY <2>1 DEF SkipEntry, EntryFails, Relocate, AddCandidate, Parsing, Take, Advance
    <3> QED
      BY <3>1 DEF KeptApart
  <2>2. CASE EndParsing
    BY <2>2 DEF EndParsing, KeptApart
  <2>3. CASE SettlePersonal
    <3>1. kept' = <<>> /\ pc' = "filtering"
      BY <2>3 DEF SettlePersonal, KeptApart
    <3> QED
      BY <3>1 DEF KeptApart
  <2>4. CASE FilterNext
    <3> SUFFICES ASSUME kept' # kept PROVE KeptApart'
      BY <2>4 DEF FilterNext, KeptApart
    <3>1. /\ candidates[next] \in Shared /\ Coexists(candidates[next])
          /\ kept' = Append(kept, candidates[next])
          /\ pc' = "filtering" /\ personal' = personal
      BY <2>4 DEF FilterNext, TypeOK
    <3> QED
      BY <3>1, AppendKeepsApart DEF KeptApart
  <2>5. CASE Return
    BY <2>5 DEF Return, KeptApart
  <2>6. CASE UNCHANGED vars
    BY <2>6 DEF vars, KeptApart
  <2> QED
    BY <2>1, <2>2, <2>3, <2>4, <2>5, <2>6 DEF Next
<1> QED
  BY <1>1, <1>2, TypeCorrect, PTL DEF Spec

\* "A memory file belongs to exactly one bank", for every configuration and
\* every tree of directories (load_banks, _without_overlaps).
THEOREM NoFileInTwoBanks == Spec => []OneBankPerFile
<1>1. TypeOK /\ KeptApart => OneBankPerFile
  <2> SUFFICES ASSUME TypeOK, KeptApart,
                      NEW d \in Dirs, NEW i \in DOMAIN Banks, NEW j \in DOMAIN Banks,
                      Inside(d, Banks[i].path), Inside(d, Banks[j].path), i # j
               PROVE  FALSE
    BY DEF OneBankPerFile
  <2>1. /\ DOMAIN Banks = 1..(Len(kept) + 1)
        /\ Banks[1].path = personal
        /\ \A k \in 2..(Len(kept) + 1) :
               k - 1 \in DOMAIN kept /\ Banks[k].path = kept[k - 1].path
    BY DEF Banks, TypeOK
  <2>2. Overlaps(Banks[i].path, Banks[j].path)
    <3>1. \A k \in DOMAIN kept : kept[k].path \in Dirs
      <4>1. \A k \in DOMAIN kept : kept[k] \in Shared
        BY DEF TypeOK
      <4> QED
        BY <4>1 DEF Shared
    <3>2. \A k \in DOMAIN Banks : Banks[k].path \in Dirs
      <4>1. \A k \in DOMAIN Banks : k = 1 \/ k \in 2..(Len(kept) + 1)
        BY <2>1
      <4> QED
        BY <2>1, <3>1, <4>1 DEF TypeOK
    <3> QED
      BY <3>2, SharedFileMeansOverlap
  <2>3. CASE i = 1 \/ j = 1
    BY <2>1, <2>2, <2>3, OverlapsIsSymmetric DEF KeptApart, TypeOK
  <2>4. CASE i # 1 /\ j # 1
    BY <2>1, <2>2, <2>4 DEF KeptApart, TypeOK
  <2> QED
    BY <2>3, <2>4
<1> QED
  BY <1>1, TypeCorrect, KeptApartIsInvariant, PTL
-----------------------------------------------------------------------------
(* The order of the entries does not decide where the personal bank is.    *)

\* An entry that is parsed next counts exactly when its name is fresh.
LEMMA FreshCounts ==
  ASSUME TypeOK, ParsedIsKnown, Parsing
  PROVE  Counts(next) <=> Fresh(Entry.name)
<1>1. Parsed = 1..(next - 1) /\ Entry = config[next]
  BY DEF Parsing, Parsed, Entry
<1>2. Entry.name \in seen <=>
          Entry.name # NoName /\ \E j \in 1..(next - 1) : config[j].name = Entry.name
  BY <1>1 DEF ParsedIsKnown
<1> QED
  BY <1>1, <1>2 DEF Counts, Fresh

\* What a step of the loop does to the entries that are parsed.
LEMMA LoopStep ==
  ASSUME TypeOK, Parsing, config' = config, pc' = pc, next' = next + 1
  PROVE  /\ Parsed' = Parsed \cup {next} /\ next \in DOMAIN config /\ next \notin Parsed
         /\ \A i, d : Declares(i, d)' <=> Declares(i, d)
         /\ \A i, d : RelocatesTo(i, d)' <=> RelocatesTo(i, d)
<1>1. Parsed = 1..(next - 1) /\ Parsed' = 1..next
  BY DEF Parsing, Parsed, TypeOK
<1>2. next \in 1..Len(config) /\ DOMAIN config = 1..Len(config)
  BY DEF Parsing, TypeOK
<1>3. 1..next = 1..(next - 1) \cup {next} /\ next \notin 1..(next - 1)
  BY <1>2
<1> QED
  BY <1>1, <1>2, <1>3 DEF Declares, RelocatesTo, Counts

\* Nothing that counts comes before a fresh name: no earlier relocation when
\* the entry names the personal bank.
LEMMA NoEarlierRelocation ==
  ASSUME TypeOK, ParsedIsKnown, Parsing, Fresh(Entry.name), Entry.name = Personal,
         NEW i \in Parsed, NEW d
  PROVE  ~RelocatesTo(i, d)
  BY DEF ParsedIsKnown, Fresh, Parsing, Parsed, Entry, RelocatesTo, Relocates

\* A step that leaves candidates and personal alone and whose entry says
\* nothing of either.
LEMMA SilentStep ==
  ASSUME TypeOK, ParsedIsKnown, Parsing, config' = config, pc' = pc, next' = next + 1,
         candidates' = candidates, personal' = personal,
         \A d : ~Declares(next, d) /\ ~RelocatesTo(next, d),
         seen' = {config'[i].name : i \in Parsed'} \ {NoName}
  PROVE  ParsedIsKnown'
<1>1. /\ Parsed' = Parsed \cup {next}
      /\ \A i, d : Declares(i, d)' <=> Declares(i, d)
      /\ \A i, d : RelocatesTo(i, d)' <=> RelocatesTo(i, d)
  BY LoopStep
<1>2. \A d \in Dirs : (\E k \in DOMAIN candidates' : candidates'[k].path = d)
                          <=> \E i \in Parsed' : Declares(i, d)'
  BY <1>1 DEF ParsedIsKnown
<1>3. /\ \A i \in Parsed', d \in Dirs : RelocatesTo(i, d)' => personal' = d
      /\ personal' # MemoryDir => \E i \in Parsed' : RelocatesTo(i, personal)'
  BY <1>1 DEF ParsedIsKnown, Parsing
<1> QED
  BY <1>2, <1>3 DEF ParsedIsKnown

\* What parsing knows stays what the parsed entries say, action by action.
LEMMA ParsedIsKnownIsInvariant == Spec => []ParsedIsKnown
<1>1. Init => ParsedIsKnown
  BY DEF Init, ParsedIsKnown, Parsed
<1>2. TypeOK /\ ParsedIsKnown /\ [Next]_vars => ParsedIsKnown'
  <2> SUFFICES ASSUME TypeOK, ParsedIsKnown, [Next]_vars PROVE ParsedIsKnown'
    OBVIOUS
  <2>1. CASE SkipEntry
    <3>1. Parsing /\ config' = config /\ pc' = pc /\ next' = next + 1 /\ ~Counts(next)
      BY <2>1, FreshCounts DEF SkipEntry, Advance
    <3>2. \A d : ~Declares(next, d) /\ ~RelocatesTo(next, d)
      BY <3>1 DEF Declares, RelocatesTo
    <3>3. seen' = {config'[i].name : i \in Parsed'} \ {NoName}
      BY <2>1, <3>1, LoopStep DEF SkipEntry, Fresh, Entry, ParsedIsKnown
    <3> QED
      BY <2>1, <3>1, <3>2, <3>3, SilentStep DEF SkipEntry
  <2>2. CASE EntryFails
    <3>1. Parsing /\ config' = config /\ pc' = pc /\ next' = next + 1
      BY <2>2 DEF EntryFails, Take, Advance, AfterFailure
    <3>2. \A d : ~Declares(next, d) /\ ~RelocatesTo(next, d)
      BY <2>2, BanksAssumption DEF EntryFails, Entry, Usable, Declares, RelocatesTo, Relocates
    <3>3. seen' = {config'[i].name : i \in Parsed'} \ {NoName}
      BY <2>2, <3>1, LoopStep DEF EntryFails, Take, Fresh, Entry, ParsedIsKnown
    <3> QED
      BY <2>2, <3>1, <3>2, <3>3, SilentStep DEF EntryFails
  <2>3. CASE Relocate
    <3>1. /\ Parsing /\ config' = config /\ pc' = pc /\ next' = next + 1
          /\ Fresh(Entry.name) /\ Entry.name = Personal /\ candidates' = candidates
      BY <2>3 DEF Relocate, Take, Advance
    <3>2. \A d : ~Declares(next, d)
      BY <3>1, BanksAssumption DEF Declares, Entry
    <3>3. seen' = {config'[i].name : i \in Parsed'} \ {NoName}
      BY <2>3, <3>1, LoopStep DEF Relocate, Take, Fresh, Entry, ParsedIsKnown
    <3>4. CASE ~Relocates(Entry)
      <4>1. personal' = personal /\ \A d : ~RelocatesTo(next, d)
        BY <2>3, <3>4 DEF Relocate, RelocatesTo, Entry
      <4> QED
        BY <3>1, <3>2, <3>3, <4>1, SilentStep
    <3>5. CASE Relocates(Entry)
      <4>1. /\ personal' = Entry.path /\ Entry.path \in Dirs
            /\ \A d : RelocatesTo(next, d) <=> d = Entry.path
        BY <2>3, <3>1, <3>5, FreshCounts, BanksAssumption
           DEF Relocate, RelocatesTo, Relocates, Entry
      <4>2. /\ Parsed' = Parsed \cup {next}
            /\ \A i, d : Declares(i, d)' <=> Declares(i, d)
            /\ \A i, d : RelocatesTo(i, d)' <=> RelocatesTo(i, d)
        BY <3>1, LoopStep
      <4>3. \A i \in Parsed : \A d : ~RelocatesTo(i, d)
        BY <3>1, NoEarlierRelocation
      <4>4. \A d \in Dirs : (\E k \in DOMAIN candidates' : candidates'[k].path = d)
                                <=> \E i \in Parsed' : Declares(i, d)'
        BY <3>1, <3>2, <4>2 DEF ParsedIsKnown
      <4>5. \A i \in Parsed', d \in Dirs : RelocatesTo(i, d)' => personal' = d
        BY <4>1, <4>2, <4>3
      <4>6. \E i \in Parsed' : RelocatesTo(i, personal)'
        BY <4>1, <4>2 DEF RelocatesTo, Relocates, Counts
      <4> QED
        BY <3>3, <4>4, <4>5, <4>6 DEF ParsedIsKnown
    <3> QED
      BY <3>4, <3>5
  <2>4. CASE AddCandidate
    <3>1. /\ Parsing /\ config' = config /\ pc' = pc /\ next' = next + 1
          /\ Fresh(Entry.name) /\ Entry.name \in Names /\ Usable(Entry)
          /\ personal' = personal
          /\ candidates' = Append(candidates, [name |-> Entry.name, path |-> BankDir(Entry)])
      BY <2>4 DEF AddCandidate, Take, Advance
    <3>2. /\ Parsed' = Parsed \cup {next}
          /\ \A i, d : Declares(i, d)' <=> Declares(i, d)
          /\ \A i, d : RelocatesTo(i, d)' <=> RelocatesTo(i, d)
      BY <3>1, LoopStep
    <3>3. seen' = {config'[i].name : i \in Parsed'} \ {NoName}
      BY <2>4, <3>1, <3>2 DEF AddCandidate, Take, Fresh, Entry, ParsedIsKnown
    <3>4. \A d : Declares(next, d) <=> d = BankDir(Entry)
      BY <3>1, FreshCounts DEF Declares, Entry
    <3>5. \A d : ~RelocatesTo(next, d)
      BY <3>1, BanksAssumption DEF RelocatesTo, Relocates, Entry
    <3>6. \A d : (\E k \in DOMAIN candidates' : candidates'[k].path = d)
                 <=> \/ \E k \in DOMAIN candidates : candidates[k].path = d
                     \/ d = BankDir(Entry)
      <4>1. candidates \in Seq(Shared)
        BY DEF TypeOK
      <4>2. /\ DOMAIN candidates' = DOMAIN candidates \cup {Len(candidates) + 1}
            /\ \A k \in DOMAIN candidates : candidates'[k] = candidates[k]
            /\ candidates'[Len(candidates) + 1].path = BankDir(Entry)
        BY <3>1, <4>1
      <4> QED
        BY <4>2
    <3>7. \A d \in Dirs : (\E k \in DOMAIN candidates' : candidates'[k].path = d)
                              <=> \E i \in Parsed' : Declares(i, d)'
      BY <3>2, <3>4, <3>6 DEF ParsedIsKnown
    <3>8. /\ \A i \in Parsed', d \in Dirs : RelocatesTo(i, d)' => personal' = d
          /\ personal' # MemoryDir => \E i \in Parsed' : RelocatesTo(i, personal)'
      BY <3>1, <3>2, <3>5 DEF ParsedIsKnown, Parsing
    <3> QED
      BY <3>3, <3>7, <3>8 DEF ParsedIsKnown
  <2>5. CASE EndParsing \/ SettlePersonal \/ FilterNext \/ Return \/ UNCHANGED vars
    <3>1. Parsed' = Parsed /\ config' = config /\ seen' = seen /\ candidates' = candidates
      BY <2>5 DEF EndParsing, SettlePersonal, FilterNext, Return, vars, Parsed, TypeOK
    <3>2. pc' \in {"parsing", "settling"} =>
              pc \in {"parsing", "settling"} /\ personal' = personal
      BY <2>5 DEF EndParsing, SettlePersonal, FilterNext, Return, vars
    <3>3. \A i, d : (Declares(i, d)' <=> Declares(i, d))
                    /\ (RelocatesTo(i, d)' <=> RelocatesTo(i, d))
      BY <3>1 DEF Declares, RelocatesTo, Counts
    <3>4. seen' = {config'[i].name : i \in Parsed'} \ {NoName}
      BY <3>1 DEF ParsedIsKnown
    <3>5. \A d \in Dirs : (\E k \in DOMAIN candidates' : candidates'[k].path = d)
                              <=> \E i \in Parsed' : Declares(i, d)'
      BY <3>1, <3>3 DEF ParsedIsKnown
    <3>6. pc' \in {"parsing", "settling"} =>
             /\ \A i \in Parsed', d \in Dirs : RelocatesTo(i, d)' => personal' = d
             /\ personal' # MemoryDir => \E i \in Parsed' : RelocatesTo(i, personal)'
      BY <3>1, <3>2, <3>3 DEF ParsedIsKnown, RelocatesTo, Counts
    <3> QED
      BY <3>4, <3>5, <3>6 DEF ParsedIsKnown
  <2> QED
    BY <2>1, <2>2, <2>3, <2>4, <2>5 DEF Next
<1> QED
  BY <1>1, <1>2, TypeCorrect, PTL DEF Spec

\* The decision taken once every entry is parsed is the right one.
LEMMA SettlingIsRight ==
  ASSUME TypeOK, ParsedIsKnown, SettlePersonal
  PROVE  PersonalIsSettled'
<1>1. /\ Parsed = DOMAIN config /\ config' = config
      /\ personal \in Dirs /\ MemoryDir \in Dirs
      /\ personal' = IF personal # MemoryDir /\ Clashes(personal)
                     THEN MemoryDir ELSE personal
  BY BanksAssumption DEF SettlePersonal, Parsed, TypeOK
<1>2. \A d \in Dirs : DeclaredAt(d) <=> \E k \in DOMAIN candidates : candidates[k].path = d
  BY <1>1 DEF ParsedIsKnown, DeclaredAt, Declares
<1>3. \A d : RelocatedTo(d) <=> \E i \in Parsed : RelocatesTo(i, d)
  BY <1>1 DEF RelocatedTo, RelocatesTo
<1>4. /\ \A d \in Dirs : RelocatedTo(d) => personal = d
      /\ personal # MemoryDir => RelocatedTo(personal)
  BY <1>3 DEF ParsedIsKnown, SettlePersonal
<1>5. Clashes(personal) <=> \E e \in Dirs : DeclaredAt(e) /\ Overlaps(personal, e)
  <2>1. \A k \in DOMAIN candidates : candidates[k].path \in Dirs
    <3>1. \A k \in DOMAIN candidates : candidates[k] \in Shared
      BY DEF TypeOK
    <3> QED
      BY <3>1 DEF Shared
  <2> QED
    BY <1>2, <2>1 DEF Clashes
<1>6. Allowed' = Allowed
  BY <1>1 DEF Allowed, RelocatedTo, DeclaredAt, Counts
<1>7. CASE personal # MemoryDir /\ ~Clashes(personal)
  <2>1. personal' = personal /\ personal \in Allowed
    BY <1>1, <1>4, <1>5, <1>7 DEF Allowed
  <2> QED
    BY <1>6, <1>7, <2>1 DEF PersonalIsSettled
<1>8. CASE personal = MemoryDir \/ Clashes(personal)
  <2>1. personal' = MemoryDir
    BY <1>1, <1>8
  <2>2. Allowed \ {MemoryDir} = {}
    BY <1>4, <1>5, <1>8 DEF Allowed
  <2> QED
    BY <1>6, <2>1, <2>2 DEF PersonalIsSettled
<1> QED
  BY <1>7, <1>8

LEMMA SettledIsInvariant == Spec => []Settled
<1>1. Init => Settled
  BY DEF Init, Settled
<1>2. TypeOK /\ ParsedIsKnown /\ Settled /\ [Next]_vars => Settled'
  <2> SUFFICES ASSUME TypeOK, ParsedIsKnown, Settled, [Next]_vars PROVE Settled'
    OBVIOUS
  <2>1. CASE SettlePersonal
    BY <2>1, SettlingIsRight DEF Settled
  <2>2. CASE FilterNext \/ Return \/ UNCHANGED vars
    <3>1. config' = config /\ personal' = personal /\ (pc' = pc \/ pc = "filtering")
      BY <2>2 DEF FilterNext, Return, vars
    <3>2. PersonalIsSettled' <=> PersonalIsSettled
      BY <3>1 DEF PersonalIsSettled, Allowed, RelocatedTo, DeclaredAt, Counts
    <3> QED
      BY <3>1, <3>2 DEF Settled
  <2>3. CASE SkipEntry \/ EntryFails \/ Relocate \/ AddCandidate \/ EndParsing
    <3>1. pc' \in {"parsing", "settling"}
      BY <2>3 DEF SkipEntry, EntryFails, Relocate, AddCandidate, EndParsing,
                  Parsing, Take, Advance
    <3> QED
      BY <3>1 DEF Settled
  <2> QED
    BY <2>1, <2>2, <2>3 DEF Next
<1> QED
  BY <1>1, <1>2, TypeCorrect, ParsedIsKnownIsInvariant, PTL DEF Spec

\* The personal bank moves exactly when the configuration as a whole lets it,
\* wherever in the list the relocation and the other banks stand.
THEOREM OrderDoesNotDecide == Spec => []RelocationIgnoresOrder
<1>1. Settled => RelocationIgnoresOrder
  BY DEF Settled, RelocationIgnoresOrder
<1> QED
  BY <1>1, SettledIsInvariant, PTL
-----------------------------------------------------------------------------
(* An isolated bank comes back, and references lead to it.                 *)

\* The entries that declare a shared bank, and the bank they declare.
Declared(i) == Counts(i) /\ Usable(config[i]) /\ config[i].name \in Names
BankOf(i) == [name |-> config[i].name, path |-> BankDir(config[i])]

\* The candidates are the banks of the parsed entries, each name once.
CandidatesAreDeclared ==
    /\ \A i \in Parsed : Declared(i) => \E k \in DOMAIN candidates : candidates[k] = BankOf(i)
    /\ \A k \in DOMAIN candidates : \E i \in Parsed : Declared(i) /\ candidates[k] = BankOf(i)
    /\ \A k, l \in DOMAIN candidates : candidates[k].name = candidates[l].name => k = l

\* A candidate that overlaps neither the personal bank nor another candidate.
Isolated(k) == /\ ~Overlaps(candidates[k].path, personal)
               /\ \A l \in DOMAIN candidates \ {k} :
                      ~Overlaps(candidates[k].path, candidates[l].path)

\* What is kept is some of the candidates looked at so far, and the isolated ones
\* among them for certain.
KeptIsFiltered ==
    /\ pc = "returned" => next > Len(candidates)
    /\ \A m \in DOMAIN kept : \E k \in DOMAIN candidates : k < next /\ kept[m] = candidates[k]
    /\ \A m, n \in DOMAIN kept : kept[m].name = kept[n].name => m = n
    /\ pc \in {"filtering", "returned"} =>
           \A k \in DOMAIN candidates :
               k < next /\ Isolated(k) => \E m \in DOMAIN kept : kept[m] = candidates[k]

\* A step of the loop whose entry declares no bank.
LEMMA NoBankStep ==
  ASSUME TypeOK, CandidatesAreDeclared, Parsing, config' = config, pc' = pc,
         next' = next + 1, candidates' = candidates, ~Declared(next)
  PROVE  CandidatesAreDeclared'
<1>1. Parsed' = Parsed \cup {next}
  BY LoopStep
<1>2. \A i : (Declared(i)' <=> Declared(i)) /\ BankOf(i)' = BankOf(i)
  BY DEF Declared, BankOf, Counts
<1> QED
  BY <1>1, <1>2 DEF CandidatesAreDeclared

LEMMA CandidatesAreDeclaredIsInvariant == Spec => []CandidatesAreDeclared
<1>1. Init => CandidatesAreDeclared
  BY DEF Init, CandidatesAreDeclared, Parsed
<1>2. TypeOK /\ ParsedIsKnown /\ CandidatesAreDeclared /\ [Next]_vars
          => CandidatesAreDeclared'
  <2> SUFFICES ASSUME TypeOK, ParsedIsKnown, CandidatesAreDeclared, [Next]_vars
               PROVE  CandidatesAreDeclared'
    OBVIOUS
  <2>1. CASE SkipEntry
    <3>1. Parsing /\ ~Declared(next)
      BY <2>1, FreshCounts DEF SkipEntry, Declared
    <3> QED
      BY <2>1, <3>1, NoBankStep DEF SkipEntry, Advance
  <2>2. CASE EntryFails
    <3>1. Parsing /\ ~Declared(next)
      BY <2>2 DEF EntryFails, Declared, Entry
    <3> QED
      BY <2>2, <3>1, NoBankStep DEF EntryFails, Take, Advance, AfterFailure
  <2>3. CASE Relocate
    <3>1. Parsing /\ ~Declared(next)
      BY <2>3, BanksAssumption DEF Relocate, Declared, Entry
    <3> QED
      BY <2>3, <3>1, NoBankStep DEF Relocate, Take, Advance
  <2>4. CASE AddCandidate
    <3>1. /\ Parsing /\ config' = config /\ pc' = pc /\ next' = next + 1
          /\ Fresh(Entry.name) /\ Entry.name \in Names /\ Usable(Entry)
          /\ candidates' = Append(candidates, BankOf(next))
      BY <2>4 DEF AddCandidate, Take, Advance, BankOf, Entry
    <3>2. Declared(next) /\ BankOf(next).name = Entry.name
      BY <3>1, FreshCounts DEF Declared, BankOf, Entry
    <3>3. Parsed' = Parsed \cup {next}
      BY <3>1, LoopStep
    <3>4. \A i : (Declared(i)' <=> Declared(i)) /\ BankOf(i)' = BankOf(i)
      BY <3>1 DEF Declared, BankOf, Counts
    <3>5. /\ DOMAIN candidates' = DOMAIN candidates \cup {Len(candidates) + 1}
          /\ \A k \in DOMAIN candidates : candidates'[k] = candidates[k]
          /\ candidates'[Len(candidates) + 1] = BankOf(next)
          /\ Len(candidates) + 1 \notin DOMAIN candidates
      <4>1. candidates \in Seq(Shared)
        BY DEF TypeOK
      <4> QED
        BY <3>1, <4>1
    <3>6. \A k \in DOMAIN candidates : candidates[k].name # Entry.name
      <4>1. \A i \in Parsed : Declared(i) => config[i].name \in seen
        BY BanksAssumption DEF ParsedIsKnown, Declared
      <4>2. \A k \in DOMAIN candidates : candidates[k].name \in seen
        BY <4>1 DEF CandidatesAreDeclared, BankOf
      <4> QED
        BY <3>1, <4>2 DEF Fresh
    <3>7. \A i \in Parsed' : Declared(i)' =>
              \E k \in DOMAIN candidates' : candidates'[k] = BankOf(i)'
      BY <3>3, <3>4, <3>5 DEF CandidatesAreDeclared
    <3>8. \A k \in DOMAIN candidates' :
              \E i \in Parsed' : Declared(i)' /\ candidates'[k] = BankOf(i)'
      BY <3>2, <3>3, <3>4, <3>5 DEF CandidatesAreDeclared
    <3>9. \A k, l \in DOMAIN candidates' : candidates'[k].name = candidates'[l].name => k = l
      BY <3>2, <3>5, <3>6 DEF CandidatesAreDeclared
    <3> QED
      BY <3>7, <3>8, <3>9 DEF CandidatesAreDeclared
  <2>5. CASE EndParsing \/ SettlePersonal \/ FilterNext \/ Return \/ UNCHANGED vars
    <3>1. Parsed' = Parsed /\ config' = config /\ candidates' = candidates
      BY <2>5 DEF EndParsing, SettlePersonal, FilterNext, Return, vars, Parsed, TypeOK
    <3> QED
      BY <3>1 DEF CandidatesAreDeclared, Declared, BankOf, Counts
  <2> QED
    BY <2>1, <2>2, <2>3, <2>4, <2>5 DEF Next
<1> QED
  BY <1>1, <1>2, TypeCorrect, ParsedIsKnownIsInvariant, PTL DEF Spec

\* One candidate is looked at: an isolated one coexists with all that is kept,
\* since that is other candidates.
LEMMA FilterStep ==
  ASSUME TypeOK, CandidatesAreDeclared, KeptIsFiltered, FilterNext
  PROVE  KeptIsFiltered'
<1>1. /\ pc = "filtering" /\ pc' = pc /\ next \in DOMAIN candidates
      /\ next' = next + 1 /\ next \in Nat
      /\ candidates' = candidates /\ personal' = personal
      /\ candidates[next] \in Shared /\ kept \in Seq(Shared)
  BY DEF FilterNext, TypeOK
<1>2. \A k : Isolated(k)' <=> Isolated(k)
  BY <1>1 DEF Isolated
<1>3. \A k \in DOMAIN candidates : k < next' <=> k < next \/ k = next
  BY <1>1 DEF TypeOK
<1>4. CASE ~Coexists(candidates[next])
  <2>1. kept' = kept
    BY <1>4 DEF FilterNext
  <2>2. ~Isolated(next)
    <3>1. CASE Overlaps(candidates[next].path, personal)
      BY <3>1 DEF Isolated
    <3>2. ASSUME NEW m \in DOMAIN kept, Overlaps(candidates[next].path, kept[m].path)
          PROVE  ~Isolated(next)
      <4>1. PICK k \in DOMAIN candidates : k < next /\ kept[m] = candidates[k]
        BY <3>2 DEF KeptIsFiltered
      <4>2. k # next
        BY <1>1, <4>1
      <4> QED
        BY <3>2, <4>1, <4>2 DEF Isolated
    <3> QED
      BY <1>4, <3>1, <3>2 DEF Coexists
  <2>3. \A m \in DOMAIN kept' :
            \E k \in DOMAIN candidates' : k < next' /\ kept'[m] = candidates'[k]
    BY <1>1, <1>3, <2>1 DEF KeptIsFiltered
  <2>4. \A k \in DOMAIN candidates' :
            k < next' /\ Isolated(k)' => \E m \in DOMAIN kept' : kept'[m] = candidates'[k]
    BY <1>1, <1>2, <1>3, <2>1, <2>2 DEF KeptIsFiltered
  <2> QED
    BY <1>1, <2>1, <2>3, <2>4 DEF KeptIsFiltered
<1>5. CASE Coexists(candidates[next])
  <2>1. kept' = Append(kept, candidates[next])
    BY <1>5 DEF FilterNext
  <2>2. /\ DOMAIN kept' = DOMAIN kept \cup {Len(kept) + 1}
        /\ \A m \in DOMAIN kept : kept'[m] = kept[m]
        /\ kept'[Len(kept) + 1] = candidates[next]
    BY <1>1, <2>1
  <2>3. \A m \in DOMAIN kept : kept[m].name # candidates[next].name
    <3> SUFFICES ASSUME NEW m \in DOMAIN kept, kept[m].name = candidates[next].name
                 PROVE  FALSE
      OBVIOUS
    <3>1. PICK k \in DOMAIN candidates : k < next /\ kept[m] = candidates[k]
      BY DEF KeptIsFiltered
    <3>2. k = next
      BY <1>1, <3>1 DEF CandidatesAreDeclared
    <3> QED
      BY <1>1, <3>1, <3>2
  <2>4. \A m \in DOMAIN kept' :
            \E k \in DOMAIN candidates' : k < next' /\ kept'[m] = candidates'[k]
    BY <1>1, <1>3, <2>2 DEF KeptIsFiltered
  <2>5. \A m, n \in DOMAIN kept' : kept'[m].name = kept'[n].name => m = n
    BY <2>2, <2>3 DEF KeptIsFiltered
  <2>6. \A k \in DOMAIN candidates' :
            k < next' /\ Isolated(k)' => \E m \in DOMAIN kept' : kept'[m] = candidates'[k]
    BY <1>1, <1>2, <1>3, <2>2 DEF KeptIsFiltered
  <2> QED
    BY <1>1, <2>4, <2>5, <2>6 DEF KeptIsFiltered
<1> QED
  BY <1>4, <1>5

LEMMA KeptIsFilteredIsInvariant == Spec => []KeptIsFiltered
<1>1. Init => KeptIsFiltered
  BY DEF Init, KeptIsFiltered
<1>2. TypeOK /\ KeptApart /\ CandidatesAreDeclared /\ KeptIsFiltered /\ [Next]_vars
          => KeptIsFiltered'
  <2> SUFFICES ASSUME TypeOK, KeptApart, CandidatesAreDeclared, KeptIsFiltered,
                      [Next]_vars
               PROVE  KeptIsFiltered'
    OBVIOUS
  <2>1. CASE SkipEntry \/ EntryFails \/ Relocate \/ AddCandidate \/ EndParsing
    <3>1. kept' = <<>> /\ pc' \in {"parsing", "settling"}
      BY <2>1 DEF SkipEntry, EntryFails, Relocate, AddCandidate, EndParsing, Parsing,
                  Take, Advance, KeptApart
    <3> QED
      BY <3>1 DEF KeptIsFiltered
  <2>2. CASE SettlePersonal
    <3>1. kept' = <<>> /\ pc' = "filtering" /\ next' = 1 /\ candidates' = candidates
      BY <2>2 DEF SettlePersonal, KeptApart
    <3>2. \A k \in DOMAIN candidates : k \in Nat \ {0}
      BY DEF TypeOK
    <3> QED
      BY <3>1, <3>2 DEF KeptIsFiltered
  <2>3. CASE FilterNext
    BY <2>3, FilterStep
  <2>4. CASE Return \/ UNCHANGED vars
    <3>1. /\ UNCHANGED <<next, candidates, personal, kept>>
          /\ pc' = pc \/ (pc = "filtering" /\ pc' = "returned" /\ next > Len(candidates))
      BY <2>4 DEF Return, vars
    <3>2. \A k : Isolated(k)' <=> Isolated(k)
      BY <3>1 DEF Isolated
    <3> QED
      BY <3>1, <3>2 DEF KeptIsFiltered
  <2> QED
    BY <2>1, <2>2, <2>3, <2>4 DEF Next
<1> QED
  BY <1>1, <1>2, TypeCorrect, KeptApartIsInvariant, CandidatesAreDeclaredIsInvariant,
     PTL DEF Spec

\* A reference to a bank that was kept leads to it: no other bank has its name.
LEMMA ReferenceLeadsBack ==
  ASSUME TypeOK, KeptIsFiltered, NEW m \in DOMAIN kept
  PROVE  /\ m + 1 \in DOMAIN Banks /\ Banks[m + 1] = kept[m]
         /\ ParseBankRef(BankRef(Banks[m + 1])) = m + 1
<1>1. /\ DOMAIN Banks = 1..(Len(kept) + 1) /\ DOMAIN kept = 1..Len(kept)
      /\ Banks[1].name = Personal
      /\ \A n \in DOMAIN kept : Banks[n + 1] = kept[n]
  BY DEF Banks, TypeOK
<1>2. m + 1 \in DOMAIN Banks /\ Banks[m + 1] = kept[m]
  BY <1>1
<1>3. kept[m].name \in Names /\ kept[m].name # Personal
  <2>1. kept[m] \in Shared
    BY DEF TypeOK
  <2> QED
    BY <2>1, BanksAssumption DEF Shared
<1>4. RefName(BankRef(Banks[m + 1])) = kept[m].name
  BY <1>2, <1>3 DEF RefName, BankRef
<1>5. \A k \in DOMAIN Banks : Banks[k].name = kept[m].name <=> k = m + 1
  <2> SUFFICES ASSUME NEW k \in DOMAIN Banks, Banks[k].name = kept[m].name
               PROVE  k = m + 1
    BY <1>2
  <2>1. k # 1
    BY <1>1, <1>3
  <2>2. k - 1 \in DOMAIN kept /\ k = (k - 1) + 1
    BY <1>1, <2>1
  <2>3. kept[k - 1].name = kept[m].name
    BY <1>1, <2>2
  <2>4. k - 1 = m
    BY <2>2, <2>3 DEF KeptIsFiltered
  <2> QED
    BY <2>2, <2>4
<1>6. {k \in DOMAIN Banks : Banks[k].name = kept[m].name} = {m + 1}
  BY <1>2, <1>5
<1>7. ParseBankRef(BankRef(Banks[m + 1])) = CHOOSE k \in {m + 1} : \A l \in {m + 1} : k <= l
  BY <1>4, <1>6 DEF ParseBankRef
<1>8. m + 1 \in Nat
  BY <1>1
<1>9. (CHOOSE k \in {m + 1} : \A l \in {m + 1} : k <= l) = m + 1
  BY <1>8
<1> QED
  BY <1>2, <1>7, <1>9

\* What becomes of a shared bank's name is decided by its first entry: usable and
\* apart from the others, its bank comes back and the references of its files
\* lead to it; unusable, no bank of that name comes back (load_banks, bank_ref,
\* parse_bank_ref).
THEOREM FirstEntriesDecide == Spec => []FirstEntryDecides
<1>1. ASSUME TypeOK, KeptIsFiltered, CandidatesAreDeclared, Settled, pc = "returned",
             NEW i \in DOMAIN config, Declared(i), StandsApart(i)
      PROVE  \E k \in DOMAIN Banks : /\ Banks[k] = BankOf(i)
                                    /\ ParseBankRef(BankRef(Banks[k])) = k
  <2> USE <1>1 DEF StandsApart
  <2>1. Parsed = DOMAIN config
    BY DEF Parsed
  <2>2. PICK k \in DOMAIN candidates : candidates[k] = BankOf(i)
    BY <2>1 DEF CandidatesAreDeclared
  <2>3. ~Overlaps(candidates[k].path, personal)
    <3>1. personal \in Dirs /\ (personal = MemoryDir \/ RelocatedTo(personal))
      BY DEF Settled, PersonalIsSettled, Allowed, TypeOK
    <3> QED
      BY <2>2, <3>1 DEF BankOf
  <2>4. ASSUME NEW l \in DOMAIN candidates \ {k}
        PROVE  ~Overlaps(candidates[k].path, candidates[l].path)
    <3>1. PICK j \in DOMAIN config : Declared(j) /\ candidates[l] = BankOf(j)
      BY <2>1 DEF CandidatesAreDeclared
    <3>2. j # i
      BY <2>2, <3>1 DEF CandidatesAreDeclared
    <3> QED
      BY <2>2, <3>1, <3>2 DEF BankOf, Declared
  <2>5. k < next
    BY DEF KeptIsFiltered, TypeOK
  <2>6. PICK m \in DOMAIN kept : kept[m] = candidates[k]
    BY <2>3, <2>4, <2>5 DEF KeptIsFiltered, Isolated
  <2> QED
    BY <2>2, <2>6, ReferenceLeadsBack
<1>2. ASSUME TypeOK, KeptIsFiltered, CandidatesAreDeclared, pc = "returned",
             NEW i \in DOMAIN config, Counts(i), config[i].name \in Names,
             ~Usable(config[i]), NEW k \in DOMAIN Banks
      PROVE  Banks[k].name # config[i].name
  <2>1. CASE k = 1
    BY <1>2, <2>1, BanksAssumption DEF Banks
  <2>2. CASE k # 1
    <3>1. k - 1 \in DOMAIN kept /\ Banks[k] = kept[k - 1]
      BY <1>2, <2>2 DEF Banks, TypeOK
    <3>2. PICK l \in DOMAIN candidates : kept[k - 1] = candidates[l]
      BY <1>2, <3>1 DEF KeptIsFiltered
    <3>3. PICK j \in DOMAIN config : Declared(j) /\ candidates[l] = BankOf(j)
      BY <1>2, <3>2 DEF CandidatesAreDeclared, Parsed
    <3>4. i \in Nat /\ j \in Nat /\ i # j /\ Counts(j)
      BY <1>2, <3>3 DEF TypeOK, Declared
    <3>5. config[i].name # config[j].name
      BY <1>2, <3>3, <3>4 DEF Counts, TypeOK
    <3> QED
      BY <3>1, <3>2, <3>3, <3>5 DEF BankOf
  <2> QED
    BY <2>1, <2>2
<1>3. TypeOK /\ KeptIsFiltered /\ CandidatesAreDeclared /\ Settled => FirstEntryDecides
  BY <1>1, <1>2 DEF FirstEntryDecides, Declared, BankOf
<1> QED
  BY <1>3, SettledIsInvariant, TypeCorrect, KeptIsFilteredIsInvariant,
     CandidatesAreDeclaredIsInvariant, PTL
=============================================================================
