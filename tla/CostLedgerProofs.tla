--------------------------- MODULE CostLedgerProofs ---------------------------
(***************************************************************************)
(* Theorems about CostLedger for any messages, months, models and runs and *)
(* any number of failures.  What makes an append safe is that the index is *)
(* still true of the records on their way to the file: nothing that anyone *)
(* writes meanwhile makes an old piece readable again.                     *)
(***************************************************************************)
EXTENDS CostLedger, FiniteSetTheorems, SequenceTheorems, TLAPS

\* Where m is read in its month's file.
ReadAt(m) ==
    {i \in DOMAIN ledger[MonthOf[m]] :
        IsRead(ledger[MonthOf[m]], i) /\ ledger[MonthOf[m]][i].id = m}

\* No message is read twice, and one on its way to the ledger is not read at all
\* and is on its way once.
OnItsWay(m) == \E i \in DOMAIN todo : todo[i].id = m
OnceInv ==
    /\ \A m \in Messages : \A i, j \in ReadAt(m) : i = j
    /\ \A m \in Messages : OnItsWay(m) => ReadAt(m) = {}
    /\ \A i, j \in DOMAIN todo : todo[i].id = todo[j].id => i = j

\* What a pass has fetched is in the file before it prices anything, and its
\* process has forgotten the prices it had.
RefreshInv ==
    /\ pc \in {"idle", "refreshing"} => fetched = NoTable
    /\ pc = "replacing" => fetched # NoTable
    /\ pc = "indexing" /\ fetched # NoTable =>
          priceFile = fetched /\ cache["collector"] = NoTable
    /\ PassUsesItsRefresh

IInv == TypeOK /\ OnceInv /\ RefreshInv /\ BundledStaysPriced

USE LedgerAssumption

-----------------------------------------------------------------------------
(* The ledger grows, and nothing becomes readable that was not.            *)

LEMMA NothingBecomesReadable ==
    ASSUME NEW old \in Seq(Pieces), NEW rest \in Seq(Pieces), NEW i \in DOMAIN (old \o rest),
           IsRead(old \o rest, i)
    PROVE  \/ i \in DOMAIN old /\ IsRead(old, i) /\ (old \o rest)[i] = old[i]
           \/ /\ i \notin DOMAIN old /\ i - Len(old) \in DOMAIN rest
              /\ (old \o rest)[i] = rest[i - Len(old)]
  <1>1. /\ Len(old \o rest) = Len(old) + Len(rest) /\ i \in 1..(Len(old) + Len(rest))
        /\ Len(old) \in Nat /\ Len(rest) \in Nat
        /\ DOMAIN old = 1..Len(old) /\ DOMAIN rest = 1..Len(rest)
    OBVIOUS
  <1>2. CASE i \in DOMAIN old
    <2>1. (old \o rest)[i] = old[i] /\ (i # 1 => (old \o rest)[i - 1] = old[i - 1])
      BY <1>1, <1>2
    <2> QED
      BY <1>1, <1>2, <2>1 DEF IsRead
  <1>3. CASE i \notin DOMAIN old
    BY <1>1, <1>3
  <1> QED
    BY <1>2, <1>3

\* What a write adds is read at most where the records on their way were: no
\* message becomes readable twice, and none that is still on its way does.
LEMMA LedgerGrows ==
    ASSUME TypeOK, OnceInv, NEW month \in Months, NEW rest \in Seq(Pieces),
           ledger' = [ledger EXCEPT ![month] = @ \o rest],
           \A k \in DOMAIN rest : rest[k].id \in Messages =>
               k \in DOMAIN todo /\ rest[k].id = todo[k].id
    PROVE  /\ ledger' \in [Months -> Seq(Pieces)]
           /\ \A m \in Messages : \A i, j \in ReadAt(m)' : i = j
           /\ \A m \in Messages :
                  ReadAt(m) = {} /\ (\A l \in DOMAIN rest : rest[l].id # m) => ReadAt(m)' = {}
  <1>1. ledger' \in [Months -> Seq(Pieces)]
    BY DEF TypeOK
  <1>2. ASSUME NEW m \in Messages, NEW i, i \in ReadAt(m)'
        PROVE  \/ i \in ReadAt(m)
               \/ /\ MonthOf[m] = month /\ i - Len(ledger[month]) \in DOMAIN rest
                  /\ rest[i - Len(ledger[month])].id = m
    <2>1. MonthOf[m] \in Months /\ ledger[MonthOf[m]] \in Seq(Pieces)
      BY DEF Months, TypeOK
    <2>2. /\ i \in DOMAIN ledger'[MonthOf[m]] /\ IsRead(ledger'[MonthOf[m]], i)
          /\ ledger'[MonthOf[m]][i].id = m
      BY <1>2 DEF ReadAt
    <2>3. CASE MonthOf[m] # month
      BY <2>1, <2>2, <2>3 DEF ReadAt, TypeOK
    <2>4. CASE MonthOf[m] = month
      <3>1. ledger'[MonthOf[m]] = ledger[month] \o rest
        BY <2>1, <2>4 DEF TypeOK
      <3> QED
        BY <2>1, <2>2, <2>4, <3>1, NothingBecomesReadable DEF ReadAt
    <2> QED
      BY <2>3, <2>4
  <1>3. ASSUME NEW m \in Messages, NEW i \in ReadAt(m)', NEW j \in ReadAt(m)'
        PROVE  i = j
    <2> DEFINE L == Len(ledger[month])
    <2>1. L \in Nat
      BY DEF TypeOK
    <2>2. CASE i \in ReadAt(m) /\ j \in ReadAt(m)
      BY <2>2 DEF OnceInv
    <2>3. CASE /\ i - L \in DOMAIN rest /\ rest[i - L].id = m
               /\ j - L \in DOMAIN rest /\ rest[j - L].id = m
      <3>1. i - L \in DOMAIN todo /\ j - L \in DOMAIN todo /\ todo[i - L].id = todo[j - L].id
        BY <2>3
      <3>2. i - L = j - L
        BY <3>1 DEF OnceInv
      <3>3. i \in Nat /\ j \in Nat
        <4>1. i \in DOMAIN ledger'[MonthOf[m]] /\ j \in DOMAIN ledger'[MonthOf[m]]
          BY <1>3 DEF ReadAt
        <4>2. ledger'[MonthOf[m]] \in Seq(Pieces)
          BY <1>1 DEF Months
        <4> QED
          BY <4>1, <4>2
      <3> QED
        BY <2>1, <3>2, <3>3
    <2>4. ASSUME NEW k, k - L \in DOMAIN rest, rest[k - L].id = m PROVE ReadAt(m) = {}
      BY <2>4 DEF OnceInv, OnItsWay
    <2> QED
      BY <1>2, <1>3, <2>2, <2>3, <2>4
  <1>4. ASSUME NEW m \in Messages, ReadAt(m) = {}, \A l \in DOMAIN rest : rest[l].id # m
        PROVE  ReadAt(m)' = {}
    BY <1>2, <1>4
  <1> QED
    BY <1>1, <1>3, <1>4

\* A record of the runner is none of the collector's.
LEMMA RunsAreNoMessages == \A r \in Runs : r \notin Messages
  OBVIOUS

-----------------------------------------------------------------------------
(* The index: what it leaves out is not read.                              *)

LEMMA ReadAtFinite ==
    ASSUME TypeOK, NEW m \in Messages
    PROVE  IsFiniteSet(ReadAt(m)) /\ TimesRead(m) = Cardinality(ReadAt(m))
  <1>1. ledger[MonthOf[m]] \in Seq(Pieces)
    BY DEF TypeOK, Months
  <1>2. ReadAt(m) \in SUBSET (1..Len(ledger[MonthOf[m]])) /\ Len(ledger[MonthOf[m]]) \in Nat
    BY <1>1 DEF ReadAt
  <1> DEFINE n == Len(ledger[MonthOf[m]])
  <1>3. IsFiniteSet(ReadAt(m))
    <2>1. n \in Nat
      BY <1>2
    <2> HIDE DEF n
    <2>2. 1 \in Int /\ n \in Int
      BY <2>1
    <2>3. IsFiniteSet(1..n)
      BY <2>2, FS_Interval, Zenon
    <2> QED
      BY <1>2, <2>3, FS_Subset DEF n
  <1> QED
    BY <1>3 DEF TimesRead, ReadAt

LEMMA NotIndexedIsUnread ==
    ASSUME TypeOK, NEW m \in Messages \ SessionMsgIndex
    PROVE  ReadAt(m) = {}
  <1>1. ~(Cardinality(ReadAt(m)) > 0) /\ IsFiniteSet(ReadAt(m))
    BY ReadAtFinite DEF SessionMsgIndex
  <1>2. Cardinality(ReadAt(m)) = 0
    BY <1>1, FS_CardinalityType
  <1> QED
    BY <1>1, <1>2, FS_EmptySet

LEMMA ByMonthIs ==
    ASSUME NEW S \in SUBSET Messages, NEW s \in ByMonth(S)
    PROVE  /\ s \in Seq(S) /\ DOMAIN s = 1..Len(s)
           /\ \A i, j \in DOMAIN s : s[i] = s[j] => i = j
  <1>1. IsFiniteSet(S) /\ Cardinality(S) \in Nat
    BY FS_Subset, FS_CardinalityType
  <1>2. s \in [1..Cardinality(S) -> S] /\ DOMAIN s = 1..Cardinality(S)
    BY DEF ByMonth
  <1>3. s \in Seq(S) /\ Len(s) = Cardinality(S)
    BY <1>1, <1>2
  <1>4. ASSUME NEW i \in DOMAIN s, NEW j \in DOMAIN s, i < j PROVE s[i] # s[j]
    <2>1. MonthOf[s[i]] < MonthOf[s[j]] \/ s[i] < s[j]
      BY <1>4 DEF ByMonth
    <2>2. s[i] \in Nat /\ MonthOf[s[i]] \in Nat
      BY <1>2
    <2> QED
      BY <2>1, <2>2
  <1>5. ASSUME NEW i \in DOMAIN s, NEW j \in DOMAIN s, s[i] = s[j] PROVE i = j
    <2>1. i \in Nat /\ j \in Nat
      BY <1>1, <1>2
    <2>2. ~(i < j) /\ ~(j < i)
      BY <1>4, <1>5
    <2> QED
      BY <2>1, <2>2
  <1> QED
    BY <1>2, <1>3, <1>5

-----------------------------------------------------------------------------
(* Prices.                                                                 *)

LEMMA TablesOfPackage ==
    /\ BundledTable \in Tables
    /\ \A file \in Pages : /\ Merged(file) \in Tables
                           /\ \A m \in file.listed : Merged(file)[m] = file.version
    /\ \A m \in Bundled : /\ BundledTable[m] # Fallback
                          /\ \A file \in Pages : Merged(file)[m] # Fallback
  BY DEF BundledTable, Merged, Tables, Pages

\* Whatever a process loads is a table that prices the models of the package.
LEMMA LoadedTable ==
    ASSUME TypeOK, BundledStaysPriced, NEW p \in Processes
    PROVE  /\ LoadPricing(p) \in Tables /\ LoadPricing(p) # NoTable
           /\ \A m \in Bundled : LoadPricing(p)[m] # Fallback
  <1>1. LoadPricing(p) \in Tables
    BY TablesOfPackage DEF LoadPricing, TypeOK
  <1>2. \A m \in Bundled : LoadPricing(p)[m] # Fallback
    BY TablesOfPackage DEF LoadPricing, TypeOK, BundledStaysPriced
  <1> QED
    BY <1>1, <1>2

-----------------------------------------------------------------------------
(* The steps.                                                              *)

LEMMA InitEstablishes == Init => IInv
  <1> SUFFICES ASSUME Init PROVE IInv
    OBVIOUS
  <1>1. TypeOK
    BY DEF Init, TypeOK, Pages
  <1>2. ASSUME NEW m \in Messages PROVE ReadAt(m) = {}
    <2>1. MonthOf[m] \in Months
      BY DEF Months
    <2>2. ledger[MonthOf[m]] = <<>>
      BY <2>1 DEF Init
    <2> QED
      BY <2>2 DEF ReadAt
  <1>3. OnceInv
    BY <1>2 DEF Init, OnceInv
  <1>4. RefreshInv /\ BundledStaysPriced
    BY DEF Init, RefreshInv, PassUsesItsRefresh, BundledStaysPriced
  <1> QED
    BY <1>1, <1>3, <1>4 DEF IInv

\* Which messages are read depends on the ledger alone.
LEMMA SameReads ==
    ASSUME ledger' = ledger, NEW m
    PROVE  ReadAt(m)' = ReadAt(m)
  BY DEF ReadAt, IsRead

\* A step that leaves the ledger, and what is on its way to it or drops that.
LEMMA OnceFrame ==
    ASSUME OnceInv, ledger' = ledger, todo' = todo \/ todo' = <<>>
    PROVE  OnceInv'
  <1>1. \A m : ReadAt(m)' = ReadAt(m)
    BY SameReads
  <1>2. \A m : OnItsWay(m)' => OnItsWay(m)
    BY DEF OnItsWay
  <1>3. \A i, j \in DOMAIN todo' : todo'[i].id = todo'[j].id => i = j
    BY DEF OnceInv
  <1> QED
    BY <1>1, <1>2, <1>3 DEF OnceInv

\* Prices are loaded or forgotten, by whoever makes the step.
PricesMove ==
    \/ cache' = cache
    \/ \E p \in Processes : \/ cache' = [cache EXCEPT ![p] = NoTable]
                            \/ cache' = [cache EXCEPT ![p] = LoadPricing(p)]

LEMMA PricesStep ==
    ASSUME TypeOK, BundledStaysPriced, PricesMove
    PROVE  BundledStaysPriced' /\ cache' \in [Processes -> Tables \cup {NoTable}]
  BY LoadedTable DEF PricesMove, TypeOK, BundledStaysPriced

\* The steps that write nothing to the ledger and build no records.
Aside ==
    \/ StartPass \/ KeepPrices \/ Fetch \/ ReplacePrices \/ ReplaceFails \/ EndPass
    \/ Killed \/ Restart \/ PageChanges \/ FileAges \/ UNCHANGED vars

LEMMA AsideStep == ASSUME IInv, Aside PROVE IInv'
  <1> USE DEF IInv
  <1>1. /\ UNCHANGED <<ledger, running>>
        /\ todo' = todo \/ todo' = <<>>
        /\ failures' \in 0..MaxFailures
    BY DEF Aside, StartPass, KeepPrices, Fetch, ReplacePrices, ReplaceFails, EndPass, Killed,
           Restart, PageChanges, FileAges, Leave, Fails, TypeOK, vars
  <1>2. PricesMove
    BY DEF Aside, StartPass, KeepPrices, Fetch, ReplacePrices, ReplaceFails, EndPass, Killed,
           Restart, PageChanges, FileAges, NextProcess, ResetPricingCache, PricesMove, Processes, vars
  <1>3. /\ page' \in Pages /\ young' \in BOOLEAN
        /\ priceFile' \in Pages \cup {NoTable, Unreadable}
        /\ pc' \in {"idle", "refreshing", "replacing", "indexing", "appending"}
        /\ fetched' \in Pages \cup {NoTable}
    <2>1. CASE PageChanges
      BY <2>1 DEF PageChanges, TypeOK, Pages
    <2>2. CASE ~PageChanges
      BY <2>2 DEF Aside, StartPass, KeepPrices, Fetch, ReplacePrices, ReplaceFails, EndPass,
                  Killed, Restart, FileAges, pricing, Leave, TypeOK, vars
    <2> QED
      BY <2>1, <2>2
  <1>4. TypeOK'
    <2>1. todo \in Seq(Records) /\ <<>> \in Seq(Records)
      BY DEF TypeOK
    <2>2. todo' \in Seq(Records)
      BY <1>1, <2>1
    <2> QED
      BY <1>1, <1>2, <1>3, <2>2, PricesStep DEF TypeOK
  <1>5. RefreshInv'
    <2> USE DEF RefreshInv, PassUsesItsRefresh
    <2>1. CASE ReplacePrices
      BY <2>1 DEF ReplacePrices, ResetPricingCache, TypeOK, Processes
    <2>2. CASE StartPass \/ KeepPrices \/ Fetch
      BY <2>2 DEF StartPass, KeepPrices, Fetch, pricing, TypeOK
    <2>3. CASE EndPass \/ ReplaceFails \/ Killed
      BY <2>3 DEF EndPass, ReplaceFails, Killed, Leave
    <2>4. CASE Restart \/ PageChanges \/ FileAges \/ UNCHANGED vars
      BY <2>4 DEF Restart, PageChanges, FileAges, pricing, vars
    <2> QED
      BY <2>1, <2>2, <2>3, <2>4 DEF Aside
  <1> QED
    BY <1>1, <1>2, <1>4, <1>5, OnceFrame, PricesStep

\* The records that are built are of messages that are not read.
LEMMA BuildStep == ASSUME IInv, BuildRecords PROVE IInv'
  <1> USE DEF IInv
  <1> DEFINE table == LoadPricing("collector")
  <1>1. PICK new \in ByMonth(Messages \ SessionMsgIndex) :
            /\ todo' = [i \in DOMAIN new |-> [id |-> new[i], price |-> table[ModelOf[new[i]]]]]
            /\ cache' = IF new = <<>> THEN cache ELSE [cache EXCEPT !["collector"] = table]
    BY DEF BuildRecords
  <1>2. /\ pc = "indexing" /\ pc' = "appending"
        /\ UNCHANGED <<page, priceFile, young, fetched, ledger, running, failures>>
    BY DEF BuildRecords, pricing
  <1>3. /\ new \in Seq(Messages \ SessionMsgIndex) /\ DOMAIN new = 1..Len(new)
        /\ \A i, j \in DOMAIN new : new[i] = new[j] => i = j
    BY ByMonthIs DEF SessionMsgIndex
  <1>4. table \in Tables /\ "collector" \in Processes
    BY LoadedTable DEF Processes
  <1>5. PricesMove
    BY <1>1, <1>4 DEF PricesMove
  <1> HIDE DEF table
  <1>6. DOMAIN todo' = DOMAIN new /\ \A i \in DOMAIN new :
            todo'[i].id = new[i] /\ todo'[i].price = table[ModelOf[new[i]]]
    BY <1>1
  <1>7. TypeOK'
    <2>1. \A i \in DOMAIN new : todo'[i] \in Records
      <3> TAKE i \in DOMAIN new
      <3>1. new[i] \in Messages /\ ModelOf[new[i]] \in Models
        BY <1>3
      <3>2. table[ModelOf[new[i]]] \in 0..MaxVersion \cup {Fallback}
        BY <1>4, <3>1 DEF Tables
      <3>3. todo'[i] = [id |-> new[i], price |-> table[ModelOf[new[i]]]]
        BY <1>1
      <3> QED
        BY <3>1, <3>2, <3>3 DEF Records
    <2>2. todo' \in Seq(Records)
      BY <1>1, <1>3, <2>1
    <2> QED
      BY <1>2, <1>5, <2>2, PricesStep DEF TypeOK
  <1>8. OnceInv'
    <2>1. \A m : ReadAt(m)' = ReadAt(m)
      BY <1>2, SameReads
    <2>2. \A m \in Messages : OnItsWay(m)' => ReadAt(m) = {}
      BY <1>3, <1>6, NotIndexedIsUnread DEF OnItsWay
    <2> QED
      BY <1>3, <1>6, <2>1, <2>2 DEF OnceInv
  <1>9. RefreshInv'
    <2>1. ASSUME fetched # NoTable PROVE table = Merged(fetched) /\ fetched \in Pages
      BY <1>2, <2>1 DEF table, LoadPricing, RefreshInv, TypeOK
    <2> QED
      BY <1>2, <1>3, <1>6, <2>1, TablesOfPackage, SMTT(30) DEF RefreshInv, PassUsesItsRefresh
  <1> QED
    BY <1>5, <1>7, <1>8, <1>9, PricesStep

LEMMA TodoIs ==
    ASSUME TypeOK
    PROVE  /\ todo \in Seq(Records) /\ Len(todo) \in Nat /\ DOMAIN todo = 1..Len(todo)
           /\ \A i \in 1..Len(todo) : todo[i] \in Records /\ todo[i].id \in Messages
  <1>1. todo \in Seq(Records)
    BY DEF TypeOK
  <1>2. \A i \in 1..Len(todo) : todo[i] \in Records
    BY <1>1
  <1>3. \A r \in Records : r.id \in Messages
    BY DEF Records
  <1> QED
    BY <1>1, <1>2, <1>3

\* One sequence after another.
LEMMA Concatenated ==
    ASSUME NEW S, NEW b \in Seq(S), NEW c \in Seq(S)
    PROVE  /\ b \o c \in Seq(S) /\ DOMAIN (b \o c) = 1..(Len(b) + Len(c))
           /\ \A k \in 1..Len(b) : (b \o c)[k] = b[k]
           /\ \A k \in 1..Len(c) : (b \o c)[Len(b) + k] = c[k]
  <1>1. /\ b \o c \in Seq(S) /\ Len(b \o c) = Len(b) + Len(c)
        /\ \A i \in 1..(Len(b) + Len(c)) :
               (b \o c)[i] = IF i <= Len(b) THEN b[i] ELSE c[i - Len(b)]
    BY ConcatProperties, Zenon
  <1>2. DOMAIN (b \o c) = 1..(Len(b) + Len(c)) /\ Len(b) \in Nat /\ Len(c) \in Nat
    BY <1>1
  <1> DEFINE bc == b \o c
  <1> HIDE DEF bc
  <1>3. \A i \in 1..(Len(b) + Len(c)) : bc[i] = IF i <= Len(b) THEN b[i] ELSE c[i - Len(b)]
    BY <1>1, Zenon DEF bc
  <1>4. \A k \in 1..Len(b) : bc[k] = b[k]
    BY <1>2, <1>3
  <1>5. \A k \in 1..Len(c) : bc[Len(b) + k] = c[k]
    <2> TAKE k \in 1..Len(c)
    <2>1. Len(b) + k \in 1..(Len(b) + Len(c)) /\ ~(Len(b) + k <= Len(b)) /\ (Len(b) + k) - Len(b) = k
      BY <1>2
    <2> QED
      BY <1>3, <2>1
  <1> QED
    BY <1>1, <1>2, <1>4, <1>5, Zenon DEF bc

\* The pieces of one write, of the first n records and what follows them.
LEMMA WriteIs ==
    ASSUME TypeOK, NEW n \in Nat, n <= Len(todo), todo # <<>>, NEW rest \in Seq(Pieces),
           ledger' = Appended(n, rest)
    PROVE  \E all \in Seq(Pieces) :
              /\ ledger' = [ledger EXCEPT ![MonthOf[todo[1].id]] = @ \o all]
              /\ MonthOf[todo[1].id] \in Months
              /\ DOMAIN all = 1..(n + Len(rest))
              /\ \A k \in 1..n : all[k].id = todo[k].id
              /\ \A k \in 1..Len(rest) : all[n + k] = rest[k]
  <1> DEFINE lines == [i \in 1..n |-> Line(todo[i].id)]
             month == MonthOf[todo[1].id]
  <1>1. \A i \in 1..n : Line(todo[i].id) \in Pieces /\ Line(todo[i].id).id = todo[i].id
    BY TodoIs DEF Line, Pieces
  <1>2. /\ lines \in Seq(Pieces) /\ Len(lines) = n
        /\ \A i \in 1..n : lines[i].id = todo[i].id
    BY <1>1
  <1>3. month \in Months /\ ledger[month] \in Seq(Pieces)
    <2>1. Len(todo) >= 1
      BY TodoIs
    <2>2. todo[1].id \in Messages
      BY <2>1, TodoIs
    <2> QED
      BY <2>2 DEF Months, TypeOK
  <1>4. ledger' = [ledger EXCEPT ![month] = @ \o (lines \o rest)]
    BY DEF Appended
  <1> HIDE DEF lines, month
  <1>5. /\ lines \o rest \in Seq(Pieces) /\ DOMAIN (lines \o rest) = 1..(Len(lines) + Len(rest))
        /\ \A k \in 1..Len(lines) : (lines \o rest)[k] = lines[k]
        /\ \A k \in 1..Len(rest) : (lines \o rest)[Len(lines) + k] = rest[k]
    <2>1. lines \in Seq(Pieces)
      BY <1>2
    <2>2. rest \in Seq(Pieces)
      OBVIOUS
    <2> QED
      BY <2>1, <2>2, Concatenated, SMTT(30)
  <1> DEFINE all == lines \o rest
  <1>6. ledger' = [ledger EXCEPT ![month] = @ \o all]
    BY <1>4
  <1>7. /\ all \in Seq(Pieces) /\ DOMAIN all = 1..(n + Len(rest))
        /\ \A k \in 1..n : all[k] = lines[k]
        /\ \A k \in 1..Len(rest) : all[n + k] = rest[k]
    BY <1>2, <1>5, Zenon
  <1> HIDE DEF all
  <1>8. \A k \in 1..n : all[k].id = todo[k].id
    BY <1>2, <1>7
  <1> QED
    BY <1>3, <1>6, <1>7, <1>8, Zenon DEF month

LEMMA AppendStep == ASSUME IInv, AppendRecords PROVE IInv'
  <1> USE DEF IInv
  <1>1. PICK n \in 1..Len(todo) :
            /\ ledger' = Appended(n, <<>>)
            /\ todo' = SubSeq(todo, n + 1, Len(todo))
    BY DEF AppendRecords
  <1>2. /\ pc = "appending"
        /\ UNCHANGED <<page, priceFile, young, cache, pc, fetched, running, failures>>
    BY DEF AppendRecords, pricing
  <1>3. n \in Nat /\ n >= 1 /\ n <= Len(todo) /\ todo # <<>> /\ <<>> \in Seq(Pieces)
    BY <1>1, TodoIs, SMTT(30)
  <1>4. PICK all \in Seq(Pieces) :
            /\ ledger' = [ledger EXCEPT ![MonthOf[todo[1].id]] = @ \o all]
            /\ MonthOf[todo[1].id] \in Months
            /\ DOMAIN all = 1..n
            /\ \A k \in 1..n : all[k].id = todo[k].id
    <2> DEFINE nothing == <<>>
    <2>1. nothing \in Seq(Pieces) /\ n + Len(nothing) = n
      BY <1>3
    <2>2. TypeOK /\ ledger' = Appended(n, nothing)
      BY <1>1
    <2> HIDE DEF nothing
    <2>3. \E all \in Seq(Pieces) :
              /\ ledger' = [ledger EXCEPT ![MonthOf[todo[1].id]] = @ \o all]
              /\ MonthOf[todo[1].id] \in Months
              /\ DOMAIN all = 1..(n + Len(nothing))
              /\ \A k \in 1..n : all[k].id = todo[k].id
              /\ \A k \in 1..Len(nothing) : all[n + k] = nothing[k]
      <3>1. nothing \in Seq(Pieces)
        BY <2>1
      <3> QED
        BY <1>3, <2>2, <3>1, WriteIs, Zenon
    <2> QED
      BY <2>1, <2>3
  <1>5. \A k \in DOMAIN all : k \in DOMAIN todo /\ all[k].id = todo[k].id
    BY <1>3, <1>4, TodoIs
  <1>6. /\ ledger' \in [Months -> Seq(Pieces)]
        /\ \A m \in Messages : \A i, j \in ReadAt(m)' : i = j
        /\ \A m \in Messages :
               ReadAt(m) = {} /\ (\A l \in DOMAIN all : all[l].id # m) => ReadAt(m)' = {}
    <2>1. TypeOK /\ OnceInv
      OBVIOUS
    <2>2. \A k \in DOMAIN all : all[k].id \in Messages =>
              k \in DOMAIN todo /\ all[k].id = todo[k].id
      BY <1>5
    <2> QED
      BY <1>4, <2>1, <2>2, LedgerGrows, ZenonT(60)
  <1>7. /\ todo' \in Seq(Records)
        /\ \A i \in DOMAIN todo' : /\ i \in Nat /\ i >= 1
                                   /\ i + n \in DOMAIN todo /\ todo'[i] = todo[i + n]
    BY <1>1, <1>3, TodoIs
  <1>8. TypeOK'
    BY <1>2, <1>6, <1>7 DEF TypeOK
  <1>9. OnceInv'
    <2>1. ASSUME NEW m \in Messages, OnItsWay(m)' PROVE ReadAt(m)' = {}
      <3>1. PICK i \in DOMAIN todo' : todo'[i].id = m
        BY <2>1 DEF OnItsWay
      <3>2. i + n \in DOMAIN todo /\ todo[i + n].id = m /\ i \in Nat /\ i >= 1
        BY <1>7, <3>1
      <3>3. ReadAt(m) = {}
        BY <3>2 DEF OnceInv, OnItsWay
      <3>4. ASSUME NEW l \in DOMAIN all PROVE all[l].id # m
        <4>1. l # i + n /\ l \in DOMAIN todo /\ all[l].id = todo[l].id
          BY <1>3, <1>4, <1>5, <3>2
        <4> QED
          BY <3>2, <4>1 DEF OnceInv
      <3> QED
        BY <1>6, <3>3, <3>4
    <2>2. ASSUME NEW i \in DOMAIN todo', NEW j \in DOMAIN todo', todo'[i].id = todo'[j].id
          PROVE  i = j
      <3>1. i + n = j + n
        BY <1>7, <2>2 DEF OnceInv
      <3> QED
        BY <1>3, <1>7, <3>1
    <2> QED
      BY <1>6, <2>1, <2>2 DEF OnceInv
  <1>10. RefreshInv' /\ BundledStaysPriced'
    BY <1>2, <1>7, SMTT(30) DEF RefreshInv, PassUsesItsRefresh, BundledStaysPriced
  <1> QED
    BY <1>8, <1>9, <1>10

\* After a write that fails the pass is over: nothing is on its way.
LEMMA NothingOnItsWay ==
    ASSUME TypeOK, todo' = <<>>, \A m \in Messages : \A i, j \in ReadAt(m)' : i = j
    PROVE  OnceInv'
  BY DEF OnceInv, OnItsWay

LEMMA FailedWriteStep == ASSUME IInv, WriteFails PROVE IInv'
  <1> USE DEF IInv
  <1>1. PICK n \in 0..(Len(todo) - 1), piece \in {"stub", "object"} :
            ledger' = Appended(n, <<[id |-> todo[n + 1].id, piece |-> piece]>>)
    BY DEF WriteFails
  <1>2. /\ pc' = "idle" /\ todo' = <<>> /\ fetched' = NoTable
        /\ UNCHANGED <<page, priceFile, young, running>>
        /\ failures' \in 0..MaxFailures
        /\ PricesMove
    BY DEF WriteFails, Leave, Fails, NextProcess, pricing, TypeOK, PricesMove, Processes
  <1> DEFINE torn == [id |-> todo[n + 1].id, piece |-> piece]
  <1>3. n \in Nat /\ n + 1 \in 1..Len(todo) /\ n <= Len(todo) /\ todo # <<>>
    BY TodoIs
  <1>4. torn \in Pieces /\ torn.id = todo[n + 1].id
    BY <1>3, TodoIs, SMTT(30) DEF Pieces
  <1>5. ledger' = Appended(n, <<torn>>)
    BY <1>1
  <1> HIDE DEF torn
  <1>6. <<torn>> \in Seq(Pieces) /\ Len(<<torn>>) = 1 /\ <<torn>>[1] = torn
    BY <1>4
  <1>7. PICK all \in Seq(Pieces) :
            /\ ledger' = [ledger EXCEPT ![MonthOf[todo[1].id]] = @ \o all]
            /\ MonthOf[todo[1].id] \in Months
            /\ DOMAIN all = 1..(n + 1)
            /\ \A k \in 1..n : all[k].id = todo[k].id
            /\ all[n + 1] = torn
    <2>1. \E all \in Seq(Pieces) :
              /\ ledger' = [ledger EXCEPT ![MonthOf[todo[1].id]] = @ \o all]
              /\ MonthOf[todo[1].id] \in Months
              /\ DOMAIN all = 1..(n + Len(<<torn>>))
              /\ \A k \in 1..n : all[k].id = todo[k].id
              /\ \A k \in 1..Len(<<torn>>) : all[n + k] = <<torn>>[k]
      <3>1. TypeOK
        OBVIOUS
      <3> QED
        BY <1>3, <1>5, <1>6, <3>1, WriteIs, Zenon
    <2>2. 1 \in 1..Len(<<torn>>)
      BY <1>6
    <2> QED
      BY <1>6, <2>1, <2>2
  <1>8. \A k \in DOMAIN all : k \in DOMAIN todo /\ all[k].id = todo[k].id
    BY <1>3, <1>4, <1>7, TodoIs
  <1>9. /\ ledger' \in [Months -> Seq(Pieces)]
        /\ \A m \in Messages : \A i, j \in ReadAt(m)' : i = j
    BY <1>7, <1>8, LedgerGrows
  <1>10. TypeOK'
    BY <1>2, <1>9, PricesStep DEF TypeOK
  <1> QED
    BY <1>2, <1>9, <1>10, NothingOnItsWay, PricesStep DEF RefreshInv, PassUsesItsRefresh

\* What the runner adds is no message, and makes none readable.
LEMMA RunStep == ASSUME IInv, NEW r \in Runs, RunEnds(r) PROVE IInv'
  <1> USE DEF IInv
  <1>1. PICK piece \in {"line", "stub", "object"} :
            ledger' = [ledger EXCEPT ![RunMonth] = Append(@, [id |-> r, piece |-> piece])]
    BY DEF RunEnds, Line
  <1>2. /\ UNCHANGED <<page, priceFile, young, pc, fetched, todo>>
        /\ running' \subseteq Runs /\ failures' \in 0..MaxFailures
        /\ cache' = cache \/ cache' = [cache EXCEPT !["runner"] = LoadPricing("runner")]
    BY DEF RunEnds, Fails, RunnerPrices, pricing, TypeOK
  <1>3. PricesMove
    BY <1>2 DEF PricesMove, Processes
  <1> DEFINE new == [id |-> r, piece |-> piece]
  <1>4. new \in Pieces /\ new.id \notin Messages
    BY DEF Pieces
  <1>5. RunMonth \in Months /\ ledger[RunMonth] \in Seq(Pieces)
    BY DEF Months, TypeOK
  <1>6. ledger' = [ledger EXCEPT ![RunMonth] = Append(@, new)]
    BY <1>1
  <1> HIDE DEF new
  <1>7. /\ <<new>> \in Seq(Pieces) /\ DOMAIN <<new>> = {1} /\ <<new>>[1] = new
        /\ Append(ledger[RunMonth], new) = ledger[RunMonth] \o <<new>>
    BY <1>4, <1>5
  <1>8. ledger' = [ledger EXCEPT ![RunMonth] = @ \o <<new>>]
    BY <1>6, <1>7
  <1>9. /\ ledger' \in [Months -> Seq(Pieces)]
        /\ \A m \in Messages : \A i, j \in ReadAt(m)' : i = j
        /\ \A m \in Messages : ReadAt(m) = {} => ReadAt(m)' = {}
    BY <1>4, <1>5, <1>7, <1>8, LedgerGrows, ZenonT(60)
  <1>10. TypeOK'
    BY <1>2, <1>3, <1>9, PricesStep DEF TypeOK
  <1>11. OnceInv'
    BY <1>2, <1>9 DEF OnceInv, OnItsWay
  <1>12. RefreshInv'
    <2>1. cache'["collector"] = cache["collector"]
      <3>1. "collector" \in Processes /\ "runner" # "collector"
        BY DEF Processes
      <3> QED
        BY <1>2, <3>1 DEF TypeOK
    <2> QED
      BY <1>2, <2>1 DEF RefreshInv, PassUsesItsRefresh
  <1> QED
    BY <1>3, <1>10, <1>11, <1>12, PricesStep

LEMMA Invariant == Spec => []IInv
  <1>1. ASSUME IInv, [Next]_vars PROVE IInv'
    BY <1>1, AsideStep, BuildStep, AppendStep, FailedWriteStep, RunStep
    DEF Next, Pass, Aside
  <1> QED
    BY <1>1, InitEstablishes, PTL DEF Spec

-----------------------------------------------------------------------------
(* The theorems.                                                           *)

\* The types of CostLedger.
THEOREM TypeCorrect == Spec => []TypeOK
  <1>1. IInv => TypeOK
    BY DEF IInv
  <1> QED
    BY <1>1, Invariant, PTL

\* RecordedOnce: iter_ledger yields a message at most once, whichever writes
\* failed, whoever was killed and whatever the runner wrote in between.
THEOREM MessagesAreCountedOnce == Spec => []RecordedOnce
  <1>1. ASSUME IInv, NEW m \in Messages PROVE TimesRead(m) <= 1
    <2>1. \A i, j \in ReadAt(m) : i = j
      BY <1>1 DEF IInv, OnceInv
    <2>2. IsFiniteSet(ReadAt(m)) /\ TimesRead(m) = Cardinality(ReadAt(m))
      BY <1>1, ReadAtFinite DEF IInv
    <2>3. CASE ReadAt(m) = {}
      BY <2>2, <2>3, FS_EmptySet
    <2>4. CASE ReadAt(m) # {}
      <3>1. PICK i : ReadAt(m) = {i}
        BY <2>1, <2>4
      <3>2. Cardinality(ReadAt(m)) = 1
        BY <3>1, FS_Singleton
      <3> QED
        BY <2>2, <3>2
    <2> QED
      BY <2>3, <2>4
  <1>2. IInv => RecordedOnce
    BY <1>1 DEF RecordedOnce
  <1> QED
    BY <1>2, Invariant, PTL

\* BundledStaysPriced: load_pricing never prices a model of the package at the
\* fallback rate, whatever the page dropped and whatever file is found.
THEOREM PackageModelsArePriced == Spec => []BundledStaysPriced
  <1>1. IInv => BundledStaysPriced
    BY DEF IInv
  <1> QED
    BY <1>1, Invariant, PTL

\* PassUsesItsRefresh: what refresh_pricing fetched is what the pass prices with.
THEOREM RefreshIsUsed == Spec => []PassUsesItsRefresh
  <1>1. IInv => PassUsesItsRefresh
    BY DEF IInv, RefreshInv
  <1> QED
    BY <1>1, Invariant, PTL
=============================================================================
