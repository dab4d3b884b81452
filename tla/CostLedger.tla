------------------------------ MODULE CostLedger ------------------------------
(***************************************************************************)
(* The cost ledger and its prices (costing.py).  Two processes use them:   *)
(* the collector, which is external and makes one pass after another       *)
(* (refresh_pricing, session_msg_index, then append_records for the        *)
(* messages not in the index), and the runner, whose _record_cost appends  *)
(* a record when a run of it ends.                                         *)
(*                                                                         *)
(* A price is the version of the page it was read from, 0 for the bundled  *)
(* one.  An append reaches the file in writes that end with a record,      *)
(* unless one fails: then whole records may precede a part of the next.    *)
(***************************************************************************)
EXTENDS Integers, Sequences, FiniteSets

CONSTANTS
    Messages,   \* messages of the transcripts, numbered
    MonthOf,    \* [message -> its month, numbered]
    ModelOf,    \* [message -> the model that wrote it]
    Runs,       \* runs of the runner, with an id of their own
    RunMonth,   \* the month they end in
    Models,
    Bundled,    \* models priced by the pricing.json of the package
    Fallback,   \* the price of a model that is in no table
    NoTable,    \* nothing cached, or no file
    Unreadable, \* a file that is no JSON
    MaxVersion, \* bound: times the pricing page changes
    MaxFailures \* bound: writes that fail, and collectors killed

Processes == {"collector", "runner"}
Months == {MonthOf[m] : m \in Messages} \cup {RunMonth}
Tables == [Models -> 0..MaxVersion \cup {Fallback}]
Pages == [listed : SUBSET Models, version : 0..MaxVersion]

ASSUME LedgerAssumption ==
    /\ Messages \subseteq Nat /\ IsFiniteSet(Messages) /\ Messages \cap Runs = {}
    /\ MonthOf \in [Messages -> Nat] /\ RunMonth \in Nat
    /\ ModelOf \in [Messages -> Models] /\ Bundled \subseteq Models
    /\ MaxVersion \in Nat /\ MaxFailures \in Nat
    /\ Fallback \notin Nat /\ NoTable \notin Tables \cup Pages /\ Unreadable \notin Pages

VARIABLES
    page,      \* the official page: the models it prices
    priceFile, \* costs/pricing.json
    young,     \* whether that file is younger than max_age
    cache,     \* [process -> _pricing_cache]
    pc,        \* where the collector's pass is
    fetched,   \* the page that refresh_pricing has fetched in this pass
    todo,      \* the records this pass has yet to append
    ledger,    \* [month -> the pieces of its ledger file]
    running,   \* runs that have not ended
    failures   \* history: failed writes and kills

vars == <<page, priceFile, young, cache, pc, fetched, todo, ledger, running, failures>>
pricing == <<page, priceFile, young>>

\* A "line" is a record with its newline; a "stub" does not parse; an
\* "object" is a record that only lacks its newline.
Pieces == [id : Messages \cup Runs, piece : {"line", "stub", "object"}]
Records == [id : Messages, price : 0..MaxVersion \cup {Fallback}]

TypeOK ==
    /\ page \in Pages /\ young \in BOOLEAN
    /\ priceFile \in Pages \cup {NoTable, Unreadable}
    /\ cache \in [Processes -> Tables \cup {NoTable}]
    /\ pc \in {"idle", "refreshing", "replacing", "indexing", "appending"}
    /\ fetched \in Pages \cup {NoTable}
    /\ todo \in Seq(Records)
    /\ ledger \in [Months -> Seq(Pieces)]
    /\ running \subseteq Runs /\ failures \in 0..MaxFailures

\* The package's pricing.json is a copy of the page of its release.
Init ==
    /\ page = [listed |-> Bundled, version |-> 0]
    /\ priceFile \in {NoTable, Unreadable} /\ young \in BOOLEAN
    /\ cache = [p \in Processes |-> NoTable]
    /\ pc = "idle" /\ fetched = NoTable /\ todo = <<>>
    /\ ledger = [m \in Months |-> <<>>]
    /\ running = Runs /\ failures = 0

-----------------------------------------------------------------------------
(* Prices.                                                                 *)

BundledTable == [m \in Models |-> IF m \in Bundled THEN 0 ELSE Fallback]

\* _merge_pricing.  Mistake: the refreshed models replace the bundled ones.
MergedMutant(file) ==
    [m \in Models |-> IF m \in file.listed THEN file.version ELSE Fallback]
Merged(file) ==
    [m \in Models |-> IF m \in file.listed THEN file.version ELSE BundledTable[m]]

\* load_pricing: the table is read once, and kept.
LoadPricing(p) ==
    IF cache[p] # NoTable THEN cache[p]
    ELSE IF priceFile \in Pages THEN Merged(priceFile) ELSE BundledTable

\* fetch_live_pricing raises when the page has too few rows that make sense.
Floor == IF Cardinality(Bundled) < 4 THEN 1 ELSE Cardinality(Bundled) \div 2
MayFetch == Cardinality(page.listed) >= Floor

\* reset_pricing_cache.  Mistake: it is forgotten.
ResetPricingCacheMutant(p) == cache
ResetPricingCache(p) == [cache EXCEPT ![p] = NoTable]

\* The page is edited: prices change, models appear and are retired.
PageChanges ==
    /\ page.version < MaxVersion
    /\ \E listed \in SUBSET Models :
           page' = [listed |-> listed, version |-> page.version + 1]
    /\ UNCHANGED <<priceFile, young, cache, pc, fetched, todo, ledger, running, failures>>

FileAges ==
    /\ young /\ young' = FALSE
    /\ UNCHANGED <<page, priceFile, cache, pc, fetched, todo, ledger, running, failures>>

-----------------------------------------------------------------------------
(* iter_ledger and session_msg_index.                                      *)

\* A piece is read when its line holds nothing else.
IsRead(file, i) ==
    /\ i = 1 \/ file[i - 1].piece = "line"
    /\ \/ file[i].piece = "line"
       \/ file[i].piece = "object" /\ i = Len(file)

TimesRead(m) ==
    Cardinality({i \in DOMAIN ledger[MonthOf[m]] :
                     /\ IsRead(ledger[MonthOf[m]], i)
                     /\ ledger[MonthOf[m]][i].id = m})

\* Mistakes: the file of one month only; any line that names the message.
SessionMsgIndexMutant == {m \in Messages : MonthOf[m] = RunMonth /\ TimesRead(m) > 0}
IndexOfNamesMutant ==
    {m \in Messages : \E i \in DOMAIN ledger[MonthOf[m]] : ledger[MonthOf[m]][i].id = m}
SessionMsgIndex == {m \in Messages : TimesRead(m) > 0}

-----------------------------------------------------------------------------
(* The collector's pass.                                                   *)

StartPass ==
    /\ pc = "idle"
    /\ pc' = "refreshing"
    /\ UNCHANGED <<pricing, cache, fetched, todo, ledger, running, failures>>

\* The file is young enough, or the page cannot be had.
KeepPrices ==
    /\ pc = "refreshing"
    /\ pc' = "indexing"
    /\ UNCHANGED <<pricing, cache, fetched, todo, ledger, running, failures>>

Fetch ==
    /\ pc = "refreshing"
    /\ ~(young /\ priceFile # NoTable) /\ MayFetch
    /\ pc' = "replacing" /\ fetched' = page
    /\ UNCHANGED <<pricing, cache, todo, ledger, running, failures>>

\* os.replace, then reset_pricing_cache.
ReplacePrices ==
    /\ pc = "replacing"
    /\ pc' = "indexing"
    /\ priceFile' = fetched /\ young' = TRUE
    /\ cache' = ResetPricingCache("collector")
    /\ UNCHANGED <<page, fetched, todo, ledger, running, failures>>

\* Records are built for the messages not in the index, and grouped by month.
ByMonth(messages) ==
    {s \in [1..Cardinality(messages) -> messages] :
        \A i, j \in DOMAIN s : i < j =>
            \/ MonthOf[s[i]] < MonthOf[s[j]]
            \/ MonthOf[s[i]] = MonthOf[s[j]] /\ s[i] < s[j]}

BuildRecords ==
    /\ pc = "indexing"
    /\ LET table == LoadPricing("collector") IN
       \E new \in ByMonth(Messages \ SessionMsgIndex) :
           /\ todo' = [i \in DOMAIN new |-> [id |-> new[i], price |-> table[ModelOf[new[i]]]]]
           /\ cache' = IF new = <<>> THEN cache ELSE [cache EXCEPT !["collector"] = table]
    /\ pc' = "appending"
    /\ UNCHANGED <<pricing, fetched, ledger, running, failures>>

Line(id) == [id |-> id, piece |-> "line"]
\* The first n records to append, if they go to one month's file.
OneFile(n) == \A i \in 1..n : MonthOf[todo[i].id] = MonthOf[todo[1].id]
Appended(n, rest) ==
    [ledger EXCEPT ![MonthOf[todo[1].id]] = @ \o ([i \in 1..n |-> Line(todo[i].id)] \o rest)]

\* One write takes the records buffered for a file.
AppendRecords ==
    /\ pc = "appending"
    /\ \E n \in 1..Len(todo) :
           /\ OneFile(n)
           /\ ledger' = Appended(n, <<>>)
           /\ todo' = SubSeq(todo, n + 1, Len(todo))
    /\ UNCHANGED <<pricing, cache, pc, fetched, running, failures>>

Leave == pc' = "idle" /\ todo' = <<>> /\ fetched' = NoTable

EndPass ==
    /\ pc = "appending" /\ todo = <<>>
    /\ Leave
    /\ UNCHANGED <<pricing, cache, ledger, running, failures>>

\* The process goes on to its next pass, or is another one by then.
NextProcess == cache' \in {cache, [cache EXCEPT !["collector"] = NoTable]}
Fails == failures < MaxFailures /\ failures' = failures + 1

\* A write fails (the disk is full) or the process is killed in it: the
\* exception leaves append_records and the pass.
WriteFails ==
    /\ pc = "appending" /\ Fails /\ NextProcess
    /\ \E n \in 0..(Len(todo) - 1), piece \in {"stub", "object"} :
           /\ OneFile(n + 1)
           /\ ledger' = Appended(n, <<[id |-> todo[n + 1].id, piece |-> piece]>>)
    /\ Leave
    /\ UNCHANGED <<pricing, running>>

\* The prices cannot be written (mkdir, write_text, replace): this is outside of
\* refresh_pricing's try, and leaves the pass as well.
ReplaceFails ==
    /\ pc = "replacing" /\ Fails /\ NextProcess
    /\ Leave
    /\ UNCHANGED <<pricing, ledger, running>>

Killed ==
    /\ pc # "idle" /\ Fails
    /\ Leave
    /\ cache' = [cache EXCEPT !["collector"] = NoTable]
    /\ UNCHANGED <<pricing, ledger, running>>

Restart ==
    /\ pc = "idle" /\ cache["collector"] # NoTable
    /\ cache' = [cache EXCEPT !["collector"] = NoTable]
    /\ UNCHANGED <<pricing, pc, fetched, todo, ledger, running, failures>>

-----------------------------------------------------------------------------
(* The runner: _record_cost of a run that ends.                            *)

\* The SDK's own cost is taken as it is; else the tokens are priced.
RunnerPrices ==
    \/ cache' = [cache EXCEPT !["runner"] = LoadPricing("runner")]
    \/ UNCHANGED cache

RunEnds(r) ==
    /\ r \in running /\ RunnerPrices
    /\ running' = running \ {r}
    /\ \/ /\ ledger' = [ledger EXCEPT ![RunMonth] = Append(@, Line(r))]
          /\ UNCHANGED failures
       \/ /\ Fails
          /\ \E piece \in {"stub", "object"} :
                 ledger' = [ledger EXCEPT ![RunMonth] =
                                Append(@, [id |-> r, piece |-> piece])]
    /\ UNCHANGED <<pricing, pc, fetched, todo>>

-----------------------------------------------------------------------------

Pass == StartPass \/ KeepPrices \/ Fetch \/ ReplacePrices \/ BuildRecords
        \/ AppendRecords \/ EndPass

Next ==
    \/ Pass \/ WriteFails \/ ReplaceFails \/ Killed \/ Restart
    \/ PageChanges \/ FileAges
    \/ \E r \in Runs : RunEnds(r)

Spec == Init /\ [][Next]_vars

\* The collector makes one pass after another, and a pass goes on.
FairSpec == Spec /\ WF_vars(Pass)

-----------------------------------------------------------------------------
(* Properties.                                                             *)

\* "Records already priced are never appended twice" (session_msg_index): no
\* report counts a message twice, whichever write failed, whoever was killed
\* and whatever the runner wrote in between.
RecordedOnce == \A m \in Messages : TimesRead(m) <= 1

\* A message that a failed write has torn, or that a torn line has swallowed,
\* is not lost: in the end the ledger holds every message for good.
EveryMessageIsRecorded == \A m \in Messages : <>[](TimesRead(m) = 1)

\* "Retired models stay priced" (load_pricing): no process ever prices a
\* model of the package at the fallback rate, whatever the page and the file
\* have come to hold.
BundledStaysPriced ==
    \A p \in Processes :
        cache[p] # NoTable => \A m \in Bundled : cache[p][m] # Fallback

\* A pass that has refreshed the prices uses them, also in a process that has
\* priced records before.
PassUsesItsRefresh ==
    pc = "appending" /\ fetched # NoTable =>
        \A i \in DOMAIN todo :
            ModelOf[todo[i].id] \in fetched.listed => todo[i].price = fetched.version
=============================================================================
