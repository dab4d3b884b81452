-------------------------- MODULE SpendLedgerProofs --------------------------
(***************************************************************************)
(* Theorems about SpendLedger for every set of tasks, every ceiling and    *)
(* every size of call.  The overshoot is bounded because what a call will  *)
(* cost is accounted for from the moment check lets it begin: Room is      *)
(* OvershootBounded with the calls that are out added to what was spent.   *)
(***************************************************************************)
EXTENDS SpendLedger, FiniteSetTheorems, TLAPS

Calling == {t \in Tasks : task[t] = "calling"}

\* Field f, with ceiling cap and at most per in a call.
Room(f, cap, per) ==
    cap # 0 /\ running =>
        ledger.total[f] + per * Cardinality(Calling)
            <= Larger(restored[f], cap - 1) + per * Cardinality(Tasks)

DownIsIdle == ~running => \A t \in Tasks : task[t] = "idle"

StoppedIsOver == running /\ (\E t \in Tasks : task[t] = "stopped") => Over

IInv ==
    /\ TypeOK /\ DownIsIdle /\ StoppedIsOver /\ CheckpointIsRestored
    /\ Room("usd", MaxUsd, CallUsd) /\ Room("tokens", MaxTokens, CallTokens)

USE SpendAssumption

-----------------------------------------------------------------------------
(* The ledger.                                                             *)

Uses == [tokens : 0..CallTokens, usd : 0..CallUsd]

\* Adding a call to an account leaves an account, no field smaller, and the
\* cost and the tokens larger by those of the call.
LEMMA AddedGrows ==
    ASSUME NEW a \in Accounts, NEW use \in Uses
    PROVE  /\ Added(a, use) \in Accounts
           /\ \A f \in Fields : a[f] <= Added(a, use)[f]
           /\ Added(a, use).usd = a.usd + use.usd
           /\ Added(a, use).tokens = a.tokens + use.tokens
  BY DEF Accounts, Fields, Uses, Added

\* The same for the whole ledger.
LEMMA RecordedGrows ==
    ASSUME ledger \in Ledgers, NEW use \in Uses,
           NEW label \in Stages \cup {NoLabel}
    PROVE  /\ Recorded(use, label) \in Ledgers
           /\ Recorded(use, label).total = Added(ledger.total, use)
           /\ \A s \in Stages, f \in Fields :
                  ledger.stage[s][f] <= Recorded(use, label).stage[s][f]
  <1>1. /\ ledger.total \in Accounts
        /\ ledger.stage \in [Stages -> Accounts]
    BY DEF Ledgers
  <1>2. /\ Added(ledger.total, use) \in Accounts
        /\ \A s \in Stages :
               /\ Added(ledger.stage[s], use) \in Accounts
               /\ \A f \in Fields :
                      ledger.stage[s][f] <= Added(ledger.stage[s], use)[f]
    BY <1>1, AddedGrows
  <1>3. \A s \in Stages, f \in Fields : ledger.stage[s][f] \in Nat
    BY <1>1 DEF Accounts
  <1> DEFINE new == Recorded(use, label)
             total == Added(ledger.total, use)
             stage(s) == Added(ledger.stage[s], use)
  <1> HIDE DEF total, stage
  <1>0. ledger = [total |-> ledger.total, stage |-> ledger.stage]
    BY DEF Ledgers
  <1>4. CASE label = NoLabel
    <2>1. new = [total |-> total, stage |-> ledger.stage]
      BY <1>4, <1>0 DEF Recorded, total
    <2>2. total \in Accounts
      BY <1>2 DEF total
    <2>3. new \in Ledgers
      BY <1>1, <2>1, <2>2 DEF Ledgers
    <2>4. \A s \in Stages, f \in Fields : ledger.stage[s][f] <= new.stage[s][f]
      BY <1>3, <2>1
    <2> QED
      BY <2>1, <2>3, <2>4 DEF total
  <1>5. CASE label # NoLabel
    <2>1. label \in Stages
      BY <1>5
    <2> DEFINE stages == [ledger.stage EXCEPT ![label] = stage(label)]
    <2>2. new = [total |-> total, stage |-> stages]
      BY <1>5, <1>0 DEF Recorded, total, stage
    <2>3. total \in Accounts /\ stage(label) \in Accounts
      BY <1>2, <2>1 DEF total, stage
    <2>4. stages \in [Stages -> Accounts]
      BY <1>1, <2>3
    <2>5. new \in Ledgers
      BY <1>1, <2>2, <2>3, <2>4 DEF Ledgers
    <2>6. \A f \in Fields : ledger.stage[label][f] <= stage(label)[f]
      BY <1>2, <2>1 DEF stage
    <2>7. \A s \in Stages, f \in Fields : ledger.stage[s][f] <= new.stage[s][f]
      BY <1>1, <1>3, <2>2, <2>6
    <2> QED
      BY <2>2, <2>5, <2>7 DEF total
  <1> QED
    BY <1>4, <1>5

\* What Record may do to the ledger.
LEMMA RecordStep ==
    ASSUME TypeOK, NEW t \in Tasks, Record(t)
    PROVE  /\ ledger' \in Ledgers
           /\ \A f \in Fields : ledger.total[f] <= ledger'.total[f]
           /\ \A s \in Stages, f \in Fields :
                  ledger.stage[s][f] <= ledger'.stage[s][f]
           /\ ledger'.total.usd <= ledger.total.usd + CallUsd
           /\ ledger'.total.tokens <= ledger.total.tokens + CallTokens
  <1>1. ledger \in Ledgers
    BY DEF TypeOK
  <1>2. /\ \A f \in Fields : ledger.total[f] \in Nat
        /\ \A s \in Stages, f \in Fields : ledger.stage[s][f] \in Nat
        /\ ledger.total.usd \in Nat /\ ledger.total.tokens \in Nat
    BY <1>1 DEF Ledgers, Accounts, Fields
  <1>3. CASE UNCHANGED ledger
    BY <1>1, <1>2, <1>3
  <1>4. ASSUME NEW use \in Uses, NEW label \in Stages \cup {NoLabel},
               ledger' = Recorded(use, label)
        PROVE  /\ ledger' \in Ledgers
               /\ \A f \in Fields : ledger.total[f] <= ledger'.total[f]
               /\ \A s \in Stages, f \in Fields :
                      ledger.stage[s][f] <= ledger'.stage[s][f]
               /\ ledger'.total.usd <= ledger.total.usd + CallUsd
               /\ ledger'.total.tokens <= ledger.total.tokens + CallTokens
    <2>1. /\ ledger' \in Ledgers
          /\ ledger'.total = Added(ledger.total, use)
          /\ \A s \in Stages, f \in Fields :
                 ledger.stage[s][f] <= ledger'.stage[s][f]
      BY <1>1, <1>4, RecordedGrows
    <2>2. ledger.total \in Accounts
      BY <1>1 DEF Ledgers
    <2>3. use.usd \in 0..CallUsd /\ use.tokens \in 0..CallTokens
      BY DEF Uses
    <2> QED
      BY <1>2, <2>1, <2>2, <2>3, AddedGrows
  <1> QED
    BY <1>3, <1>4 DEF Record, Uses

\* What a checkpoint gives back is a ledger.
LEMMA LoadedType == ASSUME TypeOK PROVE Loaded \in Ledgers
  BY DEF TypeOK, Loaded, EmptyLedger, EmptyStage, Ledgers, Accounts

-----------------------------------------------------------------------------
(* The calls that are out.                                                 *)

\* A task that begins a call is one more of at most all tasks; one that
\* records is one less; tasks that are idle have no call out.
LEMMA CallingCount ==
    ASSUME TypeOK
    PROVE  /\ Cardinality(Calling) \in Nat /\ Cardinality(Tasks) \in Nat
           /\ Cardinality(Calling) <= Cardinality(Tasks)
           /\ \A t \in Tasks : task[t] = "idle" =>
                  /\ Cardinality(Calling \cup {t}) = Cardinality(Calling) + 1
                  /\ Cardinality(Calling \cup {t}) <= Cardinality(Tasks)
           /\ \A t \in Tasks : task[t] = "calling" =>
                  Cardinality(Calling \ {t}) = Cardinality(Calling) - 1
           /\ (\A t \in Tasks : task[t] = "idle") => Cardinality(Calling) = 0
  <1>1. Calling \in SUBSET Tasks
    BY DEF Calling
  <1>2. IsFiniteSet(Calling) /\ Cardinality(Calling) <= Cardinality(Tasks)
    BY <1>1, FS_Subset
  <1>3. Cardinality(Calling) \in Nat /\ Cardinality(Tasks) \in Nat
    BY <1>2, FS_CardinalityType
  <1>4. ASSUME NEW t \in Tasks, task[t] = "idle"
        PROVE  /\ Cardinality(Calling \cup {t}) = Cardinality(Calling) + 1
               /\ Cardinality(Calling \cup {t}) <= Cardinality(Tasks)
    <2>1. t \notin Calling /\ Calling \cup {t} \in SUBSET Tasks
      BY <1>4 DEF Calling
    <2> QED
      BY <1>2, <2>1, FS_AddElement, FS_Subset
  <1>5. ASSUME NEW t \in Tasks, task[t] = "calling"
        PROVE  Cardinality(Calling \ {t}) = Cardinality(Calling) - 1
    <2>1. t \in Calling
      BY <1>5 DEF Calling
    <2> QED
      BY <1>2, <2>1, FS_RemoveElement
  <1>6. ASSUME \A t \in Tasks : task[t] = "idle" PROVE Cardinality(Calling) = 0
    <2>1. Calling = {}
      BY <1>6 DEF Calling
    <2> QED
      BY <2>1, FS_EmptySet
  <1> QED
    BY <1>2, <1>3, <1>4, <1>5, <1>6

\* The arithmetic of Room.
LEMMA TimesOneMore ==
    ASSUME NEW per \in Nat, NEW n \in Nat
    PROVE  per * (n + 1) = per * n + per
  OBVIOUS
LEMMA TimesMonotone ==
    ASSUME NEW per \in Nat, NEW m \in Nat, NEW n \in Nat, m <= n
    PROVE  per * m <= per * n /\ per * m \in Nat /\ per * n \in Nat
  OBVIOUS

-----------------------------------------------------------------------------
(* The inductive step.                                                     *)

\* No step makes Room fail, for a field whose ceiling check looks at and whose
\* use in one call is at most per.
LEMMA RoomKept ==
    ASSUME NEW f \in {"usd", "tokens"}, NEW cap \in Nat, NEW per \in Nat,
           TypeOK, TypeOK', DownIsIdle, Room(f, cap, per), [Next]_vars,
           ~Over => cap = 0 \/ ledger.total[f] < cap,
           \A t \in Tasks : Record(t) =>
               ledger'.total[f] <= ledger.total[f] + per
    PROVE  Room(f, cap, per)'
  <1> DEFINE n == Cardinality(Calling)
             all == Cardinality(Tasks)
  <1>1. /\ ledger.total[f] \in Nat /\ restored[f] \in Nat
        /\ ledger'.total[f] \in Nat /\ restored'[f] \in Nat
    BY DEF TypeOK, Ledgers, Accounts, Fields
  <1>2. n \in Nat /\ all \in Nat /\ n <= all /\ per * n <= per * all
        /\ per * n \in Nat /\ per * all \in Nat
    BY CallingCount, TimesMonotone
  <1>3. CASE Start
    <2>1. n = 0 /\ Calling' = Calling
      BY <1>3, CallingCount DEF Start, DownIsIdle, Calling
    <2>2. ledger'.total[f] = restored'[f] /\ per * n = 0
      BY <1>3, <2>1 DEF Start
    <2> QED
      BY <1>1, <1>2, <2>1, <2>2 DEF Room, Larger
  <1>4. CASE Save
    BY <1>4 DEF Save, Room, Calling
  <1>5. CASE Killed
    BY <1>5 DEF Killed, Room
  <1>6. ASSUME NEW t \in Tasks, Stopped(t) PROVE Room(f, cap, per)'
    <2>1. Calling' = Calling
      BY <1>6 DEF Stopped, Calling, TypeOK
    <2> QED
      BY <1>6, <2>1 DEF Stopped, Room
  <1>7. ASSUME NEW t \in Tasks, Call(t) PROVE Room(f, cap, per)'
    <2>1. Calling' = Calling \cup {t}
      BY <1>7 DEF Call, Calling, TypeOK
    <2>2. n + 1 <= all /\ Cardinality(Calling') = n + 1
      BY <1>7, <2>1, CallingCount DEF Call
    <2>3. per * (n + 1) <= per * all /\ per * (n + 1) \in Nat
      BY <1>2, <2>2, TimesMonotone
    <2>4. cap # 0 => ledger.total[f] <= cap - 1
      BY <1>1, <1>7 DEF Call
    <2> QED
      BY <1>1, <1>2, <1>7, <2>2, <2>3, <2>4 DEF Call, Room, Larger
  <1>8. ASSUME NEW t \in Tasks, Record(t) PROVE Room(f, cap, per)'
    <2>1. Calling' = Calling \ {t}
      BY <1>8 DEF Record, Calling, TypeOK
    <2>2. n - 1 \in Nat /\ Cardinality(Calling') = n - 1
      <3>1. n # 0
        BY <1>8, CallingCount, FS_EmptySet, FS_Subset DEF Record, Calling
      <3> QED
        BY <1>2, <1>8, <2>1, <3>1, CallingCount DEF Record
    <2>3. per * n = per * (n - 1) + per /\ per * (n - 1) \in Nat
      <3>1. per * ((n - 1) + 1) = per * (n - 1) + per
        BY <2>2, TimesOneMore
      <3> QED
        BY <1>2, <2>2, <3>1, TimesMonotone
    <2>4. ledger'.total[f] <= ledger.total[f] + per /\ restored' = restored
      BY <1>8 DEF Record
    <2> QED
      BY <1>1, <1>2, <1>8, <2>2, <2>3, <2>4 DEF Record, Room, Larger
  <1>9. CASE UNCHANGED vars
    BY <1>9 DEF vars, Room, Calling
  <1> QED
    BY <1>3, <1>4, <1>5, <1>6, <1>7, <1>8, <1>9 DEF Next

LEMMA InitEstablishes == Init => IInv
  <1> SUFFICES ASSUME Init PROVE IInv
    OBVIOUS
  <1>1. saved \in Ledgers \cup {NoCheckpoint}
    <2>1. \A a \in Accounts : [EmptyLedger EXCEPT !.total = a] \in Ledgers
      BY DEF EmptyLedger, EmptyStage, Ledgers, Accounts
    <2>2. [calls : {1}, tokens : 0..CallTokens, usd : 0..(2 * CallUsd), noUsage : {0}]
              \subseteq Accounts
      BY DEF Accounts, Fields
    <2> QED
      BY <2>1, <2>2 DEF Init, OldCheckpoints
  <1>2. TypeOK
    BY <1>1 DEF Init, TypeOK, EmptyLedger, EmptyStage, Ledgers, Accounts
  <1> QED
    BY <1>2 DEF Init, IInv, DownIsIdle, StoppedIsOver, CheckpointIsRestored, Room

\* Every step keeps the types.
LEMMA TypeKept == ASSUME TypeOK, [Next]_vars PROVE TypeOK'
  <1>1. CASE Start
    BY <1>1, LoadedType DEF Start, TypeOK, Ledgers
  <1>2. CASE Save
    BY <1>2 DEF Save, TypeOK
  <1>3. CASE Killed
    BY <1>3 DEF Killed, TypeOK
  <1>4. ASSUME NEW t \in Tasks, Stopped(t) PROVE TypeOK'
    BY <1>4 DEF Stopped, TypeOK
  <1>5. ASSUME NEW t \in Tasks, Call(t) PROVE TypeOK'
    <2>1. (warned \/ NearlySpent) \in BOOLEAN
      BY Zenon DEF NearlySpent
    <2> QED
      BY <1>5, <2>1 DEF Call, TypeOK
  <1>6. ASSUME NEW t \in Tasks, Record(t) PROVE TypeOK'
    BY <1>6, RecordStep DEF Record, TypeOK
  <1>7. CASE UNCHANGED vars
    BY <1>7 DEF vars, TypeOK
  <1> QED
    BY <1>1, <1>2, <1>3, <1>4, <1>5, <1>6, <1>7 DEF Next

\* A ceiling that is spent stays spent: no step of a process takes from the
\* totals.
LEMMA OverKept ==
    ASSUME TypeOK, NEW t \in Tasks, Record(t), Over
    PROVE  Over'
  <1>1. /\ ledger.total.usd \in Nat /\ ledger'.total.usd \in Nat
        /\ ledger.total.tokens \in Nat /\ ledger'.total.tokens \in Nat
    BY RecordStep DEF TypeOK, Ledgers, Accounts, Fields
  <1>2. /\ ledger.total.usd <= ledger'.total.usd
        /\ ledger.total.tokens <= ledger'.total.tokens
    BY RecordStep DEF Fields
  <1> QED
    BY <1>1, <1>2 DEF Over

LEMMA StoppedKept ==
    ASSUME TypeOK, DownIsIdle, StoppedIsOver, [Next]_vars
    PROVE  StoppedIsOver'
  <1>1. CASE Start
    BY <1>1 DEF Start, DownIsIdle, StoppedIsOver
  <1>2. CASE Save
    BY <1>2 DEF Save, StoppedIsOver, Over
  <1>3. CASE Killed
    BY <1>3 DEF Killed, StoppedIsOver
  <1>4. ASSUME NEW t \in Tasks, Stopped(t) PROVE StoppedIsOver'
    BY <1>4 DEF Stopped, StoppedIsOver, Over
  <1>5. ASSUME NEW t \in Tasks, Call(t) PROVE StoppedIsOver'
    BY <1>5 DEF Call, StoppedIsOver, Over, TypeOK
  <1>6. ASSUME NEW t \in Tasks, Record(t) PROVE StoppedIsOver'
    BY <1>6, OverKept DEF Record, StoppedIsOver, TypeOK
  <1>7. CASE UNCHANGED vars
    BY <1>7 DEF vars, StoppedIsOver, Over
  <1> QED
    BY <1>1, <1>2, <1>3, <1>4, <1>5, <1>6, <1>7 DEF Next

LEMMA CheckpointKept ==
    ASSUME TypeOK, TypeOK', CheckpointIsRestored, [Next]_vars
    PROVE  CheckpointIsRestored'
  <1> DEFINE Below(low, high) ==
          \A f \in Fields :
              /\ low.total[f] <= high.total[f]
              /\ \A s \in Stages : low.stage[s][f] <= high.stage[s][f]
  <1>1. ASSUME NEW a \in Ledgers PROVE Below(a, a)
    BY DEF Ledgers, Accounts
  <1>2. CheckpointIsRestored <=>
            (running /\ saved # NoCheckpoint => Below(saved, ledger))
    BY DEF CheckpointIsRestored
  <1>3. CheckpointIsRestored' <=>
            (running' /\ saved' # NoCheckpoint => Below(saved', ledger'))
    BY DEF CheckpointIsRestored
  <1>4. CASE Start
    BY <1>1, <1>3, <1>4 DEF Start, Loaded, TypeOK
  <1>5. CASE Save
    BY <1>1, <1>3, <1>5 DEF Save, TypeOK
  <1>6. CASE Killed
    BY <1>3, <1>6 DEF Killed
  <1>7. ASSUME NEW t \in Tasks, Record(t) PROVE CheckpointIsRestored'
    <2>1. SUFFICES ASSUME saved # NoCheckpoint PROVE Below(saved, ledger')
      BY <1>3, <1>7 DEF Record
    <2>2. saved \in Ledgers /\ ledger \in Ledgers /\ ledger' \in Ledgers
      BY <2>1 DEF TypeOK
    <2>3. Below(saved, ledger) /\ Below(ledger, ledger')
      BY <1>2, <1>7, <2>1, RecordStep DEF Record
    <2> QED
      BY <2>2, <2>3 DEF Ledgers, Accounts
  <1>8. ASSUME NEW t \in Tasks, Stopped(t) \/ Call(t)
        PROVE  CheckpointIsRestored'
    BY <1>2, <1>3, <1>8 DEF Stopped, Call
  <1>9. CASE UNCHANGED vars
    BY <1>2, <1>3, <1>9 DEF vars
  <1> QED
    BY <1>4, <1>5, <1>6, <1>7, <1>8, <1>9 DEF Next

LEMMA StepKeeps == IInv /\ [Next]_vars => IInv'
  <1> SUFFICES ASSUME IInv, [Next]_vars PROVE IInv'
    OBVIOUS
  <1> USE DEF IInv
  <1>1. TypeOK'
    BY TypeKept
  <1>2. DownIsIdle'
    BY DEF DownIsIdle, TypeOK, Next, vars, Start, Save, Killed, Stopped, Call, Record
  <1>3. StoppedIsOver'
    BY StoppedKept
  <1>4. CheckpointIsRestored'
    BY <1>1, CheckpointKept
  <1>5. /\ ~Over => MaxUsd = 0 \/ ledger.total["usd"] < MaxUsd
        /\ ~Over => MaxTokens = 0 \/ ledger.total["tokens"] < MaxTokens
    BY DEF Over, TypeOK, Ledgers, Accounts, Fields
  <1>6. \A t \in Tasks : Record(t) =>
            /\ ledger'.total["usd"] <= ledger.total["usd"] + CallUsd
            /\ ledger'.total["tokens"] <= ledger.total["tokens"] + CallTokens
    BY RecordStep
  <1>7. Room("usd", MaxUsd, CallUsd)'
    BY <1>1, <1>5, <1>6, RoomKept
  <1>8. Room("tokens", MaxTokens, CallTokens)'
    BY <1>1, <1>5, <1>6, RoomKept
  <1> QED
    BY <1>1, <1>2, <1>3, <1>4, <1>7, <1>8

LEMMA AlwaysIInv == Spec => []IInv
  BY InitEstablishes, StepKeeps, PTL DEF Spec

-----------------------------------------------------------------------------
(* Theorems.                                                               *)

\* The ledger, the checkpoint and the tasks keep their types.
THEOREM TypeCorrect == Spec => []TypeOK
  <1>1. IInv => TypeOK
    BY DEF IInv
  <1> QED
    BY <1>1, AlwaysIInv, PTL

\* However many tasks share the ledger and however often the run is resumed,
\* a process spends at most one call of each task past a ceiling.
THEOREM OvershootIsBounded == Spec => []OvershootBounded
  <1>1. IInv => OvershootBounded
    <2> SUFFICES ASSUME IInv PROVE OvershootBounded
      OBVIOUS
    <2>1. /\ ledger.total.usd \in Nat /\ ledger.total.tokens \in Nat
          /\ restored.usd \in Nat /\ restored.tokens \in Nat
      BY DEF IInv, TypeOK, Ledgers, Accounts, Fields
    <2>2. /\ Cardinality(Calling) \in Nat /\ Cardinality(Tasks) \in Nat
      BY CallingCount DEF IInv
    <2>3. /\ CallUsd * Cardinality(Calling) \in Nat
          /\ CallTokens * Cardinality(Calling) \in Nat
          /\ CallUsd * Cardinality(Tasks) \in Nat
          /\ CallTokens * Cardinality(Tasks) \in Nat
      BY <2>2, TimesMonotone
    <2> QED
      BY <2>1, <2>3 DEF IInv, Room, OvershootBounded, Larger
  <1> QED
    BY <1>1, AlwaysIInv, PTL

\* "A resumed run does not get a fresh budget".
THEOREM ResumeKeepsSpend == Spec => []CheckpointIsRestored
  <1>1. IInv => CheckpointIsRestored
    BY DEF IInv
  <1> QED
    BY <1>1, AlwaysIInv, PTL

\* Once check has raised in one task of a process, it lets no task of that
\* process begin a call.
THEOREM BreakerHolds == Spec => BreakerIsFinal
  <1>1. IInv /\ [Next]_vars =>
            [running /\ (\E t \in Tasks : task[t] = "stopped")
                 => made' = made]_vars
    BY DEF IInv, StoppedIsOver, Next, vars, Start, Save, Killed, Stopped,
           Call, Record
  <1> QED
    BY <1>1, AlwaysIInv, PTL DEF Spec, BreakerIsFinal
=============================================================================
