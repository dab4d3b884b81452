--------------------------- MODULE AgentRunProofs ---------------------------
(***************************************************************************)
(* Theorems about AgentRun for every value of its constants.  IInv is the  *)
(* inductive invariant: what is true of each control location, from which  *)
(* the type invariant, the safety properties and the refinement follow.    *)
(***************************************************************************)
EXTENDS AgentRun, FiniteSetTheorems, SequenceTheorems, TLAPS

\* A call that may still begin an attempt: nothing has been decided.
GoesOn == outcome = "none" /\ (pc = "teardown" => retry # "no")

LocationInv ==
    /\ pc # "opening" => attempt >= 1
    /\ pc \in {"opening", "consuming", "backoff"} => outcome = "none"
    /\ pc = "consuming" => retry = "no" /\ backoff = 0
    /\ GoesOn => countedFailures < Budget
    /\ pc = "ended" => outcome # "none"
    /\ outcome \in {"timeout", "error"} => pc = "ended"
    /\ outcome \in {"timeout", "error"} \/ (outcome = "none" /\ ~GoesOn)
           => countedFailures = Budget

TaskInv ==
    /\ running \subseteq {attempt}
    /\ pc # "consuming" /\ outcome # "cancelled" => running = {}
    /\ HeartbeatFollowsAttempt

WindowInv ==
    /\ retry = "free" => networkDeadline # NoDeadline
    /\ pc = "teardown" /\ retry = "free" => now + backoff <= networkDeadline
    /\ FreeRetryStartsInWindow

LedgerInv ==
    /\ outcome \in {"none", "cancelled", "rejected"} => ledger = <<>>
    /\ outcome \in {"result", "timeout", "error", "limit"} =>
           \/ ledger = <<attempt>> /\ attempt \in reported
           \/ ledger = <<>> /\ attempt \notin reported \ unrecorded

IInv ==
    TypeOK /\ LocationInv /\ TaskInv /\ WindowInv /\ UsageLimitIsFinal /\ LedgerInv

USE TimesAssumption DEF Locations, Kinds, NoDeadline, Budget, Least

-----------------------------------------------------------------------------

LEMMA InitEstablishes == Init => IInv
  BY DEF Init, IInv, TypeOK, LocationInv, TaskInv, WindowInv, LedgerInv,
         UsageLimitIsFinal, HeartbeatFollowsAttempt, FreeRetryStartsInWindow,
         GoesOn

\* Recording the usage of an attempt leaves a ledger of attempts.
LEMMA LedgerAfterRecord ==
    ASSUME TypeOK, NEW a, RecordCost(a)
    PROVE  ledger' \in Seq(1..attempt) /\ unrecorded' \subseteq 1..attempt
  <1>1. /\ ledger \in Seq(1..attempt) /\ reported \subseteq 1..attempt
        /\ unrecorded \subseteq 1..attempt
    BY DEF TypeOK
  <1>2. CASE a \in reported /\ ledger' = Append(ledger, a) /\ UNCHANGED unrecorded
    BY <1>1, <1>2, AppendProperties
  <1>3. CASE UNCHANGED ledger /\ unrecorded' \in {unrecorded, unrecorded \cup {a}}
             /\ (unrecorded' = unrecorded \/ a \in reported)
    BY <1>1, <1>3
  <1> QED
    BY <1>2, <1>3 DEF RecordCost, costVars

\* The first record of a call is of the attempt it is made for.
LEMMA FirstRecord ==
    ASSUME NEW a, ledger = <<>>, RecordCost(a)
    PROVE  \/ ledger' = <<a>> /\ a \in reported
           \/ ledger' = <<>> /\ a \notin reported \ unrecorded'
  <1>1. Append(<<>>, a) = <<a>>
    OBVIOUS
  <1> QED
    BY <1>1 DEF RecordCost, costVars

\* The type invariant, of what a failure is reached with and of what the three
\* branches of its handler decide.
FrameOK ==
    /\ pc \in Locations
    /\ now \in Nat /\ timer \in Nat /\ attempt \in Nat
    /\ cancel \in {"none", "delivered", "swallowed"}
    /\ failures \subseteq (1..attempt) \X Kinds
    /\ running \subseteq 1..attempt /\ cancelling \subseteq 1..attempt
    /\ beating \subseteq 1..attempt
    /\ openLogs \subseteq 1..attempt /\ keptLogs \subseteq 1..attempt
    /\ reported \subseteq 1..attempt

DecisionOK ==
    /\ retry \in {"no", "free", "counted"}
    /\ backoff \in Nat
    /\ countedFailures \in 0..Budget
    /\ networkDeadline \in Nat \cup {NoDeadline}
    /\ networkBackoff \in Nat \ {0}
    /\ outcome \in {"none", "limit"}
    /\ ledger \in Seq(1..attempt)
    /\ unrecorded \subseteq 1..attempt

\* The exception handler, however the consumer came to its end.
LEMMA HandlerStep ==
    ASSUME IInv, NEW kind \in Kinds, pc = "consuming", HandleFailure(kind),
           running' = running \ {attempt}, cancelling' \subseteq 1..attempt
    PROVE  IInv'
  <1> USE DEF IInv
  <1>1. /\ attempt >= 1 /\ attempt \in Nat /\ outcome = "none"
        /\ retry = "no" /\ backoff = 0 /\ countedFailures < Budget
        /\ countedFailures \in Nat /\ ledger = <<>>
    BY DEF LocationInv, LedgerInv, GoesOn, TypeOK
  <1>2. /\ pc' = "teardown"
        /\ UNCHANGED <<now, timer, attempt, cancel, beating, reported>>
        /\ failures' = failures \cup {<<attempt, kind>>}
    BY DEF HandleFailure
  <1>3. FrameOK'
    <2>1. /\ openLogs' \subseteq 1..attempt
          /\ keptLogs' \subseteq 1..attempt
      BY <1>1 DEF HandleFailure, CloseDebugLog, TypeOK
    <2>2. failures' \subseteq (1..attempt) \X Kinds
      <3>1. attempt \in 1..attempt
        BY <1>1
      <3>2. failures \subseteq (1..attempt) \X Kinds
        BY DEF TypeOK
      <3> QED
        BY <1>2, <3>1, <3>2
    <2> QED
      BY <1>2, <2>1, <2>2 DEF TypeOK, FrameOK
  <1>4. DecisionOK' => TypeOK'
    BY <1>3 DEF FrameOK, DecisionOK, TypeOK
  <1>5. ASSUME outcome' = "none", kind # "limit"
        PROVE  TaskInv' /\ UsageLimitIsFinal'
    BY <1>1, <1>2, <1>5 DEF TaskInv, HeartbeatFollowsAttempt, UsageLimitIsFinal
  <1>6. CASE kind = "limit" /\ StopAtLimit
    <2>1. ledger' \in Seq(1..attempt) /\ unrecorded' \subseteq 1..attempt
      BY <1>6, LedgerAfterRecord DEF StopAtLimit
    <2>2. DecisionOK'
      BY <1>1, <1>2, <1>6, <2>1 DEF TypeOK, DecisionOK, StopAtLimit
    <2>3. LedgerInv'
      BY <1>1, <1>2, <1>6, FirstRecord DEF StopAtLimit, LedgerInv
    <2>4. LocationInv' /\ WindowInv'
      BY <1>1, <1>2, <1>6
         DEF StopAtLimit, LocationInv, GoesOn, WindowInv,
             FreeRetryStartsInWindow
    <2>5. outcome' = "limit"
      BY <1>6 DEF StopAtLimit
    <2>6. TaskInv'
      BY <1>1, <1>2, <2>5 DEF TaskInv, HeartbeatFollowsAttempt
    <2>7. UsageLimitIsFinal'
      BY <1>1, <1>2, <2>5 DEF UsageLimitIsFinal
    <2> QED
      BY <1>4, <2>2, <2>3, <2>4, <2>6, <2>7
  <1>7. CASE kind = "network" /\ InWindow /\ RetryForFree
    <2>1. /\ networkDeadline' \in Nat /\ networkBackoff' \in Nat \ {0}
          /\ backoff' \in Nat /\ now + backoff' <= networkDeadline'
      <3>1. now \in Nat /\ networkBackoff \in Nat \ {0}
        BY DEF TypeOK
      <3>2. Deadline \in Nat /\ now < Deadline
        BY <1>7, <3>1 DEF InWindow, Deadline, TypeOK
      <3>3. NetworkWait \in Nat /\ now + NetworkWait <= Deadline
        BY <3>1, <3>2 DEF NetworkWait
      <3>4. Least(networkBackoff * 2, MaxBackoff) \in Nat \ {0}
        BY <3>1
      <3> QED
        BY <1>7, <3>2, <3>3, <3>4 DEF RetryForFree
    <2>2. /\ retry' = "free"
          /\ UNCHANGED <<countedFailures, outcome, ledger, unrecorded>>
      BY <1>7 DEF RetryForFree, costVars
    <2>3. DecisionOK'
      BY <1>1, <1>2, <2>1, <2>2 DEF TypeOK, DecisionOK
    <2>4. LocationInv' /\ LedgerInv' /\ WindowInv'
      BY <1>1, <1>2, <2>1, <2>2
         DEF LocationInv, GoesOn, LedgerInv, WindowInv,
             FreeRetryStartsInWindow
    <2> QED
      BY <1>1, <1>4, <1>5, <1>7, <2>2, <2>3, <2>4
  <1>8. CASE kind # "limit" /\ CountFailure
    <2>1. /\ countedFailures' = countedFailures + 1
          /\ UNCHANGED <<networkDeadline, networkBackoff, outcome, ledger,
                         unrecorded>>
      BY <1>8 DEF CountFailure, costVars
    <2>2. /\ backoff' \in Nat
          /\ \/ retry' = "counted" /\ countedFailures' < Budget
             \/ retry' = "no" /\ countedFailures' = Budget
      BY <1>1, <1>8 DEF CountFailure, MayRetry, TypeOK
    <2>3. DecisionOK'
      <3>1. networkDeadline' \in Nat \cup {NoDeadline} /\ networkBackoff' \in Nat \ {0}
        BY <2>1 DEF TypeOK
      <3>2. /\ ledger' \in Seq(1..attempt') /\ outcome' = "none"
            /\ unrecorded' \subseteq 1..attempt'
        BY <1>1, <1>2, <2>1 DEF TypeOK
      <3>3. countedFailures' \in 0..Budget
        BY <1>1, <2>1, <2>2
      <3> QED
        BY <2>2, <3>1, <3>2, <3>3 DEF DecisionOK
    <2>4. LocationInv' /\ LedgerInv' /\ WindowInv'
      BY <1>1, <1>2, <2>1, <2>2
         DEF LocationInv, GoesOn, LedgerInv, WindowInv,
             FreeRetryStartsInWindow
    <2> QED
      BY <1>1, <1>4, <1>5, <1>8, <2>1, <2>3, <2>4
  <1> QED
    BY <1>6, <1>7, <1>8 DEF HandleFailure, LimitHit

LEMMA StepPreserves == IInv /\ [Next]_vars => IInv'
  <1> SUFFICES ASSUME IInv, [Next]_vars PROVE IInv'
    OBVIOUS
  <1> USE DEF IInv
  <1>1. CASE StartAttempt
    <2>1. TypeOK'
      BY <1>1 DEF StartAttempt, costVars, StartHeartbeat, TypeOK, LocationInv, LedgerInv
    <2>2. LocationInv' /\ LedgerInv' /\ WindowInv'
      BY <1>1 DEF StartAttempt, costVars, StartHeartbeat, TypeOK, LocationInv, GoesOn, LedgerInv,
                  WindowInv, FreeRetryStartsInWindow
    <2>3. TaskInv' /\ UsageLimitIsFinal'
      BY <1>1 DEF StartAttempt, costVars, StartHeartbeat, TypeOK, LocationInv, TaskInv,
                  HeartbeatFollowsAttempt, UsageLimitIsFinal
    <2> QED
      BY <2>1, <2>2, <2>3
  <1>2. CASE OptionsRejected
    <2>1. TypeOK'
      BY <1>2 DEF OptionsRejected, costVars, TypeOK, LocationInv, LedgerInv
    <2>2. LocationInv' /\ LedgerInv' /\ WindowInv'
      BY <1>2 DEF OptionsRejected, costVars, TypeOK, LocationInv, GoesOn, LedgerInv,
                  WindowInv, FreeRetryStartsInWindow
    <2>3. TaskInv' /\ UsageLimitIsFinal'
      BY <1>2 DEF OptionsRejected, costVars, TypeOK, LocationInv, TaskInv,
                  HeartbeatFollowsAttempt, UsageLimitIsFinal
    <2> QED
      BY <2>1, <2>2, <2>3
  <1>3. CASE Succeed
    <2>1. /\ attempt >= 1 /\ attempt \in Nat /\ outcome = "none"
          /\ retry = "no" /\ ledger = <<>>
      BY <1>3 DEF Succeed, LocationInv, LedgerInv, TypeOK
    <2>2. ledger' \in Seq(1..attempt) /\ unrecorded' \subseteq 1..attempt
      BY <1>3, LedgerAfterRecord DEF Succeed
    <2>3. TypeOK'
      BY <1>3, <2>1, <2>2 DEF Succeed, CloseDebugLog, TypeOK
    <2>4. LedgerInv'
      BY <1>3, <2>1, FirstRecord DEF Succeed, LedgerInv
    <2>5. LocationInv' /\ WindowInv'
      BY <1>3, <2>1 DEF Succeed, LocationInv, GoesOn, WindowInv,
                        FreeRetryStartsInWindow
    <2>6. TaskInv' /\ UsageLimitIsFinal'
      BY <1>3, <2>1 DEF Succeed, TaskInv, HeartbeatFollowsAttempt,
                        UsageLimitIsFinal
    <2> QED
      BY <2>3, <2>4, <2>5, <2>6
  <1>4. CASE ConsumerFails
    BY <1>4, HandlerStep DEF ConsumerFails, TypeOK
  <1>5. CASE TimeoutFires
    <2>1. attempt \in 1..attempt
      BY <1>5 DEF TimeoutFires, LocationInv, TypeOK
    <2> QED
      BY <1>5, <2>1, HandlerStep DEF TimeoutFires, AbandonConsumer, TypeOK
  <1>6. CASE LeaveAttempt
    <2>1. ledger' \in Seq(1..attempt) /\ unrecorded' \subseteq 1..attempt
      BY <1>6, LedgerAfterRecord DEF LeaveAttempt, costVars, TypeOK
    <2>2. TypeOK'
      <3>1. /\ pc' \in Locations /\ timer' \in Nat
            /\ outcome' \in {outcome, "timeout", "error"}
            /\ beating' \subseteq beating
        BY <1>6 DEF LeaveAttempt, AwaitHeartbeat, TypeOK
      <3>2. UNCHANGED <<now, cancel, attempt, retry, backoff, countedFailures,
                        networkDeadline, networkBackoff, failures, running,
                        cancelling, openLogs, keptLogs, reported>>
        BY <1>6 DEF LeaveAttempt
      <3> QED
        BY <2>1, <3>1, <3>2 DEF TypeOK
    <2>3. LedgerInv'
      <3>1. CASE outcome = "none" /\ retry = "no" /\ RecordCost(attempt)
        BY <1>6, <3>1, FirstRecord DEF LeaveAttempt, LedgerInv
      <3>2. CASE UNCHANGED <<outcome, costVars>>
        BY <1>6, <3>2 DEF LeaveAttempt, costVars, LedgerInv
      <3> QED
        BY <1>6, <3>1, <3>2 DEF LeaveAttempt
    <2>4. LocationInv' /\ WindowInv'
      BY <1>6 DEF LeaveAttempt, TypeOK, LocationInv, GoesOn,
                  WindowInv, FreeRetryStartsInWindow
    <2>5. TaskInv' /\ UsageLimitIsFinal'
      BY <1>6 DEF LeaveAttempt, AwaitHeartbeat, TypeOK, LocationInv, TaskInv,
                  HeartbeatFollowsAttempt, UsageLimitIsFinal
    <2> QED
      BY <2>2, <2>3, <2>4, <2>5
  <1>7. CASE WakeUp
    BY <1>7 DEF WakeUp, costVars, callVars, taskVars, TypeOK, LocationInv, GoesOn,
                TaskInv, HeartbeatFollowsAttempt, WindowInv,
                FreeRetryStartsInWindow, UsageLimitIsFinal, LedgerInv
  <1>8. CASE Tick
    BY <1>8 DEF Tick, costVars, callVars, taskVars, TypeOK, LocationInv, GoesOn,
                TaskInv, HeartbeatFollowsAttempt, WindowInv,
                FreeRetryStartsInWindow, UsageLimitIsFinal, LedgerInv
  <1>9. CASE Cancel
    <2>1. TypeOK'
      BY <1>9 DEF Cancel, costVars, CloseDebugLog, TypeOK
    <2>2. LocationInv' /\ LedgerInv' /\ WindowInv'
      BY <1>9 DEF Cancel, costVars, TypeOK, LocationInv, GoesOn, LedgerInv, WindowInv,
                  FreeRetryStartsInWindow
    <2>3. TaskInv' /\ UsageLimitIsFinal'
      BY <1>9 DEF Cancel, costVars, TypeOK, LocationInv, TaskInv,
                  HeartbeatFollowsAttempt, UsageLimitIsFinal
    <2> QED
      BY <2>1, <2>2, <2>3
  <1>10. CASE UsageReported
    BY <1>10 DEF UsageReported, costVars, callVars, TypeOK, LocationInv, GoesOn,
                 TaskInv, HeartbeatFollowsAttempt, WindowInv,
                 FreeRetryStartsInWindow, UsageLimitIsFinal, LedgerInv
  <1>11. CASE AbandonedTaskEnds
    BY <1>11 DEF AbandonedTaskEnds, costVars, callVars, TypeOK, LocationInv, GoesOn,
                 TaskInv, HeartbeatFollowsAttempt, WindowInv,
                 FreeRetryStartsInWindow, UsageLimitIsFinal, LedgerInv
  <1>12. CASE UNCHANGED vars
    BY <1>12 DEF vars, costVars, callVars, taskVars, TypeOK, LocationInv, GoesOn,
                 TaskInv, HeartbeatFollowsAttempt, WindowInv,
                 FreeRetryStartsInWindow, UsageLimitIsFinal, LedgerInv
  <1> QED
    BY <1>1, <1>2, <1>3, <1>4, <1>5, <1>6, <1>7, <1>8, <1>9, <1>10, <1>11,
       <1>12 DEF Next

LEMMA Invariance == Spec => []IInv
  BY InitEstablishes, StepPreserves, PTL DEF Spec

-----------------------------------------------------------------------------

\* Every variable keeps its type (TypeOK), for any number of attempts and any
\* times.
THEOREM TypeCorrect == Spec => []TypeOK
  BY Invariance, PTL DEF IInv

\* A usage limit ends the call: it is never retried.
THEOREM LimitNeverRetried == Spec => []UsageLimitIsFinal
  BY Invariance, PTL DEF IInv

\* A free retry never waits past the network window.
THEOREM FreeRetryInWindow == Spec => []FreeRetryStartsInWindow
  BY Invariance, PTL DEF IInv, WindowInv

\* No heartbeat outlives its attempt.
THEOREM HeartbeatOrdered == Spec => []HeartbeatFollowsAttempt
  BY Invariance, PTL DEF IInv, TaskInv

\* Wedged tasks or not, at most one consumer is running uncancelled.
THEOREM NoCompetingConsumer == Spec => []OneLiveConsumer
  <1>1. TypeOK /\ TaskInv => OneLiveConsumer
    <2> SUFFICES ASSUME TypeOK, TaskInv PROVE Cardinality(running) <= 1
      BY DEF OneLiveConsumer
    <2>1. running \subseteq {attempt}
      BY DEF TaskInv
    <2>2. running = {} \/ running = {attempt}
      BY <2>1
    <2>3. Cardinality({}) = 0 /\ Cardinality({attempt}) = 1
      BY FS_EmptySet, FS_Singleton
    <2> QED
      BY <2>2, <2>3
  <1> QED
    BY <1>1, Invariance, PTL DEF IInv

\* The ledger has the usage of the last attempt or nothing, and nothing only
\* when that attempt reported none or its append failed.
THEOREM FinalAttemptRecorded == Spec => []LedgerHoldsFinalAttempt
  <1>1. TypeOK /\ LedgerInv => LedgerHoldsFinalAttempt
    BY DEF TypeOK, LedgerInv, LedgerHoldsFinalAttempt
  <1> QED
    BY <1>1, Invariance, PTL DEF IInv

-----------------------------------------------------------------------------
(* The budget.  A failure that is not a connection error has been counted, *)
(* but for the usage limit that stopped the call.                          *)

HardInv ==
    /\ IsFiniteSet(HardFailures)
    /\ \/ Cardinality(HardFailures) <= countedFailures
       \/ /\ outcome = "limit" /\ countedFailures < Budget
          /\ Cardinality(HardFailures) <= countedFailures + 1

LEMMA HardHandlerStep ==
    ASSUME IInv, HardInv, NEW kind \in Kinds, pc = "consuming",
           HandleFailure(kind)
    PROVE  HardInv'
  <1>1. /\ outcome = "none" /\ countedFailures \in Nat
        /\ countedFailures < Budget
    BY DEF IInv, TypeOK, LocationInv, GoesOn
  <1>2. /\ IsFiniteSet(HardFailures)
        /\ Cardinality(HardFailures) <= countedFailures
        /\ Cardinality(HardFailures) \in Nat
    BY <1>1, FS_CardinalityType DEF HardInv
  <1>3. failures' = failures \cup {<<attempt, kind>>}
    BY DEF HandleFailure
  <1>4. CASE kind = "network"
    <2>1. HardFailures' = HardFailures
      BY <1>3, <1>4 DEF HardFailures
    <2>2. countedFailures' \in {countedFailures, countedFailures + 1}
      BY <1>4 DEF HandleFailure, LimitHit, RetryForFree, CountFailure
    <2> QED
      BY <1>1, <1>2, <2>1, <2>2 DEF HardInv
  <1>5. CASE kind # "network"
    <2>1. HardFailures' = HardFailures \cup {<<attempt, kind>>}
      BY <1>3, <1>5 DEF HardFailures
    <2>2. /\ IsFiniteSet(HardFailures')
          /\ Cardinality(HardFailures') <= Cardinality(HardFailures) + 1
          /\ Cardinality(HardFailures') \in Nat
      <3>1. /\ IsFiniteSet(HardFailures \cup {<<attempt, kind>>})
            /\ \/ Cardinality(HardFailures \cup {<<attempt, kind>>})
                      = Cardinality(HardFailures)
               \/ Cardinality(HardFailures \cup {<<attempt, kind>>})
                      = Cardinality(HardFailures) + 1
        BY <1>2, FS_AddElement
      <3> QED
        BY <1>2, <2>1, <3>1
    <2>3. \/ countedFailures' = countedFailures + 1
          \/ outcome' = "limit" /\ countedFailures' = countedFailures
      BY <1>5 DEF HandleFailure, StopAtLimit, CountFailure
    <2> QED
      BY <1>1, <1>2, <2>2, <2>3 DEF HardInv
  <1> QED
    BY <1>4, <1>5

\* Failures other than connection errors never exceed max_attempts.
THEOREM BudgetHolds == Spec => []HardFailuresBounded
  <1>1. Init => HardInv
    <2> SUFFICES ASSUME Init PROVE HardInv
      OBVIOUS
    <2>1. HardFailures = {} /\ countedFailures = 0
      BY DEF Init, HardFailures
    <2> QED
      BY <2>1, FS_EmptySet DEF HardInv
  <1>2. IInv /\ HardInv /\ [Next]_vars => HardInv'
    <2> SUFFICES ASSUME IInv, HardInv, [Next]_vars PROVE HardInv'
      OBVIOUS
    <2>1. CASE ConsumerFails
      BY <2>1, HardHandlerStep DEF ConsumerFails
    <2>2. CASE TimeoutFires
      BY <2>2, HardHandlerStep DEF TimeoutFires
    <2>3. ASSUME UNCHANGED <<failures, countedFailures>>,
                 outcome' = outcome \/ outcome = "none"
          PROVE  HardInv'
      BY <2>3 DEF HardInv, HardFailures
    <2>4. CASE StartAttempt \/ OptionsRejected \/ Succeed
      BY <2>3, <2>4 DEF StartAttempt, StartHeartbeat, OptionsRejected, Succeed, IInv,
                        LocationInv
    <2>5. CASE LeaveAttempt \/ WakeUp \/ Tick \/ UNCHANGED vars
      BY <2>3, <2>5 DEF LeaveAttempt, WakeUp, Tick, vars, callVars
    <2>6. CASE Cancel \/ UsageReported \/ AbandonedTaskEnds
      BY <2>3, <2>6 DEF Cancel, UsageReported, AbandonedTaskEnds, callVars,
                        IInv, LocationInv
    <2> QED
      BY <2>1, <2>2, <2>4, <2>5, <2>6 DEF Next
  <1>3. IInv /\ HardInv => HardFailuresBounded
    <2> SUFFICES ASSUME IInv, HardInv PROVE Cardinality(HardFailures) <= Budget
      BY DEF HardFailuresBounded
    <2>1. countedFailures \in Nat /\ countedFailures <= Budget
      BY DEF IInv, TypeOK
    <2>2. Cardinality(HardFailures) \in Nat
      BY FS_CardinalityType DEF HardInv
    <2> QED
      BY <2>1, <2>2 DEF HardInv
  <1> QED
    BY <1>1, <1>2, <1>3, Invariance, PTL DEF Spec

-----------------------------------------------------------------------------
(* The retry contract.                                                     *)

\* A free retry finds the window open or unopened, and leaves it open.
LEMMA FreeRetryWindow ==
    ASSUME now \in Nat, networkDeadline \in Nat \cup {NoDeadline},
           InWindow, RetryForFree, now' = now
    PROVE  policyWindow # "closed" /\ policyWindow' = "open"
  <1>1. Deadline \in Nat /\ now < Deadline /\ networkDeadline' = Deadline
    BY DEF InWindow, RetryForFree, Deadline
  <1>2. networkDeadline = NoDeadline \/ networkDeadline = Deadline
    BY DEF Deadline
  <1>3. policyWindow # "closed"
    BY <1>1, <1>2 DEF policyWindow, WindowClosed
  <1>4. policyWindow' = "open"
    BY <1>1 DEF policyWindow, WindowClosed
  <1> QED
    BY <1>3, <1>4

\* The attempt loop implements RetryPolicy: every step of it is a step of the
\* contract or leaves the contract's state alone.
THEOREM ImplementsRetryPolicy == Spec => KeepsRetryPolicy
  <1> USE DEF policyStatus, policyWindow, WindowClosed
  <1>1. Init => Policy!Init
    BY DEF Init, Policy!Init
  <1>2. IInv /\ IInv' /\ [Next]_vars => [Policy!Next]_(Policy!vars)
    <2> SUFFICES ASSUME IInv, IInv', [Next]_vars
                 PROVE  Policy!Next \/ UNCHANGED Policy!vars
      OBVIOUS
    <2> USE DEF IInv, TypeOK, LocationInv, GoesOn, Policy!Next, Policy!vars
    <2>1. CASE StartAttempt
      BY <2>1 DEF StartAttempt, StartHeartbeat, Policy!Attempt
    <2>2. CASE OptionsRejected
      BY <2>2 DEF OptionsRejected, Policy!Stop
    <2>3. CASE Succeed
      BY <2>3 DEF Succeed, Policy!Succeed
    <2>4. ASSUME NEW kind \in Kinds, pc = "consuming", HandleFailure(kind)
          PROVE  Policy!Next
      <3>1. /\ pc' = "teardown" /\ now' = now /\ outcome = "none"
            /\ retry = "no" /\ countedFailures < Budget
        BY <2>4 DEF HandleFailure
      <3>2. CASE StopAtLimit
        BY <2>4, <3>1, <3>2 DEF StopAtLimit, Policy!Stop
      <3>3. CASE InWindow /\ RetryForFree
        <4>1. /\ policyWindow # "closed" /\ policyWindow' = "open"
          BY <3>1, <3>3, FreeRetryWindow DEF TypeOK
        <4>2. policyStatus = "attempting" /\ policyStatus' = "waiting"
          BY <2>4, <3>1, <3>3 DEF RetryForFree
        <4> QED
          BY <3>3, <4>1, <4>2 DEF RetryForFree, Policy!FailForFree
      <3>4. CASE CountFailure
        <4>1. /\ policyWindow' = policyWindow /\ policyStatus = "attempting"
              /\ countedFailures' = countedFailures + 1 /\ outcome' = "none"
          BY <2>4, <3>1, <3>4 DEF CountFailure
        <4>2. CASE MayRetry(countedFailures')
          <5>1. policyStatus' = "waiting" /\ countedFailures + 1 < Budget
            BY <3>1, <3>4, <4>1, <4>2 DEF CountFailure, MayRetry
          <5> QED
            BY <4>1, <5>1 DEF Policy!FailAndRetry
        <4>3. CASE ~MayRetry(countedFailures')
          <5>1. policyStatus' = "exhausted" /\ countedFailures + 1 = Budget
            BY <3>1, <3>4, <4>1, <4>3 DEF CountFailure, MayRetry
          <5> QED
            BY <4>1, <5>1 DEF Policy!FailForGood
        <4> QED
          BY <4>2, <4>3
      <3> QED
        BY <2>4, <3>2, <3>3, <3>4 DEF HandleFailure
    <2>5. CASE LeaveAttempt
      BY <2>5 DEF LeaveAttempt
    <2>6. CASE WakeUp
      BY <2>6 DEF WakeUp, callVars
    <2>7. CASE Tick
      <3>1. policyStatus' = policyStatus /\ countedFailures' = countedFailures
        BY <2>7 DEF Tick, callVars
      <3>2. /\ now' = now + 1 /\ networkDeadline' = networkDeadline
            /\ now \in Nat /\ networkDeadline \in Nat \cup {NoDeadline}
        BY <2>7 DEF Tick, callVars
      <3>3. \/ policyWindow' = policyWindow
            \/ policyWindow = "open" /\ policyWindow' = "closed"
        BY ONLY <3>2 DEF policyWindow, WindowClosed, NoDeadline
      <3> QED
        BY <3>1, <3>3 DEF Policy!CloseWindow
    <2>8. CASE Cancel
      BY <2>8 DEF Cancel, Policy!Stop
    <2>9. CASE UsageReported \/ AbandonedTaskEnds \/ UNCHANGED vars
      BY <2>9 DEF UsageReported, AbandonedTaskEnds, vars, callVars
    <2> QED
      BY <2>1, <2>2, <2>3, <2>4, <2>5, <2>6, <2>7, <2>8, <2>9
         DEF Next, ConsumerFails, TimeoutFires
  <1> QED
    BY <1>1, <1>2, Invariance, PTL DEF Spec, KeepsRetryPolicy, Policy!Spec
=============================================================================
