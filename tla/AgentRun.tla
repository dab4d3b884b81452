------------------------------ MODULE AgentRun ------------------------------
(***************************************************************************)
(* One call of run_agent (agent_runner.py) on the Claude Agent SDK: the    *)
(* attempt loop, hard_timeout (aio.py), the heartbeat task, the CLI debug  *)
(* log and the cost record.                                                *)
(*                                                                         *)
(* The call is a coroutine of a single-threaded event loop, so one action  *)
(* is the code between two awaits.  What else runs meanwhile is in the     *)
(* state too: the _consume tasks (the SDK and its CLI subprocess are       *)
(* external and may do nothing for ever), the heartbeat tasks, and a       *)
(* caller that may cancel the call.  Attempts are numbered from 1.         *)
(***************************************************************************)
EXTENDS Integers, Sequences, FiniteSets

CONSTANTS
    MaxAttempts,  \* max_attempts
    Timeout,      \* timeout_s, in ticks
    RetryBackoff, \* retry_backoff_s
    Window,       \* _NETWORK_RETRY_WINDOW_S
    FirstBackoff, \* _NETWORK_BACKOFF_FIRST_S
    MaxBackoff,   \* _NETWORK_BACKOFF_MAX_S
    KeepAfter     \* MULTIPLAI_SDK_DEBUG_KEEP_S; 0 keeps every log

ASSUME TimesAssumption ==
    /\ MaxAttempts \in Int
    /\ Timeout \in Nat \ {0}
    /\ RetryBackoff \in Nat
    /\ Window \in Nat \ {0}
    /\ FirstBackoff \in Nat \ {0}
    /\ MaxBackoff \in Nat \ {0}
    /\ KeepAfter \in Nat

VARIABLES
    pc,               \* where the call is; see Locations
    now,              \* loop.time()
    timer,            \* when the wait the call is in runs out
    attempt,          \* attempts begun
    retry,            \* retry of this attempt, and which branch set it
    backoff,          \* backoff_s
    countedFailures,  \* counted_failures
    networkDeadline,  \* network_deadline, NoDeadline for None
    networkBackoff,   \* network_backoff_s
    outcome,          \* how the call ends, once an exit has been chosen
    cancel,           \* what became of a cancellation by the caller
    failures,         \* <<attempt, kind>> of every failed attempt
    running,          \* attempts whose _consume task nobody has cancelled
    cancelling,       \* attempts whose _consume task hard_timeout cancelled
    beating,          \* attempts whose heartbeat task is not done
    openLogs,         \* attempts whose debug log is open
    keptLogs,         \* attempts whose debug log was closed and kept
    reported,         \* attempts whose CLI reported its usage (ResultMessage)
    ledger,           \* attempts whose usage was appended to the cost ledger
    unrecorded        \* attempts whose append failed: logged, then ignored

callVars == <<attempt, retry, backoff, countedFailures, networkDeadline,
              networkBackoff, outcome, failures>>
taskVars == <<running, cancelling, beating, openLogs, keptLogs, reported>>
costVars == <<ledger, unrecorded>>
vars == <<pc, now, timer, cancel, costVars, callVars, taskVars>>

Locations == {"opening", "consuming", "teardown", "backoff", "ended"}
Kinds == {"timeout", "network", "limit", "other"}
NoDeadline == -1
Budget == IF MaxAttempts > 1 THEN MaxAttempts ELSE 1

Least(a, b) == IF a < b THEN a ELSE b

TypeOK ==
    /\ pc \in Locations
    /\ now \in Nat /\ timer \in Nat /\ attempt \in Nat
    /\ retry \in {"no", "free", "counted"}
    /\ backoff \in Nat
    /\ countedFailures \in 0..Budget
    /\ networkDeadline \in Nat \cup {NoDeadline}
    /\ networkBackoff \in Nat \ {0}
    /\ outcome \in {"none", "result", "timeout", "error", "limit",
                    "cancelled", "rejected"}
    /\ cancel \in {"none", "delivered", "swallowed"}
    /\ failures \subseteq (1..attempt) \X Kinds
    /\ running \subseteq 1..attempt /\ cancelling \subseteq 1..attempt
    /\ beating \subseteq 1..attempt
    /\ openLogs \subseteq 1..attempt /\ keptLogs \subseteq 1..attempt
    /\ reported \subseteq 1..attempt
    /\ ledger \in Seq(1..attempt)
    /\ unrecorded \subseteq 1..attempt

Init ==
    /\ pc = "opening"
    /\ now = 0 /\ timer = 0 /\ attempt = 0
    /\ retry = "no" /\ backoff = 0
    /\ countedFailures = 0
    /\ networkDeadline = NoDeadline /\ networkBackoff = FirstBackoff
    /\ outcome = "none" /\ cancel = "none"
    /\ failures = {}
    /\ running = {} /\ cancelling = {} /\ beating = {}
    /\ openLogs = {} /\ keptLogs = {}
    /\ reported = {}
    /\ ledger = <<>> /\ unrecorded = {}

-----------------------------------------------------------------------------
(* Helpers of the exception handler and of its finally block, each preceded *)
(* by the mistakes in it that the properties below must catch.             *)

\* _record_cost: one record, only when the attempt's usage is not all zero.  A
\* failed append leaves a warning in the log and no record, and is not raised.
RecordCost(a) ==
    \/ a \notin reported /\ UNCHANGED costVars
    \/ /\ a \in reported
       /\ ledger' = Append(ledger, a)
       /\ UNCHANGED unrecorded
    \/ /\ a \in reported
       /\ unrecorded' = unrecorded \cup {a}
       /\ UNCHANGED ledger

\* Whether finally keeps the closed log, for an attempt that succeeded or not.
KeepLog(ok) ==
    ~ok \/ KeepAfter = 0 \/ now - (timer - Timeout) >= KeepAfter

\* debug_log.close(keep=...), in finally.
CloseDebugLog(ok) ==
    /\ openLogs' = openLogs \ {attempt}
    /\ keptLogs' = keptLogs \cup (IF KeepLog(ok) THEN openLogs \cap {attempt}
                                                ELSE {})

\* Await the heartbeat, cancelled by finally.
AwaitHeartbeatMutant == beating' = beating
AwaitHeartbeat == beating' = beating \ {attempt}

\* hard_timeout gives the task up: cancelled, never awaited.
AbandonConsumerMutant == UNCHANGED <<running, cancelling>>
AbandonConsumer ==
    /\ running' = running \ {attempt}
    /\ cancelling' = cancelling \cup {attempt}

\* The end of the network window once this failure has opened it.
DeadlineMutant == now + Window
Deadline == IF networkDeadline = NoDeadline THEN now + Window
                                            ELSE networkDeadline

\* left > 0.
InWindow == now < Deadline

NetworkWait == Least(networkBackoff, Deadline - now)

MayRetryMutant(counted) == counted <= MaxAttempts
MayRetry(counted) == counted < MaxAttempts

LimitHitMutant(kind) == kind = "limit" /\ ~MayRetry(countedFailures + 1)
LimitHit(kind) == kind = "limit"

-----------------------------------------------------------------------------
(* The attempt loop.                                                       *)

\* The heartbeat task of an attempt; a heartbeat_s of 0 means none.
StartHeartbeat(a) == beating' \in {beating, beating \cup {a}}

\* The top of the loop down to the await of hard_timeout.  The debug log may
\* be off or fail to open, and the heartbeat may be disabled, per attempt.
StartAttempt ==
    /\ pc = "opening"
    /\ pc' = "consuming"
    /\ attempt' = attempt + 1
    /\ timer' = now + Timeout
    /\ retry' = "no" /\ backoff' = 0
    /\ running' = running \cup {attempt'}
    /\ StartHeartbeat(attempt')
    /\ openLogs' \in {openLogs, openLogs \cup {attempt'}}
    /\ UNCHANGED <<now, cancel, costVars, countedFailures, networkDeadline,
                   networkBackoff, outcome, failures, cancelling, keptLogs,
                   reported>>

\* ClaudeAgentOptions raises TypeError.  The options are the same at every
\* attempt, so this happens at the first one.  The log is open by then and
\* its close is in a finally block not yet entered.
OptionsRejected ==
    /\ pc = "opening" /\ attempt = 0
    /\ pc' = "ended"
    /\ outcome' = "rejected"
    /\ attempt' = 1
    /\ openLogs' \in {openLogs, openLogs \cup {1}}
    /\ UNCHANGED <<now, timer, retry, backoff, countedFailures,
                   networkDeadline, networkBackoff, cancel, costVars, failures,
                   running, cancelling, beating, keptLogs, reported>>

\* _consume reaches the end of the stream before the deadline.
Succeed ==
    /\ pc = "consuming"
    /\ attempt \in running
    /\ pc' = "teardown"
    /\ running' = running \ {attempt}
    /\ outcome' = "result"
    /\ RecordCost(attempt)
    /\ CloseDebugLog(TRUE)
    /\ UNCHANGED <<now, timer, attempt, retry, backoff, countedFailures,
                   networkDeadline, networkBackoff, cancel, failures,
                   cancelling, beating, reported>>

\* A usage limit is raised from inside the attempt, its cost recorded first.
StopAtLimitMutant ==
    /\ outcome' = "limit"
    /\ UNCHANGED <<costVars, retry, backoff, countedFailures, networkDeadline,
                   networkBackoff>>
StopAtLimit ==
    /\ outcome' = "limit"
    /\ RecordCost(attempt)
    /\ UNCHANGED <<retry, backoff, countedFailures, networkDeadline,
                   networkBackoff>>

\* A network error inside the window: retried without counting.
RetryForFree ==
    /\ networkDeadline' = Deadline
    /\ backoff' = NetworkWait
    /\ networkBackoff' = Least(networkBackoff * 2, MaxBackoff)
    /\ retry' = "free"
    /\ UNCHANGED <<countedFailures, outcome, costVars>>

\* Any other failure counts, and is retried while the budget lasts.
CountFailure ==
    /\ countedFailures' = countedFailures + 1
    /\ IF MayRetry(countedFailures')
       THEN retry' = "counted" /\ backoff' = RetryBackoff
       ELSE UNCHANGED <<retry, backoff>>
    /\ UNCHANGED <<networkDeadline, networkBackoff, outcome, costVars>>

\* except Exception, down to the await in finally.
HandleFailure(kind) ==
    /\ pc' = "teardown"
    /\ failures' = failures \cup {<<attempt, kind>>}
    /\ \/ LimitHit(kind) /\ StopAtLimit
       \/ ~LimitHit(kind) /\ kind = "network" /\ InWindow /\ RetryForFree
       \/ /\ ~LimitHit(kind) /\ ~(kind = "network" /\ InWindow)
          /\ CountFailure
    /\ CloseDebugLog(FALSE)
    /\ UNCHANGED <<now, timer, attempt, cancel, beating, reported>>

\* _consume raises.  A TimeoutError of its own is a timeout like the other.
ConsumerFails ==
    \E kind \in Kinds :
        /\ pc = "consuming"
        /\ attempt \in running
        /\ running' = running \ {attempt}
        /\ HandleFailure(kind)
        /\ UNCHANGED cancelling

\* hard_timeout at its deadline.
TimeoutFiresMutant ==
    /\ pc = "consuming"
    /\ now = timer
    /\ attempt \notin running
    /\ HandleFailure("timeout")
    /\ UNCHANGED <<running, cancelling>>
TimeoutFires ==
    /\ pc = "consuming"
    /\ now = timer
    /\ AbandonConsumer
    /\ HandleFailure("timeout")

\* The heartbeat is gone.  Leave the attempt: return or raise what it chose,
\* wait before the next attempt, or give up.
LeaveAttempt ==
    /\ pc = "teardown"
    /\ AwaitHeartbeat
    /\ \/ /\ outcome # "none"
          /\ pc' = "ended"
          /\ UNCHANGED <<timer, outcome, costVars>>
       \/ /\ outcome = "none" /\ retry = "no"
          /\ pc' = "ended"
          /\ outcome' = IF <<attempt, "timeout">> \in failures
                        THEN "timeout" ELSE "error"
          /\ RecordCost(attempt)
          /\ UNCHANGED timer
       \/ /\ outcome = "none" /\ retry # "no"
          /\ pc' = IF backoff > 0 THEN "backoff" ELSE "opening"
          /\ timer' = now + backoff
          /\ UNCHANGED <<outcome, costVars>>
    /\ UNCHANGED <<now, cancel, attempt, retry, backoff, countedFailures,
                   networkDeadline, networkBackoff, failures, running,
                   cancelling, openLogs, keptLogs, reported>>

\* asyncio.sleep(backoff_s) is over.
WakeUp ==
    /\ pc = "backoff"
    /\ now = timer
    /\ pc' = "opening"
    /\ UNCHANGED <<now, timer, cancel, costVars, callVars, taskVars>>

\* Time passes while the call waits for its CLI or for the next attempt.
Tick ==
    /\ pc \in {"consuming", "backoff"}
    /\ now < timer
    /\ now' = now + 1
    /\ UNCHANGED <<pc, timer, cancel, costVars, callVars, taskVars>>

-----------------------------------------------------------------------------
(* The caller and the consumer tasks.                                      *)

\* The caller cancels the call, once, at one of its awaits.  In hard_timeout
\* asyncio.wait leaves the task it waits for alone; in finally the
\* suppress(CancelledError) around the heartbeat takes the cancellation for
\* the heartbeat's own.
Cancel ==
    /\ cancel = "none"
    /\ \/ /\ pc = "consuming"
          /\ pc' = "teardown"
          /\ outcome' = "cancelled" /\ cancel' = "delivered"
          /\ CloseDebugLog(FALSE)
       \/ /\ pc = "teardown" /\ attempt \in beating
          /\ cancel' = "swallowed"
          /\ UNCHANGED <<pc, outcome, openLogs, keptLogs>>
       \/ /\ pc = "backoff"
          /\ pc' = "ended"
          /\ outcome' = "cancelled" /\ cancel' = "delivered"
          /\ UNCHANGED <<openLogs, keptLogs>>
    /\ UNCHANGED <<now, timer, costVars, attempt, retry, backoff,
                   countedFailures, networkDeadline, networkBackoff, failures,
                   running, cancelling, beating, reported>>

\* A ResultMessage reaches a _consume task nobody has cancelled.
UsageReported ==
    /\ \E a \in running : reported' = reported \cup {a}
    /\ UNCHANGED <<pc, now, timer, cancel, costVars, callVars, running,
                   cancelling, beating, openLogs, keptLogs>>

\* A task the call no longer waits for comes to its end: a cancelled one when
\* its teardown is done, an abandoned one at the end of its stream.
AbandonedTaskEnds ==
    \E a \in cancelling \cup running :
        /\ pc # "consuming" \/ a # attempt
        /\ running' = running \ {a}
        /\ cancelling' = cancelling \ {a}
        /\ UNCHANGED <<pc, now, timer, cancel, costVars, callVars, beating,
                       openLogs, keptLogs, reported>>

Next ==
    \/ StartAttempt \/ OptionsRejected \/ Succeed \/ ConsumerFails
    \/ TimeoutFires \/ LeaveAttempt \/ WakeUp \/ Tick
    \/ Cancel \/ UsageReported \/ AbandonedTaskEnds

Spec == Init /\ [][Next]_vars

\* The event loop runs what is ready and fires timers that are due.  Nothing
\* is assumed of the SDK, its CLI or a cancelled task: they may hang for ever.
Fairness ==
    /\ WF_vars(StartAttempt) /\ WF_vars(Tick) /\ WF_vars(TimeoutFires)
    /\ WF_vars(LeaveAttempt) /\ WF_vars(WakeUp)

FairSpec == Spec /\ Fairness

-----------------------------------------------------------------------------
(* Properties.                                                             *)

\* Beyond the window: left <= 0.
WindowClosed == networkDeadline # NoDeadline /\ now >= networkDeadline

\* Failures that are not connection errors never exceed the attempts the
\* caller allowed, however many network retries lie between them
\* (counted_failures against max_attempts).
HardFailures == {f \in failures : f[2] # "network"}
HardFailuresBounded == Cardinality(HardFailures) <= Budget

\* The wait before a free retry never outlasts the window that grants it
\* (backoff_s = min(network_backoff_s, left)).
FreeRetryStartsInWindow ==
    pc = "backoff" /\ retry = "free" => timer <= networkDeadline

\* A usage limit is the last thing that happens to a call: no attempt follows
\* it and no other error is raised in its place.
UsageLimitIsFinal ==
    \A f \in failures :
        f[2] = "limit" =>
            f[1] = attempt /\ outcome = "limit" /\ pc \in {"teardown", "ended"}

\* The heartbeat of an attempt is gone before anything of the next one, the
\* backoff or the end of the call: no "alive" line reports a dead attempt.
HeartbeatFollowsAttempt ==
    /\ beating \subseteq {attempt}
    /\ pc \in {"opening", "backoff", "ended"} => beating = {}

\* However many attempts time out with their task wedged, at most one _consume
\* task is running uncancelled.  A cancelled task that is wedged may still run
\* beside the retry.
OneLiveConsumer == Cardinality(running) <= 1

\* A call records at most one attempt, its last, and only usage that attempt
\* reported: never twice, never before the attempts are over.  When it returns
\* or raises an agent error, reported usage of the last attempt is recorded, or
\* the append failed and was logged (_record_cost; the usage of the attempts
\* before the last is nowhere recorded).
LedgerHoldsFinalAttempt ==
    /\ ledger # <<>> => ledger = <<attempt>> /\ attempt \in reported
    /\ /\ pc = "ended" /\ outcome \in {"result", "timeout", "error", "limit"}
       /\ attempt \in reported \ unrecorded
       => ledger = <<attempt>>

\* The call ends, even when every CLI hangs and no cancelled task ever
\* finishes its teardown: hard_timeout returns control and the window closes.
CallReturns == <>(pc = "ended")

\* run_agent keeps the contract of RetryPolicy.
policyStatus ==
    CASE pc = "consuming" -> "attempting"
      [] outcome = "result" -> "succeeded"
      [] outcome \in {"limit", "cancelled", "rejected"} -> "stopped"
      [] outcome \in {"timeout", "error"} -> "exhausted"
      [] pc = "teardown" /\ outcome = "none" /\ retry = "no" -> "exhausted"
      [] OTHER -> "waiting"

policyWindow ==
    IF networkDeadline = NoDeadline THEN "unopened"
    ELSE IF WindowClosed THEN "closed" ELSE "open"

Policy == INSTANCE RetryPolicy WITH
    status <- policyStatus, used <- countedFailures, window <- policyWindow

\* Every behaviour of the attempt loop is one the retry contract allows.
KeepsRetryPolicy == Policy!Spec
=============================================================================
