----------------------------- MODULE SpendLedger -----------------------------
(***************************************************************************)
(* The spend ledger of one pipeline run (budget.py) and its checkpoint     *)
(* (checkpoint.py).  Concurrent asyncio tasks share the ledger: each calls *)
(* check, makes an agent call and records its usage.  record and check run *)
(* without an await, so each is one step; the other tasks run during the   *)
(* call.  The pipeline is external: it saves the ledger when it likes, is  *)
(* killed, and starts again from the checkpoint.                           *)
(*                                                                         *)
(* The four token counts are one number; by_label repeats the cost of      *)
(* by_stage.  usd is in millionths of a dollar, which is what to_state     *)
(* rounds a cost to; finer costs are not modelled.                         *)
(***************************************************************************)
EXTENDS Integers, FiniteSets

CONSTANTS
    Tasks,
    Stages,       \* stage labels
    NoLabel,      \* record without a label
    MaxUsd,       \* max_usd; 0 is no ceiling, like None
    MaxTokens,    \* max_tokens; 0 is no ceiling, like None
    WarnTenths,   \* warn_fraction, in tenths
    CallUsd,      \* bound: what one call costs
    CallTokens,   \* bound: the tokens of one call
    NoCheckpoint, \* no checkpoint, or one that cannot be read
    MaxCalls      \* bound: calls made, by all the processes

ASSUME SpendAssumption ==
    /\ IsFiniteSet(Tasks)
    /\ MaxUsd \in Nat /\ MaxTokens \in Nat /\ WarnTenths \in Nat
    /\ CallUsd \in Nat /\ CallTokens \in Nat /\ MaxCalls \in Nat

VARIABLES
    running,  \* whether the process is up
    task,     \* [task -> "idle", in a "calling", or "stopped" by the breaker]
    ledger,   \* the SpendLedger: its totals and its by_stage
    warned,   \* _warned
    saved,    \* the checkpoint
    restored, \* history: the totals this process started with
    made      \* history: calls made

vars == <<running, task, ledger, warned, saved, restored, made>>

Fields == {"calls", "tokens", "usd", "noUsage"}
Accounts == [Fields -> Nat]
EmptyStage == [f \in Fields |-> 0]
Ledgers == [total : Accounts, stage : [Stages -> Accounts]]
EmptyLedger == [total |-> EmptyStage, stage |-> [s \in Stages |-> EmptyStage]]

TypeOK ==
    /\ running \in BOOLEAN /\ warned \in BOOLEAN
    /\ task \in [Tasks -> {"idle", "calling", "stopped"}]
    /\ ledger \in Ledgers /\ saved \in Ledgers \cup {NoCheckpoint}
    /\ restored \in Accounts /\ made \in Nat

\* A checkpoint of an earlier release has the totals and no by_stage.
OldCheckpoints ==
    {[EmptyLedger EXCEPT !.total = a] :
         a \in [calls : {1}, tokens : 0..CallTokens, usd : 0..(2 * CallUsd),
                noUsage : {0}]}

Init ==
    /\ running = FALSE
    /\ task = [t \in Tasks |-> "idle"]
    /\ ledger = EmptyLedger /\ warned = FALSE
    /\ saved \in OldCheckpoints \cup {NoCheckpoint}
    /\ restored = EmptyStage /\ made = 0

-----------------------------------------------------------------------------
(* SpendLedger.                                                            *)

\* += of every field of a call's usage.  Mistake: = for the cost.
AddedMutant(account, use) == [account EXCEPT !.usd = use.usd, !.calls = @ + 1,
                                             !.tokens = @ + use.tokens]
Added(account, use) ==
    [f \in Fields |-> account[f] +
        CASE f = "calls"   -> 1
          [] f = "noUsage" -> IF use.tokens = 0 /\ use.usd = 0 THEN 1 ELSE 0
          [] OTHER         -> use[f]]

Recorded(use, label) ==
    IF label = NoLabel
    THEN [ledger EXCEPT !.total = Added(@, use)]
    ELSE [ledger EXCEPT !.total = Added(@, use), !.stage[label] = Added(@, use)]

\* A ceiling is spent.  Mistake: only once it is passed.
OverMutant ==
    \/ MaxUsd # 0 /\ ledger.total.usd > MaxUsd
    \/ MaxTokens # 0 /\ ledger.total.tokens > MaxTokens
Over ==
    \/ MaxUsd # 0 /\ ledger.total.usd >= MaxUsd
    \/ MaxTokens # 0 /\ ledger.total.tokens >= MaxTokens

\* fraction_used >= warn_fraction.
NearlySpent ==
    \/ MaxUsd # 0 /\ 10 * ledger.total.usd >= WarnTenths * MaxUsd
    \/ MaxTokens # 0 /\ 10 * ledger.total.tokens >= WarnTenths * MaxTokens

-----------------------------------------------------------------------------

\* budget.start, with load_model's checkpoint as its state.  Mistake:
\* the stages are left out of it.
LoadedMutant == IF saved = NoCheckpoint THEN EmptyLedger
                ELSE [EmptyLedger EXCEPT !.total = saved.total]
Loaded == IF saved = NoCheckpoint THEN EmptyLedger ELSE saved

Start ==
    /\ ~running
    /\ running' = TRUE
    /\ ledger' = Loaded
    /\ warned' = FALSE
    /\ restored' = Loaded.total
    /\ UNCHANGED <<task, saved, made>>

\* check raises: the task ends.
Stopped(t) ==
    /\ running /\ task[t] = "idle"
    /\ Over
    /\ task' = [task EXCEPT ![t] = "stopped"]
    /\ UNCHANGED <<running, ledger, warned, saved, restored, made>>

\* check returns, with a warning or without, and the task makes a call.
Call(t) ==
    /\ running /\ task[t] = "idle" /\ made < MaxCalls
    /\ ~Over
    /\ task' = [task EXCEPT ![t] = "calling"]
    /\ warned' = (warned \/ NearlySpent)
    /\ made' = made + 1
    /\ UNCHANGED <<running, ledger, saved, restored>>

\* The call returns and record adds its usage.  A usage that cannot be read
\* fails before anything is added.
Record(t) ==
    /\ running /\ task[t] = "calling"
    /\ task' = [task EXCEPT ![t] = "idle"]
    /\ \/ \E use \in [tokens : 0..CallTokens, usd : 0..CallUsd],
             label \in Stages \cup {NoLabel} : ledger' = Recorded(use, label)
       \/ UNCHANGED ledger
    /\ UNCHANGED <<running, warned, saved, restored, made>>

\* save_model: a temporary file, then os.replace.
Save ==
    /\ running
    /\ saved' = ledger
    /\ UNCHANGED <<running, task, ledger, warned, restored, made>>

\* The process ends or is killed, with its calls.
Killed ==
    /\ running
    /\ running' = FALSE
    /\ task' = [t \in Tasks |-> "idle"]
    /\ UNCHANGED <<ledger, warned, saved, restored, made>>

Next ==
    \/ Start \/ Save \/ Killed
    \/ \E t \in Tasks : Stopped(t) \/ Call(t) \/ Record(t)

Spec == Init /\ [][Next]_vars

-----------------------------------------------------------------------------
(* Properties.                                                             *)

Larger(a, b) == IF a > b THEN a ELSE b

\* However many tasks run at once, a run ends up over a ceiling by less than
\* one call of each of them, on top of what it was restored with: check comes
\* before each call, and each call is recorded before its task's next check.
OvershootBounded ==
    /\ MaxUsd # 0 /\ running =>
           ledger.total.usd <= Larger(restored.usd, MaxUsd - 1)
                               + CallUsd * Cardinality(Tasks)
    /\ MaxTokens # 0 /\ running =>
           ledger.total.tokens <= Larger(restored.tokens, MaxTokens - 1)
                                  + CallTokens * Cardinality(Tasks)

\* "A resumed run does not get a fresh budget": what a checkpoint held is in
\* the ledger of every process after it, total and stage by stage.
CheckpointIsRestored ==
    running /\ saved # NoCheckpoint =>
        \A f \in Fields :
            /\ saved.total[f] <= ledger.total[f]
            /\ \A s \in Stages : saved.stage[s][f] <= ledger.stage[s][f]

\* Once the breaker has stopped a task, no task of the process begins a call.
BreakerIsFinal ==
    [][running /\ (\E t \in Tasks : task[t] = "stopped") => made' = made]_vars
=============================================================================
