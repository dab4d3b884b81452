-------------------------------- MODULE PiRun --------------------------------
(***************************************************************************)
(* One call of run_pi_agent (pi/backend.py): the attempt loop, supervise   *)
(* and its _drive task, the abort written to Pi, and the closing of the    *)
(* transport (pi/rpc.py).  Pi itself is external: it may answer anything   *)
(* its protocol has, stop reading stdin, exit, or say nothing for ever.    *)
(*                                                                         *)
(* The clock is that of the attempt: it starts when supervise does.        *)
(***************************************************************************)
EXTENDS Integers, FiniteSets

CONSTANTS
    MaxAttempts, \* max_attempts
    MaxTurns,    \* max_turns; 0 for no bound
    Timeout,     \* timeout_s, in ticks
    AbortWrite,  \* ABORT_WRITE_TIMEOUT_S
    AbortGrace,  \* ABORT_GRACE_S
    EventBound   \* bound: turn ends Pi sends in one attempt

ASSUME PiTimesAssumption ==
    /\ MaxAttempts \in Int /\ MaxTurns \in Nat /\ EventBound \in Nat
    /\ Timeout \in Nat \ {0} /\ AbortWrite \in Nat \ {0}
    /\ AbortGrace \in Nat \ {0}

VARIABLES
    pc,          \* where the call is; see Locations
    attempt,     \* the index of the attempt, from 0
    clock,       \* loop.time() since supervise began
    driver,      \* where the _drive task of the attempt is
    timer,       \* when the wait the driver or the final abort is in runs out
    process,     \* the pi process of the attempt
    out,         \* PiRunOutcome
    last,        \* class of the last failure (last)
    outcome,     \* how the call ends, once chosen
    cancel,      \* what became of a cancellation by the caller
    consumed,    \* attempts in which Pi reported the usage of a message
    ledger,      \* attempts whose usage was appended to the cost ledger
    unbilled,    \* attempts whose append failed: logged, then ignored
    met          \* what the process of the attempt did, as a history

costVars == <<ledger, unbilled>>
vars == <<pc, attempt, clock, driver, timer, process, out, last, outcome,
          cancel, consumed, costVars, met>>

Locations == {"opening", "supervising", "aborting", "closing", "draining",
              "classifying", "sleeping", "ended"}
DriverStates == {"none", "prompting", "reading", "aborting", "grace", "done",
                 "cancelled", "abandoned"}
\* What may be met in an attempt: Pi settles, rejects the prompt, has its last
\* model call fail, comes to max_turns, or is gone when it is written to.
Meetings == {"settled", "rejected", "failed", "bound", "gone"}
Budget == IF MaxAttempts > 1 THEN MaxAttempts ELSE 1

Outcomes == [turns : 0..EventBound, settled : BOOLEAN, pipeError : BOOLEAN,
             rejected : BOOLEAN, abortedReason : {"", "max_turns", "timeout"},
             finalError : BOOLEAN]
FreshOutcome == [turns |-> 0, settled |-> FALSE, pipeError |-> FALSE,
                 rejected |-> FALSE, abortedReason |-> "",
                 finalError |-> FALSE]

TypeOK ==
    /\ pc \in Locations
    /\ attempt \in 0..(Budget - 1)
    /\ clock \in Nat /\ timer \in Nat
    /\ driver \in DriverStates
    /\ process \in {"none", "alive", "exited"}
    /\ out \in Outcomes
    /\ last \in {"none", "timeout", "error"}
    /\ outcome \in {"none", "result", "timeout", "error", "cancelled"}
    /\ cancel \in {"none", "delivered", "swallowed", "unreaped"}
    /\ consumed \subseteq 0..attempt
    /\ ledger \subseteq 0..attempt /\ unbilled \subseteq 0..attempt
    /\ met \subseteq Meetings

Init ==
    /\ pc = "opening"
    /\ attempt = 0 /\ clock = 0 /\ timer = 0
    /\ driver = "none" /\ process = "none"
    /\ out = FreshOutcome
    /\ last = "none" /\ outcome = "none" /\ cancel = "none"
    /\ consumed = {} /\ ledger = {} /\ unbilled = {}
    /\ met = {}

-----------------------------------------------------------------------------
(* The attempt loop of run_pi_agent.                                       *)

\* A failed attempt: the next one after a sleep, or the last error raised.
MoreAttemptsMutant == attempt < Budget
MoreAttempts == attempt + 1 < Budget

FailAttempt(class) ==
    /\ last' = class
    /\ IF MoreAttempts
       THEN pc' = "sleeping" /\ attempt' = attempt + 1 /\ UNCHANGED outcome
       ELSE pc' = "ended" /\ outcome' = class /\ UNCHANGED attempt

\* _open_transport raises: pi is not on PATH or cannot be started.
SpawnFails ==
    /\ pc = "opening"
    /\ FailAttempt("error")
    /\ UNCHANGED <<clock, driver, timer, process, out, cancel,
                   consumed, costVars, met>>

\* The process starts, and with it the task that drains its stderr.
Spawn == process' = "alive" /\ met' = {}

\* _open_transport, then supervise down to the await of hard_timeout.
StartSupervising ==
    /\ pc = "opening"
    /\ pc' = "supervising"
    /\ Spawn
    /\ driver' = "prompting"
    /\ clock' = 0 /\ timer' = 0
    /\ out' = FreshOutcome
    /\ UNCHANGED <<attempt, last, outcome, cancel, consumed, costVars>>

\* The sleep before a retry is over.
NextAttempt ==
    /\ pc = "sleeping"
    /\ pc' = "opening"
    /\ UNCHANGED <<attempt, clock, driver, timer, process, out, last, outcome,
                   cancel, consumed, costVars, met>>

-----------------------------------------------------------------------------
(* The _drive task.  A task that has been cancelled takes no more steps of *)
(* these: CancelledError reaches it at its next one.                       *)

Driving(state) == pc = "supervising" /\ driver = state

\* What a step of _drive leaves alone in the call that waits for it.
CallUnchanged ==
    UNCHANGED <<pc, attempt, clock, last, outcome, cancel, costVars>>

\* The prompt is written, or Pi has exited and the write fails.
PromptWritten ==
    /\ Driving("prompting")
    /\ driver' = "reading"
    /\ CallUnchanged /\ UNCHANGED <<timer, process, out, consumed, met>>

PromptWriteFails ==
    /\ Driving("prompting")
    /\ driver' = "done"
    /\ process' = "exited"
    /\ out' = [out EXCEPT !.pipeError = TRUE]
    /\ met' = met \cup {"gone"}
    /\ CallUnchanged /\ UNCHANGED <<timer, consumed>>

\* What Pi wrote before it exited is still read, an unterminated last line too
\* (LineFramer.flush).
Reading == Driving("reading") \/ Driving("grace")

\* turn_end.  The first one to reach max_turns starts writing an abort.
ReachesBound(turns) == MaxTurns > 0 /\ turns >= MaxTurns

TurnEnds ==
    LET turns == out.turns + 1
    IN  /\ Reading
        /\ turns <= EventBound
        /\ IF driver = "reading" /\ ReachesBound(turns)
           THEN /\ out' = [out EXCEPT !.turns = turns,
                                      !.abortedReason = "max_turns"]
                /\ driver' = "aborting"
                /\ timer' = clock + AbortWrite
                /\ met' = met \cup {"bound"}
           ELSE /\ out' = [out EXCEPT !.turns = turns]
                /\ UNCHANGED <<driver, timer, met>>
        /\ CallUnchanged /\ UNCHANGED <<process, consumed>>

\* Whether the last assistant message says that the model call failed.
FinalError(failed) == out' = [out EXCEPT !.finalError = failed]

\* message_end of an assistant message: its usage counts.
AssistantMessageEnds ==
    \E failed \in BOOLEAN :
        /\ Reading
        /\ FinalError(failed)
        /\ met' = IF failed THEN met \cup {"failed"} ELSE met \ {"failed"}
        /\ consumed' = consumed \cup {attempt}
        /\ CallUnchanged /\ UNCHANGED <<driver, timer, process>>

\* agent_settled, or a prompt some extension handled: nothing more will come.
PiSettles ==
    /\ Reading
    /\ driver' = "done"
    /\ out' = [out EXCEPT !.settled = TRUE]
    /\ met' = met \cup {"settled"}
    /\ CallUnchanged /\ UNCHANGED <<timer, process, consumed>>

\* A response to prompt with success: false.
PiRejectsPrompt ==
    /\ Reading
    /\ driver' = "done"
    /\ out' = [out EXCEPT !.rejected = TRUE]
    /\ met' = met \cup {"rejected"}
    /\ CallUnchanged /\ UNCHANGED <<timer, process, consumed>>

\* Pi exits at any time; a reader then comes to the end of the stream.
PiExits ==
    /\ process = "alive"
    /\ process' = "exited"
    /\ UNCHANGED <<pc, attempt, clock, driver, timer, out, last, outcome,
                   cancel, consumed, costVars, met>>

StreamEnds ==
    /\ Reading
    /\ process = "exited"
    /\ driver' = "done"
    /\ CallUnchanged /\ UNCHANGED <<timer, process, out, consumed, met>>

\* The abort of _send_abort: written, though maybe to nobody, given up after
\* AbortWrite, or failed because Pi has exited.
AbortSent ==
    \/ UNCHANGED <<out, met>>
    \/ /\ process = "exited"
       /\ out' = [out EXCEPT !.pipeError = TRUE]
       /\ met' = met \cup {"gone"}

\* _send_abort at max_turns: whatever came of it, the driver reads on for the
\* grace period.
DriverAbortEnds ==
    /\ Driving("aborting")
    /\ driver' = "grace"
    /\ timer' = clock + AbortGrace
    /\ AbortSent
    /\ CallUnchanged /\ UNCHANGED <<process, consumed>>

GraceEnds ==
    /\ Driving("grace")
    /\ clock >= timer
    /\ driver' = "done"
    /\ CallUnchanged /\ UNCHANGED <<timer, process, out, consumed, met>>

-----------------------------------------------------------------------------
(* supervise, and what _attempt and run_pi_agent do with its result.       *)

SuperviseEnds ==
    /\ Driving("done")
    /\ pc' = "closing"
    /\ UNCHANGED <<attempt, clock, driver, timer, process, out, last, outcome,
                   cancel, consumed, costVars, met>>

\* aborted_reason of a run the wall clock has cut off, whatever it was before.
AbortedReasonMutant == IF out.abortedReason = "" THEN "timeout" ELSE out.abortedReason
AbortedReason == "timeout"

\* hard_timeout cuts the driver off, wherever it is, and the run is aborted.
CanCutOffMutant == driver \in {"reading", "grace"}
CanCutOff == driver # "done"

TimeoutFires ==
    /\ pc = "supervising" /\ CanCutOff
    /\ clock = Timeout
    /\ pc' = "aborting"
    /\ driver' = "cancelled"
    /\ out' = [out EXCEPT !.abortedReason = AbortedReason]
    /\ timer' = clock + AbortWrite
    /\ UNCHANGED <<attempt, clock, process, last, outcome, cancel, consumed,
                   costVars, met>>

\* The abort that follows a timeout: written, failed, or given up.
AfterAbortMutant == "classifying"
AfterAbort == "closing"

FinalAbortEnds ==
    /\ pc = "aborting"
    /\ pc' = AfterAbort
    /\ AbortSent
    /\ UNCHANGED <<attempt, clock, driver, timer, process, last, outcome,
                   cancel, consumed, costVars>>

\* SubprocessTransport.close waits for the process it has terminated, and
\* kills it when that takes too long; then for the stderr drain.
ProcessReaped ==
    /\ pc = "closing"
    /\ pc' = "draining"
    /\ process' = "exited"
    /\ UNCHANGED <<attempt, clock, driver, timer, out, last, outcome, cancel,
                   consumed, costVars, met>>

StderrDrained ==
    /\ pc = "draining"
    /\ pc' = IF outcome = "cancelled" THEN "ended" ELSE "classifying"
    /\ UNCHANGED <<attempt, clock, driver, timer, process, out, last, outcome,
                   cancel, consumed, costVars, met>>

\* Why an attempt with this outcome failed, "none" when it did not.
FailureClass(o) ==
    IF o.abortedReason = "timeout" THEN "timeout"
    ELSE IF \/ o.rejected
            \/ o.finalError
            \/ o.pipeError /\ ~o.settled
            \/ ~o.settled /\ o.abortedReason # "max_turns"
         THEN "error"
    ELSE "none"

\* _record_cost: nothing when the usage is all zero; a failed append leaves a
\* warning in the log and no record, and is not raised.
Bill ==
    \/ ledger' = ledger \cup {attempt} /\ UNCHANGED unbilled
    \/ unbilled' = unbilled \cup {attempt} /\ UNCHANGED ledger
RecordCostMutant ==
    \/ FailureClass(out) = "none" /\ attempt \in consumed /\ Bill
    \/ (FailureClass(out) # "none" \/ attempt \notin consumed) /\ UNCHANGED costVars
RecordCost ==
    \/ attempt \in consumed /\ Bill
    \/ attempt \notin consumed /\ UNCHANGED costVars

\* The attempt is billed and classified.

Classify ==
    /\ pc = "classifying"
    /\ RecordCost
    /\ IF FailureClass(out) = "none"
       THEN pc' = "ended" /\ outcome' = "result" /\ UNCHANGED <<last, attempt>>
       ELSE FailAttempt(FailureClass(out))
    /\ UNCHANGED <<clock, driver, timer, process, out, cancel, consumed, met>>

-----------------------------------------------------------------------------

\* The caller cancels the call, once.  hard_timeout leaves the driver running;
\* the finally of _attempt then closes the transport.  In close, a cancelled
\* wait for the process goes up without the kill, and a cancelled wait for the
\* stderr drain is taken for a timeout of that wait.
Cancel ==
    /\ cancel = "none"
    /\ \/ /\ pc \in {"supervising", "aborting"}
          /\ pc' = "closing"
          /\ driver' = IF driver \in {"done", "cancelled"} THEN driver
                                                         ELSE "abandoned"
          /\ outcome' = "cancelled" /\ cancel' = "delivered"
       \/ /\ \/ pc \in {"opening", "sleeping"} /\ cancel' = "delivered"
             \/ /\ pc = "closing" /\ process = "alive"
                /\ cancel' = "unreaped"
          /\ pc' = "ended"
          /\ outcome' = "cancelled"
          /\ UNCHANGED driver
       \/ /\ pc = "draining"
          /\ cancel' = "swallowed"
          /\ UNCHANGED <<pc, outcome, driver>>
    /\ UNCHANGED <<attempt, clock, timer, process, out, last, consumed, costVars,
                   met>>

\* The final abort is written under hard_timeout.
AbortStillTimedMutant == TRUE
AbortStillTimed == clock < timer

\* Time passes while supervise waits, up to the first timer that is due.
Tick ==
    /\ \/ /\ pc = "supervising" /\ driver # "done"
          /\ clock < Timeout
          /\ driver \in {"aborting", "grace"} => clock < timer
       \/ pc = "aborting" /\ AbortStillTimed
    /\ clock' = clock + 1
    /\ UNCHANGED <<pc, attempt, driver, timer, process, out, last, outcome,
                   cancel, consumed, costVars, met>>

Next ==
    \/ SpawnFails \/ StartSupervising \/ NextAttempt
    \/ PromptWritten \/ PromptWriteFails \/ TurnEnds \/ AssistantMessageEnds
    \/ PiSettles \/ PiRejectsPrompt \/ PiExits \/ StreamEnds
    \/ DriverAbortEnds \/ GraceEnds
    \/ SuperviseEnds \/ TimeoutFires \/ FinalAbortEnds
    \/ ProcessReaped \/ StderrDrained \/ Classify
    \/ Cancel \/ Tick

Spec == Init /\ [][Next]_vars

\* The event loop runs what is ready and fires timers that are due; the
\* operating system answers a spawn and reaps a process that was killed.
\* Nothing is assumed of Pi.
Fairness ==
    /\ WF_vars(StartSupervising \/ SpawnFails) /\ WF_vars(NextAttempt)
    /\ WF_vars(Tick) /\ WF_vars(TimeoutFires)
    /\ WF_vars(DriverAbortEnds) /\ WF_vars(GraceEnds)
    /\ WF_vars(SuperviseEnds) /\ WF_vars(FinalAbortEnds)
    /\ WF_vars(ProcessReaped) /\ WF_vars(StderrDrained) /\ WF_vars(Classify)

FairSpec == Spec /\ Fairness

-----------------------------------------------------------------------------
(* Properties.                                                             *)

\* An attempt that went well: the driver came to its end by itself, on a prompt
\* Pi took, with the last model call a success, and either Pi settled or the
\* run was stopped at max_turns with Pi still there to be told.
RunSucceeded ==
    /\ driver = "done"
    /\ "rejected" \notin met /\ "failed" \notin met
    /\ "settled" \in met \/ ("bound" \in met /\ "gone" \notin met)

\* The call returns a result only of an attempt that went well, by what the
\* process of that attempt did and not by what is left of an earlier one or of
\* a run that was cut off while it was being stopped at max_turns; and such an
\* attempt is never retried or reported as a failure.
ResultIffRunSucceeded ==
    /\ outcome = "result" => RunSucceeded
    /\ pc = "sleeping" \/ outcome \in {"timeout", "error"} => ~RunSucceeded

\* supervise returns within timeout_s plus ABORT_WRITE_TIMEOUT_S, whichever
\* write Pi leaves hanging (its docstring).
SuperviseReturnsInTime == clock <= Timeout + AbortWrite

\* No pi process outlives its attempt, also when the caller cancels, but for the
\* cancellation that hits the wait for its exit, which goes up without the kill.
NoProcessLeft ==
    pc \in {"opening", "sleeping", "ended"} /\ cancel # "unreaped"
        => process # "alive"

\* The usage of every attempt that ended is in the ledger, of failed and
\* retried attempts too, unless its append failed and was logged.
EveryAttemptBilled ==
    \A a \in consumed :
        a < attempt \/ outcome \in {"result", "timeout", "error"}
            => a \in ledger \cup unbilled

\* The call ends though Pi never answers, never reads and never exits.
CallReturns == <>(pc = "ended")

policyStatus ==
    CASE outcome = "result" -> "succeeded"
      [] outcome = "cancelled" -> "stopped"
      [] outcome \in {"timeout", "error"} -> "exhausted"
      [] pc = "sleeping" -> "waiting"
      [] OTHER -> "attempting"

policyUsed == IF policyStatus = "exhausted" THEN attempt + 1 ELSE attempt

Policy == INSTANCE RetryPolicy WITH
    status <- policyStatus, used <- policyUsed, window <- "closed"

\* Every behaviour of the Pi backend is one the retry contract allows, with
\* no free retries.
KeepsRetryPolicy == Policy!Spec
=============================================================================
