----------------------------- MODULE PiRunProofs -----------------------------
(***************************************************************************)
(* Theorems about PiRun for any number of attempts and turns and any       *)
(* timeouts.  IInv ties what is true of an attempt to where the call is;   *)
(* the safety properties and the refinement follow from it.                *)
(***************************************************************************)
EXTENDS PiRun, TLAPS

\* When the call has been decided: a cancelled one still closes the transport.
OutcomeInv ==
    /\ pc \in {"opening", "supervising", "aborting", "classifying", "sleeping"}
           => outcome = "none"
    /\ outcome \in {"result", "timeout", "error"} => pc = "ended"
    /\ pc = "ended" => outcome # "none"

\* The deadlines that bound the clock: the one of the run until it is over, then
\* the one of the final abort.
ClockInv ==
    /\ pc = "supervising" => clock <= Timeout
    /\ pc = "aborting" => timer = Timeout + AbortWrite
    /\ SuperviseReturnsInTime

\* Only close stands between a live process and the rest of the call.
ProcessInv ==
    /\ pc \in {"draining", "classifying"} => process # "alive"
    /\ NoProcessLeft

\* An attempt that has not started has consumed nothing, and one that is over
\* and has failed has been billed.
BillInv ==
    /\ pc \in {"opening", "sleeping"} => attempt \notin consumed
    /\ EveryAttemptBilled

\* The outcome of supervise is what was met in this attempt: nothing of an
\* earlier one, and cut off exactly when the driver was.
OutcomeIsMet ==
    /\ out.settled <=> "settled" \in met
    /\ out.rejected <=> "rejected" \in met
    /\ out.finalError <=> "failed" \in met
    /\ out.pipeError <=> "gone" \in met
    /\ driver = "cancelled" <=> out.abortedReason = "timeout"
    /\ out.abortedReason = "max_turns" <=> "bound" \in met /\ driver # "cancelled"

MetInv ==
    /\ pc \in {"supervising", "aborting", "closing", "draining", "classifying"}
           => OutcomeIsMet
    /\ pc = "supervising" => driver \notin {"none", "cancelled", "abandoned"}
    /\ pc = "aborting" => driver = "cancelled"
    /\ pc \in {"closing", "draining", "classifying"} /\ outcome = "none"
           => driver \in {"done", "cancelled"}
    /\ pc = "opening" => ~RunSucceeded
    /\ ResultIffRunSucceeded

CallInv == TypeOK /\ OutcomeInv /\ ClockInv /\ ProcessInv /\ BillInv
IInv == CallInv /\ MetInv

USE PiTimesAssumption DEF Locations, DriverStates, Budget, Meetings

LEMMA BudgetType == Budget \in Nat \ {0}
  OBVIOUS

LEMMA FreshOutcomeType == FreshOutcome \in Outcomes
  BY DEF FreshOutcome, Outcomes

LEMMA InitEstablishes == Init => IInv
  <1> SUFFICES ASSUME Init PROVE IInv
    OBVIOUS
  <1>1. TypeOK
    BY BudgetType, FreshOutcomeType DEF Init, TypeOK
  <1>2. OutcomeInv /\ ClockInv /\ ProcessInv /\ BillInv /\ MetInv
    BY DEF Init, OutcomeInv, ClockInv, SuperviseReturnsInTime, ProcessInv,
           NoProcessLeft, BillInv, EveryAttemptBilled, MetInv, OutcomeIsMet,
           RunSucceeded, ResultIffRunSucceeded
  <1> QED
    BY <1>1, <1>2 DEF IInv, CallInv

\* What an attempt that has failed leaves: a later one, or the end.
LEMMA FailedAttempt ==
    ASSUME TypeOK, NEW class \in {"timeout", "error"}, outcome = "none",
           FailAttempt(class)
    PROVE  /\ last' \in {"timeout", "error"}
           /\ \/ pc' = "sleeping" /\ attempt' = attempt + 1 /\ outcome' = "none"
                 /\ attempt + 1 < Budget
              \/ pc' = "ended" /\ attempt' = attempt /\ outcome' = class
                 /\ attempt + 1 = Budget
  BY DEF FailAttempt, MoreAttempts, TypeOK

\* A class of failure is one of two, or none.
LEMMA FailureClasses == FailureClass(out) \in {"none", "timeout", "error"}
  BY DEF FailureClass

-----------------------------------------------------------------------------
(* The actions of the driver change only what an attempt is made of.       *)

DriverStep ==
    \/ PromptWritten \/ PromptWriteFails \/ TurnEnds \/ AssistantMessageEnds
    \/ PiSettles \/ PiRejectsPrompt \/ StreamEnds \/ DriverAbortEnds \/ GraceEnds

LEMMA DriverOutcome ==
    ASSUME TypeOK, DriverStep
    PROVE  /\ pc = "supervising" /\ CallUnchanged
           /\ driver' \in DriverStates /\ timer' \in Nat
           /\ process' \in {process, "exited"}
           /\ out' \in Outcomes
           /\ consumed' \in {consumed, consumed \cup {attempt}}
           /\ met' \subseteq Meetings
  <1>1. /\ EventBound \in Nat /\ out \in Outcomes /\ clock \in Nat /\ timer \in Nat
        /\ met \subseteq Meetings
    BY DEF TypeOK
  <1>2. ASSUME NEW b \in BOOLEAN
        PROVE  /\ [out EXCEPT !.pipeError = b] \in Outcomes
               /\ [out EXCEPT !.settled = b] \in Outcomes
               /\ [out EXCEPT !.rejected = b] \in Outcomes
               /\ [out EXCEPT !.finalError = b] \in Outcomes
    BY <1>1 DEF Outcomes
  <1>3. CASE PromptWritten \/ StreamEnds \/ GraceEnds
    BY <1>3, <1>1 DEF PromptWritten, StreamEnds, GraceEnds, Driving, Reading, TypeOK,
                      CallUnchanged
  <1>4. CASE PromptWriteFails \/ PiSettles \/ PiRejectsPrompt
    BY <1>4, <1>1, <1>2 DEF PromptWriteFails, PiSettles, PiRejectsPrompt, Driving,
                            Reading, TypeOK, CallUnchanged
  <1>5. CASE TurnEnds
    <2>1. /\ pc = "supervising"
          /\ UNCHANGED <<process, consumed>> /\ CallUnchanged
          /\ met' \in {met, met \cup {"bound"}}
      BY <1>5 DEF TurnEnds, Reading, Driving
    <2>2. out.turns + 1 \in 0..EventBound
      <3>1. out.turns \in 0..EventBound
        BY <1>1 DEF Outcomes
      <3>2. out.turns + 1 <= EventBound
        BY <1>5 DEF TurnEnds
      <3> QED
        BY <1>1, <3>1, <3>2
    <2>3. ASSUME NEW turns \in 0..EventBound
          PROVE  /\ [out EXCEPT !.turns = turns] \in Outcomes
                 /\ [out EXCEPT !.turns = turns, !.abortedReason = "max_turns"] \in Outcomes
      BY <1>1 DEF Outcomes
    <2>4. out' \in Outcomes
      BY <1>5, <2>2, <2>3 DEF TurnEnds
    <2>5. clock + AbortWrite \in Nat
      BY <1>1
    <2>6. driver' \in {driver, "aborting"} /\ timer' \in {timer, clock + AbortWrite}
      BY <1>5 DEF TurnEnds
    <2> QED
      BY <1>1, <2>1, <2>4, <2>5, <2>6 DEF TypeOK
  <1>6. CASE AssistantMessageEnds
    BY <1>6, <1>1, <1>2 DEF AssistantMessageEnds, FinalError, Reading, Driving, TypeOK,
                            CallUnchanged
  <1>7. CASE DriverAbortEnds
    <2>1. clock + AbortGrace \in Nat
      BY <1>1
    <2>2. out' \in Outcomes /\ met' \subseteq Meetings
      BY <1>1, <1>2, <1>7 DEF DriverAbortEnds, AbortSent
    <2> QED
      BY <1>7, <2>1, <2>2 DEF DriverAbortEnds, Driving, CallUnchanged
  <1> QED
    BY <1>3, <1>4, <1>5, <1>6, <1>7 DEF DriverStep

LEMMA DriverPreserves ==
    ASSUME CallInv, DriverStep
    PROVE  CallInv'
  <1>1. /\ pc = "supervising" /\ CallUnchanged
        /\ driver' \in DriverStates /\ timer' \in Nat
        /\ process' \in {process, "exited"}
        /\ out' \in Outcomes
        /\ consumed' \in {consumed, consumed \cup {attempt}}
        /\ met' \subseteq Meetings
    BY DriverOutcome DEF CallInv
  <1>2. TypeOK'
    BY <1>1 DEF CallInv, TypeOK, CallUnchanged, costVars
  <1>3. OutcomeInv' /\ ClockInv' /\ ProcessInv'
    BY <1>1 DEF CallInv, CallUnchanged, costVars, OutcomeInv, ClockInv, SuperviseReturnsInTime,
                ProcessInv, NoProcessLeft
  <1>4. BillInv'
    BY <1>1 DEF CallInv, TypeOK, CallUnchanged, costVars, OutcomeInv, BillInv, EveryAttemptBilled
  <1> QED
    BY <1>2, <1>3, <1>4 DEF CallInv

-----------------------------------------------------------------------------

LEMMA StepPreserves == CallInv /\ [Next]_vars => CallInv'
  <1> SUFFICES ASSUME CallInv, [Next]_vars PROVE CallInv'
    OBVIOUS
  <1> USE DEF CallInv
  <1>1. CASE SpawnFails
    <2>1. /\ pc = "opening" /\ outcome = "none" /\ attempt \notin consumed
          /\ UNCHANGED <<clock, driver, timer, process, out, cancel, consumed,
                         ledger, unbilled, met>>
      BY <1>1 DEF SpawnFails, costVars, OutcomeInv, BillInv
    <2>2. /\ last' \in {"timeout", "error"}
          /\ \/ pc' = "sleeping" /\ attempt' = attempt + 1 /\ outcome' = "none"
                /\ attempt + 1 < Budget
             \/ pc' = "ended" /\ attempt' = attempt /\ outcome' = "error"
      BY <1>1, <2>1, FailedAttempt DEF SpawnFails
    <2>3. TypeOK'
      BY <2>1, <2>2, BudgetType DEF TypeOK
    <2>4. OutcomeInv' /\ ClockInv' /\ ProcessInv'
      BY <2>1, <2>2 DEF OutcomeInv, ClockInv, SuperviseReturnsInTime, ProcessInv,
                        NoProcessLeft
    <2>5. BillInv'
      BY <2>1, <2>2 DEF TypeOK, BillInv, EveryAttemptBilled
    <2> QED
      BY <2>3, <2>4, <2>5
  <1>2. CASE StartSupervising
    <2>2. TypeOK'
      BY <1>2, FreshOutcomeType DEF StartSupervising, Spawn, costVars, TypeOK
    <2>3. OutcomeInv' /\ ClockInv' /\ ProcessInv' /\ BillInv'
      BY <1>2 DEF StartSupervising, Spawn, costVars, TypeOK, OutcomeInv, ClockInv,
                  SuperviseReturnsInTime, ProcessInv, NoProcessLeft, BillInv,
                  EveryAttemptBilled
    <2> QED
      BY <2>2, <2>3
  <1>3. CASE NextAttempt
    BY <1>3 DEF NextAttempt, costVars, TypeOK, OutcomeInv, ClockInv, SuperviseReturnsInTime,
                ProcessInv, NoProcessLeft, BillInv, EveryAttemptBilled
  <1>4. CASE DriverStep
    BY <1>4, DriverPreserves
  <1>5. CASE PiExits
    BY <1>5 DEF PiExits, costVars, TypeOK, OutcomeInv, ClockInv, SuperviseReturnsInTime,
                ProcessInv, NoProcessLeft, BillInv, EveryAttemptBilled
  <1>6. CASE SuperviseEnds
    BY <1>6 DEF SuperviseEnds, Driving, costVars, TypeOK, OutcomeInv, ClockInv,
                SuperviseReturnsInTime, ProcessInv, NoProcessLeft, BillInv,
                EveryAttemptBilled
  <1>7. CASE TimeoutFires
    <2>1. [out EXCEPT !.abortedReason = "timeout"] \in Outcomes
      BY DEF TypeOK, Outcomes
    <2>2. TypeOK'
      BY <1>7, <2>1 DEF TimeoutFires, AbortedReason, costVars, TypeOK
    <2>3. OutcomeInv' /\ ClockInv' /\ ProcessInv' /\ BillInv'
      BY <1>7 DEF TimeoutFires, AbortedReason, costVars, TypeOK, OutcomeInv, ClockInv, SuperviseReturnsInTime,
                  ProcessInv, NoProcessLeft, BillInv, EveryAttemptBilled
    <2> QED
      BY <2>2, <2>3
  <1>8. CASE FinalAbortEnds
    <2>1. [out EXCEPT !.pipeError = TRUE] \in Outcomes
      BY DEF TypeOK, Outcomes
    <2>2. TypeOK'
      BY <1>8, <2>1, ZenonT(60) DEF FinalAbortEnds, AfterAbort, AbortSent, costVars, TypeOK
    <2>3. OutcomeInv' /\ ClockInv' /\ ProcessInv' /\ BillInv'
      BY <1>8 DEF FinalAbortEnds, AfterAbort, costVars, TypeOK, OutcomeInv, ClockInv,
                  SuperviseReturnsInTime, ProcessInv, NoProcessLeft, BillInv,
                  EveryAttemptBilled
    <2> QED
      BY <2>2, <2>3
  <1>9. CASE ProcessReaped
    BY <1>9 DEF ProcessReaped, costVars, TypeOK, OutcomeInv, ClockInv, SuperviseReturnsInTime,
                ProcessInv, NoProcessLeft, BillInv, EveryAttemptBilled
  <1>10. CASE StderrDrained
    BY <1>10 DEF StderrDrained, costVars, TypeOK, OutcomeInv, ClockInv, SuperviseReturnsInTime,
                 ProcessInv, NoProcessLeft, BillInv, EveryAttemptBilled
  <1>11. CASE Classify
    <2>1. /\ pc = "classifying" /\ outcome = "none" /\ process # "alive"
          /\ UNCHANGED <<clock, driver, timer, process, out, cancel, consumed, met>>
      BY <1>11 DEF Classify, OutcomeInv, ProcessInv
    <2>2. /\ ledger' \subseteq 0..attempt /\ unbilled' \subseteq 0..attempt
          /\ \A a \in consumed : a <= attempt => a \in ledger' \cup unbilled'
      <3>1. /\ ledger \subseteq ledger' /\ unbilled \subseteq unbilled'
            /\ ledger' \subseteq ledger \cup {attempt}
            /\ unbilled' \subseteq unbilled \cup {attempt}
            /\ attempt \in consumed => attempt \in ledger' \cup unbilled'
        BY <1>11 DEF Classify, RecordCost, Bill, costVars
      <3>2. attempt \in 0..attempt
        BY DEF TypeOK
      <3>3. \A a \in consumed : a <= attempt => a = attempt \/ a < attempt
        BY DEF TypeOK
      <3> QED
        BY <3>1, <3>2, <3>3 DEF TypeOK, BillInv, EveryAttemptBilled
    <2>3. CASE FailureClass(out) = "none"
      <3>1. pc' = "ended" /\ outcome' = "result" /\ UNCHANGED <<last, attempt>>
        BY <1>11, <2>3 DEF Classify
      <3>3. TypeOK'
        BY <2>1, <2>2, <3>1 DEF TypeOK
      <3>4. OutcomeInv' /\ ClockInv' /\ ProcessInv' /\ BillInv'
        BY <2>1, <2>2, <3>1 DEF TypeOK, OutcomeInv, ClockInv, SuperviseReturnsInTime,
                                ProcessInv, NoProcessLeft, BillInv, EveryAttemptBilled
      <3> QED
        BY <3>3, <3>4
    <2>4. CASE FailureClass(out) # "none"
      <3>1. /\ last' \in {"timeout", "error"}
            /\ \/ pc' = "sleeping" /\ attempt' = attempt + 1 /\ outcome' = "none"
                  /\ attempt + 1 < Budget
               \/ pc' = "ended" /\ attempt' = attempt /\ outcome' = FailureClass(out)
        BY <1>11, <2>1, <2>4, FailureClasses, FailedAttempt DEF Classify
      <3>2. TypeOK'
        BY <2>1, <2>2, <2>4, <3>1, FailureClasses, BudgetType DEF TypeOK
      <3>3. OutcomeInv' /\ ClockInv' /\ ProcessInv'
        BY <2>1, <2>4, <3>1, FailureClasses
           DEF OutcomeInv, ClockInv, SuperviseReturnsInTime, ProcessInv,
               NoProcessLeft
      <3>4. BillInv'
        BY <2>1, <2>2, <3>1 DEF TypeOK, BillInv, EveryAttemptBilled
      <3> QED
        BY <3>2, <3>3, <3>4
    <2> QED
      BY <2>3, <2>4
  <1>12. CASE Cancel
    <2>1. TypeOK'
      BY <1>12 DEF Cancel, costVars, TypeOK
    <2>2. OutcomeInv' /\ ClockInv'
      BY <1>12 DEF Cancel, costVars, TypeOK, OutcomeInv, ClockInv, SuperviseReturnsInTime
    <2>3. ProcessInv' /\ BillInv'
      BY <1>12 DEF Cancel, costVars, TypeOK, OutcomeInv, ProcessInv, NoProcessLeft, BillInv,
                   EveryAttemptBilled
    <2> QED
      BY <2>1, <2>2, <2>3
  <1>13. CASE Tick
    <2>1. ClockInv'
      BY <1>13 DEF Tick, AbortStillTimed, costVars, TypeOK, ClockInv, SuperviseReturnsInTime
    <2>2. TypeOK'
      BY <1>13 DEF Tick, costVars, TypeOK
    <2>3. OutcomeInv' /\ ProcessInv' /\ BillInv'
      BY <1>13 DEF Tick, costVars, OutcomeInv, ProcessInv, NoProcessLeft, BillInv,
                   EveryAttemptBilled
    <2> QED
      BY <2>1, <2>2, <2>3
  <1>14. CASE UNCHANGED vars
    BY <1>14 DEF vars, costVars, TypeOK, OutcomeInv, ClockInv, SuperviseReturnsInTime,
                 ProcessInv, NoProcessLeft, BillInv, EveryAttemptBilled
  <1> QED
    BY <1>1, <1>2, <1>3, <1>4, <1>5, <1>6, <1>7, <1>8, <1>9, <1>10, <1>11, <1>12,
       <1>13, <1>14 DEF Next, DriverStep

-----------------------------------------------------------------------------
(* What the outcome of an attempt says is what was met in it.              *)

LEMMA DriverMeets ==
    ASSUME CallInv, MetInv, DriverStep
    PROVE  MetInv'
  <1>1. /\ pc = "supervising" /\ OutcomeIsMet /\ out \in Outcomes
        /\ outcome = "none" /\ driver \notin {"none", "cancelled", "abandoned"}
    BY DriverOutcome DEF CallInv, TypeOK, OutcomeInv, MetInv
  <1>2. pc' = "supervising" /\ outcome' = "none"
    BY <1>1, DriverOutcome DEF CallInv, CallUnchanged
  <1>3. driver' \notin {"none", "cancelled", "abandoned"}
    BY <1>1 DEF DriverStep, PromptWritten, PromptWriteFails, TurnEnds,
                AssistantMessageEnds, PiSettles, PiRejectsPrompt, StreamEnds,
                DriverAbortEnds, GraceEnds
  <1>4. OutcomeIsMet'
    <2> USE <1>1, <1>3 DEF OutcomeIsMet, Outcomes
    <2>1. CASE PromptWritten \/ StreamEnds \/ GraceEnds
      BY <2>1 DEF PromptWritten, StreamEnds, GraceEnds
    <2>2. CASE PromptWriteFails
      BY <2>2 DEF PromptWriteFails
    <2>3. CASE TurnEnds
      <3>1. /\ UNCHANGED <<out.settled, out.rejected, out.finalError, out.pipeError>>
            /\ \/ out'.abortedReason = "max_turns" /\ met' = met \cup {"bound"}
               \/ UNCHANGED <<out.abortedReason, met>>
        BY <2>3 DEF TurnEnds
      <3> QED
        BY <3>1
    <2>4. CASE AssistantMessageEnds
      BY <2>4 DEF AssistantMessageEnds, FinalError
    <2>5. CASE PiSettles
      BY <2>5 DEF PiSettles
    <2>6. CASE PiRejectsPrompt
      BY <2>6 DEF PiRejectsPrompt
    <2>7. CASE DriverAbortEnds
      BY <2>7 DEF DriverAbortEnds, AbortSent
    <2> QED
      BY <2>1, <2>2, <2>3, <2>4, <2>5, <2>6, <2>7 DEF DriverStep
  <1> QED
    BY <1>2, <1>3, <1>4 DEF MetInv, ResultIffRunSucceeded

\* The classification of an attempt that is over.
LEMMA ClassIsRight ==
    ASSUME out \in Outcomes, OutcomeIsMet, driver \in {"done", "cancelled"}
    PROVE  FailureClass(out) = "none" <=> RunSucceeded
  BY DEF Outcomes, OutcomeIsMet, FailureClass, RunSucceeded

LEMMA MetPreserved == CallInv /\ MetInv /\ [Next]_vars => MetInv'
  <1> SUFFICES ASSUME CallInv, MetInv, [Next]_vars PROVE MetInv'
    OBVIOUS
  <1> USE DEF MetInv, ResultIffRunSucceeded
  <1>1. ASSUME UNCHANGED <<out, met, driver>>
        PROVE  (OutcomeIsMet' <=> OutcomeIsMet) /\ (RunSucceeded' <=> RunSucceeded)
    BY <1>1 DEF OutcomeIsMet, RunSucceeded
  <1>2. CASE SpawnFails
    <2>1. pc = "opening" /\ outcome = "none"
      BY <1>2 DEF SpawnFails, CallInv, OutcomeInv
    <2>2. pc' \in {"sleeping", "ended"} /\ outcome' \in {"none", "error"}
      BY <1>2, <2>1, FailedAttempt DEF SpawnFails, CallInv
    <2> QED
      BY <1>1, <1>2, <2>1, <2>2 DEF SpawnFails
  <1>3. CASE StartSupervising
    <2>1. pc' = "supervising" /\ outcome' = "none" /\ driver' = "prompting"
      BY <1>3 DEF StartSupervising, CallInv, OutcomeInv
    <2>2. OutcomeIsMet'
      BY <1>3 DEF StartSupervising, Spawn, OutcomeIsMet, FreshOutcome
    <2> QED
      BY <2>1, <2>2
  <1>4. CASE DriverStep
    BY <1>4, DriverMeets
  <1>5. CASE NextAttempt \/ PiExits \/ Tick \/ UNCHANGED vars
    BY <1>1, <1>5 DEF NextAttempt, PiExits, Tick, vars
  <1>6. CASE SuperviseEnds \/ ProcessReaped \/ StderrDrained
    BY <1>1, <1>6 DEF SuperviseEnds, Driving, ProcessReaped, StderrDrained, CallInv,
                      OutcomeInv
  <1>7. CASE TimeoutFires
    <2>1. /\ pc = "supervising" /\ pc' = "aborting" /\ driver' = "cancelled"
          /\ outcome' = "none" /\ OutcomeIsMet
      BY <1>7 DEF TimeoutFires, CallInv, OutcomeInv
    <2>2. OutcomeIsMet'
      BY <1>7, <2>1 DEF TimeoutFires, AbortedReason, OutcomeIsMet, CallInv, TypeOK,
                        Outcomes
    <2> QED
      BY <2>1, <2>2
  <1>8. CASE FinalAbortEnds
    <2>1. /\ pc = "aborting" /\ pc' = "closing" /\ driver' = driver
          /\ driver = "cancelled" /\ outcome' = "none" /\ OutcomeIsMet
      BY <1>8 DEF FinalAbortEnds, AfterAbort, CallInv, OutcomeInv
    <2>2. OutcomeIsMet'
      BY <1>8, <2>1 DEF FinalAbortEnds, AbortSent, OutcomeIsMet, CallInv, TypeOK,
                        Outcomes
    <2> QED
      BY <2>1, <2>2
  <1>9. CASE Classify
    <2>1. /\ pc = "classifying" /\ outcome = "none" /\ OutcomeIsMet
          /\ out \in Outcomes /\ driver \in {"done", "cancelled"}
      BY <1>9 DEF Classify, CallInv, OutcomeInv, TypeOK
    <2>2. RunSucceeded' <=> RunSucceeded
      BY <1>9 DEF Classify, RunSucceeded
    <2>3. CASE FailureClass(out) = "none"
      BY <1>9, <2>1, <2>2, <2>3, ClassIsRight DEF Classify
    <2>4. CASE FailureClass(out) # "none"
      <3>1. /\ pc' \in {"sleeping", "ended"}
            /\ outcome' \in {"none", "timeout", "error"}
        BY <1>9, <2>1, <2>4, FailureClasses, FailedAttempt DEF Classify, CallInv
      <3> QED
        BY <2>1, <2>2, <2>4, <3>1, ClassIsRight
    <2> QED
      BY <2>3, <2>4
  <1>10. CASE Cancel
    <2>1. outcome' \in {outcome, "cancelled"} /\ UNCHANGED <<out, met>>
      BY <1>10 DEF Cancel
    <2>2. CASE pc \in {"supervising", "aborting"}
      <3>1. /\ pc' = "closing" /\ outcome' = "cancelled" /\ outcome = "none"
            /\ driver' = "cancelled" <=> driver = "cancelled"
        BY <1>10, <2>2 DEF Cancel, CallInv, OutcomeInv
      <3>2. OutcomeIsMet /\ out' = out /\ met' = met
        BY <2>1, <2>2
      <3>3. OutcomeIsMet'
        BY ONLY <3>1, <3>2 DEF OutcomeIsMet
      <3> QED
        BY <3>1, <3>3
    <2>3. CASE pc \notin {"supervising", "aborting"}
      <3>1. driver' = driver /\ pc' \in {pc, "ended"}
            /\ (pc' = "ended" => outcome' = "cancelled")
        BY <1>10, <2>3 DEF Cancel
      <3> QED
        BY <1>1, <2>1, <2>3, <3>1 DEF CallInv, OutcomeInv
    <2> QED
      BY <2>2, <2>3
  <1> QED
    BY <1>2, <1>3, <1>4, <1>5, <1>6, <1>7, <1>8, <1>9, <1>10 DEF Next, DriverStep

LEMMA Invariance == Spec => []IInv
  <1>1. IInv /\ [Next]_vars => IInv'
    BY StepPreserves, MetPreserved DEF IInv
  <1> QED
    BY <1>1, InitEstablishes, PTL DEF Spec

-----------------------------------------------------------------------------

\* Every variable keeps its type (TypeOK), for any budget and any times.
THEOREM TypeCorrect == Spec => []TypeOK
  BY Invariance, PTL DEF IInv, CallInv

\* A call returns a result exactly of an attempt that went well, whatever Pi
\* sends in whatever order and wherever the driver is cut off.
THEOREM ResultIsSuccess == Spec => []ResultIffRunSucceeded
  BY Invariance, PTL DEF IInv, MetInv

\* The time of supervise is bounded, whichever write is left hanging.
THEOREM SuperviseIsTimely == Spec => []SuperviseReturnsInTime
  BY Invariance, PTL DEF IInv, CallInv, ClockInv

\* A process outlives its attempt only when a cancellation hits the wait for its
\* exit.
THEOREM ProcessIsReaped == Spec => []NoProcessLeft
  BY Invariance, PTL DEF IInv, CallInv, ProcessInv

\* The usage of every attempt that ended is in the ledger, or its append failed.
THEOREM AttemptsAreBilled == Spec => []EveryAttemptBilled
  BY Invariance, PTL DEF IInv, CallInv, BillInv

\* Every step of run_pi_agent is a step of the retry contract with its window
\* closed, or leaves the contract's state alone.
THEOREM ImplementsRetryPolicy == Spec => KeepsRetryPolicy
  <1> USE DEF policyStatus, policyUsed
  <1>1. Init => Policy!Init
    BY DEF Init, Policy!Init
  <1>2. IInv /\ [Next]_vars => [Policy!Next]_(Policy!vars)
    <2> SUFFICES ASSUME IInv, [Next]_vars
                 PROVE  Policy!Next \/ UNCHANGED Policy!vars
      OBVIOUS
    <2> USE DEF IInv, CallInv, OutcomeInv, Policy!Next, Policy!vars
    <2>1. ASSUME NEW class \in {"timeout", "error"}, FailAttempt(class),
                 pc \in {"opening", "classifying"}
          PROVE  Policy!FailAndRetry \/ Policy!FailForGood
      <3>1. outcome = "none" /\ policyStatus = "attempting" /\ policyUsed = attempt
        BY <2>1
      <3>2. \/ /\ pc' = "sleeping" /\ attempt' = attempt + 1 /\ outcome' = "none"
               /\ attempt + 1 < Budget
            \/ /\ pc' = "ended" /\ attempt' = attempt /\ outcome' = class
               /\ attempt + 1 = Budget
        BY <2>1, <3>1, FailedAttempt
      <3> QED
        BY <3>1, <3>2 DEF Policy!FailAndRetry, Policy!FailForGood
    <2>2. CASE SpawnFails
      BY <2>1, <2>2 DEF SpawnFails
    <2>3. CASE Classify
      <3>1. CASE FailureClass(out) = "none"
        BY <2>3, <3>1 DEF Classify, Policy!Succeed
      <3>2. CASE FailureClass(out) # "none"
        BY <2>1, <2>3, <3>2, FailureClasses DEF Classify
      <3> QED
        BY <3>1, <3>2
    <2>4. CASE NextAttempt
      BY <2>4 DEF NextAttempt, Policy!Attempt
    <2>5. CASE Cancel
      BY <2>5 DEF Cancel, Policy!Stop
    <2>6. CASE DriverStep
      BY <2>6, DriverOutcome DEF CallUnchanged
    <2>7. CASE StartSupervising \/ TimeoutFires \/ SuperviseEnds
      BY <2>7 DEF StartSupervising, TimeoutFires, SuperviseEnds, Driving
    <2>8. CASE FinalAbortEnds \/ ProcessReaped \/ StderrDrained
      BY <2>8 DEF FinalAbortEnds, AfterAbort, ProcessReaped, StderrDrained
    <2>9. CASE PiExits \/ Tick \/ UNCHANGED vars
      BY <2>9 DEF PiExits, Tick, vars
    <2> QED
      BY <2>2, <2>3, <2>4, <2>5, <2>6, <2>7, <2>8, <2>9 DEF Next, DriverStep
  <1> QED
    BY <1>1, <1>2, Invariance, PTL DEF Spec, KeepsRetryPolicy, Policy!Spec
=============================================================================
