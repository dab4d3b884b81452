-------------------------------- MODULE HookRun --------------------------------
(***************************************************************************)
(* One hook_run of log_utils.py: the ENTRY and EXIT lines around a hook's  *)
(* body, the stages it times, and the watchdog timer thread that writes a  *)
(* line of its own while the body is still running.  Both threads run      *)
(* between any two bytecodes of each other; a line is one step, under the  *)
(* handler's lock.  The harness kills the process when it likes.           *)
(*                                                                         *)
(* Times are left out: a stage is in _stages or is not, and the timer may  *)
(* fire at any moment.  The run has a watchdog and its component log has a *)
(* file handler; on_watchdog only logs, as its docstring asks.             *)
(***************************************************************************)
EXTENDS Integers, Sequences, SequencesExt

CONSTANTS
    Stages,    \* stage names
    NoStage,   \* "-": no stage is running
    MaxEntries \* bound: stages entered in a run

ASSUME HookRunAssumption == NoStage \notin Stages /\ MaxEntries \in Nat

VARIABLES
    main,     \* where the main thread stands
    active,   \* _active, innermost last
    stages,   \* the keys of _stages
    entered,  \* stages entered so far
    status,   \* how the body ended
    finished, \* the timer's event, set by cancel
    watchdog, \* where the timer thread stands
    stage,    \* the current_stage it read
    seen,     \* the keys its walk over _stages began with
    fired,    \* _watchdog_fired
    exit,     \* the EXIT line, as built
    lines     \* the component log

hookVars == <<main, active, stages, entered, status, finished,
          watchdog, stage, seen, fired, exit, lines>>
body == <<active, stages, entered, status>>
thread == <<watchdog, stage, seen, fired>>

Entry == [kind |-> "ENTRY"]
WatchdogLines == [kind : {"WATCHDOG"}, stage : Stages \cup {NoStage},
                  stages : SUBSET Stages]
ExitLines == [kind : {"EXIT"}, status : {"ok", "error"},
              stages : SUBSET Stages, fired : BOOLEAN]

HookTypeOK ==
    /\ main \in {"new", "entered", "body", "leaving", "hung", "cancel", "exit",
                 "emit", "gone", "ended", "killed"}
    /\ active \in Seq(Stages) /\ stages \subseteq Stages
    /\ entered \in 0..MaxEntries /\ status \in {"ok", "error"}
    /\ finished \in BOOLEAN /\ fired \in BOOLEAN
    /\ watchdog \in {"off", "armed", "read", "begin", "walk", "flag", "emit", "end"}
    /\ stage \in Stages \cup {NoStage} /\ seen \subseteq Stages
    /\ exit \in ExitLines
    /\ lines \in Seq({Entry} \cup WatchdogLines \cup ExitLines)

HookInit ==
    /\ main = "new" /\ active = <<>> /\ stages = {} /\ entered = 0
    /\ status = "ok" /\ finished = FALSE /\ watchdog = "off"
    /\ stage = NoStage /\ seen = {} /\ fired = FALSE
    /\ exit = [kind |-> "EXIT", status |-> "ok", stages |-> {}, fired |-> FALSE]
    /\ lines = <<>>

-----------------------------------------------------------------------------
(* The main thread.                                                        *)

\* _emit_hook_line feeds the component handler, whatever the level.
EmitHookLine(line) == lines' = Append(lines, line)

WriteEntry ==
    /\ main = "new" /\ main' = "entered"
    /\ EmitHookLine(Entry)
    /\ UNCHANGED <<body, finished, thread, exit>>

StartTimer ==
    /\ main = "entered" /\ main' = "body"
    /\ watchdog' = "armed"
    /\ UNCHANGED <<body, finished, stage, seen, fired, exit, lines>>

EnterStage ==
    /\ main = "body" /\ entered < MaxEntries
    /\ entered' = entered + 1
    /\ \E s \in Stages : active' = Append(active, s)
    /\ UNCHANGED <<main, stages, status, finished, thread, exit, lines>>

\* The finally of stage: the time is added, then _active is replaced.  The
\* innermost stage ends first, also while an exception unwinds the body.
RecordStage ==
    /\ main = "body" /\ active # <<>>
    /\ main' = "leaving"
    /\ stages' = stages \cup {Last(active)}
    /\ UNCHANGED <<active, entered, status, finished, thread, exit, lines>>
LeaveStage ==
    /\ main = "leaving" /\ main' = "body"
    /\ active' = Front(active)
    /\ UNCHANGED <<stages, entered, status, finished, thread, exit, lines>>

\* The body never comes back.
Hang ==
    /\ main = "body" /\ main' = "hung"
    /\ UNCHANGED <<body, finished, thread, exit, lines>>

\* The body ends, with SystemExit(0) or None too ("ok"), or raises ("error").
BodyEnds ==
    /\ main = "body" /\ active = <<>>
    /\ main' = "cancel"
    /\ status' \in {"ok", "error"}
    /\ UNCHANGED <<active, stages, entered, finished, thread, exit, lines>>

CancelTimer ==
    /\ main = "cancel" /\ main' = "exit"
    /\ finished' = TRUE
    /\ UNCHANGED <<body, thread, exit, lines>>

\* What the EXIT line says.  Mistake: the stages are those still running.
ExitLineMutant == [kind |-> "EXIT", status |-> status, stages |-> Range(active),
                   fired |-> fired]
ExitLine == [kind |-> "EXIT", status |-> status, stages |-> stages,
             fired |-> fired]

BuildExit ==
    /\ main = "exit" /\ main' = "emit"
    /\ exit' = ExitLine
    /\ UNCHANGED <<body, finished, thread, lines>>
WriteExit ==
    /\ main = "emit" /\ main' = "gone"
    /\ EmitHookLine(exit)
    /\ UNCHANGED <<body, finished, thread, exit>>

-----------------------------------------------------------------------------
(* The timer thread.                                                       *)

\* A daemon thread runs on after hook_run, until the interpreter exits.
Alive == main \notin {"ended", "killed"}

\* The interval is over: the thread runs _watchdog unless it was cancelled.
TimerFires ==
    /\ Alive /\ watchdog = "armed" /\ ~finished
    /\ watchdog' = "read"
    /\ UNCHANGED <<main, body, finished, stage, seen, fired, exit, lines>>

\* current_stage.
CurrentStage == IF active = <<>> THEN NoStage ELSE Last(active)

ReadStage ==
    /\ Alive /\ watchdog = "read" /\ watchdog' = "begin"
    /\ stage' = CurrentStage
    /\ UNCHANGED <<main, body, finished, seen, fired, exit, lines>>

\* _stages_field walks the dict.  A key that comes in during the walk makes it
\* raise RuntimeError, and _watchdog returns without a line.
BeginWalk ==
    /\ Alive /\ watchdog = "begin" /\ watchdog' = "walk"
    /\ seen' = stages
    /\ UNCHANGED <<main, body, finished, stage, fired, exit, lines>>

\* Mistake: no line is written before a first stage has ended.
AfterWalkMutant == IF stages = seen /\ seen # {} THEN "flag" ELSE "end"
AfterWalk == IF stages = seen THEN "flag" ELSE "end"

EndWalk ==
    /\ Alive /\ watchdog = "walk"
    /\ watchdog' = AfterWalk
    /\ UNCHANGED <<main, body, finished, stage, seen, fired, exit, lines>>

\* _watchdog_fired, before the line.
SetFlag ==
    /\ Alive /\ watchdog = "flag" /\ watchdog' = "emit"
    /\ fired' = TRUE
    /\ UNCHANGED <<main, body, finished, stage, seen, exit, lines>>

WriteWatchdog ==
    /\ Alive /\ watchdog = "emit" /\ watchdog' = "end"
    /\ EmitHookLine([kind |-> "WATCHDOG", stage |-> stage, stages |-> seen])
    /\ UNCHANGED <<main, body, finished, stage, seen, fired, exit>>

Main == \/ WriteEntry \/ StartTimer \/ EnterStage \/ RecordStage \/ LeaveStage
        \/ Hang \/ BodyEnds \/ CancelTimer \/ BuildExit \/ WriteExit
Watchdog == \/ TimerFires \/ ReadStage \/ BeginWalk \/ EndWalk \/ SetFlag
            \/ WriteWatchdog

\* The harness kills the process, or it exits after hook_run.
Killed ==
    /\ Alive /\ main' = IF main = "gone" THEN "ended" ELSE "killed"
    /\ UNCHANGED <<body, finished, thread, exit, lines>>

HookNext == Main \/ Watchdog \/ Killed

HookSpec == HookInit /\ [][HookNext]_hookVars

\* The interpreter hands the lock to the timer thread.  Nothing is assumed of
\* the body.
HookFairSpec == HookSpec /\ WF_hookVars(Watchdog)

-----------------------------------------------------------------------------
(* Properties.                                                             *)

\* "An ENTRY with no matching EXIT is a hook that died mid-run": a run leaves
\* one EXIT line, after its ENTRY, exactly when its body ended and nothing
\* killed it; the line says how the body ended and times every stage.
PairTellsTheEnd ==
    LET exits == {i \in DOMAIN lines : lines[i].kind = "EXIT"} IN
    /\ lines # <<>> => lines[1] = Entry
    /\ exits # {} <=> main \in {"gone", "ended"}
    /\ \A i \in exits :
           /\ exits = {i} /\ active = <<>>
           /\ lines[i].status = status /\ lines[i].stages = stages

\* A body that hangs before the timer fires leaves a WATCHDOG line that names
\* the stage it hangs in, unless the harness kills it first.
HangIsReported ==
    \A s \in Stages \cup {NoStage} :
        /\ main = "hung" /\ watchdog = "armed"
        /\ s = CurrentStage
        ~> \/ main = "killed"
           \/ \E i \in DOMAIN lines :
                  lines[i].kind = "WATCHDOG" /\ lines[i].stage = s
=============================================================================
