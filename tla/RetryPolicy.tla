---------------------------- MODULE RetryPolicy ----------------------------
(***************************************************************************)
(* What run_agent and run_pi_agent promise about retries, with no tasks,   *)
(* no clock and no subprocess: a call has a budget of attempts, a failed   *)
(* attempt uses one of them up, a failure inside the network window is     *)
(* retried for free, and some failures stop the call at once.              *)
(***************************************************************************)
EXTENDS Integers

CONSTANT Budget \* attempts the caller allows; 1 when it asks for fewer

VARIABLES
    status, \* "waiting" to start an attempt, "attempting", or how the call ended
    used,   \* attempts of the budget that have failed
    window  \* the network retry window: "unopened", "open" or "closed"

vars == <<status, used, window>>

Statuses == {"waiting", "attempting", "succeeded", "exhausted", "stopped"}

TypeOK ==
    /\ status \in Statuses
    /\ used \in 0..Budget
    /\ window \in {"unopened", "open", "closed"}

\* A backend without free retries starts with its window closed.
Init ==
    /\ status \in {"waiting", "attempting"}
    /\ used = 0
    /\ window \in {"unopened", "closed"}

Attempt ==
    /\ status = "waiting"
    /\ status' = "attempting"
    /\ UNCHANGED <<used, window>>

Succeed ==
    /\ status = "attempting"
    /\ status' = "succeeded"
    /\ UNCHANGED <<used, window>>

FailAndRetry ==
    /\ status = "attempting"
    /\ used + 1 < Budget
    /\ used' = used + 1
    /\ status' = "waiting"
    /\ UNCHANGED window

FailForGood ==
    /\ status = "attempting"
    /\ used + 1 = Budget
    /\ used' = Budget
    /\ status' = "exhausted"
    /\ UNCHANGED window

FailForFree ==
    /\ status = "attempting"
    /\ window # "closed"
    /\ window' = "open"
    /\ status' = "waiting"
    /\ UNCHANGED used

CloseWindow ==
    /\ window = "open"
    /\ window' = "closed"
    /\ UNCHANGED <<status, used>>

\* A failure nothing can retry, or a cancelled caller.
Stop ==
    /\ status \in {"waiting", "attempting"}
    /\ status' = "stopped"
    /\ UNCHANGED <<used, window>>

Next ==
    \/ Attempt \/ Succeed \/ FailAndRetry \/ FailForGood
    \/ FailForFree \/ CloseWindow \/ Stop

Spec == Init /\ [][Next]_vars
=============================================================================
