------------------------------ MODULE SsmPromise ------------------------------
(* What a sequential state machine promises the code that starts it: it works *)
(* through its states, a failure sends it to its cleanup, the cleanup is left *)
(* only for the end, and the one report of the end is of the first failure.   *)
CONSTANTS
  HasCleanup,                  \* whether some of its states are cleanup states
  Errors, None

VARIABLES
  phase,                       \* "idle", "work", "cleanup", "ended"
  verdict                      \* the first failure, None while it succeeds

vars == <<phase, verdict>>

Init == phase = "idle" /\ verdict = None

Start == phase = "idle" /\ phase' = "work" /\ verdict' = None

(* The cleanup ends the work, unless there is none.                           *)
AfterWork == IF HasCleanup THEN "cleanup" ELSE "ended"

Leave == phase = "work" /\ phase' = AfterWork /\ UNCHANGED verdict

Fail ==
  /\ \/ phase = "work" /\ phase' = AfterWork
     \/ phase = "cleanup" /\ phase' \in {"cleanup", "ended"}
  /\ verdict = None /\ verdict' \in Errors

End == phase = "cleanup" /\ phase' = "ended" /\ UNCHANGED verdict

Report == phase = "ended" /\ phase' = "idle" /\ UNCHANGED verdict

Next == Start \/ Leave \/ Fail \/ End \/ Report

Safety == Init /\ [][Next]_vars

(* A cleanup reaches its end and the end is reported.                         *)
Spec == Safety /\ WF_vars(End) /\ WF_vars(Report)
=============================================================================
