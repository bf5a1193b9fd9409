----------------------------- MODULE MCSession -----------------------------
(* Egis0575Session with small numbers of calls, transfers and polls, and      *)
(* statements of the source that the driver does not keep.                   *)
EXTENDS Egis0575Session

MCTask == 1..2

(* start_capture_action gives up with FP_DEVICE_ERROR_BUSY only on "the         *)
(* previous action's capture loop", never on the loop of the action itself.   *)
WaitsForPreviousLoop ==
  [][\A action \in CaptureAction :
       Queued(current_task, action, "busy") => owner # current_task]_vars

(* start_capture_action_cb never starts "a capture loop without a live action  *)
(* to drive it": the action it starts for has not been answered.              *)
LoopHasLiveAction == [][~running /\ running' => Connected']_vars

(* A close ignores cancellations: it is never answered with one.              *)
CloseIgnoresCancel == [][~Queued(current_task, "close", "cancelled")]_vars

(* fp_device_cancel_in_idle_cb asserts that there is an action to cancel.      *)
CancelIdleHasAction == idle_cancel => current_action # "none"
=============================================================================
