--------------------------- MODULE FpImageDevice ---------------------------
(* The image-device layer: one FpImageDevice between the calls of fp-device.c *)
(* (an action, its cancel, its queued answer), an image driver, and the        *)
(* minutiae thread.  Drivers are bound by what fpi-image-device.h asks of     *)
(* them: they complete an activation and a deactivation once, capture and      *)
(* retry only where an image is awaited, and report errors while active.  They *)
(* may report the finger at any time.  Data is reduced to what decides control:*)
(* an error is its kind, a print or an image is there or not.                  *)
EXTENDS Naturals, Sequences

CONSTANT Stages                \* fp_device_get_nr_enroll_stages

ASSUME ImageAssumption == Stages \in Nat \ {0}

Captures == {"enroll", "identify", "capture"}
Action   == Captures \cup {"none", "open", "close"}
State    == {"inactive", "activating", "deactivating", "idle", "await_on",
             "capture", "await_off"}
Failure  == {"none", "retry", "cancelled", "error"}

VARIABLES
  state,                       \* priv->state
  active,                      \* priv->active
  finger_present,              \* priv->finger_present
  minutiae_scan_active,        \* priv->minutiae_scan_active
  enroll_stage,                \* priv->enroll_stage
  action_error,                \* priv->action_error
  capture_image,               \* priv->capture_image is set
  current_action,              \* priv->current_action of the FpDevice
  is_open,                     \* fp_device_is_open
  cancel,                      \* "no", "asked" of the device, "told" to the driver
  result_reported,             \* FpMatchData.result_reported
  idle_return                  \* answers queued for the current action

imageVars  == <<state, active, finger_present, minutiae_scan_active, enroll_stage,
                action_error, capture_image>>
deviceVars == <<current_action, is_open, cancel, result_reported, idle_return>>
vars       == <<imageVars, deviceVars>>

TypeOK ==
  /\ state \in State
  /\ active \in BOOLEAN /\ finger_present \in BOOLEAN
  /\ minutiae_scan_active \in BOOLEAN /\ capture_image \in BOOLEAN
  /\ is_open \in BOOLEAN /\ result_reported \in BOOLEAN
  /\ enroll_stage \in 0..Stages
  /\ action_error \in Failure
  /\ current_action \in Action
  /\ cancel \in {"no", "asked", "told"}
  /\ idle_return \in Seq({"ok", "retry", "cancelled", "error", "broken"})

Init ==
  /\ state = "inactive" /\ active = FALSE /\ finger_present = FALSE
  /\ minutiae_scan_active = FALSE /\ enroll_stage = 0
  /\ action_error = "none" /\ capture_image = FALSE
  /\ current_action = "none" /\ is_open = FALSE /\ cancel = "no"
  /\ result_reported = FALSE /\ idle_return = <<>>

Unanswered == current_action # "none" /\ idle_return = <<>>
Cancelled == cancel # "no"

----------------------------------------------------------------------------
(* What the handlers are made of.                                             *)

(* fpi_device_*_complete: the answer waits for its idle source.  Success       *)
(* without a reported result or without an image is turned into an error.     *)
Answer(result) ==
  /\ idle_return' = Append(idle_return, result)
  /\ UNCHANGED <<current_action, is_open, cancel>>

NoAnswer == UNCHANGED <<current_action, is_open, cancel, idle_return>>

Outcome(error, image) ==
  CASE error # "none" -> error
    [] error = "none" /\ Cancelled -> "cancelled"
    [] OTHER -> IF \/ current_action = "identify" /\ ~result_reported'
                   \/ current_action = "capture" /\ ~image
                THEN "broken" ELSE "ok"

(* The first error is kept, unless it only asked for a retry.                  *)
Kept(error) ==
  IF error = "none" \/ action_error \notin {"none", "retry"} THEN action_error ELSE error

\* Mutant: completes without waiting for the deactivation.
MaybeCompleteActive(error, image) ==
  IF minutiae_scan_active'
  THEN action_error' = Kept(error) /\ capture_image' = image /\ NoAnswer
  ELSE /\ action_error' = "none"
       /\ capture_image' = FALSE
       /\ Answer(Outcome(Kept(error), image))

(* Nothing completes before the device is inactive and the scan is over.       *)
MaybeComplete(error, image) ==
  IF active' \/ minutiae_scan_active'
  THEN action_error' = Kept(error) /\ capture_image' = image /\ NoAnswer
  ELSE /\ action_error' = "none"
       /\ capture_image' = FALSE
       /\ Answer(Outcome(Kept(error), image))

(* fpi_image_device_deactivate, ignored on a device that is not active.        *)
Deactivated(s) == IF active THEN "deactivating" ELSE s

(* enroll_maybe_await_finger_on, whatever state the device is in.              *)
NextFinger(s, present, scanning) ==
  IF scanning \/ present THEN s ELSE "await_on"

----------------------------------------------------------------------------
(* Calls of the client, as the device layer forwards them.                     *)

Accept(action) ==
  /\ current_action = "none"
  /\ current_action' = action
  /\ cancel' = "no"
  /\ result_reported' = FALSE

(* fp_image_device_start_capture_action; its assertions abort the program.     *)
Start(action) ==
  /\ is_open
  /\ Accept(action)
  /\ \/ /\ ~finger_present /\ ~minutiae_scan_active /\ ~active
        /\ enroll_stage' = 0
        /\ state' = "activating"
        /\ UNCHANGED <<active, finger_present, minutiae_scan_active, action_error,
                       capture_image, is_open, idle_return>>
     \/ /\ action = "capture"          \* not waiting for a finger
        /\ idle_return' = <<"error">>
        /\ UNCHANGED <<imageVars, is_open>>

Open  == ~is_open /\ Accept("open") /\ UNCHANGED <<imageVars, is_open, idle_return>>
Close == is_open /\ Accept("close") /\ UNCHANGED <<imageVars, is_open, idle_return>>

(* The device is cancelled; the driver is told from an idle source.            *)
Cancel ==
  /\ Unanswered
  /\ cancel = "no"
  /\ cancel' = "asked"
  /\ UNCHANGED <<imageVars, current_action, is_open, result_reported, idle_return>>

(* fp_image_device_cancel_action: only a device that is active is deactivated.  *)
CancelAction ==
  /\ Unanswered
  /\ cancel = "asked"
  /\ cancel' = "told"
  /\ state' = IF current_action \in Captures THEN Deactivated(state) ELSE state
  /\ UNCHANGED <<active, finger_present, minutiae_scan_active, enroll_stage,
                 action_error, capture_image, current_action, is_open,
                 result_reported, idle_return>>

(* fp_device_task_return_in_idle_cb.                                           *)
TaskReturn ==
  /\ idle_return # <<>>
  /\ idle_return' = Tail(idle_return)
  /\ current_action' = "none"
  /\ is_open' = CASE current_action = "open"  -> idle_return[1] = "ok"
                  [] current_action = "close" -> FALSE
                  [] OTHER -> is_open
  /\ cancel' = "no"
  /\ UNCHANGED <<imageVars, result_reported>>

----------------------------------------------------------------------------
(* Calls of the driver.                                                        *)

OpenComplete ==
  /\ Unanswered
  /\ current_action = "open"
  /\ state' = "inactive"
  /\ \E result \in {"ok", "error"} : Answer(result)
  /\ UNCHANGED <<active, finger_present, minutiae_scan_active, enroll_stage,
                 action_error, capture_image, result_reported>>

CloseComplete ==
  /\ Unanswered
  /\ current_action = "close"
  /\ state' = "inactive"
  /\ \E result \in {"ok", "error"} : Answer(result)
  /\ UNCHANGED <<active, finger_present, minutiae_scan_active, enroll_stage,
                 action_error, capture_image, result_reported>>

(* A failed activation answers the action and leaves the state as it is; a     *)
(* cancel that came during the activation is not looked at.                    *)
ActivateComplete(error) ==
  /\ ~active
  /\ state = "activating"
  /\ current_action \in Captures
  /\ UNCHANGED <<finger_present, minutiae_scan_active, enroll_stage, action_error,
                 capture_image>>
  /\ IF error # "none"
     THEN Answer(error) /\ UNCHANGED <<state, active, result_reported>>
     ELSE /\ active' = TRUE
          /\ state' = "await_on"
          /\ UNCHANGED deviceVars

\* Mutant: leaves the answer to the minutiae scan.
DeactivateCompleteUnanswered(error) ==
  /\ active
  /\ state = "deactivating"
  /\ active' = FALSE
  /\ finger_present' = FALSE
  /\ state' = "inactive"
  /\ UNCHANGED <<minutiae_scan_active, enroll_stage, action_error, capture_image, deviceVars>>

DeactivateComplete(error) ==
  /\ active
  /\ state = "deactivating"
  /\ active' = FALSE
  /\ finger_present' = FALSE
  /\ state' = "inactive"
  /\ UNCHANGED <<minutiae_scan_active, enroll_stage, result_reported>>
  /\ MaybeComplete(error, capture_image)

(* fpi_image_device_report_finger_status: on.                                 *)
FingerOn ==
  /\ state # "inactive"
  /\ finger_present' = TRUE
  /\ state' = IF state = "await_on" THEN "capture" ELSE state
  /\ UNCHANGED <<active, minutiae_scan_active, enroll_stage, action_error,
                 capture_image, deviceVars>>

(* Off: an enrollment goes on when its scan is done, other actions end.        *)
FingerOff ==
  /\ state # "inactive"
  /\ finger_present' = FALSE
  /\ state' = IF state # "await_off" THEN state
              ELSE IF current_action = "enroll"
                   THEN NextFinger("idle", FALSE, minutiae_scan_active)
                   ELSE Deactivated("idle")
  /\ UNCHANGED <<active, minutiae_scan_active, enroll_stage, action_error,
                 capture_image, deviceVars>>

ImageCaptured ==
  /\ state = "capture"
  /\ current_action \in Captures
  /\ minutiae_scan_active' = TRUE
  /\ state' = "await_off"
  /\ UNCHANGED <<active, finger_present, enroll_stage, action_error, capture_image,
                 deviceVars>>

\* Mutant: an identification that is retried reports nothing.
RetryScanUnreported ==
  /\ state # "inactive"
  /\ current_action \in Captures
  /\ UNCHANGED <<active, finger_present, minutiae_scan_active, enroll_stage>>
  /\ IF current_action = "enroll"
     THEN state' = "await_off" /\ UNCHANGED <<action_error, capture_image, deviceVars>>
     ELSE /\ state' = Deactivated(state)
          /\ result_reported' = result_reported
          /\ MaybeComplete(IF current_action = "identify" THEN "none" ELSE "retry",
                          capture_image)

(* fpi_image_device_retry_scan: an enrollment waits for the finger to lift,     *)
(* an identification reports the retry, a capture fails with it.              *)
RetryScan ==
  /\ state # "inactive"
  /\ current_action \in Captures
  /\ UNCHANGED <<active, finger_present, minutiae_scan_active, enroll_stage>>
  /\ IF current_action = "enroll"
     THEN state' = "await_off" /\ UNCHANGED <<action_error, capture_image, deviceVars>>
     ELSE /\ state' = Deactivated(state)
          /\ result_reported' = (result_reported \/ current_action = "identify")
          /\ MaybeComplete(IF current_action = "identify" THEN "none" ELSE "retry",
                          capture_image)

(* fpi_image_device_session_error of an active device; the cancellation error   *)
(* of a cancelled action is ignored.                                          *)
SessionError(error) ==
  /\ active
  /\ IF error = "cancelled" /\ Cancelled THEN UNCHANGED vars
     ELSE /\ state # "inactive"
          /\ state' = Deactivated(state)
          /\ UNCHANGED <<active, finger_present, minutiae_scan_active, enroll_stage,
                         result_reported>>
          /\ MaybeComplete(error, capture_image)

----------------------------------------------------------------------------
(* fpi_image_device_minutiae_detected, by what the scan ended with.            *)

ScanEnds ==
  /\ minutiae_scan_active
  /\ minutiae_scan_active' = FALSE
  /\ UNCHANGED <<active, finger_present>>

ScanCancelled ==
  /\ ScanEnds
  /\ Cancelled
  /\ state' = Deactivated(state)
  /\ UNCHANGED <<enroll_stage, result_reported>>
  /\ MaybeComplete("cancelled", capture_image)

(* A capture keeps the image, also of a scan that failed.                      *)
ScanOfCapture ==
  /\ ScanEnds
  /\ ~Cancelled
  /\ current_action = "capture"
  /\ UNCHANGED <<state, enroll_stage, result_reported>>
  /\ \E error \in {"none", "retry"} : MaybeComplete(error, TRUE)

(* No print for another reason than a retry.                                   *)
ScanUnusable ==
  /\ ScanEnds
  /\ ~Cancelled
  /\ current_action \in {"enroll", "identify"}
  /\ state' = Deactivated(state)
  /\ UNCHANGED <<enroll_stage, result_reported>>
  /\ MaybeComplete("error", capture_image)

(* The scan of an enrollment gives a print or a retry.  The last print ends     *)
(* the enrollment; otherwise the next finger is awaited.                       *)
ScanOfEnroll ==
  /\ ScanEnds
  /\ ~Cancelled
  /\ current_action = "enroll"
  /\ enroll_stage' \in {enroll_stage, enroll_stage + 1}
  /\ UNCHANGED result_reported
  /\ IF enroll_stage' = Stages
     THEN state' = Deactivated(state) /\ MaybeComplete("none", capture_image)
     ELSE /\ state' = NextFinger(state, finger_present, FALSE)
          /\ UNCHANGED <<action_error, capture_image>>
          /\ NoAnswer

(* A match, no match or a retry is reported, a matching error is not.           *)
ScanOfIdentify ==
  /\ ScanEnds
  /\ ~Cancelled
  /\ current_action = "identify"
  /\ UNCHANGED <<state, enroll_stage>>
  /\ \/ result_reported' = TRUE /\ MaybeComplete("none", capture_image)
     \/ UNCHANGED result_reported /\ MaybeComplete("error", capture_image)

----------------------------------------------------------------------------
Client == Open \/ Close \/ Cancel \/ \E action \in Captures : Start(action)

(* What a driver of the contract does: it completes what it was asked for,      *)
(* and calls back only about a running action.                                 *)
ActivationDone   ==
  /\ Unanswered
  /\ \E error \in {"none", "error", "cancelled"} :
       /\ error = "cancelled" => Cancelled
       /\ ActivateComplete(error)
DeactivationDone == \E error \in {"none", "error"} : DeactivateComplete(error)

Driver ==
  \/ OpenComplete \/ CloseComplete \/ ActivationDone \/ DeactivationDone
  \/ /\ Unanswered
     /\ current_action \in Captures
     /\ \/ FingerOn \/ FingerOff \/ ImageCaptured
        \/ /\ state \in {"await_on", "capture"}
              \cup (IF current_action = "enroll" THEN {} ELSE {"deactivating"})
           /\ RetryScan
        \/ SessionError("error")

MinutiaeDetected ==
  ScanCancelled \/ ScanOfCapture \/ ScanUnusable \/ ScanOfEnroll \/ ScanOfIdentify

Next == Client \/ CancelAction \/ TaskReturn \/ Driver \/ MinutiaeDetected

(* The main loop runs its idle sources, the thread ends its scan, a driver      *)
(* completes an open, a close, an activation and a deactivation.  Nobody has to *)
(* touch the sensor or to lift.                                               *)
Fairness ==
  /\ WF_vars(CancelAction) /\ WF_vars(TaskReturn) /\ WF_vars(MinutiaeDetected)
  /\ WF_vars(OpenComplete) /\ WF_vars(CloseComplete)
  /\ WF_vars(ActivationDone) /\ WF_vars(DeactivationDone)

Spec == Init /\ [][Next]_vars /\ Fairness

----------------------------------------------------------------------------
(* Properties.                                                               *)

(* An action is answered once, and only when the driver and the minutiae        *)
(* thread are done with it: fp_image_device_close and the next start assert it, *)
(* and minutiae_detected relies on the action of its scan being there.         *)
AnsweredIsQuiet ==
  /\ Len(idle_return) <= 1
  /\ ~Unanswered => ~active /\ ~minutiae_scan_active

(* No image is awaited or captured while the last one is still being scanned:   *)
(* the race that the end of minutiae_detected warns of.                        *)
NoScanWhileCapturing == minutiae_scan_active => state \notin {"await_on", "capture"}

(* Success is whole: an enrollment with all its stages, an identification       *)
(* whose result was reported, a capture with its image, whatever order finger, *)
(* scan, retry and deactivation came in.                                      *)
SuccessIsWhole ==
  /\ idle_return # <<"broken">>
  /\ idle_return = <<"ok">> /\ current_action = "enroll" => enroll_stage = Stages

(* An action whose device is being deactivated is answered, whoever began the   *)
(* deactivation and whenever the scan ends - an enrollment only when no scan    *)
(* is pending or the scan finds the action cancelled.                         *)
DeactivationAnswers ==
  (/\ state = "deactivating"
   /\ current_action = "enroll" => ~minutiae_scan_active \/ Cancelled)
    ~> ~Unanswered

(* What the source says and the layer alone does not keep.                     *)

(* fpi_image_device_session_error: "This effectively aborts the current ongoing *)
(* action" - unless the scan of an enrollment ends after it and awaits the next *)
(* finger on the device that is being deactivated.                            *)
ErrorEndsAction ==
  (state = "deactivating" /\ action_error = "error") ~> ~Unanswered

(* fp_image_device_start_capture_action: "The internal state machine guarantees *)
(* both of these": no finger and no scan when an action starts - if no finger   *)
(* was reported during an activation that failed.                             *)
StartsClean == current_action = "none" => ~finger_present /\ ~minutiae_scan_active

(* fp_image_device_cancel_action: "in that case, deactivate and return an error *)
(* immediately" - but not while the device is still being activated.           *)
CancelEnds == (cancel = "told") ~> ~Unanswered
=============================================================================
