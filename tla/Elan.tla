-------------------------------- MODULE Elan --------------------------------
(* The elan driver under the image-device layer.  FpImageDevice gives the      *)
(* layer with its client, cancel and minutiae thread; this module replaces the *)
(* driver it assumes by the code of elan.c: one state machine at a time         *)
(* (activation, calibration, capture, stop), each a chain of commands.  A      *)
(* command is one wait: its request and its answer may end as one, with data,  *)
(* an error, a timeout or a cancellation.                                     *)
(* The layer calls the driver back as the last thing it does (activate,         *)
(* deactivate, change_state); that call is the step that follows, and nothing   *)
(* comes between.                                                             *)
EXTENDS FpImageDevice

CONSTANTS
  CalibrationAttempts,         \* ELAN_CALIBRATION_ATTEMPTS
  MinFrames, MaxFrames,        \* ELAN_MIN_FRAMES, ELAN_MAX_FRAMES
  Races                        \* the coincidences that the layer does not survive

ASSUME ElanAssumption ==
  /\ CalibrationAttempts \in Nat \ {0}
  /\ MinFrames \in Nat \ {0}
  /\ MaxFrames \in Nat /\ MinFrames < MaxFrames
  /\ Races \subseteq {"deaf activation", "late timeout", "stop fails"}

(* Races: an activation succeeds although its cancel has been told; in an       *)
(* enrollment, the wait for the finger times out under a deactivation, or the   *)
(* stop command fails before the scan of the image is done.                    *)

VARIABLES
  dev_type,                    \* self->dev_type, as far as control depends on it
  elan_active,                 \* self->active
  deactivating,                \* self->deactivating
  calib_atts_left, calib_status, num_frames,
  machine,                     \* the running state machine and its state
  command,                     \* "none", "sent", "doomed" (sent when cancelled), "timer"
  callee                       \* the driver callback the layer is calling

elanVars == <<dev_type, elan_active, deactivating, calib_atts_left, calib_status,
              num_frames, machine, command>>
allVars  == <<vars, elanVars, callee>>

States == [activate  |-> {"GET_FW_VER", "GET_SENSOR_DIM", "CMD_1"},
           calibrate |-> {"GET_BACKGROUND", "GET_MEAN", "GET_STATUS"},
           capture   |-> {"LED_ON", "WAIT_FINGER", "READ_DATA"},
           stop      |-> {"STOP_CAPTURE"}]

ElanTypeOK ==
  /\ TypeOK
  /\ dev_type \in {"0907", "0c58", "other"}
  /\ {elan_active, deactivating} \subseteq BOOLEAN
  /\ calib_atts_left \in 0..CalibrationAttempts
  /\ calib_status \in {"00", "01", "03"}
  /\ num_frames \in 0..MaxFrames
  /\ machine \in {<<>>} \cup UNION {{m} \X States[m] : m \in DOMAIN States}
  /\ command \in {"none", "sent", "doomed", "timer"}
  /\ callee \in {"none", "activate", "deactivate", "change_state"}

ElanInit ==
  /\ Init
  /\ dev_type \in {"0907", "0c58", "other"}
  /\ elan_active = FALSE /\ deactivating = FALSE
  /\ calib_atts_left = 0 /\ calib_status = "00" /\ num_frames = 0
  /\ machine = <<>> /\ command = "none" /\ callee = "none"

----------------------------------------------------------------------------
(* The layer.                                                                *)

(* What a handler of the layer calls last; a change to another state is not     *)
(* looked at by this driver.                                                  *)
Callback ==
  callee' = IF state' = state THEN "none"
            ELSE CASE state' = "deactivating" -> "deactivate"
                   [] state' = "await_on" -> "change_state"
                   [] OTHER -> "none"

(* Its calls that the driver makes: one that its guard refuses does nothing.   *)
Call(accepted, op) == IF accepted THEN op /\ Callback ELSE UNCHANGED <<vars, callee>>

InCapture == current_action \in Captures
ActivateCompleteCall(error) ==
  Call(~active /\ state = "activating" /\ InCapture, ActivateComplete(error))
DeactivateCompleteCall(error) ==
  Call(active /\ state = "deactivating", DeactivateComplete(error))
FingerOnCall  == Call(state # "inactive", FingerOn)
FingerOffCall == Call(state # "inactive", FingerOff)
ImageCapturedCall == Call(state = "capture" /\ InCapture, ImageCaptured)
RetryScanCall == Call(state # "inactive" /\ InCapture, RetryScan)

(* A session error of an inactive device is taken for a failed activation.     *)
SessionErrorCall(error) ==
  IF active THEN Call(state # "inactive", SessionError(error))
  ELSE ActivateCompleteCall(error)

----------------------------------------------------------------------------
(* The state machines of the driver.                                          *)

(* elan_run_cmd: only the stop command is sent without the cancellable.        *)
Run(m, s) ==
  /\ machine' = <<m, s>>
  /\ command' = IF m # "stop" /\ Cancelled THEN "doomed" ELSE "sent"

Halt == machine' = <<>> /\ command' = "none"

(* elan_dev_reset_state.                                                      *)
ResetState == calib_status' = "00" /\ num_frames' = 0

StopCapture == ResetState /\ Run("stop", "STOP_CAPTURE")

(* The results a command may have; one that fails does so with its error.      *)
Success == command = "sent"

LateTimeout == current_action = "enroll" /\ state = "deactivating"

Failures ==
  {f \in {"error", "timeout", "cancelled"} :
     \/ command = "doomed" /\ f = "cancelled"
     \/ /\ command = "sent"
        /\ f = "cancelled" => Cancelled
        /\ f = "timeout" /\ LateTimeout => "late timeout" \in Races}
Kind(failure) == IF failure = "cancelled" THEN "cancelled" ELSE "error"

At(m, s) == callee = "none" /\ machine = <<m, s>>

(* dev_activate.                                                              *)
DevActivate ==
  /\ callee = "activate"
  /\ callee' = "none"
  /\ ResetState
  /\ Run("activate", "GET_FW_VER")
  /\ UNCHANGED <<vars, dev_type, elan_active, deactivating, calib_atts_left>>

ActivateStep ==
  /\ machine # <<>> /\ machine[1] = "activate" /\ callee = "none"
  /\ Success
  /\ \/ /\ machine[2] = "GET_FW_VER"
        /\ Run("activate", "GET_SENSOR_DIM")
        /\ UNCHANGED <<vars, callee>>
     \/ /\ machine[2] = "GET_SENSOR_DIM" /\ dev_type = "0907"
        /\ Run("activate", "CMD_1")
        /\ UNCHANGED <<vars, callee>>
     \/ /\ machine[2] = (IF dev_type = "0907" THEN "CMD_1" ELSE "GET_SENSOR_DIM")
        /\ cancel = "told" => "deaf activation" \in Races
        /\ Halt
        /\ ActivateCompleteCall("none")
  /\ UNCHANGED <<dev_type, elan_active, deactivating, calib_atts_left, calib_status, num_frames>>

ActivateFails ==
  /\ machine # <<>> /\ machine[1] = "activate" /\ callee = "none"
  /\ \E failure \in Failures : ActivateCompleteCall(Kind(failure))
  /\ Halt
  /\ UNCHANGED <<dev_type, elan_active, deactivating, calib_atts_left, calib_status, num_frames>>

(* dev_change_state to AWAIT_FINGER_ON: elan_calibrate, refused on a driver     *)
(* that is still active.                                                      *)
DevChangeState ==
  /\ callee = "change_state"
  /\ callee' = "none"
  /\ ResetState
  /\ IF elan_active THEN UNCHANGED <<elan_active, calib_atts_left, machine, command>>
     ELSE /\ elan_active' = TRUE
          /\ calib_atts_left' = CalibrationAttempts
          /\ Run("calibrate", "GET_BACKGROUND")
  /\ UNCHANGED <<vars, dev_type, deactivating>>

(* elan_capture.                                                              *)
StartCapture == ResetState /\ Run("capture", "LED_ON") /\ UNCHANGED calib_atts_left

CalibrateFails(error) ==
  /\ SessionErrorCall(error)
  /\ StopCapture

(* GET_STATUS, asked a bounded number of times.                               *)
AskStatus ==
  /\ calib_atts_left' = calib_atts_left - 1
  /\ IF calib_atts_left' = 0 THEN CalibrateFails("error")
     ELSE /\ Run("calibrate", "GET_STATUS")
          /\ UNCHANGED <<vars, callee, num_frames>>
          /\ calib_status' = IF machine[2] = "GET_MEAN" THEN "00" ELSE calib_status

(* The background is saved, the mean is compared with it.  Firmware without     *)
(* calibration, or a mean that is near enough, ends the calibration.           *)
CalibrateStep ==
  /\ \/ /\ At("calibrate", "GET_BACKGROUND")
        /\ Success
        /\ \/ StartCapture /\ UNCHANGED <<vars, callee>>
           \/ /\ Run("calibrate", "GET_MEAN")
              /\ UNCHANGED <<vars, callee, calib_atts_left, calib_status, num_frames>>
     \/ /\ At("calibrate", "GET_MEAN")
        /\ Success
        /\ \/ StartCapture /\ UNCHANGED <<vars, callee>>
           \/ AskStatus
  /\ UNCHANGED <<dev_type, elan_active, deactivating>>

(* CHECK_STATUS wants to see 01 and then 03, and asks again after a delay.      *)
CheckStatus ==
  /\ At("calibrate", "GET_STATUS")
  /\ Success
  /\ \E last_read \in {"01", "03", "other"} :
       IF calib_status = "01" /\ last_read = "03"
       THEN calib_status' = "03" /\ Run("calibrate", "GET_BACKGROUND")
       ELSE /\ calib_status' = IF calib_status = "00" /\ last_read = "01" THEN "01"
                               ELSE calib_status
            /\ command' = "timer"
            /\ UNCHANGED machine
  /\ UNCHANGED <<vars, callee, dev_type, elan_active, deactivating, calib_atts_left, num_frames>>

CalibrateCommandFails ==
  /\ machine # <<>> /\ machine[1] = "calibrate" /\ callee = "none"
  /\ \E failure \in Failures : CalibrateFails(Kind(failure))
  /\ UNCHANGED <<dev_type, elan_active, deactivating, calib_atts_left>>

(* The delays of 50 and of 10 ms, which nothing cancels.                       *)
TimerFires ==
  /\ command = "timer" /\ callee = "none"
  /\ \/ machine[1] = "calibrate" /\ AskStatus
     \/ /\ machine[1] = "capture"
        /\ Run("capture", "WAIT_FINGER")
        /\ UNCHANGED <<vars, callee, calib_atts_left, calib_status, num_frames>>
  /\ UNCHANGED <<dev_type, elan_active, deactivating>>

(* capture_complete of a capture that ended by itself, or for want of the next  *)
(* frame; the sensor is stopped after it in every case.                        *)
CaptureCompletes(frames) ==
  /\ IF frames >= MinFrames THEN ImageCapturedCall ELSE RetryScanCall
  /\ StopCapture

CaptureFails(error) == SessionErrorCall(error) /\ StopCapture

(* READ_DATA with a finger: report it and read the image.                      *)
FingerFound ==
  /\ FingerOnCall
  /\ Run("capture", "READ_DATA")
  /\ UNCHANGED <<calib_status, num_frames>>

NotReady ==
  /\ dev_type = "0c58"
  /\ command' = "timer"
  /\ UNCHANGED <<vars, callee, machine, calib_status, num_frames>>

CaptureStep ==
  /\ \/ /\ At("capture", "LED_ON") /\ Success
        /\ Run("capture", "WAIT_FINGER")
        /\ UNCHANGED <<vars, callee, calib_status, num_frames>>
     \/ /\ At("capture", "WAIT_FINGER") /\ Success
        /\ FingerFound \/ NotReady \/ CaptureFails("error")
  /\ UNCHANGED <<dev_type, elan_active, deactivating, calib_atts_left>>

(* CHECK_ENOUGH_FRAMES: a frame darker than the background is an error.        *)
FrameRead ==
  /\ At("capture", "READ_DATA") /\ Success
  /\ \/ CaptureFails("error")
     \/ /\ num_frames + 1 < MaxFrames
        /\ num_frames' = num_frames + 1
        /\ Run("capture", "WAIT_FINGER")
        /\ UNCHANGED <<vars, callee, calib_status>>
     \/ /\ num_frames + 1 >= MaxFrames
        /\ CaptureCompletes(MaxFrames)
  /\ UNCHANGED <<dev_type, elan_active, deactivating, calib_atts_left>>

\* Mutant: a cancelled WAIT_FINGER is taken for a short swipe, too.
CaptureCommandFailsShort ==
  /\ machine # <<>> /\ machine[1] = "capture" /\ callee = "none"
  /\ \E failure \in Failures :
       IF failure # "error" /\ machine[2] = "WAIT_FINGER"
       THEN CaptureCompletes(num_frames)
       ELSE CaptureFails(Kind(failure))
  /\ UNCHANGED <<dev_type, elan_active, deactivating, calib_atts_left>>

(* A timeout of WAIT_FINGER ends the capture as it is.                         *)
CaptureCommandFails ==
  /\ machine # <<>> /\ machine[1] = "capture" /\ callee = "none"
  /\ \E failure \in Failures :
       IF failure = "timeout" /\ machine[2] = "WAIT_FINGER"
       THEN CaptureCompletes(num_frames)
       ELSE CaptureFails(Kind(failure))
  /\ UNCHANGED <<dev_type, elan_active, deactivating, calib_atts_left>>

StopFailsUnderScan(error) ==
  error = "error" /\ current_action = "enroll" /\ minutiae_scan_active

\* Mutant: the deactivation that waits is forgotten.
StopEndsForgets ==
  /\ At("stop", "STOP_CAPTURE")
  /\ elan_active' = FALSE
  /\ deactivating' = FALSE
  /\ Halt
  /\ FingerOffCall
  /\ UNCHANGED <<dev_type, calib_atts_left, calib_status, num_frames>>

(* stop_capture_complete: the driver is inactive; a deactivation that waits is  *)
(* completed, otherwise the finger is reported off or the error is.            *)
StopEnds ==
  /\ At("stop", "STOP_CAPTURE")
  /\ elan_active' = FALSE
  /\ deactivating' = FALSE
  /\ Halt
  /\ \E error \in {"none", "error"} :
       /\ StopFailsUnderScan(error) => "stop fails" \in Races
       /\ IF deactivating THEN DeactivateCompleteCall(error)
          ELSE IF error = "none" THEN FingerOffCall ELSE SessionErrorCall(error)
  /\ UNCHANGED <<dev_type, calib_atts_left, calib_status, num_frames>>

\* Mutant: completes a deactivation while a machine runs.
DevDeactivateNow ==
  /\ callee = "deactivate"
  /\ DeactivateCompleteCall("none")
  /\ UNCHANGED <<dev_type, elan_active, deactivating, calib_atts_left, calib_status,
                 num_frames, machine, command>>

(* dev_deactivate.                                                            *)
DevDeactivate ==
  /\ callee = "deactivate"
  /\ IF elan_active THEN deactivating' = TRUE /\ callee' = "none" /\ UNCHANGED vars
     ELSE DeactivateCompleteCall("none") /\ UNCHANGED deactivating
  /\ UNCHANGED <<dev_type, elan_active, calib_atts_left, calib_status, num_frames,
                 machine, command>>

----------------------------------------------------------------------------
ElanStart ==
  /\ \E action \in Captures : Start(action)
  /\ callee' = IF idle_return' = idle_return THEN "activate" ELSE "none"

Layer ==
  /\ callee = "none"
  /\ \/ (Open \/ Close \/ Cancel \/ TaskReturn \/ OpenComplete \/ CloseComplete)
        /\ UNCHANGED callee
     \/ (CancelAction \/ MinutiaeDetected) /\ Callback
     \/ ElanStart
  /\ UNCHANGED elanVars

CommandEnds ==
  \/ ActivateStep \/ ActivateFails
  \/ CalibrateStep \/ CheckStatus \/ CalibrateCommandFails
  \/ CaptureStep \/ FrameRead \/ CaptureCommandFails
  \/ TimerFires \/ StopEnds

CalledBack == DevActivate \/ DevChangeState \/ DevDeactivate

ElanNext == Layer \/ CommandEnds \/ CalledBack

(* The main loop dispatches; commands end, since each has a timeout.           *)
ElanFairness ==
  /\ WF_allVars(CommandEnds) /\ WF_allVars(CalledBack)
  /\ WF_allVars(Layer /\ CancelAction) /\ WF_allVars(Layer /\ TaskReturn)
  /\ WF_allVars(Layer /\ MinutiaeDetected)
  /\ WF_allVars(Layer /\ (OpenComplete \/ CloseComplete))

ElanSpec == ElanInit /\ [][ElanNext]_allVars /\ ElanFairness

----------------------------------------------------------------------------
(* Properties.                                                               *)

(* The driver is what the layer assumes of one: it completes, captures, retries *)
(* and fails only where FpImageDevice lets a driver do so - whatever cancel,    *)
(* timeout or failed command its machines meet.                                *)
KeepsContract == [][Next]_vars

(* An answered action leaves nothing behind: no scan, no machine of the driver  *)
(* that would run into the next activation, no finger that the next start      *)
(* asserts to be gone.                                                        *)
ElanIsQuiet ==
  current_action = "none" =>
    ~active /\ ~minutiae_scan_active /\ ~elan_active /\ machine = <<>> /\ StartsClean

(* fpi_image_device_session_error drops a cancellation, "as we will explicitly  *)
(* deactivate anyway (or, may already have done so at this point)": the action  *)
(* whose cancel the driver was told of is answered.                            *)
ToldCancelEnds == (cancel = "told" /\ InCapture) ~> ~Unanswered
=============================================================================
