-------------------------- MODULE Egis0575Session --------------------------
(* The egis0575 driver between its calls: one client, the FpDevice action   *)
(* life cycle (FpDeviceTask), the capture loop (an FpiSsm that outlives the  *)
(* action that started it) and the timers that start, cancel and close it.  *)
(* Every action below is one main-loop callback or one client call.  The    *)
(* loop's twenty-five states are kept to what its companions can see: a      *)
(* transfer in flight or a delayed jump pending, in the calibration chain,   *)
(* the frame poll or the shutdown chain.                                    *)
EXTENDS FpDeviceTask

CONSTANTS
  CalTransfers,                \* bound: transfers of a calibration chain
  FrameTransfers,              \* bound: transfers of one frame poll
  ShutdownTransfers,           \* transfers of the shutdown chain (18 in the code)
  StartWaitMax,                \* EGIS0575_ACTION_START_WAIT_MAX_MS, in ticks
  ClosePollMax                 \* EGIS0575_CLOSE_POLL_MAX_RETRIES

ASSUME SessionAssumption ==
  /\ CalTransfers \in Nat \ {0}
  /\ FrameTransfers \in Nat \ {0}
  /\ ShutdownTransfers \in Nat \ {0, 1}
  /\ StartWaitMax \in Nat \ {0}
  /\ ClosePollMax \in Nat \ {0}

VARIABLES
  cal_skip,                    \* self->cal_skip, EGIS0575_SKIP_CALIBRATION=1
  running,                     \* self->running
  stop,                        \* self->stop
  phase,                       \* where the capture SSM stands
  left,                        \* transfers left in its current chain
  transfer_in_flight,          \* self->transfer_in_flight
  doomed,                      \* the transfer was submitted with a cancelled cancellable
  held_back,                   \* task returns queued ahead of the loop's source
  owner,                       \* history: the task whose request started the loop
  cancel_watchdog_armed,       \* self->cancel_watchdog_armed
  cancel_watchdog_source,      \* self->cancel_watchdog_source is pending
  start_timers,                \* pending start_capture_action_cb, by requesting task
  action_start_wait,           \* age of self->action_start_wait_since, 0 when unset
  settle_timers,               \* pending open_settle_cb, by requesting task
  close_timers,                \* pending close_poll_cb, by requesting task
  close_poll_retries,          \* self->close_poll_retries
  usb_open,                    \* the GUsbDevice is open
  claimed                      \* the USB interface is claimed

transferVars == <<transfer_in_flight, doomed, held_back>>
loopVars == <<running, phase, left, transferVars, owner>>
watchdogVars == <<cancel_watchdog_armed, cancel_watchdog_source>>
startVars == <<start_timers, action_start_wait>>
openVars == <<settle_timers, cal_skip>>
closeVars == <<close_timers, close_poll_retries>>
usbVars == <<usb_open, claimed>>
vars == <<deviceVars, loopVars, stop, watchdogVars, startVars, openVars,
          closeVars, usbVars>>

Transferring == {"cal", "frame", "shutdown"}
Delayed == {"to_cal", "to_init", "to_start"}
Phase == {"off"} \cup Transferring \cup Delayed

TypeOK ==
  /\ DeviceTypeOK
  /\ cal_skip \in BOOLEAN
  /\ running \in BOOLEAN
  /\ stop \in BOOLEAN
  /\ phase \in Phase
  /\ left \in Nat
  /\ transfer_in_flight \in BOOLEAN
  /\ doomed \in BOOLEAN
  /\ held_back \in Nat
  /\ owner \in Task \cup {NoTask}
  /\ cancel_watchdog_armed \in BOOLEAN
  /\ cancel_watchdog_source \in BOOLEAN
  /\ start_timers \subseteq Task
  /\ action_start_wait \in 0..StartWaitMax + 1
  /\ settle_timers \subseteq Task
  /\ close_timers \subseteq Task
  /\ close_poll_retries \in Nat
  /\ usb_open \in BOOLEAN
  /\ claimed \in BOOLEAN

Init ==
  /\ DeviceInit
  /\ cal_skip \in BOOLEAN
  /\ running = FALSE
  /\ stop = FALSE
  /\ phase = "off"
  /\ left = 0
  /\ transfer_in_flight = FALSE
  /\ doomed = FALSE
  /\ held_back = 0
  /\ owner = NoTask
  /\ cancel_watchdog_armed = FALSE
  /\ cancel_watchdog_source = FALSE
  /\ start_timers = {}
  /\ action_start_wait = 0
  /\ settle_timers = {}
  /\ close_timers = {}
  /\ close_poll_retries = 0
  /\ usb_open = FALSE
  /\ claimed = FALSE

----------------------------------------------------------------------------
(* The capture loop: what its state machine does when it moves on.           *)

(* capture_transfer_submit with n transfers to go: the transfer carries the  *)
(* cancellable of the current action, or none between actions.  A source     *)
(* attached behind a queued task return is dispatched after it (equal         *)
(* priority, first in first out).                                            *)
Submit(p, n, is_cancelled, behind) ==
  /\ phase' = p
  /\ left' = n
  /\ transfer_in_flight' = TRUE
  /\ doomed' = is_cancelled
  /\ held_back' = behind

SubmitNext(p, n) == Submit(p, n, cancelled, Len(idle_return))

(* fpi_ssm_jump_to_state_delayed: only a timer is pending.                    *)
JumpDelayed(p) ==
  /\ phase' = p
  /\ left' = 0
  /\ transfer_in_flight' = FALSE
  /\ doomed' = FALSE
  /\ held_back' = Len(idle_return)

KeepRunning == UNCHANGED <<running, owner, watchdogVars>>

\* Mutant: a clean end reports nothing, cancelled or not.
ReportsErrors(failed) == current_action # "none" /\ failed

(* The SSM ends and is freed; loop_complete forgets it and its watchdog, and  *)
(* reports to whatever action is current: its cancellation, else the error.   *)
(* Completing a close closes the USB device and with it the claim.            *)
Reports(failed) == current_action # "none" /\ (cancelled \/ failed)

\* Mutant: the error wins over the cancellation.
LoopCompletePrefersError(failed) ==
  /\ running' = FALSE
  /\ phase' = "off"
  /\ left' = 0
  /\ owner' = NoTask
  /\ cancel_watchdog_armed' = FALSE
  /\ cancel_watchdog_source' = FALSE
  /\ IF Reports(failed) THEN Complete(IF failed THEN "failed" ELSE "cancelled")
     ELSE UNCHANGED deviceVars
  /\ UNCHANGED stop

LoopComplete(failed) ==
  /\ running' = FALSE
  /\ phase' = "off"
  /\ left' = 0
  /\ owner' = NoTask
  /\ cancel_watchdog_armed' = FALSE
  /\ cancel_watchdog_source' = FALSE
  /\ IF Reports(failed) THEN Complete(IF cancelled THEN "cancelled" ELSE "failed")
     ELSE UNCHANGED deviceVars
  /\ UNCHANGED stop

UsbAfter(failed, keeps_claim) ==
  LET closes == current_action = "close" /\ Reports(failed)
  IN /\ usb_open' = (usb_open /\ ~closes)
     /\ claimed' = (claimed /\ keeps_claim /\ ~closes)

(* No transfer stays in flight: its callback is what ends the loop.            *)
Landed ==
  /\ transfer_in_flight' = FALSE
  /\ doomed' = FALSE
  /\ held_back' = 0

LoopFails ==
  /\ LoopComplete(TRUE)
  /\ Landed
  /\ UsbAfter(TRUE, TRUE)

LoopEnds ==
  /\ LoopComplete(FALSE)
  /\ Landed
  /\ UsbAfter(FALSE, TRUE)

(* SM_START: the loop stops between two frames, or polls the next one.       *)
EnterStart ==
  IF stop THEN LoopEnds
  ELSE /\ SubmitNext("frame", FrameTransfers)
       /\ KeepRunning
       /\ UNCHANGED <<deviceVars, stop, usbVars>>

(* SM_INIT: without calibration a first pre-init packet is delayed.          *)
EnterInit ==
  \/ EnterStart
  \/ /\ cal_skip
     /\ JumpDelayed("to_start")
     /\ KeepRunning
     /\ UNCHANGED <<deviceVars, stop, usbVars>>

(* SM_CAL_START / SM_POST_RESET: run a calibration chain; when it is skipped   *)
(* SM_INIT starts over with a delayed first pre-init packet.                  *)
EnterCal ==
  /\ IF cal_skip THEN JumpDelayed("to_start")
     ELSE \E n \in 1..CalTransfers : SubmitNext("cal", n)
  /\ KeepRunning
  /\ UNCHANGED <<deviceVars, stop, usbVars>>

(* recycle_interface_claim, then a delayed restart; the release fails when    *)
(* nothing is claimed, and the claim may not come back.                       *)
RecycleClaim(p) ==
  \/ /\ claimed
     /\ JumpDelayed(p)
     /\ KeepRunning
     /\ UNCHANGED <<deviceVars, stop, usbVars>>
  \/ LoopFails
  \/ /\ claimed
     /\ LoopComplete(TRUE)
     /\ Landed
     /\ UsbAfter(TRUE, FALSE)

RestartCaptureCycle == RecycleClaim(IF cal_skip THEN "to_init" ELSE "to_cal")

(* SM_DONE: the shutdown chain starts.  An enroll or a capture is answered     *)
(* before its first transfer is submitted, a verify after it.                 *)
EnterDone(behind) ==
  /\ Submit("shutdown", ShutdownTransfers, cancelled, behind)
  /\ KeepRunning
  /\ UNCHANGED usbVars

(* save_img has a frame: it stops if told to, completes the capture action    *)
(* it serves, polls on (at once, after the idle delay, or after recycling the *)
(* claim), or the sensor-health watchdog restarts the calibration.            *)
SaveImg ==
  IF stop
  THEN EnterDone(Len(idle_return)) /\ UNCHANGED <<deviceVars, stop>>
  ELSE \/ /\ current_action \in CaptureAction
          /\ Complete("ok")
          /\ stop' = TRUE
          /\ EnterDone(Len(idle_return) + (IF current_action = "verify" THEN 0 ELSE 1))
       \/ EnterStart
       \/ /\ JumpDelayed("to_init")
          /\ KeepRunning
          /\ UNCHANGED <<deviceVars, stop, usbVars>>
       \/ RestartCaptureCycle
       \/ RecycleClaim("to_cal")

----------------------------------------------------------------------------
(* Main-loop callbacks.                                                      *)

Others == UNCHANGED <<startVars, openVars, closeVars>>

(* A transfer of the calibration chain: every error fails the action, and so  *)
(* do a broken block and a poll that does not converge.                       *)
CalTransferDone ==
  /\ phase = "cal"
  /\ held_back = 0
  /\ Others
  /\ \/ LoopFails
     \/ /\ ~doomed
        /\ left > 1
        /\ SubmitNext("cal", left - 1)
        /\ KeepRunning
        /\ UNCHANGED <<deviceVars, stop, usbVars>>
     \/ ~doomed /\ left = 1 /\ EnterStart

(* req_cb / resp_cb: a timeout recycles the claim and restarts unless the     *)
(* loop is stopping or the retries are spent, other errors fail the action,   *)
(* the last response is a frame.                                              *)
FrameTransferDone ==
  /\ phase = "frame"
  /\ held_back = 0
  /\ Others
  /\ \/ LoopFails
     \/ ~doomed /\ ~stop /\ RestartCaptureCycle
     \/ /\ ~doomed
        /\ left > 1
        /\ SubmitNext("frame", left - 1)
        /\ KeepRunning
        /\ UNCHANGED <<deviceVars, stop, usbVars>>
     \/ ~doomed /\ left = 1 /\ SaveImg

(* The 01 01 01 response: the frame sequence starts over with pre-init.       *)
PreInitRequired ==
  /\ phase = "frame"
  /\ held_back = 0
  /\ cal_skip
  /\ ~doomed
  /\ SubmitNext("frame", FrameTransfers)
  /\ KeepRunning
  /\ Others
  /\ UNCHANGED <<deviceVars, stop, usbVars>>

\* Mutant: an error ends the shutdown chain like any other chain.
ShutdownTransferFails ==
  /\ phase = "shutdown"
  /\ held_back = 0
  /\ Others
  /\ \/ LoopFails
     \/ /\ left > 1
        /\ SubmitNext("shutdown", left - 1)
        /\ KeepRunning
        /\ UNCHANGED <<deviceVars, stop, usbVars>>
     \/ left = 1 /\ LoopEnds

\* Mutant: a failed shutdown packet is sent again.
ShutdownTransferRetries ==
  /\ phase = "shutdown"
  /\ held_back = 0
  /\ Others
  /\ IF left > 1
     THEN /\ \E n \in {left - 1, left} : SubmitNext("shutdown", n)
          /\ KeepRunning
          /\ UNCHANGED <<deviceVars, stop, usbVars>>
     ELSE LoopEnds

(* shutdown_ignoring_cb: errors do not stop the shutdown chain.               *)
ShutdownTransferDone ==
  /\ phase = "shutdown"
  /\ held_back = 0
  /\ Others
  /\ IF left > 1
     THEN /\ SubmitNext("shutdown", left - 1)
          /\ KeepRunning
          /\ UNCHANGED <<deviceVars, stop, usbVars>>
     ELSE LoopEnds

DelayFires ==
  /\ phase \in Delayed
  /\ held_back = 0
  /\ Others
  /\ CASE phase = "to_cal" -> EnterCal
       [] phase = "to_init" -> EnterInit
       [] phase = "to_start" -> EnterStart

(* fp_device_cancel_in_idle_cb and dev_cancel: stop the loop and, once per    *)
(* loop, arm the watchdog.                                                    *)
CancelInIdle ==
  /\ idle_cancel
  /\ idle_cancel' = FALSE
  /\ stop' = TRUE
  /\ cancel_watchdog_armed' = (cancel_watchdog_armed \/ running)
  /\ cancel_watchdog_source' = (cancel_watchdog_source
                                  \/ (running /\ ~cancel_watchdog_armed))
  /\ UNCHANGED <<is_open, current_action, current_task, cancelled, idle_return>>
  /\ UNCHANGED <<loopVars, startVars, openVars, closeVars, usbVars>>

\* Mutant: the loop is ended under its transfer.
CancelWatchdogUnderTransfer ==
  /\ cancel_watchdog_source
  /\ cancel_watchdog_armed
  /\ running
  /\ LoopComplete(TRUE)
  /\ UsbAfter(TRUE, TRUE)
  /\ UNCHANGED transferVars
  /\ Others

(* cancel_watchdog_cb: force the loop to fail, never under a transfer.  While *)
(* one is in flight the callback only re-arms itself, which is no step here.  *)
CancelWatchdog ==
  /\ cancel_watchdog_source
  /\ cancel_watchdog_armed
  /\ running
  /\ ~transfer_in_flight
  /\ LoopComplete(TRUE)
  /\ UsbAfter(TRUE, TRUE)
  /\ UNCHANGED transferVars
  /\ Others

(* start_capture_action behind a running loop: wait for it, up to a bound.    *)
WaitAge == IF action_start_wait = 0 THEN 1 ELSE action_start_wait

WaitForLoop(t) ==
  /\ running
  /\ WaitAge <= StartWaitMax
  /\ action_start_wait' = WaitAge
  /\ start_timers' = start_timers \cup {t}
  /\ UNCHANGED <<loopVars, stop, watchdogVars>>

GiveUpWaiting(t) ==
  /\ running
  /\ WaitAge > StartWaitMax
  /\ action_start_wait' = 0
  /\ start_timers' = start_timers \ {t}
  /\ UNCHANGED <<loopVars, stop, watchdogVars>>

\* Mutant: the previous loop is not waited for.
StartLoopAnyway(t, u, is_cancelled) ==
  /\ running' = TRUE
  /\ owner' = u
  /\ stop' = FALSE
  /\ IF cal_skip THEN JumpDelayed("to_start")
     ELSE \E n \in 1..CalTransfers : Submit("cal", n, is_cancelled, Len(idle_return))
  /\ action_start_wait' = 0
  /\ start_timers' = start_timers \ {t}
  /\ UNCHANGED watchdogVars

(* start_capture_action without one: reset the action state and start.  Timer *)
(* t is not pending any more; task u is the current one.                       *)
StartLoop(t, u, is_cancelled) ==
  /\ ~running
  /\ running' = TRUE
  /\ owner' = u
  /\ stop' = FALSE
  /\ IF cal_skip THEN JumpDelayed("to_start")
     ELSE \E n \in 1..CalTransfers : Submit("cal", n, is_cancelled, Len(idle_return))
  /\ action_start_wait' = 0
  /\ start_timers' = start_timers \ {t}
  /\ UNCHANGED watchdogVars

(* start_capture_action_cb, armed by the request of task t; it looks at the   *)
(* action that is current now.                                               *)
StartTimer(t) ==
  /\ t \in start_timers
  /\ UNCHANGED <<openVars, closeVars, usbVars>>
  /\ \/ /\ current_action \notin CaptureAction
        /\ start_timers' = start_timers \ {t}
        /\ action_start_wait' = 0
        /\ UNCHANGED <<deviceVars, loopVars, stop, watchdogVars>>
     \/ /\ current_action \in CaptureAction
        /\ \/ WaitForLoop(t) /\ UNCHANGED deviceVars
           \/ GiveUpWaiting(t) /\ Complete("busy")
           \/ StartLoop(t, current_task, cancelled) /\ UNCHANGED deviceVars

(* A tick of the clock against the start wait (a named bound: StartWaitMax);  *)
(* a queued task return is dispatched long before the next tick.              *)
WaitTick ==
  /\ idle_return = <<>>
  /\ action_start_wait \in 1..StartWaitMax
  /\ action_start_wait' = action_start_wait + 1
  /\ UNCHANGED <<deviceVars, loopVars, stop, watchdogVars, start_timers,
                 openVars, closeVars, usbVars>>

(* open_settle_cb.  The settle delay is three times the 50 ms of the start    *)
(* and close polls, so a poll armed before the open has fired by now.         *)
OpenSettled(t) ==
  /\ t \in settle_timers
  /\ start_timers = {}
  /\ close_timers = {} \/ running
  /\ settle_timers' = settle_timers \ {t}
  /\ UNCHANGED cal_skip
  /\ CompleteAction("open", "ok")
  /\ UNCHANGED <<loopVars, stop, watchdogVars, startVars, closeVars, usbVars>>

\* Mutant: the interface is released, the close is not completed.
ClosePollForgetsClose(t) ==
  /\ t \in close_timers
  /\ close_poll_retries' = close_poll_retries + 1
  /\ UNCHANGED <<deviceVars, loopVars, stop, watchdogVars, startVars, openVars>>
  /\ IF running /\ close_poll_retries' < ClosePollMax
     THEN UNCHANGED <<close_timers, usbVars>>
     ELSE /\ close_timers' = close_timers \ {t}
          /\ claimed' = FALSE
          /\ usb_open' = (usb_open /\ current_action # "close")

(* close_poll_cb: poll again while the loop runs, give up after the cap, and  *)
(* release the interface.  Completing the close is a no-op without one.       *)
ClosePoll(t) ==
  /\ t \in close_timers
  /\ close_poll_retries' = close_poll_retries + 1
  /\ UNCHANGED <<loopVars, stop, watchdogVars, startVars, openVars>>
  /\ IF running /\ close_poll_retries' < ClosePollMax
     THEN UNCHANGED <<deviceVars, close_timers, usbVars>>
     ELSE /\ close_timers' = close_timers \ {t}
          /\ claimed' = FALSE
          /\ usb_open' = (usb_open /\ current_action # "close")
          /\ CompleteAction("close", IF claimed THEN "ok" ELSE "failed")

(* fp_device_task_return_in_idle_cb; the sources attached behind it follow.   *)
ReturnTask ==
  /\ TaskReturn
  /\ held_back' = IF held_back = 0 THEN 0 ELSE held_back - 1
  /\ UNCHANGED <<running, phase, left, transfer_in_flight, doomed,
                 owner, stop, watchdogVars, startVars, openVars,
                 closeVars, usbVars>>

----------------------------------------------------------------------------
(* Client calls.                                                             *)

InUse == {current_task, owner}
         \cup start_timers \cup settle_timers \cup close_timers
         \cup {idle_return[k].task : k \in 1..Len(idle_return)}

(* A call is a GTask of its own: identities are reused only when nothing in   *)
(* the program remembers them (Task bounds how many are remembered at once).  *)
Fresh(t) == t \notin InUse /\ \A u \in Task : u < t => u \in InUse

(* fp_device_open and dev_open: open the USB device, claim the interface and  *)
(* let it settle.  A failed claim leaves the USB device open, and             *)
(* g_usb_device_open refuses an open device: every later call fails at once.  *)
Open(t) ==
  /\ Fresh(t)
  /\ Accept("open", t)
  /\ ~usb_open
  /\ usb_open' = TRUE
  /\ UNCHANGED <<is_open, loopVars, stop, watchdogVars, startVars, closeVars, cal_skip>>
  /\ \/ /\ claimed' = TRUE
        /\ settle_timers' = settle_timers \cup {t}
        /\ UNCHANGED <<idle_cancel, idle_return>>
     \/ /\ Queue(t, "open", "failed")
        /\ UNCHANGED <<claimed, settle_timers>>

(* fp_device_enroll / verify / capture and the driver's entry: a verify with   *)
(* an unusable template fails at once, everything else starts the loop or     *)
(* waits for the previous one.                                                *)
StartCapture(t, action) ==
  /\ Fresh(t)
  /\ Accept(action, t)
  /\ UNCHANGED <<is_open, openVars, closeVars, usbVars>>
  /\ \/ /\ action = "verify"
        /\ Queue(t, action, "invalid")
        /\ UNCHANGED <<loopVars, stop, watchdogVars, startVars>>
     \/ WaitForLoop(t) /\ UNCHANGED <<idle_cancel, idle_return>>
     \/ GiveUpWaiting(t) /\ Queue(t, action, "busy")
     \/ StartLoop(t, t, FALSE) /\ UNCHANGED <<idle_cancel, idle_return>>

\* Mutant: the close stops the loop and releases without waiting for it.
CloseAtOnce(t) ==
  /\ Fresh(t)
  /\ Accept("close", t)
  /\ Queue(t, "close", IF claimed THEN "ok" ELSE "failed")
  /\ stop' = TRUE
  /\ usb_open' = FALSE
  /\ claimed' = FALSE
  /\ UNCHANGED <<is_open, loopVars, watchdogVars, startVars, openVars, closeVars>>

(* fp_device_close and dev_close: release at once, or stop the loop and poll.  *)
Close(t) ==
  /\ Fresh(t)
  /\ Accept("close", t)
  /\ UNCHANGED <<is_open, loopVars, watchdogVars, startVars, openVars>>
  /\ IF running
     THEN /\ stop' = TRUE
          /\ close_poll_retries' = 0
          /\ close_timers' = close_timers \cup {t}
          /\ UNCHANGED <<idle_cancel, idle_return, usbVars>>
     ELSE /\ Queue(t, "close", IF claimed THEN "ok" ELSE "failed")
          /\ usb_open' = FALSE
          /\ claimed' = FALSE
          /\ UNCHANGED <<stop, closeVars>>

Cancel ==
  /\ ClientCancel
  /\ UNCHANGED <<loopVars, stop, watchdogVars, startVars, openVars,
                 closeVars, usbVars>>

----------------------------------------------------------------------------
MainLoop ==
  \/ CalTransferDone \/ FrameTransferDone \/ PreInitRequired
  \/ ShutdownTransferDone \/ DelayFires
  \/ CancelInIdle \/ CancelWatchdog \/ WaitTick \/ ReturnTask
  \/ \E t \in Task : StartTimer(t) \/ OpenSettled(t) \/ ClosePoll(t)

Client ==
  \/ Cancel
  \/ \E t \in Task : \/ Open(t) \/ Close(t)
                     \/ \E action \in CaptureAction : StartCapture(t, action)

Next == MainLoop \/ Client

Spec == Init /\ [][Next]_vars

(* The main loop runs: every attached source is dispatched, a transfer ends    *)
(* within EGIS0575_TIMEOUT, time passes.  Clients owe nothing.                *)
Fairness ==
  /\ WF_vars(CalTransferDone) /\ WF_vars(FrameTransferDone)
  /\ WF_vars(ShutdownTransferDone) /\ WF_vars(DelayFires)
  /\ WF_vars(CancelInIdle) /\ WF_vars(WaitTick) /\ WF_vars(ReturnTask)
  /\ \A t \in Task : WF_vars(StartTimer(t)) /\ WF_vars(OpenSettled(t))
                      /\ WF_vars(ClosePoll(t))

FairSpec == Spec /\ Fairness

----------------------------------------------------------------------------
(* Properties.                                                               *)

(* A transfer in flight always has a live state machine to come back to: no   *)
(* callback of capture_transfer_submit runs on a freed SSM, whoever ends the  *)
(* loop (loop_complete from a callback, from a timer, from the watchdog).     *)
TransferHasLoop == transfer_in_flight => running

(* A pending cancel watchdog always has the loop it was armed for: none can   *)
(* fire into a later action (loop_complete destroys it).                      *)
WatchdogHasLoop == cancel_watchdog_source => running /\ cancel_watchdog_armed

(* A live loop is never replaced by a second one: start_capture_action only   *)
(* starts when the previous loop is gone.                                     *)
LoopKeepsOwner == [][running /\ running' => owner' = owner]_vars

(* The interface is never given up under a transfer that stays in flight,     *)
(* except by a close that has polled ClosePollMax times (close_poll_cb).      *)
ReleaseUnderTransferOnlyAtCap ==
  [][claimed /\ ~claimed' /\ transfer_in_flight /\ transfer_in_flight'
       => close_poll_retries' >= ClosePollMax]_vars

(* An answer is queued in this step.                                          *)
Queued(t, action, result) ==
  /\ Len(idle_return') > Len(idle_return)
  /\ idle_return'[Len(idle_return')] =
       [task |-> t, action |-> action, result |-> result]

(* A device failure is never reported to a capture action that was cancelled: *)
(* a cancel that raced a USB error surfaces as a cancellation (loop_complete). *)
CancelIsNotFailure ==
  [][\A action \in CaptureAction :
       cancelled => ~Queued(current_task, action, "failed")]_vars

(* Once a capture action has succeeded, the loop that still has to shut the     *)
(* sensor down does not report a cancellation or an error for it.             *)
Success(k) == idle_return[k].action \in CaptureAction /\ idle_return[k].result = "ok"

SuccessIsFinal ==
  \A k, l \in 1..Len(idle_return) :
    k < l /\ idle_return[k].task = idle_return[l].task /\ Success(k)
      => idle_return[l].result \notin {"cancelled", "failed"}

(* A close is answered only once the capture loop is gone, whoever answers it *)
(* (dev_close, close_poll_cb, loop_complete), unless it has polled            *)
(* ClosePollMax times.                                                        *)
CloseWaitsForLoop ==
  [][\A t \in Task, result \in Result :
       Queued(t, "close", result)
         => ~running' \/ close_poll_retries' >= ClosePollMax]_vars

(* The promise every completion of fpi-device.c relies on: a call is answered *)
(* once.  The driver breaks it in the ways the violation runs of MCSession    *)
(* show; what follows about answers is claimed for behaviours that keep it.   *)
AnsweredOnce ==
  \A k, l \in 1..Len(idle_return) :
    idle_return[k].task = idle_return[l].task => k = l

(* The inductive invariant of the safety properties above.  A loop stands      *)
(* somewhere exactly while it runs, and has a transfer out exactly where a    *)
(* transfer is waited for; a queued answer for the current call is an answer  *)
(* to its action; behind a queued success the shutdown chain is still at its  *)
(* first transfer, or at one that lands after that success was returned.      *)
LoopInv ==
  /\ running <=> phase # "off"
  /\ transfer_in_flight <=> phase \in Transferring
  /\ cancel_watchdog_source = cancel_watchdog_armed
  /\ cancel_watchdog_armed => running

TaskInv ==
  /\ current_task = NoTask <=> current_action = "none"
  /\ \A k \in 1..Len(idle_return) :
       idle_return[k].task = current_task => idle_return[k].action = current_action

ShutdownInv ==
  \A k \in 1..Len(idle_return) :
    Success(k) => phase = "shutdown" /\ (left = ShutdownTransfers \/ held_back >= k)

IInv == TypeOK /\ LoopInv /\ TaskInv /\ ShutdownInv /\ SuccessIsFinal

(* A loop that is told to stop comes to its end (SM_DONE or SM_START), unless  *)
(* the sensor asks for pre-init for ever: resp_cb bounds no repetition of its *)
(* 01 01 01 response and does not look at the stop, and the transfers of a    *)
(* loop stopped by a close carry no cancellation that would end them.         *)
StopDrains == ~[]<><<PreInitRequired>>_vars => ((running /\ stop) ~> ~running)

(* A cancelled call is answered, whatever the loop was doing.                  *)
CancelAnswered ==
  []AnsweredOnce =>
    \A t \in Task : (current_task = t /\ cancelled) ~> (current_task # t)

(* An open and a close are always answered.                                   *)
OpenCloseAnswered ==
  []AnsweredOnce =>
    \A t \in Task :
      (current_task = t /\ current_action \in {"open", "close"}) ~> (current_task # t)

(* The loop the session drives is the one Egis0575Capture implements in detail: *)
(* once stopped, by a cancel, a close or its own success, it begins no poll and *)
(* no restart, and only a new action's start takes the stop back.              *)
Loop == INSTANCE CaptureLoop

ImplementsLoop == Loop!Spec
=============================================================================
