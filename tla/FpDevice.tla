------------------------------ MODULE FpDevice ------------------------------
(* The FpDevice layer of libfprint: one call at a time is handed to the      *)
(* driver, and cancellation, suspend, resume, unplugging, overheating and    *)
(* the driver's critical sections interleave with it.  The driver is the     *)
(* environment: it enters and leaves critical sections, answers suspend and  *)
(* resume requests and completes the action when it likes.  A task returned  *)
(* from its idle source runs the client's callback first (the client may     *)
(* make its next call there) and the handlers connected to its completion    *)
(* after that, in the order they were connected.                             *)
EXTENDS Naturals, Sequences

CONSTANTS
  Calls,                       \* bound: the calls the client makes
  Classes,                     \* the optional vfuncs a driver may implement
  MaxCritical                  \* bound: nesting of critical sections

Long == {"enroll", "verify", "identify", "capture"}
Short == {"open", "close", "delete", "list", "clear_storage"}
Vfunc == {"cancel", "suspend", "resume"}

ASSUME DeviceAssumption ==
  /\ Calls \subseteq Long \cup Short
  /\ Classes \subseteq SUBSET Vfunc
  /\ MaxCritical \in Nat

VARIABLES
  cls,                         \* the vfuncs of this device's class
  is_open,                     \* priv->is_open
  usb_open,                    \* the GUsbDevice is open
  action,                      \* priv->current_action, "none" without a task
  result,                      \* the queued return of the task, "none" before
  wants_cancel,                \* the client's cancellable is cancelled
  cancelled,                   \* priv->current_cancellable is cancelled
  idle_cancel,                 \* priv->current_idle_cancel_source is pending
  reason,                      \* priv->current_cancellation_reason
  critical,                    \* priv->critical_section
  flush,                       \* priv->critical_section_flush_source is pending
  queued,                      \* cancel_queued, suspend_queued, resume_queued
  is_suspended,                \* priv->is_suspended
  request,                     \* priv->suspend_resume_task
  suspend_error,               \* priv->suspend_error
  is_removed,                  \* priv->is_removed
  handlers,                    \* connected to notify::completed of the task
  returning,                   \* a task is being returned
  leaving,                     \* the handlers of that task still to run
  told,                        \* cls->cancel was called for the current action
  asked,                       \* cls->suspend or cls->resume not answered yet
  announced,                   \* history: the removed signal was emitted
  answer,                      \* history: what the last returned call reported
  promised                     \* history: a suspend succeeded, no resume since

taskVars == <<is_open, usb_open, action, result, wants_cancel, told>>
cancelVars == <<cancelled, idle_cancel, reason>>
criticalVars == <<critical, flush>>
powerVars == <<is_suspended, request, suspend_error, asked, promised>>
removalVars == <<is_removed, announced>>
returnVars == <<returning, leaving, answer>>
vars == <<cls, taskVars, cancelVars, criticalVars, queued, powerVars, removalVars,
          handlers, returnVars>>

Handler == {"removed", "suspended", "short"}
Answer == {"ok", "failed", "cancelled", "busy", "hot", "removed"}

FlagsOK ==
  /\ is_open \in BOOLEAN /\ usb_open \in BOOLEAN
  /\ wants_cancel \in BOOLEAN /\ told \in BOOLEAN
  /\ cancelled \in BOOLEAN /\ idle_cancel \in BOOLEAN /\ flush \in BOOLEAN
  /\ is_suspended \in BOOLEAN /\ suspend_error \in BOOLEAN /\ promised \in BOOLEAN
  /\ is_removed \in BOOLEAN /\ announced \in BOOLEAN /\ returning \in BOOLEAN

DataOK ==
  /\ cls \in Classes
  /\ action \in {"none"} \cup Calls
  /\ result \in {"none", "ok", "failed"}
  /\ reason \in {"none", "busy", "hot"}
  /\ critical \in 0..MaxCritical
  /\ queued \subseteq Vfunc
  /\ request \in {"none", "suspend", "resume"}
  /\ asked \in {"none", "suspend", "resume"}
  /\ handlers \in Seq(Handler) /\ leaving \in Seq(Handler)
  /\ answer \in {"none"} \cup Answer

TypeOK == FlagsOK /\ DataOK

Init ==
  /\ cls \in Classes
  /\ is_open = FALSE /\ usb_open = FALSE
  /\ action = "none" /\ result = "none"
  /\ wants_cancel = FALSE /\ told = FALSE
  /\ cancelled = FALSE /\ idle_cancel = FALSE /\ reason = "none"
  /\ critical = 0 /\ flush = FALSE /\ queued = {}
  /\ is_suspended = FALSE /\ request = "none" /\ suspend_error = FALSE
  /\ asked = "none" /\ promised = FALSE
  /\ is_removed = FALSE /\ announced = FALSE
  /\ handlers = <<>> /\ returning = FALSE /\ leaving = <<>> /\ answer = "none"

----------------------------------------------------------------------------
(* Helpers.                                                                  *)

Running == action # "none" /\ result = "none"

Has(hs, h) == \E k \in 1..Len(hs) : hs[k] = h

(* The main loop dispatches its sources one at a time, the flush of the      *)
(* critical section before those of a lower priority.                        *)
MainLoop == ~returning
Idle == MainLoop /\ ~flush

(* g_cancellable_cancel of the internal cancellable: the driver is told from *)
(* an idle, if it can be told and the action is not completed yet.           *)
CancelInternal ==
  /\ cancelled' = TRUE
  /\ idle_cancel' = (idle_cancel \/ (~cancelled /\ Running /\ "cancel" \in cls))

CancelFor(why) ==
  /\ CancelInternal
  /\ reason' = IF reason = "none" THEN why ELSE reason

----------------------------------------------------------------------------
(* The client.                                                               *)

(* The end of every call that is not refused: it becomes the current action  *)
(* with a fresh internal cancellable (setup_task_cancellable) and enters the *)
(* driver.  A refused call is answered at once and changes nothing.          *)
Accept(op) ==
  /\ op \in Calls
  /\ action = "none"
  /\ action' = op
  /\ result' = "none"
  /\ wants_cancel' = FALSE
  /\ told' = FALSE
  /\ cancelled' = FALSE
  /\ UNCHANGED <<cls, is_open, idle_cancel, reason, criticalVars, queued, powerVars,
                 removalVars, handlers, returnVars>>

OpenedCall(op) == is_open /\ ~is_suspended /\ Accept(op) /\ UNCHANGED usb_open

(* g_usb_device_open refuses a GUsbDevice that is open already: an open that *)
(* failed in the driver leaves it so.                                        *)
Open ==
  /\ ~is_open /\ ~is_suspended /\ ~usb_open
  /\ usb_open' = TRUE
  /\ Accept("open")

Close == OpenedCall("close")
Enroll == OpenedCall("enroll")
Verify == OpenedCall("verify")
Identify == OpenedCall("identify")
Capture == OpenedCall("capture")
DeletePrint == OpenedCall("delete")
ListPrints == OpenedCall("list")

(* The one call that does not look at is_suspended.                          *)
ClearStorage == is_open /\ Accept("clear_storage") /\ UNCHANGED usb_open

(* The client cancels its call: fp_device_task_cancelled_cb, unless the      *)
(* completion has already disconnected it.                                   *)
Cancel ==
  /\ action # "none" /\ ~wants_cancel
  /\ wants_cancel' = TRUE
  /\ IF result = "none" THEN CancelInternal ELSE UNCHANGED <<cancelled, idle_cancel>>
  /\ UNCHANGED <<cls, is_open, usb_open, action, result, told, reason, criticalVars,
                 queued, powerVars, removalVars, handlers, returnVars>>

\* Mutant: nothing is connected to the return the request waits for.
SuspendCompleteUnconnected(ok) ==
  /\ is_suspended' = TRUE
  /\ IF ok \/ action = "none"
       THEN request' = "none" /\ promised' = ok /\ UNCHANGED <<suspend_error, cancelVars>>
       ELSE request' = "suspend" /\ suspend_error' = TRUE /\ promised' = FALSE /\ CancelFor("busy")
  /\ UNCHANGED handlers

\* Mutant: the action is not cancelled.
SuspendCompleteUncancelled(ok) ==
  /\ is_suspended' = TRUE
  /\ IF ok \/ action = "none"
       THEN request' = "none" /\ promised' = ok /\ UNCHANGED <<suspend_error, handlers>>
       ELSE /\ request' = "suspend" /\ suspend_error' = TRUE /\ promised' = FALSE
            /\ handlers' = Append(handlers, "suspended")
  /\ UNCHANGED cancelVars

(* fpi_device_suspend_complete: without an error, or without a task to wait  *)
(* for, the request is answered; otherwise the task is cancelled and the     *)
(* answer waits for its return.                                              *)
SuspendComplete(ok) ==
  /\ is_suspended' = TRUE
  /\ IF ok \/ action = "none"
       THEN /\ request' = "none"
            /\ promised' = ok
            /\ UNCHANGED <<suspend_error, handlers, cancelVars>>
       ELSE /\ request' = "suspend"
            /\ suspend_error' = TRUE
            /\ handlers' = Append(handlers, "suspended")
            /\ CancelFor("busy")
            /\ promised' = FALSE

(* fpi_device_suspend; q is what stays queued besides the request.           *)
FpiSuspend(q) ==
  \/ /\ action = "none"
     /\ SuspendComplete(TRUE)
     /\ queued' = q
     /\ UNCHANGED asked
  \/ /\ action \in Long /\ "suspend" \notin cls
     /\ SuspendComplete(FALSE)
     /\ queued' = q
     /\ UNCHANGED asked
  \/ /\ action \in Long /\ "suspend" \in cls
     /\ request' = "suspend"
     /\ IF critical > 0
          THEN queued' = q \cup {"suspend"} /\ UNCHANGED asked
          ELSE queued' = q /\ asked' = "suspend"
     /\ UNCHANGED <<is_suspended, suspend_error, promised, handlers, cancelVars>>
  \/ /\ action \in Short
     /\ request' = "suspend"
     /\ handlers' = Append(handlers, "short")
     /\ queued' = q
     /\ UNCHANGED <<is_suspended, suspend_error, promised, asked, cancelVars>>

(* fp_device_suspend.                                                        *)
Suspend ==
  /\ request = "none" /\ ~is_suspended /\ ~is_removed
  /\ FpiSuspend(queued)
  /\ UNCHANGED <<cls, taskVars, criticalVars, removalVars, returnVars>>

(* fpi_device_resume_complete.                                               *)
ResumeComplete ==
  /\ is_suspended' = FALSE
  /\ request' = "none"
  /\ promised' = FALSE

(* fpi_device_resume.  With a short action it aborts (g_assert_not_reached): *)
(* there is no step.                                                         *)
FpiResume(q) ==
  \/ /\ action = "none" \/ (action \in Long /\ "resume" \notin cls)
     /\ ResumeComplete
     /\ queued' = q
     /\ UNCHANGED asked
  \/ /\ action \in Long /\ "resume" \in cls
     /\ request' = "resume"
     /\ IF critical > 0
          THEN queued' = q \cup {"resume"} /\ UNCHANGED asked
          ELSE queued' = q /\ asked' = "resume"
     /\ UNCHANGED <<is_suspended, promised>>

(* fp_device_resume.                                                         *)
Resume ==
  /\ request = "none" /\ is_suspended /\ ~is_removed
  /\ FpiResume(queued)
  /\ UNCHANGED <<cls, taskVars, cancelVars, criticalVars, suspend_error, removalVars,
                 handlers, returnVars>>

----------------------------------------------------------------------------
(* The driver.                                                               *)

(* fpi_device_critical_enter: a pending flush is given up.                   *)
CriticalEnter ==
  /\ action # "none" /\ critical < MaxCritical
  /\ critical' = critical + 1
  /\ flush' = FALSE

(* fpi_device_critical_leave: the last one queues a flush.                   *)
CriticalLeave ==
  /\ action # "none" /\ critical > 0
  /\ critical' = critical - 1
  /\ flush' = (critical = 1)

\* Mutant: clear_device_cancel_action is not called.
CompleteKeepsIdle(res) ==
  /\ Running
  /\ result' = IF action = "close" /\ ~usb_open THEN "failed" ELSE res
  /\ usb_open' = (usb_open /\ action # "close")
  /\ UNCHANGED idle_cancel

(* fpi_device_open_complete .. fpi_device_clear_storage_complete and         *)
(* fpi_device_action_error: the client's and the idle cancel are cut off and *)
(* the return is queued.  A close has closed the GUsbDevice, whatever the    *)
(* driver reports.                                                           *)
Complete(res) ==
  /\ Running
  /\ result' = IF action = "close" /\ ~usb_open THEN "failed" ELSE res
  /\ idle_cancel' = FALSE
  /\ usb_open' = (usb_open /\ action # "close")

DriverEnters ==
  /\ Running
  /\ CriticalEnter
  /\ UNCHANGED <<cls, taskVars, cancelVars, queued, powerVars, removalVars, handlers,
                 returnVars>>

DriverLeaves ==
  /\ CriticalLeave
  /\ UNCHANGED <<cls, taskVars, cancelVars, queued, powerVars, removalVars, handlers,
                 returnVars>>

DriverCompletes ==
  /\ \E res \in {"ok", "failed"} : Complete(res)
  /\ UNCHANGED <<cls, is_open, action, wants_cancel, told, cancelled, reason,
                 criticalVars, queued, powerVars, removalVars, handlers, returnVars>>

(* The driver answers a suspend: it has prepared its action to go on, or has *)
(* not and reports FP_DEVICE_ERROR_NOT_SUPPORTED.                            *)
DriverSuspends ==
  /\ asked = "suspend"
  /\ asked' = "none"
  /\ \E ok \in BOOLEAN : SuspendComplete(ok)
  /\ UNCHANGED <<cls, taskVars, criticalVars, queued, removalVars, returnVars>>

DriverResumes ==
  /\ asked = "resume"
  /\ asked' = "none"
  /\ ResumeComplete
  /\ UNCHANGED <<cls, taskVars, cancelVars, criticalVars, queued, suspend_error,
                 removalVars, handlers, returnVars>>

----------------------------------------------------------------------------
(* The main loop.                                                            *)

\* Mutant: a cancel that meets a critical section is dropped.
IdleCancelDropped ==
  /\ Idle /\ idle_cancel
  /\ idle_cancel' = FALSE
  /\ told' = (told \/ critical = 0)
  /\ UNCHANGED <<cls, is_open, usb_open, action, result, wants_cancel, cancelled, reason,
                 criticalVars, queued, powerVars, removalVars, handlers, returnVars>>

(* fp_device_cancel_in_idle_cb.                                              *)
IdleCancel ==
  /\ Idle /\ idle_cancel
  /\ idle_cancel' = FALSE
  /\ IF critical > 0
       THEN queued' = queued \cup {"cancel"} /\ UNCHANGED told
       ELSE told' = TRUE /\ UNCHANGED queued
  /\ UNCHANGED <<cls, is_open, usb_open, action, result, wants_cancel, cancelled,
                 reason, criticalVars, powerVars, removalVars, handlers, returnVars>>

\* Mutant: the cancel is delivered to an action that is completed already.
FlushCancelAlways ==
  /\ "cancel" \in queued
  /\ told' = TRUE
  /\ queued' = queued \ {"cancel"}
  /\ UNCHANGED <<flush, cancelVars, powerVars, handlers>>

(* fpi_device_critical_section_flush_idle_cb: one queued request a dispatch, *)
(* the cancel first and only to a driver that is still busy.                 *)
FlushCancel ==
  /\ "cancel" \in queued
  /\ told' = (told \/ Running)
  /\ queued' = queued \ {"cancel"}
  /\ UNCHANGED <<flush, cancelVars, powerVars, handlers>>

\* Mutant: suspend_queued is cleared, the driver not asked.
FlushSuspendForgets ==
  /\ "cancel" \notin queued /\ "suspend" \in queued
  /\ queued' = queued \ {"suspend"}
  /\ UNCHANGED <<told, flush, cancelVars, powerVars, handlers>>

FlushSuspend ==
  /\ "cancel" \notin queued /\ "suspend" \in queued
  /\ FpiSuspend(queued \ {"suspend"})
  /\ UNCHANGED <<told, flush>>

FlushResume ==
  /\ queued = {"resume"}
  /\ FpiResume({})
  /\ UNCHANGED <<told, flush, cancelVars, suspend_error, handlers>>

FlushEnd ==
  /\ queued = {}
  /\ flush' = FALSE
  /\ UNCHANGED <<told, queued, cancelVars, powerVars, handlers>>

Flush ==
  /\ MainLoop /\ flush
  /\ FlushCancel \/ FlushSuspend \/ FlushResume \/ FlushEnd
  /\ UNCHANGED <<cls, is_open, usb_open, action, result, wants_cancel, critical,
                 removalVars, returnVars>>

(* What fp_device_task_return_in_idle_cb reports: a removed device is        *)
(* reported as such unless its open succeeded, an internal reason takes the  *)
(* place of an error, and GTask reports the client's own cancel before all.  *)
ReturnedAnswer ==
  CASE wants_cancel                                          -> "cancelled"
    [] ~wants_cancel /\ is_removed
         /\ ~(action = "open" /\ result = "ok")               -> "removed"
    [] ~wants_cancel /\ ~is_removed
         /\ result = "failed" /\ reason # "none"              -> reason
    [] OTHER                                                 -> result

(* fp_device_task_return_in_idle_cb up to the client's callback.             *)
ReturnTask ==
  /\ Idle /\ result # "none"
  /\ action' = "none"
  /\ result' = "none"
  /\ cancelled' = FALSE
  /\ reason' = "none"
  /\ is_open' = \/ action = "open" /\ result = "ok"
                \/ action # "close" /\ is_open
  /\ answer' = ReturnedAnswer
  /\ returning' = TRUE
  /\ leaving' = handlers
  /\ handlers' = <<>>
  /\ UNCHANGED <<cls, usb_open, wants_cancel, told, idle_cancel, criticalVars, queued,
                 powerVars, removalVars>>

(* The contract of fpi_device_critical_enter: "all critical sections are left *)
(* before command completion".                                               *)
TaskReturn == critical = 0 /\ ReturnTask

(* One handler of the returned task, or the end of the return.               *)
Notify ==
  /\ returning
  /\ returning' = (leaving # <<>>)
  /\ leaving' = IF leaving = <<>> THEN <<>> ELSE Tail(leaving)
  /\ LET run == IF leaving = <<>> THEN "none" ELSE Head(leaving)
     IN  /\ announced' = (announced \/ run = "removed")
         /\ request' = IF run \in {"suspended", "short"} THEN "none" ELSE request
         /\ suspend_error' = (suspend_error /\ run # "suspended")
         /\ promised' = (promised \/ run = "short")
  /\ UNCHANGED <<cls, taskVars, cancelVars, criticalVars, queued, is_suspended, asked,
                 is_removed, handlers, answer>>

(* fpi_device_remove, called when the device is unplugged.                   *)
Remove ==
  /\ MainLoop /\ ~is_removed
  /\ is_removed' = TRUE
  /\ IF action # "none"
       THEN handlers' = Append(handlers, "removed") /\ UNCHANGED announced
       ELSE announced' = TRUE /\ UNCHANGED handlers
  /\ UNCHANGED <<cls, taskVars, cancelVars, criticalVars, queued, powerVars, returnVars>>

(* fpi_device_update_temp finds the device hot under a long action.          *)
Overheat ==
  /\ MainLoop /\ action \in Long
  /\ CancelFor("hot")
  /\ UNCHANGED <<cls, taskVars, criticalVars, queued, powerVars, removalVars, handlers,
                 returnVars>>

Client ==
  \/ Open \/ Close \/ Enroll \/ Verify \/ Identify \/ Capture
  \/ DeletePrint \/ ListPrints \/ ClearStorage
  \/ Cancel \/ Suspend \/ Resume
Driver == DriverEnters \/ DriverLeaves \/ DriverCompletes \/ DriverSuspends \/ DriverResumes
Loop == IdleCancel \/ Flush \/ TaskReturn \/ Notify
Next == Client \/ Driver \/ Loop \/ Remove \/ Overheat

(* The main loop runs its sources, and a handler at the head of it; a driver *)
(* leaves its critical sections, waits for the loop outside of them now and  *)
(* then (so a flush runs), answers what it is asked, and completes an action *)
(* that is short, that it was told to cancel, that has no cancel vfunc to be *)
(* told with but a cancelled cancellable, or whose device is gone.           *)
MustComplete ==
  /\ action \in Short \/ told \/ is_removed \/ (cancelled /\ "cancel" \notin cls)
  /\ DriverCompletes

LeavesLast == critical = 1 /\ DriverLeaves

Fairness ==
  /\ SF_vars(IdleCancel) /\ SF_vars(Flush) /\ WF_vars(TaskReturn) /\ WF_vars(Notify)
  /\ WF_vars(MustComplete) /\ WF_vars(DriverSuspends) /\ WF_vars(DriverResumes)
  /\ WF_vars(DriverLeaves) /\ SF_vars(LeavesLast)

Spec == Init /\ [][Next]_vars /\ Fairness

----------------------------------------------------------------------------
(* Properties.                                                               *)

(* The g_assert of fp_device_cancel_in_idle_cb: the idle cancel source never *)
(* outlives the action it was made for, through any order of completion,     *)
(* suspend, overheating and cancellation.                                    *)
CancelIdleHasAction == idle_cancel => Running /\ cancelled

(* A request queued in a critical section is never forgotten: either a       *)
(* section is still open or the flush that delivers it is pending.           *)
QueuedIsFlushed == queued # {} => critical > 0 \/ flush

(* A suspend or resume request always has something left that answers it: a  *)
(* handler of a task still to return, the driver, or the queue.              *)
RequestHasAnswerer ==
  request # "none" =>
    \/ asked = request
    \/ request \in queued
    \/ request = "suspend" /\ \E h \in {"suspended", "short"} :
         Has(handlers, h) \/ Has(leaving, h)

(* The removed signal of an unplugged device is emitted, or its handler is   *)
(* connected to the one task that is current or being returned; never both,  *)
(* so it is emitted once.                                                    *)
RemovedOnce ==
  /\ is_removed /\ ~announced =>
       \/ action # "none" /\ Has(handlers, "removed")
       \/ returning /\ Has(leaving, "removed")
  /\ announced => is_removed /\ ~Has(handlers, "removed") /\ ~Has(leaving, "removed")

(* An open device has its GUsbDevice open until its close completes, so that *)
(* g_usb_device_close never fails, removed, suspended or not.                *)
OpenHasUsb == is_open => usb_open \/ (action = "close" /\ result # "none")

(* A long action that runs on in a suspended device was accepted so by the   *)
(* driver, or is being cancelled and is what the suspend request waits for.  *)
SuspendedActionAgreed ==
  is_suspended /\ action \in Long /\ ~promised /\ request # "resume" =>
    cancelled /\ request = "suspend" /\ suspend_error

(* cls->cancel reaches only a running action that was cancelled, and never   *)
(* inside a critical section: a cancel queued for one action is not          *)
(* delivered to a later one.                                                 *)
CancelReachesItsAction ==
  [][~told /\ told' => cancelled /\ Running /\ critical = 0]_vars

(* fp_device_suspend: an action that had to be cancelled for it completes    *)
(* with FP_DEVICE_ERROR_BUSY before the request is answered, never with the  *)
(* error the driver made of the cancellation.                                *)
InterruptedIsBusy ==
  [][returning' /\ ~returning /\ Has(leaving', "suspended") => answer' # "failed"]_vars

(* A call answered with a cancellation of libfprint's own was cancelled      *)
(* itself, and for that reason: no reason is left over from another call.    *)
ReasonIsTrue ==
  [][returning' /\ ~returning =>
       /\ answer' \in {"busy", "hot"} => cancelled
       /\ answer' = "busy" => is_suspended
       /\ answer' = "removed" => is_removed]_vars

(* A cancelled action ends: the cancel reaches the driver through the idle   *)
(* source, the critical section's queue and its flush.                       *)
CancelEnds == cancelled ~> ~Running

(* Every suspend and resume request is answered.                             *)
RequestAnswered == request # "none" ~> request = "none"

(* fpi-device.c:1829, of a resume that meets a short action: "cannot happen  *)
(* as we make sure these tasks complete before suspend" (it would abort).    *)
(* A clear_storage, which does not look at is_suspended, is such an action.  *)
ResumeMeetsNoShortAction ==
  ~(request = "none" /\ is_suspended /\ ~is_removed /\ action \in Short)

(* fp-device.c:978: "Any operation started while the device is suspended     *)
(* will fail with FP_DEVICE_ERROR_BUSY".  A suspend answered when a short    *)
(* action returned never set is_suspended.                                   *)
NothingStartsSuspended ==
  [][promised => (action = "none" => action' = "none")]_vars

(* fp-device.c:508: the removed signal "is emitted after the device has been *)
(* removed and no operation is pending anymore".  The client's callback runs *)
(* before the handler that emits it and may have started the next call.      *)
RemovedIsIdle == [][~announced /\ announced' => action' = "none"]_vars

(* fp-device.c:512: "the call to close the device can be made immediately    *)
(* from the signal handler".  A device unplugged while it is suspended       *)
(* refuses the close as BUSY, and the resume that would help as REMOVED.     *)
RemovedCanClose == [][~announced /\ announced' /\ is_open' => ~is_suspended']_vars
=============================================================================
