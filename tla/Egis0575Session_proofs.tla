----------------------- MODULE Egis0575Session_proofs -----------------------
(* Egis0575Session proved for every number of calls, transfers and polls.    *)
EXTENDS Egis0575Session, SequenceTheorems, TLAPS

(* What the loop's handlers leave untouched, and the bookkeeping lemmas on     *)
(* which the invariance proofs rest.                                          *)
USE TaskAssumption, SessionAssumption DEF NoTask, CaptureAction, Action, Result,
    Transferring, Delayed, Phase

(* A task is never NoTask.                                                    *)
LEMMA TaskIsNotNone == ASSUME NEW t \in Task PROVE t # NoTask /\ t \in Nat
  OBVIOUS

(* A completion of a live action queues a well-formed return.                 *)
LEMMA QueueType ==
  ASSUME NEW t \in Task, NEW action \in Action, NEW result \in Result,
         idle_return \in Seq(Return), Queue(t, action, result)
  PROVE  /\ idle_return' \in Seq(Return)
         /\ idle_cancel' \in BOOLEAN
         /\ Len(idle_return') = Len(idle_return) + 1
         /\ \A k \in 1..Len(idle_return) : idle_return'[k] = idle_return[k]
         /\ idle_return'[Len(idle_return')] =
              [task |-> t, action |-> action, result |-> result]
  <1> DEFINE r == [task |-> t, action |-> action, result |-> result]
  <1>1. r \in Return
    BY DEF Return
  <1>2. idle_return' = Append(idle_return, r) /\ idle_cancel' = FALSE
    BY DEF Queue
  <1> HIDE DEF r
  <1>3. /\ Append(idle_return, r) \in Seq(Return)
        /\ Len(Append(idle_return, r)) = Len(idle_return) + 1
        /\ \A k \in 1..Len(idle_return) : Append(idle_return, r)[k] = idle_return[k]
        /\ Append(idle_return, r)[Len(idle_return) + 1] = r
    BY <1>1, AppendProperties
  <1>4. idle_return'[Len(idle_return')] = r
    BY <1>2, <1>3
  <1> QED BY <1>2, <1>3, <1>4 DEF r

(* Completing the current action keeps the device well typed.                *)
LEMMA CompleteType ==
  ASSUME NEW result \in Result, TypeOK, TaskInv, Complete(result)
  PROVE  DeviceTypeOK'
  <1>1. current_task \in Task /\ current_action \in Action
    BY DEF Complete, TypeOK, DeviceTypeOK, TaskInv
  <1>2. idle_return' \in Seq(Return) /\ idle_cancel' \in BOOLEAN
    BY <1>1, QueueType DEF Complete, TypeOK, DeviceTypeOK
  <1> QED BY <1>2 DEF Complete, TypeOK, DeviceTypeOK

(* Handing out the oldest return keeps the device well typed.                *)
LEMMA ReturnType ==
  ASSUME TypeOK, TaskReturn
  PROVE  DeviceTypeOK'
  <1>1. idle_return # <<>> /\ idle_return \in Seq(Return)
    BY DEF TaskReturn, TypeOK, DeviceTypeOK
  <1>2. Tail(idle_return) \in Seq(Return)
    BY <1>1
  <1>3. is_open' \in BOOLEAN
    BY DEF TaskReturn, TypeOK, DeviceTypeOK
  <1> QED BY <1>2, <1>3 DEF TaskReturn, TypeOK, DeviceTypeOK

----------------------------------------------------------------------------
(* The three ways a loop callback can go on.                                 *)

(* The loop goes on to its next transfer or delay, and nothing else changes.  *)
Moves ==
  /\ \/ \E p \in {"cal", "frame"}, n \in Nat : SubmitNext(p, n)
     \/ \E p \in Delayed : JumpDelayed(p)
  /\ KeepRunning
  /\ UNCHANGED <<deviceVars, stop, usbVars>>

(* The loop ends, and reports to the current action if there is cause.        *)
Ends ==
  /\ \E failed, keeps_claim \in BOOLEAN :
       LoopComplete(failed) /\ UsbAfter(failed, keeps_claim)
  /\ Landed \/ (~transfer_in_flight /\ UNCHANGED transferVars)

(* The loop enters its shutdown chain, perhaps answering a capture action.    *)
ShutsDown ==
  \/ EnterDone(Len(idle_return)) /\ UNCHANGED <<deviceVars, stop>>
  \/ /\ current_action \in CaptureAction
     /\ Complete("ok")
     /\ stop' = TRUE
     /\ EnterDone(Len(idle_return) + (IF current_action = "verify" THEN 0 ELSE 1))

(* SM_START, SM_INIT, SM_CAL_START and the restarts only move on or end.      *)
LEMMA EnterStartShape == EnterStart => Moves \/ Ends
  BY DEF EnterStart, LoopEnds, Moves, Ends

(* Skipping the calibration only adds a delayed jump.                        *)
LEMMA EnterInitShape == EnterInit => Moves \/ Ends
  BY EnterStartShape DEF EnterInit, Moves

(* A calibration chain is a way of going on.                                 *)
LEMMA EnterCalShape == EnterCal => Moves \/ Ends
  <1>1. \A n \in 1..CalTransfers : n \in Nat
    OBVIOUS
  <1> QED BY <1>1, EnterInitShape DEF EnterCal, Moves

(* Recycling the claim delays a restart or fails the loop.                   *)
LEMMA RecycleClaimShape ==
  ASSUME NEW p \in Delayed, RecycleClaim(p)
  PROVE  Moves \/ Ends
  BY DEF RecycleClaim, LoopFails, Moves, Ends

(* So does the restart of a capture cycle.                                   *)
LEMMA RestartShape == RestartCaptureCycle => Moves \/ Ends
  BY RecycleClaimShape DEF RestartCaptureCycle

(* A frame lets the loop go on, end, or shut the sensor down.                *)
LEMMA SaveImgShape == SaveImg => Moves \/ Ends \/ ShutsDown
  <1>1. ASSUME JumpDelayed("to_init"), KeepRunning, UNCHANGED <<deviceVars, stop, usbVars>>
        PROVE  Moves
    BY <1>1 DEF Moves
  <1> QED BY <1>1, EnterStartShape, RestartShape, RecycleClaimShape DEF SaveImg, ShutsDown

----------------------------------------------------------------------------
(* Types, the loop's bookkeeping and the current call: the part of the         *)
(* inductive invariant that does not look at the order of answers.            *)
Core == TypeOK /\ LoopInv /\ TaskInv

(* A completed action stays current: the queued answer is an answer to it.    *)
LEMMA CompleteCore ==
  ASSUME NEW result \in Result, TypeOK, TaskInv, Complete(result)
  PROVE  DeviceTypeOK' /\ TaskInv'
  <1>1. current_task \in Task /\ current_action \in Action
    BY DEF Complete, TypeOK, DeviceTypeOK, TaskInv
  <1>2. /\ Len(idle_return') = Len(idle_return) + 1
        /\ \A k \in 1..Len(idle_return) : idle_return'[k] = idle_return[k]
        /\ idle_return'[Len(idle_return')] =
             [task |-> current_task, action |-> current_action, result |-> result]
    <2>1. idle_return \in Seq(Return) /\ Queue(current_task, current_action, result)
      BY DEF Complete, TypeOK, DeviceTypeOK
    <2> HIDE DEF Action, Result
    <2> QED BY <1>1, <2>1, QueueType
  <1>3. current_task' = current_task /\ current_action' = current_action
    BY DEF Complete
  <1>4. Len(idle_return) \in Nat
    BY DEF TypeOK, DeviceTypeOK
  <1>5. TaskInv'
    BY <1>2, <1>3, <1>4 DEF TaskInv
  <1> QED BY <1>5, CompleteType

(* Going on keeps the bookkeeping.                                            *)
LEMMA MovesCore ==
  ASSUME Core, running, Moves, Others
  PROVE  Core'
  <1>1. DeviceTypeOK' /\ TaskInv'
    BY DEF Core, TypeOK, Moves, deviceVars, DeviceTypeOK, TaskInv
  <1>2. Len(idle_return) \in Nat /\ cancelled \in BOOLEAN
    BY DEF Core, TypeOK, DeviceTypeOK
  <1>3. /\ phase' \in {"cal", "frame"} \cup Delayed
        /\ left' \in Nat /\ held_back' \in Nat /\ doomed' \in BOOLEAN
        /\ transfer_in_flight' \in BOOLEAN
        /\ transfer_in_flight' <=> phase' \in Transferring
    <2>1. CASE \E p \in {"cal", "frame"}, n \in Nat : SubmitNext(p, n)
      BY <1>2, <2>1 DEF SubmitNext, Submit
    <2>2. CASE \E p \in Delayed : JumpDelayed(p)
      <3>1. PICK p \in Delayed : JumpDelayed(p)
        BY <2>2
      <3>2. phase' = p /\ left' = 0 /\ transfer_in_flight' = FALSE /\ doomed' = FALSE
            /\ held_back' = Len(idle_return)
        BY <3>1 DEF JumpDelayed
      <3> QED BY <1>2, <3>2
    <2> QED BY <2>1, <2>2 DEF Moves
  <1>4. UNCHANGED <<running, owner, watchdogVars, stop, usbVars, startVars,
                    openVars, closeVars>>
    BY DEF Moves, KeepRunning, Others
  <1>5. LoopInv'
    BY <1>3, <1>4 DEF Core, LoopInv, watchdogVars
  <1> QED BY <1>1, <1>3, <1>4, <1>5
    DEF Core, TypeOK, watchdogVars, usbVars, startVars, openVars, closeVars

(* Ending, with or without an answer, keeps it.                               *)
LEMMA EndsCore ==
  ASSUME Core, Ends, Others
  PROVE  Core'
  <1>1. PICK failed \in BOOLEAN, keeps_claim \in BOOLEAN :
          LoopComplete(failed) /\ UsbAfter(failed, keeps_claim)
    BY DEF Ends
  <1>2. DeviceTypeOK' /\ TaskInv'
    <2>1. CASE Reports(failed)
      BY <1>1, <2>1, CompleteCore DEF LoopComplete, Core
    <2>2. CASE ~Reports(failed)
      BY <1>1, <2>2 DEF LoopComplete, Core, TypeOK, deviceVars, DeviceTypeOK, TaskInv
    <2> QED BY <2>1, <2>2
  <1>3. usb_open' \in BOOLEAN /\ claimed' \in BOOLEAN
    BY <1>1 DEF UsbAfter
  <1>4. /\ transfer_in_flight' = FALSE /\ doomed' \in BOOLEAN /\ held_back' \in Nat
        /\ stop' = stop
    <2>1. stop' = stop
      BY <1>1 DEF LoopComplete
    <2>2. CASE Landed
      BY <2>1, <2>2 DEF Landed
    <2>3. CASE ~transfer_in_flight /\ UNCHANGED transferVars
      <3>1. transfer_in_flight \in BOOLEAN /\ doomed \in BOOLEAN /\ held_back \in Nat
        BY DEF Core, TypeOK
      <3> QED BY <2>1, <2>3, <3>1 DEF transferVars
    <2> QED BY <2>2, <2>3 DEF Ends
  <1> QED BY <1>1, <1>2, <1>3, <1>4
    DEF LoopComplete, Others, Core, TypeOK, LoopInv, startVars, openVars, closeVars

(* So does entering the shutdown chain.                                       *)
LEMMA ShutsDownCore ==
  ASSUME Core, running, ShutsDown, Others
  PROVE  Core'
  <1>1. DeviceTypeOK' /\ TaskInv' /\ stop' \in BOOLEAN
    BY CompleteCore DEF ShutsDown, Core, TypeOK, deviceVars, DeviceTypeOK, TaskInv
  <1>2. PICK behind \in Nat : EnterDone(behind)
    BY DEF ShutsDown, Core, TypeOK, DeviceTypeOK
  <1> QED BY <1>1, <1>2
    DEF EnterDone, Submit, KeepRunning, Others, Core, TypeOK, DeviceTypeOK, LoopInv,
        watchdogVars, usbVars, startVars, openVars, closeVars

----------------------------------------------------------------------------
(* The bookkeeping of the other callbacks and of the client's calls.          *)

LoopStep ==
  \/ CalTransferDone \/ FrameTransferDone \/ PreInitRequired
  \/ ShutdownTransferDone \/ DelayFires

(* The shutdown chain goes on to its next transfer.                           *)
Drains ==
  /\ phase = "shutdown" /\ left > 1 /\ held_back = 0
  /\ SubmitNext("shutdown", left - 1)
  /\ KeepRunning
  /\ UNCHANGED <<deviceVars, stop, usbVars>>

(* The last transfer of a chain, and nothing queued ahead of it.              *)
LastTransfer == held_back = 0 /\ ~(left > 1)

(* A callback of a loop goes on, shuts down, drains or ends; a shutdown chain *)
(* ends only with its last transfer.                                          *)
LEMMA LoopStepShape ==
  ASSUME Core, LoopStep
  PROVE  /\ running
         /\ Others
         /\ \/ phase # "shutdown" /\ (Moves \/ ShutsDown)
            \/ (phase = "shutdown" => LastTransfer) /\ Ends
            \/ Drains
  <1>1. CASE CalTransferDone
    <2>1. running /\ Others /\ phase # "shutdown"
      BY <1>1 DEF CalTransferDone, Core, LoopInv
    <2>2. Moves \/ Ends
      <3>1. CASE left \in Nat /\ left > 1
                 /\ SubmitNext("cal", left - 1) /\ KeepRunning
                 /\ UNCHANGED <<deviceVars, stop, usbVars>>
        BY <3>1 DEF Moves
      <3>2. CASE LoopFails
        BY <3>2 DEF LoopFails, Ends
      <3> QED BY <1>1, <3>1, <3>2, EnterStartShape DEF CalTransferDone, Core, TypeOK
    <2> QED BY <2>1, <2>2
  <1>2. CASE FrameTransferDone
    <2>1. running /\ Others /\ phase # "shutdown"
      BY <1>2 DEF FrameTransferDone, Core, LoopInv
    <2>2. Moves \/ Ends \/ ShutsDown
      <3>1. CASE left \in Nat /\ left > 1
                 /\ SubmitNext("frame", left - 1) /\ KeepRunning
                 /\ UNCHANGED <<deviceVars, stop, usbVars>>
        BY <3>1 DEF Moves
      <3>2. CASE LoopFails
        BY <3>2 DEF LoopFails, Ends
      <3> QED BY <1>2, <3>1, <3>2, RestartShape, SaveImgShape
               DEF FrameTransferDone, Core, TypeOK
    <2> QED BY <2>1, <2>2
  <1>3. CASE PreInitRequired
    <2>1. running /\ Others /\ phase # "shutdown"
      BY <1>3 DEF PreInitRequired, Core, LoopInv
    <2>2. Moves
      BY <1>3 DEF PreInitRequired, Moves
    <2> QED BY <2>1, <2>2
  <1>4. CASE ShutdownTransferDone
    <2>1. running /\ Others /\ phase = "shutdown" /\ held_back = 0
      BY <1>4 DEF ShutdownTransferDone, Core, LoopInv
    <2>2. CASE left > 1
      BY <1>4, <2>1, <2>2 DEF ShutdownTransferDone, Drains
    <2>3. CASE ~(left > 1)
      BY <1>4, <2>1, <2>3 DEF ShutdownTransferDone, LoopEnds, Ends, LastTransfer
    <2> QED BY <2>2, <2>3
  <1>5. CASE DelayFires
    <2>1. running /\ Others /\ phase # "shutdown"
      BY <1>5 DEF DelayFires, Core, LoopInv
    <2>2. Moves \/ Ends
      BY <1>5, EnterCalShape, EnterInitShape, EnterStartShape DEF DelayFires
    <2> QED BY <2>1, <2>2
  <1> QED BY <1>1, <1>2, <1>3, <1>4, <1>5 DEF LoopStep

(* Draining keeps the bookkeeping.                                            *)
LEMMA DrainsCore ==
  ASSUME Core, running, Drains, Others
  PROVE  Core'
  <1>1. Len(idle_return) \in Nat /\ cancelled \in BOOLEAN /\ left - 1 \in Nat
    BY DEF Drains, Core, TypeOK, DeviceTypeOK
  <1>2. DeviceTypeOK' /\ TaskInv'
    BY DEF Drains, Core, TypeOK, deviceVars, DeviceTypeOK, TaskInv
  <1>3. LoopInv'
    BY DEF Drains, Core, LoopInv, SubmitNext, Submit, KeepRunning, watchdogVars
  <1> QED BY <1>1, <1>2, <1>3
          DEF Drains, SubmitNext, Submit, KeepRunning, Others, Core, TypeOK,
              watchdogVars, usbVars, startVars, openVars, closeVars

(* Every callback of the loop keeps the bookkeeping.                         *)
LEMMA LoopStepCore == Core /\ LoopStep => Core'
  BY LoopStepShape, MovesCore, EndsCore, ShutsDownCore, DrainsCore

(* Cancelling only arms the watchdog of a running loop; a watchdog that fires  *)
(* ends a loop that waits for no transfer.                                    *)
LEMMA CancelCore ==
  ASSUME Core, CancelInIdle \/ CancelWatchdog \/ Cancel
  PROVE  Core'
  <1>1. CASE CancelInIdle
    <2>1. DeviceTypeOK' /\ TaskInv'
      BY <1>1 DEF CancelInIdle, Core, TypeOK, DeviceTypeOK, TaskInv
    <2>2. LoopInv'
      BY <1>1 DEF CancelInIdle, Core, TypeOK, LoopInv, loopVars, transferVars
    <2> QED BY <1>1, <2>1, <2>2
            DEF CancelInIdle, Core, TypeOK, loopVars, transferVars, startVars,
                openVars, closeVars, usbVars
  <1>2. CASE CancelWatchdog
    <2>1. Ends /\ Others
      BY <1>2 DEF CancelWatchdog, Ends
    <2> QED BY <2>1, EndsCore
  <1>3. CASE Cancel
    <2>1. DeviceTypeOK' /\ TaskInv'
      BY <1>3 DEF Cancel, ClientCancel, Core, TypeOK, DeviceTypeOK, TaskInv
    <2> QED BY <1>3, <2>1
            DEF Cancel, ClientCancel, Core, TypeOK, LoopInv, loopVars, transferVars,
                watchdogVars, startVars, openVars, closeVars, usbVars
  <1> QED BY <1>1, <1>2, <1>3

(* Starting a loop fills in the bookkeeping of a loop.                        *)
LEMMA StartLoopCore ==
  ASSUME Core, NEW t \in Task, NEW u \in Task \cup {NoTask}, NEW is_cancelled \in BOOLEAN,
         StartLoop(t, u, is_cancelled), DeviceTypeOK', TaskInv',
         UNCHANGED <<openVars, closeVars, usbVars>>
  PROVE  Core'
  <1>1. Len(idle_return) \in Nat
    BY DEF Core, TypeOK, DeviceTypeOK
  <1>2. /\ phase' \in {"cal", "to_start"} /\ left' \in Nat /\ held_back' \in Nat
        /\ doomed' \in BOOLEAN /\ transfer_in_flight' \in BOOLEAN
        /\ transfer_in_flight' <=> phase' = "cal"
    <2>1. CASE JumpDelayed("to_start")
      BY <1>1, <2>1 DEF JumpDelayed
    <2>2. CASE \E n \in 1..CalTransfers :
                 Submit("cal", n, is_cancelled, Len(idle_return))
      BY <1>1, <2>2 DEF Submit
    <2> QED BY <2>1, <2>2 DEF StartLoop
  <1>3. /\ running' = TRUE /\ stop' = FALSE /\ owner' = u
        /\ action_start_wait' = 0 /\ start_timers' = start_timers \ {t}
        /\ UNCHANGED watchdogVars
    BY DEF StartLoop
  <1>4. LoopInv'
    BY <1>2, <1>3 DEF StartLoop, Core, LoopInv, watchdogVars
  <1>5. /\ phase' \in Phase /\ start_timers' \subseteq Task
        /\ action_start_wait' \in 0..StartWaitMax + 1
    BY <1>2, <1>3 DEF Core, TypeOK
  <1>6. TypeOK'
    BY <1>2, <1>3, <1>5 DEF Core, TypeOK, watchdogVars, openVars, closeVars, usbVars
  <1> QED BY <1>4, <1>6 DEF Core

(* The timers of the driver.                                                 *)
LEMMA TimerCore ==
  ASSUME Core, NEW t \in Task,
         StartTimer(t) \/ OpenSettled(t) \/ ClosePoll(t)
  PROVE  Core'
  <1>1. CASE StartTimer(t)
    <2>1. UNCHANGED <<openVars, closeVars, usbVars>>
      BY <1>1 DEF StartTimer
    <2>2. DeviceTypeOK' /\ TaskInv'
      <3>1. CASE UNCHANGED deviceVars
        BY <3>1 DEF Core, TypeOK, deviceVars, DeviceTypeOK, TaskInv
      <3>2. CASE Complete("busy")
        BY <3>2, CompleteCore DEF Core
      <3> QED BY <1>1, <3>1, <3>2 DEF StartTimer
    <2>3. CASE /\ UNCHANGED <<loopVars, stop, watchdogVars>>
               /\ start_timers' \in {start_timers \cup {t}, start_timers \ {t}}
               /\ action_start_wait' \in 0..StartWaitMax + 1
      BY <2>1, <2>2, <2>3
         DEF Core, TypeOK, LoopInv, loopVars, transferVars, watchdogVars,
             openVars, closeVars, usbVars
    <2>4. CASE current_action \in CaptureAction /\ StartLoop(t, current_task, cancelled)
      <3>1. cancelled \in BOOLEAN /\ current_task \in Task \cup {NoTask}
        BY DEF Core, TypeOK, DeviceTypeOK
      <3> QED BY <2>1, <2>2, <2>4, <3>1, StartLoopCore
    <2> QED BY <1>1, <2>3, <2>4 DEF StartTimer, WaitForLoop, GiveUpWaiting, WaitAge,
                                    Core, TypeOK
  <1>2. CASE OpenSettled(t)
    <2>1. DeviceTypeOK' /\ TaskInv'
      <3>1. CASE UNCHANGED deviceVars
        BY <3>1 DEF Core, TypeOK, deviceVars, DeviceTypeOK, TaskInv
      <3>2. CASE Complete("ok")
        BY <3>2, CompleteCore DEF Core
      <3> QED BY <1>2, <3>1, <3>2 DEF OpenSettled, CompleteAction
    <2> QED BY <1>2, <2>1
            DEF OpenSettled, Core, TypeOK, LoopInv, loopVars, transferVars, watchdogVars,
                startVars, openVars, closeVars, usbVars
  <1>3. CASE ClosePoll(t)
    <2>1. DeviceTypeOK' /\ TaskInv'
      <3>1. CASE UNCHANGED deviceVars
        BY <3>1 DEF Core, TypeOK, deviceVars, DeviceTypeOK, TaskInv
      <3>2. CASE \E result \in Result : Complete(result)
        BY <3>2, CompleteCore DEF Core
      <3> QED BY <1>3, <3>1, <3>2 DEF ClosePoll, CompleteAction
    <2>2. /\ close_timers' \subseteq Task /\ close_poll_retries' \in Nat
          /\ usb_open' \in BOOLEAN /\ claimed' \in BOOLEAN
      <3>1. close_timers \subseteq Task /\ close_poll_retries \in Nat
            /\ usb_open \in BOOLEAN /\ claimed \in BOOLEAN
        BY DEF Core, TypeOK
      <3>2. close_poll_retries' = close_poll_retries + 1
        BY <1>3 DEF ClosePoll
      <3>3. \/ UNCHANGED <<close_timers, usb_open, claimed>>
            \/ /\ close_timers' = close_timers \ {t}
               /\ claimed' = FALSE
               /\ usb_open' = (usb_open /\ current_action # "close")
        BY <1>3 DEF ClosePoll, usbVars
      <3>4. close_timers' \subseteq Task
        BY <3>1, <3>3
      <3>5. close_poll_retries' \in Nat
        BY <3>1, <3>2
      <3>6. usb_open' \in BOOLEAN /\ claimed' \in BOOLEAN
        BY <3>1, <3>3
      <3> QED BY <3>4, <3>5, <3>6
    <2> QED BY <1>3, <2>1, <2>2
            DEF ClosePoll, Core, TypeOK, LoopInv, loopVars, transferVars, watchdogVars,
                startVars, openVars
  <1> QED BY <1>1, <1>2, <1>3

(* A tick of the clock.                                                      *)
LEMMA WaitTickCore == Core /\ WaitTick => Core'
  BY DEF WaitTick, Core, TypeOK, LoopInv, TaskInv, DeviceTypeOK, deviceVars,
         loopVars, transferVars, watchdogVars, openVars, closeVars, usbVars

(* Handing an answer to the client leaves no current call.                    *)
LEMMA ReturnCore ==
  ASSUME Core, ReturnTask
  PROVE  Core'
  <1>1. DeviceTypeOK' /\ current_task' = NoTask /\ current_action' = "none"
    BY ReturnType DEF ReturnTask, TaskReturn, Core
  <1>2. idle_return' \in Seq(Return)
    BY <1>1 DEF DeviceTypeOK
  <1>3. \A k \in 1..Len(idle_return') : idle_return'[k].task # NoTask
    <2>1. \A k \in 1..Len(idle_return') : idle_return'[k] \in Return
      BY <1>2
    <2>2. \A r \in Return : r.task # NoTask
      BY TaskIsNotNone DEF Return
    <2> QED BY <2>1, <2>2
  <1>4. TaskInv'
    BY <1>1, <1>3 DEF TaskInv
  <1>5. held_back \in Nat /\ held_back' = IF held_back = 0 THEN 0 ELSE held_back - 1
    BY DEF ReturnTask, Core, TypeOK
  <1>6. held_back' \in Nat
    BY <1>5
  <1> QED BY <1>1, <1>4, <1>6
          DEF ReturnTask, Core, TypeOK, LoopInv, watchdogVars, startVars,
              openVars, closeVars, usbVars

(* A fresh call has no answer yet; it may get one at once.                    *)
LEMMA AcceptCore ==
  ASSUME Core, NEW t \in Task, NEW action \in Action \ {"none"},
         Fresh(t), Accept(action, t), UNCHANGED is_open,
         \/ UNCHANGED <<idle_cancel, idle_return>>
         \/ \E result \in Result : Queue(t, action, result)
  PROVE  DeviceTypeOK' /\ TaskInv'
  <1>1. /\ current_action' = action /\ current_task' = t /\ cancelled' = FALSE
        /\ t # NoTask /\ action # "none"
    BY TaskIsNotNone DEF Accept
  <1>2. \A k \in 1..Len(idle_return) : idle_return[k].task # t
    BY DEF Fresh, InUse
  <1>3. idle_return \in Seq(Return) /\ Len(idle_return) \in Nat
    BY DEF Core, TypeOK, DeviceTypeOK
  <1>4. CASE UNCHANGED <<idle_cancel, idle_return>>
    BY <1>1, <1>2, <1>4 DEF Core, TypeOK, DeviceTypeOK, TaskInv
  <1>5. CASE \E result \in Result : Queue(t, action, result)
    <2>1. PICK result \in Result : Queue(t, action, result)
      BY <1>5
    <2>2. /\ idle_return' \in Seq(Return)
          /\ idle_cancel' \in BOOLEAN
          /\ Len(idle_return') = Len(idle_return) + 1
          /\ \A k \in 1..Len(idle_return) : idle_return'[k] = idle_return[k]
          /\ idle_return'[Len(idle_return')] =
               [task |-> t, action |-> action, result |-> result]
      <3> HIDE DEF Action, Result
      <3> QED BY <1>3, <2>1, QueueType
    <2>3. DeviceTypeOK'
      BY <1>1, <2>2 DEF Core, TypeOK, DeviceTypeOK
    <2>4. TaskInv'
      BY <1>1, <1>2, <1>3, <2>2 DEF TaskInv
    <2> QED BY <2>3, <2>4
  <1> QED BY <1>4, <1>5

(* The client's calls keep the bookkeeping.                                  *)
LEMMA ClientCore ==
  ASSUME Core, NEW t \in Task, NEW action \in CaptureAction,
         Open(t) \/ Close(t) \/ StartCapture(t, action)
  PROVE  Core'
  <1>1. CASE Open(t)
    <2>1. DeviceTypeOK' /\ TaskInv'
      BY <1>1, AcceptCore DEF Open
    <2>2. /\ usb_open' \in BOOLEAN /\ claimed' \in BOOLEAN
          /\ settle_timers' \subseteq Task
      BY <1>1 DEF Open, Core, TypeOK
    <2> QED BY <1>1, <2>1, <2>2
            DEF Open, Core, TypeOK, LoopInv, loopVars, transferVars, watchdogVars,
                startVars, openVars, closeVars
  <1>2. CASE Close(t)
    <2>1. DeviceTypeOK' /\ TaskInv'
      <3>1. UNCHANGED <<idle_cancel, idle_return>>
              \/ \E result \in Result : Queue(t, "close", result)
        BY <1>2 DEF Close
      <3> QED BY <1>2, <3>1, AcceptCore DEF Close
    <2>2. /\ stop' \in BOOLEAN /\ usb_open' \in BOOLEAN /\ claimed' \in BOOLEAN
          /\ close_timers' \subseteq Task /\ close_poll_retries' \in Nat
      <3>1. close_timers \subseteq Task /\ close_poll_retries \in Nat /\ stop \in BOOLEAN
            /\ usb_open \in BOOLEAN /\ claimed \in BOOLEAN
        BY DEF Core, TypeOK
      <3>2. CASE running
        <4>1. /\ stop' = TRUE /\ close_poll_retries' = 0
              /\ close_timers' = close_timers \cup {t}
              /\ UNCHANGED usbVars
          BY <1>2, <3>2 DEF Close
        <4> QED BY <3>1, <4>1 DEF usbVars
      <3>3. CASE ~running
        BY <1>2, <3>1, <3>3 DEF Close, openVars, closeVars
      <3> QED BY <3>2, <3>3
    <2> QED BY <1>2, <2>1, <2>2
            DEF Close, Core, TypeOK, LoopInv, loopVars, transferVars, watchdogVars,
                startVars, openVars
  <1>3. CASE StartCapture(t, action)
    <2>1. DeviceTypeOK' /\ TaskInv'
      <3>1. UNCHANGED <<idle_cancel, idle_return>>
              \/ \E result \in Result : Queue(t, action, result)
        BY <1>3 DEF StartCapture
      <3> QED BY <1>3, <3>1, AcceptCore DEF StartCapture
    <2>2. UNCHANGED <<openVars, closeVars, usbVars>>
      BY <1>3 DEF StartCapture
    <2>3. CASE /\ UNCHANGED <<loopVars, stop, watchdogVars>>
               /\ start_timers' \in {start_timers, start_timers \cup {t}, start_timers \ {t}}
               /\ action_start_wait' \in 0..StartWaitMax + 1
      BY <2>1, <2>2, <2>3
         DEF Core, TypeOK, LoopInv, loopVars, transferVars, watchdogVars,
             openVars, closeVars, usbVars
    <2>4. CASE StartLoop(t, t, FALSE)
      BY <2>1, <2>2, <2>4, StartLoopCore
    <2>5. action_start_wait \in 0..StartWaitMax + 1
      BY DEF Core, TypeOK
    <2>6. CASE UNCHANGED <<loopVars, stop, watchdogVars, startVars>>
      BY <2>3, <2>5, <2>6 DEF startVars
    <2>7. CASE WaitForLoop(t)
      BY <2>3, <2>5, <2>7 DEF WaitForLoop, WaitAge
    <2>8. CASE GiveUpWaiting(t)
      BY <2>3, <2>5, <2>8 DEF GiveUpWaiting
    <2> QED BY <1>3, <2>4, <2>6, <2>7, <2>8 DEF StartCapture
  <1> QED BY <1>1, <1>2, <1>3

----------------------------------------------------------------------------
(* The types, the loop's bookkeeping and the current call hold throughout.    *)
LEMMA CoreInit == Init => Core
  <1> SUFFICES ASSUME Init PROVE Core
    OBVIOUS
  <1>1. DeviceTypeOK
    <2>1. << >> \in Seq(Return)
      BY EmptySeq
    <2> QED BY <2>1 DEF Init, DeviceInit, DeviceTypeOK
  <1>2. TaskInv
    BY DEF Init, DeviceInit, TaskInv
  <1>3. 0 \in 0..StartWaitMax + 1 /\ 0 \in Nat
    OBVIOUS
  <1>4. TypeOK
    BY <1>1, <1>3 DEF Init, TypeOK
  <1>5. LoopInv
    BY DEF Init, LoopInv
  <1> QED BY <1>2, <1>4, <1>5 DEF Core

(* Every step keeps the bookkeeping.                                         *)
LEMMA CoreNext == Core /\ [Next]_vars => Core'
  <1> SUFFICES ASSUME Core, [Next]_vars PROVE Core'
    OBVIOUS
  <1>1. CASE UNCHANGED vars
    BY <1>1 DEF Core, TypeOK, DeviceTypeOK, LoopInv, TaskInv, Success, vars, deviceVars,
                loopVars, transferVars, watchdogVars, startVars,
                    openVars, closeVars, usbVars
  <1>2. CASE MainLoop
    BY <1>2, LoopStepCore, CancelCore, TimerCore, ReturnCore, WaitTickCore DEF MainLoop, LoopStep
  <1>3. CASE Client
    BY <1>3, CancelCore, ClientCore DEF Client
  <1> QED BY <1>1, <1>2, <1>3 DEF Next

(* Type correctness of the driver session.                                    *)
THEOREM TypeCorrect == Spec => []TypeOK
  <1>1. Core => TypeOK
    BY DEF Core
  <1> QED BY <1>1, CoreInit, CoreNext, PTL DEF Spec

(* No transfer ever comes back to a freed state machine, whatever ends the     *)
(* loop and however many loops, calls and timers there are.                   *)
THEOREM TransferHasLoopAlways == Spec => []TransferHasLoop
  <1>1. Core => TransferHasLoop
    BY DEF Core, LoopInv, TransferHasLoop
  <1> QED BY <1>1, CoreInit, CoreNext, PTL DEF Spec

(* No cancel watchdog outlives the loop it was armed for.                      *)
THEOREM WatchdogHasLoopAlways == Spec => []WatchdogHasLoop
  <1>1. Core => WatchdogHasLoop
    BY DEF Core, TypeOK, LoopInv, WatchdogHasLoop
  <1> QED BY <1>1, CoreInit, CoreNext, PTL DEF Spec

----------------------------------------------------------------------------
(* The order of answers: ShutdownInv and SuccessIsFinal.                      *)

(* No success is queued.                                                      *)
Quiet == \A k \in 1..Len(idle_return) : ~Success(k)

(* A success is queued only behind a shutdown chain that has not got past the  *)
(* transfer in flight when it was queued.                                     *)
LEMMA QuietOutsideShutdown ==
  ASSUME Core, ShutdownInv, phase = "shutdown" => LastTransfer
  PROVE  Quiet
  <1> SUFFICES ASSUME NEW k \in 1..Len(idle_return), Success(k) PROVE FALSE
    BY DEF Quiet
  <1>1. phase = "shutdown" /\ (left = ShutdownTransfers \/ held_back >= k)
    BY DEF ShutdownInv
  <1>2. held_back = 0 /\ ~(left > 1)
    BY <1>1 DEF LastTransfer
  <1> QED BY <1>1, <1>2

(* One more answer is queued.                                                 *)
Appends(e) ==
  /\ Len(idle_return') = Len(idle_return) + 1
  /\ \A k \in 1..Len(idle_return) : idle_return'[k] = idle_return[k]
  /\ idle_return'[Len(idle_return')] = e

(* A completion puts one return behind the queued ones.                      *)
LEMMA CompleteAppends ==
  ASSUME Core, NEW result \in Result, Complete(result)
  PROVE  Appends([task |-> current_task, action |-> current_action, result |-> result])
  <1>1. current_task \in Task /\ current_action \in Action
    BY DEF Complete, Core, TypeOK, DeviceTypeOK, TaskInv
  <1>2. idle_return \in Seq(Return) /\ Queue(current_task, current_action, result)
    BY DEF Complete, Core, TypeOK, DeviceTypeOK
  <1> HIDE DEF Action, Result
  <1> QED BY <1>1, <1>2, QueueType DEF Appends

(* An answer that is no late failure of a succeeded call keeps the order.      *)
LEMMA AppendFinal ==
  ASSUME Core, SuccessIsFinal, NEW e, Appends(e),
         \A k \in 1..Len(idle_return) :
           Success(k) /\ idle_return[k].task = e.task => e.result \notin {"cancelled", "failed"}
  PROVE  SuccessIsFinal'
  <1> SUFFICES ASSUME NEW k \in 1..Len(idle_return'), NEW l \in 1..Len(idle_return'),
                      k < l, idle_return'[k].task = idle_return'[l].task, Success(k)'
               PROVE  idle_return'[l].result \notin {"cancelled", "failed"}
    BY DEF SuccessIsFinal
  <1>1. Len(idle_return) \in Nat
    BY DEF Core, TypeOK, DeviceTypeOK
  <1>2. k \in 1..Len(idle_return) /\ idle_return'[k] = idle_return[k]
    BY <1>1 DEF Appends
  <1>3. Success(k)
    BY <1>2 DEF Success
  <1>4. CASE l \in 1..Len(idle_return)
    BY <1>2, <1>3, <1>4 DEF SuccessIsFinal, Appends
  <1>5. CASE l = Len(idle_return')
    BY <1>2, <1>3, <1>5 DEF Appends
  <1> QED BY <1>1, <1>4, <1>5 DEF Appends

(* An answer that is no success, and a loop that stands still.                *)
LEMMA AppendShutdown ==
  ASSUME Core, ShutdownInv, NEW e, Appends(e),
         ~(e.action \in CaptureAction /\ e.result = "ok"),
         Quiet \/ UNCHANGED <<phase, left, held_back>>
  PROVE  ShutdownInv'
  <1> SUFFICES ASSUME NEW k \in 1..Len(idle_return'), Success(k)'
               PROVE  phase' = "shutdown" /\ (left' = ShutdownTransfers \/ held_back' >= k)
    BY DEF ShutdownInv
  <1>1. Len(idle_return) \in Nat
    BY DEF Core, TypeOK, DeviceTypeOK
  <1>2. k # Len(idle_return')
    BY DEF Appends, Success
  <1>3. k \in 1..Len(idle_return) /\ idle_return'[k] = idle_return[k]
    BY <1>1, <1>2 DEF Appends
  <1>4. Success(k)
    BY <1>3 DEF Success
  <1> QED BY <1>3, <1>4 DEF ShutdownInv, Quiet

(* Nothing is answered.                                                       *)
LEMMA KeepFinal ==
  ASSUME SuccessIsFinal, UNCHANGED idle_return
  PROVE  SuccessIsFinal'
  BY DEF SuccessIsFinal, Success

(* With the queue and the loop unchanged, nothing is to be shown.            *)
LEMMA KeepShutdown ==
  ASSUME ShutdownInv, UNCHANGED idle_return,
         Quiet \/ UNCHANGED <<phase, left, held_back>>
  PROVE  ShutdownInv'
  BY DEF ShutdownInv, Success, Quiet

Order == ShutdownInv /\ SuccessIsFinal

(* With no success queued, a loop that ends reports nothing late.             *)
LEMMA EndsOrder ==
  ASSUME Core, Order, Quiet, Ends
  PROVE  Order'
  <1>1. PICK failed \in BOOLEAN : LoopComplete(failed)
    BY DEF Ends
  <1>2. CASE UNCHANGED deviceVars
    BY <1>2, KeepFinal, KeepShutdown DEF Order, deviceVars
  <1>3. CASE Complete(IF cancelled THEN "cancelled" ELSE "failed")
    <2>1. PICK result \in {"cancelled", "failed"} : Complete(result)
      BY <1>3
    <2> DEFINE e == [task |-> current_task, action |-> current_action, result |-> result]
    <2>2. Appends(e) /\ e.result # "ok"
      BY <2>1, CompleteAppends
    <2> HIDE DEF e
    <2> QED BY <2>2, AppendFinal, AppendShutdown DEF Order, Quiet
  <1> QED BY <1>1, <1>2, <1>3 DEF LoopComplete

(* A loop that goes on or ends outside its shutdown chain has no success      *)
(* queued to spoil; one that enters the chain queues the success it guards.   *)
LEMMA LoopStepOrder ==
  ASSUME Core, Order, LoopStep
  PROVE  Order'
  <1>1. CASE Drains
    <2>1. idle_return' = idle_return /\ phase' = "shutdown"
          /\ held_back' = Len(idle_return)
      BY <1>1 DEF Drains, SubmitNext, Submit, deviceVars
    <2>2. Len(idle_return) \in Nat
      BY DEF Core, TypeOK, DeviceTypeOK
    <2>3. ShutdownInv'
      BY <2>1, <2>2 DEF ShutdownInv, Success
    <2> QED BY <2>1, <2>3, KeepFinal DEF Order
  <1>2. CASE (phase = "shutdown" => LastTransfer) /\ Ends
    <2>1. Quiet
      BY <1>2, QuietOutsideShutdown DEF Order
    <2> QED BY <1>2, <2>1, EndsOrder
  <1>3. CASE phase # "shutdown" /\ Moves
    <2>1. Quiet
      BY <1>3, QuietOutsideShutdown DEF Order
    <2>2. UNCHANGED idle_return
      BY <1>3 DEF Moves, deviceVars
    <2> QED BY <2>1, <2>2, KeepFinal, KeepShutdown DEF Order
  <1>4. CASE phase # "shutdown" /\ ShutsDown
    <2>1. Quiet
      BY <1>4, QuietOutsideShutdown DEF Order
    <2>2. CASE UNCHANGED deviceVars
      BY <2>1, <2>2, KeepFinal, KeepShutdown DEF Order, deviceVars
    <2>3. CASE Complete("ok")
      <3>1. PICK e : Appends(e)
        BY <2>3, CompleteAppends
      <3>2. SuccessIsFinal'
        BY <2>1, <3>1, AppendFinal DEF Order, Quiet
      <3>3. phase' = "shutdown" /\ left' = ShutdownTransfers
        BY <1>4 DEF ShutsDown, EnterDone, Submit
      <3>4. ShutdownInv'
        BY <3>3 DEF ShutdownInv
      <3> QED BY <3>2, <3>4 DEF Order
    <2> QED BY <1>4, <2>2, <2>3 DEF ShutsDown
  <1> QED BY <1>1, <1>2, <1>3, <1>4, LoopStepShape

(* Cancelling answers nothing; the watchdog never ends a shutdown chain, which *)
(* always has a transfer in flight.                                           *)
LEMMA CancelOrder ==
  ASSUME Core, Order, CancelInIdle \/ CancelWatchdog \/ Cancel
  PROVE  Order'
  <1>1. CASE CancelInIdle \/ Cancel
    <2>1. UNCHANGED <<idle_return, phase, left, held_back>>
      BY <1>1 DEF CancelInIdle, Cancel, ClientCancel, loopVars, transferVars
    <2> QED BY <2>1, KeepFinal, KeepShutdown DEF Order
  <1>2. CASE CancelWatchdog
    <2>1. phase # "shutdown"
      BY <1>2 DEF CancelWatchdog, Core, LoopInv
    <2>2. Quiet
      BY <2>1, QuietOutsideShutdown DEF Order
    <2>3. Ends
      BY <1>2 DEF CancelWatchdog, Ends
    <2> QED BY <2>2, <2>3, EndsOrder
  <1> QED BY <1>1, <1>2

(* A timer answers a wait with "busy", an open with success, or a close: none  *)
(* is a late failure of a capture action.                                     *)
LEMMA TimerOrder ==
  ASSUME Core, Order, NEW t \in Task,
         StartTimer(t) \/ OpenSettled(t) \/ ClosePoll(t)
  PROVE  Order'
  <1>1. CASE StartTimer(t)
    <2>1. CASE current_action \in CaptureAction /\ StartLoop(t, current_task, cancelled)
               /\ UNCHANGED deviceVars
      <3>1. phase # "shutdown"
        BY <2>1 DEF StartLoop, Core, LoopInv
      <3>2. Quiet
        BY <3>1, QuietOutsideShutdown DEF Order
      <3> QED BY <2>1, <3>2, KeepFinal, KeepShutdown DEF Order, deviceVars
    <2>2. CASE UNCHANGED <<deviceVars, loopVars>>
      BY <2>2, KeepFinal, KeepShutdown DEF Order, deviceVars, loopVars, transferVars
    <2>3. CASE Complete("busy") /\ UNCHANGED loopVars
      <3> DEFINE e == [task |-> current_task, action |-> current_action, result |-> "busy"]
      <3>1. Appends(e) /\ e.result = "busy"
        BY <2>3, CompleteAppends
      <3> HIDE DEF e
      <3> QED BY <2>3, <3>1, AppendFinal, AppendShutdown
              DEF Order, loopVars, transferVars
    <2> QED BY <1>1, <2>1, <2>2, <2>3 DEF StartTimer, WaitForLoop, GiveUpWaiting
  <1>2. CASE OpenSettled(t)
    <2>1. UNCHANGED loopVars
      BY <1>2 DEF OpenSettled
    <2>2. CASE current_action = "open" /\ Complete("ok")
      <3> DEFINE e == [task |-> current_task, action |-> current_action, result |-> "ok"]
      <3>1. Appends(e) /\ e.result = "ok" /\ e.action \notin CaptureAction
        BY <2>2, CompleteAppends
      <3> HIDE DEF e
      <3> QED BY <2>1, <3>1, AppendFinal, AppendShutdown DEF Order, loopVars, transferVars
    <2>3. CASE UNCHANGED deviceVars
      BY <2>1, <2>3, KeepFinal, KeepShutdown DEF Order, deviceVars, loopVars, transferVars
    <2> QED BY <1>2, <2>2, <2>3 DEF OpenSettled, CompleteAction
  <1>3. CASE ClosePoll(t)
    <2>1. UNCHANGED loopVars
      BY <1>3 DEF ClosePoll
    <2>2. CASE current_action = "close" /\ \E result \in Result : Complete(result)
      <3>1. PICK result \in Result : Complete(result)
        BY <2>2
      <3> DEFINE e == [task |-> current_task, action |-> current_action, result |-> result]
      <3>2. Appends(e) /\ e.task = current_task /\ e.action \notin CaptureAction
        BY <2>2, <3>1, CompleteAppends
      <3>3. \A k \in 1..Len(idle_return) :
              ~(Success(k) /\ idle_return[k].task = current_task)
        BY <2>2 DEF Core, TaskInv, Success
      <3> HIDE DEF e
      <3> QED BY <2>1, <3>2, <3>3, AppendFinal, AppendShutdown
              DEF Order, loopVars, transferVars
    <2>3. CASE UNCHANGED deviceVars
      BY <2>1, <2>3, KeepFinal, KeepShutdown DEF Order, deviceVars, loopVars, transferVars
    <2> QED BY <1>3, <2>2, <2>3 DEF ClosePoll, CompleteAction
  <1> QED BY <1>1, <1>2, <1>3

(* The clock touches neither the queue nor the loop.                         *)
LEMMA WaitTickOrder == Core /\ Order /\ WaitTick => Order'
  BY KeepFinal, KeepShutdown DEF WaitTick, Order, deviceVars, loopVars, transferVars

(* Handing out the oldest answer moves every other one up by one, and with it  *)
(* what the shutdown chain is held back by.                                   *)
LEMMA ReturnOrder ==
  ASSUME Core, Order, ReturnTask
  PROVE  Order'
  <1>1. /\ Len(idle_return) \in Nat
        /\ Len(idle_return') = Len(idle_return) - 1
        /\ \A k \in 1..Len(idle_return') : idle_return'[k] = idle_return[k + 1]
    BY HeadTailProperties DEF ReturnTask, TaskReturn, Core, TypeOK, DeviceTypeOK
  <1>2. /\ UNCHANGED <<phase, left>>
        /\ held_back \in Nat
        /\ held_back' = IF held_back = 0 THEN 0 ELSE held_back - 1
    BY DEF ReturnTask, Core, TypeOK
  <1>3. \A k \in 1..Len(idle_return') :
          k + 1 \in 1..Len(idle_return) /\ (Success(k)' => Success(k + 1))
    BY <1>1 DEF Success
  <1>4. ShutdownInv'
    BY <1>2, <1>3 DEF Order, ShutdownInv
  <1>5. SuccessIsFinal'
    <2> SUFFICES ASSUME NEW k \in 1..Len(idle_return'), NEW l \in 1..Len(idle_return'),
                        k < l, idle_return'[k].task = idle_return'[l].task, Success(k)'
                 PROVE  idle_return'[l].result \notin {"cancelled", "failed"}
      BY DEF SuccessIsFinal
    <2>1. k + 1 \in 1..Len(idle_return) /\ l + 1 \in 1..Len(idle_return) /\ k + 1 < l + 1
      BY <1>3
    <2>2. Success(k + 1)
      BY <1>3
    <2>3. idle_return'[k] = idle_return[k + 1] /\ idle_return'[l] = idle_return[l + 1]
      BY <1>1
    <2> QED BY <2>1, <2>2, <2>3 DEF Order, SuccessIsFinal
  <1> QED BY <1>4, <1>5 DEF Order

(* A fresh call shares no answer with an earlier one.                         *)
LEMMA ClientOrder ==
  ASSUME Core, Order, NEW t \in Task, NEW action \in CaptureAction,
         Open(t) \/ Close(t) \/ StartCapture(t, action)
  PROVE  Order'
  <1>1. \A k \in 1..Len(idle_return) : idle_return[k].task # t
    BY DEF Open, Close, StartCapture, Fresh, InUse
  <1>2. ASSUME NEW act \in Action, NEW result \in Result, Queue(t, act, result),
               ~(act \in CaptureAction /\ result = "ok"),
               UNCHANGED <<phase, left, held_back>>
        PROVE  Order'
    <2> DEFINE e == [task |-> t, action |-> act, result |-> result]
    <2>1. e.task = t /\ ~(e.action \in CaptureAction /\ e.result = "ok")
      BY <1>2
    <2>2. Appends(e)
      <3>1. idle_return \in Seq(Return)
        BY DEF Core, TypeOK, DeviceTypeOK
      <3> HIDE DEF Action, Result
      <3> QED BY <1>2, <3>1, QueueType DEF Appends
    <2> HIDE DEF e
    <2> QED BY <1>1, <1>2, <2>1, <2>2, AppendFinal, AppendShutdown DEF Order
  <1>3. CASE UNCHANGED <<idle_return, loopVars>>
    BY <1>3, KeepFinal, KeepShutdown DEF Order, loopVars, transferVars
  <1>4. CASE Open(t)
    BY <1>2, <1>3, <1>4 DEF Open, loopVars, transferVars
  <1>5. CASE Close(t)
    BY <1>2, <1>3, <1>5 DEF Close, loopVars, transferVars
  <1>6. CASE StartCapture(t, action)
    <2>1. CASE StartLoop(t, t, FALSE) /\ UNCHANGED idle_return
      <3>1. phase # "shutdown"
        BY <2>1 DEF StartLoop, Core, LoopInv
      <3>2. Quiet
        BY <3>1, QuietOutsideShutdown DEF Order
      <3> QED BY <2>1, <3>2, KeepFinal, KeepShutdown DEF Order
    <2>2. CASE Queue(t, action, "invalid") /\ UNCHANGED loopVars
      BY <1>2, <2>2 DEF loopVars, transferVars
    <2>3. CASE Queue(t, action, "busy") /\ UNCHANGED loopVars
      BY <1>2, <2>3 DEF loopVars, transferVars
    <2> QED BY <1>3, <1>6, <2>1, <2>2, <2>3
            DEF StartCapture, WaitForLoop, GiveUpWaiting
  <1> QED BY <1>4, <1>5, <1>6

(* Every step keeps successes final.                                         *)
LEMMA OrderNext == Core /\ Order /\ [Next]_vars => Order'
  <1> SUFFICES ASSUME Core, Order, [Next]_vars PROVE Order'
    OBVIOUS
  <1>1. CASE UNCHANGED vars
    BY <1>1, KeepFinal, KeepShutdown DEF Order, vars, deviceVars, loopVars, transferVars
  <1>2. CASE MainLoop
    BY <1>2, LoopStepOrder, CancelOrder, TimerOrder, WaitTickOrder, ReturnOrder DEF MainLoop, LoopStep
  <1>3. CASE Client
    BY <1>3, CancelOrder, ClientOrder DEF Client
  <1> QED BY <1>1, <1>2, <1>3 DEF Next

(* The inductive invariant: it holds initially and every step keeps it.       *)
THEOREM InductiveInvariant == Spec => []IInv
  <1>1. Init => Core /\ Order
    BY CoreInit DEF Init, DeviceInit, Order, ShutdownInv, SuccessIsFinal
  <1>2. Core /\ Order => IInv
    BY DEF Core, Order, IInv
  <1>3. Core /\ Order /\ [Next]_vars => (Core /\ Order)'
    BY CoreNext, OrderNext
  <1> QED BY <1>1, <1>2, <1>3, PTL DEF Spec

(* A capture action that has succeeded is never reported cancelled or failed   *)
(* afterwards, however the shutdown of its loop, cancellations, stale timers   *)
(* and later calls interleave.                                                *)
THEOREM SuccessIsFinalAlways == Spec => []SuccessIsFinal
  <1>1. IInv => SuccessIsFinal
    BY DEF IInv
  <1> QED BY <1>1, InductiveInvariant, PTL

(* The one live loop is only ever replaced after it has ended.                 *)
THEOREM LoopKeepsOwnerAlways == Spec => LoopKeepsOwner
  <1>1. Core /\ [Next]_vars => [running /\ running' => owner' = owner]_vars
    <2> SUFFICES ASSUME Core, Next, running, running' PROVE owner' = owner
      BY DEF vars, loopVars
    <2>1. CASE LoopStep
      <3>1. Ends => ~running'
        BY DEF Ends, LoopComplete
      <3> QED BY <2>1, <3>1, LoopStepShape
              DEF Moves, ShutsDown, EnterDone, Drains, KeepRunning
    <2>2. CASE CancelWatchdog
      BY <2>2 DEF CancelWatchdog, LoopComplete
    <2>3. CASE \E t \in Task : StartTimer(t)
      BY <2>3 DEF StartTimer, WaitForLoop, GiveUpWaiting, StartLoop, loopVars
    <2>4. CASE \E t \in Task, action \in CaptureAction : StartCapture(t, action)
      BY <2>4 DEF StartCapture, WaitForLoop, GiveUpWaiting, StartLoop, loopVars
    <2>5. CASE UNCHANGED owner
      BY <2>5
    <2>6. CancelInIdle \/ Cancel \/ WaitTick \/ ReturnTask => UNCHANGED owner
      BY DEF CancelInIdle, Cancel, WaitTick, ReturnTask, loopVars
    <2>7. \A t \in Task : OpenSettled(t) \/ ClosePoll(t) \/ Open(t) \/ Close(t)
                           => UNCHANGED owner
      BY DEF OpenSettled, ClosePoll, Open, Close, loopVars
    <2> QED BY <2>1, <2>2, <2>3, <2>4, <2>5, <2>6, <2>7
            DEF Next, MainLoop, Client, LoopStep
  <1> QED BY <1>1, CoreInit, CoreNext, PTL DEF Spec, LoopKeepsOwner

(* The interface is only ever released under a transfer by a close that has    *)
(* spent its polls: every other release happens in a callback of the one       *)
(* transfer, or while the loop has none out.                                  *)
THEOREM ReleaseUnderTransferOnlyAtCapAlways == Spec => ReleaseUnderTransferOnlyAtCap
  <1>1. Core /\ [Next]_vars =>
          [claimed /\ ~claimed' /\ transfer_in_flight /\ transfer_in_flight'
             => close_poll_retries' >= ClosePollMax]_vars
    <2> SUFFICES ASSUME Core, Next, claimed, ~claimed', transfer_in_flight, transfer_in_flight'
                 PROVE  close_poll_retries' >= ClosePollMax
      BY DEF vars, usbVars
    <2>1. running
      BY DEF Core, LoopInv
    <2>2. close_poll_retries \in Nat
      BY DEF Core, TypeOK
    <2>3. CASE LoopStep
      <3>1. Ends => ~transfer_in_flight'
        BY DEF Ends, Landed
      <3> QED BY <2>3, <3>1, LoopStepShape DEF Moves, ShutsDown, EnterDone, Drains, usbVars
    <2>4. ~CancelWatchdog
      BY DEF CancelWatchdog
    <2>5. CASE \E t \in Task : ClosePoll(t)
      <3>1. PICK t \in Task : ClosePoll(t)
        BY <2>5
      <3>2. close_poll_retries' = close_poll_retries + 1
        BY <3>1 DEF ClosePoll
      <3>3. ~(running /\ close_poll_retries' < ClosePollMax)
        BY <3>1 DEF ClosePoll, usbVars
      <3> QED BY <2>1, <2>2, <3>2, <3>3
    <2>6. CASE UNCHANGED claimed
      BY <2>6
    <2>7. CancelInIdle \/ Cancel \/ WaitTick \/ ReturnTask => UNCHANGED claimed
      BY DEF CancelInIdle, Cancel, WaitTick, ReturnTask, usbVars
    <2>8. \A t \in Task, action \in CaptureAction :
            StartTimer(t) \/ OpenSettled(t) \/ StartCapture(t, action) => UNCHANGED claimed
      BY DEF StartTimer, OpenSettled, StartCapture, usbVars
    <2>9. \A t \in Task : ~Open(t) \/ claimed'
      BY DEF Open
    <2>10. \A t \in Task : Close(t) => UNCHANGED claimed
      BY <2>1 DEF Close, usbVars
    <2> QED BY <2>3, <2>4, <2>5, <2>6, <2>7, <2>8, <2>9, <2>10
            DEF Next, MainLoop, Client, LoopStep
  <1> QED BY <1>1, CoreInit, CoreNext, PTL DEF Spec, ReleaseUnderTransferOnlyAtCap

(* What a step queues is an answer of a completion or of a fresh call.        *)
LEMMA QueuedIs ==
  ASSUME Core, NEW t \in Task, NEW act \in Action, NEW result \in Result,
         NEW u, NEW action, NEW r,
         Queue(t, act, result), Queued(u, action, r)
  PROVE  u = t /\ action = act /\ r = result
  <1>1. idle_return \in Seq(Return)
    BY DEF Core, TypeOK, DeviceTypeOK
  <1>2. [task |-> u, action |-> action, result |-> r]
          = [task |-> t, action |-> act, result |-> result]
    <2> HIDE DEF Action, Result
    <2> QED BY <1>1, QueueType DEF Queued
  <1>3. /\ [task |-> u, action |-> action, result |-> r].task = u
        /\ [task |-> u, action |-> action, result |-> r].action = action
        /\ [task |-> u, action |-> action, result |-> r].result = r
    OBVIOUS
  <1> QED BY <1>2, <1>3

(* A step that leaves the queue alone, or shortens it, answers nothing.      *)
LEMMA NothingQueued ==
  ASSUME Core, NEW u, NEW action, NEW r, UNCHANGED idle_return \/ ReturnTask
  PROVE  ~Queued(u, action, r)
  <1>1. Len(idle_return) \in Nat
    BY DEF Core, TypeOK, DeviceTypeOK
  <1>2. ReturnTask => Len(idle_return') = Len(idle_return) - 1
    BY HeadTailProperties DEF ReturnTask, TaskReturn, Core, TypeOK, DeviceTypeOK
  <1> QED BY <1>1, <1>2 DEF Queued

(* A completion answers the current call for its action.                     *)
LEMMA CompleteQueued ==
  ASSUME Core, NEW result \in Result, Complete(result),
         NEW u \in Task, NEW action, NEW r, Queued(u, action, r)
  PROVE  u = current_task /\ action = current_action /\ r = result
  <1>1. current_task \in Task /\ current_action \in Action
    BY DEF Complete, Core, TypeOK, DeviceTypeOK, TaskInv
  <1>2. Queue(current_task, current_action, result)
    BY DEF Complete
  <1> QED BY <1>1, <1>2, QueuedIs

(* A close is answered while the loop runs only after it has spent its polls. *)
THEOREM CloseWaitsForLoopAlways == Spec => CloseWaitsForLoop
  <1>1. Core /\ [Next]_vars =>
          [\A t \in Task, result \in Result :
             Queued(t, "close", result)
               => ~running' \/ close_poll_retries' >= ClosePollMax]_vars
    <2> SUFFICES ASSUME Core, Next, NEW u \in Task, NEW r \in Result,
                        Queued(u, "close", r), running'
                 PROVE  close_poll_retries' >= ClosePollMax
      OBVIOUS
    <2>1. CASE LoopStep
      <3>1. Ends => ~running'
        BY DEF Ends, LoopComplete
      <3>2. UNCHANGED deviceVars => FALSE
        BY NothingQueued DEF deviceVars
      <3>3. current_action \in CaptureAction /\ Complete("ok") => FALSE
        BY CompleteQueued
      <3> QED BY <2>1, <3>1, <3>2, <3>3, LoopStepShape DEF Moves, ShutsDown, Drains
    <2>2. ~CancelWatchdog
      BY DEF CancelWatchdog, LoopComplete
    <2>3. ~(CancelInIdle \/ Cancel \/ WaitTick \/ ReturnTask)
      BY NothingQueued DEF CancelInIdle, Cancel, ClientCancel, WaitTick, deviceVars
    <2>4. ASSUME NEW t \in Task PROVE ~StartTimer(t)
      <3>1. ~UNCHANGED deviceVars
        BY NothingQueued DEF deviceVars
      <3>2. ~(current_action \in CaptureAction /\ Complete("busy"))
        BY CompleteQueued
      <3> QED BY <3>1, <3>2 DEF StartTimer
    <2>5. ASSUME NEW t \in Task PROVE ~OpenSettled(t)
      <3>1. ~UNCHANGED deviceVars
        BY NothingQueued DEF deviceVars
      <3>2. ~(current_action = "open" /\ Complete("ok"))
        BY CompleteQueued
      <3> QED BY <3>1, <3>2 DEF OpenSettled, CompleteAction
    <2>6. ASSUME NEW t \in Task, ClosePoll(t)
          PROVE  close_poll_retries' >= ClosePollMax
      <3>1. ~UNCHANGED deviceVars
        BY NothingQueued DEF deviceVars
      <3>2. running /\ close_poll_retries' = close_poll_retries + 1
        BY <2>6 DEF ClosePoll, loopVars
      <3>3. ~(running /\ close_poll_retries' < ClosePollMax)
        BY <2>6, <3>1 DEF ClosePoll
      <3>4. close_poll_retries \in Nat
        BY DEF Core, TypeOK
      <3> QED BY <3>2, <3>3, <3>4
    <2>7. ASSUME NEW t \in Task PROVE ~Open(t)
      <3>1. ~UNCHANGED idle_return
        BY NothingQueued
      <3>2. ~Queue(t, "open", "failed")
        BY QueuedIs
      <3> QED BY <3>1, <3>2 DEF Open
    <2>8. ASSUME NEW t \in Task, NEW action \in CaptureAction
          PROVE  ~StartCapture(t, action)
      <3>1. ~UNCHANGED idle_return
        BY NothingQueued
      <3>2. ~Queue(t, action, "invalid") /\ ~Queue(t, action, "busy")
        BY QueuedIs
      <3> QED BY <3>1, <3>2 DEF StartCapture
    <2>9. ASSUME NEW t \in Task PROVE ~Close(t)
      <3>1. ~UNCHANGED idle_return
        BY NothingQueued
      <3> QED BY <3>1 DEF Close, loopVars
    <2> QED BY <2>1, <2>2, <2>3, <2>4, <2>5, <2>6, <2>7, <2>8, <2>9
            DEF Next, MainLoop, Client, LoopStep
  <1> QED BY <1>1, CoreInit, CoreNext, PTL DEF Spec, CloseWaitsForLoop

(* A capture action that was cancelled is never answered with a failure.      *)
THEOREM CancelIsNotFailureAlways == Spec => CancelIsNotFailure
  <1>1. Core /\ [Next]_vars =>
          [\A action \in CaptureAction :
             cancelled => ~Queued(current_task, action, "failed")]_vars
    <2> SUFFICES ASSUME Core, Next, NEW capture \in CaptureAction, cancelled,
                        Queued(current_task, capture, "failed")
                 PROVE  FALSE
      OBVIOUS
    <2>1. \A result \in Result : Complete(result) => result = "failed"
      <3>1. ASSUME NEW result \in Result, Complete(result) PROVE result = "failed"
        <4>1. current_task \in Task
          BY <3>1 DEF Complete, Core, TypeOK, DeviceTypeOK, TaskInv
        <4> QED BY <3>1, <4>1, CompleteQueued
      <3> QED BY <3>1
    <2>2. ~UNCHANGED deviceVars
      BY NothingQueued DEF deviceVars
    <2>3. ~Ends
      BY <2>1, <2>2 DEF Ends, LoopComplete
    <2>4. ~LoopStep
      BY <2>1, <2>2, <2>3, LoopStepShape DEF Moves, ShutsDown, Drains
    <2>5. ~CancelWatchdog
      BY <2>3 DEF CancelWatchdog, Ends
    <2>6. ~(CancelInIdle \/ Cancel \/ WaitTick \/ ReturnTask)
      BY <2>2, NothingQueued DEF CancelInIdle, Cancel, ClientCancel, WaitTick, deviceVars
    <2>7. ASSUME NEW t \in Task PROVE ~StartTimer(t) /\ ~OpenSettled(t)
      BY <2>1, <2>2 DEF StartTimer, OpenSettled, CompleteAction
    <2>8. ASSUME NEW t \in Task PROVE ~ClosePoll(t)
      <3>1. current_action = "close" => ~\E result \in Result : Complete(result)
        <4>1. ASSUME current_action = "close", NEW result \in Result, Complete(result)
              PROVE  FALSE
          <5>1. current_task \in Task
            BY <4>1 DEF Complete, Core, TypeOK, DeviceTypeOK, TaskInv
          <5> QED BY <4>1, <5>1, CompleteQueued
        <4> QED BY <4>1
      <3> QED BY <2>2, <3>1 DEF ClosePoll, CompleteAction
    <2>9. ASSUME NEW t \in Task, NEW action \in CaptureAction
          PROVE  ~(Open(t) \/ Close(t) \/ StartCapture(t, action))
      <3>1. ~UNCHANGED idle_return
        BY NothingQueued
      <3>2. ASSUME Accept("open", t) \/ Accept("close", t) \/ Accept(action, t),
                   NEW act \in Action, NEW result \in Result, Queue(t, act, result)
            PROVE  FALSE
        <4>1. current_task = NoTask /\ NoTask \notin Task
          BY <3>2, TaskIsNotNone DEF Accept
        <4>2. current_task = t
          BY <3>2, QueuedIs
        <4> QED BY <4>1, <4>2
      <3>3. /\ "open" \in Action /\ "close" \in Action /\ action \in Action
            /\ {"ok", "failed", "invalid", "busy"} \subseteq Result
        BY DEF Action, Result
      <3> QED BY <3>1, <3>2, <3>3 DEF Open, Close, StartCapture
    <2> QED BY <2>4, <2>5, <2>6, <2>7, <2>8, <2>9 DEF Next, MainLoop, Client, LoopStep
  <1> QED BY <1>1, CoreInit, CoreNext, PTL DEF Spec, CancelIsNotFailure

----------------------------------------------------------------------------
(* The session's loop is a CaptureLoop.  How the helpers move it:             *)

(* Where a recycled claim, a skipped or a new calibration and a poll lead.     *)
LEMMA EntersPhase ==
  /\ EnterStart => stop' = stop /\ phase' = IF stop THEN "off" ELSE "frame"
  /\ EnterInit => /\ stop' = stop
                  /\ phase' \in {"to_start", IF stop THEN "off" ELSE "frame"}
  /\ EnterCal => stop' = stop /\ phase' \in {"cal", "to_start"}
  /\ LoopFails \/ LoopEnds => stop' = stop /\ phase' = "off"
  /\ \A p \in Delayed : RecycleClaim(p) => stop' = stop /\ phase' \in {p, "off"}
  BY DEF EnterStart, EnterInit, EnterCal, RecycleClaim, LoopFails, LoopEnds, LoopComplete,
         SubmitNext, Submit, JumpDelayed

(* Where a frame leads.                                                       *)
LEMMA SaveImgPhase ==
  SaveImg => /\ phase' \in {"shutdown", "frame", "off", "to_init", "to_cal"}
             /\ stop => phase' = "shutdown"
             /\ stop' <=> (stop \/ phase' = "shutdown")
  <1> SUFFICES ASSUME SaveImg
               PROVE  /\ phase' \in {"shutdown", "frame", "off", "to_init", "to_cal"}
                      /\ stop => phase' = "shutdown"
                      /\ stop' <=> (stop \/ phase' = "shutdown")
    OBVIOUS
  <1>1. CASE stop
    BY <1>1 DEF SaveImg, EnterDone, Submit
  <1>2. CASE ~stop
    <2>1. CASE stop' = TRUE /\ \E behind \in {Len(idle_return), Len(idle_return) + 0,
                                             Len(idle_return) + 1} : EnterDone(behind)
      BY <1>2, <2>1 DEF EnterDone, Submit
    <2>2. CASE EnterStart
      BY <1>2, <2>2, EntersPhase
    <2>3. CASE JumpDelayed("to_init") /\ UNCHANGED stop
      BY <1>2, <2>3 DEF JumpDelayed
    <2>4. CASE RestartCaptureCycle \/ RecycleClaim("to_cal")
      BY <1>2, <2>4, EntersPhase DEF RestartCaptureCycle, Delayed
    <2> QED BY <1>2, <2>1, <2>2, <2>3, <2>4 DEF SaveImg
  <1> QED BY <1>1, <1>2

(* The shutdown chain belongs to a stopped loop.                              *)
StopInv == phase = "shutdown" => stop

(* Every callback of the loop is a step of CaptureLoop.                        *)
LEMMA LoopStepImplements ==
  ASSUME StopInv, LoopStep
  PROVE  Loop!Step
  <1>1. CASE CalTransferDone
    BY <1>1, EntersPhase DEF CalTransferDone, SubmitNext, Submit, Loop!Step, Loop!Going, Loop!Draining
  <1>2. CASE FrameTransferDone
    BY <1>2, EntersPhase, SaveImgPhase
       DEF FrameTransferDone, RestartCaptureCycle, Delayed, SubmitNext, Submit,
           Loop!Step, Loop!Going, Loop!Draining
  <1>3. CASE PreInitRequired
    BY <1>3 DEF PreInitRequired, SubmitNext, Submit, Loop!Step, Loop!Going, Loop!Draining
  <1>4. CASE ShutdownTransferDone
    <2>1. /\ phase = "shutdown" /\ phase' \in {"shutdown", "off"}
          /\ stop' = stop
      BY <1>4, EntersPhase DEF ShutdownTransferDone, SubmitNext, Submit
    <2> QED BY <2>1 DEF StopInv, Loop!Step, Loop!Going, Loop!Draining
  <1>5. CASE DelayFires
    <2>1. CASE phase = "to_cal"
      BY <1>5, <2>1, EntersPhase DEF DelayFires, Loop!Step, Loop!Going, Loop!Draining
    <2>2. CASE phase = "to_init"
      BY <1>5, <2>2, EntersPhase DEF DelayFires, Loop!Step, Loop!Going, Loop!Draining
    <2>3. CASE phase = "to_start"
      BY <1>5, <2>3, EntersPhase DEF DelayFires, Loop!Step, Loop!Going, Loop!Draining
    <2> QED BY <1>5, <2>1, <2>2, <2>3 DEF DelayFires
  <1> QED BY <1>1, <1>2, <1>3, <1>4, <1>5 DEF LoopStep

(* Every step of the session is a step of the loop, or leaves it alone.         *)
LEMMA StepImplements == Core /\ StopInv /\ [Next]_vars => [Loop!Next]_<<stop, phase>>
  <1> SUFFICES ASSUME Core, StopInv, Next, ~UNCHANGED <<stop, phase>>
               PROVE  Loop!Next
    BY DEF vars, loopVars
  <1>1. CASE LoopStep
    BY <1>1, LoopStepImplements DEF Loop!Next
  <1>2. CASE CancelInIdle
    BY <1>2 DEF CancelInIdle, loopVars, Loop!Next, Loop!Stop
  <1>3. CASE CancelWatchdog
    <2>1. /\ phase \in Delayed /\ phase' = "off"
          /\ stop' = stop
      BY <1>3 DEF CancelWatchdog, LoopComplete, Core, TypeOK, LoopInv
    <2> QED BY <2>1 DEF Loop!Next, Loop!Step, Loop!Going, Loop!Draining
  <1>4. ~(WaitTick \/ ReturnTask \/ Cancel)
    BY DEF WaitTick, ReturnTask, Cancel, loopVars
  <1>5. ASSUME NEW t \in Task, NEW u, NEW is_cancelled, StartLoop(t, u, is_cancelled)
        PROVE  Loop!Next
    BY <1>5 DEF StartLoop, JumpDelayed, Submit, Core, LoopInv, Loop!Next, Loop!Start, Loop!Going
  <1>6. ASSUME NEW t \in Task, StartTimer(t) PROVE Loop!Next
    BY <1>5, <1>6 DEF StartTimer, WaitForLoop, GiveUpWaiting, loopVars
  <1>7. ASSUME NEW t \in Task PROVE ~OpenSettled(t) /\ ~ClosePoll(t) /\ ~Open(t)
    BY DEF OpenSettled, ClosePoll, Open, loopVars
  <1>8. ASSUME NEW t \in Task, NEW action \in CaptureAction, StartCapture(t, action)
        PROVE  Loop!Next
    BY <1>5, <1>8 DEF StartCapture, WaitForLoop, GiveUpWaiting, loopVars
  <1>9. ASSUME NEW t \in Task, Close(t) PROVE Loop!Next
    BY <1>9 DEF Close, loopVars, Loop!Next, Loop!Stop
  <1> QED BY <1>1, <1>2, <1>3, <1>4, <1>6, <1>7, <1>8, <1>9
          DEF Next, MainLoop, Client, LoopStep

LEMMA StopStep == Core /\ StopInv /\ [Next]_vars => StopInv'
  BY StepImplements DEF StopInv, Loop!Next, Loop!Start, Loop!Step, Loop!Stop, Loop!Going

(* The session implements CaptureLoop: whatever the clients and the timers do,  *)
(* a stopped loop only winds down, and no loop starts before the last is gone. *)
THEOREM SessionImplementsLoop == Spec => ImplementsLoop
  <1>1. Init => Loop!Init /\ StopInv
    BY DEF Init, Loop!Init, StopInv
  <1>2. Core /\ StopInv /\ [Next]_vars => [Loop!Next]_<<stop, phase>> /\ StopInv'
    BY StepImplements, StopStep
  <1> QED BY <1>1, <1>2, CoreInit, CoreNext, PTL DEF Spec, ImplementsLoop, Loop!Spec

----------------------------------------------------------------------------
(* Nothing owed to a call is lost.                                            *)

(* The loop works for the call: it has not been stopped, or it will report the  *)
(* cancellation.                                                              *)
LoopServes == running /\ owner = current_task /\ (~stop \/ cancelled)

(* A call that has no answer yet has its own timer pending, or the loop that      *)
(* was started for it still works for it.                                     *)
CallHasAnswerer ==
  Connected =>
    \/ current_action = "open" /\ current_task \in settle_timers
    \/ current_action = "close" /\ current_task \in close_timers
    \/ current_action \in CaptureAction /\ current_task \in start_timers
    \/ current_action \in CaptureAction /\ LoopServes

(* What is queued is for the current call, and only a cancelled call without an  *)
(* answer has its cancellation on the way.                                     *)
AnswerInv ==
  /\ \A k \in 1..Len(idle_return) : idle_return[k].task = current_task
  /\ idle_cancel => cancelled /\ Connected
  /\ CallHasAnswerer

(* A completion answers the current call.                                     *)
LEMMA CompleteAnswers ==
  ASSUME Core, AnswerInv, NEW result \in Result, Complete(result)
  PROVE  AnswerInv'
  <1>1. current_task \in Task /\ current_action \in Action
    BY DEF Complete, Core, TypeOK, DeviceTypeOK, TaskInv
  <1>2. /\ Len(idle_return') = Len(idle_return) + 1
        /\ \A k \in 1..Len(idle_return) : idle_return'[k] = idle_return[k]
        /\ idle_return'[Len(idle_return')] =
             [task |-> current_task, action |-> current_action, result |-> result]
        /\ idle_cancel' = FALSE
    <2>1. idle_return \in Seq(Return) /\ Queue(current_task, current_action, result)
      BY DEF Complete, Core, TypeOK, DeviceTypeOK
    <2> HIDE DEF Action, Result
    <2> QED BY <1>1, <2>1, QueueType DEF Queue
  <1>3. current_task' = current_task /\ Len(idle_return) \in Nat
    BY DEF Complete, Core, TypeOK, DeviceTypeOK
  <1>4. \A k \in 1..Len(idle_return') : idle_return'[k].task = current_task'
    BY <1>2, <1>3 DEF AnswerInv
  <1>5. ~Connected'
    <2>1. Len(idle_return') \in 1..Len(idle_return')
      BY <1>2, <1>3
    <2> QED BY <1>4, <2>1 DEF Connected
  <1> QED BY <1>2, <1>4, <1>5 DEF AnswerInv, CallHasAnswerer

(* A step that completes nothing keeps the call's answerer, if it keeps its     *)
(* timer and its loop.                                                        *)
LEMMA KeepsAnswerer ==
  ASSUME AnswerInv, UNCHANGED deviceVars,
         current_action = "open" /\ current_task \in settle_timers => current_task \in settle_timers',
         current_action = "close" /\ current_task \in close_timers => current_task \in close_timers',
         current_action \in CaptureAction /\ (current_task \in start_timers \/ LoopServes)
           => current_task \in start_timers' \/ LoopServes'
  PROVE  AnswerInv'
  <1>1. Connected' <=> Connected
    BY DEF Connected, deviceVars
  <1> QED BY <1>1 DEF AnswerInv, CallHasAnswerer, deviceVars

(* A loop that ends without an answer was stopped before, and no cancellation    *)
(* is owed; a loop that goes on stays as it is.                               *)
LEMMA LoopStepAnswers ==
  ASSUME Core, StopInv, LoopStep
  PROVE  /\ running /\ Others
         /\ \/ \E result \in Result : Complete(result)
            \/ UNCHANGED <<deviceVars, stop, running, owner>>
            \/ UNCHANGED deviceVars /\ (current_action = "none" \/ (stop /\ ~cancelled))
  <1>1. ASSUME NEW failed \in BOOLEAN, LoopComplete(failed), failed \/ stop
        PROVE  \/ \E result \in Result : Complete(result)
               \/ UNCHANGED deviceVars /\ (current_action = "none" \/ (stop /\ ~cancelled))
    <2>1. CASE Reports(failed)
      BY <1>1, <2>1 DEF LoopComplete, Result
    <2>2. CASE ~Reports(failed)
      BY <1>1, <2>2 DEF LoopComplete, Reports
    <2> QED BY <2>1, <2>2
  <1>2. running /\ Others
    BY LoopStepShape
  <1> DEFINE G == \/ \E result \in Result : Complete(result)
                  \/ UNCHANGED <<deviceVars, stop, running, owner>>
                  \/ UNCHANGED deviceVars /\ (current_action = "none" \/ (stop /\ ~cancelled))
  <1>3. LoopFails => G
    BY <1>1 DEF LoopFails
  <1>4. LoopEnds /\ stop => G
    BY <1>1 DEF LoopEnds
  <1>5. EnterStart => G
    BY <1>4 DEF EnterStart, KeepRunning
  <1>6. EnterInit \/ EnterCal => G
    BY <1>5 DEF EnterInit, EnterCal, KeepRunning
  <1>7. ASSUME NEW p, RecycleClaim(p) PROVE G
    BY <1>1, <1>3, <1>7 DEF RecycleClaim, KeepRunning
  <1>8. SaveImg => G
    <2>1. "ok" \in Result
      BY DEF Result
    <2> QED BY <1>5, <1>7, <2>1 DEF SaveImg, EnterDone, RestartCaptureCycle, KeepRunning
  <1>9. G
    <2>1. CASE CalTransferDone
      BY <1>3, <1>5, <2>1 DEF CalTransferDone, KeepRunning
    <2>2. CASE FrameTransferDone
      BY <1>3, <1>7, <1>8, <2>2 DEF FrameTransferDone, RestartCaptureCycle, KeepRunning
    <2>3. CASE PreInitRequired
      BY <2>3 DEF PreInitRequired, KeepRunning
    <2>4. CASE ShutdownTransferDone
      BY <1>4, <2>4 DEF ShutdownTransferDone, KeepRunning, StopInv
    <2>5. CASE DelayFires
      BY <1>5, <1>6, <2>5 DEF DelayFires
    <2> HIDE DEF G
    <2> QED BY <2>1, <2>2, <2>3, <2>4, <2>5 DEF LoopStep
  <1> QED BY <1>2, <1>9

LEMMA LoopKeepsAnswerer ==
  ASSUME Core, StopInv, AnswerInv, LoopStep
  PROVE  AnswerInv'
  <1>1. Others
    BY LoopStepAnswers
  <1>2. CASE \E result \in Result : Complete(result)
    BY <1>2, CompleteAnswers
  <1>3. CASE UNCHANGED <<deviceVars, stop, running, owner>>
    BY <1>1, <1>3, KeepsAnswerer
       DEF Others, startVars, openVars, closeVars, deviceVars, LoopServes
  <1>4. CASE UNCHANGED deviceVars /\ (current_action = "none" \/ (stop /\ ~cancelled))
    <2>1. ~(current_action \in CaptureAction /\ LoopServes)
      BY <1>4 DEF CaptureAction, LoopServes
    <2> QED BY <1>1, <1>4, <2>1, KeepsAnswerer
            DEF Others, startVars, openVars, closeVars
  <1> QED BY <1>2, <1>3, <1>4, LoopStepAnswers

(* A timer answers, starts the loop for the call, or stays armed.              *)
LEMMA TimerKeepsAnswerer ==
  ASSUME Core, AnswerInv, NEW t \in Task, StartTimer(t) \/ OpenSettled(t) \/ ClosePoll(t)
  PROVE  AnswerInv'
  <1>1. {"ok", "failed", "busy"} \subseteq Result /\ "open" \notin CaptureAction
        /\ "close" \notin CaptureAction
    BY DEF Result, CaptureAction
  <1>2. CASE StartTimer(t)
    <2>1. UNCHANGED <<openVars, closeVars>>
      BY <1>2 DEF StartTimer
    <2>2. CASE current_action \notin CaptureAction
      BY <1>2, <2>1, <2>2, KeepsAnswerer DEF StartTimer, openVars, closeVars
    <2>3. CASE WaitForLoop(t) /\ UNCHANGED deviceVars
      BY <2>1, <2>3, KeepsAnswerer
         DEF WaitForLoop, openVars, closeVars, loopVars, deviceVars, LoopServes
    <2>4. CASE Complete("busy")
      BY <1>1, <2>4, CompleteAnswers
    <2>5. CASE StartLoop(t, current_task, cancelled) /\ UNCHANGED deviceVars
      <3>1. LoopServes'
        BY <2>5 DEF StartLoop, LoopServes, deviceVars
      <3> QED BY <2>1, <2>5, <3>1, KeepsAnswerer DEF openVars, closeVars
    <2> QED BY <1>2, <2>2, <2>3, <2>4, <2>5 DEF StartTimer
  <1>3. CASE OpenSettled(t)
    <2>1. CASE current_action = "open"
      BY <1>1, <1>3, <2>1, CompleteAnswers DEF OpenSettled, CompleteAction
    <2>2. CASE current_action # "open"
      BY <1>3, <2>2, KeepsAnswerer
         DEF OpenSettled, CompleteAction, loopVars, startVars, closeVars, deviceVars, LoopServes
    <2> QED BY <2>1, <2>2
  <1>4. CASE ClosePoll(t)
    <2>1. UNCHANGED <<loopVars, stop, startVars, openVars>>
      BY <1>4 DEF ClosePoll
    <2>2. CASE running /\ close_poll_retries' < ClosePollMax
      BY <1>4, <2>1, <2>2, KeepsAnswerer
         DEF ClosePoll, loopVars, startVars, openVars, deviceVars, LoopServes
    <2>3. CASE ~(running /\ close_poll_retries' < ClosePollMax)
      <3>1. CASE current_action = "close"
        BY <1>1, <1>4, <2>3, <3>1, CompleteAnswers DEF ClosePoll, CompleteAction
      <3>2. CASE current_action # "close"
        BY <1>4, <2>1, <2>3, <3>2, KeepsAnswerer
           DEF ClosePoll, CompleteAction, loopVars, startVars, openVars, deviceVars, LoopServes
      <3> QED BY <3>1, <3>2
    <2> QED BY <2>2, <2>3
  <1> QED BY <1>2, <1>3, <1>4

(* Handing over the only answer leaves no call and nothing queued.             *)
LEMMA ReturnKeepsAnswerer ==
  ASSUME Core, AnswerInv, AnsweredOnce, ReturnTask
  PROVE  AnswerInv'
  <1>1. idle_return \in Seq(Return) /\ idle_return # <<>>
    BY DEF ReturnTask, TaskReturn, Core, TypeOK, DeviceTypeOK
  <1>2. Len(idle_return) = 1
    <2>1. Len(idle_return) \in Nat /\ Len(idle_return) # 0
      BY <1>1
    <2>2. ~(Len(idle_return) > 1)
      <3>1. SUFFICES ASSUME Len(idle_return) > 1 PROVE FALSE
        OBVIOUS
      <3>2. 1 \in 1..Len(idle_return) /\ 2 \in 1..Len(idle_return)
        BY <2>1, <3>1
      <3>3. idle_return[1].task = idle_return[2].task
        BY <3>2 DEF AnswerInv
      <3>4. 1 = 2
        BY <3>2, <3>3 DEF AnsweredOnce
      <3> QED BY <3>4
    <2>3. \A n \in Nat : n # 0 /\ ~(n > 1) => n = 1
      OBVIOUS
    <2> QED BY <2>1, <2>2, <2>3
  <1>3. Len(idle_return') = 0
    BY <1>1, <1>2 DEF ReturnTask, TaskReturn
  <1>4. 1 \in 1..Len(idle_return)
    BY <1>2
  <1>5. ~Connected /\ ~idle_cancel
    BY <1>4 DEF AnswerInv, Connected
  <1>6. ~Connected' /\ ~idle_cancel'
    BY <1>5 DEF ReturnTask, TaskReturn, Connected
  <1> QED BY <1>3, <1>6 DEF AnswerInv, CallHasAnswerer

(* A call that is accepted is answered at once or gets its answerer.           *)
LEMMA ClientKeepsAnswerer ==
  ASSUME Core, AnswerInv, NEW t \in Task, NEW action \in CaptureAction,
         Open(t) \/ Close(t) \/ StartCapture(t, action)
  PROVE  AnswerInv'
  <1>1. Len(idle_return) \in Nat /\ idle_return \in Seq(Return)
    BY DEF Core, TypeOK, DeviceTypeOK
  <1>2. current_task = NoTask
    BY DEF Open, Close, StartCapture, Accept
  <1>3. Len(idle_return) = 0
    <2>1. \A k \in 1..Len(idle_return) : idle_return[k].task \in Task
      <3>1. \A k \in 1..Len(idle_return) : idle_return[k] \in Return
        BY <1>1
      <3> QED BY <3>1 DEF Return
    <2>2. \A k \in 1..Len(idle_return) : FALSE
      BY <1>2, <2>1, TaskIsNotNone DEF AnswerInv
    <2>3. ~(1 \in 1..Len(idle_return))
      BY <2>2
    <2> QED BY <1>1, <2>3
  <1>4. ~idle_cancel
    BY <1>2 DEF AnswerInv, Connected
  <1>5. current_task' = t
    BY DEF Open, Close, StartCapture, Accept
  <1>6. ASSUME NEW act, NEW result, Queue(t, act, result) PROVE AnswerInv'
    <2>1. idle_return' = Append(idle_return, [task |-> t, action |-> act, result |-> result])
          /\ idle_cancel' = FALSE
      BY <1>6 DEF Queue
    <2>2. Len(idle_return') = 1 /\ idle_return'[1].task = t
      BY <1>1, <1>3, <2>1
    <2>3. ~Connected'
      BY <1>5, <2>2 DEF Connected
    <2> QED BY <1>5, <2>1, <2>2, <2>3 DEF AnswerInv, CallHasAnswerer
  <1>7. ASSUME UNCHANGED <<idle_cancel, idle_return>>, CallHasAnswerer' PROVE AnswerInv'
    BY <1>3, <1>4, <1>7 DEF AnswerInv
  <1>8. CASE Open(t)
    <2>1. CASE Queue(t, "open", "failed")
      BY <1>6, <2>1
    <2>2. CASE settle_timers' = settle_timers \cup {t} /\ UNCHANGED <<idle_cancel, idle_return>>
      BY <1>5, <1>7, <1>8, <2>2 DEF Open, Accept, CallHasAnswerer
    <2> QED BY <1>8, <2>1, <2>2 DEF Open
  <1>9. CASE Close(t)
    <2>1. CASE running
      BY <1>5, <1>7, <1>9, <2>1 DEF Close, Accept, CallHasAnswerer
    <2>2. CASE ~running
      BY <1>6, <1>9, <2>2 DEF Close
    <2> QED BY <2>1, <2>2
  <1>10. CASE StartCapture(t, action)
    <2>1. current_action' \in CaptureAction
      BY <1>10 DEF StartCapture, Accept
    <2>2. CASE Queue(t, action, "invalid") \/ Queue(t, action, "busy")
      BY <1>6, <2>2
    <2>3. CASE WaitForLoop(t) /\ UNCHANGED <<idle_cancel, idle_return>>
      BY <1>5, <1>7, <2>1, <2>3 DEF WaitForLoop, CallHasAnswerer
    <2>4. CASE StartLoop(t, t, FALSE) /\ UNCHANGED <<idle_cancel, idle_return>>
      <3>1. LoopServes'
        BY <1>5, <2>4 DEF StartLoop, LoopServes
      <3> QED BY <1>7, <2>1, <2>4, <3>1 DEF CallHasAnswerer
    <2> QED BY <1>10, <2>2, <2>3, <2>4 DEF StartCapture
  <1> QED BY <1>8, <1>9, <1>10

(* While every call is answered once, no call is ever forgotten: the safety      *)
(* half of CancelAnswered and OpenCloseAnswered.                              *)
THEOREM NoCallIsForgotten == Spec /\ []AnsweredOnce => []CallHasAnswerer
  <1>1. Init => AnswerInv /\ StopInv
    <2>1. Init => Len(idle_return) = 0 /\ ~Connected /\ ~idle_cancel
      BY DEF Init, DeviceInit, Connected
    <2> QED BY <2>1 DEF Init, AnswerInv, CallHasAnswerer, StopInv
  <1>2. Core /\ StopInv /\ AnswerInv /\ AnsweredOnce /\ [Next]_vars => AnswerInv'
    <2> SUFFICES ASSUME Core, StopInv, AnswerInv, AnsweredOnce, [Next]_vars PROVE AnswerInv'
      OBVIOUS
    <2>1. CASE UNCHANGED vars
      BY <2>1, KeepsAnswerer
         DEF vars, deviceVars, loopVars, startVars, openVars, closeVars, LoopServes
    <2>2. CASE LoopStep
      BY <2>2, LoopKeepsAnswerer
    <2>3. CASE CancelInIdle
      <3>1. cancelled /\ Connected
        BY <2>3 DEF CancelInIdle, AnswerInv
      <3> QED BY <2>3, <3>1
              DEF CancelInIdle, AnswerInv, CallHasAnswerer, Connected, LoopServes,
                  loopVars, startVars, openVars, closeVars
    <2>4. CASE CancelWatchdog
      <3>1. LoopComplete(TRUE) /\ Others
        BY <2>4 DEF CancelWatchdog
      <3>2. CASE Reports(TRUE)
        BY <3>1, <3>2, CompleteAnswers DEF LoopComplete, Result
      <3>3. CASE ~Reports(TRUE)
        BY <3>1, <3>3, KeepsAnswerer
           DEF LoopComplete, Reports, CaptureAction, Others, startVars, openVars, closeVars
      <3> QED BY <3>2, <3>3
    <2>5. CASE WaitTick
      BY <2>5, KeepsAnswerer
         DEF WaitTick, deviceVars, loopVars, openVars, closeVars, LoopServes
    <2>6. CASE ReturnTask
      BY <2>6, ReturnKeepsAnswerer
    <2>7. CASE Cancel
      <3>1. Connected' /\ cancelled' /\ UNCHANGED <<current_action, current_task, idle_return>>
        BY <2>7 DEF Cancel, ClientCancel, Connected
      <3> QED BY <2>7, <3>1
              DEF Cancel, ClientCancel, AnswerInv, CallHasAnswerer, LoopServes,
                  loopVars, startVars, openVars, closeVars
    <2>8. ASSUME NEW t \in Task, StartTimer(t) \/ OpenSettled(t) \/ ClosePoll(t)
          PROVE  AnswerInv'
      BY <2>8, TimerKeepsAnswerer
    <2>9. ASSUME NEW t \in Task, NEW action \in CaptureAction,
                 Open(t) \/ Close(t) \/ StartCapture(t, action)
          PROVE  AnswerInv'
      BY <2>9, ClientKeepsAnswerer
    <2>10. CaptureAction # {}
      BY DEF CaptureAction
    <2> QED BY <2>1, <2>2, <2>3, <2>4, <2>5, <2>6, <2>7, <2>8, <2>9, <2>10
            DEF Next, MainLoop, Client, LoopStep
  <1>3. AnswerInv => CallHasAnswerer
    BY DEF AnswerInv
  <1>4. Core /\ StopInv /\ [Next]_vars => StopInv'
    BY StopStep
  <1> QED BY <1>1, <1>2, <1>3, <1>4, CoreInit, CoreNext, PTL DEF Spec

----------------------------------------------------------------------------
(* A stopped loop comes to its end.                                            *)

(* The callbacks of the loop, the request to start over with pre-init apart.    *)
LoopMoves == CalTransferDone \/ FrameTransferDone \/ ShutdownTransferDone \/ DelayFires

(* How many callbacks a stopped loop has left at most.                         *)
Rank ==
  CASE phase = "off" -> 0
    [] phase = "to_start" -> 1
    [] phase = "to_init" -> 2
    [] phase = "cal" -> left + 1
    [] phase = "to_cal" -> CalTransfers + 2
    [] phase = "shutdown" -> left
    [] phase = "frame" -> ShutdownTransfers + left

(* Once stopped a loop stays stopped, and with every callback that does not end   *)
(* it, it is nearer to its end; nothing but the sensor's pre-init takes it back.  *)
WindsDown ==
  [][running /\ stop /\ running' =>
       /\ stop'
       /\ LoopMoves => Rank' < Rank
       /\ Rank' = Rank \/ Rank' < Rank \/ PreInitRequired]_vars

LEMMA RankValues ==
  ASSUME Core
  PROVE  /\ left \in Nat /\ Rank \in Nat
         /\ CalTransfers \in Nat /\ ShutdownTransfers \in Nat /\ FrameTransfers \in Nat
         /\ phase = "to_start" => Rank = 1
         /\ phase = "to_init" => Rank = 2
         /\ phase = "cal" => Rank = left + 1
         /\ phase = "to_cal" => Rank = CalTransfers + 2
         /\ phase = "shutdown" => Rank = left
         /\ phase = "frame" => Rank = ShutdownTransfers + left
  <1>1. left \in Nat /\ CalTransfers \in Nat /\ ShutdownTransfers \in Nat
        /\ FrameTransfers \in Nat
    BY SessionAssumption DEF Core, TypeOK
  <1>2. phase \in {"off", "cal", "frame", "shutdown", "to_cal", "to_init", "to_start"}
    BY DEF Core, TypeOK, Phase, Transferring, Delayed
  <1> QED BY <1>1, <1>2 DEF Rank

(* Every callback of a stopped loop ends it or brings it nearer to its end.     *)
LEMMA CallbackRank ==
  ASSUME Core, stop, LoopMoves
  PROVE  stop' /\ (~running' \/ Rank' < Rank)
  <1>1. /\ left \in Nat /\ CalTransfers \in Nat /\ ShutdownTransfers \in Nat
    BY RankValues
  <1>2. EnterStart => stop' /\ ~running'
    BY DEF EnterStart, LoopEnds, LoopComplete
  <1>3. LoopFails \/ LoopEnds => stop' /\ ~running'
    BY DEF LoopFails, LoopEnds, LoopComplete
  <1>4. CASE CalTransferDone
    <2>1. CASE left > 1 /\ SubmitNext("cal", left - 1) /\ UNCHANGED stop
      <3>1. Rank = left + 1 /\ phase' = "cal" /\ left' = left - 1
        BY <1>4, <2>1, RankValues DEF CalTransferDone, SubmitNext, Submit
      <3>2. Rank' = left - 1 + 1
        BY <3>1 DEF Rank
      <3> QED BY <1>1, <2>1, <3>1, <3>2
    <2> QED BY <1>2, <1>3, <1>4, <2>1 DEF CalTransferDone
  <1>5. CASE FrameTransferDone
    <2>1. Rank = ShutdownTransfers + left
      BY <1>5, RankValues DEF FrameTransferDone
    <2>2. CASE left > 1 /\ SubmitNext("frame", left - 1) /\ UNCHANGED stop
      <3>1. phase' = "frame" /\ left' = left - 1
        BY <2>2 DEF SubmitNext, Submit
      <3>2. Rank' = ShutdownTransfers + (left - 1)
        BY <3>1 DEF Rank
      <3> QED BY <1>1, <2>1, <2>2, <3>2
    <2>3. CASE left = 1 /\ SaveImg
      <3>1. stop' = stop /\ phase' = "shutdown" /\ left' = ShutdownTransfers
        BY <2>3 DEF SaveImg, EnterDone, Submit
      <3>2. Rank' = ShutdownTransfers
        BY <3>1 DEF Rank
      <3> QED BY <1>1, <2>1, <2>3, <3>1, <3>2
    <2> QED BY <1>3, <1>5, <2>2, <2>3 DEF FrameTransferDone
  <1>6. CASE ShutdownTransferDone
    <2>1. Rank = left
      BY <1>6, RankValues DEF ShutdownTransferDone
    <2>2. CASE left > 1
      <3>1. phase' = "shutdown" /\ left' = left - 1 /\ stop' = stop
        BY <1>6, <2>2 DEF ShutdownTransferDone, SubmitNext, Submit
      <3>2. Rank' = left - 1
        BY <3>1 DEF Rank
      <3> QED BY <1>1, <2>1, <3>1, <3>2
    <2> QED BY <1>3, <1>6, <2>2 DEF ShutdownTransferDone
  <1>7. CASE DelayFires
    <2>1. JumpDelayed("to_start") => Rank' = 1
      BY DEF JumpDelayed, Rank
    <2>2. CASE phase = "to_cal"
      <3>1. EnterCal /\ Rank = CalTransfers + 2
        BY <1>7, <2>2, RankValues DEF DelayFires
      <3>2. stop' = stop
        BY <3>1 DEF EnterCal
      <3>3. CASE JumpDelayed("to_start")
        BY <1>1, <2>1, <3>1, <3>2, <3>3
      <3>4. CASE \E n \in 1..CalTransfers : SubmitNext("cal", n)
        <4>1. PICK n \in 1..CalTransfers : SubmitNext("cal", n)
          BY <3>4
        <4>2. Rank' = n + 1
          BY <4>1 DEF SubmitNext, Submit, Rank
        <4> QED BY <1>1, <3>1, <3>2, <4>2
      <3> QED BY <3>1, <3>3, <3>4 DEF EnterCal
    <2>3. CASE phase = "to_init"
      <3>1. EnterInit /\ Rank = 2
        BY <1>7, <2>3, RankValues DEF DelayFires
      <3>2. CASE EnterStart
        BY <1>2, <3>2
      <3>3. CASE JumpDelayed("to_start") /\ UNCHANGED stop
        <4>1. Rank' = 1 /\ stop' /\ 1 < 2
          BY <2>1, <3>3
        <4> QED BY <3>1, <4>1
      <3> QED BY <3>1, <3>2, <3>3 DEF EnterInit
    <2>4. CASE phase = "to_start"
      BY <1>2, <1>7, <2>4 DEF DelayFires
    <2> QED BY <1>7, <2>2, <2>3, <2>4 DEF DelayFires, Delayed
  <1> QED BY <1>4, <1>5, <1>6, <1>7 DEF LoopMoves

(* The ranking behind StopDrains: only an endless request for pre-init keeps a    *)
(* stopped loop from its end.                                                  *)
THEOREM StoppedLoopWindsDown == Spec => WindsDown
  <1>1. Core /\ [Next]_vars =>
          [running /\ stop /\ running' =>
             /\ stop'
             /\ LoopMoves => Rank' < Rank
             /\ Rank' = Rank \/ Rank' < Rank \/ PreInitRequired]_vars
    <2> DEFINE G == /\ stop'
                    /\ LoopMoves => Rank' < Rank
                    /\ Rank' = Rank \/ Rank' < Rank \/ PreInitRequired
    <2> SUFFICES ASSUME Core, Next, running, stop, running' PROVE G
      OBVIOUS
    <2>1. CASE LoopMoves
      BY <2>1, CallbackRank
    <2>2. ASSUME ~LoopMoves, stop', UNCHANGED <<phase, left>> PROVE G
      BY <2>2 DEF Rank
    <2>3. CASE PreInitRequired /\ ~LoopMoves
      BY <2>3 DEF PreInitRequired
    <2>4. CASE ~LoopMoves /\ ~PreInitRequired
      <3>1. ~CancelWatchdog
        BY DEF CancelWatchdog, LoopComplete
      <3>2. CASE CancelInIdle
        BY <2>2, <2>4, <3>2 DEF CancelInIdle, loopVars
      <3>3. CASE WaitTick \/ ReturnTask \/ Cancel
        BY <2>2, <2>4, <3>3 DEF WaitTick, ReturnTask, Cancel, loopVars
      <3>4. ASSUME NEW t \in Task, StartTimer(t) \/ OpenSettled(t) \/ ClosePoll(t) PROVE G
        BY <2>2, <2>4, <3>4
           DEF StartTimer, WaitForLoop, GiveUpWaiting, StartLoop, OpenSettled, ClosePoll, loopVars
      <3>5. ASSUME NEW t \in Task, Open(t) \/ Close(t) PROVE G
        BY <2>2, <2>4, <3>5 DEF Open, Close, loopVars
      <3>6. ASSUME NEW t \in Task, NEW action \in CaptureAction, StartCapture(t, action)
            PROVE  G
        BY <2>2, <2>4, <3>6 DEF StartCapture, WaitForLoop, GiveUpWaiting, StartLoop, loopVars
      <3> HIDE DEF G
      <3>7. MainLoop => G
        BY <2>4, <3>1, <3>2, <3>3, <3>4 DEF MainLoop, LoopMoves
      <3>8. Client => G
        BY <3>3, <3>5, <3>6 DEF Client
      <3> QED BY <3>7, <3>8 DEF Next
    <2> HIDE DEF G
    <2> QED BY <2>1, <2>3, <2>4
  <1> QED BY <1>1, CoreInit, CoreNext, PTL DEF Spec, WindsDown
=============================================================================
