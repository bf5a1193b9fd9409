--------------------------- MODULE Egis0575Capture ---------------------------
(* The transport of the egis0575 capture loop: the SSM of ssm_run_state with   *)
(* its packet sub-machines, the calibration chain and its cached block, the   *)
(* frame poll, the timeout recoveries and the shutdown chain.  One action is  *)
(* one callback: a transfer that completes, a delay that fires, a cancel.     *)
(* What a frame means is Egis0575Turn's business: here save_img's outcome is  *)
(* a choice.  Of the action the loop serves only this is kept: there is one,   *)
(* and whether it is cancelled.                                               *)
EXTENDS Integers

CONSTANTS
  CalPhase1Len,                \* EGIS0575_CAL_PHASE_1_PACKETS_LENGTH
  CalPhase3Len,                \* EGIS0575_CAL_PHASE_3_PACKETS_LENGTH
  CalPhase5Len,                \* EGIS0575_CAL_PHASE_5_PACKETS_LENGTH
  PreResetLen,                 \* EGIS0575_PRE_RESET_PACKETS_LENGTH
  PostResetLen,                \* EGIS0575_POST_RESET_PACKETS_LENGTH
  PreInitLen,                  \* EGIS0575_PRE_INIT_PACKETS_LENGTH
  PostInitLen,                 \* EGIS0575_POST_INIT_PACKETS_LENGTH
  PostCalLen,                  \* EGIS0575_POST_CALIBRATION_PACKETS_LENGTH
  ShutdownLen,                 \* EGIS0575_SHUTDOWN_PACKETS_LENGTH
  CalPollMax,                  \* EGIS0575_CAL_POLL_MAX_ITERS
  TimeoutRecoveryMax,          \* EGIS0575_TIMEOUT_RECOVERY_MAX
  StartupRetryMax,             \* EGIS0575_STARTUP_TIMEOUT_RECOVERY_MAX
  MaxFrames                    \* EGIS0575_MAX_FRAMES_PER_CLAIM

ASSUME CaptureAssumption ==
  /\ {CalPhase1Len, CalPhase3Len, CalPhase5Len, PreResetLen, PostResetLen,
      PreInitLen, PostCalLen, ShutdownLen} \subseteq Nat \ {0}
  /\ PostInitLen \in Nat \ {0, 1}
  /\ {CalPollMax, TimeoutRecoveryMax, StartupRetryMax, MaxFrames} \subseteq Nat

(* enum sm_states.                                                            *)
SM_CAL_START == 0
SM_CAL_PHASE_1 == 1
SM_CAL_POLL_2_RESP == 3
SM_CAL_PHASE_3 == 4
SM_CAL_POLL_4_RESP == 6
SM_CAL_PHASE_5 == 7
SM_CAL_READ_RESP == 9
SM_PRE_RESET == 11
SM_RESET_POLL_RESP == 13
SM_POST_RESET == 14
SM_CAL_WRITE == 16
SM_CAL_ACK == 17
SM_INIT == 18
SM_START == 19
SM_REQ == 20
SM_RESP == 21
SM_DONE == 22

(* States that run a packet array in a sub-machine, and status polls.         *)
PacketState == {SM_CAL_PHASE_1, SM_CAL_PHASE_3, SM_CAL_PHASE_5, SM_PRE_RESET, SM_POST_RESET}
PacketsOf(s) == CASE s = SM_CAL_PHASE_1 -> CalPhase1Len
                  [] s = SM_CAL_PHASE_3 -> CalPhase3Len
                  [] s = SM_CAL_PHASE_5 -> CalPhase5Len
                  [] s = SM_PRE_RESET -> PreResetLen
                  [] s = SM_POST_RESET -> PostResetLen
                  [] s = SM_DONE -> ShutdownLen
PollResp == {SM_CAL_POLL_2_RESP, SM_CAL_POLL_4_RESP, SM_RESET_POLL_RESP}

PacketArray == {"pre_init", "post_init", "post_cal"}
ArrayLen == [pre_init |-> PreInitLen, post_init |-> PostInitLen, post_cal |-> PostCalLen]

VARIABLES
  cal_skip,                    \* self->cal_skip, EGIS0575_SKIP_CALIBRATION=1
  running,                     \* self->running
  stop,                        \* self->stop
  live,                        \* an action is current
  cancel,                      \* its cancel: none, asked for by the client, told to the driver
  sm,                          \* the state waited in, or the target of the delay
  waiting,                     \* for a transfer, a delay, or nothing
  doomed,                      \* the transfer was submitted already cancelled
  half,                        \* PACKET_SSM_REQ or PACKET_SSM_RESP
  cal_pkt_index,               \* self->cal_pkt_index
  calibration,                 \* self->calibration: NULL, allocated, read and checked
  cal_poll_iters,              \* self->cal_poll_iters
  pkt_array,                   \* self->pkt_array
  current_index,               \* self->current_index
  has_pre_init_run,            \* self->has_pre_init_run
  timeout_recoveries,          \* self->timeout_recoveries
  startup_timeout_retries,     \* self->startup_timeout_retries
  frame_reads_this_claim,      \* self->frame_reads_this_claim, up to MaxFrames
  armed,                       \* history: the sensor was armed in this claim
  silent,                      \* history: recoveries since a frame poll was answered
  ended                        \* history: how the last loop ended

actionVars == <<stop, live, cancel>>
ssmVars == <<running, sm, waiting, doomed, half, cal_pkt_index>>
calVars == <<calibration, cal_poll_iters>>
packetVars == <<pkt_array, current_index, has_pre_init_run>>
retryVars == <<timeout_recoveries, startup_timeout_retries>>
vars == <<cal_skip, actionVars, ssmVars, calVars, packetVars, retryVars,
          frame_reads_this_claim, armed, silent, ended>>

SilentMax == TimeoutRecoveryMax + StartupRetryMax + 1    \* bound of silent

FlagTypes ==
  /\ cal_skip \in BOOLEAN /\ running \in BOOLEAN /\ stop \in BOOLEAN /\ live \in BOOLEAN
  /\ doomed \in BOOLEAN /\ has_pre_init_run \in BOOLEAN /\ armed \in BOOLEAN

RangeTypes ==
  /\ cancel \in {"no", "asked", "told"}
  /\ sm \in SM_CAL_START..SM_DONE
  /\ waiting \in {"nothing", "transfer", "delay"}
  /\ half \in {"req", "resp"}
  /\ cal_pkt_index \in Nat
  /\ calibration \in {"none", "unread", "good"}
  /\ cal_poll_iters \in Nat
  /\ pkt_array \in PacketArray
  /\ current_index \in Nat
  /\ timeout_recoveries \in 0..TimeoutRecoveryMax + 1
  /\ startup_timeout_retries \in 0..StartupRetryMax
  /\ frame_reads_this_claim \in 0..MaxFrames
  /\ silent \in 0..SilentMax
  /\ ended \in {"no", "clean", "failed"}

TypeOK == FlagTypes /\ RangeTypes

Init ==
  /\ cal_skip \in BOOLEAN
  /\ running = FALSE /\ stop = FALSE /\ live = FALSE /\ cancel = "no"
  /\ sm = SM_CAL_START /\ waiting = "nothing" /\ doomed = FALSE
  /\ half = "req" /\ cal_pkt_index = 0
  /\ calibration = "none" /\ cal_poll_iters = 0
  /\ pkt_array = "pre_init" /\ current_index = 0 /\ has_pre_init_run = FALSE
  /\ timeout_recoveries = 0 /\ startup_timeout_retries = 0
  /\ frame_reads_this_claim = 0 /\ armed = FALSE
  /\ silent = 0 /\ ended = "no"

cancelled == cancel # "no"

AtMost(n, bound) == IF n > bound THEN bound ELSE n

----------------------------------------------------------------------------
(* Moving on: what a callback does to the state machine.                     *)

\* Mutant: the transfers of the loop carry no cancellable.
SubmitUncancellable(s, h, index, is_cancelled) ==
  /\ running' = TRUE
  /\ sm' = s
  /\ waiting' = "transfer"
  /\ doomed' = FALSE
  /\ half' = h
  /\ cal_pkt_index' = index

(* capture_transfer_submit in state s (and half h of a packet).               *)
Submit(s, h, index, is_cancelled) ==
  /\ running' = TRUE
  /\ sm' = s
  /\ waiting' = "transfer"
  /\ doomed' = is_cancelled
  /\ half' = h
  /\ cal_pkt_index' = index

Transfer(s) == Submit(s, "req", 0, cancelled)

(* fpi_ssm_jump_to_state_delayed.                                             *)
Delay(s) ==
  /\ running' = TRUE
  /\ sm' = s
  /\ waiting' = "delay"
  /\ doomed' = FALSE
  /\ half' = "req"
  /\ cal_pkt_index' = 0

(* The SSM is done: loop_complete reports to the current action, if any.       *)
LoopOver(outcome) ==
  /\ running' = FALSE
  /\ sm' = SM_CAL_START
  /\ waiting' = "nothing"
  /\ doomed' = FALSE
  /\ half' = "req"
  /\ cal_pkt_index' = 0
  /\ ended' = outcome
  /\ live' = (live /\ ~cancelled /\ outcome = "clean")
  /\ cancel' = "no"
  /\ UNCHANGED stop

KeepsGoing == UNCHANGED <<actionVars, ended>>

Fails == LoopOver("failed")

\* Mutant: no stop between two frames.
EnterStartPollsOn == Transfer(SM_REQ) /\ KeepsGoing

(* SM_START: stop between two frames, or send the first packet of a poll.      *)
EnterStart ==
  IF stop THEN LoopOver("clean") ELSE Transfer(SM_REQ) /\ KeepsGoing

(* SM_INIT without calibration: a settle delay precedes the first packet.      *)
FirstPoll ==
  /\ has_pre_init_run' = FALSE
  /\ pkt_array' = "pre_init"
  /\ current_index' = 0
  /\ Delay(SM_START)

(* SM_INIT: choose the packet array.                                          *)
EnterInit(pre_init_run) ==
  IF cal_skip /\ ~pre_init_run THEN FirstPoll /\ KeepsGoing
  ELSE /\ has_pre_init_run' = TRUE
       /\ pkt_array' = IF cal_skip THEN "post_init" ELSE "post_cal"
       /\ current_index' = 0
       /\ EnterStart

(* SM_CAL_START: skip the calibration, upload the cached block again, or read  *)
(* a new one.                                                                 *)
EnterCalStart(pre_init_run, iters) ==
  IF cal_skip THEN FirstPoll /\ cal_poll_iters' = iters
  ELSE /\ has_pre_init_run' = pre_init_run
       /\ UNCHANGED <<pkt_array, current_index>>
       /\ IF calibration = "none"
          THEN Transfer(SM_CAL_PHASE_1) /\ cal_poll_iters' = 0
          ELSE Transfer(SM_POST_RESET) /\ cal_poll_iters' = iters

\* Mutant: the calibration is not uploaded again into a fresh claim.
RestartWithoutUpload(reads) ==
  /\ armed' = FALSE
  /\ UNCHANGED <<pkt_array, calVars>>
  /\ \/ /\ frame_reads_this_claim' = 0
        /\ has_pre_init_run' = ~cal_skip
        /\ Delay(SM_INIT)
        /\ KeepsGoing
     \/ /\ frame_reads_this_claim' = reads
        /\ UNCHANGED has_pre_init_run
        /\ Fails

(* recycle_interface_claim drops what the sensor was told in the old claim;   *)
(* when it fails, so does the loop, after the given frame reads.               *)
RestartCaptureCycle(reads) ==
  /\ armed' = FALSE
  /\ UNCHANGED <<pkt_array, calVars>>
  /\ \/ /\ frame_reads_this_claim' = 0
        /\ has_pre_init_run' = ~cal_skip
        /\ Delay(IF cal_skip THEN SM_INIT ELSE SM_POST_RESET)
        /\ KeepsGoing
     \/ /\ frame_reads_this_claim' = reads
        /\ UNCHANGED has_pre_init_run
        /\ Fails

----------------------------------------------------------------------------
(* The calibration chain.                                                    *)

CalKept == UNCHANGED <<cal_skip, packetVars, retryVars, frame_reads_this_claim, silent>>

(* The next transfer of a packet array; cal_pkt_index is advanced with the     *)
(* request for the response.                                                  *)
NextPacketHalf ==
  IF half = "req" THEN Submit(sm, "resp", cal_pkt_index + 1, cancelled)
  ELSE Submit(sm, "req", cal_pkt_index, cancelled)

ArrayDone == half = "resp" /\ cal_pkt_index = PacketsOf(sm)

(* Every error of the chain fails the action.                                 *)
CalTransferFails ==
  /\ waiting = "transfer"
  /\ sm < SM_INIT
  /\ Fails
  /\ CalKept
  /\ UNCHANGED <<calVars, armed>>

CalProceeds ==
  /\ waiting = "transfer"
  /\ sm < SM_INIT
  /\ ~doomed
  /\ CalKept
  /\ armed' = armed

CalPacketDone ==
  /\ CalProceeds
  /\ sm \in PacketState
  /\ IF ArrayDone THEN Transfer(sm + 1) ELSE NextPacketHalf
  /\ KeepsGoing
  /\ UNCHANGED calVars

(* cal_status_poll_cb: the counter is shared by the three polls of a chain.    *)
CalPollDone ==
  /\ CalProceeds
  /\ sm \in PollResp
  /\ cal_poll_iters' = cal_poll_iters + 1
  /\ UNCHANGED calibration
  /\ IF cal_poll_iters > CalPollMax THEN Fails
     ELSE \E s \in {sm - 1, sm + 1} : Transfer(s) /\ KeepsGoing

(* SM_CAL_READ_RESP lands in the block itself; SM_CAL_CHECK drops a broken     *)
(* one.                                                                       *)
CalReadDone ==
  /\ CalProceeds
  /\ sm = SM_CAL_READ_RESP
  /\ UNCHANGED cal_poll_iters
  /\ \/ calibration' = "good" /\ Transfer(SM_PRE_RESET) /\ KeepsGoing
     \/ calibration' = "none" /\ Fails

(* The acknowledged upload arms the sensor.                                   *)
CalAcknowledged ==
  /\ waiting = "transfer"
  /\ sm = SM_CAL_ACK
  /\ ~doomed
  /\ armed' = TRUE
  /\ EnterInit(has_pre_init_run)
  /\ UNCHANGED <<cal_skip, calVars, retryVars, frame_reads_this_claim, silent>>

(* Requests and the upload: on to the next state.  SM_CAL_READ_RESP allocates  *)
(* the block it is about to read.                                             *)
CalRequestDone ==
  /\ CalProceeds
  /\ sm \notin PacketState \cup PollResp \cup {SM_CAL_READ_RESP, SM_CAL_ACK}
  /\ Transfer(sm + 1)
  /\ calibration' = IF sm + 1 = SM_CAL_READ_RESP THEN "unread" ELSE calibration
  /\ KeepsGoing
  /\ UNCHANGED cal_poll_iters

----------------------------------------------------------------------------
(* The frame poll.                                                           *)

(* The callback of a frame-poll transfer, and what none of them touches.       *)
PollDone(s) ==
  /\ waiting = "transfer"
  /\ sm = s
  /\ ~doomed
  /\ UNCHANGED cal_skip

first_preinit == pkt_array = "pre_init" /\ current_index = 0 /\ ~has_pre_init_run

(* A cancelled transfer, a USB error, or a timeout of a stopped loop.          *)
PollFails ==
  /\ waiting = "transfer"
  /\ sm \in {SM_REQ, SM_RESP}
  /\ Fails
  /\ CalKept
  /\ UNCHANGED <<calVars, armed>>

Recovers ==
  /\ RestartCaptureCycle(frame_reads_this_claim)
  /\ current_index' = current_index
  /\ silent' = AtMost(silent + 1, SilentMax)

GivesUp == Fails /\ UNCHANGED <<calVars, packetVars, frame_reads_this_claim, armed, silent>>

(* A timeout of the very first packet: a few retries from a fresh claim.       *)
StartupTimesOut ==
  /\ PollDone(SM_REQ)
  /\ ~stop
  /\ first_preinit
  /\ UNCHANGED timeout_recoveries
  /\ IF startup_timeout_retries < StartupRetryMax
     THEN startup_timeout_retries' = startup_timeout_retries + 1 /\ Recovers
     ELSE UNCHANGED startup_timeout_retries /\ GivesUp

\* Mutant: the bound is checked before this timeout is counted.
PollTimesOutOnceMore ==
  /\ \/ PollDone(SM_REQ) /\ ~first_preinit
     \/ PollDone(SM_RESP)
  /\ ~stop
  /\ timeout_recoveries' = timeout_recoveries + 1
  /\ UNCHANGED startup_timeout_retries
  /\ IF timeout_recoveries > TimeoutRecoveryMax THEN GivesUp ELSE Recovers

(* timeout_recover_or_fail: any other timeout.                                *)
PollTimesOut ==
  /\ \/ PollDone(SM_REQ) /\ ~first_preinit
     \/ PollDone(SM_RESP)
  /\ ~stop
  /\ timeout_recoveries' = timeout_recoveries + 1
  /\ UNCHANGED startup_timeout_retries
  /\ IF timeout_recoveries' > TimeoutRecoveryMax THEN GivesUp ELSE Recovers

(* req_cb: the sensor took the request; now its response.                     *)
PollRequestDone ==
  /\ PollDone(SM_REQ)
  /\ timeout_recoveries' = 0
  /\ startup_timeout_retries' = IF first_preinit THEN 0 ELSE startup_timeout_retries
  /\ silent' = 0
  /\ Transfer(SM_RESP)
  /\ KeepsGoing
  /\ UNCHANGED <<calVars, packetVars, frame_reads_this_claim, armed>>

(* resp_cb: any response proves the transport alive.                          *)
Answered ==
  /\ PollDone(SM_RESP)
  /\ timeout_recoveries' = 0
  /\ silent' = 0
  /\ UNCHANGED startup_timeout_retries

LastPacket == current_index = ArrayLen[pkt_array] - 1

(* The next packet of the array; after the pre-init array the sensor is        *)
(* initialized and the post-init array follows.                               *)
PollNextPacket ==
  /\ Answered
  /\ ~LastPacket
  /\ current_index' = current_index + 1
  /\ Transfer(SM_REQ)
  /\ KeepsGoing
  /\ UNCHANGED <<calVars, pkt_array, has_pre_init_run, frame_reads_this_claim, armed>>

\* Mutant: the index of the pre-init array is kept for the post-init array.
PreInitDoneKeepsIndex ==
  /\ Answered
  /\ LastPacket
  /\ pkt_array = "pre_init"
  /\ has_pre_init_run' = TRUE
  /\ pkt_array' = "post_init"
  /\ armed' = TRUE
  /\ Transfer(SM_REQ)
  /\ KeepsGoing
  /\ UNCHANGED <<calVars, current_index, frame_reads_this_claim>>

PreInitDone ==
  /\ Answered
  /\ LastPacket
  /\ pkt_array = "pre_init"
  /\ has_pre_init_run' = TRUE
  /\ pkt_array' = "post_init"
  /\ current_index' = 0
  /\ armed' = TRUE
  /\ Transfer(SM_REQ)
  /\ KeepsGoing
  /\ UNCHANGED <<calVars, frame_reads_this_claim>>

(* The 01 01 01 response to the second post-init packet: the sensor lost what  *)
(* pre-init told it.                                                          *)
PreInitRequired ==
  /\ Answered
  /\ ~LastPacket
  /\ pkt_array = "post_init"
  /\ current_index = 1
  /\ has_pre_init_run' = FALSE
  /\ pkt_array' = "pre_init"
  /\ current_index' = 0
  /\ armed' = FALSE
  /\ Transfer(SM_REQ)
  /\ KeepsGoing
  /\ UNCHANGED <<calVars, frame_reads_this_claim>>

----------------------------------------------------------------------------
(* save_img: the last response of a frame array is a frame.                   *)

FrameDone ==
  /\ Answered
  /\ LastPacket
  /\ pkt_array # "pre_init"

FrameReads == AtMost(frame_reads_this_claim + 1, MaxFrames)

FrameRead == frame_reads_this_claim' = FrameReads

(* SM_DONE: run the shutdown chain.                                           *)
EnterDone ==
  /\ Transfer(SM_DONE)
  /\ current_index' = 0
  /\ FrameRead
  /\ UNCHANGED <<calVars, pkt_array, has_pre_init_run, armed, ended>>

(* A loop that was stopped reads no further frame.                            *)
FrameOfStoppedLoop ==
  /\ FrameDone
  /\ stop
  /\ EnterDone
  /\ UNCHANGED actionVars

(* The frame completes the action.                                            *)
FrameCompletesAction ==
  /\ FrameDone
  /\ ~stop
  /\ live
  /\ stop' = TRUE
  /\ live' = FALSE
  /\ cancel' = "no"
  /\ EnterDone

(* restart_for_next_poll: at once, or from a fresh claim when the budget of     *)
(* this one is spent.                                                         *)
FramePollsOn ==
  /\ FrameDone
  /\ ~stop
  /\ IF FrameReads >= MaxFrames
     THEN RestartCaptureCycle(FrameReads) /\ current_index' = 0
     ELSE /\ FrameRead
          /\ EnterInit(has_pre_init_run)
          /\ UNCHANGED <<calVars, armed>>

(* An enroll frame is accepted and the enroll goes on from a fresh claim.      *)
FrameAccepted ==
  /\ FrameDone
  /\ ~stop
  /\ live
  /\ RestartCaptureCycle(FrameReads)
  /\ current_index' = 0

(* No finger: the idle poll waits; the budget of the claim is not looked at.   *)
FrameIsIdle ==
  /\ FrameDone
  /\ ~stop
  /\ FrameRead
  /\ current_index' = 0
  /\ Delay(SM_INIT)
  /\ KeepsGoing
  /\ UNCHANGED <<calVars, pkt_array, has_pre_init_run, armed>>

(* sensor_health_watchdog: a fresh claim, a new calibration.                  *)
FrameIsUnhealthy ==
  /\ FrameDone
  /\ ~stop
  /\ current_index' = 0
  /\ armed' = FALSE
  /\ UNCHANGED <<pkt_array, has_pre_init_run, cal_poll_iters>>
  /\ \/ /\ calibration' = "none"
        /\ frame_reads_this_claim' = 0
        /\ Delay(SM_CAL_START)
        /\ KeepsGoing
     \/ FrameRead /\ Fails /\ UNCHANGED calibration

SaveImg ==
  \/ FrameOfStoppedLoop \/ FrameCompletesAction \/ FramePollsOn
  \/ FrameAccepted \/ FrameIsIdle \/ FrameIsUnhealthy

----------------------------------------------------------------------------
(* The shutdown chain, delays, and what reaches the loop from outside.        *)

Outside == UNCHANGED <<cal_skip, calVars, retryVars, silent>>

(* shutdown_ignoring_cb: the next packet, whatever became of this one; the     *)
(* whole chain disarms the sensor.                                            *)
ShutdownDone ==
  /\ waiting = "transfer"
  /\ sm = SM_DONE
  /\ Outside
  /\ UNCHANGED <<packetVars, frame_reads_this_claim>>
  /\ IF ArrayDone
     THEN armed' = FALSE /\ LoopOver("clean")
     ELSE armed' = armed /\ NextPacketHalf /\ KeepsGoing

(* fpi_ssm_jump_to_state_delayed: the timer fires.                            *)
DelayFires ==
  /\ waiting = "delay"
  /\ UNCHANGED <<cal_skip, calibration, retryVars, frame_reads_this_claim, armed, silent>>
  /\ \/ /\ sm = SM_CAL_START
        /\ EnterCalStart(has_pre_init_run, cal_poll_iters)
        /\ KeepsGoing
     \/ /\ sm = SM_POST_RESET
        /\ Transfer(SM_POST_RESET)
        /\ KeepsGoing
        /\ UNCHANGED <<cal_poll_iters, packetVars>>
     \/ sm = SM_INIT /\ EnterInit(has_pre_init_run) /\ UNCHANGED cal_poll_iters
     \/ sm = SM_START /\ EnterStart /\ UNCHANGED <<cal_poll_iters, packetVars>>

(* cancel_watchdog_cb: a stopped loop that waits for no transfer is failed.    *)
CancelWatchdog ==
  /\ stop
  /\ waiting = "delay"
  /\ Fails
  /\ Outside
  /\ UNCHANGED <<packetVars, frame_reads_this_claim, armed>>

(* An enroll, verify or capture is accepted; behind a running loop it waits.   *)
Accept ==
  /\ ~live
  /\ live' = TRUE
  /\ Outside
  /\ UNCHANGED <<stop, cancel, ssmVars, packetVars, frame_reads_this_claim, armed, ended>>

(* start_capture_action and reset_action_state: a loop for the waiting action. *)
Start ==
  /\ live
  /\ ~running
  /\ stop' = FALSE
  /\ frame_reads_this_claim' = 0
  /\ startup_timeout_retries' = 0
  /\ timeout_recoveries' = 0
  /\ silent' = 0
  /\ armed' = FALSE
  /\ ended' = "no"
  /\ UNCHANGED <<cal_skip, calibration, live, cancel>>
  /\ EnterCalStart(FALSE, 0)

(* The client cancels: transfers that carry the cancellable fail from now on.  *)
Cancel ==
  /\ live
  /\ cancel = "no"
  /\ cancel' = "asked"
  /\ Outside
  /\ UNCHANGED <<stop, live, ssmVars, packetVars, frame_reads_this_claim, armed, ended>>

(* dev_cancel, from the idle source of that cancel.                           *)
DevCancel ==
  /\ cancel = "asked"
  /\ cancel' = "told"
  /\ stop' = TRUE
  /\ Outside
  /\ UNCHANGED <<live, ssmVars, packetVars, frame_reads_this_claim, armed, ended>>

TransferDone ==
  \/ CalTransferFails \/ CalPacketDone \/ CalPollDone \/ CalReadDone
  \/ CalAcknowledged \/ CalRequestDone
  \/ PollFails \/ StartupTimesOut \/ PollTimesOut \/ PollRequestDone
  \/ PollNextPacket \/ PreInitDone \/ PreInitRequired \/ SaveImg
  \/ ShutdownDone

Next ==
  \/ TransferDone \/ DelayFires \/ CancelWatchdog
  \/ Accept \/ Start \/ Cancel \/ DevCancel

Spec == Init /\ [][Next]_vars

(* A transfer ends within EGIS0575_TIMEOUT, somehow; timers and idle sources    *)
(* are dispatched.  Nobody has to use the device, or to cancel.               *)
Fairness ==
  WF_vars(TransferDone) /\ WF_vars(DelayFires) /\ WF_vars(Start) /\ WF_vars(DevCancel)

FairSpec == Spec /\ Fairness

----------------------------------------------------------------------------
(* Properties.                                                               *)

(* No frame is polled from a sensor that was not told how since its claim was  *)
(* last recycled, since it said it lost its state, or since the loop started.  *)
Polling == running /\ waiting = "transfer" /\ sm \in {SM_REQ, SM_RESP}

PollsAreArmed == Polling /\ pkt_array # "pre_init" => armed

(* No packet array is read outside its bounds, across the switches of array,   *)
(* the restarts and the chains that share an index, and no block is uploaded   *)
(* that is not there.                                                         *)
IndexInBounds ==
  /\ Polling => current_index < ArrayLen[pkt_array]
  /\ waiting = "transfer" /\ sm \in PacketState \cup {SM_DONE} =>
       IF half = "req" THEN cal_pkt_index < PacketsOf(sm)
       ELSE cal_pkt_index \in 1..PacketsOf(sm)
  /\ running /\ sm \in SM_POST_RESET..SM_CAL_WRITE => calibration # "none"

(* A sensor that answers no poll is given up after the recoveries of one       *)
(* timeout counter: a restart never renews the credit of the other one.        *)
SilentSensorGivenUp ==
  silent <= IF cal_skip THEN StartupRetryMax + 1 ELSE TimeoutRecoveryMax

(* A stopped loop ends, whatever it waits for and whatever the sensor does.    *)
StopEnds == (running /\ stop) ~> ~running

(* What the loop looks like from the session: an implementation of CaptureLoop. *)
LoopPhase ==
  IF ~running THEN "off"
  ELSE CASE waiting = "delay" /\ sm \in {SM_CAL_START, SM_POST_RESET} -> "to_cal"
         [] waiting = "delay" /\ sm = SM_INIT -> "to_init"
         [] waiting = "delay" /\ sm = SM_START -> "to_start"
         [] waiting = "transfer" /\ sm < SM_INIT -> "cal"
         [] waiting = "transfer" /\ sm \in {SM_REQ, SM_RESP} -> "frame"
         [] OTHER -> "shutdown"

Loop == INSTANCE CaptureLoop WITH phase <- LoopPhase

ImplementsLoop == Loop!Spec
=============================================================================
