------------------------ MODULE Egis0575Capture_proofs ------------------------
(* Egis0575Capture proved for every length of its packet arrays and every      *)
(* bound on polls, recoveries, retries and frames of a claim.                 *)
EXTENDS Egis0575Capture, TLAPS

(* Where the machine can stand: at a transfer, at the delay before one of four *)
(* states, or nowhere.  Without calibration the chain is not entered.         *)
Where ==
  /\ running <=> waiting # "nothing"
  /\ ~running => sm = SM_CAL_START
  /\ waiting = "delay" => sm \in {SM_CAL_START, SM_POST_RESET, SM_INIT, SM_START}
  /\ waiting = "transfer" => sm \notin {SM_INIT, SM_START}
  /\ cal_skip /\ running =>
       sm >= SM_INIT \/ (waiting = "delay" /\ sm = SM_CAL_START)

(* Past the read of the block there is one.                                   *)
BlockInv == ~cal_skip /\ running /\ sm >= SM_CAL_READ_RESP => calibration # "none"

(* A packet machine is within its array.                                      *)
HalfInv ==
  waiting = "transfer" /\ sm \in PacketState \cup {SM_DONE} =>
    IF half = "req" THEN cal_pkt_index < PacketsOf(sm)
    ELSE cal_pkt_index \in 1..PacketsOf(sm)

(* The frame poll sends the array its mode calls for, within its bounds.       *)
PacketInv ==
  /\ running /\ sm = SM_START => cal_skip /\ first_preinit
  /\ running /\ sm \in {SM_REQ, SM_RESP} =>
       /\ pkt_array \in (IF cal_skip THEN {"pre_init", "post_init"} ELSE {"post_cal"})
       /\ pkt_array # "pre_init" => has_pre_init_run
       /\ current_index < ArrayLen[pkt_array]

(* The sensor is armed in the frame poll, unless pre-init is about to do it.   *)
ArmedInv ==
  running /\ sm \in {SM_INIT, SM_START, SM_REQ, SM_RESP} /\ (cal_skip => has_pre_init_run)
    => armed

(* Recoveries since the last answer: one counter accounts for all of them, the *)
(* restarted poll of a sensor without calibration being a very first packet.   *)
SilentInv ==
  /\ running => timeout_recoveries <= TimeoutRecoveryMax
  /\ ~cal_skip => silent <= timeout_recoveries /\ silent <= TimeoutRecoveryMax
  /\ cal_skip => silent <= startup_timeout_retries + 1
  /\ cal_skip /\ running /\ sm = SM_INIT => silent = 0 \/ ~has_pre_init_run
  /\ cal_skip /\ running /\ sm = SM_REQ => silent = 0 \/ first_preinit
  /\ running /\ sm = SM_RESP => silent = 0

(* Only a stopped loop shuts down.                                            *)
StopInv == running /\ sm = SM_DONE => stop

(* The inductive invariant.                                                   *)
IInv ==
  /\ FlagTypes /\ RangeTypes /\ Where /\ BlockInv /\ HalfInv
  /\ PacketInv /\ ArmedInv /\ SilentInv /\ StopInv

(* The states, and how a callback moves the machine on, are expanded in every  *)
(* proof below.                                                               *)
USE DEF SM_CAL_START, SM_CAL_PHASE_1, SM_CAL_POLL_2_RESP, SM_CAL_PHASE_3, SM_CAL_POLL_4_RESP,
        SM_CAL_PHASE_5, SM_CAL_READ_RESP, SM_PRE_RESET, SM_RESET_POLL_RESP, SM_POST_RESET,
        SM_CAL_WRITE, SM_CAL_ACK, SM_INIT, SM_START, SM_REQ, SM_RESP, SM_DONE,
        PacketState, PollResp, PacketArray, cancelled, first_preinit, SilentMax,
        actionVars, ssmVars, calVars, packetVars, retryVars, vars

USE DEF Submit, Transfer, Delay, LoopOver, Fails, GivesUp, KeepsGoing, EnterStart, FirstPoll,
        CalKept, CalProceeds, NextPacketHalf, ArrayDone, PollDone, Answered, LastPacket,
        FrameDone, FrameReads, FrameRead, EnterDone, AtMost, Outside

(* Every array has a packet, and the post-init array the one that the sensor   *)
(* refuses.                                                                   *)
LEMMA Lengths ==
  /\ ArrayLen["pre_init"] \in Nat \ {0}
  /\ ArrayLen["post_init"] \in Nat \ {0, 1}
  /\ ArrayLen["post_cal"] \in Nat \ {0}
  /\ \A s \in PacketState \cup {SM_DONE} : PacketsOf(s) \in Nat \ {0}
  /\ CalPollMax \in Nat /\ TimeoutRecoveryMax \in Nat /\ StartupRetryMax \in Nat
  /\ MaxFrames \in Nat
  BY CaptureAssumption DEF ArrayLen, PacketsOf

(* Where a recycled claim goes on: through the upload, or through pre-init.    *)
LEMMA Restarts ==
  ASSUME NEW reads, RestartCaptureCycle(reads), running'
  PROVE  \/ ~cal_skip /\ sm' = SM_POST_RESET
         \/ cal_skip /\ sm' = SM_INIT /\ ~has_pre_init_run'
  BY DEF RestartCaptureCycle

(* Before the first action nothing runs.                                      *)
LEMMA InitStep == Init => IInv
  <1> SUFFICES ASSUME Init PROVE IInv
    OBVIOUS
  <1> USE Lengths DEF Init
  <1>1. FlagTypes
    BY DEF FlagTypes
  <1>2. RangeTypes
    BY DEF RangeTypes
  <1> QED BY <1>1, <1>2 DEF IInv, Where, BlockInv, HalfInv, PacketInv, ArmedInv, SilentInv, StopInv

(* Every handler keeps the flags Boolean.                                     *)
LEMMA FlagTypesKept ==
  ASSUME IInv, Next
  PROVE  FlagTypes'
  <1> USE Lengths DEF IInv, FlagTypes, RangeTypes
  <1>1. CASE CalTransferFails
    BY <1>1 DEF CalTransferFails
  <1>2. CASE CalPacketDone
    BY <1>2 DEF CalPacketDone
  <1>3. CASE CalPollDone
    BY <1>3 DEF CalPollDone
  <1>4. CASE CalReadDone
    BY <1>4 DEF CalReadDone
  <1>5. CASE CalAcknowledged
    BY <1>5 DEF CalAcknowledged, EnterInit
  <1>6. CASE CalRequestDone
    BY <1>6 DEF CalRequestDone
  <1>7. CASE PollFails
    BY <1>7 DEF PollFails
  <1>8. CASE StartupTimesOut
    BY <1>8 DEF StartupTimesOut, Recovers, RestartCaptureCycle
  <1>9. CASE PollTimesOut
    BY <1>9 DEF PollTimesOut, Recovers, RestartCaptureCycle
  <1>10. CASE PollRequestDone
    BY <1>10 DEF PollRequestDone
  <1>11. CASE PollNextPacket
    BY <1>11 DEF PollNextPacket
  <1>12. CASE PreInitDone
    BY <1>12 DEF PreInitDone
  <1>13. CASE PreInitRequired
    BY <1>13 DEF PreInitRequired
  <1>14. CASE FrameOfStoppedLoop
    BY <1>14 DEF FrameOfStoppedLoop
  <1>15. CASE FrameCompletesAction
    BY <1>15 DEF FrameCompletesAction
  <1>16. CASE FramePollsOn
    BY <1>16 DEF FramePollsOn, RestartCaptureCycle, EnterInit
  <1>17. CASE FrameAccepted
    BY <1>17 DEF FrameAccepted, RestartCaptureCycle
  <1>18. CASE FrameIsIdle
    BY <1>18 DEF FrameIsIdle
  <1>19. CASE FrameIsUnhealthy
    BY <1>19 DEF FrameIsUnhealthy
  <1>20. CASE ShutdownDone
    BY <1>20 DEF ShutdownDone
  <1>21. CASE DelayFires
    BY <1>21 DEF DelayFires, EnterInit, EnterCalStart
  <1>22. CASE CancelWatchdog
    BY <1>22 DEF CancelWatchdog
  <1>23. CASE Accept
    BY <1>23 DEF Accept
  <1>24. CASE Start
    BY <1>24 DEF Start, EnterCalStart
  <1>25. CASE Cancel
    BY <1>25 DEF Cancel
  <1>26. CASE DevCancel
    BY <1>26 DEF DevCancel
  <1> QED
    BY <1>1, <1>2, <1>3, <1>4, <1>5, <1>6, <1>7, <1>8, <1>9, <1>10, <1>11, <1>12, <1>13,
       <1>14, <1>15, <1>16, <1>17, <1>18, <1>19, <1>20, <1>21, <1>22, <1>23, <1>24, <1>25,
       <1>26
    DEF Next, TransferDone, SaveImg

(* Every handler keeps the other variables in their ranges: the counters in   *)
(* particular are looked at before they could pass their bound.               *)
LEMMA RangeTypesKept ==
  ASSUME IInv, Next
  PROVE  RangeTypes'
  <1> USE Lengths DEF IInv, FlagTypes, RangeTypes
  <1>1. CASE CalTransferFails
    BY <1>1 DEF CalTransferFails
  <1>2. CASE CalPacketDone
    BY <1>2 DEF CalPacketDone
  <1>3. CASE CalPollDone
    BY <1>3 DEF CalPollDone
  <1>4. CASE CalReadDone
    BY <1>4 DEF CalReadDone
  <1>5. CASE CalAcknowledged
    BY <1>5 DEF CalAcknowledged, EnterInit
  <1>6. CASE CalRequestDone
    BY <1>6 DEF CalRequestDone
  <1>7. CASE PollFails
    BY <1>7 DEF PollFails
  <1>8. CASE StartupTimesOut
    BY <1>8 DEF StartupTimesOut, Recovers, RestartCaptureCycle
  <1>9. CASE PollTimesOut
    <2>1. running /\ timeout_recoveries + 1 \in 0..TimeoutRecoveryMax + 1
      BY <1>9 DEF PollTimesOut, Where, SilentInv
    <2>2. CASE timeout_recoveries' > TimeoutRecoveryMax
      BY <1>9, <2>1, <2>2 DEF PollTimesOut
    <2>3. CASE ~(timeout_recoveries' > TimeoutRecoveryMax)
      BY <1>9, <2>1, <2>3 DEF PollTimesOut, Recovers, RestartCaptureCycle
    <2> QED BY <2>2, <2>3
  <1>10. CASE PollRequestDone
    BY <1>10 DEF PollRequestDone
  <1>11. CASE PollNextPacket
    BY <1>11 DEF PollNextPacket
  <1>12. CASE PreInitDone
    BY <1>12 DEF PreInitDone
  <1>13. CASE PreInitRequired
    BY <1>13 DEF PreInitRequired
  <1>14. CASE FrameOfStoppedLoop
    BY <1>14 DEF FrameOfStoppedLoop
  <1>15. CASE FrameCompletesAction
    BY <1>15 DEF FrameCompletesAction
  <1>16. CASE FramePollsOn
    BY <1>16 DEF FramePollsOn, RestartCaptureCycle, EnterInit
  <1>17. CASE FrameAccepted
    <2>1. FrameReads \in 0..MaxFrames
      OBVIOUS
    <2> HIDE DEF FrameReads
    <2>2. CASE running'
      BY <1>17, <2>2 DEF FrameAccepted, RestartCaptureCycle
    <2>3. CASE ~running'
      <3>1. /\ frame_reads_this_claim' = FrameReads
            /\ Fails /\ UNCHANGED <<pkt_array, calVars>>
        BY <1>17, <2>3 DEF FrameAccepted, RestartCaptureCycle
      <3> QED BY <1>17, <2>1, <3>1 DEF FrameAccepted
    <2> QED BY <2>2, <2>3
  <1>18. CASE FrameIsIdle
    BY <1>18 DEF FrameIsIdle
  <1>19. CASE FrameIsUnhealthy
    BY <1>19 DEF FrameIsUnhealthy
  <1>20. CASE ShutdownDone
    BY <1>20 DEF ShutdownDone
  <1>21. CASE DelayFires
    BY <1>21 DEF DelayFires, EnterInit, EnterCalStart
  <1>22. CASE CancelWatchdog
    BY <1>22 DEF CancelWatchdog
  <1>23. CASE Accept
    BY <1>23 DEF Accept
  <1>24. CASE Start
    BY <1>24 DEF Start, EnterCalStart
  <1>25. CASE Cancel
    BY <1>25 DEF Cancel
  <1>26. CASE DevCancel
    BY <1>26 DEF DevCancel
  <1> QED
    BY <1>1, <1>2, <1>3, <1>4, <1>5, <1>6, <1>7, <1>8, <1>9, <1>10, <1>11, <1>12, <1>13,
       <1>14, <1>15, <1>16, <1>17, <1>18, <1>19, <1>20, <1>21, <1>22, <1>23, <1>24, <1>25,
       <1>26
    DEF Next, TransferDone, SaveImg

(* A callback leaves the machine at a transfer, at a delay that has a target, *)
(* or over; without calibration it never enters the calibration chain.        *)
LEMMA WhereKept ==
  ASSUME IInv, Next
  PROVE  Where'
  <1> USE Lengths DEF IInv, FlagTypes, RangeTypes, Where
  <1>1. CASE CalTransferFails
    BY <1>1 DEF CalTransferFails
  <1>2. CASE CalPacketDone
    BY <1>2 DEF CalPacketDone
  <1>3. CASE CalPollDone
    BY <1>3 DEF CalPollDone
  <1>4. CASE CalReadDone
    BY <1>4 DEF CalReadDone
  <1>5. CASE CalAcknowledged
    BY <1>5 DEF CalAcknowledged, EnterInit
  <1>6. CASE CalRequestDone
    BY <1>6 DEF CalRequestDone
  <1>7. CASE PollFails
    BY <1>7 DEF PollFails
  <1>8. CASE StartupTimesOut
    BY <1>8 DEF StartupTimesOut, Recovers, RestartCaptureCycle
  <1>9. CASE PollTimesOut
    BY <1>9 DEF PollTimesOut, Recovers, RestartCaptureCycle
  <1>10. CASE PollRequestDone
    BY <1>10 DEF PollRequestDone
  <1>11. CASE PollNextPacket
    BY <1>11 DEF PollNextPacket
  <1>12. CASE PreInitDone
    BY <1>12 DEF PreInitDone
  <1>13. CASE PreInitRequired
    BY <1>13 DEF PreInitRequired
  <1>14. CASE FrameOfStoppedLoop
    BY <1>14 DEF FrameOfStoppedLoop
  <1>15. CASE FrameCompletesAction
    BY <1>15 DEF FrameCompletesAction
  <1>16. CASE FramePollsOn
    BY <1>16 DEF FramePollsOn, RestartCaptureCycle, EnterInit
  <1>17. CASE FrameAccepted
    <2>1. CASE running'
      BY <1>17, <2>1 DEF FrameAccepted, RestartCaptureCycle
    <2>2. CASE ~running'
      BY <1>17, <2>2 DEF FrameAccepted, RestartCaptureCycle
    <2> QED BY <2>1, <2>2
  <1>18. CASE FrameIsIdle
    BY <1>18 DEF FrameIsIdle
  <1>19. CASE FrameIsUnhealthy
    BY <1>19 DEF FrameIsUnhealthy
  <1>20. CASE ShutdownDone
    BY <1>20 DEF ShutdownDone
  <1>21. CASE DelayFires
    BY <1>21 DEF DelayFires, EnterInit, EnterCalStart
  <1>22. CASE CancelWatchdog
    BY <1>22 DEF CancelWatchdog
  <1>23. CASE Accept
    BY <1>23 DEF Accept
  <1>24. CASE Start
    BY <1>24 DEF Start, EnterCalStart
  <1>25. CASE Cancel
    BY <1>25 DEF Cancel
  <1>26. CASE DevCancel
    BY <1>26 DEF DevCancel
  <1> QED
    BY <1>1, <1>2, <1>3, <1>4, <1>5, <1>6, <1>7, <1>8, <1>9, <1>10, <1>11, <1>12, <1>13,
       <1>14, <1>15, <1>16, <1>17, <1>18, <1>19, <1>20, <1>21, <1>22, <1>23, <1>24, <1>25,
       <1>26
    DEF Next, TransferDone, SaveImg

(* What drops the block also restarts the chain that reads it, or ends.       *)
LEMMA BlockInvKept ==
  ASSUME IInv, Next
  PROVE  BlockInv'
  <1> USE Lengths DEF IInv, FlagTypes, RangeTypes, Where, BlockInv
  <1>1. CASE CalTransferFails
    BY <1>1 DEF CalTransferFails
  <1>2. CASE CalPacketDone
    BY <1>2 DEF CalPacketDone
  <1>3. CASE CalPollDone
    BY <1>3 DEF CalPollDone
  <1>4. CASE CalReadDone
    BY <1>4 DEF CalReadDone
  <1>5. CASE CalAcknowledged
    BY <1>5 DEF CalAcknowledged, EnterInit
  <1>6. CASE CalRequestDone
    BY <1>6 DEF CalRequestDone
  <1>7. CASE PollFails
    BY <1>7 DEF PollFails
  <1>8. CASE StartupTimesOut
    BY <1>8 DEF StartupTimesOut, Recovers, RestartCaptureCycle
  <1>9. CASE PollTimesOut
    BY <1>9 DEF PollTimesOut, Recovers, RestartCaptureCycle
  <1>10. CASE PollRequestDone
    BY <1>10 DEF PollRequestDone
  <1>11. CASE PollNextPacket
    BY <1>11 DEF PollNextPacket
  <1>12. CASE PreInitDone
    BY <1>12 DEF PreInitDone
  <1>13. CASE PreInitRequired
    BY <1>13 DEF PreInitRequired
  <1>14. CASE FrameOfStoppedLoop
    BY <1>14 DEF FrameOfStoppedLoop
  <1>15. CASE FrameCompletesAction
    BY <1>15 DEF FrameCompletesAction
  <1>16. CASE FramePollsOn
    BY <1>16 DEF FramePollsOn, RestartCaptureCycle, EnterInit
  <1>17. CASE FrameAccepted
    BY <1>17 DEF FrameAccepted, RestartCaptureCycle
  <1>18. CASE FrameIsIdle
    BY <1>18 DEF FrameIsIdle
  <1>19. CASE FrameIsUnhealthy
    BY <1>19 DEF FrameIsUnhealthy
  <1>20. CASE ShutdownDone
    BY <1>20 DEF ShutdownDone
  <1>21. CASE DelayFires
    BY <1>21 DEF DelayFires, EnterInit, EnterCalStart
  <1>22. CASE CancelWatchdog
    BY <1>22 DEF CancelWatchdog
  <1>23. CASE Accept
    BY <1>23 DEF Accept
  <1>24. CASE Start
    BY <1>24 DEF Start, EnterCalStart
  <1>25. CASE Cancel
    BY <1>25 DEF Cancel
  <1>26. CASE DevCancel
    BY <1>26 DEF DevCancel
  <1> QED
    BY <1>1, <1>2, <1>3, <1>4, <1>5, <1>6, <1>7, <1>8, <1>9, <1>10, <1>11, <1>12, <1>13,
       <1>14, <1>15, <1>16, <1>17, <1>18, <1>19, <1>20, <1>21, <1>22, <1>23, <1>24, <1>25,
       <1>26
    DEF Next, TransferDone, SaveImg

(* The half of a packet and the index advanced with it stay within the array. *)
LEMMA HalfInvKept ==
  ASSUME IInv, Next
  PROVE  HalfInv'
  <1> USE Lengths DEF IInv, FlagTypes, RangeTypes, Where, HalfInv
  <1>1. CASE CalTransferFails
    BY <1>1 DEF CalTransferFails
  <1>2. CASE CalPacketDone
    BY <1>2 DEF CalPacketDone
  <1>3. CASE CalPollDone
    BY <1>3 DEF CalPollDone
  <1>4. CASE CalReadDone
    BY <1>4 DEF CalReadDone
  <1>5. CASE CalAcknowledged
    BY <1>5 DEF CalAcknowledged, EnterInit
  <1>6. CASE CalRequestDone
    BY <1>6 DEF CalRequestDone
  <1>7. CASE PollFails
    BY <1>7 DEF PollFails
  <1>8. CASE StartupTimesOut
    BY <1>8 DEF StartupTimesOut, Recovers, RestartCaptureCycle
  <1>9. CASE PollTimesOut
    BY <1>9 DEF PollTimesOut, Recovers, RestartCaptureCycle
  <1>10. CASE PollRequestDone
    BY <1>10 DEF PollRequestDone
  <1>11. CASE PollNextPacket
    BY <1>11 DEF PollNextPacket
  <1>12. CASE PreInitDone
    BY <1>12 DEF PreInitDone
  <1>13. CASE PreInitRequired
    BY <1>13 DEF PreInitRequired
  <1>14. CASE FrameOfStoppedLoop
    BY <1>14 DEF FrameOfStoppedLoop
  <1>15. CASE FrameCompletesAction
    BY <1>15 DEF FrameCompletesAction
  <1>16. CASE FramePollsOn
    BY <1>16 DEF FramePollsOn, RestartCaptureCycle, EnterInit
  <1>17. CASE FrameAccepted
    BY <1>17 DEF FrameAccepted, RestartCaptureCycle
  <1>18. CASE FrameIsIdle
    BY <1>18 DEF FrameIsIdle
  <1>19. CASE FrameIsUnhealthy
    BY <1>19 DEF FrameIsUnhealthy
  <1>20. CASE ShutdownDone
    BY <1>20 DEF ShutdownDone
  <1>21. CASE DelayFires
    BY <1>21 DEF DelayFires, EnterInit, EnterCalStart
  <1>22. CASE CancelWatchdog
    BY <1>22 DEF CancelWatchdog
  <1>23. CASE Accept
    BY <1>23 DEF Accept
  <1>24. CASE Start
    BY <1>24 DEF Start, EnterCalStart
  <1>25. CASE Cancel
    BY <1>25 DEF Cancel
  <1>26. CASE DevCancel
    BY <1>26 DEF DevCancel
  <1> QED
    BY <1>1, <1>2, <1>3, <1>4, <1>5, <1>6, <1>7, <1>8, <1>9, <1>10, <1>11, <1>12, <1>13,
       <1>14, <1>15, <1>16, <1>17, <1>18, <1>19, <1>20, <1>21, <1>22, <1>23, <1>24, <1>25,
       <1>26
    DEF Next, TransferDone, SaveImg

(* Every way into the frame poll sets the array and the index it polls with.  *)
LEMMA PacketInvKept ==
  ASSUME IInv, Next
  PROVE  PacketInv'
  <1> USE Lengths DEF IInv, FlagTypes, RangeTypes, Where, PacketInv
  <1>1. CASE CalTransferFails
    BY <1>1 DEF CalTransferFails
  <1>2. CASE CalPacketDone
    BY <1>2 DEF CalPacketDone
  <1>3. CASE CalPollDone
    BY <1>3 DEF CalPollDone
  <1>4. CASE CalReadDone
    BY <1>4 DEF CalReadDone
  <1>5. CASE CalAcknowledged
    BY <1>5 DEF CalAcknowledged, EnterInit
  <1>6. CASE CalRequestDone
    BY <1>6 DEF CalRequestDone
  <1>7. CASE PollFails
    BY <1>7 DEF PollFails
  <1>8. CASE StartupTimesOut
    BY <1>8 DEF StartupTimesOut, Recovers, RestartCaptureCycle
  <1>9. CASE PollTimesOut
    BY <1>9 DEF PollTimesOut, Recovers, RestartCaptureCycle
  <1>10. CASE PollRequestDone
    BY <1>10 DEF PollRequestDone
  <1>11. CASE PollNextPacket
    BY <1>11 DEF PollNextPacket
  <1>12. CASE PreInitDone
    BY <1>12 DEF PreInitDone
  <1>13. CASE PreInitRequired
    BY <1>13 DEF PreInitRequired
  <1>14. CASE FrameOfStoppedLoop
    BY <1>14 DEF FrameOfStoppedLoop
  <1>15. CASE FrameCompletesAction
    BY <1>15 DEF FrameCompletesAction
  <1>16. CASE FramePollsOn
    <2>1. CASE FrameReads >= MaxFrames /\ running'
      <3>1. RestartCaptureCycle(FrameReads) /\ UNCHANGED cal_skip
        BY <1>16, <2>1 DEF FramePollsOn
      <3> QED BY <2>1, <3>1, Restarts
    <2>2. CASE FrameReads >= MaxFrames /\ ~running'
      BY <1>16, <2>2 DEF FramePollsOn, RestartCaptureCycle
    <2>3. CASE ~(FrameReads >= MaxFrames)
      BY <1>16, <2>3 DEF FramePollsOn, EnterInit
    <2> QED BY <2>1, <2>2, <2>3
  <1>17. CASE FrameAccepted
    <2>1. CASE running'
      BY <1>17, <2>1 DEF FrameAccepted, RestartCaptureCycle
    <2>2. CASE ~running'
      BY <1>17, <2>2 DEF FrameAccepted, RestartCaptureCycle
    <2> QED BY <2>1, <2>2
  <1>18. CASE FrameIsIdle
    BY <1>18 DEF FrameIsIdle
  <1>19. CASE FrameIsUnhealthy
    BY <1>19 DEF FrameIsUnhealthy
  <1>20. CASE ShutdownDone
    BY <1>20 DEF ShutdownDone
  <1>21. CASE DelayFires
    <2>1. CASE sm = SM_CAL_START
      BY <1>21, <2>1 DEF DelayFires, EnterCalStart
    <2>2. CASE sm = SM_POST_RESET
      BY <1>21, <2>2 DEF DelayFires
    <2>3. CASE sm = SM_INIT
      BY <1>21, <2>3 DEF DelayFires, EnterInit
    <2>4. CASE sm = SM_START
      BY <1>21, <2>4 DEF DelayFires
    <2> QED BY <1>21, <2>1, <2>2, <2>3, <2>4 DEF DelayFires
  <1>22. CASE CancelWatchdog
    BY <1>22 DEF CancelWatchdog
  <1>23. CASE Accept
    BY <1>23 DEF Accept
  <1>24. CASE Start
    BY <1>24 DEF Start, EnterCalStart
  <1>25. CASE Cancel
    BY <1>25 DEF Cancel
  <1>26. CASE DevCancel
    BY <1>26 DEF DevCancel
  <1> QED
    BY <1>1, <1>2, <1>3, <1>4, <1>5, <1>6, <1>7, <1>8, <1>9, <1>10, <1>11, <1>12, <1>13,
       <1>14, <1>15, <1>16, <1>17, <1>18, <1>19, <1>20, <1>21, <1>22, <1>23, <1>24, <1>25,
       <1>26
    DEF Next, TransferDone, SaveImg

(* Whatever disarms the sensor also leads through an upload or the pre-init   *)
(* array before the next frame.                                               *)
LEMMA ArmedInvKept ==
  ASSUME IInv, Next
  PROVE  ArmedInv'
  <1> USE Lengths DEF IInv, FlagTypes, RangeTypes, Where, PacketInv, ArmedInv
  <1>1. CASE CalTransferFails
    BY <1>1 DEF CalTransferFails
  <1>2. CASE CalPacketDone
    BY <1>2 DEF CalPacketDone
  <1>3. CASE CalPollDone
    BY <1>3 DEF CalPollDone
  <1>4. CASE CalReadDone
    BY <1>4 DEF CalReadDone
  <1>5. CASE CalAcknowledged
    BY <1>5 DEF CalAcknowledged, EnterInit
  <1>6. CASE CalRequestDone
    BY <1>6 DEF CalRequestDone
  <1>7. CASE PollFails
    BY <1>7 DEF PollFails
  <1>8. CASE StartupTimesOut
    BY <1>8 DEF StartupTimesOut, Recovers, RestartCaptureCycle
  <1>9. CASE PollTimesOut
    BY <1>9 DEF PollTimesOut, Recovers, RestartCaptureCycle
  <1>10. CASE PollRequestDone
    BY <1>10 DEF PollRequestDone
  <1>11. CASE PollNextPacket
    BY <1>11 DEF PollNextPacket
  <1>12. CASE PreInitDone
    BY <1>12 DEF PreInitDone
  <1>13. CASE PreInitRequired
    BY <1>13 DEF PreInitRequired
  <1>14. CASE FrameOfStoppedLoop
    BY <1>14 DEF FrameOfStoppedLoop
  <1>15. CASE FrameCompletesAction
    BY <1>15 DEF FrameCompletesAction
  <1>16. CASE FramePollsOn
    <2>1. CASE FrameReads >= MaxFrames /\ running'
      <3>1. RestartCaptureCycle(FrameReads) /\ UNCHANGED cal_skip
        BY <1>16, <2>1 DEF FramePollsOn
      <3> QED BY <2>1, <3>1, Restarts
    <2>2. CASE FrameReads >= MaxFrames /\ ~running'
      BY <1>16, <2>2 DEF FramePollsOn, RestartCaptureCycle
    <2>3. CASE ~(FrameReads >= MaxFrames)
      BY <1>16, <2>3 DEF FramePollsOn, EnterInit
    <2> QED BY <2>1, <2>2, <2>3
  <1>17. CASE FrameAccepted
    BY <1>17 DEF FrameAccepted, RestartCaptureCycle
  <1>18. CASE FrameIsIdle
    BY <1>18 DEF FrameIsIdle
  <1>19. CASE FrameIsUnhealthy
    BY <1>19 DEF FrameIsUnhealthy
  <1>20. CASE ShutdownDone
    BY <1>20 DEF ShutdownDone
  <1>21. CASE DelayFires
    BY <1>21 DEF DelayFires, EnterInit, EnterCalStart
  <1>22. CASE CancelWatchdog
    BY <1>22 DEF CancelWatchdog
  <1>23. CASE Accept
    BY <1>23 DEF Accept
  <1>24. CASE Start
    BY <1>24 DEF Start, EnterCalStart
  <1>25. CASE Cancel
    BY <1>25 DEF Cancel
  <1>26. CASE DevCancel
    BY <1>26 DEF DevCancel
  <1> QED
    BY <1>1, <1>2, <1>3, <1>4, <1>5, <1>6, <1>7, <1>8, <1>9, <1>10, <1>11, <1>12, <1>13,
       <1>14, <1>15, <1>16, <1>17, <1>18, <1>19, <1>20, <1>21, <1>22, <1>23, <1>24, <1>25,
       <1>26
    DEF Next, TransferDone, SaveImg

(* Every recovery is counted by the counter that bounds it.                   *)
LEMMA SilentInvKept ==
  ASSUME IInv, Next
  PROVE  SilentInv'
  <1> USE Lengths DEF IInv, FlagTypes, RangeTypes, Where, PacketInv, SilentInv
  <1>1. CASE CalTransferFails
    BY <1>1 DEF CalTransferFails
  <1>2. CASE CalPacketDone
    BY <1>2 DEF CalPacketDone
  <1>3. CASE CalPollDone
    BY <1>3 DEF CalPollDone
  <1>4. CASE CalReadDone
    BY <1>4 DEF CalReadDone
  <1>5. CASE CalAcknowledged
    BY <1>5 DEF CalAcknowledged, EnterInit
  <1>6. CASE CalRequestDone
    BY <1>6 DEF CalRequestDone
  <1>7. CASE PollFails
    BY <1>7 DEF PollFails
  <1>8. CASE StartupTimesOut
    BY <1>8 DEF StartupTimesOut, Recovers, RestartCaptureCycle
  <1>9. CASE PollTimesOut
    BY <1>9 DEF PollTimesOut, Recovers, RestartCaptureCycle
  <1>10. CASE PollRequestDone
    BY <1>10 DEF PollRequestDone
  <1>11. CASE PollNextPacket
    BY <1>11 DEF PollNextPacket
  <1>12. CASE PreInitDone
    BY <1>12 DEF PreInitDone
  <1>13. CASE PreInitRequired
    BY <1>13 DEF PreInitRequired
  <1>14. CASE FrameOfStoppedLoop
    BY <1>14 DEF FrameOfStoppedLoop
  <1>15. CASE FrameCompletesAction
    BY <1>15 DEF FrameCompletesAction
  <1>16. CASE FramePollsOn
    BY <1>16 DEF FramePollsOn, RestartCaptureCycle, EnterInit
  <1>17. CASE FrameAccepted
    BY <1>17 DEF FrameAccepted, RestartCaptureCycle
  <1>18. CASE FrameIsIdle
    BY <1>18 DEF FrameIsIdle
  <1>19. CASE FrameIsUnhealthy
    BY <1>19 DEF FrameIsUnhealthy
  <1>20. CASE ShutdownDone
    BY <1>20 DEF ShutdownDone
  <1>21. CASE DelayFires
    BY <1>21 DEF DelayFires, EnterInit, EnterCalStart
  <1>22. CASE CancelWatchdog
    BY <1>22 DEF CancelWatchdog
  <1>23. CASE Accept
    BY <1>23 DEF Accept
  <1>24. CASE Start
    BY <1>24 DEF Start, EnterCalStart
  <1>25. CASE Cancel
    BY <1>25 DEF Cancel
  <1>26. CASE DevCancel
    BY <1>26 DEF DevCancel
  <1> QED
    BY <1>1, <1>2, <1>3, <1>4, <1>5, <1>6, <1>7, <1>8, <1>9, <1>10, <1>11, <1>12, <1>13,
       <1>14, <1>15, <1>16, <1>17, <1>18, <1>19, <1>20, <1>21, <1>22, <1>23, <1>24, <1>25,
       <1>26
    DEF Next, TransferDone, SaveImg

(* The shutdown chain is entered by a loop that is stopped, and never left.   *)
LEMMA StopInvKept ==
  ASSUME IInv, Next
  PROVE  StopInv'
  <1> USE Lengths DEF IInv, FlagTypes, RangeTypes, Where, StopInv
  <1>1. CASE CalTransferFails
    BY <1>1 DEF CalTransferFails
  <1>2. CASE CalPacketDone
    BY <1>2 DEF CalPacketDone
  <1>3. CASE CalPollDone
    BY <1>3 DEF CalPollDone
  <1>4. CASE CalReadDone
    BY <1>4 DEF CalReadDone
  <1>5. CASE CalAcknowledged
    BY <1>5 DEF CalAcknowledged, EnterInit
  <1>6. CASE CalRequestDone
    BY <1>6 DEF CalRequestDone
  <1>7. CASE PollFails
    BY <1>7 DEF PollFails
  <1>8. CASE StartupTimesOut
    BY <1>8 DEF StartupTimesOut, Recovers, RestartCaptureCycle
  <1>9. CASE PollTimesOut
    BY <1>9 DEF PollTimesOut, Recovers, RestartCaptureCycle
  <1>10. CASE PollRequestDone
    BY <1>10 DEF PollRequestDone
  <1>11. CASE PollNextPacket
    BY <1>11 DEF PollNextPacket
  <1>12. CASE PreInitDone
    BY <1>12 DEF PreInitDone
  <1>13. CASE PreInitRequired
    BY <1>13 DEF PreInitRequired
  <1>14. CASE FrameOfStoppedLoop
    BY <1>14 DEF FrameOfStoppedLoop
  <1>15. CASE FrameCompletesAction
    BY <1>15 DEF FrameCompletesAction
  <1>16. CASE FramePollsOn
    BY <1>16 DEF FramePollsOn, RestartCaptureCycle, EnterInit
  <1>17. CASE FrameAccepted
    BY <1>17 DEF FrameAccepted, RestartCaptureCycle
  <1>18. CASE FrameIsIdle
    BY <1>18 DEF FrameIsIdle
  <1>19. CASE FrameIsUnhealthy
    BY <1>19 DEF FrameIsUnhealthy
  <1>20. CASE ShutdownDone
    BY <1>20 DEF ShutdownDone
  <1>21. CASE DelayFires
    BY <1>21 DEF DelayFires, EnterInit, EnterCalStart
  <1>22. CASE CancelWatchdog
    BY <1>22 DEF CancelWatchdog
  <1>23. CASE Accept
    BY <1>23 DEF Accept
  <1>24. CASE Start
    BY <1>24 DEF Start, EnterCalStart
  <1>25. CASE Cancel
    BY <1>25 DEF Cancel
  <1>26. CASE DevCancel
    BY <1>26 DEF DevCancel
  <1> QED
    BY <1>1, <1>2, <1>3, <1>4, <1>5, <1>6, <1>7, <1>8, <1>9, <1>10, <1>11, <1>12, <1>13,
       <1>14, <1>15, <1>16, <1>17, <1>18, <1>19, <1>20, <1>21, <1>22, <1>23, <1>24, <1>25,
       <1>26
    DEF Next, TransferDone, SaveImg

(* No handler breaks the invariant.                                           *)
LEMMA IInvNext == IInv /\ [Next]_vars => IInv'
  <1>1. ASSUME IInv, Next PROVE IInv'
    BY <1>1, FlagTypesKept, RangeTypesKept, WhereKept, BlockInvKept, HalfInvKept, PacketInvKept,
       ArmedInvKept, SilentInvKept, StopInvKept DEF IInv
  <1>2. ASSUME IInv, UNCHANGED vars PROVE IInv'
    BY <1>2
       DEF IInv, FlagTypes, RangeTypes, Where, BlockInv, HalfInv, PacketInv, ArmedInv,
           SilentInv, StopInv
  <1> QED BY <1>1, <1>2

(* Every state of the capture loop is of the invariant.                       *)
THEOREM CaptureInductive == Spec => []IInv
  <1> QED BY InitStep, IInvNext, PTL DEF Spec

(* The variables of the transport keep their types.                           *)
THEOREM CaptureTypes == Spec => []TypeOK
  <1>1. IInv => TypeOK
    BY DEF IInv, TypeOK
  <1> QED BY <1>1, CaptureInductive, PTL

(* No frame is polled from a sensor that lost what it was told: every recycled *)
(* claim and every refused poll is followed by an upload or by pre-init.       *)
THEOREM PollsAreArmedHolds == Spec => []PollsAreArmed
  <1>1. IInv => PollsAreArmed
    BY DEF IInv, PacketInv, ArmedInv, PollsAreArmed, Polling
  <1> QED BY <1>1, CaptureInductive, PTL

(* No packet array is read outside its bounds, however long the arrays are,    *)
(* and no block is uploaded that is not there.                                *)
THEOREM IndexInBoundsHolds == Spec => []IndexInBounds
  <1>1. IInv => IndexInBounds
    <2> SUFFICES ASSUME IInv PROVE IndexInBounds
      OBVIOUS
    <2>1. Polling => current_index < ArrayLen[pkt_array]
      BY DEF IInv, PacketInv, Polling
    <2>2. running /\ sm \in SM_POST_RESET..SM_CAL_WRITE => calibration # "none"
      BY DEF IInv, FlagTypes, Where, BlockInv
    <2> QED BY <2>1, <2>2 DEF IInv, HalfInv, IndexInBounds
  <1> QED BY <1>1, CaptureInductive, PTL

(* A sensor that answers no poll is given up, whatever the two bounds are.     *)
THEOREM SilentSensorGivenUpHolds == Spec => []SilentSensorGivenUp
  <1>1. IInv => SilentSensorGivenUp
    BY Lengths DEF IInv, FlagTypes, RangeTypes, SilentInv, SilentSensorGivenUp
  <1> QED BY <1>1, CaptureInductive, PTL

(* The phase CaptureLoop knows the loop by, now and after a step.              *)
Phases ==
  /\ ~running => LoopPhase = "off"
  /\ waiting = "delay" /\ sm \in {SM_CAL_START, SM_POST_RESET} => LoopPhase = "to_cal"
  /\ waiting = "delay" /\ sm = SM_INIT => LoopPhase = "to_init"
  /\ waiting = "delay" /\ sm = SM_START => LoopPhase = "to_start"
  /\ waiting = "transfer" /\ sm < SM_INIT => LoopPhase = "cal"
  /\ waiting = "transfer" /\ sm \in {SM_REQ, SM_RESP} => LoopPhase = "frame"
  /\ waiting = "transfer" /\ sm = SM_DONE => LoopPhase = "shutdown"

(* A state of the invariant is in the phase its wait says.                    *)
LEMMA PhaseNow == IInv => Phases
  BY DEF IInv, RangeTypes, Where, Phases, LoopPhase

(* And so is the state after a step.                                          *)
LEMMA PhaseNext == IInv' => Phases'
  BY DEF IInv, RangeTypes, Where, Phases, LoopPhase

(* The calibration chain goes on, fails, or hands over to the frame poll of a   *)
(* loop that is not stopped.                                                  *)
LEMMA CalSteps ==
  ASSUME IInv, IInv',
         CalTransferFails \/ CalPacketDone \/ CalPollDone \/ CalReadDone
           \/ CalAcknowledged \/ CalRequestDone
  PROVE  /\ LoopPhase = "cal" /\ stop' = stop
         /\ LoopPhase' \in {"cal", "off"} \/ (~stop /\ LoopPhase' = "frame")
  <1> USE PhaseNow, PhaseNext DEF IInv, Where, Phases
  <1>1. CASE CalTransferFails
    BY <1>1 DEF CalTransferFails
  <1>2. CASE CalPacketDone
    BY <1>2 DEF CalPacketDone
  <1>3. CASE CalPollDone
    BY <1>3 DEF CalPollDone
  <1>4. CASE CalReadDone
    BY <1>4 DEF CalReadDone
  <1>5. CASE CalAcknowledged
    BY <1>5 DEF CalAcknowledged, EnterInit
  <1>6. CASE CalRequestDone
    BY <1>6 DEF CalRequestDone, RangeTypes
  <1> QED BY <1>1, <1>2, <1>3, <1>4, <1>5, <1>6

(* A transfer of the frame poll restarts only a loop that is not stopped.     *)
LEMMA PollSteps ==
  ASSUME IInv, IInv',
         PollFails \/ StartupTimesOut \/ PollTimesOut \/ PollRequestDone
           \/ PollNextPacket \/ PreInitDone \/ PreInitRequired
  PROVE  /\ LoopPhase = "frame" /\ stop' = stop
         /\ LoopPhase' \in {"frame", "off"}
              \/ (~stop /\ LoopPhase' \in {"to_init", "to_cal"})
  <1> USE PhaseNow, PhaseNext DEF IInv, Where, Phases
  <1>1. CASE PollFails
    BY <1>1 DEF PollFails
  <1>2. CASE StartupTimesOut
    BY <1>2 DEF StartupTimesOut, Recovers, RestartCaptureCycle
  <1>3. CASE PollTimesOut
    BY <1>3 DEF PollTimesOut, Recovers, RestartCaptureCycle
  <1>4. CASE PollRequestDone
    BY <1>4 DEF PollRequestDone
  <1>5. CASE PollNextPacket
    BY <1>5 DEF PollNextPacket
  <1>6. CASE PreInitDone
    BY <1>6 DEF PreInitDone
  <1>7. CASE PreInitRequired
    BY <1>7 DEF PreInitRequired
  <1> QED BY <1>1, <1>2, <1>3, <1>4, <1>5, <1>6, <1>7

(* A frame stops the loop it completes, and a stopped loop shuts down.        *)
LEMMA FrameSteps ==
  ASSUME IInv, IInv', SaveImg
  PROVE  /\ LoopPhase = "frame"
         /\ \/ stop' /\ LoopPhase' = "shutdown"
            \/ ~stop /\ stop' = stop /\ LoopPhase' \in {"frame", "to_init", "to_cal", "off"}
  <1> USE PhaseNow, PhaseNext DEF IInv, Where, Phases
  <1>1. CASE FrameOfStoppedLoop
    BY <1>1 DEF FrameOfStoppedLoop
  <1>2. CASE FrameCompletesAction
    BY <1>2 DEF FrameCompletesAction
  <1>3. CASE FramePollsOn
    <2>1. CASE FrameReads >= MaxFrames
      BY <1>3, <2>1 DEF FramePollsOn, RestartCaptureCycle
    <2>2. CASE ~(FrameReads >= MaxFrames)
      BY <1>3, <2>2 DEF FramePollsOn, EnterInit, PacketInv
    <2> QED BY <2>1, <2>2
  <1>4. CASE FrameAccepted
    BY <1>4 DEF FrameAccepted, RestartCaptureCycle
  <1>5. CASE FrameIsIdle
    BY <1>5 DEF FrameIsIdle
  <1>6. CASE FrameIsUnhealthy
    BY <1>6 DEF FrameIsUnhealthy
  <1> QED BY <1>1, <1>2, <1>3, <1>4, <1>5, <1>6 DEF SaveImg

(* A delay fires into the state it was set for, or out of a stopped loop.     *)
LEMMA DelaySteps ==
  ASSUME IInv, IInv', DelayFires
  PROVE  /\ stop' = stop
         /\ \/ LoopPhase = "to_cal" /\ LoopPhase' \in {"cal", "to_start"}
            \/ LoopPhase = "to_init" /\ LoopPhase' \in {"to_start", "off"}
            \/ LoopPhase = "to_init" /\ ~stop /\ LoopPhase' = "frame"
            \/ LoopPhase = "to_start" /\ LoopPhase' = "off"
            \/ LoopPhase = "to_start" /\ ~stop /\ LoopPhase' = "frame"
  <1> USE PhaseNow, PhaseNext DEF IInv, Where, Phases
  <1>1. CASE sm = SM_CAL_START
    BY <1>1 DEF DelayFires, EnterCalStart
  <1>2. CASE sm = SM_POST_RESET
    BY <1>2 DEF DelayFires
  <1>3. CASE sm = SM_INIT
    BY <1>3 DEF DelayFires, EnterInit
  <1>4. CASE sm = SM_START
    BY <1>4 DEF DelayFires
  <1> QED BY <1>1, <1>2, <1>3, <1>4 DEF DelayFires

(* The transport implements CaptureLoop: whatever the sensor answers, a stopped *)
(* loop only winds down, through the phases the session relies on.            *)
THEOREM CaptureImplementsLoop == Spec => ImplementsLoop
  <1>1. Init => Loop!Init
    BY DEF Init, Loop!Init, LoopPhase
  <1>2. IInv /\ IInv' /\ [Next]_vars => [Loop!Next]_<<stop, LoopPhase>>
    <2>1. ASSUME IInv, IInv', UNCHANGED vars
          PROVE  UNCHANGED <<stop, LoopPhase>>
      BY <2>1 DEF LoopPhase
    <2> SUFFICES ASSUME IInv, IInv', Next PROVE [Loop!Next]_<<stop, LoopPhase>>
      BY <2>1
    <2> stop \in BOOLEAN /\ stop' \in BOOLEAN
      BY DEF IInv, FlagTypes
    <2> USE DEF Loop!Next
    <2>2. CASE CalTransferFails \/ CalPacketDone \/ CalPollDone \/ CalReadDone
                 \/ CalAcknowledged \/ CalRequestDone
      BY <2>2, CalSteps DEF Loop!Step, Loop!Going, Loop!Draining
    <2>3. CASE PollFails \/ StartupTimesOut \/ PollTimesOut \/ PollRequestDone
                 \/ PollNextPacket \/ PreInitDone \/ PreInitRequired
      BY <2>3, PollSteps DEF Loop!Step, Loop!Going, Loop!Draining
    <2>4. CASE SaveImg
      BY <2>4, FrameSteps DEF Loop!Step, Loop!Going, Loop!Draining
    <2>5. CASE DelayFires
      BY <2>5, DelaySteps DEF Loop!Step, Loop!Going, Loop!Draining
    <2>6. CASE ShutdownDone
      <3>1. LoopPhase = "shutdown" /\ stop /\ stop' = stop /\ LoopPhase' \in {"shutdown", "off"}
        BY <2>6, PhaseNow, PhaseNext DEF ShutdownDone, IInv, Where, StopInv, Phases
      <3> QED BY <3>1 DEF Loop!Step, Loop!Going, Loop!Draining
    <2>7. CASE CancelWatchdog
      <3>1. /\ LoopPhase \in {"to_cal", "to_init", "to_start"}
            /\ stop /\ stop' = stop /\ LoopPhase' = "off"
        BY <2>7, PhaseNow, PhaseNext DEF CancelWatchdog, IInv, Where, Phases
      <3> QED BY <3>1 DEF Loop!Step, Loop!Going, Loop!Draining
    <2>8. CASE Start
      <3>1. LoopPhase = "off" /\ ~stop' /\ LoopPhase' \in {"cal", "to_start"}
        BY <2>8, PhaseNow, PhaseNext DEF Start, EnterCalStart, IInv, Where, Phases
      <3> QED BY <3>1 DEF Loop!Start, Loop!Going
    <2>9. CASE DevCancel
      BY <2>9 DEF DevCancel, LoopPhase, Loop!Stop
    <2>10. CASE Accept \/ Cancel
      BY <2>10 DEF Accept, Cancel, LoopPhase
    <2> QED BY <2>2, <2>3, <2>4, <2>5, <2>6, <2>7, <2>8, <2>9, <2>10 DEF Next, TransferDone
  <1> QED BY <1>1, <1>2, CaptureInductive, PTL DEF Spec, ImplementsLoop, Loop!Spec

(* A running loop that is stopped was stopped by a cancel, which every later      *)
(* transfer carries, or by itself, and then it shuts down.                       *)
CancelInv == running /\ stop => sm = SM_DONE \/ cancelled

(* A transfer that ends well in a stopped loop, the last of a frame apart, is      *)
(* followed by one that carries the cancel.                                      *)
LEMMA NextIsCancelled ==
  ASSUME IInv, CancelInv, stop, running',
         \/ CalPacketDone \/ CalPollDone \/ CalReadDone \/ CalAcknowledged \/ CalRequestDone
         \/ PollRequestDone \/ PollNextPacket \/ PreInitDone \/ PreInitRequired
  PROVE  /\ waiting = "transfer" /\ ~doomed /\ sm # SM_DONE
         /\ waiting' = "transfer" /\ doomed' /\ sm' # SM_DONE
         /\ UNCHANGED <<stop, cancel>>
  <1>0. /\ sm \in 0..22 /\ stop \in BOOLEAN
        /\ waiting = "transfer" => running /\ sm \notin {18, 19}
    BY DEF IInv, FlagTypes, RangeTypes, Where
  <1>1. waiting = "transfer" /\ sm # SM_DONE => cancel # "no"
    BY <1>0 DEF CancelInv
  <1> DEFINE Goes(s) == /\ waiting' = "transfer" /\ sm' = s /\ doomed' = (cancel # "no")
                        /\ UNCHANGED <<stop, cancel>>
  <1>2. waiting = "transfer" /\ ~doomed /\ sm # SM_DONE
    <2>1. CASE CalPacketDone \/ CalPollDone \/ CalReadDone \/ CalRequestDone
      <3>1. CalProceeds
        BY <2>1, ZenonT(30) DEF CalPacketDone, CalPollDone, CalReadDone, CalRequestDone
      <3> QED BY <1>0, <3>1
    <2>2. CASE CalAcknowledged
      BY <1>0, <2>2 DEF CalAcknowledged
    <2>3. CASE PollRequestDone
      BY <1>0, <2>3 DEF PollRequestDone
    <2>4. CASE PollNextPacket
      BY <1>0, <2>4 DEF PollNextPacket
    <2>5. CASE PreInitDone
      BY <1>0, <2>5 DEF PreInitDone
    <2>6. CASE PreInitRequired
      BY <1>0, <2>6 DEF PreInitRequired
    <2> QED BY <2>1, <2>2, <2>3, <2>4, <2>5, <2>6
  <1>3. \E s \in 0..21 : Goes(s)
    <2>1. CASE CalPacketDone
      <3>1. sm \in PacketState
        BY <2>1 DEF CalPacketDone
      <3>2. Goes(sm) \/ Goes(sm + 1)
        <4>1. CASE ArrayDone
          BY <2>1, <4>1 DEF CalPacketDone
        <4>2. CASE ~ArrayDone
          BY <2>1, <4>2 DEF CalPacketDone
        <4> QED BY <4>1, <4>2
      <3> HIDE DEF Goes
      <3> QED BY <3>1, <3>2
    <2>2. CASE CalPollDone
      <3>1. sm \in PollResp
        BY <2>2 DEF CalPollDone
      <3>2. \E s \in {sm - 1, sm + 1} : Goes(s)
        BY <2>2 DEF CalPollDone
      <3> HIDE DEF Goes
      <3> QED BY <3>1, <3>2
    <2>3. CASE CalReadDone
      <3>1. Goes(SM_PRE_RESET)
        BY <2>3 DEF CalReadDone
      <3> HIDE DEF Goes
      <3> QED BY <3>1
    <2>4. CASE CalAcknowledged
      <3>1. EnterInit(has_pre_init_run) /\ sm = SM_CAL_ACK
        BY <2>4 DEF CalAcknowledged
      <3>2. cal_skip => FALSE
        BY <1>2, <1>0, <3>1 DEF IInv, Where
      <3> QED BY <3>1, <3>2 DEF EnterInit
    <2>5. CASE CalRequestDone
      <3>1. sm \in 0..17
        BY <1>0, <2>5 DEF CalRequestDone
      <3>2. Goes(sm + 1)
        BY <2>5 DEF CalRequestDone
      <3> HIDE DEF Goes
      <3> QED BY <3>1, <3>2
    <2>6. CASE PollRequestDone
      <3>1. Goes(SM_RESP)
        BY <2>6 DEF PollRequestDone
      <3> HIDE DEF Goes
      <3> QED BY <3>1
    <2>7. CASE PollNextPacket \/ PreInitDone \/ PreInitRequired
      <3>1. Goes(SM_REQ)
        BY <2>7 DEF PollNextPacket, PreInitDone, PreInitRequired
      <3> HIDE DEF Goes
      <3> QED BY <3>1
    <2> QED BY <2>1, <2>2, <2>3, <2>4, <2>5, <2>6, <2>7
  <1>4. PICK s \in 0..21 : Goes(s)
    BY <1>3
  <1>5. waiting' = "transfer" /\ sm' # SM_DONE /\ UNCHANGED <<stop, cancel>>
    BY <1>4
  <1>6. cancel # "no" /\ doomed' = (cancel # "no")
    BY <1>1, <1>2, <1>4
  <1>7. doomed'
    BY <1>6, Zenon
  <1> QED BY <1>2, <1>5, <1>7

LEMMA CancelKept == IInv /\ CancelInv /\ [Next]_vars => CancelInv'
  <1> SUFFICES ASSUME IInv, CancelInv, [Next]_vars PROVE CancelInv'
    OBVIOUS
  <1> USE DEF CancelInv
  <1>1. CASE CalTransferFails \/ PollFails \/ CancelWatchdog
    BY <1>1 DEF CalTransferFails, PollFails, CancelWatchdog
  <1>2. CASE \/ CalPacketDone \/ CalPollDone \/ CalReadDone \/ CalAcknowledged \/ CalRequestDone
             \/ PollRequestDone \/ PollNextPacket \/ PreInitDone \/ PreInitRequired
    <2>1. CASE stop /\ running'
      <3>1. running /\ cancelled
        BY <1>2, <2>1, NextIsCancelled DEF IInv, Where
      <3> QED BY <1>2, <2>1, <3>1, NextIsCancelled
    <2>2. CASE ~stop
      <3>1. ~stop'
        BY <1>2, <2>2 DEF CalPacketDone, CalPollDone, CalReadDone, CalAcknowledged, EnterInit,
           CalRequestDone, PollRequestDone, PollNextPacket, PreInitDone, PreInitRequired
      <3> QED BY <3>1
    <2> QED BY <2>1, <2>2
  <1>3. CASE StartupTimesOut \/ PollTimesOut
    BY <1>3 DEF StartupTimesOut, PollTimesOut, Recovers, RestartCaptureCycle
  <1>5. CASE FrameOfStoppedLoop \/ FrameCompletesAction
    BY <1>5 DEF FrameOfStoppedLoop, FrameCompletesAction
  <1>6. CASE FramePollsOn \/ FrameAccepted \/ FrameIsIdle \/ FrameIsUnhealthy
    BY <1>6 DEF FramePollsOn, FrameAccepted, FrameIsIdle, FrameIsUnhealthy, EnterInit,
                RestartCaptureCycle
  <1>7. CASE ShutdownDone
    BY <1>7 DEF ShutdownDone
  <1>8. CASE DelayFires
    <2>1. running /\ sm # SM_DONE /\ (stop => cancelled)
      BY <1>8 DEF DelayFires, IInv, Where
    <2>2. ~running' \/ KeepsGoing
      BY <1>8 DEF DelayFires, EnterInit
    <2> QED BY <2>1, <2>2
  <1>9. CASE Start
    BY <1>9 DEF Start, EnterCalStart
  <1>10. CASE Accept \/ Cancel \/ DevCancel \/ UNCHANGED vars
    BY <1>10 DEF Accept, Cancel, DevCancel
  <1> QED BY <1>1, <1>2, <1>3, <1>5, <1>6, <1>7, <1>8, <1>9, <1>10
          DEF Next, TransferDone, SaveImg

(* How many callbacks a stopped loop has left at most: the packets of the       *)
(* shutdown chain and their responses, one transfer that is cancelled already,   *)
(* one that was submitted before the cancel, or the delays before a first poll.  *)
Rank ==
  IF ~running THEN 0
  ELSE IF waiting = "delay" THEN IF sm = SM_START THEN 1 ELSE 2
  ELSE IF sm = SM_DONE THEN 2 * (ShutdownLen - cal_pkt_index) + (IF half = "resp" THEN 1 ELSE 0)
  ELSE IF doomed THEN 1 ELSE 2 * ShutdownLen + 1

Callback == TransferDone \/ DelayFires

(* A stopped loop ends within 2 * EGIS0575_SHUTDOWN_PACKETS_LENGTH + 1 callbacks *)
(* of transfers and timers, whatever the sensor answers - its requests for        *)
(* pre-init included - and whatever is accepted or cancelled meanwhile: nothing   *)
(* clears the stop, and every callback brings it nearer to its end.              *)
StoppedLoopEnds ==
  [][running /\ stop /\ running' =>
       /\ stop'
       /\ Rank \in 1..2 * ShutdownLen + 1
       /\ IF Callback THEN Rank' < Rank ELSE Rank' = Rank]_vars

RankFacts ==
  /\ running /\ waiting = "delay" => Rank = IF sm = SM_START THEN 1 ELSE 2
  /\ running /\ waiting = "transfer" /\ sm = SM_DONE /\ half = "req" =>
       Rank = 2 * (ShutdownLen - cal_pkt_index)
  /\ running /\ waiting = "transfer" /\ sm = SM_DONE /\ half = "resp" =>
       Rank = 2 * (ShutdownLen - cal_pkt_index) + 1
  /\ running /\ waiting = "transfer" /\ sm # SM_DONE =>
       Rank = IF doomed THEN 1 ELSE 2 * ShutdownLen + 1

LEMMA RankNow == ShutdownLen \in Nat /\ cal_pkt_index \in Nat => RankFacts
  BY DEF Rank, RankFacts

LEMMA RankNext == (ShutdownLen \in Nat /\ cal_pkt_index \in Nat => RankFacts)'
  BY RankNow, PTL

LEMMA RankRange ==
  ASSUME IInv, running
  PROVE  Rank \in 1..2 * ShutdownLen + 1
  <1>1. /\ ShutdownLen \in Nat \ {0} /\ cal_pkt_index \in Nat
        /\ waiting \in {"transfer", "delay"} /\ half \in {"req", "resp"} /\ doomed \in BOOLEAN
    BY CaptureAssumption DEF IInv, RangeTypes, FlagTypes, Where
  <1>2. RankFacts
    BY <1>1, RankNow
  <1>3. CASE waiting = "transfer" /\ sm = SM_DONE
    <2>1. PacketsOf(sm) = ShutdownLen
      BY <1>3 DEF PacketsOf
    <2>2. IF half = "req" THEN cal_pkt_index < ShutdownLen ELSE cal_pkt_index \in 1..ShutdownLen
      BY <1>3, <2>1 DEF IInv, HalfInv
    <2> QED BY <1>1, <1>2, <1>3, <2>2 DEF RankFacts
  <1>4. CASE ~(waiting = "transfer" /\ sm = SM_DONE)
    BY <1>1, <1>2, <1>4 DEF RankFacts
  <1> QED BY <1>3, <1>4

LEMMA CallbackEnds ==
  ASSUME IInv, IInv', CancelInv, Callback, running, stop, running'
  PROVE  stop' /\ Rank' < Rank
  <1>1. /\ ShutdownLen \in Nat \ {0} /\ cal_pkt_index \in Nat /\ cal_pkt_index' \in Nat
    BY CaptureAssumption DEF IInv, RangeTypes
  <1>2. RankFacts /\ RankFacts' /\ Rank \in 1..2 * ShutdownLen + 1
    BY <1>1, RankNow, RankNext, RankRange
  <1>3. CASE \/ CalPacketDone \/ CalPollDone \/ CalReadDone \/ CalAcknowledged \/ CalRequestDone
             \/ PollRequestDone \/ PollNextPacket \/ PreInitDone \/ PreInitRequired
    <2>1. /\ waiting = "transfer" /\ ~doomed /\ sm # SM_DONE
          /\ waiting' = "transfer" /\ doomed' /\ sm' # SM_DONE /\ stop' = stop
      BY <1>3, NextIsCancelled
    <2> QED BY <1>1, <1>2, <2>1 DEF RankFacts
  <1>5. CASE SaveImg
    <2>1. FrameOfStoppedLoop
      BY <1>5 DEF SaveImg, FrameCompletesAction, FramePollsOn, FrameAccepted, FrameIsIdle,
         FrameIsUnhealthy
    <2>2. /\ waiting = "transfer" /\ ~doomed /\ sm # SM_DONE /\ stop' = stop
          /\ waiting' = "transfer" /\ sm' = SM_DONE /\ half' = "req" /\ cal_pkt_index' = 0
      BY <2>1 DEF FrameOfStoppedLoop
    <2>3. Rank = 2 * ShutdownLen + 1 /\ Rank' = 2 * (ShutdownLen - 0)
      BY <1>2, <2>2 DEF RankFacts
    <2> QED BY <1>1, <2>2, <2>3
  <1>6. CASE ShutdownDone
    <2>1. /\ waiting = "transfer" /\ sm = SM_DONE /\ ~ArrayDone /\ NextPacketHalf /\ stop' = stop
      BY <1>6 DEF ShutdownDone
    <2>2. half \in {"req", "resp"}
      BY DEF IInv, RangeTypes
    <2>3. CASE half = "req"
      <3>1. /\ waiting' = "transfer" /\ sm' = SM_DONE /\ half' = "resp"
            /\ cal_pkt_index' = cal_pkt_index + 1
        BY <2>1, <2>3
      <3> QED BY <1>1, <1>2, <2>1, <2>3, <3>1 DEF RankFacts
    <2>4. CASE half = "resp"
      <3>1. waiting' = "transfer" /\ sm' = SM_DONE /\ half' = "req" /\ cal_pkt_index' = cal_pkt_index
        BY <2>1, <2>4
      <3> QED BY <1>1, <1>2, <2>1, <2>4, <3>1 DEF RankFacts
    <2> QED BY <2>2, <2>3, <2>4
  <1>7. CASE DelayFires
    <2>1. waiting = "delay" /\ sm # SM_DONE /\ cancelled
      BY <1>7 DEF DelayFires, IInv, Where, CancelInv
    <2>2. CASE sm = SM_START
      BY <1>7, <2>2 DEF DelayFires
    <2>3. CASE sm # SM_START
      <3>1. /\ stop' = stop
            /\ \/ waiting' = "delay" /\ sm' = SM_START
               \/ waiting' = "transfer" /\ sm' # SM_DONE /\ doomed'
        <4>1. CASE sm = SM_CAL_START
          <5>1. EnterCalStart(has_pre_init_run, cal_poll_iters) /\ KeepsGoing
            BY <1>7, <4>1 DEF DelayFires
          <5>2. stop' = stop /\ (Delay(SM_START) \/ Transfer(SM_CAL_PHASE_1) \/ Transfer(SM_POST_RESET))
            BY <5>1 DEF EnterCalStart
          <5>3. CASE Delay(SM_START)
            BY <5>2, <5>3
          <5>4. CASE Transfer(SM_CAL_PHASE_1) \/ Transfer(SM_POST_RESET)
            <6>1. waiting' = "transfer" /\ sm' # SM_DONE /\ doomed' = cancelled
              BY <5>4
            <6>2. doomed'
              BY <2>1, <6>1, Zenon
            <6> QED BY <5>2, <6>1, <6>2
          <5> QED BY <5>2, <5>3, <5>4
        <4>2. CASE sm = SM_POST_RESET
          <5>1. Transfer(SM_POST_RESET) /\ KeepsGoing
            BY <1>7, <4>2 DEF DelayFires
          <5>2. waiting' = "transfer" /\ sm' # SM_DONE /\ doomed' = cancelled /\ stop' = stop
            BY <5>1
          <5>3. doomed'
            BY <2>1, <5>2, Zenon
          <5> QED BY <5>2, <5>3
        <4>3. CASE sm = SM_INIT
          <5>1. EnterInit(has_pre_init_run)
            BY <1>7, <4>3 DEF DelayFires
          <5> QED BY <2>1, <5>1 DEF EnterInit
        <4> QED BY <1>7, <2>3, <4>1, <4>2, <4>3 DEF DelayFires
      <3> QED BY <1>2, <2>1, <2>3, <3>1 DEF RankFacts
    <2> QED BY <2>2, <2>3
  <1>8. CASE CalTransferFails \/ PollFails \/ StartupTimesOut \/ PollTimesOut
    BY <1>8 DEF CalTransferFails, PollFails, StartupTimesOut, PollTimesOut
  <1> QED BY <1>3, <1>5, <1>6, <1>7, <1>8 DEF Callback, TransferDone

(* The safety core of StopEnds, for any array lengths: capture_transfer_submit    *)
(* passes the action's cancellable, so only the shutdown chain is left to run.   *)
THEOREM StoppedLoopAlwaysEnds == Spec => StoppedLoopEnds
  <1>1. Init => CancelInv
    BY DEF Init, CancelInv
  <1>2. IInv /\ IInv' /\ CancelInv /\ [Next]_vars =>
          [running /\ stop /\ running' =>
             /\ stop'
             /\ Rank \in 1..2 * ShutdownLen + 1
             /\ IF Callback THEN Rank' < Rank ELSE Rank' = Rank]_vars
    <2> SUFFICES ASSUME IInv, IInv', CancelInv, Next, running, stop, running'
                 PROVE  /\ stop'
                        /\ Rank \in 1..2 * ShutdownLen + 1
                        /\ IF Callback THEN Rank' < Rank ELSE Rank' = Rank
      OBVIOUS
    <2>1. Rank \in 1..2 * ShutdownLen + 1
      BY RankRange
    <2>2. CASE Callback
      BY <2>1, <2>2, CallbackEnds
    <2>3. CASE ~Callback
      <3>1. stop' /\ UNCHANGED ssmVars
        BY <2>3 DEF Callback, Next, CancelWatchdog, Accept, Start, Cancel, DevCancel
      <3>2. Rank' = Rank
        BY <3>1 DEF Rank
      <3> QED BY <2>1, <2>3, <3>1, <3>2
    <2> QED BY <2>2, <2>3
  <1> QED BY <1>1, <1>2, CancelKept, CaptureInductive, PTL DEF Spec, StoppedLoopEnds
=============================================================================
