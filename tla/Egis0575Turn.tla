---------------------------- MODULE Egis0575Turn ----------------------------
(* save_img of the egis0575 driver: how the frames of the polling loop become *)
(* touch turns, and turns become enroll stages, verify probes or a captured   *)
(* image.  One frame is one step; what a frame shows is the environment's     *)
(* choice, the time since the previous frame as well.  Who may be served by   *)
(* the loop is modelled as the session allows it: a loop may outlive its       *)
(* action, a new action may be accepted while an old loop still drains, and   *)
(* a leftover start timer may start a loop for an action already answered.    *)
EXTENDS Integers

CONSTANTS
  WarmupFrames,                \* EGIS0575_BACKGROUND_WARMUP_FRAMES
  Settle,                      \* EGIS0575_FINGER_SETTLE_MS, in ticks
  TurnTimeout,                 \* EGIS0575_TURN_TIMEOUT_MS
  PhantomTimeout,              \* EGIS0575_PHANTOM_LIFT_TIMEOUT_MS
  GapMax,                      \* bound: the longest time between two frames
  ProbeFrames,                 \* EGIS0575_VERIFY_PROBE_FRAMES
  EnrollFrames,                \* EGIS0575_ENROLL_FRAMES
  SimMaxRejects                \* EGIS0575_ENROLL_SIM_MAX_REJECTS

ASSUME TurnAssumption ==
  /\ {WarmupFrames, Settle, TurnTimeout, PhantomTimeout, SimMaxRejects} \subseteq Nat
  /\ {GapMax, ProbeFrames, EnrollFrames} \subseteq Nat \ {0}

CaptureAction == {"enroll", "verify", "capture"}

VARIABLES
  action,                      \* the current action, "none" between actions
  answered,                    \* its completion is queued
  cancelled,                   \* its cancellable is cancelled
  pending,                     \* a start_capture_action_cb is pending
  running,                     \* self->running
  stop,                        \* self->stop
  draining,                    \* the loop is past SM_DONE
  background_warmup_remaining, \* self->background_warmup_remaining
  finger_reported,             \* self->finger_reported
  capture_armed,               \* self->capture_armed
  waiting_for_lift,            \* self->waiting_for_lift
  waiting_for_lift_since,      \* 0 when unset, else 1 + the age of the anchor
  turn_open,                   \* self->turn_open
  turn_age,                    \* age of self->finger_first_detected_time
  verify_probes,               \* self->verify_probes->len
  enroll_stage,                \* self->enroll_stage
  enroll_sim_rejects,          \* self->enroll_sim_rejects
  contact,                     \* history: 0 without a finger, else 1 + its age
  lifted,                      \* history: a lift since the last turn was over
  presses,                     \* history: frames accepted for this enrollment
  parity                       \* history: of the frames so far; no frame stutters

loopVars == <<running, stop, draining>>
actionVars == <<action, answered, cancelled, pending>>
liftVars == <<waiting_for_lift, waiting_for_lift_since>>
turnVars == <<turn_open, turn_age>>
enrollVars == <<enroll_stage, enroll_sim_rejects, presses>>
vars == <<actionVars, loopVars, background_warmup_remaining, finger_reported,
          capture_armed, liftVars, turnVars, verify_probes, enrollVars,
          contact, lifted, parity>>

TypeOK ==
  /\ action \in {"none"} \cup CaptureAction
  /\ answered \in BOOLEAN /\ cancelled \in BOOLEAN /\ pending \in BOOLEAN
  /\ running \in BOOLEAN /\ stop \in BOOLEAN /\ draining \in BOOLEAN
  /\ background_warmup_remaining \in 0..WarmupFrames
  /\ finger_reported \in BOOLEAN
  /\ capture_armed \in BOOLEAN
  /\ waiting_for_lift \in BOOLEAN
  /\ waiting_for_lift_since \in 0..PhantomTimeout + 1
  /\ turn_open \in BOOLEAN
  /\ turn_age \in 0..TurnTimeout
  /\ verify_probes \in 0..ProbeFrames - 1
  /\ enroll_stage \in 0..EnrollFrames
  /\ enroll_sim_rejects \in 0..SimMaxRejects
  /\ contact \in 0..TurnTimeout + 1
  /\ lifted \in BOOLEAN
  /\ presses \in Nat
  /\ parity \in {0, 1}

Init ==
  /\ action = "none" /\ answered = FALSE /\ cancelled = FALSE /\ pending = FALSE
  /\ running = FALSE /\ stop = FALSE /\ draining = FALSE
  /\ background_warmup_remaining = 0
  /\ finger_reported = FALSE
  /\ capture_armed = FALSE
  /\ waiting_for_lift = FALSE /\ waiting_for_lift_since = 0
  /\ turn_open = FALSE /\ turn_age = 0
  /\ verify_probes = 0
  /\ enroll_stage = 0 /\ enroll_sim_rejects = 0 /\ presses = 0
  /\ contact = 0 /\ lifted = FALSE /\ parity = 0

----------------------------------------------------------------------------
(* The action life cycle around the loop.                                    *)

(* reset_action_state and the start of the loop.                              *)
StartLoop ==
  /\ running' = TRUE
  /\ stop' = FALSE
  /\ draining' = FALSE
  /\ background_warmup_remaining' = WarmupFrames
  /\ finger_reported' = FALSE
  /\ capture_armed' = FALSE
  /\ waiting_for_lift' = FALSE
  /\ waiting_for_lift_since' = 0
  /\ turn_open' = FALSE
  /\ turn_age' = 0
  /\ verify_probes' = 0
  /\ enroll_sim_rejects' = 0
  /\ contact' = 0
  /\ lifted' = FALSE

LoopStands ==
  UNCHANGED <<loopVars, background_warmup_remaining, finger_reported, capture_armed,
              liftVars, turnVars, enroll_sim_rejects, contact, lifted>>

(* dev_enroll, dev_verify, dev_capture: prepare the action's data, then start *)
(* the loop or wait for the previous one.                                     *)
Request(a) ==
  /\ action = "none"
  /\ UNCHANGED parity
  /\ action' = a
  /\ answered' = FALSE
  /\ cancelled' = FALSE
  /\ enroll_stage' = IF a = "enroll" THEN 0 ELSE enroll_stage
  /\ presses' = IF a = "enroll" THEN 0 ELSE presses
  /\ IF running
     THEN /\ pending' = TRUE
          /\ verify_probes' = IF a = "verify" THEN 0 ELSE verify_probes
          /\ LoopStands
     ELSE StartLoop /\ UNCHANGED pending

(* start_capture_action_cb: the timer looks only at the action that is         *)
(* current now: there is none, it starts a loop for it, or it gives up after   *)
(* EGIS0575_ACTION_START_WAIT_MAX_MS.  Until then it is armed again.           *)
StartTimer ==
  /\ pending
  /\ pending' = FALSE
  /\ UNCHANGED <<action, cancelled, enroll_stage, presses, parity>>
  /\ \/ action = "none" /\ LoopStands /\ UNCHANGED <<answered, verify_probes>>
     \/ action # "none" /\ ~running /\ StartLoop /\ UNCHANGED answered
     \/ action # "none" /\ running /\ answered' = TRUE /\ LoopStands /\ UNCHANGED verify_probes

NoTurnChange ==
  UNCHANGED <<background_warmup_remaining, finger_reported, capture_armed, liftVars,
              turnVars, verify_probes, enrollVars, contact, lifted>>

(* dev_cancel of the current action, or dev_close between actions.            *)
Stop ==
  /\ running
  /\ ~answered
  /\ stop' = TRUE
  /\ cancelled' = (action # "none")
  /\ UNCHANGED <<action, answered, pending, running, draining, parity>>
  /\ NoTurnChange

(* The loop fails (a transfer, a claim, a cancellation), or ends after a stop; *)
(* loop_complete reports to the current action if there is cause.             *)
LoopOver(failed) ==
  /\ running
  /\ failed \/ stop
  /\ running' = FALSE
  /\ draining' = FALSE
  /\ answered' = (answered \/ (action # "none" /\ (cancelled \/ failed)))
  /\ UNCHANGED <<action, cancelled, pending, stop, parity>>
  /\ NoTurnChange

(* The queued completion is handed to the client.                             *)
Return ==
  /\ answered
  /\ answered' = FALSE
  /\ cancelled' = FALSE
  /\ action' = "none"
  /\ UNCHANGED <<pending, loopVars, parity>>
  /\ NoTurnChange

----------------------------------------------------------------------------
(* save_img.  Every frame finds the loop polling, and no completion pending:  *)
(* a queued one is dispatched before the next transfer lands.                 *)

AtMost(n, bound) == IF n > bound THEN bound ELSE n

(* The loop goes to SM_DONE, or polls on.                                     *)
Done == running' = TRUE /\ stop' = TRUE /\ draining' = TRUE
PollsOn == UNCHANGED loopVars
NoAnswer == UNCHANGED actionVars
Answer == answered' = TRUE /\ UNCHANGED <<action, cancelled, pending>>

(* A frame after the stop is not looked at.                                   *)
FrameAfterStop ==
  /\ stop
  /\ draining' = TRUE
  /\ UNCHANGED <<running, stop>>
  /\ NoAnswer
  /\ NoTurnChange

(* Startup: valid frames are grabbed as the warm background.                  *)
WarmupFrame ==
  /\ background_warmup_remaining > 0
  /\ background_warmup_remaining' \in
       {background_warmup_remaining, background_warmup_remaining - 1}
  /\ PollsOn
  /\ NoAnswer
  /\ UNCHANGED <<finger_reported, capture_armed, liftVars, turnVars, verify_probes,
                 enrollVars, contact, lifted>>

(* finalize_verify: the verdict over the collected probes.                    *)
FinalizeVerify ==
  /\ verify_probes' = 0
  /\ Done
  /\ Answer

\* Mutants: a lift does not decide the verify; it leaves the turn open; it
\* decides whatever action is current.
EmptyFrameKeepsProbes ==
  /\ contact' = 0
  /\ lifted' = TRUE
  /\ finger_reported' = FALSE
  /\ turn_open' = FALSE
  /\ turn_age' = 0
  /\ UNCHANGED <<background_warmup_remaining, enrollVars>>
  /\ capture_armed' = TRUE
  /\ waiting_for_lift' = FALSE
  /\ waiting_for_lift_since' = IF waiting_for_lift THEN 0 ELSE waiting_for_lift_since
  /\ PollsOn
  /\ NoAnswer
  /\ UNCHANGED verify_probes

EmptyFrameKeepsTurn ==
  /\ contact' = 0
  /\ lifted' = TRUE
  /\ finger_reported' = FALSE
  /\ UNCHANGED <<background_warmup_remaining, enrollVars, turnVars, verify_probes>>
  /\ capture_armed' = TRUE
  /\ waiting_for_lift' = FALSE
  /\ waiting_for_lift_since' = IF waiting_for_lift THEN 0 ELSE waiting_for_lift_since
  /\ PollsOn
  /\ NoAnswer

EmptyFrameFinalizesAny ==
  /\ contact' = 0
  /\ lifted' = TRUE
  /\ finger_reported' = FALSE
  /\ turn_open' = FALSE
  /\ turn_age' = 0
  /\ UNCHANGED <<background_warmup_remaining, enrollVars, waiting_for_lift_since>>
  /\ capture_armed' = (verify_probes = 0)
  /\ waiting_for_lift' = (verify_probes > 0)
  /\ IF verify_probes > 0
     THEN FinalizeVerify
     ELSE PollsOn /\ NoAnswer /\ UNCHANGED verify_probes

(* No finger: a verify with probes is decided, any other turn is dropped and  *)
(* the next one armed.                                                        *)
EmptyFrame ==
  /\ contact' = 0
  /\ lifted' = TRUE
  /\ finger_reported' = FALSE
  /\ turn_open' = FALSE
  /\ turn_age' = 0
  /\ UNCHANGED <<background_warmup_remaining, enrollVars>>
  /\ IF action = "verify" /\ verify_probes > 0
     THEN /\ capture_armed' = FALSE
          /\ waiting_for_lift' = TRUE
          /\ UNCHANGED waiting_for_lift_since
          /\ FinalizeVerify
     ELSE /\ capture_armed' = TRUE
          /\ waiting_for_lift' = FALSE
          /\ waiting_for_lift_since' = IF waiting_for_lift THEN 0 ELSE waiting_for_lift_since
          /\ PollsOn
          /\ NoAnswer
          /\ UNCHANGED verify_probes

\* Mutant: every frame anchors the wait anew.
LiftAgeRestarts(dt) == 0

(* A finger that has not been lifted since its turn was over: keep waiting,   *)
(* or take it for a phantom after PhantomTimeout and arm a new turn.          *)
LiftAge(dt) ==
  IF waiting_for_lift_since = 0 THEN 0 ELSE waiting_for_lift_since - 1 + dt

WaitForLift(dt) ==
  /\ waiting_for_lift
  /\ PollsOn
  /\ NoAnswer
  /\ UNCHANGED <<background_warmup_remaining, verify_probes, enrollVars, turn_age>>
  /\ IF LiftAge(dt) > PhantomTimeout
     THEN /\ waiting_for_lift' = FALSE
          /\ waiting_for_lift_since' = 0
          /\ turn_open' = FALSE
          /\ capture_armed' = TRUE
          /\ finger_reported' = FALSE
          /\ lifted' = TRUE
     ELSE /\ waiting_for_lift_since' = LiftAge(dt) + 1
          /\ UNCHANGED <<waiting_for_lift, turn_open, capture_armed, finger_reported, lifted>>

(* The first frame of a touch opens its turn; Elapsed is the turn's age.      *)
Elapsed(dt) == IF turn_open THEN turn_age + dt ELSE 0

\* Mutant: a turn that has timed out stays armed.
TurnTimesOutArmed(dt) ==
  /\ Elapsed(dt) > TurnTimeout
  /\ turn_open' = FALSE
  /\ turn_age' = 0
  /\ finger_reported' = FALSE
  /\ lifted' = FALSE
  /\ UNCHANGED <<background_warmup_remaining, capture_armed, liftVars, enrollVars>>
  /\ IF action = "verify" /\ verify_probes > 0
     THEN FinalizeVerify
     ELSE PollsOn /\ NoAnswer /\ UNCHANGED verify_probes

(* The turn is over: no more frames before a lift.                            *)
TurnTimesOut(dt) ==
  /\ Elapsed(dt) > TurnTimeout
  /\ turn_open' = FALSE
  /\ turn_age' = 0
  /\ capture_armed' = FALSE
  /\ waiting_for_lift' = TRUE
  /\ finger_reported' = FALSE
  /\ lifted' = FALSE
  /\ UNCHANGED <<background_warmup_remaining, waiting_for_lift_since, enrollVars>>
  /\ IF action = "verify" /\ verify_probes > 0
     THEN FinalizeVerify
     ELSE PollsOn /\ NoAnswer /\ UNCHANGED verify_probes

(* The frame is left alone, the turn goes on: not armed, still settling, or   *)
(* not good enough.                                                           *)
TurnGoesOn(dt) ==
  /\ Elapsed(dt) <= TurnTimeout
  /\ turn_open' = TRUE
  /\ turn_age' = Elapsed(dt)
  /\ finger_reported' = (finger_reported \/ ~turn_open)
  /\ PollsOn
  /\ NoAnswer
  /\ UNCHANGED <<background_warmup_remaining, capture_armed, liftVars, verify_probes,
                 enrollVars, lifted>>

(* A frame that passes the quality gate.                                      *)
Qualifies(dt) ==
  /\ capture_armed
  /\ Elapsed(dt) \in Settle..TurnTimeout

Reported == finger_reported' = (finger_reported \/ ~turn_open)

(* A verify keeps collecting within the turn until a probe matches or the     *)
(* target is reached.                                                         *)
Probe(dt) ==
  /\ action = "verify"
  /\ Qualifies(dt)
  /\ Reported
  /\ turn_open' = TRUE
  /\ turn_age' = Elapsed(dt)
  /\ UNCHANGED <<background_warmup_remaining, capture_armed, liftVars, enrollVars, lifted>>
  /\ \/ FinalizeVerify
     \/ /\ verify_probes + 1 < ProbeFrames
        /\ verify_probes' = verify_probes + 1
        /\ PollsOn
        /\ NoAnswer

(* An accepted frame ends the turn of every other action.                     *)
Accept(dt) ==
  /\ action # "verify"
  /\ Qualifies(dt)
  /\ Reported
  /\ turn_open' = FALSE
  /\ turn_age' = 0
  /\ capture_armed' = FALSE
  /\ lifted' = FALSE
  /\ UNCHANGED <<background_warmup_remaining, waiting_for_lift_since, verify_probes>>

(* on_frame_accepted_capture, or no action to serve.                          *)
AcceptCapture(dt) ==
  /\ action # "enroll"
  /\ Accept(dt)
  /\ IF action = "capture" THEN Done /\ Answer ELSE PollsOn /\ NoAnswer
  /\ UNCHANGED <<waiting_for_lift, enrollVars>>

\* Mutant: one reject more than the bail-out allows.
RejectRepeatOnceMore(dt) ==
  /\ action = "enroll"
  /\ Accept(dt)
  /\ enroll_stage > 0
  /\ enroll_sim_rejects <= SimMaxRejects
  /\ enroll_sim_rejects' = enroll_sim_rejects + 1
  /\ presses' = presses + 1
  /\ waiting_for_lift' = TRUE
  /\ PollsOn
  /\ NoAnswer
  /\ UNCHANGED enroll_stage

(* on_frame_accepted_enroll: a repeat of the same spot is rejected, at most   *)
(* SimMaxRejects times in a row; any other frame fills the next stage.        *)
RejectRepeat(dt) ==
  /\ action = "enroll"
  /\ Accept(dt)
  /\ enroll_stage > 0
  /\ enroll_sim_rejects < SimMaxRejects
  /\ enroll_sim_rejects' = enroll_sim_rejects + 1
  /\ presses' = presses + 1
  /\ waiting_for_lift' = TRUE
  /\ PollsOn
  /\ NoAnswer
  /\ UNCHANGED enroll_stage

AcceptStage(dt) ==
  /\ action = "enroll"
  /\ Accept(dt)
  /\ enroll_sim_rejects' = 0
  /\ enroll_stage' = enroll_stage + 1
  /\ presses' = presses + 1
  /\ waiting_for_lift' = TRUE
  /\ IF enroll_stage' < EnrollFrames THEN PollsOn /\ NoAnswer ELSE Done /\ Answer

FingerFrame(dt) ==
  /\ contact' = IF contact = 0 THEN 1 ELSE AtMost(contact + dt, TurnTimeout + 1)
  /\ \/ WaitForLift(dt)
     \/ /\ ~waiting_for_lift
        /\ \/ TurnTimesOut(dt) \/ TurnGoesOn(dt) \/ Probe(dt)
           \/ AcceptCapture(dt) \/ RejectRepeat(dt) \/ AcceptStage(dt)

Frame(dt) ==
  /\ running
  /\ ~draining
  /\ ~answered
  /\ parity' = 1 - parity
  /\ \/ FrameAfterStop
     \/ ~stop /\ WarmupFrame
     \/ ~stop /\ background_warmup_remaining = 0 /\ EmptyFrame
     \/ ~stop /\ background_warmup_remaining = 0 /\ FingerFrame(dt)

----------------------------------------------------------------------------
Next ==
  \/ \E a \in CaptureAction : Request(a)
  \/ StartTimer \/ Stop \/ Return
  \/ \E failed \in BOOLEAN : LoopOver(failed)
  \/ \E dt \in 1..GapMax : Frame(dt)

Spec == Init /\ [][Next]_vars

(* The loop polls: its next frame comes however often a completion is being    *)
(* dispatched meanwhile (the transfer is in flight), and time passes with it.  *)
Fairness == SF_vars(\E dt \in 1..GapMax : Frame(dt)) /\ WF_vars(Return)

FairSpec == Spec /\ Fairness

----------------------------------------------------------------------------
(* Properties.                                                               *)

(* The frame that completes the action the loop serves.                       *)
Served == ~stop /\ ~draining /\ draining'

(* A frame is used: as an enroll stage or its rejected repeat, as a probe, or  *)
(* as the captured image.                                                     *)
Used ==
  \/ presses' > presses
  \/ verify_probes' > verify_probes
  \/ action \in {"verify", "capture"} /\ contact' > 0 /\ Served

(* No frame is used before a lift (or a phantom recovery) since the loop       *)
(* started, the last frame was used up, or the last turn timed out: a finger   *)
(* resting on the sensor is never captured twice (capture_armed).             *)
UsedNeedsLift == [][Used => lifted]_vars

(* No frame is used before the finger has been on the sensor for Settle, all   *)
(* the time since its turn opened (finger_first_detected_time).               *)
UsedIsSettled == [][Used => contact' > Settle]_vars

(* The probes a verify is decided on come from one touch: none is left over    *)
(* from an earlier touch, an earlier verify or an interrupted turn.           *)
ProbesOfOneTouch ==
  running /\ ~stop /\ ~answered /\ action = "verify" /\ verify_probes > 0
    => turn_open /\ contact > 0

(* An enrollment is completed by a frame only with every stage filled, never   *)
(* by the leftovers of another action the same loop has served.               *)
EnrollCompletesFull ==
  [][action = "enroll" /\ Served => enroll_stage' = EnrollFrames]_vars

(* enroll_feats is written at enroll_stage only while that is inside.          *)
StageInBounds == action = "enroll" /\ ~answered => enroll_stage < EnrollFrames

(* Same-spot rejects leave an enrollment finishable: it never takes more than  *)
(* SimMaxRejects rejected presses per stage, whatever loops serve it.         *)
EnrollFinishable ==
  action = "enroll" /\ ~answered => presses <= (SimMaxRejects + 1) * enroll_stage

(* A finger that seems to stay on the sensor never blocks the loop: it lifts,   *)
(* or the stuck-presence recovery arms a new turn.                            *)
PresenceIsResolved == waiting_for_lift /\ running ~> ~waiting_for_lift \/ ~running \/ stop

(* The inductive invariant: what is armed has seen a lift, an open turn is no  *)
(* older than the contact it belongs to and is never awaited to end, a probe   *)
(* was taken from an armed and settled touch that is still on, and an          *)
(* enrollment with a stage is served by a running loop.                       *)
TurnInv ==
  /\ capture_armed => lifted
  /\ turn_open => contact > turn_age
  /\ waiting_for_lift => ~turn_open
  /\ draining => running /\ stop

ProbeInv ==
  running /\ ~stop /\ ~answered /\ action = "verify" /\ verify_probes > 0
    => capture_armed /\ contact > Settle

EnrollInv ==
  action = "enroll" /\ ~answered =>
    IF enroll_stage = 0 THEN presses = 0
    ELSE /\ running /\ (stop => cancelled)
         /\ presses <= (SimMaxRejects + 1) * (enroll_stage - 1) + 1 + enroll_sim_rejects

IInv == TypeOK /\ TurnInv /\ ProbeInv /\ EnrollInv /\ ProbesOfOneTouch /\ StageInBounds
=============================================================================
