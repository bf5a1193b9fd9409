------------------------ MODULE Egis0575Turn_proofs ------------------------
(* Egis0575Turn proved for every warm-up, settle window, timeout, number of  *)
(* stages, probes and rejects.                                               *)
EXTENDS Egis0575Turn, TLAPS

(* The constants, one by one.                                                *)
LEMMA Bounds ==
  /\ WarmupFrames \in Nat /\ Settle \in Nat /\ TurnTimeout \in Nat
  /\ PhantomTimeout \in Nat /\ SimMaxRejects \in Nat
  /\ GapMax \in Nat \ {0} /\ ProbeFrames \in Nat \ {0} /\ EnrollFrames \in Nat \ {0}
  BY TurnAssumption DEF TurnAssumption

USE Bounds DEF CaptureAction

(* The types, grouped by what tends to change together.                       *)
ControlTypes ==
  /\ action \in {"none"} \cup CaptureAction
  /\ answered \in BOOLEAN /\ cancelled \in BOOLEAN /\ pending \in BOOLEAN
  /\ running \in BOOLEAN /\ stop \in BOOLEAN /\ draining \in BOOLEAN

TouchTypes ==
  /\ finger_reported \in BOOLEAN /\ capture_armed \in BOOLEAN
  /\ waiting_for_lift \in BOOLEAN /\ turn_open \in BOOLEAN /\ lifted \in BOOLEAN

ClockTypes ==
  /\ background_warmup_remaining \in 0..WarmupFrames
  /\ waiting_for_lift_since \in 0..PhantomTimeout + 1
  /\ turn_age \in 0..TurnTimeout
  /\ contact \in 0..TurnTimeout + 1

CountTypes ==
  /\ verify_probes \in 0..ProbeFrames - 1
  /\ enroll_stage \in 0..EnrollFrames
  /\ enroll_sim_rejects \in 0..SimMaxRejects
  /\ presses \in Nat

Types ==
  ControlTypes /\ TouchTypes /\ ClockTypes /\ CountTypes /\ parity \in {0, 1}

LEMMA TypesOfAll == TypeOK <=> Types
  BY DEF TypeOK, Types, ControlTypes, TouchTypes, ClockTypes, CountTypes

(* The parts of the invariant, and what it takes to keep it.                   *)
LEMMA Parts ==
  /\ IInv <=> /\ Types /\ TurnInv /\ ProbeInv /\ ProbesOfOneTouch
              /\ EnrollInv /\ StageInBounds
  /\ IInv' <=> /\ Types' /\ TurnInv' /\ ProbeInv' /\ ProbesOfOneTouch'
               /\ EnrollInv' /\ StageInBounds'
  <1>1. IInv <=> /\ Types /\ TurnInv /\ ProbeInv /\ ProbesOfOneTouch
                 /\ EnrollInv /\ StageInBounds
    BY TypesOfAll DEF IInv
  <1> QED BY <1>1, PTL

LEMMA InitStep == Init => IInv
  <1> SUFFICES ASSUME Init PROVE IInv
    OBVIOUS
  <1>1. ControlTypes
    BY DEF Init, ControlTypes
  <1>2. TouchTypes
    BY DEF Init, TouchTypes
  <1>3. ClockTypes /\ CountTypes /\ parity \in {0, 1}
    BY DEF Init, ClockTypes, CountTypes
  <1>4. TurnInv /\ ProbeInv /\ EnrollInv /\ ProbesOfOneTouch /\ StageInBounds
    BY DEF Init, TurnInv, ProbeInv, EnrollInv, ProbesOfOneTouch, StageInBounds
  <1> QED BY <1>1, <1>2, <1>3, <1>4, Parts DEF Types

----------------------------------------------------------------------------
(* The action life cycle.                                                    *)

(* A fresh loop: nothing is left of the turns of the loop before it.           *)
LEMMA FreshLoop ==
  ASSUME StartLoop
  PROVE  /\ TouchTypes' /\ ClockTypes' /\ TurnInv' /\ ProbeInv' /\ ProbesOfOneTouch'
         /\ verify_probes' = 0 /\ enroll_sim_rejects' = 0
         /\ running' = TRUE /\ stop' = FALSE /\ draining' = FALSE
  <1>1. TouchTypes'
    BY DEF StartLoop, TouchTypes
  <1>2. ClockTypes'
    BY DEF StartLoop, ClockTypes
  <1>3. TurnInv' /\ ProbeInv' /\ ProbesOfOneTouch'
    BY DEF StartLoop, TurnInv, ProbeInv, ProbesOfOneTouch
  <1> QED BY <1>1, <1>2, <1>3 DEF StartLoop

(* A loop that is left alone keeps the turn as it is.                         *)
LEMMA StandingLoop ==
  ASSUME Types, TurnInv, LoopStands
  PROVE  /\ TouchTypes' /\ ClockTypes' /\ TurnInv'
         /\ UNCHANGED <<running, stop, draining, capture_armed, turn_open, contact,
                        enroll_sim_rejects>>
  <1>1. UNCHANGED <<running, stop, draining, background_warmup_remaining, finger_reported,
                    capture_armed, waiting_for_lift, waiting_for_lift_since, turn_open,
                    turn_age, enroll_sim_rejects, contact, lifted>>
    BY DEF LoopStands, loopVars, liftVars, turnVars
  <1>2. TouchTypes'
    BY <1>1 DEF Types, TouchTypes
  <1>3. ClockTypes'
    BY <1>1 DEF Types, ClockTypes
  <1>4. TurnInv'
    BY <1>1 DEF TurnInv
  <1> QED BY <1>1, <1>2, <1>3, <1>4

(* A request prepares its data before a loop can serve it.                    *)
LEMMA RequestStep ==
  ASSUME IInv, NEW a \in CaptureAction, Request(a)
  PROVE  IInv'
  <1> USE Parts
  <1>1. EnrollInv' /\ StageInBounds' /\ parity' \in {0, 1}
    BY DEF Types, EnrollInv, StageInBounds, Request
  <1>2. CASE running
    <2>1. LoopStands /\ verify_probes' = (IF a = "verify" THEN 0 ELSE verify_probes)
      BY <1>2 DEF Request
    <2>2. ControlTypes'
      BY <2>1, StandingLoop DEF Types, ControlTypes, Request
    <2>3. CountTypes'
      <3>1. /\ verify_probes' \in {0, verify_probes} /\ enroll_stage' \in {0, enroll_stage}
            /\ presses' \in {0, presses} /\ enroll_sim_rejects' = enroll_sim_rejects
        BY <2>1, StandingLoop DEF Request
      <3> QED BY <3>1 DEF Types, CountTypes
    <2>4. ProbeInv' /\ ProbesOfOneTouch'
      BY <2>1 DEF ProbeInv, ProbesOfOneTouch, Request
    <2> QED BY <1>1, <2>1, <2>2, <2>3, <2>4, StandingLoop DEF Types
  <1>3. CASE ~running
    <2>1. StartLoop
      BY <1>3 DEF Request
    <2>2. ControlTypes'
      BY <1>3, <2>1, FreshLoop DEF Types, ControlTypes, Request
    <2>3. CountTypes'
      BY <2>1, FreshLoop DEF Types, CountTypes, Request
    <2> QED BY <1>1, <2>1, <2>2, <2>3, FreshLoop DEF Types
  <1> QED BY <1>2, <1>3

(* A loop that a timer starts finds an enrollment without a stage, or none.    *)
LEMMA StartTimerStep ==
  ASSUME IInv, StartTimer
  PROVE  IInv'
  <1> USE Parts
  <1>1. /\ parity' \in {0, 1}
        /\ UNCHANGED <<action, cancelled, enroll_stage, presses>> /\ pending' = FALSE
    BY DEF Types, StartTimer
  <1>2. CASE action # "none" /\ ~running /\ StartLoop /\ UNCHANGED answered
    <2>1. ControlTypes'
      BY <1>1, <1>2, FreshLoop DEF Types, ControlTypes
    <2>2. CountTypes'
      BY <1>1, <1>2, FreshLoop DEF Types, CountTypes
    <2>3. EnrollInv' /\ StageInBounds'
      BY <1>1, <1>2 DEF EnrollInv, StageInBounds
    <2> QED BY <1>1, <1>2, <2>1, <2>2, <2>3, FreshLoop DEF Types
  <1>3. CASE /\ LoopStands /\ UNCHANGED verify_probes
             /\ (action = "none" /\ UNCHANGED answered) \/ answered' = TRUE
    <2>1. ControlTypes'
      BY <1>1, <1>3, StandingLoop DEF Types, ControlTypes
    <2>2. CountTypes'
      BY <1>1, <1>3, StandingLoop DEF Types, CountTypes
    <2>3. ProbeInv' /\ ProbesOfOneTouch' /\ EnrollInv' /\ StageInBounds'
      BY <1>1, <1>3 DEF ProbeInv, ProbesOfOneTouch, EnrollInv, StageInBounds
    <2> QED BY <1>1, <1>3, <2>1, <2>2, <2>3, StandingLoop DEF Types
  <1> QED BY <1>2, <1>3 DEF StartTimer

(* What is left alone by everything but a frame and a start.                   *)
LEMMA KeptTurn ==
  ASSUME IInv, NoTurnChange
  PROVE  /\ TouchTypes' /\ ClockTypes' /\ CountTypes'
         /\ UNCHANGED <<verify_probes, capture_armed, waiting_for_lift, turn_open, turn_age,
                        enroll_stage, enroll_sim_rejects, presses, contact, lifted>>
  <1>1. UNCHANGED <<background_warmup_remaining, finger_reported, capture_armed,
                    waiting_for_lift, waiting_for_lift_since, turn_open, turn_age,
                    verify_probes, enroll_stage, enroll_sim_rejects, presses, contact, lifted>>
    BY DEF NoTurnChange, liftVars, turnVars, enrollVars
  <1>2. TouchTypes'
    BY <1>1, Parts DEF Types, TouchTypes
  <1>3. ClockTypes' /\ CountTypes'
    BY <1>1, Parts DEF Types, ClockTypes, CountTypes
  <1> QED BY <1>1, <1>2, <1>3

(* Stopping, ending and returning leave the turn alone; what ends under an     *)
(* enrollment with a stage answers it.                                        *)
LEMMA LifeCycleStep ==
  ASSUME IInv, Stop \/ Return \/ \E failed \in BOOLEAN : LoopOver(failed)
  PROVE  IInv'
  <1> USE Parts
  <1>1. CASE Stop
    <2>1. /\ NoTurnChange /\ running /\ stop' = TRUE /\ cancelled' = (action # "none")
          /\ UNCHANGED <<action, answered, pending, running, draining>>
          /\ parity' \in {0, 1}
      BY <1>1 DEF Stop, Types
    <2>2. ControlTypes'
      BY <2>1 DEF Types, ControlTypes
    <2>3. TurnInv' /\ ProbeInv' /\ ProbesOfOneTouch' /\ StageInBounds'
      BY <2>1, KeptTurn DEF TurnInv, ProbeInv, ProbesOfOneTouch, StageInBounds
    <2>4. EnrollInv'
      <3>1. CASE action = "enroll"
        BY <2>1, <3>1, KeptTurn DEF EnrollInv
      <3>2. CASE action # "enroll"
        BY <2>1, <3>2 DEF EnrollInv
      <3> QED BY <3>1, <3>2
    <2> QED BY <2>1, <2>2, <2>3, <2>4, KeptTurn DEF Types
  <1>2. CASE Return
    <2>1. /\ NoTurnChange /\ action' = "none" /\ answered' = FALSE /\ cancelled' = FALSE
          /\ UNCHANGED <<pending, running, stop, draining>>
          /\ parity' \in {0, 1}
      BY <1>2 DEF Return, loopVars, Types
    <2>2. ControlTypes'
      BY <2>1 DEF Types, ControlTypes
    <2>3. TurnInv' /\ ProbeInv' /\ ProbesOfOneTouch' /\ StageInBounds' /\ EnrollInv'
      BY <2>1, KeptTurn DEF TurnInv, ProbeInv, ProbesOfOneTouch, StageInBounds, EnrollInv
    <2> QED BY <2>1, <2>2, <2>3, KeptTurn DEF Types
  <1>3. ASSUME NEW failed \in BOOLEAN, LoopOver(failed) PROVE IInv'
    <2>1. /\ NoTurnChange /\ running' = FALSE /\ draining' = FALSE
          /\ UNCHANGED <<action, cancelled, pending, stop>>
          /\ parity' \in {0, 1}
      BY <1>3 DEF LoopOver, Types
    <2>2. /\ answered' \in BOOLEAN
          /\ ~answered' => ~answered /\ (action = "none" \/ (~cancelled /\ stop))
      BY <1>3 DEF LoopOver, Types, ControlTypes
    <2>3. ControlTypes'
      BY <2>1, <2>2 DEF Types, ControlTypes
    <2>4. TurnInv' /\ ProbeInv' /\ ProbesOfOneTouch'
      BY <2>1, KeptTurn DEF TurnInv, ProbeInv, ProbesOfOneTouch
    <2>5. EnrollInv' /\ StageInBounds'
      BY <2>1, <2>2, KeptTurn DEF EnrollInv, StageInBounds
    <2> QED BY <2>1, <2>3, <2>4, <2>5, KeptTurn DEF Types
  <1> QED BY <1>1, <1>2, <1>3

----------------------------------------------------------------------------
(* Frames.                                                                   *)

(* A frame of a loop that polls for somebody, past the warm-up.                *)
Polling ==
  /\ IInv
  /\ running /\ ~stop /\ ~draining /\ ~answered
  /\ background_warmup_remaining' = background_warmup_remaining
  /\ parity' \in {0, 1}

(* It polls on without an answer, or completes the action and goes to SM_DONE. *)
Outcome == (PollsOn /\ NoAnswer) \/ (Done /\ Answer)

LEMMA Control ==
  ASSUME Polling, Outcome
  PROVE  /\ ControlTypes' /\ action' = action /\ running'
         /\ draining' => running' /\ stop'
         /\ ~answered' => ~stop' /\ ~stop
  <1>1. /\ UNCHANGED <<action, cancelled, pending>> /\ running' = TRUE
        /\ (~stop' /\ ~draining' /\ ~answered') \/ (stop' = TRUE /\ draining' = TRUE /\ answered' = TRUE)
        /\ stop' \in BOOLEAN /\ draining' \in BOOLEAN /\ answered' \in BOOLEAN
    BY Parts DEF Polling, Outcome, PollsOn, NoAnswer, Done, Answer, loopVars, actionVars,
                 Types, ControlTypes
  <1>2. ControlTypes'
    BY <1>1, Parts DEF Polling, Types, ControlTypes
  <1> QED BY <1>1, <1>2 DEF Polling

(* What a frame leaves alone of an enrollment keeps its invariant.             *)
LEMMA SameStage ==
  ASSUME Polling, Outcome, UNCHANGED enrollVars
  PROVE  EnrollInv' /\ StageInBounds'
  <1>1. UNCHANGED <<enroll_stage, enroll_sim_rejects, presses>>
    BY DEF enrollVars
  <1> QED BY <1>1, Control, Parts DEF Polling, EnrollInv, StageInBounds

(* A finger on the sensor has been there for at least the age of its turn.     *)
LEMMA ContactOutlastsTurn ==
  ASSUME Types, TurnInv, NEW dt \in 1..GapMax,
         contact' = IF contact = 0 THEN 1 ELSE AtMost(contact + dt, TurnTimeout + 1)
  PROVE  /\ contact' \in 1..TurnTimeout + 1
         /\ contact' >= contact
         /\ Elapsed(dt) \in Nat
         /\ Elapsed(dt) <= TurnTimeout => contact' > Elapsed(dt)
  BY DEF Types, TouchTypes, ClockTypes, TurnInv, AtMost, Elapsed

(* One stage more leaves room for one press and SimMaxRejects repeats.         *)
LEMMA StageBudget ==
  ASSUME NEW S \in Nat, NEW n \in Nat
  PROVE  (S + 1) * (n + 1) = (S + 1) * n + S + 1
  OBVIOUS

(* No finger: the next touch is armed, or the verify is decided.               *)
LEMMA EmptyFrameStep ==
  ASSUME Polling, EmptyFrame
  PROVE  IInv'
  <1> USE Parts
  <1>1. /\ contact' = 0 /\ lifted' = TRUE /\ finger_reported' = FALSE
        /\ turn_open' = FALSE /\ turn_age' = 0
        /\ UNCHANGED enrollVars
        /\ capture_armed' \in BOOLEAN /\ waiting_for_lift' \in BOOLEAN
        /\ waiting_for_lift_since' \in {0, waiting_for_lift_since}
        /\ verify_probes' \in {0, verify_probes}
        /\ action = "verify" /\ verify_probes > 0 => verify_probes' = 0
        /\ Outcome
    BY DEF EmptyFrame, FinalizeVerify, Outcome
  <1>2. TouchTypes'
    BY <1>1 DEF TouchTypes
  <1>3. ClockTypes' /\ CountTypes'
    BY <1>1 DEF Polling, Types, ClockTypes, CountTypes, enrollVars
  <1>4. TurnInv'
    BY <1>1, Control DEF TurnInv
  <1>5. ProbeInv' /\ ProbesOfOneTouch'
    BY <1>1, Control DEF Polling, Types, CountTypes, ProbeInv, ProbesOfOneTouch
  <1> QED BY <1>1, <1>2, <1>3, <1>4, <1>5, Control, SameStage DEF Polling, Types

(* Waiting for a lift keeps a touch that is over closed.                       *)
LEMMA WaitForLiftStep ==
  ASSUME Polling, NEW dt \in 1..GapMax, WaitForLift(dt),
         contact' = IF contact = 0 THEN 1 ELSE AtMost(contact + dt, TurnTimeout + 1)
  PROVE  IInv'
  <1> USE Parts
  <1>1. /\ Outcome /\ UNCHANGED enrollVars
        /\ verify_probes' = verify_probes /\ turn_age' = turn_age
        /\ waiting_for_lift
    BY DEF WaitForLift, Outcome
  <1>2. LiftAge(dt) \in Nat
    BY DEF Polling, Types, ClockTypes, LiftAge
  <1>3. waiting_for_lift_since' \in 0..PhantomTimeout + 1
    <2>1. CASE LiftAge(dt) > PhantomTimeout
      BY <2>1 DEF WaitForLift
    <2>2. CASE ~(LiftAge(dt) > PhantomTimeout)
      <3>1. waiting_for_lift_since' = LiftAge(dt) + 1
        BY <2>2 DEF WaitForLift
      <3> QED BY <1>2, <2>2, <3>1
    <2> QED BY <2>1, <2>2
  <1>4. /\ turn_open' = FALSE \/ turn_open' = turn_open
        /\ capture_armed' => lifted' \/ (capture_armed /\ lifted' = lifted)
    BY DEF WaitForLift
  <1>5. TouchTypes'
    <2>1. CASE LiftAge(dt) > PhantomTimeout
      BY <2>1 DEF WaitForLift, TouchTypes
    <2>2. CASE ~(LiftAge(dt) > PhantomTimeout)
      BY <2>2 DEF WaitForLift, Polling, Types, TouchTypes
    <2> QED BY <2>1, <2>2
  <1>6. ClockTypes' /\ CountTypes'
    BY <1>1, <1>3, ContactOutlastsTurn DEF Polling, Types, ClockTypes, CountTypes, enrollVars
  <1>7. TurnInv'
    BY <1>1, <1>4, Control DEF Polling, TurnInv
  <1>8. ProbeInv' /\ ProbesOfOneTouch'
    BY <1>1, Control DEF Polling, ProbeInv, ProbesOfOneTouch, TurnInv
  <1> QED BY <1>1, <1>5, <1>6, <1>7, <1>8, Control, SameStage DEF Polling, Types

(* A turn that times out takes its probes with it.                            *)
LEMMA TurnTimesOutStep ==
  ASSUME Polling, NEW dt \in 1..GapMax, TurnTimesOut(dt), ~waiting_for_lift,
         contact' = IF contact = 0 THEN 1 ELSE AtMost(contact + dt, TurnTimeout + 1)
  PROVE  IInv'
  <1> USE Parts
  <1>1. /\ Outcome /\ UNCHANGED enrollVars
        /\ turn_open' = FALSE /\ turn_age' = 0 /\ capture_armed' = FALSE
        /\ waiting_for_lift' = TRUE /\ finger_reported' = FALSE /\ lifted' = FALSE
        /\ waiting_for_lift_since' = waiting_for_lift_since
        /\ verify_probes' \in {0, verify_probes}
        /\ action = "verify" /\ verify_probes > 0 => verify_probes' = 0
    BY DEF TurnTimesOut, FinalizeVerify, Outcome
  <1>2. TouchTypes'
    BY <1>1 DEF TouchTypes
  <1>3. ClockTypes' /\ CountTypes'
    BY <1>1, ContactOutlastsTurn DEF Polling, Types, ClockTypes, CountTypes, enrollVars
  <1>4. TurnInv'
    BY <1>1, Control DEF TurnInv
  <1>5. ProbeInv' /\ ProbesOfOneTouch'
    BY <1>1, Control DEF Polling, Types, CountTypes, ProbeInv, ProbesOfOneTouch
  <1> QED BY <1>1, <1>2, <1>3, <1>4, <1>5, Control, SameStage DEF Polling, Types

(* A turn that goes on keeps its probes, and what armed it.                    *)
LEMMA TurnGoesOnStep ==
  ASSUME Polling, NEW dt \in 1..GapMax, TurnGoesOn(dt), ~waiting_for_lift,
         contact' = IF contact = 0 THEN 1 ELSE AtMost(contact + dt, TurnTimeout + 1)
  PROVE  IInv'
  <1> USE Parts
  <1>1. /\ Outcome /\ UNCHANGED enrollVars
        /\ turn_open' = TRUE /\ turn_age' = Elapsed(dt) /\ Elapsed(dt) <= TurnTimeout
        /\ finger_reported' \in BOOLEAN
        /\ UNCHANGED <<capture_armed, waiting_for_lift, waiting_for_lift_since,
                       verify_probes, lifted>>
    BY DEF TurnGoesOn, Outcome, liftVars
  <1>2. TouchTypes'
    BY <1>1 DEF Polling, Types, TouchTypes
  <1>3. ClockTypes' /\ CountTypes'
    BY <1>1, ContactOutlastsTurn DEF Polling, Types, ClockTypes, CountTypes, enrollVars
  <1>4. TurnInv'
    BY <1>1, Control, ContactOutlastsTurn DEF Polling, TurnInv
  <1>5. ProbeInv' /\ ProbesOfOneTouch'
    BY <1>1, Control, ContactOutlastsTurn
       DEF Polling, Types, ClockTypes, ProbeInv, ProbesOfOneTouch
  <1> QED BY <1>1, <1>2, <1>3, <1>4, <1>5, Control, SameStage DEF Polling, Types

(* A probe is taken from an armed turn that has settled.                       *)
LEMMA ProbeStep ==
  ASSUME Polling, NEW dt \in 1..GapMax, Probe(dt), ~waiting_for_lift,
         contact' = IF contact = 0 THEN 1 ELSE AtMost(contact + dt, TurnTimeout + 1)
  PROVE  IInv'
  <1> USE Parts
  <1>1. /\ Outcome /\ UNCHANGED enrollVars
        /\ turn_open' = TRUE /\ turn_age' = Elapsed(dt)
        /\ Elapsed(dt) >= Settle /\ Elapsed(dt) <= TurnTimeout /\ capture_armed
        /\ finger_reported' \in BOOLEAN
        /\ UNCHANGED <<capture_armed, waiting_for_lift, waiting_for_lift_since, lifted>>
    <2>1. /\ UNCHANGED enrollVars /\ turn_open' = TRUE /\ turn_age' = Elapsed(dt)
          /\ capture_armed /\ finger_reported' \in BOOLEAN
          /\ UNCHANGED <<capture_armed, waiting_for_lift, waiting_for_lift_since, lifted>>
      BY DEF Probe, Qualifies, Reported, liftVars
    <2>2. Elapsed(dt) >= Settle /\ Elapsed(dt) <= TurnTimeout
      BY DEF Probe, Qualifies
    <2>3. Outcome
      BY DEF Probe, FinalizeVerify, Outcome
    <2> QED BY <2>1, <2>2, <2>3
  <1>2. \/ verify_probes' = 0
        \/ verify_probes + 1 < ProbeFrames /\ verify_probes' = verify_probes + 1
    BY DEF Probe, FinalizeVerify
  <1>3. TouchTypes'
    BY <1>1 DEF Polling, Types, TouchTypes
  <1>4. ClockTypes' /\ CountTypes'
    BY <1>1, <1>2, ContactOutlastsTurn DEF Polling, Types, ClockTypes, CountTypes, enrollVars
  <1>5. TurnInv'
    BY <1>1, Control, ContactOutlastsTurn DEF Polling, TurnInv
  <1>6. ProbeInv' /\ ProbesOfOneTouch'
    BY <1>1, Control, ContactOutlastsTurn
       DEF Polling, Types, ClockTypes, ProbeInv, ProbesOfOneTouch
  <1> QED BY <1>1, <1>3, <1>4, <1>5, <1>6, Control, SameStage DEF Polling, Types

(* An accepted frame closes its turn and disarms the loop.                     *)
LEMMA AcceptedTurn ==
  ASSUME Polling, NEW dt \in 1..GapMax, Accept(dt), Outcome,
         waiting_for_lift' \in BOOLEAN,
         contact' = IF contact = 0 THEN 1 ELSE AtMost(contact + dt, TurnTimeout + 1)
  PROVE  /\ TouchTypes' /\ ClockTypes' /\ TurnInv' /\ ProbeInv' /\ ProbesOfOneTouch'
         /\ verify_probes' = verify_probes
  <1> USE Parts
  <1>1. /\ turn_open' = FALSE /\ turn_age' = 0 /\ capture_armed' = FALSE /\ lifted' = FALSE
        /\ finger_reported' \in BOOLEAN /\ action # "verify"
        /\ UNCHANGED <<waiting_for_lift_since, verify_probes>>
    BY DEF Accept, Reported
  <1>2. TouchTypes'
    BY <1>1 DEF TouchTypes
  <1>3. ClockTypes'
    BY <1>1, ContactOutlastsTurn DEF Polling, Types, ClockTypes
  <1>4. TurnInv' /\ ProbeInv' /\ ProbesOfOneTouch'
    BY <1>1, Control DEF TurnInv, ProbeInv, ProbesOfOneTouch
  <1> QED BY <1>1, <1>2, <1>3, <1>4

LEMMA AcceptCaptureStep ==
  ASSUME Polling, NEW dt \in 1..GapMax, AcceptCapture(dt),
         contact' = IF contact = 0 THEN 1 ELSE AtMost(contact + dt, TurnTimeout + 1)
  PROVE  IInv'
  <1> USE Parts
  <1>1. Accept(dt) /\ Outcome /\ UNCHANGED <<waiting_for_lift, enrollVars>>
    BY DEF AcceptCapture, Outcome
  <1>2. waiting_for_lift' \in BOOLEAN
    BY <1>1 DEF Polling, Types, TouchTypes
  <1>3. CountTypes'
    BY <1>1, <1>2, AcceptedTurn DEF Polling, Types, CountTypes, enrollVars
  <1> QED BY <1>1, <1>2, <1>3, AcceptedTurn, Control, SameStage DEF Polling, Types

(* A rejected repeat costs a press, and there are SimMaxRejects of them.       *)
LEMMA RejectRepeatStep ==
  ASSUME Polling, NEW dt \in 1..GapMax, RejectRepeat(dt),
         contact' = IF contact = 0 THEN 1 ELSE AtMost(contact + dt, TurnTimeout + 1)
  PROVE  IInv'
  <1> USE Parts
  <1>1. /\ Accept(dt) /\ Outcome /\ waiting_for_lift' = TRUE /\ action = "enroll"
        /\ enroll_stage > 0 /\ enroll_stage' = enroll_stage
        /\ enroll_sim_rejects < SimMaxRejects
        /\ enroll_sim_rejects' = enroll_sim_rejects + 1 /\ presses' = presses + 1
    BY DEF RejectRepeat, Outcome
  <1>2. CountTypes'
    BY <1>1, AcceptedTurn DEF Polling, Types, CountTypes
  <1>3. presses <= (SimMaxRejects + 1) * (enroll_stage - 1) + 1 + enroll_sim_rejects
    BY <1>1 DEF Polling, EnrollInv, Types, CountTypes
  <1>4. (SimMaxRejects + 1) * (enroll_stage - 1) \in Nat
    BY <1>1 DEF Polling, Types, CountTypes
  <1>5. presses' <= (SimMaxRejects + 1) * (enroll_stage' - 1) + 1 + enroll_sim_rejects'
    BY <1>1, <1>3, <1>4 DEF Polling, Types, CountTypes
  <1>6. EnrollInv' /\ StageInBounds'
    BY <1>1, <1>5, Control DEF Polling, EnrollInv, StageInBounds, Types, CountTypes
  <1> QED BY <1>1, <1>2, <1>6, AcceptedTurn, Control DEF Polling, Types

(* A stage more, and the rejects of the stage before it are paid for.          *)
LEMMA AcceptStageStep ==
  ASSUME Polling, NEW dt \in 1..GapMax, AcceptStage(dt),
         contact' = IF contact = 0 THEN 1 ELSE AtMost(contact + dt, TurnTimeout + 1)
  PROVE  IInv'
  <1> USE Parts
  <1>1. /\ Accept(dt) /\ Outcome /\ waiting_for_lift' = TRUE /\ action = "enroll"
        /\ enroll_stage' = enroll_stage + 1
        /\ enroll_sim_rejects' = 0 /\ presses' = presses + 1
        /\ ~answered' => enroll_stage' < EnrollFrames
    BY DEF AcceptStage, Outcome, Polling, Answer, NoAnswer, Done, PollsOn
  <1>2. enroll_stage < EnrollFrames /\ enroll_stage \in Nat /\ presses \in Nat
        /\ enroll_sim_rejects \in 0..SimMaxRejects
    BY <1>1 DEF Polling, StageInBounds, Types, CountTypes
  <1>3. CountTypes'
    BY <1>1, <1>2, AcceptedTurn DEF Polling, Types, CountTypes
  <1>4. presses' <= (SimMaxRejects + 1) * (enroll_stage' - 1) + 1 + enroll_sim_rejects'
    <2>1. enroll_stage' - 1 = enroll_stage
      BY <1>1, <1>2
    <2>2. presses <= (SimMaxRejects + 1) * enroll_stage
      <3>1. CASE enroll_stage = 0
        BY <1>1, <1>2, <3>1 DEF Polling, EnrollInv
      <3>2. CASE enroll_stage > 0
        <4>1. presses <= (SimMaxRejects + 1) * (enroll_stage - 1) + 1 + enroll_sim_rejects
          BY <1>1, <1>2, <3>2 DEF Polling, EnrollInv
        <4>2. PICK n \in Nat : enroll_stage = n + 1
          BY <1>2, <3>2, enroll_stage - 1 \in Nat /\ enroll_stage = (enroll_stage - 1) + 1
        <4>3. (SimMaxRejects + 1) * enroll_stage = (SimMaxRejects + 1) * n + SimMaxRejects + 1
          BY <4>2, StageBudget
        <4>4. (SimMaxRejects + 1) * n \in Nat /\ enroll_stage - 1 = n
          BY <4>2
        <4> QED BY <1>2, <4>1, <4>3, <4>4
      <3> QED BY <1>2, <3>1, <3>2
    <2>3. (SimMaxRejects + 1) * enroll_stage \in Nat
      BY <1>2
    <2> QED BY <1>1, <1>2, <2>1, <2>2, <2>3
  <1>5. EnrollInv' /\ StageInBounds'
    BY <1>1, <1>2, <1>4, Control DEF Polling, EnrollInv, StageInBounds
  <1> QED BY <1>1, <1>3, <1>5, AcceptedTurn, Control DEF Polling, Types

LEMMA FrameStep ==
  ASSUME IInv, NEW dt \in 1..GapMax, Frame(dt)
  PROVE  IInv'
  <1> USE Parts
  <1>1. running /\ ~draining /\ ~answered /\ parity' \in {0, 1}
    BY DEF Frame, Types
  <1>2. CASE FrameAfterStop
    <2>1. /\ NoTurnChange /\ stop /\ draining' = TRUE
          /\ UNCHANGED <<action, answered, cancelled, pending, running, stop>>
      BY <1>2 DEF FrameAfterStop, NoAnswer, actionVars
    <2>2. ControlTypes'
      BY <2>1 DEF Types, ControlTypes
    <2>3. TurnInv' /\ ProbeInv' /\ ProbesOfOneTouch' /\ EnrollInv' /\ StageInBounds'
      BY <1>1, <2>1, KeptTurn
         DEF TurnInv, ProbeInv, ProbesOfOneTouch, EnrollInv, StageInBounds
    <2> QED BY <1>1, <2>1, <2>2, <2>3, KeptTurn DEF Types
  <1>3. CASE ~stop /\ WarmupFrame
    <2>1. /\ background_warmup_remaining' \in 0..WarmupFrames
          /\ UNCHANGED <<action, answered, cancelled, pending, running, stop, draining,
               finger_reported, capture_armed, waiting_for_lift, waiting_for_lift_since,
               turn_open, turn_age, verify_probes, enroll_stage, enroll_sim_rejects,
               presses, contact, lifted>>
      BY <1>3 DEF WarmupFrame, Types, ClockTypes, PollsOn, NoAnswer, loopVars, actionVars,
                  liftVars, turnVars, enrollVars
    <2>2. ControlTypes'
      BY <2>1 DEF Types, ControlTypes
    <2>3. TouchTypes'
      BY <2>1 DEF Types, TouchTypes
    <2>4. ClockTypes' /\ CountTypes'
      BY <2>1 DEF Types, ClockTypes, CountTypes
    <2>5. TurnInv' /\ ProbeInv' /\ ProbesOfOneTouch' /\ EnrollInv' /\ StageInBounds'
      BY <2>1 DEF TurnInv, ProbeInv, ProbesOfOneTouch, EnrollInv, StageInBounds
    <2> QED BY <1>1, <2>2, <2>3, <2>4, <2>5 DEF Types
  <1>4. CASE ~stop /\ EmptyFrame
    <2>1. Polling
      BY <1>1, <1>4 DEF Polling, EmptyFrame
    <2> QED BY <1>4, <2>1, EmptyFrameStep
  <1>5. CASE ~stop /\ FingerFrame(dt)
    <2>1. contact' = IF contact = 0 THEN 1 ELSE AtMost(contact + dt, TurnTimeout + 1)
      BY <1>5 DEF FingerFrame
    <2>2. Polling
      BY <1>1, <1>5 DEF Polling, FingerFrame, WaitForLift, TurnTimesOut, TurnGoesOn, Probe,
                        AcceptCapture, RejectRepeat, AcceptStage, Accept
    <2> QED BY <1>5, <2>1, <2>2, WaitForLiftStep, TurnTimesOutStep, TurnGoesOnStep,
                ProbeStep, AcceptCaptureStep, RejectRepeatStep, AcceptStageStep
            DEF FingerFrame
  <1> QED BY <1>2, <1>3, <1>4, <1>5 DEF Frame

LEMMA IInvNext ==
  ASSUME IInv, [Next]_vars
  PROVE  IInv'
  <1>1. CASE Next
    BY <1>1, RequestStep, StartTimerStep, LifeCycleStep, FrameStep DEF Next
  <1>2. CASE UNCHANGED vars
    <2>1. UNCHANGED <<action, answered, cancelled, pending, running, stop, draining, parity>>
          /\ NoTurnChange
      BY <1>2 DEF vars, actionVars, loopVars, NoTurnChange
    <2>2. ControlTypes' /\ parity' \in {0, 1}
      BY <2>1, Parts DEF Types, ControlTypes
    <2>3. TurnInv' /\ ProbeInv' /\ ProbesOfOneTouch' /\ EnrollInv' /\ StageInBounds'
      BY <2>1, KeptTurn, Parts
         DEF TurnInv, ProbeInv, ProbesOfOneTouch, EnrollInv, StageInBounds
    <2> QED BY <2>1, <2>2, <2>3, KeptTurn, Parts DEF Types
  <1> QED BY <1>1, <1>2

----------------------------------------------------------------------------
(* The theorems.                                                             *)

(* Whatever frames, requests, stops and late timers do to a loop, its turn,    *)
(* its probes and its enrollment stay consistent.                             *)
THEOREM TurnInductive == Spec => []IInv
  <1>1. Init => IInv
    BY InitStep
  <1>2. IInv /\ [Next]_vars => IInv'
    BY IInvNext
  <1> QED BY <1>1, <1>2, PTL DEF Spec

(* The probes a verify is decided on come from one touch.                     *)
THEOREM ProbesOfOneTouchHolds == Spec => []ProbesOfOneTouch
  BY TurnInductive, PTL DEF IInv

(* on_frame_accepted_enroll never writes past enroll_feats.                    *)
THEOREM StageInBoundsHolds == Spec => []StageInBounds
  BY TurnInductive, PTL DEF IInv

(* However many loops serve it, an enrollment never takes more rejected        *)
(* presses per stage than EGIS0575_ENROLL_SIM_MAX_REJECTS.                    *)
THEOREM EnrollFinishableHolds == Spec => []EnrollFinishable
  <1>1. IInv => EnrollFinishable
    <2> SUFFICES ASSUME IInv, action = "enroll", ~answered
                 PROVE  presses <= (SimMaxRejects + 1) * enroll_stage
      BY DEF EnrollFinishable
    <2>1. enroll_stage \in Nat /\ presses \in Nat /\ enroll_sim_rejects \in 0..SimMaxRejects
      BY Parts DEF Types, CountTypes
    <2>2. CASE enroll_stage = 0
      BY <2>1, <2>2 DEF IInv, EnrollInv
    <2>3. CASE enroll_stage > 0
      <3>1. presses <= (SimMaxRejects + 1) * (enroll_stage - 1) + 1 + enroll_sim_rejects
        BY <2>1, <2>3 DEF IInv, EnrollInv
      <3>2. PICK n \in Nat : enroll_stage = n + 1
        BY <2>1, <2>3, enroll_stage - 1 \in Nat /\ enroll_stage = (enroll_stage - 1) + 1
      <3>3. (SimMaxRejects + 1) * enroll_stage = (SimMaxRejects + 1) * n + SimMaxRejects + 1
        BY <3>2, StageBudget
      <3>4. (SimMaxRejects + 1) * n \in Nat /\ enroll_stage - 1 = n
        BY <3>2
      <3> QED BY <2>1, <3>1, <3>3, <3>4
    <2> QED BY <2>1, <2>2, <2>3
  <1> QED BY <1>1, TurnInductive, PTL

(* What a step uses a frame for, it does in one of these ways.                *)
LEMMA UsingFrame ==
  ASSUME IInv, Next, Used
  PROVE  /\ ~stop /\ ~answered /\ running
         /\ \E dt \in 1..GapMax :
              /\ contact' = IF contact = 0 THEN 1 ELSE AtMost(contact + dt, TurnTimeout + 1)
              /\ \/ Qualifies(dt)
                 \/ action = "verify" /\ verify_probes > 0
  <1> USE Parts
  <1>0. presses \in Nat /\ verify_probes \in Nat
    BY DEF Types, CountTypes
  <1>1. ASSUME NEW a \in CaptureAction, Request(a) PROVE FALSE
    BY <1>0, <1>1 DEF Used, Served, Request, StartLoop, LoopStands, loopVars
  <1>2. CASE StartTimer
    BY <1>0, <1>2 DEF Used, Served, StartTimer, StartLoop, LoopStands, loopVars
  <1>3. CASE Stop \/ Return \/ \E failed \in BOOLEAN : LoopOver(failed)
    BY <1>0, <1>3 DEF Used, Served, Stop, Return, LoopOver, NoTurnChange, loopVars, enrollVars
  <1>4. ASSUME NEW dt \in 1..GapMax, Frame(dt)
        PROVE  /\ ~stop /\ ~answered /\ running
               /\ contact' = IF contact = 0 THEN 1 ELSE AtMost(contact + dt, TurnTimeout + 1)
               /\ Qualifies(dt) \/ (action = "verify" /\ verify_probes > 0)
    <2>1. CASE FrameAfterStop
      BY <1>0, <2>1 DEF Used, Served, FrameAfterStop, NoTurnChange, enrollVars
    <2>2. CASE ~stop /\ WarmupFrame
      BY <1>0, <2>2 DEF Used, Served, WarmupFrame, enrollVars, PollsOn, loopVars
    <2>3. CASE ~stop /\ EmptyFrame
      BY <1>0, <2>3 DEF Used, Served, EmptyFrame, FinalizeVerify, enrollVars
    <2>4. CASE ~stop /\ FingerFrame(dt)
      <3>1. ~answered /\ running
        BY <1>4 DEF Frame
      <3>2. contact' = IF contact = 0 THEN 1 ELSE AtMost(contact + dt, TurnTimeout + 1)
        BY <2>4 DEF FingerFrame
      <3>3. CASE WaitForLift(dt)
        BY <1>0, <3>3 DEF Used, Served, WaitForLift, enrollVars, PollsOn, loopVars
      <3>4. CASE TurnGoesOn(dt)
        BY <1>0, <3>4 DEF Used, Served, TurnGoesOn, enrollVars, PollsOn, loopVars
      <3>5. CASE TurnTimesOut(dt)
        <4>1. action = "verify" /\ verify_probes > 0
          BY <1>0, <2>4, <3>5 DEF Used, Served, TurnTimesOut, enrollVars, PollsOn, loopVars
        <4> QED BY <2>4, <3>1, <3>2, <4>1
      <3>6. CASE Probe(dt) \/ AcceptCapture(dt) \/ RejectRepeat(dt) \/ AcceptStage(dt)
        <4>1. Qualifies(dt)
          BY <3>6 DEF Probe, AcceptCapture, RejectRepeat, AcceptStage, Accept
        <4> QED BY <2>4, <3>1, <3>2, <4>1
      <3> QED BY <2>4, <3>3, <3>4, <3>5, <3>6 DEF FingerFrame
    <2> QED BY <1>4, <2>1, <2>2, <2>3, <2>4 DEF Frame
  <1> QED BY <1>1, <1>2, <1>3, <1>4 DEF Next

(* A finger resting on the sensor is never captured twice: what uses a frame   *)
(* has seen a lift since the last use, by capture_armed.                      *)
THEOREM UsedNeedsLiftHolds == Spec => UsedNeedsLift
  <1>1. IInv /\ [Next]_vars => [Used => lifted]_vars
    <2> SUFFICES ASSUME IInv, Next, Used PROVE lifted
      OBVIOUS
    <2>1. capture_armed
      <3>1. CASE action = "verify" /\ verify_probes > 0
        BY <3>1, UsingFrame DEF IInv, ProbeInv
      <3>2. CASE ~(action = "verify" /\ verify_probes > 0)
        <4>1. PICK dt \in 1..GapMax : Qualifies(dt)
          BY <3>2, UsingFrame, Zenon
        <4> QED BY <4>1 DEF Qualifies
      <3> QED BY <3>1, <3>2
    <2> QED BY <2>1 DEF IInv, TurnInv
  <1> QED BY <1>1, TurnInductive, PTL DEF Spec, UsedNeedsLift

(* No frame is used before the finger has been down for the settle window.    *)
THEOREM UsedIsSettledHolds == Spec => UsedIsSettled
  <1>1. IInv /\ [Next]_vars => [Used => contact' > Settle]_vars
    <2> SUFFICES ASSUME IInv, Next, Used PROVE contact' > Settle
      OBVIOUS
    <2>1. PICK dt \in 1..GapMax :
            /\ contact' = IF contact = 0 THEN 1 ELSE AtMost(contact + dt, TurnTimeout + 1)
            /\ Qualifies(dt) \/ (action = "verify" /\ verify_probes > 0)
      BY UsingFrame
    <2>2. /\ contact' \in 1..TurnTimeout + 1 /\ contact' >= contact /\ contact \in Nat
          /\ Elapsed(dt) \in Nat /\ (Elapsed(dt) <= TurnTimeout => contact' > Elapsed(dt))
      BY <2>1, ContactOutlastsTurn, Parts DEF Types, ClockTypes
    <2>3. CASE Qualifies(dt)
      BY <2>2, <2>3 DEF Qualifies
    <2>4. CASE action = "verify" /\ verify_probes > 0
      BY <2>2, <2>4, UsingFrame DEF IInv, ProbeInv
    <2> QED BY <2>1, <2>3, <2>4
  <1> QED BY <1>1, TurnInductive, PTL DEF Spec, UsedIsSettled

(* An enrollment is completed by a frame only with every stage filled.         *)
THEOREM EnrollCompletesFullHolds == Spec => EnrollCompletesFull
  <1>1. IInv /\ [Next]_vars
        => [action = "enroll" /\ Served => enroll_stage' = EnrollFrames]_vars
    <2> SUFFICES ASSUME IInv, Next, action = "enroll", Served
                 PROVE  enroll_stage' = EnrollFrames
      OBVIOUS
    <2>1. enroll_stage \in Nat
      BY Parts DEF Types, CountTypes
    <2>2. PICK dt \in 1..GapMax : Frame(dt)
      BY DEF Next, Served, Request, StartTimer, Stop, Return, LoopOver, StartLoop,
             LoopStands, loopVars
    <2>3. ~stop /\ ~answered /\ draining' /\ ~draining
      BY <2>2 DEF Served, Frame
    <2>4. AcceptStage(dt) /\ Done
      BY <2>2, <2>3
         DEF Frame, FrameAfterStop, WarmupFrame, EmptyFrame, FingerFrame, WaitForLift,
             TurnTimesOut, TurnGoesOn, Probe, AcceptCapture, RejectRepeat, AcceptStage,
             PollsOn, loopVars
    <2>5. enroll_stage' = enroll_stage + 1 /\ ~(enroll_stage' < EnrollFrames)
      BY <2>3, <2>4 DEF AcceptStage, PollsOn, loopVars
    <2>6. enroll_stage < EnrollFrames
      BY <2>3 DEF IInv, StageInBounds
    <2> QED BY <2>1, <2>5, <2>6
  <1> QED BY <1>1, TurnInductive, PTL DEF Spec, EnrollCompletesFull

(* The stuck-presence recovery: every frame that still shows a finger brings the *)
(* wait for its lift nearer to EGIS0575_PHANTOM_LIFT_TIMEOUT_MS, and nothing but *)
(* a frame moves the anchor it is measured from (waiting_for_lift_since).  The   *)
(* anchor is at most PhantomTimeout + 1 by TypeOK, so that no more frames than   *)
(* that are waited through, whatever stops, requests and returns come between.   *)
WaitAges ==
  [][waiting_for_lift /\ waiting_for_lift' /\ ~stop' =>
       IF parity' # parity THEN waiting_for_lift_since' > waiting_for_lift_since
       ELSE UNCHANGED waiting_for_lift_since]_vars

(* A loop that waits for a lift has its background: only a new loop warms up,    *)
(* and it waits for nothing.                                                   *)
WarmInv == waiting_for_lift => background_warmup_remaining = 0

LEMMA WarmKept ==
  ASSUME IInv, WarmInv, [Next]_vars
  PROVE  WarmInv'
  <1>1. ASSUME UNCHANGED <<background_warmup_remaining, waiting_for_lift>> PROVE WarmInv'
    BY <1>1 DEF WarmInv
  <1>2. ASSUME StartLoop PROVE WarmInv'
    BY <1>2 DEF StartLoop, WarmInv
  <1>3. ASSUME NEW a \in CaptureAction, Request(a) PROVE WarmInv'
    BY <1>1, <1>2, <1>3 DEF Request, LoopStands, liftVars
  <1>4. CASE StartTimer
    BY <1>1, <1>2, <1>4 DEF StartTimer, LoopStands, liftVars
  <1>5. CASE Stop \/ Return \/ (\E failed \in BOOLEAN : LoopOver(failed)) \/ UNCHANGED vars
    BY <1>1, <1>5 DEF Stop, Return, LoopOver, NoTurnChange, vars, liftVars
  <1>6. ASSUME NEW dt \in 1..GapMax, Frame(dt) PROVE WarmInv'
    <2>1. CASE FrameAfterStop
      BY <1>1, <2>1 DEF FrameAfterStop, NoTurnChange, liftVars
    <2>2. CASE WarmupFrame
      <3>1. ~waiting_for_lift /\ UNCHANGED waiting_for_lift
        BY <2>2, Parts DEF WarmupFrame, WarmInv, liftVars, Types, ClockTypes, CountTypes
      <3> QED BY <3>1 DEF WarmInv
    <2>3. CASE background_warmup_remaining = 0 /\ (EmptyFrame \/ FingerFrame(dt))
      <3>1. UNCHANGED background_warmup_remaining
        BY <2>3 DEF EmptyFrame, FingerFrame, WaitForLift, TurnTimesOut, TurnGoesOn, Probe,
               AcceptCapture, RejectRepeat, AcceptStage, Accept
      <3> QED BY <2>3, <3>1 DEF WarmInv
    <2> QED BY <1>6, <2>1, <2>2, <2>3 DEF Frame
  <1> QED BY <1>3, <1>4, <1>5, <1>6 DEF Next

LEMMA Warm == Spec => [](IInv /\ WarmInv)
  <1>1. Init => WarmInv
    BY DEF Init, WarmInv
  <1> QED BY <1>1, WarmKept, TurnInductive, PTL DEF Spec

(* The safety core of PresenceIsResolved, for any time-outs: save_img measures     *)
(* every wait for a lift from the same anchor.                                 *)
THEOREM WaitForLiftAges == Spec => WaitAges
  <1> DEFINE A == waiting_for_lift /\ waiting_for_lift' /\ ~stop' =>
                    IF parity' # parity THEN waiting_for_lift_since' > waiting_for_lift_since
                    ELSE UNCHANGED waiting_for_lift_since
  <1>1. IInv /\ WarmInv /\ [Next]_vars => [A]_vars
    <2> SUFFICES ASSUME IInv, WarmInv, Next, waiting_for_lift, waiting_for_lift', ~stop' PROVE A
      OBVIOUS
    <2>0. /\ waiting_for_lift_since \in Nat /\ parity \in {0, 1}
          /\ \A dt \in 1..GapMax : dt \in Nat /\ dt > 0
      BY Parts, TurnAssumption DEF Types, ClockTypes
    <2>1. ASSUME UNCHANGED <<parity, waiting_for_lift_since>> PROVE A
      BY <2>1
    <2>2. ~StartLoop
      BY DEF StartLoop
    <2>3. ASSUME NEW a \in CaptureAction, Request(a) PROVE A
      BY <2>1, <2>2, <2>3 DEF Request, LoopStands, liftVars
    <2>4. CASE StartTimer
      BY <2>1, <2>2, <2>4 DEF StartTimer, LoopStands, liftVars
    <2>5. CASE Stop \/ Return \/ \E failed \in BOOLEAN : LoopOver(failed)
      BY <2>1, <2>5 DEF Stop, Return, LoopOver, NoTurnChange, liftVars
    <2>6. ASSUME NEW dt \in 1..GapMax, Frame(dt) PROVE A
      <3>1. parity' # parity
        BY <2>0, <2>6 DEF Frame
      <3>2. background_warmup_remaining = 0 /\ ~FrameAfterStop
        BY DEF WarmInv, FrameAfterStop
      <3>3. ~EmptyFrame
        BY DEF EmptyFrame, FinalizeVerify, Done
      <3>4. WaitForLift(dt)
        BY <2>6, <3>2, <3>3 DEF Frame, WarmupFrame, FingerFrame
      <3>5. waiting_for_lift_since' = LiftAge(dt) + 1
        BY <3>4 DEF WaitForLift
      <3>6. LiftAge(dt) + 1 > waiting_for_lift_since
        BY <2>0 DEF LiftAge
      <3> QED BY <3>1, <3>5, <3>6
    <2> QED BY <2>3, <2>4, <2>5, <2>6 DEF Next
  <1> QED BY <1>1, Warm, PTL DEF Spec, WaitAges
=============================================================================
