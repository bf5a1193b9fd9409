----------------------------- MODULE CaptureLoop -----------------------------
(* What the rest of the egis0575 driver relies on from its capture loop: where *)
(* the loop can go, and that a loop told to stop only winds down.  The session *)
(* (Egis0575Session) and the transport (Egis0575Capture) both implement it.   *)

VARIABLES
  stop,                        \* self->stop
  phase                        \* "off", or what the loop waits for

Phase == {"off", "cal", "frame", "shutdown", "to_cal", "to_init", "to_start"}

(* Where a loop goes next: from the calibration chain to the frame poll, from  *)
(* a poll to the next one, to a restart or to the shutdown chain, and out.    *)
Going == [off      |-> {"cal", "to_start"},
          cal      |-> {"cal", "frame", "off"},
          frame    |-> {"frame", "to_init", "to_cal", "shutdown", "off"},
          to_cal   |-> {"cal", "to_start", "off"},
          to_init  |-> {"frame", "to_start", "off"},
          to_start |-> {"frame", "off"},
          shutdown |-> {"shutdown", "off"}]

(* A stopped loop begins nothing new: no poll, no delayed restart.  Where the  *)
(* loop stops itself, it goes to the shutdown chain in the same step.          *)
Draining == [off      |-> {},
             cal      |-> {"cal", "off"},
             frame    |-> {"frame", "shutdown", "off"},
             to_cal   |-> {"cal", "to_start", "off"},
             to_init  |-> {"to_start", "off"},
             to_start |-> {"off"},
             shutdown |-> {"shutdown", "off"}]

Init == stop = FALSE /\ phase = "off"

(* A new action resets the stop of the loop it starts, and only that.          *)
Start ==
  /\ phase = "off"
  /\ stop' = FALSE
  /\ phase' \in Going["off"]

Step ==
  /\ phase # "off"
  /\ phase' \in IF stop THEN Draining[phase] ELSE Going[phase]
  /\ stop' <=> (stop \/ phase' = "shutdown")

Stop ==
  /\ stop' = TRUE
  /\ phase' = phase

Next == Start \/ Step \/ Stop

Spec == Init /\ [][Next]_<<stop, phase>>
=============================================================================
