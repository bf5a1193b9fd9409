----------------------------- MODULE MCCapture -----------------------------
(* Egis0575Capture with small retry bounds, and the statements of the source   *)
(* that the driver does not keep.                                            *)
EXTENDS Egis0575Capture

(* "A broken read leaves a long run of identical trailing bytes; discard the   *)
(* block": what SM_CAL_WRITE uploads was read from the sensor and checked.    *)
UploadIsChecked == running /\ sm = SM_CAL_WRITE => calibration = "good"

(* "The shutdown sequence must be sent when capture ends": a loop that ends    *)
(* without an error leaves no armed sensor behind.                            *)
CleanEndShutsDown == ended = "clean" => ~armed

(* "A sensor that never produces a frame is wedged and must fail cleanly": a   *)
(* calibrated loop reads a frame or ends.                                     *)
FramelessLoopEnds ==
  ~cal_skip => (running ~> (~running \/ frame_reads_this_claim > 0))
=============================================================================
