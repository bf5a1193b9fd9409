------------------------ MODULE FpImageDevice_proofs ------------------------
(* Theorems of the image-device layer, for every number of enrollment stages,  *)
(* and of elan.c under it, for every bound on its calibration and its frames.  *)
(* The properties of the layer are not inductive: that an answer finds the      *)
(* device quiet needs to know who may be active, and that a success is whole    *)
(* needs to know what the action has already achieved whenever its deactivation *)
(* can begin.  That elan.c is a driver as the layer assumes one needs to know   *)
(* which machine runs in which state of the layer, and who completes a         *)
(* deactivation.                                                              *)
EXTENDS Elan, TLAPS

(* Only a running capture has an active device or a scan, and an activation     *)
(* begins without a scan.                                                      *)
QuietInv ==
  /\ current_action = "none" => idle_return = <<>>
  /\ current_action \notin Captures => ~active /\ ~minutiae_scan_active
  /\ state = "activating" => ~minutiae_scan_active

(* Unanswered, and nothing speaks against success.                            *)
Clean == Unanswered /\ action_error = "none" /\ ~Cancelled

(* What an action has achieved when its finger lifts or the device deactivates: *)
(* an enrollment by then, the other actions when their scan is over.           *)
AccountInv ==
  /\ current_action = "identify" /\ Clean /\ ~minutiae_scan_active
       /\ state \in {"await_off", "deactivating"} => result_reported
  /\ current_action = "capture" /\ Clean /\ ~minutiae_scan_active
       /\ state \in {"await_off", "deactivating"} => capture_image
  /\ current_action = "enroll" /\ Clean /\ state = "deactivating"
       => enroll_stage = Stages

(* An enrollment with all its stages only winds down.                          *)
StageInv ==
  current_action = "enroll" /\ Unanswered /\ enroll_stage = Stages
    => state = "deactivating" /\ ~minutiae_scan_active

Inv ==
  /\ TypeOK /\ QuietInv /\ AccountInv /\ StageInv
  /\ AnsweredIsQuiet /\ NoScanWhileCapturing /\ SuccessIsWhole

USE DEF vars, imageVars, deviceVars, Action, Captures, State, Failure

----------------------------------------------------------------------------
(* What the helpers do to the answer.                                          *)

(* The first answer of an action is the only one in the queue.                 *)
LEMMA AnswerIsFirst ==
  ASSUME Unanswered, NEW result, Answer(result)
  PROVE  /\ idle_return' = <<result>> /\ Len(idle_return') = 1
         /\ UNCHANGED <<current_action, is_open, cancel>>
PROOF BY DEF Unanswered, Answer

LEMMA StageZero == 0 \in 0..Stages
PROOF BY ImageAssumption

(* The kept error is a failure, and no failure is forgotten.                   *)
LEMMA KeptFailure ==
  ASSUME TypeOK, NEW error \in Failure
  PROVE  /\ Kept(error) \in Failure
         /\ Kept(error) = "none" <=> error = "none" /\ action_error = "none"
PROOF BY DEF Kept, TypeOK

(* An action is completed at once or, its error kept, later.                    *)
LEMMA CompletesOrWaits ==
  ASSUME TypeOK, Unanswered, NEW error \in Failure, NEW image \in BOOLEAN,
         MaybeComplete(error, image)
  PROVE  /\ UNCHANGED <<current_action, is_open, cancel>>
         /\ action_error' \in Failure /\ capture_image' \in BOOLEAN
         /\ \/ /\ active' \/ minutiae_scan_active'
               /\ action_error' = "none" <=> error = "none" /\ action_error = "none"
               /\ capture_image' = image
               /\ idle_return' = idle_return
            \/ /\ ~active' /\ ~minutiae_scan_active'
               /\ \E result \in {"ok", "retry", "cancelled", "error", "broken"} :
                    /\ idle_return' = <<result>>
                    /\ result \in {"ok", "broken"} =>
                         error = "none" /\ action_error = "none" /\ ~Cancelled
                    /\ result = "broken" =>
                         \/ current_action = "identify" /\ ~result_reported'
                         \/ current_action = "capture" /\ ~image
PROOF
<1>1. /\ Kept(error) \in Failure
      /\ Kept(error) = "none" <=> error = "none" /\ action_error = "none"
  BY KeptFailure
<1>2. CASE active' \/ minutiae_scan_active'
  BY <1>1, <1>2 DEF MaybeComplete, NoAnswer
<1>3. CASE ~(active' \/ minutiae_scan_active')
  <2> DEFINE result == Outcome(Kept(error), image)
  <2>1. /\ result \in {"ok", "retry", "cancelled", "error", "broken"}
        /\ result \in {"ok", "broken"} => Kept(error) = "none" /\ ~Cancelled
        /\ result = "broken" => \/ current_action = "identify" /\ ~result_reported'
                                \/ current_action = "capture" /\ ~image
    BY <1>1 DEF Outcome
  <2>2. action_error' = "none" /\ capture_image' = FALSE /\ Answer(result)
    BY <1>3 DEF MaybeComplete
  <2>3. idle_return' = <<result>> /\ UNCHANGED <<current_action, is_open, cancel>>
    BY <2>2, AnswerIsFirst
  <2> QED BY <1>1, <1>3, <2>1, <2>2, <2>3
<1> QED BY <1>2, <1>3

----------------------------------------------------------------------------
(* Every step keeps the invariant.                                             *)

LEMMA OpenKeeps ==
  ASSUME Inv, Open
  PROVE  Inv'
PROOF BY ImageAssumption DEF Inv, TypeOK, QuietInv, AccountInv, StageInv, AnsweredIsQuiet,
  NoScanWhileCapturing, SuccessIsWhole, Clean, Unanswered, Cancelled, Open, Accept

LEMMA CloseKeeps ==
  ASSUME Inv, Close
  PROVE  Inv'
PROOF BY ImageAssumption DEF Inv, TypeOK, QuietInv, AccountInv, StageInv, AnsweredIsQuiet,
  NoScanWhileCapturing, SuccessIsWhole, Clean, Unanswered, Cancelled, Close, Accept

LEMMA StartKeeps ==
  ASSUME Inv, NEW action \in Captures, Start(action)
  PROVE  Inv'
PROOF
<1>1. /\ current_action = "none" /\ idle_return = <<>> /\ TypeOK
      /\ ~active /\ ~minutiae_scan_active
      /\ current_action' = action /\ cancel' = "no" /\ result_reported' = FALSE
  BY DEF Inv, QuietInv, AnsweredIsQuiet, Unanswered, Start, Accept
<1>2. CASE /\ enroll_stage' = 0 /\ state' = "activating"
           /\ UNCHANGED <<active, finger_present, minutiae_scan_active, action_error,
                          capture_image, is_open, idle_return>>
  <2>1. TypeOK'
    BY <1>1, <1>2, StageZero DEF TypeOK
  <2> QED BY <1>1, <1>2, <2>1, ImageAssumption DEF Inv, QuietInv, AccountInv, StageInv,
    AnsweredIsQuiet, NoScanWhileCapturing, SuccessIsWhole, Clean, Unanswered
<1>3. CASE /\ action = "capture" /\ idle_return' = <<"error">>
           /\ UNCHANGED <<imageVars, is_open>>
  <2>1. /\ idle_return' \in Seq({"ok", "retry", "cancelled", "error", "broken"})
        /\ Len(idle_return') = 1 /\ idle_return' # <<>>
    BY <1>3
  <2>2. TypeOK'
    BY <1>1, <1>3, <2>1 DEF TypeOK
  <2> QED BY <1>1, <1>3, <2>1, <2>2 DEF Inv, QuietInv, AccountInv, StageInv,
    AnsweredIsQuiet, NoScanWhileCapturing, SuccessIsWhole, Clean, Unanswered
<1> QED BY <1>2, <1>3 DEF Start

LEMMA CancelKeeps ==
  ASSUME Inv, Cancel
  PROVE  Inv'
PROOF BY ImageAssumption DEF Inv, TypeOK, QuietInv, AccountInv, StageInv, AnsweredIsQuiet,
  NoScanWhileCapturing, SuccessIsWhole, Clean, Unanswered, Cancelled, Cancel

LEMMA CancelActionKeeps ==
  ASSUME Inv, CancelAction
  PROVE  Inv'
PROOF BY ImageAssumption DEF Inv, TypeOK, QuietInv, AccountInv, StageInv, AnsweredIsQuiet,
  NoScanWhileCapturing, SuccessIsWhole, Clean, Unanswered, Cancelled, CancelAction, Deactivated

LEMMA TaskReturnKeeps ==
  ASSUME Inv, TaskReturn
  PROVE  Inv'
PROOF
<1>1. idle_return' = <<>> /\ Len(idle_return') = 0
  <2>1. Len(idle_return) <= 1 /\ idle_return # <<>> /\ idle_return' = Tail(idle_return)
        /\ idle_return \in Seq({"ok", "retry", "cancelled", "error", "broken"})
    BY DEF Inv, TypeOK, AnsweredIsQuiet, TaskReturn
  <2>2. Len(idle_return) \in Nat /\ Len(idle_return) # 0
    BY <2>1
  <2>3. Len(idle_return) = 1
    BY <2>1, <2>2
  <2> QED BY <2>1, <2>3
<1>2. /\ current_action' = "none" /\ cancel' = "no" /\ is_open' \in BOOLEAN
      /\ UNCHANGED <<imageVars, result_reported>>
  BY DEF Inv, TypeOK, TaskReturn
<1>3. ~active /\ ~minutiae_scan_active
  BY DEF Inv, AnsweredIsQuiet, Unanswered, TaskReturn
<1> QED BY <1>1, <1>2, <1>3 DEF Inv, TypeOK, QuietInv, AccountInv, StageInv, AnsweredIsQuiet,
  NoScanWhileCapturing, SuccessIsWhole, Clean, Unanswered

LEMMA OpenCompleteKeeps ==
  ASSUME Inv, OpenComplete
  PROVE  Inv'
PROOF BY ImageAssumption DEF Inv, TypeOK, QuietInv, AccountInv, StageInv, AnsweredIsQuiet,
  NoScanWhileCapturing, SuccessIsWhole, Clean, Unanswered, Cancelled, OpenComplete, Answer

LEMMA CloseCompleteKeeps ==
  ASSUME Inv, CloseComplete
  PROVE  Inv'
PROOF BY ImageAssumption DEF Inv, TypeOK, QuietInv, AccountInv, StageInv, AnsweredIsQuiet,
  NoScanWhileCapturing, SuccessIsWhole, Clean, Unanswered, Cancelled, CloseComplete, Answer

LEMMA ActivationDoneKeeps ==
  ASSUME Inv, ActivationDone
  PROVE  Inv'
PROOF
<1>1. PICK error \in {"none", "error", "cancelled"} : Unanswered /\ ActivateComplete(error)
  BY DEF ActivationDone
<1>2. CASE error = "none"
  BY <1>1, <1>2 DEF Inv, TypeOK, QuietInv, AccountInv, StageInv, AnsweredIsQuiet,
     NoScanWhileCapturing, SuccessIsWhole, Clean, Unanswered, Cancelled, ActivateComplete
<1>3. CASE error # "none"
  <2>1. Answer(error) /\ UNCHANGED <<imageVars, result_reported>>
        /\ ~active /\ state = "activating" /\ current_action \in Captures
    BY <1>1, <1>3 DEF ActivateComplete
  <2>2. idle_return' = <<error>> /\ Len(idle_return') = 1
        /\ UNCHANGED <<current_action, is_open, cancel>>
    BY <1>1, <2>1, AnswerIsFirst
  <2> QED BY <1>1, <1>3, <2>1, <2>2 DEF Inv, TypeOK, QuietInv, AccountInv, StageInv,
     AnsweredIsQuiet, NoScanWhileCapturing, SuccessIsWhole, Clean, Unanswered, Cancelled
<1> QED BY <1>1, <1>2, <1>3

LEMMA FingerOnKeeps ==
  ASSUME Inv, Unanswered, current_action \in Captures, FingerOn
  PROVE  Inv'
PROOF BY ImageAssumption DEF Inv, TypeOK, QuietInv, AccountInv, StageInv, AnsweredIsQuiet,
  NoScanWhileCapturing, SuccessIsWhole, Clean, Unanswered, Cancelled, FingerOn

LEMMA ImageCapturedKeeps ==
  ASSUME Inv, Unanswered, current_action \in Captures, ImageCaptured
  PROVE  Inv'
PROOF BY ImageAssumption DEF Inv, TypeOK, QuietInv, AccountInv, StageInv, AnsweredIsQuiet,
  NoScanWhileCapturing, SuccessIsWhole, Clean, Unanswered, Cancelled, ImageCaptured

LEMMA FingerOffKeeps ==
  ASSUME Inv, Unanswered, current_action \in Captures, FingerOff
  PROVE  Inv'
PROOF
<1>1. /\ UNCHANGED <<active, minutiae_scan_active, enroll_stage, action_error, capture_image>>
      /\ UNCHANGED deviceVars /\ finger_present' = FALSE
      /\ TypeOK /\ AnsweredIsQuiet /\ SuccessIsWhole
  BY DEF Inv, FingerOff
<1>2. /\ state # "await_off" => state' = state
      /\ state = "await_off" /\ current_action = "enroll"
           => state' \in {"idle", "await_on"} /\ (minutiae_scan_active => state' = "idle")
      /\ state = "await_off" /\ current_action # "enroll" => state' \in {"idle", "deactivating"}
  BY DEF FingerOff, NextFinger, Deactivated
<1>3. TypeOK'
  BY <1>1, <1>2 DEF TypeOK
<1>4. AnsweredIsQuiet' /\ SuccessIsWhole'
  BY <1>1 DEF AnsweredIsQuiet, SuccessIsWhole, Unanswered
<1>5. QuietInv' /\ NoScanWhileCapturing'
  BY <1>1, <1>2 DEF Inv, QuietInv, NoScanWhileCapturing
<1>6. AccountInv'
  BY <1>1, <1>2 DEF Inv, AccountInv, Clean, Cancelled, Unanswered
<1>7. StageInv'
  BY <1>1, <1>2 DEF Inv, StageInv, Unanswered
<1> QED BY <1>3, <1>4, <1>5, <1>6, <1>7 DEF Inv

(* A step that completes or waits keeps the invariant if, of all that it does,  *)
(* the scan is not begun, a finger is not awaited under a scan, and an action    *)
(* that nothing speaks against has achieved what it is asked for.             *)
LEMMA CompletionKeeps ==
  ASSUME Inv, Unanswered, current_action \in Captures,
         NEW error \in Failure, NEW image \in BOOLEAN, MaybeComplete(error, image),
         /\ state' \in State
         /\ active' \in BOOLEAN /\ finger_present' \in BOOLEAN
         /\ minutiae_scan_active' \in BOOLEAN /\ result_reported' \in BOOLEAN
         /\ enroll_stage' \in 0..Stages,
         state' = "activating" => ~minutiae_scan_active',
         minutiae_scan_active' => state' \notin {"await_on", "capture"},
         error = "none" /\ action_error = "none" /\ ~Cancelled
           => /\ current_action = "identify" /\ ~minutiae_scan_active' => result_reported'
              /\ current_action = "capture" /\ ~minutiae_scan_active' => image
              /\ current_action = "enroll" => enroll_stage' = Stages,
         current_action = "enroll" /\ enroll_stage' = Stages
           => ~minutiae_scan_active' /\ (active' => state' = "deactivating")
  PROVE  Inv'
PROOF
<1>1. TypeOK
  BY DEF Inv
<1>2. /\ UNCHANGED <<current_action, is_open, cancel>>
      /\ action_error' \in Failure /\ capture_image' \in BOOLEAN
  BY <1>1, CompletesOrWaits
<1>3. CASE active' \/ minutiae_scan_active'
  <2>1. /\ action_error' = "none" <=> error = "none" /\ action_error = "none"
        /\ capture_image' = image
        /\ idle_return' = idle_return
    BY <1>1, <1>3, CompletesOrWaits
  <2>2. TypeOK'
    BY <1>1, <1>2, <2>1 DEF TypeOK
  <2>3. Unanswered' /\ AnsweredIsQuiet' /\ SuccessIsWhole'
    BY <1>2, <2>1 DEF Inv, AnsweredIsQuiet, SuccessIsWhole, Unanswered
  <2>4. QuietInv' /\ NoScanWhileCapturing'
    BY <1>2, <2>1 DEF Inv, QuietInv, NoScanWhileCapturing
  <2>5. AccountInv'
    BY <1>2, <2>1 DEF AccountInv, Clean, Cancelled
  <2>6. StageInv'
    BY <1>2, <1>3 DEF StageInv
  <2> QED BY <2>2, <2>3, <2>4, <2>5, <2>6 DEF Inv
<1>4. CASE ~active' /\ ~minutiae_scan_active'
  <2>1. PICK result \in {"ok", "retry", "cancelled", "error", "broken"} :
          /\ idle_return' = <<result>>
          /\ result \in {"ok", "broken"} =>
               error = "none" /\ action_error = "none" /\ ~Cancelled
          /\ result = "broken" =>
               \/ current_action = "identify" /\ ~result_reported'
               \/ current_action = "capture" /\ ~image
    BY <1>1, <1>4, CompletesOrWaits
  <2>2. result # "broken"
    BY <1>4, <2>1
  <2>3. result = "ok" /\ current_action = "enroll" => enroll_stage' = Stages
    BY <1>4, <2>1
  <2>4. /\ idle_return' \in Seq({"ok", "retry", "cancelled", "error", "broken"})
        /\ Len(idle_return') = 1 /\ idle_return' # <<>> /\ idle_return' # <<"broken">>
        /\ idle_return' = <<"ok">> => result = "ok"
    BY <2>1, <2>2
  <2>5. TypeOK'
    BY <1>2, <1>1, <2>4 DEF TypeOK
  <2> QED BY <1>2, <1>4, <2>3, <2>4, <2>5 DEF Inv, QuietInv, AccountInv, StageInv,
    AnsweredIsQuiet, NoScanWhileCapturing, SuccessIsWhole, Clean, Unanswered
<1> QED BY <1>2, <1>3, <1>4 DEF Inv, TypeOK

LEMMA DeactivateCompleteKeeps ==
  ASSUME Inv, NEW error \in {"none", "error"}, DeactivateComplete(error)
  PROVE  Inv'
PROOF
<1>1. Unanswered /\ current_action \in Captures /\ active /\ state = "deactivating"
  BY DEF Inv, AnsweredIsQuiet, QuietInv, DeactivateComplete
<1>2. /\ active' = FALSE /\ finger_present' = FALSE /\ state' = "inactive"
      /\ UNCHANGED <<minutiae_scan_active, enroll_stage, result_reported>>
      /\ MaybeComplete(error, capture_image)
  BY DEF DeactivateComplete
<1>3. TypeOK /\ error \in Failure /\ capture_image \in BOOLEAN
  BY DEF Inv, TypeOK
<1>4. current_action = "enroll" /\ enroll_stage = Stages => ~minutiae_scan_active
  BY <1>1 DEF Inv, StageInv
<1>5. action_error = "none" /\ ~Cancelled
        => /\ current_action = "identify" /\ ~minutiae_scan_active => result_reported
           /\ current_action = "capture" /\ ~minutiae_scan_active => capture_image
           /\ current_action = "enroll" => enroll_stage = Stages
  BY <1>1 DEF Inv, AccountInv, Clean
<1>6. active' \in BOOLEAN /\ finger_present' \in BOOLEAN /\ minutiae_scan_active' \in BOOLEAN
  BY <1>2, <1>3 DEF TypeOK
<1>7. result_reported' \in BOOLEAN /\ state' \in State /\ enroll_stage' \in 0..Stages
  BY <1>2, <1>3 DEF TypeOK
<1> QED BY <1>1, <1>2, <1>3, <1>4, <1>5, <1>6, <1>7, CompletionKeeps

LEMMA RetryScanKeeps ==
  ASSUME Inv, Unanswered, RetryScan,
         current_action = "enroll" => state \in {"await_on", "capture"}
  PROVE  Inv'
PROOF
<1>1. CASE current_action = "enroll"
  BY <1>1 DEF Inv, TypeOK, QuietInv, AccountInv, StageInv, AnsweredIsQuiet,
     NoScanWhileCapturing, SuccessIsWhole, Clean, Unanswered, Cancelled, RetryScan
<1>2. CASE current_action # "enroll"
  <2> DEFINE error == IF current_action = "identify" THEN "none" ELSE "retry"
  <2>1. /\ current_action \in Captures /\ state' = Deactivated(state)
        /\ result_reported' = (result_reported \/ current_action = "identify")
        /\ UNCHANGED <<active, finger_present, minutiae_scan_active, enroll_stage>>
        /\ MaybeComplete(error, capture_image)
    BY <1>2 DEF RetryScan
  <2>2. TypeOK /\ error \in Failure /\ capture_image \in BOOLEAN
    BY DEF Inv, TypeOK
  <2> QED BY <1>2, <2>1, <2>2, CompletionKeeps
     DEF Inv, TypeOK, QuietInv, AccountInv, StageInv, NoScanWhileCapturing, Clean, Cancelled, Deactivated
<1> QED BY <1>1, <1>2

LEMMA SessionErrorKeeps ==
  ASSUME Inv, Unanswered, SessionError("error")
  PROVE  Inv'
PROOF
<1>1. /\ active /\ state' = Deactivated(state)
      /\ UNCHANGED <<active, finger_present, minutiae_scan_active, enroll_stage, result_reported>>
      /\ MaybeComplete("error", capture_image)
  BY DEF SessionError
<1>2. TypeOK /\ "error" \in Failure /\ capture_image \in BOOLEAN /\ current_action \in Captures
  BY <1>1 DEF Inv, TypeOK, QuietInv
<1> QED BY <1>1, <1>2, CompletionKeeps
     DEF Inv, TypeOK, QuietInv, AccountInv, StageInv, NoScanWhileCapturing, Clean, Cancelled, Deactivated

(* A scan that ends finds its action unanswered.                               *)
LEMMA ScanHasAction ==
  ASSUME Inv, ScanEnds
  PROVE  /\ Unanswered /\ current_action \in Captures /\ TypeOK
         /\ minutiae_scan_active /\ minutiae_scan_active' = FALSE
         /\ UNCHANGED <<active, finger_present>>
PROOF BY DEF Inv, AnsweredIsQuiet, QuietInv, ScanEnds

LEMMA ScanCancelledKeeps ==
  ASSUME Inv, ScanCancelled
  PROVE  Inv'
PROOF
<1>1. /\ ScanEnds /\ Cancelled /\ state' = Deactivated(state)
      /\ UNCHANGED <<enroll_stage, result_reported>>
      /\ MaybeComplete("cancelled", capture_image)
  BY DEF ScanCancelled
<1>2. "cancelled" \in Failure /\ capture_image \in BOOLEAN
  BY DEF Inv, TypeOK
<1> QED BY <1>1, <1>2, ScanHasAction, CompletionKeeps
     DEF Inv, TypeOK, QuietInv, AccountInv, StageInv, NoScanWhileCapturing, Clean, Cancelled, Deactivated

LEMMA ScanOfCaptureKeeps ==
  ASSUME Inv, ScanOfCapture
  PROVE  Inv'
PROOF
<1>1. PICK error \in {"none", "retry"} : MaybeComplete(error, TRUE)
  BY DEF ScanOfCapture
<1>2. /\ ScanEnds /\ current_action = "capture"
      /\ UNCHANGED <<state, enroll_stage, result_reported>>
  BY DEF ScanOfCapture
<1>3. error \in Failure /\ TRUE \in BOOLEAN
  BY <1>1
<1> QED BY <1>1, <1>2, <1>3, ScanHasAction, CompletionKeeps
     DEF Inv, TypeOK, QuietInv, AccountInv, StageInv, NoScanWhileCapturing, Clean, Cancelled

LEMMA ScanUnusableKeeps ==
  ASSUME Inv, ScanUnusable
  PROVE  Inv'
PROOF
<1>1. /\ ScanEnds /\ state' = Deactivated(state)
      /\ UNCHANGED <<enroll_stage, result_reported>>
      /\ MaybeComplete("error", capture_image)
  BY DEF ScanUnusable
<1>2. "error" \in Failure /\ capture_image \in BOOLEAN
  BY DEF Inv, TypeOK
<1> QED BY <1>1, <1>2, ScanHasAction, CompletionKeeps
     DEF Inv, TypeOK, QuietInv, AccountInv, StageInv, NoScanWhileCapturing, Clean, Cancelled, Deactivated

LEMMA ScanOfEnrollKeeps ==
  ASSUME Inv, ScanOfEnroll
  PROVE  Inv'
PROOF
<1>1. /\ ScanEnds /\ current_action = "enroll" /\ UNCHANGED result_reported
      /\ enroll_stage' \in {enroll_stage, enroll_stage + 1}
  BY DEF ScanOfEnroll
<1>2. enroll_stage \in 0..Stages /\ enroll_stage # Stages /\ capture_image \in BOOLEAN
  BY <1>1, ScanHasAction DEF Inv, TypeOK, StageInv
<1>3. enroll_stage' \in 0..Stages
  BY <1>1, <1>2, ImageAssumption
<1>4. CASE enroll_stage' = Stages
  <2>1. state' = Deactivated(state) /\ MaybeComplete("none", capture_image)
    BY <1>4 DEF ScanOfEnroll
  <2>2. /\ state' \in State /\ state' # "activating" /\ "none" \in Failure
        /\ active' => state' = "deactivating"
    <3>1. active' = active /\ state \in State /\ state # "activating"
      BY <1>1, ScanHasAction DEF Inv, TypeOK, QuietInv
    <3> QED BY <2>1, <3>1 DEF Deactivated
  <2>3. active' \in BOOLEAN /\ finger_present' \in BOOLEAN /\ minutiae_scan_active' = FALSE
    BY <1>1, ScanHasAction DEF TypeOK
  <2>4. result_reported' \in BOOLEAN
    BY <1>1, ScanHasAction DEF TypeOK
  <2> QED BY <1>1, <1>2, <1>3, <1>4, <2>1, <2>2, <2>3, <2>4, ScanHasAction, CompletionKeeps
<1>5. CASE enroll_stage' # Stages
  <2>1. /\ state' = NextFinger(state, finger_present, FALSE) /\ NoAnswer
        /\ UNCHANGED <<action_error, capture_image>>
    BY <1>5 DEF ScanOfEnroll
  <2>2. /\ state' \in State /\ state' # "activating"
        /\ minutiae_scan_active' = FALSE /\ UNCHANGED <<active, finger_present, idle_return>>
        /\ UNCHANGED <<current_action, is_open, cancel>> /\ TypeOK /\ Unanswered
        /\ state' = "deactivating" => state = "deactivating"
        /\ state' = "await_off" => state = "await_off"
    BY <1>1, <2>1, ScanHasAction DEF Inv, TypeOK, QuietInv, NextFinger, NoAnswer
  <2>3. TypeOK'
    BY <1>1, <1>3, <2>1, <2>2 DEF TypeOK
  <2> QED BY <1>1, <1>2, <1>3, <1>5, <2>1, <2>2, <2>3, ScanHasAction
     DEF Inv, TypeOK, QuietInv, AccountInv, StageInv, AnsweredIsQuiet,
     NoScanWhileCapturing, SuccessIsWhole, Clean, Unanswered, Cancelled, 
     NextFinger, NoAnswer
<1> QED BY <1>4, <1>5

LEMMA ScanOfIdentifyKeeps ==
  ASSUME Inv, ScanOfIdentify
  PROVE  Inv'
PROOF
<1>1. /\ ScanEnds /\ current_action = "identify" /\ UNCHANGED <<state, enroll_stage>>
      /\ capture_image \in BOOLEAN
  BY DEF Inv, TypeOK, ScanOfIdentify
<1>2. CASE result_reported' = TRUE /\ MaybeComplete("none", capture_image)
  BY <1>1, <1>2, ScanHasAction, CompletionKeeps
     DEF Inv, TypeOK, QuietInv, AccountInv, StageInv, NoScanWhileCapturing, Clean, Cancelled
<1>3. CASE UNCHANGED result_reported /\ MaybeComplete("error", capture_image)
  BY <1>1, <1>3, ScanHasAction, CompletionKeeps
     DEF Inv, TypeOK, QuietInv, AccountInv, StageInv, NoScanWhileCapturing, Clean, Cancelled
<1> QED BY <1>2, <1>3 DEF ScanOfIdentify

----------------------------------------------------------------------------
(* Theorems.                                                                  *)

LEMMA NextKeeps == Inv /\ [Next]_vars => Inv'
PROOF
<1> SUFFICES ASSUME Inv, [Next]_vars PROVE Inv'
  OBVIOUS
<1>1. CASE Client
  <2>1. ASSUME NEW action \in Captures, Start(action) PROVE Inv'
    BY <2>1, StartKeeps
  <2> QED BY <1>1, <2>1, OpenKeeps, CloseKeeps, CancelKeeps DEF Client
<1>2. CASE CancelAction
  BY <1>2, CancelActionKeeps
<1>3. CASE TaskReturn
  BY <1>3, TaskReturnKeeps
<1>4. CASE Driver
  <2>1. CASE DeactivationDone
    BY <2>1, DeactivateCompleteKeeps DEF DeactivationDone
  <2>2. CASE OpenComplete \/ CloseComplete \/ ActivationDone
    BY <2>2, OpenCompleteKeeps, CloseCompleteKeeps, ActivationDoneKeeps
  <2>3. CASE /\ Unanswered /\ current_action \in Captures
             /\ FingerOn \/ FingerOff \/ ImageCaptured \/ SessionError("error")
    BY <2>3, FingerOnKeeps, FingerOffKeeps, ImageCapturedKeeps, SessionErrorKeeps
  <2>4. CASE /\ Unanswered /\ RetryScan
             /\ state \in {"await_on", "capture"}
                  \cup (IF current_action = "enroll" THEN {} ELSE {"deactivating"})
    BY <2>4, RetryScanKeeps
  <2> QED BY <1>4, <2>1, <2>2, <2>3, <2>4 DEF Driver
<1>5. CASE MinutiaeDetected
  BY <1>5, ScanCancelledKeeps, ScanOfCaptureKeeps, ScanUnusableKeeps, ScanOfEnrollKeeps,
     ScanOfIdentifyKeeps DEF MinutiaeDetected
<1>6. CASE UNCHANGED vars
  BY <1>6 DEF Inv, TypeOK, QuietInv, AccountInv, StageInv, AnsweredIsQuiet,
     NoScanWhileCapturing, SuccessIsWhole, Clean, Unanswered, Cancelled
<1> QED BY <1>1, <1>2, <1>3, <1>4, <1>5, <1>6 DEF Next

LEMMA InitInv == Init => Inv
PROOF
<1> SUFFICES ASSUME Init PROVE Inv
  OBVIOUS
<1>1. idle_return \in Seq({"ok", "retry", "cancelled", "error", "broken"})
  BY DEF Init
<1>2. TypeOK
  BY <1>1, StageZero DEF Init, TypeOK
<1> QED BY <1>2 DEF Init, Inv, QuietInv, AccountInv, StageInv, AnsweredIsQuiet,
  NoScanWhileCapturing, SuccessIsWhole, Clean, Unanswered, Cancelled

(* The inductive invariant holds in every reachable state.                     *)
THEOREM Invariant == Spec => []Inv
PROOF BY InitInv, NextKeeps, PTL DEF Spec

(* Every variable keeps to its type, the stage counter of enrollments included. *)
THEOREM TypeCorrect == Spec => []TypeOK
PROOF
<1>1. Inv => TypeOK
  BY DEF Inv
<1> QED BY <1>1, Invariant, PTL

(* Whatever order driver, scan and cancel come in, an action is answered once    *)
(* and finds the device inactive and no scan running: what                      *)
(* fp_image_device_close and the next start assert.                            *)
THEOREM AnswersAreQuiet == Spec => []AnsweredIsQuiet
PROOF
<1>1. Inv => AnsweredIsQuiet
  BY DEF Inv
<1> QED BY <1>1, Invariant, PTL

(* No success is answered without its result, its image or all its stages.     *)
THEOREM SuccessesAreWhole == Spec => []SuccessIsWhole
PROOF
<1>1. Inv => SuccessIsWhole
  BY DEF Inv
<1> QED BY <1>1, Invariant, PTL

(* No image is awaited or captured under a scan of the last one, so             *)
(* minutiae_detected never overtakes a new capture.                            *)
THEOREM ScansAreAlone == Spec => []NoScanWhileCapturing
PROOF
<1>1. Inv => NoScanWhileCapturing
  BY DEF Inv
<1> QED BY <1>1, Invariant, PTL

(* A device that is told to deactivate is active, an inactive one is not.        *)
ActiveInv == (state = "deactivating" => active) /\ (state = "inactive" => ~active)

LEMMA ActiveKept == Inv /\ ActiveInv /\ [Next]_vars => ActiveInv'
PROOF
<1> SUFFICES ASSUME Inv, ActiveInv, [Next]_vars PROVE ActiveInv'
  OBVIOUS
<1> USE DEF ActiveInv
<1>1. ~active => \A s : Deactivated(s) = s
  BY DEF Deactivated
<1>2. active => \A s : Deactivated(s) = "deactivating"
  BY DEF Deactivated
<1>3. active \in BOOLEAN
  BY DEF Inv, TypeOK
<1>4. CASE Client
  <2>1. CASE Open \/ Close \/ Cancel
    BY <2>1 DEF Open, Close, Cancel
  <2>2. CASE \E action \in Captures : Start(action)
    <3>1. state' = "activating" \/ UNCHANGED imageVars
      BY <2>2 DEF Start
    <3>2. active' = active
      BY <2>2 DEF Start
    <3> QED BY <3>1, <3>2
  <2> QED BY <1>4, <2>1, <2>2 DEF Client
<1>5. CASE CancelAction \/ TaskReturn
  <2>1. active' = active /\ (state' = state \/ state' = Deactivated(state))
    BY <1>5 DEF CancelAction, TaskReturn
  <2> QED BY <1>1, <1>2, <1>3, <2>1
<1>6. CASE Driver
  <2>1. CASE OpenComplete \/ CloseComplete
    <3>1. ~active
      BY <2>1 DEF OpenComplete, CloseComplete, Inv, QuietInv
    <3> QED BY <2>1, <3>1 DEF OpenComplete, CloseComplete
  <2>2. CASE ActivationDone \/ DeactivationDone
    BY <2>2 DEF ActivationDone, ActivateComplete, DeactivationDone, DeactivateComplete
  <2>3. CASE FingerOn \/ ImageCaptured
    BY <2>3 DEF FingerOn, ImageCaptured
  <2>4. CASE FingerOff
    BY <1>1, <1>2, <1>3, <2>4 DEF FingerOff, NextFinger
  <2>5. CASE RetryScan
    BY <1>1, <1>2, <1>3, <2>5 DEF RetryScan
  <2>6. CASE SessionError("error")
    BY <1>2, <2>6 DEF SessionError
  <2> QED BY <1>6, <2>1, <2>2, <2>3, <2>4, <2>5, <2>6 DEF Driver
<1>7. CASE MinutiaeDetected
  <2>1. CASE ScanCancelled \/ ScanOfCapture \/ ScanUnusable \/ ScanOfIdentify
    <3>1. active' = active /\ (state' = state \/ state' = Deactivated(state))
      <4>1. CASE ScanCancelled \/ ScanUnusable
        BY <4>1 DEF ScanEnds, ScanCancelled, ScanUnusable
      <4>2. CASE ScanOfCapture \/ ScanOfIdentify
        BY <4>2 DEF ScanEnds, ScanOfCapture, ScanOfIdentify
      <4> QED BY <2>1, <4>1, <4>2
    <3> QED BY <1>1, <1>2, <1>3, <3>1
  <2>2. CASE ScanOfEnroll
    BY <1>1, <1>2, <1>3, <2>2 DEF ScanEnds, ScanOfEnroll, NextFinger
  <2> QED BY <1>7, <2>1, <2>2 DEF MinutiaeDetected
<1>8. CASE UNCHANGED vars
  BY <1>8
<1> QED BY <1>4, <1>5, <1>6, <1>7, <1>8 DEF Next

(* An action that winds down: its device is being deactivated, or is inactive     *)
(* already with the scan still to end.  Of enrollments those whose scan does not *)
(* await the next finger.                                                      *)
WindingDown ==
  /\ state = "deactivating" \/ (state = "inactive" /\ minutiae_scan_active)
  /\ current_action = "enroll" => ~minutiae_scan_active \/ Cancelled

(* What such an action waits for: the driver and the minutiae thread.           *)
Rest == (IF active THEN 1 ELSE 0) + (IF minutiae_scan_active THEN 1 ELSE 0)

(* It is answered, or it goes on winding down: whatever the driver, the client   *)
(* and the finger do, there is something it waits for, nothing else is added,    *)
(* and the end of the deactivation and that of the scan each leave it less.     *)
DeactivationGetsOn ==
  [][WindingDown =>
       /\ Unanswered /\ (active <=> state = "deactivating") /\ Rest > 0
       /\ \/ ~Unanswered'
          \/ /\ WindingDown'
             /\ IF DeactivationDone \/ MinutiaeDetected THEN Rest' < Rest ELSE Rest' = Rest]_vars

(* A step that answers nothing leaves what it does not end.                     *)
LEMMA RestMoves ==
  ASSUME Inv, Inv'
  PROVE  /\ UNCHANGED <<active, minutiae_scan_active>> =>
              Rest' = Rest /\ ~DeactivationDone /\ ~MinutiaeDetected
         /\ active /\ ~active' /\ minutiae_scan_active' = minutiae_scan_active => Rest' < Rest
         /\ minutiae_scan_active /\ ~minutiae_scan_active' /\ active' = active => Rest' < Rest
PROOF
<1>1. /\ active \in BOOLEAN /\ minutiae_scan_active \in BOOLEAN
      /\ active' \in BOOLEAN /\ minutiae_scan_active' \in BOOLEAN
  BY DEF Inv, TypeOK
<1>2. UNCHANGED <<active, minutiae_scan_active>> => Rest' = Rest
  BY DEF Rest
<1>3. DeactivationDone => active /\ ~active'
  BY DEF DeactivationDone, DeactivateComplete
<1>4. MinutiaeDetected => minutiae_scan_active /\ ~minutiae_scan_active'
  <2>1. MinutiaeDetected => ScanEnds
    BY DEF MinutiaeDetected, ScanCancelled, ScanOfCapture, ScanUnusable, ScanOfEnroll,
           ScanOfIdentify
  <2> QED BY <2>1 DEF ScanEnds
<1>5. active /\ ~active' /\ minutiae_scan_active' = minutiae_scan_active => Rest' < Rest
  BY <1>1 DEF Rest
<1>6. minutiae_scan_active /\ ~minutiae_scan_active' /\ active' = active => Rest' < Rest
  BY <1>1 DEF Rest
<1> QED BY <1>2, <1>3, <1>4, <1>5, <1>6

LEMMA WindsDown ==
  ASSUME Inv, Inv', ActiveInv, Next, WindingDown
  PROVE  /\ Unanswered /\ (active <=> state = "deactivating") /\ Rest > 0
         /\ \/ ~Unanswered'
            \/ /\ WindingDown'
               /\ IF DeactivationDone \/ MinutiaeDetected THEN Rest' < Rest ELSE Rest' = Rest
PROOF
<1> DEFINE Quiet == UNCHANGED <<active, minutiae_scan_active>>
           Less  == \/ active /\ ~active' /\ minutiae_scan_active' = minutiae_scan_active
                    \/ minutiae_scan_active /\ ~minutiae_scan_active' /\ active' = active
<1>1. /\ active \in BOOLEAN /\ minutiae_scan_active \in BOOLEAN
      /\ active <=> state = "deactivating"
      /\ active \/ minutiae_scan_active
  BY DEF Inv, TypeOK, ActiveInv, WindingDown
<1>2. Unanswered /\ current_action \in Captures
  BY <1>1 DEF Inv, QuietInv, AnsweredIsQuiet
<1>3. Rest > 0
  BY <1>1 DEF Rest
<1>4. Deactivated(state) = state
  BY <1>1 DEF Deactivated
<1>5. \/ ~Unanswered'
      \/ WindingDown' /\ Quiet
      \/ WindingDown' /\ Less /\ (DeactivationDone \/ MinutiaeDetected)
  <2>1. CASE Client
    BY <1>2, <2>1 DEF Client, Open, Close, Start, Accept, Cancel, Unanswered, WindingDown, Cancelled
  <2>2. CASE CancelAction \/ TaskReturn
    BY <1>2, <1>4, <2>2 DEF CancelAction, TaskReturn, Unanswered, WindingDown, Cancelled
  <2>3. CASE Driver
    <3>1. CASE OpenComplete \/ CloseComplete \/ ActivationDone
      BY <1>2, <3>1 DEF OpenComplete, CloseComplete, ActivationDone, ActivateComplete, WindingDown
    <3>2. CASE DeactivationDone
      <4>1. PICK error \in {"none", "error"} : DeactivateComplete(error)
        BY <3>2 DEF DeactivationDone
      <4>2. /\ active /\ ~active' /\ state' = "inactive"
            /\ minutiae_scan_active' = minutiae_scan_active
            /\ MaybeComplete(error, capture_image)
        BY <4>1 DEF DeactivateComplete
      <4>3. CASE minutiae_scan_active
        <5>1. NoAnswer
          BY <4>2, <4>3 DEF MaybeComplete
        <5> QED BY <3>2, <4>2, <4>3, <5>1 DEF NoAnswer, WindingDown, Cancelled
      <4>4. CASE ~minutiae_scan_active
        <5>1. \E result : Answer(result)
          BY <4>2, <4>4 DEF MaybeComplete
        <5> QED BY <1>2, <5>1, AnswerIsFirst DEF Unanswered
      <4> QED BY <4>3, <4>4
    <3>3. CASE FingerOn \/ FingerOff \/ ImageCaptured
      BY <3>3 DEF FingerOn, FingerOff, ImageCaptured, WindingDown, Cancelled
    <3>4. CASE RetryScan /\ state \in {"await_on", "capture"}
                   \cup (IF current_action = "enroll" THEN {} ELSE {"deactivating"})
      <4>1. state = "deactivating" /\ current_action # "enroll" /\ active
        BY <1>1, <3>4 DEF WindingDown
      <4>2. /\ state' = state /\ Quiet
            /\ \E error \in Failure : MaybeComplete(error, capture_image)
        BY <1>4, <3>4, <4>1 DEF RetryScan
      <4>3. NoAnswer
        BY <4>1, <4>2 DEF MaybeComplete
      <4> QED BY <4>1, <4>2, <4>3 DEF NoAnswer, WindingDown
    <3>5. CASE SessionError("error")
      <4>1. active /\ state' = state /\ Quiet /\ MaybeComplete("error", capture_image)
        BY <1>4, <3>5 DEF SessionError
      <4>2. NoAnswer
        BY <4>1 DEF MaybeComplete
      <4> QED BY <4>1, <4>2 DEF NoAnswer, WindingDown, Cancelled
    <3> QED BY <2>3, <3>1, <3>2, <3>3, <3>4, <3>5 DEF Driver
  <2>4. CASE MinutiaeDetected
    <3>1. minutiae_scan_active /\ ~minutiae_scan_active' /\ active' = active
      BY <2>4 DEF MinutiaeDetected, ScanEnds, ScanCancelled, ScanOfCapture, ScanUnusable,
                  ScanOfEnroll, ScanOfIdentify
    <3>2. ~ScanOfEnroll
      BY <3>1 DEF ScanOfEnroll, WindingDown
    <3>3. state' = state /\ \E error, image : MaybeComplete(error, image)
      BY <1>4, <2>4, <3>2 DEF MinutiaeDetected, ScanCancelled, ScanOfCapture, ScanUnusable,
                              ScanOfIdentify
    <3>4. CASE active
      <4>1. state' = "deactivating"
        BY <1>1, <3>3, <3>4
      <4> QED BY <2>4, <3>1, <4>1 DEF WindingDown
    <3>5. CASE ~active
      <4>1. \E result : Answer(result)
        BY <3>1, <3>3, <3>5 DEF MaybeComplete
      <4> QED BY <1>2, <4>1, AnswerIsFirst DEF Unanswered
    <3> QED BY <1>1, <3>4, <3>5
  <2> QED BY <2>1, <2>2, <2>3, <2>4 DEF Next
<1> HIDE DEF Quiet, Less
<1>6. Quiet => Rest' = Rest /\ ~DeactivationDone /\ ~MinutiaeDetected
  BY RestMoves DEF Quiet
<1>7. Less => Rest' < Rest
  BY RestMoves DEF Less
<1> QED BY <1>1, <1>2, <1>3, <1>5, <1>6, <1>7

(* The safety core of DeactivationAnswers: only the driver's deactivation and the *)
(* end of the scan stand between a deactivation and its answer, in either order. *)
THEOREM DeactivationAdvances == Spec => DeactivationGetsOn
PROOF
<1>1. Init => ActiveInv
  BY DEF Init, ActiveInv
<1>2. Inv /\ Inv' /\ ActiveInv /\ [Next]_vars =>
        [WindingDown =>
           /\ Unanswered /\ (active <=> state = "deactivating") /\ Rest > 0
           /\ \/ ~Unanswered'
              \/ /\ WindingDown'
                 /\ IF DeactivationDone \/ MinutiaeDetected THEN Rest' < Rest
                    ELSE Rest' = Rest]_vars
  BY WindsDown
<1> QED BY <1>1, <1>2, ActiveKept, Invariant, PTL DEF Spec, DeactivationGetsOn

----------------------------------------------------------------------------
(* The control of elan.c under the layer.                                      *)

(* An activation is under way and its action waits for it.                     *)
Activating == ~active /\ state = "activating" /\ Unanswered /\ InCapture

(* Runs(m): machine m of the driver runs.                                      *)
Runs(m) == machine # <<>> /\ machine[1] = m

(* A command belongs to a machine.  The driver counts itself active while a      *)
(* machine other than the activation runs, and then the layer does, too.        *)
MachineInv ==
  /\ machine = <<>> => command = "none"
  /\ command = "doomed" => Cancelled
  /\ elan_active <=> machine # <<>> /\ ~Runs("activate")
  /\ elan_active => active
  /\ Runs("activate") => Activating

(* The layer calls back a driver that can follow.                              *)
CalleeInv ==
  /\ callee = "activate" => Activating /\ machine = <<>>
  /\ callee = "deactivate" => active /\ state = "deactivating" /\ ~deactivating
  /\ callee = "change_state" => active /\ state = "await_on" /\ ~elan_active

(* What the layer waits for while a machine runs, the image of a capture being  *)
(* read under a finger; a calibration is not at the end of its attempts.       *)
WorkInv ==
  /\ Runs("calibrate") => /\ ~minutiae_scan_active /\ calib_atts_left # 0
                          /\ state \in {"await_on", "deactivating"}
  /\ Runs("capture") => /\ ~minutiae_scan_active
                        /\ state \in {"await_on", "capture", "deactivating"}
                        /\ state = "capture" => finger_present
                        /\ machine[2] = "READ_DATA" \/ num_frames # 0 => state # "await_on"
  /\ Runs("stop") /\ ~Cancelled => state \in {"await_off", "deactivating"}

(* The deactivation of the layer is the one the driver remembers, but while it   *)
(* is being called; a cancel that was told has begun one.                      *)
DeactivationInv ==
  /\ state = "deactivating" => active
  /\ active => state \notin {"inactive", "activating"}
  /\ callee # "deactivate" => (state = "deactivating" <=> deactivating)
  /\ deactivating => elan_active
  /\ cancel = "told" /\ active => state = "deactivating"

(* A scan does not outlive the activity of its enrollment, unless cancelled, and *)
(* a finger that is present is that of an active device.                       *)
ScanInv ==
  /\ current_action = "enroll" /\ minutiae_scan_active /\ ~Cancelled
       => active /\ state # "deactivating"
  /\ minutiae_scan_active /\ state = "await_off" => finger_present
  /\ finger_present => active
  /\ state = "idle" => ~finger_present

(* Without a machine and a callback, only the scan can move the action on.       *)
AttendedInv ==
  callee = "none" /\ machine = <<>> =>
    /\ active /\ ~Cancelled
         => current_action = "enroll" /\ state = "idle" /\ minutiae_scan_active
    /\ ~active /\ Unanswered /\ InCapture => minutiae_scan_active

(* None of the coincidences that Elan names comes.                             *)
NoRace == Races = {}

----------------------------------------------------------------------------
(* What the calls of the driver do to the layer.                               *)

LEMMA CallbackMeans ==
  ASSUME Callback
  PROVE  /\ state' = state => callee' = "none"
         /\ state' # state /\ state' = "deactivating" => callee' = "deactivate"
         /\ state' # state /\ state' = "await_on" => callee' = "change_state"
         /\ state' \notin {"deactivating", "await_on"} => callee' = "none"
PROOF BY DEF Callback

LEMMA ActiveMeans ==
  ASSUME Inv, active
  PROVE  Unanswered /\ InCapture /\ current_action \in Captures
PROOF BY DEF Inv, AnsweredIsQuiet, QuietInv, InCapture

(* An error deactivates an active device; a cancellation of a cancelled action  *)
(* is dropped.                                                                *)
LEMMA SessionErrorEffect ==
  ASSUME Inv, DeactivationInv, active, callee = "none", NEW error \in {"error", "cancelled"},
         error = "cancelled" => Cancelled, SessionErrorCall(error)
  PROVE  /\ [Next]_vars
         /\ UNCHANGED <<active, finger_present, minutiae_scan_active, current_action, cancel, idle_return>>
         /\ error = "error" => state' = "deactivating"
         /\ state' \in {state, "deactivating"}
         /\ callee' = IF state' = state THEN "none" ELSE "deactivate"
PROOF
<1>1. SessionError(error) /\ Callback /\ state # "inactive" /\ Unanswered /\ current_action \in Captures
  BY ActiveMeans DEF SessionErrorCall, Call, DeactivationInv
<1>2. CASE error = "cancelled"
  <2>1. UNCHANGED vars
    BY <1>1, <1>2 DEF SessionError
  <2> QED BY <1>1, <1>2, <2>1, CallbackMeans
<1>3. CASE error = "error"
  <2>1. /\ state' = "deactivating" /\ MaybeComplete("error", capture_image)
        /\ UNCHANGED <<active, finger_present, minutiae_scan_active, enroll_stage, result_reported>>
    BY <1>1, <1>3 DEF SessionError, Deactivated
  <2>2. UNCHANGED <<current_action, cancel, idle_return>>
    BY <2>1 DEF MaybeComplete, NoAnswer
  <2>3. Next
    BY <1>1, <1>3 DEF Next, Driver
  <2> QED BY <1>1, <1>3, <2>1, <2>2, <2>3, CallbackMeans
<1> QED BY <1>2, <1>3

LEMMA FingerOnEffect ==
  ASSUME Inv, DeactivationInv, active, FingerOnCall
  PROVE  /\ [Next]_vars /\ callee' = "none" /\ finger_present' = TRUE
         /\ state' = IF state = "await_on" THEN "capture" ELSE state
         /\ UNCHANGED <<active, minutiae_scan_active, current_action, cancel, idle_return>>
PROOF
<1>1. FingerOn /\ Callback /\ Unanswered /\ current_action \in Captures
  BY ActiveMeans DEF FingerOnCall, Call, DeactivationInv
<1> QED BY <1>1, CallbackMeans DEF FingerOn, Next, Driver

LEMMA FingerOffEffect ==
  ASSUME Inv, DeactivationInv, active, FingerOffCall
  PROVE  /\ [Next]_vars /\ finger_present' = FALSE
         /\ state # "await_off" => state' = state /\ callee' = "none"
         /\ state = "await_off" /\ current_action # "enroll" =>
              state' = "deactivating" /\ callee' = "deactivate"
         /\ state = "await_off" /\ current_action = "enroll" =>
              \/ minutiae_scan_active /\ state' = "idle" /\ callee' = "none"
              \/ ~minutiae_scan_active /\ state' = "await_on" /\ callee' = "change_state"
         /\ UNCHANGED <<active, minutiae_scan_active, current_action, cancel, idle_return>>
PROOF
<1>1. FingerOff /\ Callback /\ Unanswered /\ current_action \in Captures
  BY ActiveMeans DEF FingerOffCall, Call, DeactivationInv
<1>2. minutiae_scan_active \in BOOLEAN
  BY DEF Inv, TypeOK
<1> QED BY <1>1, <1>2, CallbackMeans DEF FingerOff, NextFinger, Deactivated, Next, Driver

LEMMA ImageCapturedEffect ==
  ASSUME Inv, active, callee = "none", ImageCapturedCall
  PROVE  /\ [Next]_vars /\ callee' = "none"
         /\ UNCHANGED <<active, finger_present, current_action, cancel, idle_return>>
         /\ \/ state # "capture" /\ UNCHANGED <<state, minutiae_scan_active>>
            \/ state = "capture" /\ state' = "await_off" /\ minutiae_scan_active' = TRUE
PROOF
<1>1. Unanswered /\ InCapture /\ current_action \in Captures
  BY ActiveMeans
<1> QED BY <1>1, CallbackMeans DEF ImageCapturedCall, Call, ImageCaptured, Next, Driver

LEMMA RetryScanEffect ==
  ASSUME Inv, active, callee = "none", RetryScanCall, state # "inactive",
         state \in {"await_on", "capture"} \/ (state = "deactivating" /\ current_action # "enroll")
  PROVE  /\ [Next]_vars
         /\ UNCHANGED <<active, finger_present, minutiae_scan_active, current_action, cancel, idle_return>>
         /\ current_action = "enroll" => state' = "await_off" /\ callee' = "none"
         /\ current_action # "enroll" =>
              /\ state' = "deactivating"
              /\ callee' = IF state = "deactivating" THEN "none" ELSE "deactivate"
PROOF
<1>1. RetryScan /\ Callback /\ Unanswered /\ InCapture /\ current_action \in Captures
  BY ActiveMeans DEF RetryScanCall, Call
<1>2. Next
  BY <1>1 DEF Next, Driver
<1>3. CASE current_action = "enroll"
  BY <1>1, <1>2, <1>3, CallbackMeans DEF RetryScan
<1>4. CASE current_action # "enroll"
  <2>1. /\ state' = "deactivating"
        /\ UNCHANGED <<active, finger_present, minutiae_scan_active, enroll_stage>>
        /\ MaybeComplete(IF current_action = "identify" THEN "none" ELSE "retry", capture_image)
    BY <1>1, <1>4 DEF RetryScan, Deactivated
  <2>2. UNCHANGED <<current_action, cancel, idle_return>>
    BY <2>1 DEF MaybeComplete, NoAnswer
  <2> QED BY <1>1, <1>2, <1>4, <2>1, <2>2, CallbackMeans
<1> QED BY <1>3, <1>4

LEMMA ActivateCompleteEffect ==
  ASSUME Inv, Activating, NEW error \in {"none", "error", "cancelled"},
         error = "cancelled" => Cancelled, ActivateCompleteCall(error)
  PROVE  /\ [Next]_vars
         /\ UNCHANGED <<finger_present, minutiae_scan_active, current_action, cancel>>
         /\ error = "none" => /\ active' = TRUE /\ state' = "await_on" /\ callee' = "change_state"
                              /\ UNCHANGED idle_return
         /\ error # "none" => /\ idle_return' # <<>> /\ callee' = "none"
                              /\ UNCHANGED <<active, state>>
PROOF
<1>1. ActivateComplete(error) /\ Callback /\ Unanswered /\ current_action \in Captures
  BY DEF Activating, ActivateCompleteCall, Call, InCapture
<1>2. Next
  BY <1>1 DEF Next, Driver, ActivationDone
<1>3. CASE error = "none"
  BY <1>1, <1>2, <1>3, CallbackMeans DEF ActivateComplete, Activating
<1>4. CASE error # "none"
  <2>1. Answer(error) /\ UNCHANGED <<state, active, finger_present, minutiae_scan_active>>
    BY <1>1, <1>4 DEF ActivateComplete
  <2>2. idle_return' = <<error>> /\ UNCHANGED <<current_action, cancel>>
    BY <1>1, <2>1, AnswerIsFirst
  <2> QED BY <1>1, <1>2, <1>4, <2>1, <2>2, CallbackMeans
<1> QED BY <1>3, <1>4

LEMMA DeactivateCompleteEffect ==
  ASSUME Inv, active, state = "deactivating", NEW error \in {"none", "error"},
         DeactivateCompleteCall(error)
  PROVE  /\ [Next]_vars /\ callee' = "none"
         /\ active' = FALSE /\ finger_present' = FALSE /\ state' = "inactive"
         /\ UNCHANGED <<minutiae_scan_active, current_action, cancel>>
         /\ ~minutiae_scan_active => idle_return' # <<>>
PROOF
<1>1. DeactivateComplete(error) /\ Callback /\ Unanswered
  BY ActiveMeans DEF DeactivateCompleteCall, Call
<1>2. Next
  BY <1>1 DEF Next, Driver, DeactivationDone
<1>3. /\ active' = FALSE /\ finger_present' = FALSE /\ state' = "inactive"
      /\ UNCHANGED minutiae_scan_active /\ MaybeComplete(error, capture_image)
  BY <1>1 DEF DeactivateComplete
<1>4. UNCHANGED <<current_action, cancel>> /\ (~minutiae_scan_active => idle_return' # <<>>)
  <2>1. TypeOK /\ error \in Failure /\ capture_image \in BOOLEAN
    BY DEF Inv, TypeOK
  <2> QED BY <1>1, <1>3, <2>1, CompletesOrWaits
<1> QED BY <1>1, <1>2, <1>3, <1>4, CallbackMeans

(* The scan ends: an action that is no enrollment, or one of a device that is   *)
(* not active, is over with it.                                               *)
LEMMA MinutiaeEffect ==
  ASSUME Inv, MinutiaeDetected, Callback
  PROVE  /\ minutiae_scan_active /\ minutiae_scan_active' = FALSE /\ Unanswered /\ InCapture
         /\ UNCHANGED <<active, finger_present, current_action, cancel>>
         /\ \/ state' = Deactivated(state)
            \/ state' = state /\ ~Cancelled /\ current_action # "enroll"
            \/ state' = NextFinger(state, finger_present, FALSE) /\ ~Cancelled /\ current_action = "enroll"
         /\ active => UNCHANGED idle_return
         /\ ~active => \/ idle_return' # <<>>
                       \/ current_action = "enroll" /\ ~Cancelled
PROOF
<1>1. /\ minutiae_scan_active /\ minutiae_scan_active' = FALSE /\ Unanswered /\ InCapture /\ TypeOK
      /\ UNCHANGED <<active, finger_present>> /\ active \in BOOLEAN
  BY ScanHasAction DEF MinutiaeDetected, ScanCancelled, ScanOfCapture, ScanUnusable, ScanOfEnroll,
     ScanOfIdentify, InCapture, TypeOK
<1>2. ASSUME NEW error \in Failure, NEW image \in BOOLEAN, MaybeComplete(error, image)
      PROVE  /\ UNCHANGED <<current_action, cancel>> /\ (active => UNCHANGED idle_return)
             /\ ~active => idle_return' # <<>>
  BY <1>1, <1>2, CompletesOrWaits
<1>3. capture_image \in BOOLEAN
  BY <1>1 DEF TypeOK
<1>4. CASE ScanCancelled
  BY <1>1, <1>2, <1>3, <1>4 DEF ScanCancelled
<1>5. CASE ScanOfCapture
  <2>1. PICK error \in {"none", "retry"} : MaybeComplete(error, TRUE)
    BY <1>5 DEF ScanOfCapture
  <2>2. error \in Failure /\ TRUE \in BOOLEAN
    OBVIOUS
  <2>3. /\ UNCHANGED <<current_action, cancel>> /\ (active => UNCHANGED idle_return)
        /\ ~active => idle_return' # <<>>
    BY <1>2, <2>1, <2>2
  <2> QED BY <1>1, <1>5, <2>3 DEF ScanOfCapture
<1>6. CASE ScanUnusable
  BY <1>1, <1>2, <1>3, <1>6 DEF ScanUnusable
<1>7. CASE ScanOfEnroll
  <2>1. CASE enroll_stage' = Stages
    BY <1>1, <1>2, <1>3, <1>7, <2>1 DEF ScanOfEnroll
  <2>2. CASE enroll_stage' # Stages
    BY <1>1, <1>7, <2>2 DEF ScanOfEnroll, NoAnswer
  <2> QED BY <2>1, <2>2
<1>8. CASE ScanOfIdentify
  <2>1. state' = state /\ ~Cancelled /\ current_action = "identify"
    BY <1>8 DEF ScanOfIdentify
  <2>2. \E error \in {"none", "error"} : MaybeComplete(error, capture_image)
    BY <1>8 DEF ScanOfIdentify
  <2> QED BY <1>1, <1>2, <1>3, <2>1, <2>2
<1> QED BY <1>4, <1>5, <1>6, <1>7, <1>8 DEF MinutiaeDetected

----------------------------------------------------------------------------
(* The machines of the driver.                                                 *)

(* The machine moves on without a call.                                        *)
Continues ==
  /\ UNCHANGED <<vars, callee, elan_active, deactivating>>
  /\ command' = "doomed" => Cancelled
  /\ \/ Runs("activate") /\ Runs("activate")'
     \/ /\ Runs("calibrate") /\ Runs("calibrate")'
        /\ calib_atts_left' # 0
     \/ Runs("calibrate") /\ Runs("capture")' /\ machine'[2] = "LED_ON" /\ num_frames' = 0
     \/ /\ Runs("capture") /\ Runs("capture")'
        /\ machine'[2] = "READ_DATA" \/ num_frames' # 0 =>
             machine[2] = "READ_DATA" \/ num_frames # 0

LEMMA RunsOne ==
  ASSUME NEW m, NEW k, Runs(m), Runs(k)
  PROVE  m = k
PROOF BY DEF Runs

(* The inductive invariant of layer and driver, but for the Inv of the layer.   *)
ControlInv == MachineInv /\ CalleeInv /\ WorkInv /\ DeactivationInv /\ ScanInv /\ AttendedInv

LEMMA ContinuesKeeps ==
  ASSUME Inv, ControlInv, Continues, callee = "none"
  PROVE  ControlInv'
PROOF
<1>1. /\ UNCHANGED <<vars, callee, elan_active, deactivating>> /\ machine # <<>> /\ machine' # <<>>
      /\ Runs("activate") <=> Runs("activate")'
      /\ ~Runs("stop") /\ ~Runs("stop")'
      /\ Cancelled' = Cancelled /\ Activating' = Activating /\ Unanswered' = Unanswered
      /\ InCapture' = InCapture
  BY DEF Continues, Runs, Cancelled, Activating, Unanswered, InCapture
<1>2. MachineInv'
  BY <1>1 DEF ControlInv, MachineInv, Continues
<1>3. CalleeInv'
  BY <1>1 DEF ControlInv, CalleeInv
<1>4. WorkInv'
  BY <1>1 DEF ControlInv, WorkInv, Continues, Runs
<1>5. DeactivationInv' /\ ScanInv' /\ AttendedInv'
  BY <1>1 DEF ControlInv, DeactivationInv, ScanInv, AttendedInv
<1> QED BY <1>2, <1>3, <1>4, <1>5 DEF ControlInv

(* A calibration or a capture ends with a call and the sensor is stopped. What  *)
(* the calls have in common: an uncancelled action deactivates or its finger is *)
(* to lift.                                                                   *)
Stops ==
  /\ Runs("calibrate") \/ Runs("capture")
  /\ Runs("stop")' /\ command' = "sent"
  /\ UNCHANGED <<elan_active, deactivating, active, finger_present, current_action, cancel, idle_return>>
  /\ callee' = IF state' # state /\ state' = "deactivating" THEN "deactivate" ELSE "none"
  /\ \/ UNCHANGED <<state, minutiae_scan_active>> /\ (Cancelled \/ state = "deactivating")
     \/ state' = "deactivating" /\ UNCHANGED minutiae_scan_active
     \/ state = "capture" /\ state' = "await_off" /\ finger_present
     \/ /\ state # "deactivating" /\ state' = "await_off" /\ UNCHANGED minutiae_scan_active

LEMMA StopsKeeps ==
  ASSUME Inv, ControlInv, Stops, callee = "none"
  PROVE  ControlInv'
PROOF
<1>1. /\ elan_active /\ active /\ ~minutiae_scan_active /\ active' = active
      /\ machine' # <<>> /\ ~Runs("activate")' /\ ~Runs("calibrate")' /\ ~Runs("capture")'
      /\ ~Runs("activate") /\ Unanswered /\ InCapture
      /\ state \in {"await_on", "capture", "deactivating"}
      /\ elan_active' = elan_active /\ deactivating' = deactivating
      /\ finger_present' = finger_present
  BY ActiveMeans DEF Stops, ControlInv, MachineInv, WorkInv, Runs
<1>2. Cancelled' = Cancelled /\ Unanswered' = Unanswered /\ InCapture' = InCapture
  BY DEF Stops, Cancelled, Unanswered, InCapture
<1>3. MachineInv'
  BY <1>1 DEF ControlInv, MachineInv, Stops
<1>4. state = "deactivating" <=> deactivating
  BY DEF ControlInv, DeactivationInv
<1>5. /\ state' \in {"await_on", "capture", "deactivating", "await_off"}
      /\ state = "deactivating" => state' = "deactivating"
      /\ callee' = IF state' # state /\ state' = "deactivating" THEN "deactivate" ELSE "none"
  BY <1>1 DEF Stops
<1>6. CalleeInv'
  BY <1>1, <1>4, <1>5 DEF CalleeInv
<1>7. WorkInv'
  BY <1>1, <1>2 DEF WorkInv, Stops
<1>8. DeactivationInv'
  <2>1. cancel = "told" => state = "deactivating"
    BY <1>1 DEF ControlInv, DeactivationInv
  <2>2. cancel' = cancel
    BY DEF Stops
  <2> QED BY <1>1, <1>4, <1>5, <2>1, <2>2 DEF DeactivationInv
<1>9. ScanInv'
  <2>1. minutiae_scan_active' # minutiae_scan_active => state' = "await_off" /\ finger_present
    BY DEF Stops
  <2>2. minutiae_scan_active' => state' = "await_off" /\ finger_present'
    BY <1>1, <2>1
  <2>3. finger_present' => active'
    BY <1>1
  <2> QED BY <1>1, <1>5, <2>2, <2>3 DEF ScanInv
<1>10. AttendedInv'
  BY <1>1 DEF AttendedInv
<1> QED BY <1>3, <1>6, <1>7, <1>8, <1>9, <1>10 DEF ControlInv

(* What a command that fails tells.                                            *)
LEMMA FailuresMean ==
  ASSUME ControlInv, NEW failure \in Failures
  PROVE  /\ Kind(failure) \in {"error", "cancelled"}
         /\ Kind(failure) = "cancelled" => Cancelled
         /\ failure = "timeout" /\ NoRace => ~LateTimeout
PROOF BY DEF Failures, Kind, NoRace, ControlInv, MachineInv

LEMMA SessionErrorStops ==
  ASSUME Inv, ControlInv, callee = "none", Runs("calibrate") \/ Runs("capture"),
         NEW error \in {"error", "cancelled"}, error = "cancelled" => Cancelled,
         SessionErrorCall(error), Run("stop", "STOP_CAPTURE"), UNCHANGED <<elan_active, deactivating>>
  PROVE  [Next]_vars /\ ControlInv'
PROOF
<1>1. active
  BY DEF ControlInv, MachineInv, Runs
<1>2. /\ [Next]_vars
      /\ UNCHANGED <<active, finger_present, minutiae_scan_active, current_action, cancel, idle_return>>
      /\ error = "error" => state' = "deactivating"
      /\ state' \in {state, "deactivating"}
      /\ callee' = IF state' = state THEN "none" ELSE "deactivate"
  BY <1>1, SessionErrorEffect DEF ControlInv
<1>3. Runs("stop")' /\ command' = "sent"
  BY DEF Run, Runs
<1>4. Stops
  BY <1>2, <1>3 DEF Stops
<1> QED BY <1>2, <1>4, StopsKeeps

LEMMA ImageStops ==
  ASSUME Inv, ControlInv, callee = "none", Runs("capture"),
         machine[2] = "READ_DATA" \/ num_frames # 0,
         ImageCapturedCall, Run("stop", "STOP_CAPTURE"), UNCHANGED <<elan_active, deactivating>>
  PROVE  [Next]_vars /\ ControlInv'
PROOF
<1>1. active /\ state \in {"capture", "deactivating"}
  BY DEF ControlInv, MachineInv, WorkInv, Runs
<1>2. /\ [Next]_vars /\ callee' = "none"
      /\ UNCHANGED <<active, finger_present, current_action, cancel, idle_return>>
      /\ \/ state # "capture" /\ UNCHANGED <<state, minutiae_scan_active>>
         \/ state = "capture" /\ state' = "await_off" /\ minutiae_scan_active' = TRUE
  BY <1>1, ImageCapturedEffect
<1>3. Runs("stop")' /\ command' = "sent"
  BY DEF Run, Runs
<1>4. state = "capture" => finger_present
  BY DEF ControlInv, WorkInv
<1>5. Stops
  BY <1>1, <1>2, <1>3, <1>4 DEF Stops
<1> QED BY <1>2, <1>5, StopsKeeps

LEMMA RetryStops ==
  ASSUME Inv, ControlInv, callee = "none", Runs("capture"), ~LateTimeout,
         RetryScanCall, Run("stop", "STOP_CAPTURE"), UNCHANGED <<elan_active, deactivating>>
  PROVE  [Next]_vars /\ ControlInv'
PROOF
<1>1. active /\ state \in {"await_on", "capture", "deactivating"}
  BY DEF ControlInv, MachineInv, WorkInv, Runs
<1>2. /\ state # "inactive"
      /\ state \in {"await_on", "capture"} \/ (state = "deactivating" /\ current_action # "enroll")
  BY <1>1 DEF LateTimeout
<1>3. /\ [Next]_vars
      /\ UNCHANGED <<active, finger_present, minutiae_scan_active, current_action, cancel, idle_return>>
      /\ current_action = "enroll" => state' = "await_off" /\ callee' = "none"
      /\ current_action # "enroll" =>
           /\ state' = "deactivating"
           /\ callee' = IF state = "deactivating" THEN "none" ELSE "deactivate"
  BY <1>1, <1>2, RetryScanEffect
<1>4. Runs("stop")' /\ command' = "sent"
  BY DEF Run, Runs
<1>5. Stops
  BY <1>1, <1>2, <1>3, <1>4 DEF Stops
<1> QED BY <1>3, <1>5, StopsKeeps

LEMMA DevActivateCalled ==
  ASSUME DevActivate
  PROVE  callee = "activate" /\ callee # "deactivate"
PROOF BY DEF DevActivate

LEMMA AskStatusKeeps ==
  ASSUME Inv, ControlInv, callee = "none", Runs("calibrate"), AskStatus, UNCHANGED <<elan_active, deactivating>>
  PROVE  [Next]_vars /\ ControlInv'
PROOF
<1>1. CASE calib_atts_left' = 0
  <2>1. SessionErrorCall("error") /\ Run("stop", "STOP_CAPTURE")
    BY <1>1 DEF AskStatus, CalibrateFails, StopCapture
  <2> QED BY <2>1, SessionErrorStops
<1>2. CASE calib_atts_left' # 0
  <2>1. Run("calibrate", "GET_STATUS") /\ UNCHANGED <<vars, callee>>
    BY <1>2 DEF AskStatus
  <2>2. Continues
    BY <1>2, <2>1 DEF Continues, Run, Runs
  <2> QED BY <2>1, <2>2, ContinuesKeeps
<1> QED BY <1>1, <1>2

LEMMA FramesBounds ==
  MinFrames \in Nat /\ MaxFrames \in Nat /\ MaxFrames >= MinFrames /\ ~(0 >= MinFrames)
PROOF
<1>1. MinFrames \in Nat \ {0} /\ MaxFrames \in Nat /\ MinFrames < MaxFrames
  BY ElanAssumption
<1> QED BY <1>1

----------------------------------------------------------------------------
(* Every step of the driver keeps the contract and the control of it.          *)

LEMMA DevActivateKeeps ==
  ASSUME Inv, ControlInv, DevActivate
  PROVE  [Next]_vars /\ ControlInv'
PROOF
<1>1. /\ UNCHANGED <<vars, elan_active, deactivating>> /\ callee' = "none" /\ Activating
      /\ Runs("activate")' /\ machine' # <<>> /\ command' \in {"doomed", "sent"}
      /\ command' = "doomed" => Cancelled
  BY DEF DevActivate, ControlInv, CalleeInv, Run, Runs
<1>2. /\ Cancelled' = Cancelled /\ Activating'
      /\ ~Runs("calibrate")' /\ ~Runs("capture")' /\ ~Runs("stop")'
  BY <1>1 DEF Cancelled, Activating, Unanswered, InCapture, Runs
<1>3. ~elan_active /\ ~active
  BY <1>1 DEF ControlInv, MachineInv, CalleeInv, Activating
<1>4. MachineInv'
  BY <1>1, <1>2, <1>3 DEF MachineInv
<1>5. CalleeInv' /\ WorkInv' /\ AttendedInv'
  BY <1>1, <1>2 DEF CalleeInv, WorkInv, AttendedInv
<1>6. DeactivationInv' /\ ScanInv'
  <2>1. callee # "deactivate"
    BY <1>1, DevActivateCalled
  <2> QED BY <1>1, <1>2, <2>1 DEF ControlInv, DeactivationInv, ScanInv
<1> QED BY <1>1, <1>4, <1>5, <1>6 DEF ControlInv

(* The activation ends: the finger is awaited or the action is answered.       *)
LEMMA ActivationEnds ==
  ASSUME Inv, ControlInv, callee = "none", Runs("activate"), Halt,
         NEW error \in {"none", "error", "cancelled"}, error = "cancelled" => Cancelled,
         error = "none" => cancel # "told",
         ActivateCompleteCall(error), UNCHANGED <<elan_active, deactivating>>
  PROVE  [Next]_vars /\ ControlInv'
PROOF
<1>1. /\ Activating /\ ~elan_active /\ ~active /\ ~deactivating
      /\ state = "activating" /\ ~minutiae_scan_active /\ ~finger_present
  BY DEF Inv, QuietInv, ControlInv, MachineInv, DeactivationInv, Activating, ScanInv
<1>2. /\ [Next]_vars
      /\ UNCHANGED <<finger_present, minutiae_scan_active, current_action, cancel>>
      /\ error = "none" => /\ active' = TRUE /\ state' = "await_on" /\ callee' = "change_state"
                           /\ UNCHANGED idle_return
      /\ error # "none" => /\ idle_return' # <<>> /\ callee' = "none"
                           /\ UNCHANGED <<active, state>>
  BY <1>1, ActivateCompleteEffect
<1>3. machine' = <<>> /\ command' = "none" /\ ~elan_active' /\ ~deactivating'
  BY <1>1 DEF Halt
<1>4. ~Runs("activate")' /\ ~Runs("calibrate")' /\ ~Runs("capture")' /\ ~Runs("stop")'
  BY <1>3 DEF Runs
<1>5. MachineInv'
  BY <1>3, <1>4 DEF MachineInv
<1>6. CalleeInv' /\ WorkInv'
  BY <1>2, <1>3, <1>4 DEF CalleeInv, WorkInv
<1>7. DeactivationInv' /\ ScanInv'
  BY <1>1, <1>2, <1>3 DEF DeactivationInv, ScanInv
<1>8. AttendedInv'
  <2>1. CASE error = "none"
    BY <1>2, <2>1 DEF AttendedInv
  <2>2. CASE error # "none"
    <3>1. ~active' /\ ~Unanswered'
      BY <1>1, <1>2, <2>2 DEF Unanswered
    <3> QED BY <3>1 DEF AttendedInv
  <2> QED BY <2>1, <2>2
<1> QED BY <1>2, <1>5, <1>6, <1>7, <1>8 DEF ControlInv

LEMMA ActivateStepKeeps ==
  ASSUME Inv, ControlInv, NoRace, ActivateStep
  PROVE  [Next]_vars /\ ControlInv'
PROOF
<1>1. callee = "none" /\ Runs("activate") /\ UNCHANGED <<elan_active, deactivating>>
  BY DEF ActivateStep, Runs
<1>2. CASE /\ \E s \in {"GET_SENSOR_DIM", "CMD_1"} : Run("activate", s)
           /\ UNCHANGED <<vars, callee>>
  <2>1. Continues
    BY <1>1, <1>2 DEF Continues, Run, Runs
  <2> QED BY <1>1, <1>2, <2>1, ContinuesKeeps
<1>3. CASE cancel # "told" /\ Halt /\ ActivateCompleteCall("none")
  BY <1>1, <1>3, ActivationEnds
<1> QED BY <1>2, <1>3 DEF ActivateStep, NoRace

LEMMA ActivateFailsKeeps ==
  ASSUME Inv, ControlInv, ActivateFails
  PROVE  [Next]_vars /\ ControlInv'
PROOF
<1>1. callee = "none" /\ Runs("activate") /\ UNCHANGED <<elan_active, deactivating>> /\ Halt
  BY DEF ActivateFails, Runs
<1>2. PICK failure \in Failures : ActivateCompleteCall(Kind(failure))
  BY DEF ActivateFails
<1>3. /\ Kind(failure) \in {"none", "error", "cancelled"} /\ Kind(failure) # "none"
      /\ Kind(failure) = "cancelled" => Cancelled
  BY FailuresMean
<1> QED BY <1>1, <1>2, <1>3, ActivationEnds

(* A calibration begins, always on a driver that has stopped.                  *)
LEMMA DevChangeStateKeeps ==
  ASSUME Inv, ControlInv, DevChangeState
  PROVE  [Next]_vars /\ ControlInv'
PROOF
<1>1. /\ callee = "change_state" /\ callee' = "none" /\ UNCHANGED <<vars, deactivating>>
      /\ active /\ state = "await_on" /\ ~elan_active /\ elan_active' = TRUE
      /\ calib_atts_left' = CalibrationAttempts /\ Run("calibrate", "GET_BACKGROUND")
  BY DEF DevChangeState, ControlInv, CalleeInv
<1>2. /\ Runs("calibrate")' /\ machine' # <<>> /\ command' \in {"doomed", "sent"}
      /\ command' = "doomed" => Cancelled
      /\ ~Runs("activate")' /\ ~Runs("capture")' /\ ~Runs("stop")'
  BY <1>1 DEF Run, Runs
<1>3. /\ Cancelled' = Cancelled /\ ~minutiae_scan_active
      /\ calib_atts_left' # 0 /\ ~deactivating
  BY <1>1, ElanAssumption DEF Cancelled, Inv, NoScanWhileCapturing, ControlInv, DeactivationInv
<1>4. MachineInv'
  BY <1>1, <1>2, <1>3 DEF MachineInv
<1>5. CalleeInv' /\ WorkInv' /\ AttendedInv'
  BY <1>1, <1>2, <1>3 DEF CalleeInv, WorkInv, AttendedInv
<1>6. DeactivationInv' /\ ScanInv'
  BY <1>1, <1>3 DEF ControlInv, DeactivationInv, ScanInv
<1> QED BY <1>1, <1>4, <1>5, <1>6 DEF ControlInv

LEMMA CalibrateStepKeeps ==
  ASSUME Inv, ControlInv, CalibrateStep
  PROVE  [Next]_vars /\ ControlInv'
PROOF
<1>1. callee = "none" /\ Runs("calibrate") /\ UNCHANGED <<elan_active, deactivating>>
  BY DEF CalibrateStep, At, Runs
<1>2. CASE StartCapture /\ UNCHANGED <<vars, callee>>
  <2>1. Continues
    BY <1>1, <1>2 DEF Continues, StartCapture, ResetState, Run, Runs
  <2> QED BY <1>1, <1>2, <2>1, ContinuesKeeps
<1>3. CASE Run("calibrate", "GET_MEAN") /\ UNCHANGED <<vars, callee, calib_atts_left>>
  <2>1. Continues
    BY <1>1, <1>3 DEF Continues, Run, Runs, ControlInv, WorkInv
  <2> QED BY <1>1, <1>3, <2>1, ContinuesKeeps
<1>4. CASE AskStatus
  BY <1>1, <1>4, AskStatusKeeps
<1> QED BY <1>2, <1>3, <1>4 DEF CalibrateStep

LEMMA CheckStatusKeeps ==
  ASSUME Inv, ControlInv, CheckStatus
  PROVE  [Next]_vars /\ ControlInv'
PROOF
<1>1. callee = "none" /\ Runs("calibrate") /\ UNCHANGED <<elan_active, deactivating, vars, callee, calib_atts_left>>
  BY DEF CheckStatus, At, Runs
<1>2. /\ Runs("calibrate")' /\ (command' = "doomed" => Cancelled)
  BY <1>1 DEF CheckStatus, Run, Runs
<1>3. Continues
  BY <1>1, <1>2 DEF Continues, ControlInv, WorkInv
<1> QED BY <1>1, <1>3, ContinuesKeeps

LEMMA CalibrateCommandFailsKeeps ==
  ASSUME Inv, ControlInv, CalibrateCommandFails
  PROVE  [Next]_vars /\ ControlInv'
PROOF
<1>1. callee = "none" /\ Runs("calibrate") /\ UNCHANGED <<elan_active, deactivating>>
  BY DEF CalibrateCommandFails, Runs
<1>2. PICK failure \in Failures : CalibrateFails(Kind(failure))
  BY DEF CalibrateCommandFails
<1>3. /\ Kind(failure) \in {"error", "cancelled"}
      /\ Kind(failure) = "cancelled" => Cancelled
  BY FailuresMean
<1>4. SessionErrorCall(Kind(failure)) /\ Run("stop", "STOP_CAPTURE")
  BY <1>2 DEF CalibrateFails, StopCapture
<1> QED BY <1>1, <1>3, <1>4, SessionErrorStops

LEMMA TimerFiresKeeps ==
  ASSUME Inv, ControlInv, TimerFires
  PROVE  [Next]_vars /\ ControlInv'
PROOF
<1>1. callee = "none" /\ UNCHANGED <<elan_active, deactivating>> /\ machine # <<>>
  BY DEF TimerFires, ControlInv, MachineInv
<1>2. CASE machine[1] = "calibrate" /\ AskStatus
  BY <1>1, <1>2, AskStatusKeeps DEF Runs
<1>3. CASE machine[1] = "capture" /\ Run("capture", "WAIT_FINGER") /\ UNCHANGED <<vars, callee, num_frames>>
  <2>1. Continues
    BY <1>1, <1>3 DEF Continues, Run, Runs
  <2> QED BY <1>1, <1>3, <2>1, ContinuesKeeps
<1> QED BY <1>2, <1>3 DEF TimerFires

(* The finger is reported before the image is read.                            *)
LEMMA FingerFoundKeeps ==
  ASSUME Inv, ControlInv, callee = "none", Runs("capture"), FingerFound, UNCHANGED <<elan_active, deactivating>>
  PROVE  [Next]_vars /\ ControlInv'
PROOF
<1>1. /\ active /\ elan_active /\ state \in {"await_on", "capture", "deactivating"}
      /\ ~minutiae_scan_active
  BY DEF ControlInv, MachineInv, WorkInv, Runs
<1>2. /\ [Next]_vars /\ callee' = "none" /\ finger_present' = TRUE
      /\ state' = IF state = "await_on" THEN "capture" ELSE state
      /\ UNCHANGED <<active, minutiae_scan_active, current_action, cancel, idle_return>>
  BY <1>1, FingerOnEffect DEF FingerFound, ControlInv
<1>3. /\ Runs("capture")' /\ machine' # <<>> /\ (command' = "doomed" => Cancelled)
      /\ ~Runs("activate")' /\ ~Runs("calibrate")' /\ ~Runs("stop")'
  BY DEF FingerFound, Run, Runs
<1>4. Cancelled' = Cancelled
  BY <1>2 DEF Cancelled
<1>5. MachineInv'
  BY <1>1, <1>2, <1>3, <1>4 DEF MachineInv
<1>6. CalleeInv' /\ WorkInv' /\ AttendedInv'
  BY <1>1, <1>2, <1>3 DEF CalleeInv, WorkInv, AttendedInv
<1>7. DeactivationInv' /\ ScanInv'
  BY <1>1, <1>2 DEF ControlInv, DeactivationInv, ScanInv
<1> QED BY <1>2, <1>5, <1>6, <1>7 DEF ControlInv

LEMMA CaptureStepKeeps ==
  ASSUME Inv, ControlInv, CaptureStep
  PROVE  [Next]_vars /\ ControlInv'
PROOF
<1>1. callee = "none" /\ Runs("capture") /\ UNCHANGED <<elan_active, deactivating>>
  BY DEF CaptureStep, At, Runs
<1>2. CASE Run("capture", "WAIT_FINGER") /\ UNCHANGED <<vars, callee, num_frames>>
  <2>1. Continues
    BY <1>1, <1>2 DEF Continues, Run, Runs
  <2> QED BY <1>1, <1>2, <2>1, ContinuesKeeps
<1>3. CASE FingerFound
  BY <1>1, <1>3, FingerFoundKeeps
<1>4. CASE NotReady
  <2>1. Continues
    BY <1>1, <1>4 DEF Continues, NotReady, Runs
  <2> QED BY <1>1, <1>4, <2>1, ContinuesKeeps DEF NotReady
<1>5. CASE CaptureFails("error")
  BY <1>1, <1>5, SessionErrorStops DEF CaptureFails, StopCapture
<1> QED BY <1>2, <1>3, <1>4, <1>5 DEF CaptureStep

LEMMA FrameReadKeeps ==
  ASSUME Inv, ControlInv, FrameRead
  PROVE  [Next]_vars /\ ControlInv'
PROOF
<1>1. /\ callee = "none" /\ Runs("capture") /\ machine[2] = "READ_DATA"
      /\ UNCHANGED <<elan_active, deactivating>>
  BY DEF FrameRead, At, Runs
<1>2. CASE CaptureFails("error")
  BY <1>1, <1>2, SessionErrorStops DEF CaptureFails, StopCapture
<1>3. CASE Run("capture", "WAIT_FINGER") /\ UNCHANGED <<vars, callee>>
  <2>1. Continues
    BY <1>1, <1>3 DEF Continues, Run, Runs
  <2> QED BY <1>1, <1>3, <2>1, ContinuesKeeps
<1>4. CASE CaptureCompletes(MaxFrames)
  <2>1. ImageCapturedCall /\ Run("stop", "STOP_CAPTURE")
    BY <1>4, FramesBounds DEF CaptureCompletes, StopCapture
  <2> QED BY <1>1, <2>1, ImageStops
<1> QED BY <1>2, <1>3, <1>4 DEF FrameRead

LEMMA CaptureCommandFailsKeeps ==
  ASSUME Inv, ControlInv, NoRace, CaptureCommandFails
  PROVE  [Next]_vars /\ ControlInv'
PROOF
<1>1. callee = "none" /\ Runs("capture") /\ UNCHANGED <<elan_active, deactivating>>
  BY DEF CaptureCommandFails, Runs
<1>2. PICK failure \in Failures :
        IF failure = "timeout" /\ machine[2] = "WAIT_FINGER"
        THEN CaptureCompletes(num_frames)
        ELSE CaptureFails(Kind(failure))
  BY DEF CaptureCommandFails
<1>3. /\ Kind(failure) \in {"error", "cancelled"}
      /\ Kind(failure) = "cancelled" => Cancelled
      /\ failure = "timeout" => ~LateTimeout
  BY FailuresMean
<1>4. CASE CaptureFails(Kind(failure))
  BY <1>1, <1>3, <1>4, SessionErrorStops DEF CaptureFails, StopCapture
<1>5. CASE failure = "timeout" /\ CaptureCompletes(num_frames)
  <2>1. CASE num_frames >= MinFrames
    <3>1. num_frames # 0
      BY <2>1, FramesBounds
    <3>2. ImageCapturedCall /\ Run("stop", "STOP_CAPTURE")
      BY <1>5, <2>1 DEF CaptureCompletes, StopCapture
    <3> QED BY <1>1, <3>1, <3>2, ImageStops
  <2>2. CASE ~(num_frames >= MinFrames)
    <3>1. RetryScanCall /\ Run("stop", "STOP_CAPTURE")
      BY <1>5, <2>2 DEF CaptureCompletes, StopCapture
    <3> QED BY <1>1, <1>3, <1>5, <3>1, RetryStops
  <2> QED BY <2>1, <2>2
<1> QED BY <1>2, <1>4, <1>5

(* The device is inactive: the action is answered, or its scan will.           *)
LEMMA DeactivatedKeeps ==
  ASSUME Inv, ControlInv, active, state = "deactivating",
         ~elan_active', ~deactivating', machine' = <<>>, command' = "none", callee' = "none",
         active' = FALSE, finger_present' = FALSE, state' = "inactive",
         UNCHANGED <<minutiae_scan_active, current_action, cancel>>,
         ~minutiae_scan_active => idle_return' # <<>>
  PROVE  ControlInv'
PROOF
<1>1. \A m : ~Runs(m)'
  BY DEF Runs
<1>2. Cancelled' = Cancelled
  BY DEF Cancelled
<1>3. MachineInv' /\ CalleeInv' /\ WorkInv'
  BY <1>1 DEF MachineInv, CalleeInv, WorkInv
<1>4. DeactivationInv'
  BY DEF DeactivationInv
<1>5. ScanInv'
  BY <1>2 DEF ScanInv, ControlInv
<1>6. AttendedInv'
  BY DEF AttendedInv, Unanswered
<1> QED BY <1>3, <1>4, <1>5, <1>6 DEF ControlInv

(* dev_deactivate: a driver that has stopped completes at once, another one      *)
(* when its machine has.                                                      *)
LEMMA DevDeactivateKeeps ==
  ASSUME Inv, ControlInv, DevDeactivate
  PROVE  [Next]_vars /\ ControlInv'
PROOF
<1>1. /\ callee = "deactivate" /\ active /\ state = "deactivating" /\ ~deactivating
      /\ UNCHANGED <<elan_active, machine, command, calib_atts_left, num_frames>>
  BY DEF DevDeactivate, ControlInv, CalleeInv
<1>2. ~Runs("activate") /\ ~Runs("activate")' /\ \A m : Runs(m) <=> Runs(m)'
  BY <1>1 DEF ControlInv, MachineInv, Activating, Runs
<1>3. CASE elan_active /\ deactivating' = TRUE /\ callee' = "none" /\ UNCHANGED vars
  <2>1. Cancelled' = Cancelled
    BY <1>3 DEF Cancelled
  <2>2. MachineInv' /\ WorkInv'
    BY <1>1, <1>2, <1>3, <2>1 DEF ControlInv, MachineInv, WorkInv
  <2>3. machine' # <<>>
    BY <1>1, <1>3 DEF ControlInv, MachineInv
  <2>4. CalleeInv' /\ AttendedInv'
    BY <1>3, <2>3 DEF CalleeInv, AttendedInv
  <2>5. DeactivationInv' /\ ScanInv'
    BY <1>1, <1>3, <2>1 DEF ControlInv, DeactivationInv, ScanInv
  <2> QED BY <1>3, <2>2, <2>4, <2>5 DEF ControlInv
<1>4. CASE ~elan_active /\ DeactivateCompleteCall("none") /\ UNCHANGED deactivating
  <2>1. machine = <<>> /\ command = "none"
    BY <1>2, <1>4 DEF ControlInv, MachineInv
  <2>2. /\ [Next]_vars /\ callee' = "none"
        /\ active' = FALSE /\ finger_present' = FALSE /\ state' = "inactive"
        /\ UNCHANGED <<minutiae_scan_active, current_action, cancel>>
        /\ ~minutiae_scan_active => idle_return' # <<>>
    BY <1>1, <1>4, DeactivateCompleteEffect
  <2>3. ~elan_active' /\ ~deactivating' /\ machine' = <<>> /\ command' = "none"
    BY <1>1, <1>4, <2>1
  <2> QED BY <1>1, <2>2, <2>3, DeactivatedKeeps
<1> QED BY <1>3, <1>4 DEF DevDeactivate

(* stop_capture_complete.                                                      *)
LEMMA StopEndsKeeps ==
  ASSUME Inv, ControlInv, NoRace, StopEnds
  PROVE  [Next]_vars /\ ControlInv'
PROOF
<1>1. /\ callee = "none" /\ Runs("stop") /\ ~elan_active' /\ ~deactivating'
      /\ machine' = <<>> /\ command' = "none"
  BY DEF StopEnds, At, Halt, Runs
<1>2. active /\ Unanswered /\ InCapture
  BY <1>1, ActiveMeans DEF ControlInv, MachineInv, Runs
<1>3. state = "deactivating" <=> deactivating
  BY <1>1 DEF ControlInv, DeactivationInv
<1>4. \A m : ~Runs(m)'
  BY <1>1 DEF Runs
<1>5. PICK error \in {"none", "error"} :
        /\ ~StopFailsUnderScan(error)
        /\ IF deactivating THEN DeactivateCompleteCall(error)
           ELSE IF error = "none" THEN FingerOffCall ELSE SessionErrorCall(error)
  BY DEF StopEnds, NoRace
<1>6. CASE deactivating
  <2>1. /\ [Next]_vars /\ callee' = "none"
        /\ active' = FALSE /\ finger_present' = FALSE /\ state' = "inactive"
        /\ UNCHANGED <<minutiae_scan_active, current_action, cancel>>
        /\ ~minutiae_scan_active => idle_return' # <<>>
    BY <1>2, <1>3, <1>5, <1>6, DeactivateCompleteEffect
  <2> QED BY <1>1, <1>2, <1>3, <1>6, <2>1, DeactivatedKeeps
<1>7. CASE ~deactivating /\ FingerOffCall
  <2>1. /\ [Next]_vars /\ finger_present' = FALSE
        /\ state # "await_off" => state' = state /\ callee' = "none"
        /\ state = "await_off" /\ current_action # "enroll" =>
             state' = "deactivating" /\ callee' = "deactivate"
        /\ state = "await_off" /\ current_action = "enroll" =>
             \/ minutiae_scan_active /\ state' = "idle" /\ callee' = "none"
             \/ ~minutiae_scan_active /\ state' = "await_on" /\ callee' = "change_state"
        /\ UNCHANGED <<active, minutiae_scan_active, current_action, cancel, idle_return>>
    BY <1>2, <1>7, FingerOffEffect DEF ControlInv
  <2>2. Cancelled' = Cancelled /\ (~Cancelled => state = "await_off")
    BY <1>1, <1>3, <1>7, <2>1 DEF Cancelled, ControlInv, WorkInv
  <2>3. MachineInv' /\ WorkInv'
    BY <1>1, <1>4 DEF MachineInv, WorkInv
  <2>4. CalleeInv'
    BY <1>1, <1>2, <1>3, <1>7, <2>1 DEF CalleeInv
  <2>5. DeactivationInv'
    BY <1>1, <1>2, <1>3, <1>7, <2>1 DEF ControlInv, DeactivationInv
  <2>6. ScanInv'
    BY <1>2, <1>3, <1>7, <2>1, <2>2 DEF ControlInv, ScanInv
  <2>7. AttendedInv'
    BY <1>2, <2>1, <2>2 DEF AttendedInv
  <2> QED BY <2>1, <2>3, <2>4, <2>5, <2>6, <2>7 DEF ControlInv
<1>8. CASE ~deactivating /\ error = "error" /\ SessionErrorCall(error)
  <2>1. /\ [Next]_vars
        /\ UNCHANGED <<active, finger_present, minutiae_scan_active, current_action, cancel, idle_return>>
        /\ state' = "deactivating" /\ callee' = "deactivate"
    BY <1>1, <1>2, <1>3, <1>8, SessionErrorEffect DEF ControlInv
  <2>2. ~(current_action = "enroll" /\ minutiae_scan_active)
    BY <1>5, <1>8 DEF StopFailsUnderScan
  <2>3. MachineInv' /\ WorkInv' /\ AttendedInv'
    BY <1>1, <1>4, <2>1 DEF MachineInv, WorkInv, AttendedInv
  <2>4. CalleeInv' /\ DeactivationInv'
    BY <1>1, <1>2, <2>1 DEF CalleeInv, DeactivationInv
  <2>5. ScanInv'
    BY <1>2, <2>1, <2>2 DEF ControlInv, ScanInv
  <2> QED BY <2>1, <2>3, <2>4, <2>5 DEF ControlInv
<1> QED BY <1>5, <1>6, <1>7, <1>8

----------------------------------------------------------------------------
(* Every step of the layer under the driver keeps the control of it, too.       *)

(* The machine that runs is one of the four.                                   *)
LEMMA RunsSomething ==
  ASSUME ElanTypeOK, machine # <<>>
  PROVE  Runs("activate") \/ Runs("calibrate") \/ Runs("capture") \/ Runs("stop")
PROOF
<1>1. machine \in UNION {{m} \X States[m] : m \in DOMAIN States}
  BY DEF ElanTypeOK
<1>2. DOMAIN States = {"activate", "calibrate", "capture", "stop"}
  BY DEF States
<1>3. PICK m \in DOMAIN States : machine \in {m} \X States[m]
  BY <1>1
<1>4. machine[1] = m
  BY <1>3
<1> QED BY <1>2, <1>4 DEF Runs

LEMMA MachineHasAction ==
  ASSUME Inv, ControlInv, machine # <<>>
  PROVE  Unanswered /\ InCapture
PROOF
<1>1. CASE Runs("activate")
  BY <1>1 DEF ControlInv, MachineInv, Activating
<1>2. CASE ~Runs("activate")
  BY <1>2, ActiveMeans DEF ControlInv, MachineInv
<1> QED BY <1>1, <1>2

(* Around the actions that are no capture, the driver has nothing to do.        *)
LEMMA ElsewhereKeeps ==
  ASSUME Inv, ControlInv, callee = "none", ~(Unanswered /\ InCapture), ~InCapture',
         UNCHANGED <<elanVars, callee, active, finger_present, minutiae_scan_active>>,
         state' \in {state, "inactive"}
  PROVE  ControlInv'
PROOF
<1>1. machine = <<>> /\ ~active /\ ~minutiae_scan_active
  BY MachineHasAction DEF Inv, AnsweredIsQuiet, QuietInv, InCapture
<1>2. ~elan_active /\ command = "none" /\ ~deactivating /\ ~finger_present /\ state # "deactivating"
  BY <1>1 DEF ControlInv, MachineInv, DeactivationInv, ScanInv
<1>3. /\ machine' = <<>> /\ command' = "none" /\ ~elan_active' /\ ~deactivating'
      /\ ~active' /\ ~minutiae_scan_active' /\ ~finger_present' /\ callee' = "none"
      /\ state' # "deactivating"
  BY <1>1, <1>2 DEF elanVars
<1>4. \A m : ~Runs(m)'
  BY <1>3 DEF Runs
<1>5. MachineInv' /\ CalleeInv' /\ WorkInv'
  BY <1>3, <1>4 DEF MachineInv, CalleeInv, WorkInv
<1>6. DeactivationInv' /\ ScanInv' /\ AttendedInv'
  BY <1>3 DEF DeactivationInv, ScanInv, AttendedInv
<1> QED BY <1>5, <1>6 DEF ControlInv

LEMMA OtherActionsKeep ==
  ASSUME Inv, ControlInv, callee = "none", UNCHANGED <<elanVars, callee>>,
         Open \/ Close \/ TaskReturn \/ OpenComplete \/ CloseComplete
  PROVE  [Next]_vars /\ ControlInv'
PROOF
<1>1. [Next]_vars
  BY DEF Next, Client, Driver
<1>2. UNCHANGED <<active, finger_present, minutiae_scan_active>> /\ state' \in {state, "inactive"}
  BY DEF Open, Close, TaskReturn, OpenComplete, CloseComplete
<1>3. ~(Unanswered /\ InCapture) /\ ~InCapture'
  <2>1. CASE Open \/ Close
    BY <2>1 DEF Open, Close, Accept, InCapture
  <2>2. CASE TaskReturn
    BY <2>2 DEF TaskReturn, Unanswered, InCapture
  <2>3. CASE OpenComplete \/ CloseComplete
    BY <2>3 DEF OpenComplete, CloseComplete, Answer, InCapture
  <2> QED BY <2>1, <2>2, <2>3
<1> QED BY <1>1, <1>2, <1>3, ElsewhereKeeps

LEMMA CancelKeepsControl ==
  ASSUME Inv, ControlInv, callee = "none", UNCHANGED <<elanVars, callee>>, Cancel
  PROVE  [Next]_vars /\ ControlInv'
PROOF
<1>1. /\ cancel' = "asked" /\ Cancelled'
      /\ UNCHANGED <<imageVars, current_action, idle_return, elanVars, callee>>
  BY DEF Cancel, Cancelled
<1>2. /\ \A m : Runs(m) <=> Runs(m)'
      /\ Activating' = Activating /\ Unanswered' = Unanswered /\ InCapture' = InCapture
  BY <1>1 DEF Runs, Activating, Unanswered, InCapture, elanVars
<1>3. MachineInv' /\ CalleeInv' /\ WorkInv'
  BY <1>1, <1>2 DEF ControlInv, MachineInv, CalleeInv, WorkInv, elanVars
<1>4. DeactivationInv' /\ ScanInv' /\ AttendedInv'
  BY <1>1, <1>2 DEF ControlInv, DeactivationInv, ScanInv, AttendedInv, elanVars
<1> QED BY <1>3, <1>4 DEF ControlInv, Next, Client

(* An active device is told to deactivate, and is not so already, by the end of  *)
(* a cancel, of a scan, and of nothing else of the layer.                      *)
LEMMA ToldToDeactivate ==
  ASSUME Inv, ControlInv, callee = "none", active, active', UNCHANGED elanVars,
         UNCHANGED <<finger_present, current_action>>, minutiae_scan_active' => minutiae_scan_active,
         state' = "deactivating", Callback, Cancelled => Cancelled', UNCHANGED idle_return,
         current_action = "enroll" /\ minutiae_scan_active' => Cancelled'
  PROVE  ControlInv'
PROOF
<1>1. callee' = IF state = "deactivating" THEN "none" ELSE "deactivate"
  BY CallbackMeans
<1>2. (state = "deactivating" <=> deactivating) /\ deactivating' = deactivating
  BY DEF ControlInv, DeactivationInv, elanVars
<1>3. /\ \A m : Runs(m) <=> Runs(m)'
      /\ ~Runs("activate") /\ UNCHANGED <<machine, command, elan_active, calib_atts_left, num_frames>>
  BY DEF Runs, elanVars, ControlInv, MachineInv, Activating
<1>4. MachineInv' /\ CalleeInv'
  BY <1>1, <1>2, <1>3 DEF ControlInv, MachineInv, CalleeInv
<1>5. WorkInv' /\ DeactivationInv'
  BY <1>1, <1>2, <1>3 DEF ControlInv, WorkInv, DeactivationInv
<1>6. ScanInv'
  BY <1>1 DEF ScanInv
<1>7. AttendedInv'
  <2>1. callee' = "none" => machine' # <<>>
    BY <1>1, <1>2, <1>3 DEF ControlInv, MachineInv, DeactivationInv
  <2> QED BY <2>1 DEF AttendedInv
<1> QED BY <1>4, <1>5, <1>6, <1>7 DEF ControlInv

LEMMA CancelActionKeepsControl ==
  ASSUME Inv, ControlInv, callee = "none", UNCHANGED elanVars, CancelAction, Callback
  PROVE  [Next]_vars /\ ControlInv'
PROOF
<1>1. /\ cancel' = "told" /\ Cancelled' /\ Cancelled /\ Unanswered
      /\ UNCHANGED <<active, finger_present, minutiae_scan_active, current_action, idle_return>>
  BY DEF CancelAction, Cancelled
<1>2. CASE active
  <2>1. state' = "deactivating"
    BY <1>2, ActiveMeans DEF CancelAction, Deactivated
  <2> QED BY <1>1, <1>2, <2>1, ToldToDeactivate DEF Next
<1>3. CASE ~active
  <2>1. state' = state /\ callee' = "none"
    BY <1>3, CallbackMeans DEF CancelAction, Deactivated
  <2>2. /\ \A m : Runs(m) <=> Runs(m)'
        /\ Activating' = Activating /\ Unanswered' = Unanswered /\ InCapture' = InCapture
    BY <1>1, <2>1 DEF Runs, Activating, Unanswered, InCapture, elanVars
  <2>3. MachineInv' /\ CalleeInv' /\ WorkInv'
    BY <1>1, <2>1, <2>2 DEF ControlInv, MachineInv, CalleeInv, WorkInv, elanVars
  <2>4. DeactivationInv' /\ ScanInv' /\ AttendedInv'
    BY <1>1, <1>3, <2>1, <2>2 DEF ControlInv, DeactivationInv, ScanInv, AttendedInv, elanVars
  <2> QED BY <2>3, <2>4 DEF ControlInv, Next
<1> QED BY <1>2, <1>3

LEMMA MinutiaeKeepsControl ==
  ASSUME Inv, ElanTypeOK, ControlInv, callee = "none", UNCHANGED elanVars, MinutiaeDetected, Callback
  PROVE  [Next]_vars /\ ControlInv'
PROOF
<1>1. /\ minutiae_scan_active /\ minutiae_scan_active' = FALSE /\ Unanswered /\ InCapture
      /\ UNCHANGED <<active, finger_present, current_action, cancel>>
      /\ \/ state' = Deactivated(state)
         \/ state' = state /\ ~Cancelled /\ current_action # "enroll"
         \/ state' = NextFinger(state, finger_present, FALSE) /\ ~Cancelled /\ current_action = "enroll"
      /\ active => UNCHANGED idle_return
      /\ ~active => \/ idle_return' # <<>>
                    \/ current_action = "enroll" /\ ~Cancelled
  BY MinutiaeEffect
<1>2. /\ \A m : Runs(m) <=> Runs(m)'
      /\ UNCHANGED <<machine, command, elan_active, deactivating, calib_atts_left, num_frames>>
      /\ Cancelled' = Cancelled /\ InCapture' = InCapture
  BY <1>1 DEF Runs, elanVars, Cancelled, InCapture
<1>3. ~Runs("activate") /\ ~Runs("calibrate") /\ ~Runs("capture") /\ state \notin {"await_on", "capture"}
  BY <1>1 DEF Inv, QuietInv, NoScanWhileCapturing, ControlInv, MachineInv, WorkInv, Activating
<1>4. MachineInv'
  BY <1>1, <1>2, <1>3 DEF ControlInv, MachineInv
<1>5. CASE ~active
  <2>1. idle_return' # <<>> /\ ~(current_action = "enroll" /\ ~Cancelled) /\ machine = <<>>
    BY <1>1, <1>3, <1>5 DEF ControlInv, ScanInv, MachineInv
  <2>2. state' = state /\ callee' = "none"
    BY <1>1, <1>5, <2>1, CallbackMeans DEF Deactivated
  <2>3. \A m : ~Runs(m)'
    BY <1>2, <2>1 DEF Runs
  <2>4. CalleeInv' /\ WorkInv'
    BY <2>2, <2>3 DEF CalleeInv, WorkInv
  <2>5. DeactivationInv' /\ ScanInv'
    BY <1>1, <1>2, <1>5, <2>2 DEF ControlInv, DeactivationInv, ScanInv
  <2>6. AttendedInv'
    BY <1>1, <1>5, <2>1 DEF AttendedInv, Unanswered
  <2> QED BY <1>4, <2>4, <2>5, <2>6 DEF ControlInv, Next
<1>6. CASE active /\ state' = Deactivated(state)
  <2>1. state' = "deactivating" /\ active' /\ UNCHANGED idle_return
    BY <1>1, <1>6 DEF Deactivated
  <2> QED BY <1>1, <1>2, <1>6, <2>1, ToldToDeactivate DEF Next
<1>7. CASE active /\ state' = state /\ ~Cancelled /\ (current_action = "enroll" => finger_present)
  <2>1. callee' = "none" /\ active' = active
    BY <1>1, <1>7, CallbackMeans
  <2>2. CalleeInv' /\ WorkInv'
    BY <1>1, <1>2, <1>3, <1>7, <2>1 DEF ControlInv, CalleeInv, WorkInv
  <2>3. DeactivationInv' /\ ScanInv'
    BY <1>1, <1>2, <1>7, <2>1 DEF ControlInv, DeactivationInv, ScanInv
  <2>4. AttendedInv'
    BY <1>1, <1>2, <1>7, <2>1 DEF ControlInv, AttendedInv, ScanInv
  <2> QED BY <1>4, <2>2, <2>3, <2>4 DEF ControlInv, Next
<1>8. CASE active /\ state' = "await_on" /\ ~finger_present /\ ~Cancelled /\ current_action = "enroll"
  <2>1. state \notin {"deactivating", "await_off"}
    BY <1>1, <1>8 DEF ControlInv, ScanInv
  <2>2. ~Runs("stop") /\ ~elan_active /\ ~deactivating
    <3>1. ~Runs("stop")
      BY <1>8, <2>1 DEF ControlInv, WorkInv
    <3>2. ~deactivating
      BY <2>1 DEF ControlInv, DeactivationInv
    <3>3. CASE machine = <<>>
      BY <3>1, <3>2, <3>3 DEF ControlInv, MachineInv
    <3>4. CASE machine # <<>>
      BY <3>1, <3>2, <3>4, RunsSomething, <1>3
    <3> QED BY <3>3, <3>4
  <2>3. callee' = "change_state" /\ active' = active
    BY <1>1, <1>3, <1>8, CallbackMeans
  <2>4. CalleeInv' /\ WorkInv' /\ AttendedInv'
    BY <1>2, <1>3, <1>8, <2>2, <2>3 DEF CalleeInv, WorkInv, AttendedInv
  <2>5. DeactivationInv' /\ ScanInv'
    BY <1>1, <1>2, <1>8, <2>1, <2>2, <2>3 DEF ControlInv, DeactivationInv, ScanInv
  <2> QED BY <1>4, <2>4, <2>5 DEF ControlInv, Next
<1>9. NextFinger(state, finger_present, FALSE) = IF finger_present THEN state ELSE "await_on"
  BY DEF NextFinger
<1> QED BY <1>1, <1>5, <1>6, <1>7, <1>8, <1>9

(* A capture action begins: the driver is activated, or it fails at once.       *)
LEMMA ElanStartKeeps ==
  ASSUME Inv, ControlInv, callee = "none", UNCHANGED elanVars, ElanStart
  PROVE  [Next]_vars /\ ControlInv'
PROOF
<1>1. PICK action \in Captures : Start(action)
  BY DEF ElanStart
<1>2. /\ current_action = "none" /\ current_action' = action /\ idle_return = <<>> /\ cancel' = "no"
      /\ callee' = IF idle_return' = idle_return THEN "activate" ELSE "none"
  BY <1>1 DEF Start, Accept, ElanStart, Inv, QuietInv
<1>3. machine = <<>> /\ ~active /\ ~minutiae_scan_active
  BY <1>2, MachineHasAction DEF Inv, AnsweredIsQuiet, Unanswered
<1>4. ~elan_active /\ command = "none" /\ ~deactivating /\ ~finger_present /\ state # "deactivating"
  BY <1>3 DEF ControlInv, MachineInv, DeactivationInv, ScanInv
<1>5. /\ machine' = <<>> /\ command' = "none" /\ ~elan_active' /\ ~deactivating'
      /\ \A m : ~Runs(m)'
  BY <1>3, <1>4 DEF elanVars, Runs
<1>6. /\ ~active' /\ ~minutiae_scan_active' /\ ~finger_present' /\ state' # "deactivating"
      /\ \/ state' = "activating" /\ idle_return' = <<>> /\ callee' = "activate"
         \/ idle_return' # <<>> /\ callee' = "none"
  <2>1. CASE state' = "activating" /\ UNCHANGED <<active, finger_present, minutiae_scan_active, idle_return>>
    BY <1>2, <1>3, <1>4, <2>1
  <2>2. CASE idle_return' = <<"error">> /\ UNCHANGED imageVars
    BY <1>2, <1>3, <1>4, <2>2
  <2> QED BY <1>1, <2>1, <2>2 DEF Start
<1>7. MachineInv' /\ WorkInv'
  BY <1>5 DEF MachineInv, WorkInv
<1>8. CalleeInv'
  BY <1>2, <1>5, <1>6 DEF CalleeInv, Activating, Unanswered, InCapture
<1>9. DeactivationInv' /\ ScanInv' /\ AttendedInv'
  BY <1>2, <1>5, <1>6 DEF DeactivationInv, ScanInv, AttendedInv, Unanswered
<1> QED BY <1>1, <1>7, <1>8, <1>9 DEF ControlInv, Next, Client

LEMMA LayerKeeps ==
  ASSUME Inv, ElanTypeOK, ControlInv, Layer
  PROVE  [Next]_vars /\ ControlInv'
PROOF
<1>1. callee = "none" /\ UNCHANGED elanVars
  BY DEF Layer
<1>2. CASE (Open \/ Close \/ TaskReturn \/ OpenComplete \/ CloseComplete) /\ UNCHANGED callee
  BY <1>1, <1>2, OtherActionsKeep
<1>3. CASE Cancel /\ UNCHANGED callee
  BY <1>1, <1>3, CancelKeepsControl
<1>4. CASE (CancelAction \/ MinutiaeDetected) /\ Callback
  BY <1>1, <1>4, CancelActionKeepsControl, MinutiaeKeepsControl
<1>5. CASE ElanStart
  BY <1>1, <1>5, ElanStartKeeps
<1> QED BY <1>2, <1>3, <1>4, <1>5 DEF Layer

----------------------------------------------------------------------------
(* The variables of the driver keep to their types.                            *)

DriverTypes ==
  /\ dev_type \in {"0907", "0c58", "other"}
  /\ {elan_active, deactivating} \subseteq BOOLEAN
  /\ calib_atts_left \in 0..CalibrationAttempts
  /\ calib_status \in {"00", "01", "03"}
  /\ num_frames \in 0..MaxFrames
  /\ machine \in {<<>>} \cup UNION {{m} \X States[m] : m \in DOMAIN States}
  /\ command \in {"none", "sent", "doomed", "timer"}
  /\ callee \in {"none", "activate", "deactivate", "change_state"}

LEMMA TypesAre == ElanTypeOK <=> TypeOK /\ DriverTypes
PROOF BY DEF ElanTypeOK, DriverTypes

LEMMA RunTypes ==
  ASSUME NEW m \in DOMAIN States, NEW s \in States[m], Run(m, s)
  PROVE  /\ machine' \in {<<>>} \cup UNION {{k} \X States[k] : k \in DOMAIN States}
         /\ command' \in {"none", "sent", "doomed", "timer"}
PROOF
<1>1. machine' = <<m, s>> /\ command' \in {"doomed", "sent"}
  BY DEF Run
<1>2. <<m, s>> \in {m} \X States[m]
  OBVIOUS
<1>3. machine' \in UNION {{k} \X States[k] : k \in DOMAIN States}
  BY <1>1, <1>2
<1> QED BY <1>1, <1>3

(* The states that each machine runs through.                                  *)
LEMMA RunAnyTypes ==
  ASSUME \/ \E s \in {"GET_FW_VER", "GET_SENSOR_DIM", "CMD_1"} : Run("activate", s)
         \/ \E s \in {"GET_BACKGROUND", "GET_MEAN", "GET_STATUS"} : Run("calibrate", s)
         \/ \E s \in {"LED_ON", "WAIT_FINGER", "READ_DATA"} : Run("capture", s)
         \/ Run("stop", "STOP_CAPTURE")
  PROVE  /\ machine' \in {<<>>} \cup UNION {{k} \X States[k] : k \in DOMAIN States}
         /\ command' \in {"none", "sent", "doomed", "timer"}
PROOF
<1>1. /\ {"activate", "calibrate", "capture", "stop"} = DOMAIN States
      /\ States["activate"] = {"GET_FW_VER", "GET_SENSOR_DIM", "CMD_1"}
      /\ States["calibrate"] = {"GET_BACKGROUND", "GET_MEAN", "GET_STATUS"}
      /\ States["capture"] = {"LED_ON", "WAIT_FINGER", "READ_DATA"}
      /\ States["stop"] = {"STOP_CAPTURE"}
  BY DEF States
<1>2. PICK m \in DOMAIN States : \E s \in States[m] : Run(m, s)
  <2>1. CASE \E s \in {"GET_FW_VER", "GET_SENSOR_DIM", "CMD_1"} : Run("activate", s)
    BY <1>1, <2>1
  <2>2. CASE \E s \in {"GET_BACKGROUND", "GET_MEAN", "GET_STATUS"} : Run("calibrate", s)
    BY <1>1, <2>2
  <2>3. CASE \E s \in {"LED_ON", "WAIT_FINGER", "READ_DATA"} : Run("capture", s)
    BY <1>1, <2>3
  <2>4. CASE Run("stop", "STOP_CAPTURE")
    BY <1>1, <2>4
  <2> QED BY <2>1, <2>2, <2>3, <2>4
<1> QED BY <1>2, RunTypes

LEMMA CallbackTypes ==
  ASSUME Callback
  PROVE  callee' \in {"none", "activate", "deactivate", "change_state"}
PROOF BY DEF Callback

LEMMA CallTypes ==
  ASSUME DriverTypes, NEW error,
         \/ ActivateCompleteCall(error) \/ DeactivateCompleteCall(error) \/ FingerOnCall
         \/ FingerOffCall \/ ImageCapturedCall \/ RetryScanCall \/ SessionErrorCall(error)
  PROVE  callee' \in {"none", "activate", "deactivate", "change_state"}
PROOF
<1>1. Callback \/ callee' = callee
  BY DEF ActivateCompleteCall, DeactivateCompleteCall, FingerOnCall, FingerOffCall,
     ImageCapturedCall, RetryScanCall, SessionErrorCall, Call
<1> QED BY <1>1, CallbackTypes DEF DriverTypes

LEMMA ConstantsBound ==
  /\ CalibrationAttempts \in 0..CalibrationAttempts
  /\ 0 \in 0..MaxFrames
PROOF
<1>1. CalibrationAttempts \in Nat \ {0} /\ MaxFrames \in Nat
  BY ElanAssumption
<1> QED BY <1>1

LEMMA AskStatusTypes ==
  ASSUME DriverTypes, calib_atts_left # 0, AskStatus, UNCHANGED <<dev_type, elan_active, deactivating>>
  PROVE  DriverTypes'
PROOF
<1>1. calib_atts_left' \in 0..CalibrationAttempts
  <2>1. CalibrationAttempts \in Nat
    BY ElanAssumption
  <2> QED BY <2>1 DEF AskStatus, DriverTypes
<1>2. CASE CalibrateFails("error")
  <2>1. Run("stop", "STOP_CAPTURE") /\ calib_status' = "00" /\ num_frames' = 0
    BY <1>2 DEF CalibrateFails, StopCapture, ResetState
  <2>2. callee' \in {"none", "activate", "deactivate", "change_state"}
    BY <1>2, CallTypes DEF CalibrateFails
  <2> QED BY <1>1, <2>1, <2>2, RunAnyTypes, ConstantsBound DEF DriverTypes
<1>3. CASE /\ Run("calibrate", "GET_STATUS")
           /\ UNCHANGED <<vars, callee, num_frames>>
           /\ calib_status' = IF machine[2] = "GET_MEAN" THEN "00" ELSE calib_status
  BY <1>1, <1>3, RunAnyTypes DEF DriverTypes
<1> QED BY <1>2, <1>3 DEF AskStatus

LEMMA CommandEndsTypes ==
  ASSUME Inv, DriverTypes, ControlInv, CommandEnds
  PROVE  DriverTypes'
PROOF
<1> DEFINE MachineTypes == /\ machine' \in {<<>>} \cup UNION {{k} \X States[k] : k \in DOMAIN States}
                           /\ command' \in {"none", "sent", "doomed", "timer"}
<1> DEFINE CalleeTypes == callee' \in {"none", "activate", "deactivate", "change_state"}
<1>1. CASE ActivateStep
  <2>1. MachineTypes
    BY <1>1, RunAnyTypes DEF ActivateStep, Halt
  <2>2. CalleeTypes
    BY <1>1, CallTypes DEF ActivateStep, DriverTypes
  <2> QED BY <1>1, <2>1, <2>2 DEF ActivateStep, DriverTypes
<1>2. CASE ActivateFails
  <2>1. MachineTypes
    BY <1>2 DEF ActivateFails, Halt
  <2>2. CalleeTypes
    BY <1>2, CallTypes DEF ActivateFails
  <2> QED BY <1>2, <2>1, <2>2 DEF ActivateFails, DriverTypes
<1>3. CASE CalibrateStep
  <2>1. CASE StartCapture /\ UNCHANGED <<vars, callee>>
    BY <1>3, <2>1, RunAnyTypes, ConstantsBound DEF CalibrateStep, StartCapture, ResetState, DriverTypes
  <2>2. CASE Run("calibrate", "GET_MEAN") /\ UNCHANGED <<vars, callee, calib_atts_left, calib_status, num_frames>>
    BY <1>3, <2>2, RunAnyTypes DEF CalibrateStep, DriverTypes
  <2>3. CASE AskStatus /\ At("calibrate", "GET_MEAN")
    <3>1. calib_atts_left # 0
      BY <2>3 DEF At, ControlInv, WorkInv, Runs
    <3> QED BY <1>3, <2>3, <3>1, AskStatusTypes DEF CalibrateStep
  <2> QED BY <1>3, <2>1, <2>2, <2>3 DEF CalibrateStep
<1>4. CASE CheckStatus
  <2>1. MachineTypes /\ calib_status' \in {"00", "01", "03"}
    BY <1>4, RunAnyTypes DEF CheckStatus, DriverTypes
  <2> QED BY <1>4, <2>1 DEF CheckStatus, DriverTypes
<1>5. CASE CalibrateCommandFails
  <2>1. PICK failure \in Failures : CalibrateFails(Kind(failure))
    BY <1>5 DEF CalibrateCommandFails
  <2>2. MachineTypes /\ calib_status' = "00" /\ num_frames' = 0
    BY <2>1, RunAnyTypes DEF CalibrateFails, StopCapture, ResetState
  <2>3. CalleeTypes
    BY <2>1, CallTypes DEF CalibrateFails
  <2> QED BY <1>5, <2>2, <2>3, ConstantsBound DEF CalibrateCommandFails, DriverTypes
<1>6. ASSUME NEW error, CaptureFails(error), UNCHANGED <<dev_type, elan_active, deactivating, calib_atts_left>>
      PROVE  DriverTypes'
  <2>1. MachineTypes /\ calib_status' = "00" /\ num_frames' = 0
    BY <1>6, RunAnyTypes DEF CaptureFails, StopCapture, ResetState
  <2>2. CalleeTypes
    BY <1>6, CallTypes DEF CaptureFails
  <2> QED BY <1>6, <2>1, <2>2, ConstantsBound DEF DriverTypes
<1>7. ASSUME NEW frames, CaptureCompletes(frames), UNCHANGED <<dev_type, elan_active, deactivating, calib_atts_left>>
      PROVE  DriverTypes'
  <2>1. MachineTypes /\ calib_status' = "00" /\ num_frames' = 0
    BY <1>7, RunAnyTypes DEF CaptureCompletes, StopCapture, ResetState
  <2>2. CalleeTypes
    BY <1>7, CallTypes DEF CaptureCompletes
  <2> QED BY <1>7, <2>1, <2>2, ConstantsBound DEF DriverTypes
<1>8. CASE CaptureStep
  <2>1. CASE Run("capture", "WAIT_FINGER") /\ UNCHANGED <<vars, callee, calib_status, num_frames>>
    BY <1>8, <2>1, RunAnyTypes DEF CaptureStep, DriverTypes
  <2>2. CASE FingerFound
    <3>1. MachineTypes
      BY <2>2, RunAnyTypes DEF FingerFound
    <3>2. CalleeTypes
      BY <2>2, CallTypes DEF FingerFound
    <3> QED BY <1>8, <2>2, <3>1, <3>2 DEF CaptureStep, FingerFound, DriverTypes
  <2>3. CASE NotReady
    BY <1>8, <2>3 DEF CaptureStep, NotReady, DriverTypes
  <2> QED BY <1>6, <1>8, <2>1, <2>2, <2>3 DEF CaptureStep
<1>9. CASE FrameRead
  <2>1. CASE /\ num_frames + 1 < MaxFrames /\ num_frames' = num_frames + 1
             /\ Run("capture", "WAIT_FINGER") /\ UNCHANGED <<vars, callee, calib_status>>
    <3>1. num_frames' \in 0..MaxFrames
      BY <2>1, FramesBounds DEF DriverTypes
    <3> QED BY <1>9, <2>1, <3>1, RunAnyTypes DEF FrameRead, DriverTypes
  <2> QED BY <1>6, <1>7, <1>9, <2>1 DEF FrameRead
<1>10. CASE CaptureCommandFails
  BY <1>6, <1>7, <1>10 DEF CaptureCommandFails
<1>11. CASE TimerFires
  <2>1. CASE machine[1] = "calibrate" /\ AskStatus
    <3>1. calib_atts_left # 0
      BY <1>11, <2>1 DEF TimerFires, ControlInv, MachineInv, WorkInv, Runs
    <3> QED BY <1>11, <2>1, <3>1, AskStatusTypes DEF TimerFires
  <2>2. CASE Run("capture", "WAIT_FINGER") /\ UNCHANGED <<vars, callee, calib_atts_left, calib_status, num_frames>>
    BY <1>11, <2>2, RunAnyTypes DEF TimerFires, DriverTypes
  <2> QED BY <1>11, <2>1, <2>2 DEF TimerFires
<1>12. CASE StopEnds
  <2>1. CalleeTypes
    BY <1>12, CallTypes DEF StopEnds
  <2> QED BY <1>12, <2>1 DEF StopEnds, Halt, DriverTypes
<1> QED BY <1>1, <1>2, <1>3, <1>4, <1>5, <1>8, <1>9, <1>10, <1>11, <1>12 DEF CommandEnds

LEMMA OtherTypes ==
  ASSUME DriverTypes, Layer \/ CalledBack
  PROVE  DriverTypes'
PROOF
<1>1. CASE Layer
  <2>1. callee' \in {"none", "activate", "deactivate", "change_state"}
    BY <1>1, CallbackTypes DEF Layer, ElanStart
  <2> QED BY <1>1, <2>1 DEF Layer, elanVars, DriverTypes
<1>2. CASE DevActivate
  BY <1>2, RunAnyTypes, ConstantsBound DEF DevActivate, ResetState, DriverTypes
<1>3. CASE DevChangeState
  <2>1. CASE elan_active
    BY <1>3, <2>1, ConstantsBound DEF DevChangeState, ResetState, DriverTypes
  <2>2. CASE ~elan_active
    BY <1>3, <2>2, RunAnyTypes, ConstantsBound DEF DevChangeState, ResetState, DriverTypes
  <2> QED BY <2>1, <2>2
<1>4. CASE DevDeactivate
  <2>1. callee' \in {"none", "activate", "deactivate", "change_state"}
    BY <1>4, CallTypes DEF DevDeactivate
  <2> QED BY <1>4, <2>1 DEF DevDeactivate, DriverTypes
<1> QED BY <1>1, <1>2, <1>3, <1>4 DEF CalledBack

----------------------------------------------------------------------------
(* Theorems about elan under the layer.                                        *)

ElanInv == Inv /\ DriverTypes /\ ControlInv

LEMMA ElanInitInv == ElanInit => ElanInv
PROOF
<1> SUFFICES ASSUME ElanInit PROVE ElanInv
  OBVIOUS
<1>1. Inv
  BY InitInv DEF ElanInit
<1>2. DriverTypes
  <2>1. CalibrationAttempts \in Nat \ {0} /\ MaxFrames \in Nat
    BY ElanAssumption
  <2>2. 0 \in 0..CalibrationAttempts /\ 0 \in 0..MaxFrames
    BY <2>1
  <2>3. machine \in {<<>>} \cup UNION {{m} \X States[m] : m \in DOMAIN States}
    BY DEF ElanInit
  <2> QED BY <2>2, <2>3 DEF ElanInit, DriverTypes
<1>3. ControlInv
  BY DEF ElanInit, Init, ControlInv, MachineInv, CalleeInv, WorkInv, DeactivationInv, ScanInv,
     AttendedInv, Runs, Activating, Unanswered
<1> QED BY <1>1, <1>2, <1>3 DEF ElanInv

LEMMA ElanStutters ==
  ASSUME ElanInv, UNCHANGED allVars
  PROVE  [Next]_vars /\ ElanInv'
PROOF
<1>1. UNCHANGED vars /\ UNCHANGED elanVars /\ UNCHANGED callee
  BY DEF allVars
<1>2. Inv'
  BY <1>1, NextKeeps DEF ElanInv
<1>3. /\ \A m : Runs(m) <=> Runs(m)'
      /\ Activating' = Activating /\ Unanswered' = Unanswered /\ InCapture' = InCapture
      /\ Cancelled' = Cancelled
  BY <1>1 DEF Runs, Activating, Unanswered, InCapture, Cancelled, elanVars
<1>4. MachineInv' /\ CalleeInv' /\ WorkInv'
  BY <1>1, <1>3 DEF ElanInv, ControlInv, MachineInv, CalleeInv, WorkInv, elanVars
<1>5. DeactivationInv' /\ ScanInv' /\ AttendedInv'
  BY <1>1, <1>3 DEF ElanInv, ControlInv, DeactivationInv, ScanInv, AttendedInv, elanVars
<1>6. DriverTypes'
  BY <1>1 DEF ElanInv, DriverTypes, elanVars
<1> QED BY <1>1, <1>2, <1>4, <1>5, <1>6 DEF ElanInv, ControlInv

(* A step of elan is a step of the layer over a driver of its contract, or it   *)
(* does not concern the layer.                                                *)
LEMMA ElanNextKeeps ==
  ASSUME ElanInv, NoRace, [ElanNext]_allVars
  PROVE  [Next]_vars /\ ElanInv'
PROOF
<1>1. Inv /\ DriverTypes /\ ControlInv /\ ElanTypeOK
  BY TypesAre DEF ElanInv, Inv
<1>2. CASE Layer
  <2>1. [Next]_vars /\ ControlInv'
    BY <1>1, <1>2, LayerKeeps
  <2> QED BY <1>1, <1>2, <2>1, NextKeeps, OtherTypes DEF ElanInv
<1>3. CASE CalledBack
  <2>1. [Next]_vars /\ ControlInv'
    BY <1>1, <1>3, DevActivateKeeps, DevChangeStateKeeps, DevDeactivateKeeps DEF CalledBack
  <2> QED BY <1>1, <1>3, <2>1, NextKeeps, OtherTypes DEF ElanInv
<1>4. CASE CommandEnds
  <2>1. [Next]_vars /\ ControlInv'
    BY <1>1, <1>4, ActivateStepKeeps, ActivateFailsKeeps, CalibrateStepKeeps, CheckStatusKeeps,
       CalibrateCommandFailsKeeps, CaptureStepKeeps, FrameReadKeeps, CaptureCommandFailsKeeps,
       TimerFiresKeeps, StopEndsKeeps DEF CommandEnds
  <2> QED BY <1>1, <1>4, <2>1, NextKeeps, CommandEndsTypes DEF ElanInv
<1>5. CASE UNCHANGED allVars
  BY <1>5, ElanStutters
<1> QED BY <1>2, <1>3, <1>4, <1>5 DEF ElanNext

(* The inductive invariant holds under elan, if none of the races comes.        *)
THEOREM ElanInvariant == NoRace /\ ElanSpec => []ElanInv
PROOF
<1>1. NoRace /\ ElanInv /\ [ElanNext]_allVars => ElanInv'
  BY ElanNextKeeps
<1>2. CASE NoRace
  BY <1>1, <1>2, ElanInitInv, PTL DEF ElanSpec
<1> QED BY <1>2

(* The variables of layer and driver keep to their types: the frame and the     *)
(* calibration counter of elan.c stay within their bounds, too.                *)
THEOREM ElanTypeCorrect == NoRace /\ ElanSpec => []ElanTypeOK
PROOF
<1>1. ElanInv => ElanTypeOK
  BY TypesAre DEF ElanInv, Inv
<1> QED BY <1>1, ElanInvariant, PTL

(* elan.c is a driver as the layer assumes one: under every interleaving of its  *)
(* commands' ends, timeouts and failures with cancel, scan and finger, it calls *)
(* the layer only where FpImageDevice lets a driver do so.                     *)
THEOREM ElanKeepsContract == NoRace /\ ElanSpec => KeepsContract
PROOF
<1>1. NoRace /\ ElanInv /\ [ElanNext]_allVars => [Next]_vars
  BY ElanNextKeeps
<1>2. CASE NoRace
  BY <1>1, <1>2, ElanInvariant, PTL DEF ElanSpec, KeepsContract
<1> QED BY <1>2

(* The guarantees of the layer hold under elan: answers find everything quiet,  *)
(* no image is awaited under a scan, and no success is without its result.      *)
THEOREM ElanKeepsLayer ==
  NoRace /\ ElanSpec => [](AnsweredIsQuiet /\ NoScanWhileCapturing /\ SuccessIsWhole)
PROOF
<1>1. ElanInv => AnsweredIsQuiet /\ NoScanWhileCapturing /\ SuccessIsWhole
  BY DEF ElanInv, Inv
<1> QED BY <1>1, ElanInvariant, PTL

(* An answered action leaves no scan, no machine of elan.c and no finger that    *)
(* the next start would find.                                                 *)
THEOREM ElanQuiet == NoRace /\ ElanSpec => []ElanIsQuiet
PROOF
<1>1. ElanInv => ElanIsQuiet
  <2> SUFFICES ASSUME ElanInv, current_action = "none"
               PROVE  /\ ~active /\ ~minutiae_scan_active /\ ~elan_active /\ machine = <<>>
                      /\ ~finger_present
    BY DEF ElanIsQuiet, StartsClean
  <2>1. ~active /\ ~minutiae_scan_active
    BY DEF ElanInv, Inv, QuietInv
  <2>2. machine = <<>>
    BY MachineHasAction DEF ElanInv, Unanswered
  <2> QED BY <2>1, <2>2 DEF ElanInv, ControlInv, MachineInv, ScanInv
<1> QED BY <1>1, ElanInvariant, PTL

(* Between two callbacks, a running capture has something that will move it: a   *)
(* machine of elan.c, the scan of an image, or a cancel that is on its way.     *)
Attended ==
  callee = "none" /\ Unanswered /\ InCapture
    => machine # <<>> \/ minutiae_scan_active \/ cancel = "asked"

(* No capture is left with nothing under way: the safety half of every action    *)
(* being answered.                                                            *)
THEOREM CapturesAreAttended == NoRace /\ ElanSpec => []Attended
PROOF
<1>1. ElanInv => Attended
  <2> SUFFICES ASSUME ElanInv, callee = "none", Unanswered, InCapture, machine = <<>>, cancel # "asked"
               PROVE  minutiae_scan_active
    BY DEF Attended
  <2>1. active => cancel # "told"
    BY DEF ElanInv, ControlInv, MachineInv, DeactivationInv
  <2>2. cancel \in {"no", "asked", "told"}
    BY DEF ElanInv, Inv, TypeOK
  <2> QED BY <2>1, <2>2 DEF ElanInv, ControlInv, AttendedInv, Cancelled
<1> QED BY <1>1, ElanInvariant, PTL

(* A deactivation is on its way to the driver, or waits for the machine whose    *)
(* end completes it.                                                          *)
DeactivationWaits ==
  state = "deactivating" => \/ callee = "deactivate"
                            \/ deactivating /\ machine # <<>> /\ ~Runs("activate")

(* elan.c never loses a deactivation, whatever its machines were at when         *)
(* dev_deactivate was called.                                                 *)
THEOREM DeactivationsWait == NoRace /\ ElanSpec => []DeactivationWaits
PROOF
<1>1. ElanInv => DeactivationWaits
  BY DEF ElanInv, ControlInv, MachineInv, DeactivationInv, DeactivationWaits
<1> QED BY <1>1, ElanInvariant, PTL
=============================================================================
