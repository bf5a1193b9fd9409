-------------------------------- MODULE FpiSsm --------------------------------
(* The sequential state machines that every driver is written with: a chain   *)
(* of a machine, the sub-machine one of its states has started, the one of    *)
(* that, and so on.  Calls are synchronous, so one handler or completion      *)
(* callback at a time is on the stack; what it calls last moves a machine on  *)
(* and enters the next handler.  With nothing on the stack the main loop      *)
(* dispatches the transfers and the timers the machines wait for.  The driver *)
(* is the environment: in its handler, in the callback of its transfer or in  *)
(* an event that overtakes a timer, it calls any operation of fpi-ssm.c.      *)
EXTENDS Naturals

CONSTANTS
  Depth,                       \* machines: 1 is the root, m + 1 a child of m
  NrStates, StartCleanup,      \* of each machine, as given to fpi_ssm_new_full
  Jumps,                       \* of each machine, <<from, to>> its driver uses
  Errors, None

Machine == 1..Depth

ASSUME SsmAssumption ==
  /\ Depth \in Nat \ {0}
  /\ NrStates \in [Machine -> Nat \ {0}]
  /\ StartCleanup \in [Machine -> Nat \ {0}]
  /\ \A m \in Machine : StartCleanup[m] <= NrStates[m]
  /\ Jumps \in [Machine -> SUBSET (Nat \X Nat)]
  /\ \A m \in Machine : \A j \in Jumps[m] : j[1] < NrStates[m] /\ j[2] <= NrStates[m]
  /\ None \notin Errors

(* No driver jumps back out of its cleanup.                                   *)
ASSUME CleanupAssumption ==
  \A m \in Machine : \A j \in Jumps[m] : j[1] >= StartCleanup[m] => j[2] >= StartCleanup[m]

VARIABLES
  allocated,                   \* the machine exists: started and not yet freed
  cur_state,
  completed,
  error,
  timeout,                     \* its delayed change: "no", "next", "complete", "jump"
  target,                      \* next_state of the delayed jump
  transfer,                    \* a transfer of the driver will call back
  stack,                       \* what runs: <<"loop", 0>>, <<"handler", m>>, <<"callback", m>>
  first,                       \* history: the first error it was marked failed with
  cleaned                      \* history: the cleanup states entered on its way out

vars == <<allocated, cur_state, completed, error, timeout, target, transfer, stack,
          first, cleaned>>

Delayed == {"next", "complete", "jump"}

TypeOK ==
  /\ allocated \in [Machine -> BOOLEAN]
  /\ cur_state \in [Machine -> Nat] /\ \A m \in Machine : cur_state[m] <= NrStates[m]
  /\ completed \in [Machine -> BOOLEAN]
  /\ error \in [Machine -> Errors \cup {None}]
  /\ timeout \in [Machine -> Delayed \cup {"no"}]
  /\ target \in [Machine -> Nat]
  /\ transfer \in [Machine -> BOOLEAN]
  /\ stack \in {<<"loop", 0>>} \cup ({"handler", "callback"} \X Machine)
  /\ first \in [Machine -> Errors \cup {None}]
  /\ cleaned \in [Machine -> SUBSET Nat]

Init ==
  /\ allocated = [m \in Machine |-> FALSE]
  /\ cur_state = [m \in Machine |-> 0]
  /\ completed = [m \in Machine |-> TRUE]
  /\ error = [m \in Machine |-> None]
  /\ timeout = [m \in Machine |-> "no"]
  /\ target = [m \in Machine |-> 0]
  /\ transfer = [m \in Machine |-> FALSE]
  /\ stack = <<"loop", 0>>
  /\ first = [m \in Machine |-> None]
  /\ cleaned = [m \in Machine |-> {}]

----------------------------------------------------------------------------
(* The operations.  m is the machine they are called on.                      *)

Child(m) == m < Depth /\ allocated[m + 1]

ClearDelayed(m) == timeout' = [timeout EXCEPT ![m] = "no"]

(* __ssm_call_handler in state s.                                             *)
CallHandler(m, s) ==
  /\ cur_state' = [cur_state EXCEPT ![m] = s]
  /\ cleaned' = [cleaned EXCEPT ![m] = IF s >= StartCleanup[m] THEN @ \cup {s} ELSE {}]
  /\ stack' = <<"handler", m>>
  /\ UNCHANGED completed

(* The completion callback is entered with the machine completed.             *)
CallCompleted(m, s) ==
  /\ cur_state' = [cur_state EXCEPT ![m] = s]
  /\ completed' = [completed EXCEPT ![m] = TRUE]
  /\ stack' = <<"callback", m>>
  /\ UNCHANGED cleaned

\* Mutant: completing skips the first cleanup state.
CompleteFromOffByOne(m, s) ==
  LET next == IF s < StartCleanup[m] THEN StartCleanup[m] + 1 ELSE s + 1
  IN  IF next < NrStates[m] THEN CallHandler(m, next) ELSE CallCompleted(m, s)

(* fpi_ssm_mark_completed in state s: into the cleanup, one step further in   *)
(* it, and out of its last state.                                             *)
CompleteFrom(m, s) ==
  LET next == IF s < StartCleanup[m] THEN StartCleanup[m] ELSE s + 1
  IN  IF next < NrStates[m] THEN CallHandler(m, next) ELSE CallCompleted(m, s)

MarkCompleted(m) ==
  /\ CompleteFrom(m, cur_state[m])
  /\ ClearDelayed(m)
  /\ UNCHANGED <<error, first>>

\* Mutant: a failure during the cleanup is ignored as well.
MarkFailedIgnoresCleanup(m, e) ==
  /\ first' = [first EXCEPT ![m] = IF @ = None THEN e ELSE @]
  /\ IF error[m] # None
       THEN /\ stack' = <<"loop", 0>>
            /\ UNCHANGED <<cur_state, completed, error, timeout, cleaned>>
       ELSE /\ error' = [error EXCEPT ![m] = e]
            /\ CompleteFrom(m, cur_state[m])
            /\ ClearDelayed(m)

(* fpi_ssm_mark_failed: the first error is kept; a second one before the      *)
(* cleanup is ignored.                                                        *)
MarkFailed(m, e) ==
  /\ first' = [first EXCEPT ![m] = IF @ = None THEN e ELSE @]
  /\ IF error[m] # None /\ cur_state[m] < StartCleanup[m]
       THEN /\ stack' = <<"loop", 0>>
            /\ UNCHANGED <<cur_state, completed, error, timeout, cleaned>>
       ELSE /\ error' = [error EXCEPT ![m] = IF @ = None THEN e ELSE @]
            /\ CompleteFrom(m, cur_state[m])
            /\ ClearDelayed(m)

(* The common end of fpi_ssm_next_state and fpi_ssm_jump_to_state.            *)
Enter(m, s) ==
  /\ IF s = NrStates[m] THEN CompleteFrom(m, s) ELSE CallHandler(m, s)
  /\ ClearDelayed(m)
  /\ UNCHANGED <<error, first>>

NextState(m) == Enter(m, cur_state[m] + 1)

JumpToState(m) == \E j \in Jumps[m] : j[1] = cur_state[m] /\ Enter(m, j[2])

\* Mutant: the error of an earlier run is left in the machine.
StartKeepsError(m) ==
  /\ allocated' = [allocated EXCEPT ![m] = TRUE]
  /\ cur_state' = [cur_state EXCEPT ![m] = 0]
  /\ completed' = [completed EXCEPT ![m] = FALSE]
  /\ first' = [first EXCEPT ![m] = None]
  /\ cleaned' = [cleaned EXCEPT ![m] = {}]
  /\ stack' = <<"handler", m>>
  /\ UNCHANGED error

(* fpi_ssm_new_full and fpi_ssm_start.                                        *)
Start(m) ==
  /\ allocated' = [allocated EXCEPT ![m] = TRUE]
  /\ cur_state' = [cur_state EXCEPT ![m] = 0]
  /\ completed' = [completed EXCEPT ![m] = FALSE]
  /\ error' = [error EXCEPT ![m] = None]
  /\ first' = [first EXCEPT ![m] = None]
  /\ cleaned' = [cleaned EXCEPT ![m] = {}]
  /\ stack' = <<"handler", m>>

(* fpi_ssm_start_subsm: the parent waits for the child alone.                 *)
StartSubsm(m) ==
  /\ m < Depth /\ ~allocated[m + 1]
  /\ timeout' = [k \in Machine |-> IF k \in {m, m + 1} THEN "no" ELSE timeout[k]]
  /\ Start(m + 1)

(* fpi_ssm_next_state_delayed, fpi_ssm_mark_completed_delayed and             *)
(* fpi_ssm_jump_to_state_delayed.                                             *)
Delay(m) ==
  /\ \/ timeout' \in {[timeout EXCEPT ![m] = d] : d \in {"next", "complete"}} /\ UNCHANGED target
     \/ \E j \in Jumps[m] :
          /\ j[1] = cur_state[m]
          /\ timeout' = [timeout EXCEPT ![m] = "jump"]
          /\ target' = [target EXCEPT ![m] = j[2]]
  /\ stack' = <<"loop", 0>>
  /\ UNCHANGED <<allocated, cur_state, completed, error, first, cleaned>>

(* What the driver may call on a machine that is not waiting for a child.     *)
Moves(m) ==
  \/ /\ NextState(m) \/ JumpToState(m) \/ MarkCompleted(m) \/ \E e \in Errors : MarkFailed(m, e)
     /\ UNCHANGED <<allocated, target>>
  \/ StartSubsm(m) /\ UNCHANGED target

----------------------------------------------------------------------------
(* What runs.                                                                 *)

StartRoot ==
  /\ stack = <<"loop", 0>> /\ ~allocated[1]
  /\ Start(1)
  /\ UNCHANGED <<timeout, target, transfer>>

(* The driver's handler: it moves the machine, delays, or submits a transfer. *)
Handler(m) ==
  /\ stack = <<"handler", m>>
  /\ \/ (Moves(m) \/ Delay(m)) /\ UNCHANGED transfer
     \/ /\ transfer' = [transfer EXCEPT ![m] = TRUE]
        /\ stack' = <<"loop", 0>>
        /\ UNCHANGED <<allocated, cur_state, completed, error, timeout, target, first, cleaned>>

(* The callback of a transfer, fpi_ssm_usb_transfer_cb or the driver's own.   *)
TransferDone(m) ==
  /\ stack = <<"loop", 0>> /\ transfer[m]
  /\ transfer' = [transfer EXCEPT ![m] = FALSE]
  /\ Moves(m) \/ Delay(m)

(* on_device_timeout_next_state, on_device_timeout_complete and               *)
(* on_device_timeout_jump_to_state.                                           *)
TimeoutFires(m) ==
  /\ stack = <<"loop", 0>> /\ timeout[m] # "no"
  /\ \/ timeout[m] = "next" /\ NextState(m)
     \/ timeout[m] = "complete" /\ MarkCompleted(m)
     \/ timeout[m] = "jump" /\ Enter(m, target[m])
  /\ UNCHANGED <<allocated, target, transfer>>

(* An event of the driver overtakes the timer.  It moves the machine, which   *)
(* logs a BUG and clears the timer, or it cancels the delayed change because  *)
(* a transfer it has submitted is to move the machine.                        *)
Overtake(m) ==
  /\ stack = <<"loop", 0>> /\ timeout[m] # "no"
  /\ \/ Moves(m) /\ UNCHANGED transfer
     \/ /\ ClearDelayed(m)
        /\ transfer' = [transfer EXCEPT ![m] = TRUE]
        /\ UNCHANGED <<allocated, cur_state, completed, error, target, stack, first, cleaned>>

(* __subsm_complete.                                                          *)
SubsmComplete(m) ==
  IF error[m] # None THEN MarkFailed(m - 1, error[m]) ELSE NextState(m - 1)

(* The completion callback: the parent's for a child, the driver's for the    *)
(* root; the machine is freed.                                                *)
Callback(m) ==
  /\ stack = <<"callback", m>>
  /\ allocated' = [allocated EXCEPT ![m] = FALSE]
  /\ IF m > 1
       THEN SubsmComplete(m)
       ELSE /\ stack' = <<"loop", 0>>
            /\ UNCHANGED <<cur_state, completed, error, timeout, first, cleaned>>
  /\ UNCHANGED <<target, transfer>>

Step(m) == Handler(m) \/ TransferDone(m) \/ TimeoutFires(m) \/ Overtake(m) \/ Callback(m)
Next == StartRoot \/ \E m \in Machine : Step(m)

(* The main loop dispatches what is ready and a call on the stack goes on; a  *)
(* driver that has entered a cleanup moves forward in it and does not         *)
(* overtake its timer again and again.                                        *)
CleansUp(m) ==
  /\ stack = <<"handler", m>> /\ cur_state[m] >= StartCleanup[m]
  /\ NextState(m) \/ MarkCompleted(m)
  /\ UNCHANGED <<allocated, target, transfer>>

Works(m) == stack = <<"handler", m>> /\ Handler(m)

Fairness ==
  \A m \in Machine :
    /\ WF_vars(Works(m)) /\ SF_vars(CleansUp(m))
    /\ WF_vars(TransferDone(m)) /\ SF_vars(TimeoutFires(m)) /\ WF_vars(Callback(m))

Spec == Init /\ [][Next]_vars /\ Fairness

----------------------------------------------------------------------------
(* Properties.                                                                *)

Running(m) == allocated[m] /\ ~completed[m]

(* A started machine never stalls: its handler or the callback of its child   *)
(* is on the stack, or a transfer, a timer or a child of it will move it on.  *)
(* A failure that fpi_ssm_mark_failed ignores would leave it without any.     *)
NeverStalls ==
  \A m \in Machine : Running(m) =>
    stack = <<"handler", m>> \/ transfer[m] \/ timeout[m] # "no" \/ Child(m)

(* No timer is left on a machine that has completed or waits for its child:   *)
(* it would fire on freed memory or move the parent under the child.          *)
TimersAreOwned ==
  \A m \in Machine : timeout[m] # "no" => Running(m) /\ ~Child(m) /\ stack[2] # m

(* A child runs under the parent that started it, which neither completes nor *)
(* is freed before the child has reported to it.                              *)
ChildHasParent ==
  \A m \in Machine \ {1} : allocated[m] => Running(m - 1) /\ ~transfer[m - 1]

(* A machine reports the first error it was marked failed with, through any   *)
(* failures of its cleanup, and success only if there was none.               *)
FirstErrorReported ==
  \A m \in Machine : stack = <<"callback", m>> => error[m] = first[m]

(* The failure of a child is the failure of its parent.                       *)
ChildErrorReachesParent ==
  [][\A m \in Machine \ {1} :
       stack = <<"callback", m>> /\ error[m] # None => error'[m - 1] # None]_vars

(* fpi-ssm.c:41: cleanup states "will never be skipped when marking the SSM   *)
(* as completed": a machine whose driver only jumps back ends in every one.   *)
CleanupIsWhole ==
  \A m \in Machine : stack = <<"callback", m>> =>
    cleaned[m] = StartCleanup[m]..(NrStates[m] - 1)

(* A machine that was marked failed ends, its children before it.             *)
FailedEnds == \A m \in Machine : error[m] # None ~> ~allocated[m]

(* The root machine as its starter sees it.                                   *)
RootPhase ==
  IF ~allocated[1] THEN "idle"
  ELSE IF completed[1] THEN "ended"
  ELSE IF cur_state[1] < StartCleanup[1] THEN "work" ELSE "cleanup"

Root == INSTANCE SsmPromise WITH
  phase <- RootPhase,
  verdict <- error[1],
  HasCleanup <- StartCleanup[1] < NrStates[1]

RootKeepsPromise == Root!Spec
=============================================================================
