---------------------------- MODULE FpDeviceTask ----------------------------
(* The life of one asynchronous FpDevice call, as fp-device.c and           *)
(* fpi-device.c drive it: a client call is accepted and becomes the current *)
(* action, the driver completes it, the completion is queued as an idle     *)
(* source, and the idle source hands the result to the client and frees the *)
(* device for the next call.  Drivers (Egis0575Session) build their         *)
(* handlers from the operators below; every operator says which of the      *)
(* variables it primes.                                                     *)
EXTENDS Naturals, Sequences

CONSTANT Task                  \* identities of FpDevice calls (GTask objects)

ASSUME TaskAssumption == Task \subseteq Nat \ {0}

NoTask == 0                    \* priv->current_task == NULL

CaptureAction == {"enroll", "verify", "capture"}
Action == {"none", "open", "close"} \cup CaptureAction

Result == {"ok", "failed", "busy", "cancelled", "invalid"}

VARIABLES
  is_open,                     \* priv->is_open
  current_action,              \* priv->current_action
  current_task,                \* priv->current_task
  cancelled,                   \* priv->current_cancellable is cancelled
  idle_cancel,                 \* priv->current_idle_cancel_source is pending
  idle_return                  \* task-return idle sources, oldest first

deviceVars == <<is_open, current_action, current_task, cancelled, idle_cancel,
                idle_return>>

Return == [task : Task, action : Action, result : Result]

DeviceTypeOK ==
  /\ is_open \in BOOLEAN
  /\ current_action \in Action
  /\ current_task \in Task \cup {NoTask}
  /\ cancelled \in BOOLEAN
  /\ idle_cancel \in BOOLEAN
  /\ idle_return \in Seq(Return)

DeviceInit ==
  /\ is_open = FALSE
  /\ current_action = "none"
  /\ current_task = NoTask
  /\ cancelled = FALSE
  /\ idle_cancel = FALSE
  /\ idle_return = <<>>

----------------------------------------------------------------------------
(* A call is accepted: it becomes the current action with a fresh internal  *)
(* cancellable.  An open needs a closed device, every other call an open    *)
(* one; a call on a busy device is answered at once and changes nothing.    *)
Accept(action, t) ==
  /\ is_open = (action # "open")
  /\ current_task = NoTask
  /\ current_action' = action
  /\ current_task' = t
  /\ cancelled' = FALSE

(* The client's cancellable still reaches the action: setup_task_cancellable *)
(* connected it and no completion has disconnected it yet.                   *)
Connected ==
  /\ current_task # NoTask
  /\ \A k \in 1..Len(idle_return) : idle_return[k].task # current_task

(* The client cancels the call: the internal cancellable is cancelled at     *)
(* once (transfers that carry it fail), the driver is told from an idle.     *)
ClientCancel ==
  /\ Connected
  /\ ~cancelled
  /\ cancelled' = TRUE
  /\ idle_cancel' = TRUE
  /\ UNCHANGED <<is_open, current_action, current_task, idle_return>>

(* fpi_device_return_task_in_idle, after clear_device_cancel_action: the       *)
(* pending cancel idle is destroyed and the result of task t queued.          *)
Queue(t, action, result) ==
  /\ idle_cancel' = FALSE
  /\ idle_return' = Append(idle_return,
                           [task |-> t, action |-> action, result |-> result])

(* fpi_device_<action>_complete of the current action.  The action stays       *)
(* current until the idle source runs, so a second completion queues again.   *)
Complete(result) ==
  /\ current_action # "none"
  /\ Queue(current_task, current_action, result)
  /\ UNCHANGED <<is_open, current_action, current_task, cancelled>>

(* The g_return_if_fail of fpi_device_open_complete and _close_complete:       *)
(* without its action, no effect.                                             *)
CompleteAction(action, result) ==
  IF current_action = action THEN Complete(result) ELSE UNCHANGED deviceVars

(* The idle source: whatever task is current gets the queued result.          *)
TaskReturn ==
  /\ idle_return # <<>>
  /\ current_task' = NoTask
  /\ current_action' = "none"
  /\ cancelled' = FALSE
  /\ is_open' = CASE current_action = "open" -> Head(idle_return).result = "ok"
                  [] current_action = "close" -> FALSE
                  [] OTHER -> is_open
  /\ idle_return' = Tail(idle_return)
  /\ UNCHANGED idle_cancel
=============================================================================
