----------------------------- MODULE Synaptics -----------------------------
(* The driver of a sensor that stores prints and matches them itself, on the *)
(* FpDevice layer: every vfunc is a command, run by one state machine        *)
(* (cmd_ssm) that sends it, reads the reply, waits on the interrupt endpoint *)
(* for more and fetches it, until a message completes the command.  The      *)
(* driver is told a cancel or a suspend only outside of critical sections,   *)
(* and means to leave them only while an interrupt transfer is pending.      *)
(* FpDevice runs unchanged around it; its calls of a vfunc are a step of     *)
(* their own that comes before any other.  The sensor is the environment: it *)
(* answers commands, sees fingers, and what is unread when a command ends is *)
(* dropped.                                                                  *)
EXTENDS FpDevice, Integers

CONSTANTS
  Galleries,                   \* of an identify, a print is TRUE if it parses
  Quirks                       \* what the sensor does beyond its protocol

ASSUME SynapticsAssumption ==
  /\ Galleries \subseteq Seq(BOOLEAN)
  /\ Quirks \subseteq {"spurious interrupt", "silent reply", "lost cancel"}

VARIABLES
  entered,                     \* the vfunc of the current action was called
  heard,                       \* cls->cancel was called
  cmd,                         \* the callback of cmd_ssm, "none" without one
  ssm,                         \* the state cmd_ssm stands in
  out,                         \* what SEND_PENDING is sending
  intr,                        \* the interrupt transfer and its cancellable
  event,                       \* what SEND_ASYNC will fetch
  action_starting,
  cmd_complete_on_removal,
  cmd_suspended,
  finger_on_sensor,
  delay_error,                 \* DATA_NOT_FOUND is kept for the removal
  reported,                    \* what was reported, kept for the removal
  gallery, id_idx,
  finger,                      \* the sensor: a finger is on it
  working,                     \* the sensor: it has not decided the command
  cancelling,                  \* a CANCEL_OP is on its way to the sensor
  replies,                     \* read by GET_RESP, in order
  aborted                      \* an assertion of the driver has failed

commandVars == <<cmd, ssm, out, intr, event, action_starting, cmd_complete_on_removal,
                 reported, gallery, id_idx>>
sensorVars == <<working, cancelling, replies>>
driverVars == <<commandVars, sensorVars, cmd_suspended, finger_on_sensor, delay_error,
                finger, aborted>>
allVars == <<vars, entered, heard, driverVars>>

Command == {"open", "close", "enroll", "verify", "identify", "delete", "clear_storage"}
Match == {"verify", "identify"}

(* The driver has all the optional vfuncs.                                   *)
SynapticsInit ==
  /\ Init
  /\ cls = Vfunc
  /\ entered = FALSE /\ heard = FALSE
  /\ cmd = "none" /\ ssm = "none" /\ out = "command" /\ intr = "none" /\ event = "none"
  /\ action_starting = FALSE /\ cmd_complete_on_removal = FALSE /\ reported = "none"
  /\ cmd_suspended = FALSE /\ finger_on_sensor = FALSE /\ delay_error = FALSE
  /\ gallery = <<>> /\ id_idx = 0
  /\ finger = FALSE /\ working = FALSE /\ cancelling = FALSE /\ replies = <<>>
  /\ aborted = FALSE

----------------------------------------------------------------------------
(* Helpers.                                                                  *)

One(condition) == IF condition THEN 1 ELSE 0

(* What a callback adds to the critical sections in all.  It enters before   *)
(* it leaves, so a flush is pending after it if none is left.                *)
Sections(d) == critical' = critical + d /\ flush' = (critical + d = 0)

(* A driver step that neither answers a suspend nor is told anything.        *)
LayerUntouched ==
  UNCHANGED <<cls, is_open, action, wants_cancel, told, cancelled, reason, queued,
              powerVars, removalVars, handlers, returnVars, entered, heard>>

Unanswered == UNCHANGED <<result, usb_open, idle_cancel>>

(* The vfuncs that FpDevice has called and that have not run.                *)
Settled ==
  /\ action # "none" => entered
  /\ told => heard
  /\ asked = "suspend" => cmd_suspended
  /\ asked # "resume"
  /\ ~aborted

(* USB completions have the priority of the task's return: below the flush.  *)
Dispatched == Settled /\ Idle

NoCommand ==
  /\ cmd' = "none" /\ ssm' = "none" /\ out' = "command" /\ intr' = "none"
  /\ event' = "none" /\ action_starting' = FALSE /\ cmd_complete_on_removal' = FALSE
  /\ reported' = "none" /\ gallery' = <<>> /\ id_idx' = 0
  /\ working' = FALSE /\ cancelling' = FALSE /\ replies' = <<>>

(* Mutant: a callback that is handed an error does not leave the section of  *)
(* the start.                                                                *)
DoneKeepsStart(res, entering) ==
  /\ Complete(res)
  /\ Sections(entering - 1 - One(cmd = "delete"))
  /\ NoCommand

(* The callback answers the action and cmd_ssm_done ends the command: the    *)
(* sections of the machine, of a start the sensor never confirmed, and of a  *)
(* delete are left.                                                          *)
Done(res, entering) ==
  /\ Complete(res)
  /\ Sections(entering - 1 - One(action_starting) - One(cmd = "delete"))
  /\ NoCommand

(* A message the command goes on after, to SYNAPTICS_CMD_WAIT_INTERRUPT.     *)
Wait(leaving_start) ==
  /\ ssm' = "WAIT_INTERRUPT" /\ intr' = "linked"
  /\ action_starting' = (action_starting /\ ~leaving_start)
  /\ Sections(0 - 1 - One(action_starting /\ leaving_start))
  /\ UNCHANGED <<cmd, out, event, gallery>>

----------------------------------------------------------------------------
(* The vfuncs.                                                               *)

PrintsOf(op) ==
  CASE op = "identify"             -> Galleries
    [] op \in {"verify", "delete"} -> {g \in Galleries : Len(g) = 1}
    [] OTHER                       -> {<<>>}

Usable(g) == action \in Match \cup {"delete"} => g # <<>> /\ g[1]

(* The vfunc answers without a command: dev_init cannot claim the interface, *)
(* a print does not parse, or there is nothing to identify among.  identify  *)
(* has entered its section before it looks at the first print.               *)
StartRefused(g) ==
  /\ action = "open" \/ ~Usable(g)
  /\ Complete(IF action = "identify" /\ g = <<>> THEN "ok" ELSE "failed")
  /\ IF action = "identify" /\ g # <<>>
       THEN Sections(1) /\ action_starting' = TRUE
       ELSE UNCHANGED <<criticalVars, action_starting>>
  /\ UNCHANGED <<cmd, ssm, out, intr, event, cmd_complete_on_removal, reported, gallery,
                 id_idx, aborted>>

(* synaptics_sensor_cmd starts the machine, or asserts that a command which  *)
(* continues a running one has no callback.                                  *)
StartCommand(g) ==
  /\ Usable(g)
  /\ aborted' = (cmd # "none")
  /\ cmd' = action /\ ssm' = "SEND_PENDING"
  /\ gallery' = g /\ id_idx' = One(action = "identify")
  /\ action_starting' = (action_starting \/ action \in Match \cup {"enroll"})
  /\ Sections(1 + One(action \in Match \cup {"enroll", "delete"}))
  /\ Unanswered
  /\ UNCHANGED <<out, intr, event, cmd_complete_on_removal, reported>>

Start ==
  /\ action # "none" /\ ~entered /\ ~aborted
  /\ entered' = TRUE
  /\ \E g \in PrintsOf(action) : StartRefused(g) \/ StartCommand(g)
  /\ UNCHANGED <<cls, is_open, action, wants_cancel, told, cancelled, reason, queued,
                 powerVars, removalVars, handlers, returnVars, heard, sensorVars,
                 cmd_suspended, finger_on_sensor, delay_error, finger>>

(* What cancels the interrupt transfer; the next one has a new cancellable.  *)
CancelInterrupt == intr' = IF intr = "linked" THEN "cancelled" ELSE intr

(* cancel.                                                                   *)
CancelVfunc ==
  /\ told /\ ~heard /\ ~aborted
  /\ heard' = TRUE
  /\ cancelling' = TRUE
  /\ CancelInterrupt
  /\ UNCHANGED <<vars, entered, cmd, ssm, out, event, action_starting,
                 cmd_complete_on_removal, reported, gallery, id_idx, working, replies,
                 cmd_suspended, finger_on_sensor, delay_error, finger, aborted>>

(* Mutant: the suspend is answered before the interrupt transfer has ended.  *)
SuspendVfuncAtOnce ==
  /\ asked = "suspend" /\ ~cmd_suspended /\ ~aborted
  /\ asked' = "none"
  /\ SuspendComplete(action \in Match)
  /\ cmd_suspended' = (action \in Match)
  /\ IF action \in Match THEN CancelInterrupt ELSE UNCHANGED intr
  /\ UNCHANGED <<cls, taskVars, criticalVars, queued, removalVars, returnVars, entered,
                 heard, cmd, ssm, out, event, action_starting, cmd_complete_on_removal,
                 reported, gallery, id_idx, sensorVars, finger_on_sensor, delay_error, finger,
                 aborted>>

(* suspend.  It asserts that there is a command, waiting for its interrupt.  *)
SuspendVfunc ==
  /\ asked = "suspend" /\ ~cmd_suspended /\ ~aborted
  /\ \/ /\ action \notin Match
        /\ asked' = "none"
        /\ SuspendComplete(FALSE)
        /\ UNCHANGED <<intr, cmd_suspended, aborted>>
     \/ /\ action \in Match
        /\ IF ssm = "WAIT_INTERRUPT"
             THEN cmd_suspended' = TRUE /\ CancelInterrupt /\ UNCHANGED aborted
             ELSE aborted' = TRUE /\ UNCHANGED <<cmd_suspended, intr>>
        /\ UNCHANGED <<powerVars, cancelVars, handlers>>
  /\ UNCHANGED <<cls, taskVars, criticalVars, queued, removalVars, returnVars, entered,
                 heard, cmd, ssm, out, event, action_starting, cmd_complete_on_removal,
                 reported, gallery, id_idx, sensorVars, finger_on_sensor, delay_error, finger>>

(* resume, through SYNAPTICS_CMD_RESUME to a new interrupt transfer.  It     *)
(* asserts that the command is suspended.                                    *)
ResumeVfunc ==
  /\ asked = "resume" /\ ~aborted
  /\ IF action \in Match /\ ssm = "SUSPENDED" /\ cmd_suspended
       THEN /\ asked' = "none"
            /\ cmd_suspended' = FALSE
            /\ ssm' = "WAIT_INTERRUPT" /\ intr' = "linked"
            /\ Sections(0)
            /\ ResumeComplete
            /\ UNCHANGED <<suspend_error, aborted>>
       ELSE /\ aborted' = TRUE
            /\ UNCHANGED <<powerVars, criticalVars, cmd_suspended, ssm, intr>>
  /\ UNCHANGED <<cls, taskVars, cancelVars, queued, removalVars, handlers, returnVars,
                 entered, heard, cmd, out, event, action_starting, cmd_complete_on_removal,
                 reported, gallery, id_idx, sensorVars, finger_on_sensor, delay_error, finger>>

----------------------------------------------------------------------------
(* The transfers of synaptics_cmd_run_state.                                 *)

TransferRest == UNCHANGED <<cmd_suspended, finger_on_sensor, delay_error, finger, aborted>>

FirstReplies ==
  IF out = "cancel" THEN {"cancel_ok", "cancel_fail"}
  ELSE CASE cmd = "open"     -> {"ok", "busy", "fail"}
         [] cmd = "close"    -> {"ok", "fail"}
         [] cmd = "enroll"   -> {"ready", "fail"}
         [] cmd = "verify"   -> {"ready", "no_record", "fail"}
         [] cmd = "identify" -> IF id_idx < Len(gallery) THEN {"next_user", "fail"}
                                ELSE {"ready", "no_record", "fail"}
         [] OTHER            -> {"progress", "ok", "no_record", "fail"}

(* The command has reached the sensor, which replies.                        *)
Sent ==
  /\ Dispatched /\ ssm = "SEND_PENDING" /\ out # "none"
  /\ ssm' = "GET_RESP" /\ out' = "command"
  /\ \E r \in FirstReplies :
       /\ replies' = Append(replies, r)
       /\ working' = (r \in {"ready", "progress"})
  /\ UNCHANGED <<criticalVars, cmd, intr, event, action_starting, cmd_complete_on_removal,
                 reported, gallery, id_idx, cancelling>>
  /\ Unanswered /\ LayerUntouched /\ TransferRest

(* What a working sensor may tell next; of the last five, each decides the   *)
(* command.  "capture" is every message that a callback only logs.           *)
Decided == {"verdict", "retry", "no_record", "ok", "fail"}

Tells ==
  (IF finger = finger_on_sensor THEN {} ELSE {IF finger THEN "finger_on" ELSE "finger_off"})
    \cup (IF ~working THEN {}
          ELSE CASE cmd \in Match    -> {"capture", "verdict", "retry", "no_record", "fail"}
                 [] cmd = "enroll"   -> {"capture", "ok", "fail"}
                 [] OTHER            -> {"ok", "no_record", "fail"})

(* The interrupt: a message to fetch, or the reply to a cancel that nobody   *)
(* reads.  Without USB_ASYNC_MESSAGE_PENDING the transfer is submitted again *)
(* with no cancellable.                                                      *)
Interrupts ==
  Tells \cup (IF replies # <<>> /\ "silent reply" \notin Quirks THEN {"reply"} ELSE {})
        \cup (IF "spurious interrupt" \in Quirks THEN {"nothing"} ELSE {})

Interrupt(m) ==
  /\ Dispatched /\ ssm = "WAIT_INTERRUPT" /\ intr # "cancelled"
  /\ m \in Interrupts
  /\ IF m = "nothing"
       THEN intr' = "unlinked" /\ Sections(0) /\ UNCHANGED <<ssm, event, working>>
       ELSE /\ ssm' = "SEND_ASYNC" /\ intr' = "none" /\ event' = m
            /\ working' = (working /\ m \notin Decided)
            /\ Sections(1)
  /\ UNCHANGED <<cmd, out, action_starting, cmd_complete_on_removal, reported, gallery,
                 id_idx, cancelling, replies>>
  /\ Unanswered /\ LayerUntouched /\ TransferRest

(* Mutant: whatever the interrupt was cancelled for, a reply is awaited.     *)
InterruptCancelledForAll ==
  /\ Dispatched /\ intr = "cancelled"
  /\ ssm' = "GET_RESP" /\ intr' = "none"
  /\ Sections(1)
  /\ UNCHANGED <<cmd, out, event, action_starting, cmd_complete_on_removal, reported,
                 gallery, id_idx, sensorVars>>
  /\ Unanswered /\ LayerUntouched /\ TransferRest

(* The cancelled interrupt: on to the reply of the cancel.                   *)
InterruptCancelled ==
  /\ Dispatched /\ intr = "cancelled" /\ ~cmd_suspended
  /\ ssm' = "GET_RESP" /\ intr' = "none"
  /\ Sections(1)
  /\ UNCHANGED <<cmd, out, event, action_starting, cmd_complete_on_removal, reported,
                 gallery, id_idx, sensorVars>>
  /\ Unanswered /\ LayerUntouched /\ TransferRest

(* Or, for a suspend, SYNAPTICS_CMD_SUSPENDED.                               *)
InterruptSuspended ==
  /\ Dispatched /\ intr = "cancelled" /\ cmd_suspended
  /\ ssm' = "SUSPENDED" /\ intr' = "none"
  /\ Sections(0)
  /\ asked' = "none"
  /\ SuspendComplete(TRUE)
  /\ UNCHANGED <<cls, taskVars, queued, removalVars, returnVars, entered, heard, cmd, out,
                 event, action_starting, cmd_complete_on_removal, reported, gallery, id_idx,
                 sensorVars>>
  /\ TransferRest

(* The message is asked for; RESTART and SEND_PENDING lead to GET_RESP.      *)
AsyncSent ==
  /\ Dispatched /\ ssm = "SEND_ASYNC"
  /\ ssm' = "GET_RESP" /\ event' = "none"
  /\ replies' = IF event = "reply" THEN replies ELSE Append(replies, event)
  /\ UNCHANGED <<criticalVars, cmd, out, intr, action_starting, cmd_complete_on_removal,
                 reported, gallery, id_idx, working, cancelling>>
  /\ Unanswered /\ LayerUntouched /\ TransferRest

(* A transfer fails, times out or brings a corrupt message or a general      *)
(* error of the sensor: the machine fails, and the action with it.           *)
TransferFails ==
  /\ Dispatched
  /\ \/ ssm \in {"SEND_PENDING", "GET_RESP", "SEND_ASYNC"} /\ Done("failed", 0)
     \/ ssm = "WAIT_INTERRUPT" /\ intr # "cancelled" /\ Done("failed", 1)
  /\ LayerUntouched /\ TransferRest

----------------------------------------------------------------------------
(* cmd_receive_cb, one action per kind of message, and the callbacks.        *)

Read(messages) ==
  /\ Dispatched /\ ssm = "GET_RESP" /\ replies # <<>>
  /\ Head(replies) \in messages
  /\ LayerUntouched

MessageRest == UNCHANGED <<cmd_suspended, finger, aborted, working, cancelling>>

FingerOn ==
  /\ Read({"finger_on"})
  /\ finger_on_sensor' = TRUE
  /\ Wait(FALSE)
  /\ replies' = Tail(replies)
  /\ UNCHANGED <<cmd_complete_on_removal, reported, id_idx, delay_error>>
  /\ Unanswered /\ MessageRest

FingerOff ==
  /\ Read({"finger_off"}) /\ ~cmd_complete_on_removal
  /\ finger_on_sensor' = FALSE
  /\ Wait(FALSE)
  /\ replies' = Tail(replies)
  /\ UNCHANGED <<cmd_complete_on_removal, reported, id_idx, delay_error>>
  /\ Unanswered /\ MessageRest

(* A retry that was reported is the error of the action.                     *)
ResultOf(report) == IF report = "verdict" THEN "ok" ELSE "failed"

Removal ==
  /\ Read({"finger_off"}) /\ cmd_complete_on_removal
  /\ finger_on_sensor' = FALSE
  /\ delay_error' = FALSE
  /\ Done(IF delay_error THEN "failed" ELSE ResultOf(reported), 0)
  /\ UNCHANGED <<cmd_suspended, finger, aborted>>

(* Mutant: a cancel that the sensor could not do is waited out.              *)
CancelReplyWaits ==
  /\ Read({"cancel_ok", "cancel_fail"})
  /\ IF Head(replies) = "cancel_ok"
       THEN Done(IF cmd = "open" THEN "ok" ELSE "failed", 0)
       ELSE /\ Wait(FALSE)
            /\ replies' = Tail(replies)
            /\ UNCHANGED <<cmd_complete_on_removal, reported, id_idx, working, cancelling>>
            /\ Unanswered
  /\ TransferRest

(* The sensor has cancelled its command: an error of the action, unless the  *)
(* open itself has sent the cancel.                                          *)
CancelReply ==
  /\ Read({"cancel_ok", "cancel_fail"})
  /\ Done(IF cmd = "open" /\ Head(replies) = "cancel_ok" THEN "ok" ELSE "failed", 0)
  /\ TransferRest

(* fps_init_msg_cb: a busy sensor is told to cancel what it does.            *)
Busy ==
  /\ Read({"busy"})
  /\ ssm' = "SEND_PENDING" /\ out' = "cancel"
  /\ replies' = Tail(replies)
  /\ UNCHANGED <<criticalVars, cmd, intr, event, action_starting, cmd_complete_on_removal,
                 reported, gallery, id_idx, finger_on_sensor, delay_error>>
  /\ Unanswered /\ MessageRest

(* compose_and_send_identify_msg for one more print.  One that is missing or *)
(* does not parse answers the action and leaves the machine waiting.         *)
NextUser ==
  /\ Read({"next_user"})
  /\ IF id_idx < Len(gallery) /\ gallery[id_idx + 1]
       THEN /\ ssm' = "SEND_PENDING" /\ out' = "next"
            /\ id_idx' = id_idx + 1
            /\ action_starting' = FALSE
            /\ Sections(0 - One(action_starting))
            /\ Unanswered
            /\ UNCHANGED <<cmd, intr, event, gallery>>
       ELSE Complete("failed") /\ Wait(TRUE) /\ UNCHANGED id_idx
  /\ replies' = Tail(replies)
  /\ UNCHANGED <<cmd_complete_on_removal, reported, finger_on_sensor, delay_error>>
  /\ MessageRest

Logged ==
  /\ Read({"ready", "progress", "capture"})
  /\ Wait(TRUE)
  /\ replies' = Tail(replies)
  /\ UNCHANGED <<cmd_complete_on_removal, reported, id_idx, finger_on_sensor, delay_error>>
  /\ Unanswered /\ MessageRest

(* Mutant: the action is answered although its command waits for the removal. *)
DelayAnswered(m) ==
  /\ finger_on_sensor
  /\ Complete(ResultOf(m))
  /\ cmd_complete_on_removal' = TRUE
  /\ Wait(TRUE)
  /\ replies' = Tail(replies)
  /\ reported' = m
  /\ UNCHANGED <<id_idx, finger_on_sensor, delay_error>>
  /\ MessageRest

(* A result that is kept until the finger is gone.                           *)
Delay(m) ==
  /\ finger_on_sensor
  /\ cmd_complete_on_removal' = TRUE
  /\ Wait(TRUE)
  /\ replies' = Tail(replies)
  /\ reported' = m
  /\ delay_error' = (delay_error \/ m = "no_record")
  /\ UNCHANGED <<id_idx, finger_on_sensor>>
  /\ Unanswered /\ MessageRest

(* A match, a mismatch or a retry is reported and completes the action, at   *)
(* once or after the removal.                                                *)
Verdict ==
  /\ Read({"verdict", "retry"})
  /\ \/ Delay(Head(replies))
     \/ ~finger_on_sensor /\ Done(ResultOf(Head(replies)), 0) /\ TransferRest

(* No such print: an error of a match, after the removal in an identify, and *)
(* as good as done for a deletion.                                           *)
NoRecord ==
  /\ Read({"no_record"})
  /\ \/ cmd = "identify" /\ Delay("no_record")
     \/ /\ cmd = "identify" => ~finger_on_sensor
        /\ Done(IF cmd \in Match THEN "failed" ELSE "ok", 0)
        /\ TransferRest

Decision ==
  /\ Read({"ok", "fail"})
  /\ Done(IF Head(replies) = "ok" THEN "ok" ELSE "failed", 0)
  /\ TransferRest

Receive ==
  \/ FingerOn \/ FingerOff \/ Removal \/ CancelReply \/ Busy \/ NextUser \/ Logged
  \/ Verdict \/ NoRecord \/ Decision

----------------------------------------------------------------------------
(* The sensor and the finger.                                                *)

SensorRest ==
  UNCHANGED <<vars, entered, heard, commandVars, cmd_suspended, finger_on_sensor,
              delay_error, aborted>>

(* The CANCEL_OP reaches the sensor, or is lost (cmd_forget_cb): then only   *)
(* the read that waits for its reply, and times out, ends the command.       *)
SensorCancels ==
  /\ Settled /\ cancelling
  /\ cancelling' = FALSE
  /\ \/ /\ working' = FALSE
        /\ \E r \in {"cancel_ok", "cancel_fail"} : replies' = Append(replies, r)
     \/ /\ (ssm = "GET_RESP" /\ replies = <<>>) \/ "lost cancel" \in Quirks
        /\ UNCHANGED <<working, replies>>
  /\ UNCHANGED finger
  /\ SensorRest

FingerMoves ==
  /\ Settled
  /\ finger' = ~finger
  /\ UNCHANGED sensorVars
  /\ SensorRest

----------------------------------------------------------------------------
(* A step of the layer, with no vfunc left to call.                          *)
LayerStep(step) ==
  /\ Settled
  /\ step
  /\ entered' = (entered /\ action' = action)
  /\ heard' = (heard /\ told')
  /\ UNCHANGED driverVars

Vfuncs == Start \/ CancelVfunc \/ SuspendVfunc \/ ResumeVfunc

Transfers ==
  \/ Sent \/ InterruptCancelled \/ InterruptSuspended \/ AsyncSent \/ TransferFails
  \/ \E m \in Interrupts : Interrupt(m)

SynapticsNext ==
  \/ LayerStep(Client \/ IdleCancel \/ Flush \/ ReturnTask \/ Notify)
  \/ Vfuncs \/ Transfers \/ Receive \/ SensorCancels \/ FingerMoves

(* Transfers end, by their timeouts, and an interrupt transfer when it is    *)
(* cancelled or there is the reply to a cancel to fetch; a sensor decides a  *)
(* command that needs no finger.  The main loop runs its sources.            *)
AwaitedInterrupt ==
  \E m \in Interrupts : m \in {"reply"} \cup (IF cmd \in Short THEN Decided ELSE {}) /\ Interrupt(m)

TransferEnds ==
  ssm # "WAIT_INTERRUPT" /\ (Sent \/ AsyncSent \/ Receive \/ TransferFails)

SynapticsFairness ==
  /\ WF_allVars(Vfuncs) /\ WF_allVars(TransferEnds)
  /\ WF_allVars(InterruptCancelled \/ InterruptSuspended)
  /\ SF_allVars(AwaitedInterrupt) /\ WF_allVars(SensorCancels)
  /\ SF_allVars(LayerStep(IdleCancel)) /\ WF_allVars(LayerStep(Flush))
  /\ WF_allVars(LayerStep(ReturnTask)) /\ WF_allVars(LayerStep(Notify))

SynapticsSpec == SynapticsInit /\ [][SynapticsNext]_allVars /\ SynapticsFairness

----------------------------------------------------------------------------
(* Properties.                                                               *)

(* An action that runs has a command that will answer it, and a command has  *)
(* an action to answer: the callbacks answer exactly once, whether the       *)
(* command ends by a message, by a failure or by a removal it waited for.    *)
AnswerOnItsWay == Settled => cmd = IF Running THEN action ELSE "none"

(* fpi_device_critical_enter: "all critical sections are left before command *)
(* completion".  No task returns inside one, nor does one leave what would   *)
(* keep the next action's cancel in the queue.                               *)
SectionsLeft == [][returning' /\ ~returning => critical = 0]_allVars

(* synaptics_cmd_run_state: "Interruptions are permitted only during an      *)
(* interrupt transfer": whatever the driver is told of a cancel, its command *)
(* waits for the sensor or is suspended.                                     *)
ToldWhileWaiting ==
  [][~told /\ told' => ssm \in {"WAIT_INTERRUPT", "SUSPENDED"}]_allVars

(* resume asserts a command in SYNAPTICS_CMD_SUSPENDED, whatever cancels and *)
(* completions came between the suspend and it.                              *)
ResumeFindsSuspended ==
  asked = "resume" => action \in Match /\ ssm = "SUSPENDED" /\ cmd_suspended

(* suspend: "We are guaranteed to have a cmd_ssm running at this time."      *)
(* A suspend queued in the command's last section is flushed before the task *)
(* returns, with the action still current.                                   *)
SuspendHasCommand ==
  asked = "suspend" /\ action \in Match => cmd # "none"

(* identify_msg_cb keeps DATA_NOT_FOUND in delay_error for the removal of the *)
(* finger, as the error of that action.  A wait for the removal that fails or *)
(* is cancelled leaves it there for the next one.                            *)
DelayErrorIsOwn == delay_error => cmd_complete_on_removal

(* A cancelled action ends, or is suspended first.                           *)
CancelledEnds == cancelled ~> ~Running \/ is_suspended \/ aborted

(* Every suspend and every resume is answered.                               *)
PowerAnswered == request # "none" ~> request = "none" \/ aborted
=============================================================================
