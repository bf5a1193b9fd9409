----------------------------- MODULE FpContext -----------------------------
(* The context: hotplug callbacks of the USB library, the asynchronous         *)
(* initialisation of devices, the list a client sees, and the removal of       *)
(* devices that may still be open or busy.  A device here is one plugging of a *)
(* GUsbDevice.  Of a device's own life FpContext sees whether it is open and   *)
(* whether a task is running (FpDevice has the rest).                          *)
EXTENDS Naturals, Sequences, FiniteSets

CONSTANTS
  Device,                      \* everything that is ever plugged
  Nesting                      \* removals a handler may let in by iterating the
                               \* main context while its own is being announced

ASSUME ContextAssumption == IsFiniteSet(Device) /\ Nesting \in Nat

VARIABLES
  port,                        \* "empty", "plugged", "unplugged"; "gone" once told
  init,                        \* "none", "probing", "listed", "failed" or "ignored"
  pending_devices,             \* priv->pending_devices
  devices,                     \* priv->devices
  sources,                     \* priv->sources: the removals waiting to be run
  emitting,                    \* remove_device_idle_cb under way: device and index
  enumerating,                 \* fp_context_enumerate: "no", "running" or "done"
  alive,                       \* the context has not been finalized
  is_open,                     \* devices that are open
  task,                        \* "none", "open", "close" or "other"
  is_removed,                  \* fpi_device_remove has been called
  owed,                        \* their removed signal waits for their task
  on_notify_open               \* notify::open handlers of removed devices

contextVars == <<pending_devices, devices, sources, emitting, on_notify_open>>
deviceVars  == <<is_open, task, is_removed, owed>>
vars == <<port, init, enumerating, alive, contextVars, deviceVars>>

TypeOK ==
  /\ port \in [Device -> {"empty", "plugged", "unplugged", "gone"}]
  /\ init \in [Device -> {"none", "probing", "listed", "failed", "ignored"}]
  /\ pending_devices \in 0..Cardinality(Device)
  /\ devices \in Seq(Device)
  /\ sources \in Seq(Device)
  /\ emitting \in Seq([device : Device, idx : Nat])
  /\ enumerating \in {"no", "running", "done"}
  /\ alive \in BOOLEAN
  /\ task \in [Device -> {"none", "open", "close", "other"}]
  /\ UNION {is_open, is_removed, owed, on_notify_open} \subseteq Device

Init ==
  /\ port \in [Device -> {"empty", "plugged"}]
  /\ init = [d \in Device |-> "none"]
  /\ pending_devices = 0 /\ devices = <<>> /\ sources = <<>> /\ emitting = <<>>
  /\ enumerating = "no" /\ alive = TRUE
  /\ is_open = {} /\ task = [d \in Device |-> "none"]
  /\ is_removed = {} /\ owed = {} /\ on_notify_open = {}

Members(s) == {s[i] : i \in DOMAIN s}

(* g_ptr_array_find.                                                          *)
IndexOf(d) == CHOOSE i \in DOMAIN devices : devices[i] = d

(* g_ptr_array_remove_index_fast: the last element takes the place.            *)
RemoveIndexFast(s, i) ==
  IF i \notin DOMAIN s THEN s
  ELSE SubSeq([s EXCEPT ![i] = s[Len(s)]], 1, Len(s) - 1)

----------------------------------------------------------------------------
(* The ports, and what the USB library tells of them.                          *)

Plug(d) ==
  /\ port[d] = "empty"
  /\ port' = [port EXCEPT ![d] = "plugged"]
  /\ UNCHANGED <<init, enumerating, alive, contextVars, deviceVars>>

Unplug(d) ==
  /\ port[d] = "plugged"
  /\ port' = [port EXCEPT ![d] = "unplugged"]
  /\ UNCHANGED <<init, enumerating, alive, contextVars, deviceVars>>

(* usb_device_added_cb: the best driver starts to probe, if there is one.      *)
UsbDeviceAdded(d) ==
  /\ alive
  /\ enumerating # "no"
  /\ port[d] \in {"plugged", "unplugged"}
  /\ init[d] = "none"
  /\ \/ /\ init' = [init EXCEPT ![d] = "ignored"]
        /\ UNCHANGED pending_devices
     \/ /\ init' = [init EXCEPT ![d] = "probing"]
        /\ pending_devices' = pending_devices + 1
  /\ UNCHANGED <<port, devices, sources, emitting, on_notify_open, enumerating, alive,
                 deviceVars>>

\* Mutant: the removal does not wait for a close.
DeviceRemovedAtOnce(d, open) ==
  /\ sources' = <<d>> \o sources
  /\ UNCHANGED on_notify_open

(* device_removed_cb, on the removed signal of a device.                       *)
DeviceRemoved(d, open) ==
  IF open
  THEN on_notify_open' = on_notify_open \cup {d} /\ UNCHANGED sources
  ELSE sources' = <<d>> \o sources /\ UNCHANGED on_notify_open

\* Mutant: the removed signal waits only for a task of an open device.
UsbDeviceRemovedForgets(d) ==
  /\ alive
  /\ port[d] = "unplugged"
  /\ init[d] # "none"
  /\ port' = [port EXCEPT ![d] = "gone"]
  /\ IF d \notin Members(devices) THEN UNCHANGED <<contextVars, is_removed, owed>>
     ELSE /\ is_removed' = is_removed \cup {d}
          /\ UNCHANGED <<pending_devices, devices, emitting>>
          /\ IF task[d] # "none"
             THEN /\ owed' = IF d \in is_open THEN owed \cup {d} ELSE owed
                  /\ UNCHANGED <<sources, on_notify_open>>
             ELSE DeviceRemoved(d, d \in is_open) /\ UNCHANGED owed
  /\ UNCHANGED <<init, enumerating, alive, is_open, task>>

(* usb_device_removed_cb looks for the device among those listed, and           *)
(* fpi_device_remove emits its removed signal, at once or after its task.      *)
UsbDeviceRemoved(d) ==
  /\ alive
  /\ port[d] = "unplugged"
  /\ init[d] # "none"
  /\ port' = [port EXCEPT ![d] = "gone"]
  /\ IF d \notin Members(devices) THEN UNCHANGED <<contextVars, is_removed, owed>>
     ELSE /\ is_removed' = is_removed \cup {d}
          /\ UNCHANGED <<pending_devices, devices, emitting>>
          /\ IF task[d] # "none"
             THEN owed' = owed \cup {d} /\ UNCHANGED <<sources, on_notify_open>>
             ELSE DeviceRemoved(d, d \in is_open) /\ UNCHANGED owed
  /\ UNCHANGED <<init, enumerating, alive, is_open, task>>

----------------------------------------------------------------------------
(* Initialisation and enumeration.                                             *)

(* async_device_init_done_cb: of a finalized context nothing is touched.        *)
AsyncDeviceInitDone(d) ==
  /\ init[d] = "probing"
  /\ \/ /\ alive
        /\ init' = [init EXCEPT ![d] = "listed"]
        /\ devices' = Append(devices, d)
     \/ /\ init' = [init EXCEPT ![d] = "failed"]
        /\ UNCHANGED devices
  /\ pending_devices' = IF alive THEN pending_devices - 1 ELSE pending_devices
  /\ UNCHANGED <<port, sources, emitting, on_notify_open, enumerating, alive, deviceVars>>

Enumerate ==
  /\ alive
  /\ enumerating = "no"
  /\ enumerating' = "running"
  /\ UNCHANGED <<port, init, alive, contextVars, deviceVars>>

(* Nothing of the context is left to be dispatched.                            *)
MainLoopIsIdle ==
  /\ pending_devices = 0
  /\ sources = <<>> /\ emitting = <<>>
  /\ \A d \in Device : /\ port[d] \in {"plugged", "unplugged"} => init[d] # "none"
                       /\ port[d] # "unplugged"

EnumerateReturns ==
  /\ enumerating = "running"
  /\ MainLoopIsIdle
  /\ enumerating' = "done"
  /\ UNCHANGED <<port, init, alive, contextVars, deviceVars>>

----------------------------------------------------------------------------
(* Calls of the client on a listed device.                                     *)

Call(d, t) ==
  /\ d \in Members(devices)
  /\ task[d] = "none"
  /\ \/ t = "open" /\ d \notin is_open \cup is_removed
     \/ t = "close" /\ d \in is_open
     \/ t = "other" /\ d \in is_open \ is_removed
  /\ task' = [task EXCEPT ![d] = t]
  /\ UNCHANGED <<port, init, enumerating, alive, contextVars, is_open, is_removed, owed>>

(* The task of a device returns: notify::open comes first, then the client's    *)
(* callback, which may make the next call, then the removed signal that waited. *)
TaskEnds(d) ==
  /\ task[d] # "none"
  /\ is_open' \in CASE task[d] = "open"  -> {is_open, is_open \cup {d}}
                    [] task[d] = "close" -> {is_open \ {d}}
                    [] OTHER -> {is_open}
  /\ task' \in {[task EXCEPT ![d] = "none"]}
               \cup (IF d \in is_open' THEN {[task EXCEPT ![d] = "close"]} ELSE {})
  /\ owed' = owed \ {d}
  /\ IF d \in owed /\ alive THEN DeviceRemoved(d, d \in is_open')
     ELSE IF d \in on_notify_open /\ d \notin is_open'
          THEN sources' = <<d>> \o sources /\ UNCHANGED on_notify_open
          ELSE UNCHANGED <<sources, on_notify_open>>
  /\ UNCHANGED <<port, init, enumerating, alive, pending_devices, devices, emitting,
                 is_removed>>

----------------------------------------------------------------------------
(* Removal.                                                                    *)

(* remove_device_idle_cb finds the device and announces it...                  *)
RemoveDevice ==
  /\ Len(emitting) <= Nesting
  /\ \E i \in DOMAIN sources :
       /\ sources' = SubSeq(sources, 1, i - 1) \o SubSeq(sources, i + 1, Len(sources))
       /\ emitting' = IF sources[i] \in Members(devices)
                      THEN Append(emitting, [device |-> sources[i], idx |-> IndexOf(sources[i])])
                      ELSE emitting
  /\ UNCHANGED <<port, init, enumerating, alive, pending_devices, devices, on_notify_open,
                 deviceVars>>

(* ... and removes what is at its index when the handlers are done.             *)
RemoveDeviceEnds ==
  /\ emitting # <<>>
  /\ emitting' = SubSeq(emitting, 1, Len(emitting) - 1)
  /\ devices' = RemoveIndexFast(devices, emitting[Len(emitting)].idx)
  /\ UNCHANGED <<port, init, enumerating, alive, pending_devices, sources, on_notify_open,
                 deviceVars>>

(* fp_context_finalize, not from one of the context's own handlers: probes are  *)
(* cancelled, waiting removals destroyed, handlers disconnected.               *)
Finalize ==
  /\ alive
  /\ enumerating # "running"
  /\ emitting = <<>>
  /\ alive' = FALSE
  /\ devices' = <<>>
  /\ sources' = <<>>
  /\ on_notify_open' = {}
  /\ UNCHANGED <<port, init, enumerating, pending_devices, emitting, deviceVars>>

----------------------------------------------------------------------------
Next ==
  \/ \E d \in Device :
       \/ Plug(d) \/ Unplug(d) \/ UsbDeviceAdded(d) \/ UsbDeviceRemoved(d)
       \/ AsyncDeviceInitDone(d) \/ TaskEnds(d)
       \/ \E t \in {"open", "close", "other"} : Call(d, t)
  \/ Enumerate \/ EnumerateReturns \/ RemoveDevice \/ RemoveDeviceEnds \/ Finalize

(* The main loop runs, probes and tasks end, handlers return, and the client    *)
(* closes a device that has been announced as removed.                         *)
Fairness ==
  /\ \A d \in Device : /\ WF_vars(UsbDeviceAdded(d)) /\ WF_vars(UsbDeviceRemoved(d))
                       /\ WF_vars(AsyncDeviceInitDone(d)) /\ WF_vars(TaskEnds(d))
                       /\ WF_vars(d \in on_notify_open /\ Call(d, "close"))
  /\ WF_vars(RemoveDevice) /\ WF_vars(RemoveDeviceEnds) /\ WF_vars(EnumerateReturns)

Spec == Init /\ [][Next]_vars /\ Fairness

----------------------------------------------------------------------------
(* Properties.                                                               *)

(* FpContext::device-removed: "It is guaranteed that the device has been closed *)
(* before this signal is emitted", and it is emitted once for a listed device.  *)
RemovedOnceClosed ==
  /\ \A k \in DOMAIN emitting : emitting[k].device \notin is_open
  /\ \A i, j \in DOMAIN sources : sources[i] = sources[j] => i = j
  /\ Members(sources) \subseteq Members(devices) \ {e.device : e \in Members(emitting)}

(* What is taken out of the list is the device that was announced, although     *)
(* its index was taken before the handlers ran.  So only while no handler      *)
(* iterates the main context (Nesting = 0).                                   *)
RemovesWhatItAnnounced ==
  [][emitting # <<>> /\ Len(emitting') < Len(emitting)
       => Members(devices) \ Members(devices') = {emitting[Len(emitting)].device}]_vars

(* A listed device that is removed leaves the list, whatever it was doing.      *)
RemovedLeaves ==
  \A d \in Device : (d \in is_removed /\ d \in Members(devices)) ~> d \notin Members(devices)

(* fp_context_enumerate: "This takes care of processing hotplug events that     *)
(* happened during enumeration": it returns no device that is unplugged.  One   *)
(* that is unplugged while it is probed is in no list yet, and is returned.    *)
EnumeratedIsPlugged ==
  [][enumerating = "running" /\ enumerating' = "done"
       => \A d \in Members(devices) : port[d] = "plugged" \/ d \in is_removed]_vars
=============================================================================
