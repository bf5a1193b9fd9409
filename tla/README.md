# Verification of the egis0575 fingerprint driver and the libfprint core

The repository is a fork of libfprint with a driver of its own, `egis0575`, for
the Egis EH575 (1c7a:0575) press sensor. This directory holds TLA+ models of the
driver and of the libfprint layers it and its siblings run on, the TLC runs that
check them on small instances, and machine-checked proofs of their safety
properties.

The drivers run in one GLib main loop; only the minutiae scan of image devices
has a thread, and it reports through the same loop. What is hard is that the work
of one call is spread over callbacks (USB completions, timers, idle sources),
that a capture loop outlives the call that started it, and that clients cancel,
close, suspend, unplug and call again in between. One TLA+ action is one main-loop
callback or one client call; interleaving is the order in which the main loop
dispatches.

## Inventory

| Component | State it keeps | Operations | Hard behaviour | What makes it correct |
| --- | --- | --- | --- | --- |
| `egis0575` session (`egis0575.c` 1929-1957, 2672-3087) | `running`, `stop`, `capture_ssm`, `transfer_in_flight`, cancel watchdog, start wait, close retries, the claim | open, close, enroll, verify, capture, cancel; settle, start, close and watchdog timers; `loop_complete` | loop outlives its action; timers outlive their request; cancel and close during any of it | no transfer outlives its SSM, one loop at a time, every call answered with what happened, interface not released under a transfer |
| `egis0575` capture transport (`ssm_run_state`, `req_cb`, `resp_cb`, 1363-1450, 1959-2670) | SSM state, packet array and index, calibration block, retry counters, frames of this claim | calibration chain, status polls, frame poll, recoveries, recycling, shutdown chain | timeouts and cancels at every transfer; counters reset in several places; arrays switched mid-poll | armed before it polls, nothing read out of bounds, retries bounded, ends when stopped |
| `egis0575` touch turn (`save_img`, 1455-1916) | warm-up, `capture_armed`, `waiting_for_lift`, turn age, probes, enroll stage | one frame: lift, settle, timeout, probe, stage, capture, phantom recovery | leftovers of one action seen by the next; a finger that never lifts | a used frame was lifted for and settled; probes are of one touch; enrollments can be finished and finish full |
| `egis0575` matcher and template (`egis0575-matcher.c`, `egis0575.c` 385-514, 1506-1582, 3033-3080) | enrolled frames, gallery, probes, the stored print | score, same-spot gate, pack, unpack, verdict | signed arithmetic at bucket borders; stored data nobody vouches for; thresholds over several frames | the gallery is in bounds, an enrolled print comes back as it was pooled, genuine presses match, matches are earned |
| FpDevice (`fp-device.c`, `fpi-device.c`) | current action and task, internal cancellable and its reason, critical sections and what is queued in them, suspend request, removal | nine calls, cancel, suspend, resume, remove, complete, return | completion is queued and returned later; cancels, suspends and removals meet any of it | answers belong to their call and say why it ended; no request is lost; a removal is announced once |
| FpiSsm (`fpi-ssm.c`) | current state, delayed change, error, parent | next, jump, delayed change, sub-machine, completed, failed | a failed machine still runs its cleanup; timers and children move a machine | first error reported, cleanup whole, no machine stalls |
| FpImageDevice (`fp-image-device.c`, `fpi-image-device.c`) | state, finger, scan, enroll stage, action error | activate, finger, image, retry, error, deactivate, the minutiae scan, cancel | the scan ends in its own thread while the device deactivates or fails | one whole answer, with nothing left running |
| elan driver (`elan.c`) | its running state machine, calibration, frames | four command chains under the image layer | a failed, late or cancelled command in a state of the layer that does not expect it | keeps the layer's contract, every cancel is answered |
| synaptics driver (`synaptics.c`) | the command, its state machine, its interrupt transfer, critical sections, a result kept for the removal of the finger | seven vfuncs, cancel, suspend, resume; twelve kinds of messages | answer, end of the command and critical sections are left at different places; one interrupt transfer is cancelled for two reasons | each action answered once by its own command, every section left, every cancel, suspend and resume answered |
| FpContext (`fp-context.c`) | device list, pending probes, removal sources | hotplug, probe, enumerate, remove, finalize | a device goes while it is open, busy or being probed | a removed device leaves the list once, and closed |
| FpiUsbTransfer, FpPrint, image quality, assembling, SPI, nbis, virtual devices, other drivers, tools | | | | not modelled, see below |

The parts interact by calls and callbacks: FpContext lists a device; FpDevice
accepts a call and invokes the driver, directly or through FpImageDevice; the
driver starts an SSM and returns; USB completions drive the SSM; a handler
completes the action; FpDevice queues the result as an idle source and is free
again when that source runs. The hazards of the code, each at its line, are
listed in `PROJECT.json`.

## Modules

| Module | Models | Notes |
| --- | --- | --- |
| `FpDeviceTask` | the life of one FpDevice call as a driver sees it | operators the session's handlers are built from; no Next of its own |
| `CaptureLoop` | what the rest of the driver relies on from the loop | abstract specification: where a loop can go, and that a stopped one only winds down |
| `Egis0575Session` | the driver between its calls | extends `FpDeviceTask`; the SSM is a phase and a number of transfers left |
| `Egis0575Capture` | the loop's transport in detail | every SSM state and packet half; the outcome of `save_img` is a choice |
| `Egis0575Turn` | `save_img`, frame by frame | what a frame shows and when it comes is the environment's choice |
| `Egis0575Template` | the matcher's score and verdict, the stored template | a press is the features found in it; a descriptor is its distances to the others |
| `FpDevice` | the device layer | the driver is the environment: any class, any nesting of critical sections |
| `FpiSsm` | a chain of machines | the driver is the environment: any operation in any context |
| `SsmPromise` | what a starter of a machine is promised | abstract specification: one report, of the first error, after the cleanup |
| `FpImageDevice` | the image layer | the driver is bound by what `fpi-image-device.h` asks of it |
| `Elan` | a real driver in the place of that environment | extends `FpImageDevice`; its `KeepsContract` says every step of layer and driver is one the contract allows |
| `Synaptics` | a driver that matches on the sensor, in the place of the environment of `FpDevice` | extends `FpDevice`, whose actions run unchanged; the sensor is the environment |
| `FpContext` | the context and its device list | of a device it sees whether it is open and busy |
| `MCSession`, `MCCapture`, `MCSsm`, `MCTemplate`, `MCSynaptics` | constants for TLC; statements of the source the driver does not keep | |
| `*_proofs` | the theorems of the module they are named after | those of `Elan` are in `FpImageDevice_proofs`, those of `Synaptics` in `FpDevice_proofs`: each extends the proofs about the layer it runs in |

Refinements. `Egis0575Session` and `Egis0575Capture` both implement `CaptureLoop`,
the session with its own `phase`, the transport through the mapping `LoopPhase`:
that is how two views of one loop are kept in agreement. The root machine of
`FpiSsm` implements `SsmPromise` (`RootKeepsPromise`), liveness included.
`Elan` implements `FpImageDevice` with the identity as its mapping.
`Egis0575Turn` models who the loop serves as loosely as the session allows it,
including a loop that a leftover timer started.

State and code. Variables carry the names of the fields they stand for and each
declaration names its field. Sources attached to the main context are sets,
sequences or flags: `start_timers`, `settle_timers` and `close_timers` hold the
calls whose timer is pending, `idle_return` is the queue of task returns. Time is
counted in ticks where only order matters (`action_start_wait`, `turn_age`,
`waiting_for_lift_since`). `doomed` is a transfer or command submitted with a
cancellable that was already cancelled: it cannot succeed; one submitted before
the cancel may still end with data. Success, an error, a timeout and a
cancellation are alternatives of one completion. `held_back` (session) is how many
queued returns are dispatched before a source attached behind them, which GLib
guarantees for equal priorities. `returning` and `leaving` (FpDevice) are the
window in which a task's callback has run and the handlers connected to its
completion have not. `stack` (FpiSsm) is the call that is running: all calls
between machines are synchronous. `callee` (Elan) is the driver callback the layer
has just called: it is the next step, and nothing comes between. In `Synaptics` the
same is said by `Settled`: `entered`, `heard` and `asked` tell which vfunc the layer
has called, and every other step waits until it has run. `replies` are the messages
`GET_RESP` reads one after the other, `cancelling` is a CANCEL_OP between its
submission and the sensor, `aborted` a failed assertion of the driver.

History variables are marked in their declarations and no guard reads them, except
`owner` of the session, which keeps call identities from being reused too early.
Definitions that begin "Mutant:" are faulty variants of the handler that follows
them; no specification uses them. They show that each property can fail.

## Runs

| Run | Instance | What it shows |
| --- | --- | --- |
| `session` | 2 calls at once, calibration chain, frame poll and shutdown chain of 2 transfers each, 2 close polls, start wait of 2 ticks, with and without `EGIS0575_SKIP_CALIBRATION`, fair main loop; 81,000 states | no transfer outlives its loop, answers agree with what happened, the interface is released under a transfer only at the cap, the loop contract; stopped loops drain; cancels, opens and closes are answered |
| `capture` | the code's array lengths (16, 2, 4, 3, 13, 29, 18, 20, 9), 4 status polls, 3 and 2 recoveries, 3 frames per claim, with and without `EGIS0575_SKIP_CALIBRATION`; 43,000 states | armed before it polls, nothing read out of bounds, bounded recoveries, ends when stopped, the loop contract |
| `turn` | settle 1, turn 3, phantom 2 ticks, gaps up to 2, 3 probes, 3 stages, 2 rejects; 151,000 states | what is captured was lifted for, settled and of one touch; enrollments stay finishable; presence is resolved |
| `template` | 8 presses of two fingers, 8 foreign templates, 3 enrolled frames, 2 probes, 4 orientations; 101,000 states | bounds, round trip through the stored print, genuine presses match, matches are earned |
| `device` | all nine calls, three driver classes, critical sections nested twice; 188,000 states | no cancel is delivered to the wrong action; cancels end, suspends and resumes are answered |
| `ssm` | a root with 2 work and 2 cleanup states, a child with 1 and 2, two errors; 2,300 states | cleanups are whole, failures end, the promise |
| `image` | 5 stages; 1,300 states | one whole answer with nothing left running; deactivations answer |
| `elan` | 5 stages, 3 calibration attempts, 2 to 3 frames, no race; 8,400 states | the contract, quiet answers, told cancels end |
| `synaptics` | seven vfuncs under the whole device layer, galleries of 0 to 2 prints, a finger that comes and goes, failing transfers; 101,000 states | one answer by the action's own command, sections left, resumes find a suspended command; cancels end, suspends and resumes are answered |
| `context` | 2 pluggings, no nested dispatch; 5,300 states | a removed device leaves the list, once and closed |
| `unchecked_upload` | as `capture` | a statement of the source the transport breaks |
| `late_suspend` | as `synaptics` | a statement of the source that layer and driver break together |

Bounds. Identities of calls are reused once nothing in the program remembers
them, so two calls cover the owner of a running loop and an action that waits
behind it, or one that runs and the timer another has left; the safety properties
are proved for every set of calls. Histories are unbounded. Chains of two transfers have a first and
a last one. The shutdown chain must have at least two transfers
(`SessionAssumption`; the code's has 18): its first one is submitted with the
action still current, the second after the return. `MaxFrames` (200 in the code)
and `CalPollMax` (500) are small because only reaching them matters. The
transport uses real array lengths because its index arithmetic depends on them.
In `turn` the settle window, the time-out and the phantom timeout are distinct
and gaps can jump over each of them. Critical sections nested twice distinguish
the last leave from the others. Two machines are a parent and a child; a deeper
chain repeats the pair. `MCJumps` has a jump back in the work and one into the
cleanup. Five stages are the default of libfprint. An identify among two prints has a first print,
which the start sends, and one that is asked for later; its critical sections need no
bound, `MaxCritical` is for the environment of `FpDevice` only. Two pluggings are enough for
a removal to move another device in the list. `MCTemplate` has the presses that
decide something: the whole finger, moved and turned, its edge, a part moved
across a bucket border, parts that lie apart, that turn apart, another finger with
a worn look-alike, and too few features; and of foreign data each thing
`unpack_feature_frames` rejects or cuts. There a single print is enrolled: a
second one would only replace the first.

Deadlock is checked in `capture`, `turn`, `ssm` and `template`. Elsewhere the
system may really stop: after a failed claim in `dev_open` the USB device stays
open and every later open fails at once; a removed device, an image device that
nobody uses and a finalized context have nothing left to do; a failed assertion of
the synaptics driver ends the program.

Fairness. Every specification assumes that the main loop dispatches what is
attached and that a submitted transfer ends, somehow, because each has a time-out
(2 s in egis0575, one per command in elan). Clients owe nothing, with one
exception in `FpContext`: a client that is told of a removal closes the device.
Cancelling, touching and lifting are never assumed. Strong fairness stands where
a source is disabled and attached again in between: the idle cancel and the flush
of critical sections (`FpDevice`), the last leave of a driver that keeps
entering, the next frame of a turn, which a completion being returned briefly
disables, and timers and cleanup states that a failing handler re-arms
(`FpiSsm`). Of a driver `FpDevice` assumes that it answers suspend and resume,
completes short actions, and completes a long one it was told to cancel, that has
no cancel vfunc but a cancelled cancellable, or whose device is gone. The same
holds for `FpImageDevice` and its driver's open, close, activation and
deactivation; `Elan` shows of one driver that this is so. Nothing of the kind is
assumed of the synaptics driver: that it answers is what its run shows, from the
main loop, the time-outs of its transfers, a cancelled interrupt transfer that ends,
and a sensor that decides a deletion without a finger and signals the reply to a
cancel. That interrupt and the idle cancel need strong fairness, because resumes and
finger messages disable them in between. `CancelAnswered` is stated
for behaviours in which no call is completed twice, and `StopDrains` for a sensor
that does not repeat its reset response 01 01 01 for ever: the poll has no bound
on that. `Egis0575Template` has no liveness.

## Where the code does not do what the source says

Two runs show a statement of the source violated; `PROJECT.json` quotes it.

* `unchecked_upload`: the calibration block is allocated before it is read; after
  a failed or cancelled read it is taken for a cached one and uploaded.
* `late_suspend`: a suspend that comes between the answer of an action and its
  return, or is flushed there, is forwarded to the driver as if the action ran. A
  cancel is not: `fpi-device.c:930` looks at the pending return. The synaptics
  driver asserts that it has a command, and has none any more.

The others were found while modelling and are described here. Where a statement
is named, it stands in the module with a comment, as an operator TLC refutes when
it is given as a property.

Session (`MCSession`):

* `WaitsForPreviousLoop` (`egis0575.c:2788`): a start timer does not remember which
  request armed it. If that request is cancelled and another accepted before it
  fires, the other action gets two timers; one starts its loop, the other waits
  behind that loop until the 40 s bound fails the action with BUSY.
* `LoopHasLiveAction` (`egis0575.c:2813`): between a queued completion and its
  return the answered action is still "current", and the timer starts a loop for it.
* `CloseIgnoresCancel` (`egis0575.c:2713`): `loop_complete` answers a waiting,
  cancelled close with "cancelled", where `fpi-device.c:1067` asks drivers to ignore
  cancellations.
* `CancelIdleHasAction` (`fp-device.c:92`): an action the driver completes twice
  ends the next call; the idle cancel source of that one outlives it and runs into
  an assertion. With a driver that completes once, `FpDevice` proves it.

Transport (`MCCapture`):

* `CleanEndShutsDown` (`egis0575.c:2620`): a stop seen between two frames skips the
  shutdown sequence that `docs/protocol.en.md` requires.
* `FramelessLoopEnds` (`egis0575.c:2150`): the recovery counter is reset by
  requests, so a sensor that takes requests but never answers is recovered for ever.

Matcher: `EGIS0575_M_MIN_FEATURES` is defined and not used: a frame with fewer
features than a score needs (5) is pooled in an enrollment although it can never
agree with a probe.

Device layer (`FpDevice`):

* `ResumeMeetsNoShortAction` (`fp-device.c:1842`, `fpi-device.c:1829`):
  `fp_device_clear_storage` alone does not look at `is_suspended`; a resume during
  it reaches `g_assert_not_reached`.
* `NothingStartsSuspended` (`fpi-device.c:1781`): a suspend that waited for a short
  action is answered with success and does not suspend the device.
* `RemovedIsIdle` (`fpi-device.c:782`): the removed signal of a busy device comes
  after the client's callback, which may have started the next call.
* `RemovedCanClose` (`fp-device.c:1064`): a device unplugged while it is suspended
  answers a close with BUSY and a resume with REMOVED.

Image layer and elan (`FpImageDevice`, `Elan`):

* `CancelEnds` (`fp-image-device.c:89`): a cancel told while an image device is
  being activated is dropped, because the device is not active yet. In elan
  ("deaf activation", a member of `Races`) the calibration that follows fails with
  the cancellation, which `fpi_image_device_session_error` drops as well, and nothing
  answers the action.
* `ErrorEndsAction` (`fpi-image-device.c:176`): the scan of an enrollment that ends
  after an error awaits the next finger on a device that is being deactivated.
* `StartsClean` (`fp-image-device.c:129`): the layer asserts that no finger is
  present when an action starts. If a finger was reported during an activation
  that then fails, the next action finds it there and aborts the program.
* In elan two more coincidences break the contract. They are members of `Races` too,
  which the passing run excludes: "stop fails" (`elan.c:508`:
  the stop command fails before the scan of an enrollment's image is done) and
  "late timeout" (`elan.c:612`: the wait for the finger times out under a
  deactivation, and its retry moves the layer out of it).

Synaptics:

* `AnswerOnItsWay` and `SectionsLeft` hold while prints parse; with `FALSE` in a
  gallery they fail. An identify whose first print does not parse has entered the
  section of its start and never leaves it (`synaptics.c:800`): cancels and suspends
  of later actions stay queued for ever. With a later print (`synaptics.c:859`) the
  action is answered and its command waits on; the next action asserts that there is
  no command.
* `DelayErrorIsOwn` (`synaptics.c:684`): an identify that found no record keeps the
  error for the removal of the finger. If that wait fails or is cancelled the error
  stays, and a later result that waits for a removal is reported as that error.
* `Quirks` are what a sensor or the USB stack may do beyond the protocol; the run has
  none. With "spurious interrupt" the interrupt transfer is submitted again without a
  cancellable (`synaptics.c:263`): a suspend that comes then is never answered.
  With "silent reply" or "lost cancel" a cancel that meets a suspend is gone after
  the resume, and `CancelledEnds` fails.

Context (`FpContext`):

* `EnumeratedIsPlugged` (`fp-context.c:563`): a device unplugged while it is being
  probed is in no list `usb_device_removed_cb` searches, and is listed afterwards.
* `RemovesWhatItAnnounced` (`fp-context.c:105`): the index of a removed device is
  taken before its handlers run; with `Nesting = 1`, a handler that iterates the
  main context, another device is taken out of the list.

## Proofs

Each theorem holds for every value of the constants that the module's assumptions
allow: `TaskAssumption`, `SessionAssumption`, `CaptureAssumption`, `TurnAssumption`,
`TemplateAssumption`, `RecognitionAssumption`, `DeviceAssumption`, `SsmAssumption`, `CleanupAssumption`,
`ImageAssumption`, `ElanAssumption`, `SynapticsAssumption`, `ContextAssumption`. They
bound sizes and shapes only, but for two. `CleanupAssumption` says that a driver does
not jump back out of a cleanup it has entered; `RecognitionAssumption` that the
features of a press lie at different places, as `egis0575_m_extract` leaves them, and
that no threshold is above what the least number of perfect features can score (the
code's ask for less). Some theorems have a premise of their own; the first four and
`Nesting = 0` exclude what the code does not withstand:

| Premise | Says | Theorems |
| --- | --- | --- |
| `CleanupInOrder` | a driver's jumps pass over no cleanup state | `WholeCleanup`, `RootKeepsSafety` |
| `NoRace` (`Races = {}`) | none of the coincidences of elan and the image layer listed above | all of elan |
| `ByProtocol` | prints parse and the sensor has no quirks | all of synaptics |
| `[]AnsweredOnce` | no call of the session is completed twice | `NoCallIsForgotten` |
| `2 <= MaxCritical` | the bound on nested sections, which is the model's and not the code's, leaves room for the two that synaptics can be in | `SynapticsKeepsLayer`, `SynapticsKeepsAnswers` |
| `Nesting = 0` | no handler of a removal iterates the main context | `RemovedAfterClose`, `RemovesAnnounced`, `RemovalNotForgotten`, `RemovalAdvances` |
| `NOrient < 15` | a step of the filter bank is more than the 12 degrees tolerated; the code has 11 orientations | `MatchAlwaysEarned` |

`Egis0575Session_proofs`: `TypeOK`, `TransferHasLoop`, `WatchdogHasLoop`,
`SuccessIsFinal`, `LoopKeepsOwner`, `ReleaseUnderTransferOnlyAtCap`,
`CloseWaitsForLoop`, `CancelIsNotFailure`, and that the session implements
`CaptureLoop`. `TransferHasLoop` needs to know where the loop stands: `LoopInv`
ties `running` to `phase`, a transfer in flight to the phases that wait for one, and
the watchdog to its source and to a running loop. `TaskInv` ties the current task
to its action and to the answers queued for it. `TypeOK`, `LoopInv` and `TaskInv` are
inductive together (`Core`). `SuccessIsFinal` needs `ShutdownInv` on top: behind a
queued success the shutdown chain is at its first transfer, or at one whose source
is dispatched after that success was returned. This is where the assumption of two
shutdown transfers is used. The refinement needs one more fact, that a loop in
the shutdown phase has been stopped (`StopInv`). The proof groups the actions by
what they do to the loop: it moves to another phase, it ends, or it enters the
shutdown chain.
Two theorems are the safety behind the session's liveness. `NoCallIsForgotten`: a call
without an answer has its own timer pending, or the loop that was started for it works
for it or will report its cancellation; it needs that calls are answered once, because
a second answer ends the next call (above). `StoppedLoopWindsDown`: every callback but
a request for pre-init lowers `Rank`, the callbacks a stopped loop has left.

`Egis0575Capture_proofs`: `TypeOK`, `PollsAreArmed`, `IndexInBounds`,
`SilentSensorGivenUp`, and that the transport implements `CaptureLoop`, for any
lengths of the packet arrays and any bounds on polls, recoveries and frames. None
of them is inductive, because a delay or a recycled claim may lie between the
cause and the poll it matters to. `Where` says at which states the machine can
wait, and that a loop without calibration never enters the chain; `PacketInv` which
array is sent from where; `ArmedInv` that the sensor is armed already at the
delays before the poll, unless pre-init is still to come. `SilentInv` is the one
that took thought: each of two counters bounds the recoveries of a silent sensor
and is reset elsewhere, so it has to say that with a calibration only
`timeout_recoveries` counts, and that without one each restart leads to the very
first packet again, where only `startup_timeout_retries` counts. The refinement
needs `StopInv` again, and goes through what each kind of callback does to
`LoopPhase`. `StoppedLoopAlwaysEnds` is the ranking behind `StopEnds`: once stopped a
loop has at most two callbacks per shutdown packet and one more, whatever the sensor
answers. Here a request for pre-init cannot prolong it, which the session has to
leave open: a loop is stopped by its own success, and then shuts down, or by a
cancel, and then every further transfer is submitted with a cancellable that is
cancelled already (`CancelInv`).

`Egis0575Turn_proofs`: `ProbesOfOneTouch`, `StageInBounds`, `EnrollFinishable`,
`UsedNeedsLift`, `UsedIsSettled`, `EnrollCompletesFull` and `WaitAges`. `TurnInv` carries the
meaning of the flags: `capture_armed` stands for a lift that has been seen, and an
open turn is younger than the contact it belongs to. `ProbeInv` says the same of
probes already collected, because a lift or a time-out decides a verify with a
frame that passes no gate itself. `EnrollInv` bounds the presses by the stages and
the rejects of the current one, and says that an enrollment with a stage is served
by a running loop: a new one would reset `enroll_sim_rejects`. `WaitAges` is the ranking
behind `PresenceIsResolved`: of a loop that waits for a lift and is not stopped, every
frame brings `waiting_for_lift_since` nearer to the phantom timeout and nothing else
moves it; `WarmInv` is needed because a frame of the warm-up would not.

`Egis0575Template_proofs`: `GalleryInBounds`, whoever wrote the stored data, and
`EnrolledIsUsable`. The second rests on the lemma `RoundTrip`: what is packed is
usable and is unpacked to itself, as long as no frame has more than `MaxFeatures`
features, which the invariant carries from the press through the pool to the print.
`MatchIsEarned` follows the score backwards: a verdict of a match stands for probes and
a gallery that are still there (`EarnedInv`), a frame that agrees has a positive score,
and a positive score has counted enough pairs, one for each feature of the probe, that
share their turn and lie in one window. The CHOOSE of the cluster, the mode and the
nearest feature are why this is not plain: that there is a largest bucket, a most
frequent turn and a least distance comes from the well-foundedness of the naturals
(`LeastExists`, `GreatestExists`), which replaces the induction the provers do not have.
`GenuineMatches` is the converse: a refused verify has judged every probe (`RefusedInv`),
and a probe that shows a part of a frame scores enough. Each of its features finds its
own counterpart nearest, at distance 0 (`NearestOfShown`), all pairs fall into one
window and turn alike (`ShownPairs`, `NearCentre`). The score is a sum folded over a
set, whose value calls for an induction over that set; `SumOfZeros` does without, for
pairs at distance 0: 128 times the number of pairs satisfies the equation of the fold,
and a smallest set on which another solution differed would not satisfy it. So the
probe scores 128 for each of its features (`ShownScores`).

`FpDevice_proofs`: `TypeOK`, `CancelIdleHasAction`, `QueuedIsFlushed`,
`RequestHasAnswerer`, `RemovedOnce`, `OpenHasUsb`, `SuspendedActionAgreed`,
`CancelReachesItsAction`, `InterruptedIsBusy`, `ReasonIsTrue` and `CancelHasOnePlace`,
for any calls, classes and nesting. The invariant has four parts besides the types. `TaskInv` ties
sources, sections and handlers to the action they were made for. `UsbInv` relates the
two open flags and the action. `PowerInv` says who is going to answer a request, that
it is one of them only, and that what is queued belongs to it. `RemovalInv` says
that the handler which emits the signal is connected to one task, once.
`CancelHasOnePlace` is the safety behind `CancelEnds`: a cancelled action of a driver
that can be told has its cancel in the idle source, in the queue of the critical section
or told, in one of them and not twice.

`FpiSsm_proofs`: `TypeOK`, `NeverStalls`, `TimersAreOwned`, `ChildHasParent`,
`FirstErrorReported` and `ChildErrorReachesParent`, for any depth, shapes and jumps.
The strengthening is that an error, once set, is the first one, and who waits for
what: a machine has a transfer, a timer, a child or the stack, and those below
the running one wait for their children.
Two more need `CleanupInOrder`: `CleanupIsWhole`, whose invariant says how far into
its cleanup a running machine is, by the state it is in, and the safety half of the refinement
of `SsmPromise` by the root of a chain, for any depth.

`FpImageDevice_proofs`: `TypeOK`, `AnsweredIsQuiet`, `SuccessIsWhole` and
`NoScanWhileCapturing`, for any number of stages. `QuietInv` says who may be active;
`AccountInv` what an action has achieved whenever its deactivation can begin (an
enrollment all its stages; the others their report or image once the scan is
over); `StageInv` that an enrollment with all its stages only winds down.
`DeactivationGetsOn` is the ranking behind `DeactivationAnswers`: such an action waits for
the driver, the scan, or both (`ActiveInv` says which the state stands for), each ends
once, and nothing is added to them.

Of elan, in the same module: `KeepsContract` (elan and layer together implement
`FpImageDevice`, step by step, whose driver is bound only by the contract),
`ElanIsQuiet`, `Attended` and `DeactivationWaits`, for any number of frames, calibration
attempts and stages. What the contract allows depends on the state of the layer, and
elan calls the layer from callbacks of its own machine, so the invariant relates the
two. `MachineInv` says whose command is under way and that the layer is active when
elan counts itself active, `CalleeInv` that the layer calls back a driver that can follow,
`WorkInv` what the layer waits for while a machine runs, `DeactivationInv` that the
deactivation elan remembers is the one the layer waits for, `ScanInv` that a scan does
not outlive the activity of its enrollment, `AttendedInv` that without a machine or a
callback only the scan can move the action on. The
promises of the layer carry over from the theorems about the contract
(`ElanKeepsLayer`).

Of synaptics, in `FpDevice_proofs`: `AnswerOnItsWay`, `SectionsLeft`,
`ResumeFindsSuspended` and `ToldWhileWaiting`, for galleries of any size, under
`ByProtocol`, without which the properties fail, above. `SectionsInv` says what the
number of critical sections is at any time: one for a machine that does not wait, one
for a start that the sensor has not confirmed, one for a deletion; each callback must
change both sides alike. `CommandInv` ties the command to an action that runs.
`RepliesInv` says that a message which continues a command is the only one unread and
that no cancel is under way, or the continuation would read the reply of the cancel
as its own. `RequestInv` and `SuspendInv` say who answers a request and that a
suspended command belongs to the action it was suspended with.

And the promises of the device layer hold with synaptics in the driver's place
(`SynapticsKeepsLayer`, `SynapticsKeepsAnswers`). This is not a refinement step by
step: one callback of synaptics is a burst of calls of the layer, which enters and
leaves sections several times and may answer the action. The proof shows that the
invariant of the layer depends on the sections only through their number and the
pending flush (`SectionsMoved`, `MovedSections`), that every step of the composition
is one of the layer or such a callback (`StepOfLayer`), and that both keep the
invariant (`LayerKept`).

`FpContext_proofs`: `TypeOK`, `ProbesCounted`, `AnnouncedIsClosed`,
`RemovedOnceClosed`, `RemovesWhatItAnnounced`, `RemovalHasPlace` and `RemovalGetsOn`, for
any number of devices. `PendingInv`
says that the counter of pending devices is the number of probes under way, wherever
each of them is; `PlaceInv` where a removal waits (for the task, the close, its
source or its handlers) and that it never waits in two places; both hold however
deeply handlers iterate the main context. `ListInv`, that the index taken before the
handlers still is the device's, needs `Nesting = 0`, and so do the last four properties:
with nesting TLC finds the listed device to be another one. The last two are the safety
behind `RemovedLeaves`: a removed device is listed exactly as long as its removal is
at some `Stage` (the task, the close, the source, the announcement; `RemovalInv`), and
no step takes it back to an earlier one.

Proved statements that no run lists are proved only: among them `CancelIdleHasAction`,
`RequestHasAnswerer`, `SuspendedActionAgreed`, `RemovedOnce`, `UsedIsSettled`,
`EnrollCompletesFull`, `ToldWhileWaiting`, `Attended`, `DeactivationWaits`,
`AnnouncedIsClosed`, `ProbesCounted`, `RemovesWhatItAnnounced`, the promises of the
device layer with synaptics in the driver's place (`LayerPromises`), and the safety
behind liveness: `CallHasAnswerer`, `WindsDown`, `StoppedLoopEnds`, `WaitAges`,
`CancelHasOnePlace`, `DeactivationGetsOn`, `RemovalHasPlace`, `RemovalGetsOn`.

Model-checked only: liveness itself, which is beyond the prover, so also the fairness
half of `RootKeepsPromise`. Every invariant and action property a passing run checks is
proved.

## Not modelled

* `EGIS0575_PGM_DEBUG` and dump hooks: debugging paths without effect on the
  protocol.
* `finger_detected`, the stage-2 quality gate, the weak-press counter, background
  subtraction, `egis0575_m_extract`, `nbis`: numeric image code without state or
  concurrency; their outcome is a choice, so every outcome is covered.
* The forced close (36 s into a shutdown chain) frees buffers under a running loop;
  the session models the release, the turn does not follow the loop beyond it.
* FpiUsbTransfer and SPI transfers: a transfer is one completion; its reference
  counting and buffers are GLib and GUsb memory management.
* Of FpDevice: the temperature estimate (its overheating is an event), the probe
  before a client has the device, and match reports, which `FpImageDevice` has.
* FpPrint and FpImage data, assembling, byte readers: containers and arithmetic.
* Of the synaptics driver: the probe, the count of enrollment stages, sequence
  numbers (a wrong one is only logged), the coding of messages and prints. What the
  sensor still holds when a command ends is dropped; a reply that the next command
  would read as its own is not followed. In the composition the device is neither
  removed nor overheated.
* The other drivers are upstream's and unchanged; elan stands for the image
  drivers and synaptics for those that match on the sensor. The large protocol tables
  among them are data. Virtual devices, tools,
  demo and packaging are test doubles and user interface.

## Plan

1. The turn over the transport: one module in which `save_img`'s choice is the
   turn's, so that forced closes and leftover loops are followed to the end.
2. The session over `FpDevice`, as synaptics is: the promises of the layer with this
   repository's own driver in the place of the environment.
