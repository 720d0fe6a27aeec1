# VRLib: specifications, model checks and proofs

This directory specifies, in TLA+, the concurrent core of VRLib, the native
library under Gear VR applications: the asynchronous time warp that keeps the
display fed while the application renders, the lock-free and locked channels
between its threads, the device layer below, and the state machines that decide
when all of it starts, stops and throttles.  TLC checks the modules on small
instances; TLAPS proves the most important properties for every value of the
constants.

Contents: 1 the system, 2 modules and code, 3 runs, 4 proofs, 5 disagreements
with the documentation, 6 limits, 7 not modelled.

## 1. The system

### Threads

| thread | code | what it does |
|---|---|---|
| application (VR) thread | `App.cpp` `VrThreadFunction` | runs the frame loop, drains the message queue, calls `ovr_EnterVrMode`, `ovr_WarpSwap`, `ovr_LeaveVrMode` |
| TimeWarp thread | `TimeWarp.cpp` `WarpThread` | every vsync, warps the newest finished eye textures to the screen; watches the VR thread |
| Java UI thread | `VrActivity.java`, JNI entry points | life cycle, input and surface events, posted to the application thread; broadcasts (mount, dock) |
| TalkToJava thread | `TalkToJava.cpp` | runs Java calls the application thread must not wait for |
| vsync callback | `Vsync.cpp` `nativeVsync` | the Choreographer's clock |
| image server | `ImageServer.cpp` | sends screen images to a TCP client |
| device manager | `OVR_Android_DeviceManager.cpp` | HID input, commands from other threads |

### Components

**TimeWarp** (`VrApi/TimeWarp*.{h,cpp}`, `VrApi/VrApi.cpp ovr_WarpSwap`,
`EyeBuffers.cpp`, `AppRender.cpp`).  State: a ring of four `WarpSources`, the
`EyeBufferCount` of the newest, the fences of each, `SwapVsync` (which vsync the
newest latched), `LastSwapVsyncCount`, and three eye texture sets.  `WarpSwap`
fills a slot, publishes it, and waits until the one before it is on its way to
the screen; `WarpToScreen` searches from the newest source backwards for one
whose time has come and whose fence is signalled.  Two threads share the slots
with no lock: the only protection is the pacing.  Correct if no source is
overwritten while the warp reads it, no eye texture is rendered while it is
scanned out, images never go backwards, latency is bounded, and the application
neither spins nor waits for ever.

**TimeWarp thread start, stop and watch dog** (`TimeWarpLocal` constructor and
destructor, `WarpThread`, `ResetTimeWarp`).  Handshakes over a mutex, a condition
and flags; the warp thread takes `SCHED_FIFO` from a VR thread that has not
swapped for a second and gives it back.  Correct if each side returns, no
thread outlives the object it works on, and the priority follows the VR thread.

**ImageServer** (`VrApi/ImageServer.cpp`).  A server thread requests an image by
a `LocklessUpdater`; the VR thread captures, counts frames down and answers by
another updater and a condition.  Correct if a request is answered, the answer
is that request's image and still there while it is sent, and start and stop
return.

**LocklessUpdater** (`LibOVR/Src/Kernel/OVR_Lockless.h`).  Two slots, two
counters.  Correct if readers get one whole, fresh value and never wait.

**MessageQueue** (`MessageQueue.{h,cpp}`), with **TalkToJava**.  A bounded ring
of strings, many producers, one consumer.  Correct if messages come out once
and in order, and a sleeper is woken.

**Application life cycle** (`App.cpp`, `VrActivity.java`).  Commands from Java,
the frame loop, `Resumed`, `Paused`, the window, `OvrMobile`, `SyncVrThread`.
Correct if VR mode is entered once, with a window, and left before the window
goes, and if nothing waits for ever.

**Power level and head mount events** (`VrApi/VrApi.cpp`).  Mount, dock and
reset events, the throttling state machine of `ovr_CheckPowerLevelState`, the
switch between the game and the platform UI.  Correct if a throttle ends, ends
only after the headset was taken off, and VR mode keeps its services.

**ThreadCommandQueue** (`LibOVR/Src/OVR_ThreadCommandQueue.cpp`).  Commands of
different sizes in a byte ring, producers that wait for space or for the
command's completion on pooled events.  Correct if each is executed once and in
order, and every call returns.

**Devices** (`LibOVR/Src/OVR_Device*.cpp`, `OVR_Android_DeviceManager.cpp`).
Counted devices, manager, descriptors and handles; what dies dies on the
manager's thread.  Correct if the counts are those of the owners, and shutdown
completes.

**Vsync clock** (`VrApi/Vsync.cpp`), **sensors** (`OVR_Sensor*.cpp`), **input**
(`KeyState.cpp`, `SwipeDir.cpp`), **menus and folder browser** (`VRMenu/`),
rendering, data and integrations: not modelled, see section 7.

## 2. Modules and the code they model

| module | models | kind |
|---|---|---|
| `TimeWarp` | the ring of sources, the eye textures, both loops, fences, vsync | detailed |
| `TimeWarpTimeline` | the history of what was on screen | history over `TimeWarp` |
| `TimeWarpProof` | its inductive invariant and seven theorems | proofs |
| `ImageServer` | request, capture, countdown, answer; start and stop of the server | part |
| `WarpThread` | the life of TimeWarp objects, each with its threads, over `ImageServer` | composed |
| `WarpThreadProof` | its inductive invariant and three theorems | proofs |
| `FreshRegister` | what a `LocklessUpdater` promises | abstract |
| `LocklessUpdater` | its two slots and two counters, word by word | detailed |
| `LocklessProof` | `LocklessUpdater` implements `FreshRegister` | proofs |
| `Mailbox` | what a `MessageQueue` promises | abstract |
| `MessageQueue` | the ring, mutex and condition, and the owner's loop | detailed |
| `MessageQueueProof` | `MessageQueue` implements `Mailbox` | proofs |
| `App` | the life cycle: UI thread, Android, VR thread, VR mode, over a `Mailbox` | composed |
| `AppProof` | its inductive invariant and four theorems | proofs |
| `PowerLevel` | two activities, their VR threads, the user and the heat | detailed |
| `PowerProof` | its inductive invariant and four theorems | proofs |
| `CommandQueue` | what a `ThreadCommandQueue` promises | abstract |
| `ThreadCommandQueue` | the ring, the blocked producers, the event pool, the consumer | detailed |
| `CommandQueueProof` | its inductive invariant and six theorems; `ThreadCommandQueue` implements `CommandQueue` | proofs |
| `Devices` | counts, handles, enumeration and shutdown, over a `CommandQueue` | composed |
| `DevicesProof` | its inductive invariant and three theorems | proofs |

Three abstract modules carry the structure: `App` posts to a `Mailbox`, which
`MessageQueue` is shown to implement; `Devices` pushes to a `CommandQueue`, which
`ThreadCommandQueue` is shown to implement, and keeps the obligation the queue
puts on its users (`UsesCommandQueue`); `TimeWarp`, `ImageServer` and
`PowerLevel` read and write updaters in one step, which is what
`FreshRegister` allows while one thread writes.

A definition called `Wrong...` is a slip one could make in the definition after
it.  No action uses it; it shows which property would notice.  `PROJECT.json`
("map") gives the source lines of every other definition.

**TimeWarp.**  `vr` is where the VR thread is in `WarpSwap`: rendering,
`FillSource` (the slot's parameters), `CreateFence`, `Publish`
(`EyeBufferCount.SetState`), `LockSwapMutex`, `CondWait`, and `SwapReturns` or
`SwapWaitsAgain` when it has looked at `SwapVsync`.  The steps are separate
because the warp thread reads the slot with no lock.  `warp` is where the warp
thread is in `WarpToScreen`: it reads the newest number (`ReadLatest`), examines
one source per step (`SkipSource`, `StopSearch`, `LatchSource`), publishes
`SwapVsync` (`ReportLatched`), signals with a trylock (`SignalLatched`), and draws
one eye after the other.  `WarpToScreenSliced` differs in one `continue` for a
`break` (`BadPoseSkips`) and in when it looks at the mode (`StartFrame`).
`WarpSwapBlack` and `WarpSwapLoadingIcon` are `StartBlack` and `PushBlackAgain`.
The GPU is external: it finishes commands in order (`GpuSignalsFence`).  An image
is the number of the frame it shows; a pose is good or bad, as
`IsRotationMatrix` would say.  The lock-free counters are single steps, which is
what `LocklessUpdater` is proved to give.

**LocklessUpdater.**  One step per atomic operation and per word copied.  A value
is a function from `Parts` to the number of the update that wrote each part, so a
torn read is visible.  `FinalIsBarrier` chooses the memory order of the last load
of `GetState`: `ExchangeAdd_NoSync` orders nothing on ARM.

**MessageQueue.**  What runs under the mutex is one step; `shutdown` is read
outside it, so `PostString` (the test) and `Enqueue` (the rest) are two.  The owner is
the loop both users run: take messages until there is none, sleep.

**App.**  `ui` follows `SetActivity` and `nativeDestroy`, with two calls of
`SyncVrThread`; afterwards Android calls `onResume`, `onPause`, `surfaceChanged`
and `surfaceDestroyed` in any order it may, each posting a message.  The VR thread
takes them with `GetNextMessage` and executes `Command`, one disjunct per message.
`ovrMobile` objects are numbered by the call of `ovr_EnterVrMode` that made them:
`live` are those whose `Destroyed` is false, `attached` those whose `Screen` still
has the window, `OvrMobile` the one `AppLocal` points to.  `Frame` is the frame of
the application, which may also leave VR mode (`ovr_StartPackageActivity`,
`ovr_ExitActivity`) or leave and enter it again (`SetVrModeParms`).
The queue is `Mailbox`, by instance: `App` relies on what `MessageQueue` is
proved to implement.  `surfaceDestroyed` may come before `onPause`, as
`VrApi.cpp:1174` says it does.  The wait in `SyncVrThread` looks at nothing when it
returns, with an answer (`Synced`) or without a signal (`SyncedEarly`); an answer to
a queue that is gone may corrupt memory (`Corrupts`), and there the model may end
(`"dead"`).

**WarpThread and ImageServer.**  `vr` follows the VR thread through the
constructor, `WarpSwap` and the destructor, `warp` the warp thread, `server` the
server thread.  A wait with no predicate is a place of its own (`initWait`,
`stopWait`, `startWait`, `endWait`, `responseWait`), and the step before it too,
so that a signal may come in between: it moves only a thread that is at its
wait.  Each of the five may also end with no signal at all (`EarlyWakeup`,
`EarlyAnswer`): then the VR thread swaps before the warp thread is ready, or deletes
what a thread still works on, and the server takes the response it finds.  What
follows a deletion under a running thread is not modelled: `Dies` ends the model
(`"dead"`) where `eglMakeCurrent` aborts, the buffers are freed under the server, or
the object under the warp thread.  `swapMutex`, which the constructor
holds from `pthread_create` to its wait, is the place `createdLocked`; the other
mutexes are each taken by one side only and exclude nothing.  Time is the age of
the last `WarpSwap` in three classes, those the watch dog tells apart
(`Ages`); `TimePasses` lets it grow only as fast as the warp thread's loop can
follow.  `ResetTimeWarp` is a deletion followed by `Construct` with the same
parameters.  An image is the sequence number of its request.

**PowerLevel.**  The two activities of the process share the statics of
`VrApi.cpp` and run the handler in the frames they render, each on a VR thread
of its own, without a lock.  `pc` is where that thread is, with one step per
statement that reads or writes a static another thread writes: the dock or mount
state is read (`ReadDock`, `ReadMount`) and cleared with a second call
(`ClearDock`, `ClearMount`), the level and the action are read (`ReadPowerLevel`,
`Decide`), then the flags and the action written one after the other (`Reset`,
`PowerSave`, `CannotContinue`).  `seen` is what was read and not yet used.  Broadcasts
travel through `inbox` while a receiver is registered.  `StartActivity` and
`PuiFinishes` move the task and tell both activities, whose `mail` is the message
queue of each.  `unmountSince` is a history: the headset was taken off since the
process was throttled, or just before in a report not yet handled.

**ThreadCommandQueue.**  The ring has one cell per block of `AlignSize` bytes; a
command is in its first block, what has been read is forgotten.  What runs under
`QueueLock` is one step; a producer is `pushing`, `blocked`, `waiting` or
`completed`, and comes back from `blocked` to `pushing` with its event still in
hand, as in the `do` loop of `PushCommand`.  Events are numbered as they are
allocated.  The consumer is the loop of `DeviceManagerThread::Run` with the pipe
that `OnPushNonEmpty_Locked` writes to.  The abstract queue is the sequence of
commands in the ring.

**Devices.**  `refCount` counts a device or the manager, `handleCount` a
descriptor.  What runs under the `CreateLock` is one step, what is decided before
it is taken is a step before (`DeviceRelease` and `PushRelease`, `ReleaseHandle`
and `ReleaseLastHandle`).  `holds` and `handle` are ghosts of the callers: what
each thread has been given and not released.

## 3. Runs

| run | question | result |
|---|---|---|
| `timewarp` | are ring, textures and pacing safe with no lock? | holds |
| `timewarp_viewer` | is what the viewer sees in order, shown, and the VR thread released? | holds |
| `timewarp_sliced_badpose` | is it released in the sliced warp, with bad poses? | no |
| `warpthread` | do the threads of a TimeWarp start, serve, watch and stop? | holds |
| `warpthread_lost` | does leaving VR mode always end? | no |
| `lockless` | is the updater a fresh register whose reads return? | holds |
| `lockless_arm` | and with no barrier before the last check? | no |
| `messagequeue` | is the queue a mailbox, its owner awake while it has mail? | holds |
| `app` | do VR mode, frames and the screen follow the window and the activity? | holds |
| `power` | do throttles end when they should, and does VR mode keep its services? | holds |
| `commandqueue` | is the ring a queue of calls that all return? | holds |
| `devices` | do counts follow owners, and does the manager's thread end last? | holds |

### What the properties say

`timewarp`: the warp thread never examines a slot that is being rewritten
(`SourceNotTorn`); the GPU does not render into textures being scanned out
(`EyeTexturesIdle`); the warp thread never settles on an older buffer
(`NeverBackwards`); `WarpSwap` returns only when the images of the one before are
rendered (`PreviousRendered`); the VR thread is at most two buffers ahead (`NoPileUp`);
the vsync it is paced from runs at most one frame time ahead of what it
was told (`PacedFromTheClock`).  `timewarp_viewer`: the screen never steps back
(`ScreenNeverBackwards`), every good buffer or a newer one is drawn
(`PublishedIsShown`), `WarpSwap` returns (`SwapTerminates`).

`warpthread`: when the watch dog has acted on an age, a stuck VR thread has lost
`SCHED_FIFO` and a swapping one has it (`WatchdogFollows`); while the server, none of
whose response waits has ended without a signal, copies an image, the buffer stays
mapped and is what its client asked for, though the VR thread takes no lock to
unmap or free it (`SignalledSendIsRight`); a client that asked is answered
(`RequestIsAnswered`), and constructor and destructor return (`LifeGoesOn`), both
unless a thread is at a wait whose signal was sent before (`StartMissed`, `StopMissed`,
`EndMissed`, `AnswerMissed`: states, not history) or the program has died of a wait
that ended early.
`warpthread_lost` drops the exemption of signals sent too early: `LeavingEnds` fails.
What the program may do after a wait that ended early is in section 5.

`lockless`: no read mixes two updates (`Consistent`), is older than the newest
update finished when it began, or goes back (`ImplementsRegister`); and `GetState`
returns though the producer stops in the middle of an update (`GetStateReturns`).

`messagequeue`: the owner never sleeps on messages (`NeverSleepsOnMessages`), the
queue is first in, first out, at most once (`ImplementsMailbox`), and what was
posted is taken (`MessagesAreTaken`).

`app`: only the mode `OvrMobile` points to ever has the window, there is one, and
the activity is not paused (`OnlyOvrMobileHasTheWindow`): a mode that was lost sight
of swaps nothing to a window that is gone or belongs to another.  When no message
waits, the VR thread's idea of the activity is Android's (`Settled`); a resumed
activity with a surface gets frames (`FramesAreRendered`); `nativeDestroy` returns if
a surface was ever created (`DestroyReturns`: without one the loop condition
never holds and the UI thread joins a thread that sleeps for ever).  The last two
end where memory may be corrupt.
A mode that runs is lost sight of (not `OneMode`: nobody can leave it any more) only
by a `createdSurface` for a surface that has gone and come back before the pause;
`Resume` and `SetVrModeParms`, which do not look, find the old mode left, however
late the messages are (`OnlyAReturnedSurfaceLosesAMode`).

`power`: a throttled process waits for something that can end the throttle, whenever
no thread is between its writes (`ThrottleHasAnEnd`), and 60 Hz comes back only after
the headset was taken off (`ThrottleOutlastsRide`), whichever of the two VR threads
throttled, saw the unmount and reset; an activity in VR mode has its services,
whoever leaves VR mode meanwhile (`VrModeKeepsServices`); pulling the phone out finishes
the application (`UndockFinishes`); and once a VR thread has read that the headset is off, the throttle
that waits for that ends, when the phone has cooled down and an activity stays in
front (`UnmountEndsThrottle`).  All with no frame that outlasts a switch: a VR thread
resumes while the other is between frames.  Section 5 says what happens otherwise.

`commandqueue`: the ring passes its own assertions through every wrap and each
pooled event has one owner (`RingAndPool`); when the consumer has ended nothing is
left in the ring and nobody is blocked (`ConsumedBeforeShutdown`); the consumer
never polls with no byte in the pipe while a command waits (`NeverPollsOnCommands`);
calls are executed once, in order, the exit command last (`ImplementsCommandQueue`);
a caller that waits returns only after its command was executed
(`WaitMeansExecuted`); every call returns (`CallsReturn`).

`devices`: every count is the number of owners, of every kind (`CountsOwners`); nobody
pushes to a queue that is closed, and the manager's exit is the last command
(`UsesCommandQueue`); when the manager's thread ends nothing is left for it to do
(`ThreadOutlivesDevices`), and it ends once everything is given back
(`ShutdownCompletes`).

### Bounds

* `timewarp`: `BufferBound` 5 fills the ring of four and reuses slot 1, and uses
  every pair of eye textures, two of them twice; `VsyncBound` 5, above which vsync counts are not
  told apart, lets `MinimumVsync` of the first three buffers lie in the future.
  Black frames come in threes, so 5 buffers mix them with two others.  The proofs
  remove both bounds.
* `timewarp_viewer`: four buffers, for the temporal formulas.
* `warpthread`: two objects in a row, so that a reset follows the first, or a second
  ride with or without what the first had; two requests of two sizes per server, so
  that one overtakes the buffers of the other.  The proofs remove both bounds.
  `warpthread_lost` needs one object and one request.
* `lockless`: five updates write each slot at least twice; a reader overtaken
  twice meets its slot again.  Readers write nothing that others read, so one
  stands for all; the proof has any number.
* `messagequeue`: two producers with four messages each and two slots: the
  ring wraps three times and overflows.
* `app`: eight callbacks are two full rounds of resume, surface, pause, destroyed;
  `vrMessages` 100 is the code's and more than the queue can hold; one
  `SetVrModeParms`.  The proof has any number of callbacks.
* `power`: five events: heat up, switch, take off, put on, cool down, or any other
  five; only the platform UI allows power save, so that both levels of throttling
  are met.  The proof has any number of events.
* `commandqueue`: commands of one and two blocks in a ring of five wrap at four
  different places, and leave the ring one block short of full; five calls of two
  producers include an exit command behind a blocked call.
* `devices`: two threads and two devices, one plug or unplug.  One thread can
  hold any number of references, so the two suffice for a reference to be stolen
  on its way, for both handles of a descriptor to be dropped at once, and for the
  manager to be released from a device's death.

Vsync counts saturate.  No run uses symmetry or a state constraint.

### Fairness

`TimeWarp`: both threads are scheduled and the GPU finishes what it was given; the
application need not render another frame, so `BeginFrame` and `SwapFrame` have none.
`WarpThread`: all threads are scheduled; an application in VR mode goes on, one
outside need not come back.
No wait is owed a wakeup without a signal, here and everywhere.
`LocklessUpdater`: readers are scheduled, the producer may stop anywhere.
`MessageQueue`, `ThreadCommandQueue`, `Devices`: threads inside a call and the
consumer are scheduled; nobody is obliged to call.  `App`: both threads are
scheduled; Android owes the activity nothing.  `PowerLevel`: time passes and Android schedules the UI
thread and both VR threads; the user does as he likes.  The runs of `App`
and `WarpThread` have `CHECK_DEADLOCK FALSE`: an activity may stay paused, or out of VR mode, for
ever, and the program may have died.

## 4. Proofs

All are for every value of the constants; the assumptions are the named
`ASSUME`s of the modules and those listed here.

**TimeWarpProof.**  Assumption `PoseAssumption`: poses are good.  It is needed: with bad
poses and a change between whole and sliced warp `EyeTexturesIdle`,
`NeverBackwards` and `NoPileUp` can fail, and with bad poses alone
`PreviousRendered` does (a buffer whose pose is refused is reported as latched).
No property is inductive: why the slot examined is not being rewritten is that
the VR thread is within two buffers of `swapVsync.eyeBufferCount`, which in turn holds
because the search ends at a number not below the last one reported, because that
one's fence has signalled and its time has come, which needs the content of
three slots, their fences, and what `WarpSwap` waited for.  `IInv` states all of it, with one
named part per idea; `Invariance` proves it action by action.  `TypeCorrect`,
`RingIsSafe`, `LatencyBound`, `PacingIsBounded`, `TripleBuffering`, `OrderOfImages` and
`ImagesAreRendered` follow.  `TripleBuffering` is the one with an argument of its own: frames in
flight and the frame shown are within two of each other, so differ modulo three.

**LocklessProof.**  Assumption `BarrierAssumption`: `FinalIsBarrier`.  The invariant says,
for a consumer at each point of `GetState`, which updates the parts it has copied
may come from, given how far the counters have moved since.  `Consistency` and
`Refinement` follow: `Return` of the detailed specification is `Return` of
`FreshRegister`, `EndUpdate` is `Update`, `Call` is `Call`, all else stutters.

**MessageQueueProof.**  The invariant: the slots of positions `head` to `tail - 1` hold
messages, the others `NULL`, no more than `MaxMessages` of them, and a sleeping
owner has none.  Lemmas about remainders say that positions less than `MaxMessages`
apart have different slots.  The box of the mailbox is the sequence of those slots;
`Enqueue` maps to `Accept`, `GetNextMessage` to `HandOut`, `Delete` to `Discard`.

**WarpThreadProof.**  No assumption but those of the modules: every wait may end
early.  The invariant has four parts: what is left of the warp thread for each
place of the VR thread (`WarpOK`), the same for the server (`ServerOK`), who has
`SCHED_FIFO` given what the watch dog has removed and last read (`PriorityOK`), and
how far the request, the countdown and the response have come (`ExchangeOK`).
`Watched` rests on the third, and on the object being deleted only by a program
that goes on when the warp thread has left it (`Dies`).  `AnswersMatch` rests on the
last: while no response wait of a server has ended early, a request is answered
before the next is made, so while the server sends, `captured` is the newest request
and `EnterWarpSwap` leaves the buffers alone; the destructor frees them only when
the server has gone, or the program dies.

**AppProof.**  No assumption but those of the module: the surface may go at any
time, and every wait may end early.  `Resume` enters VR mode without a look at
`Paused`; what makes the newest mode the only one with a window is what is still in
the queue.  `WhilePaused` says so: when the VR thread takes a resume, the last pause or resume
before it was a pause.  It is inductive because Android resumes only an activity
that is not resumed, and then the last word in the queue is a pause.  A mode that
`createdSurface` overwrites was entered with a window that was destroyed since, and
`ovr_SurfaceDestroyed` took it from the mode; `ScreenFollowsTheWindow` is the result.
`ModesAreLeft` needs one invariant more, that a paused activity has left its mode
(`LeftWhilePaused`): so `Resume` overwrites none that runs.
`KnowsTheActivity` needs more: the last word on pausing and the last on the surface,
in the queue, in the message the VR thread works on or else in its own variables, is
what Android told last (`Told`), and the VR thread does not sleep while it could
render (`Sleeping`); with an empty queue the two are `Settled`.

**PowerProof.**  `TypeCorrect` has no assumption but those of the module.  The others
have a hypothesis, `FramesOutlastSwitch` is FALSE, without which they do not hold
(section 5): any activities may save power, any number of events.  The first half
of the invariant, `Switch`, is mutual exclusion that no lock provides.  At most one
activity is in VR mode, because only the one in front is or has a resume to take
(`InFront`, `EnteredOnce`); whoever starts another activity is in VR mode (`FramesInVr`,
`HotFromVr`); so no VR thread takes a resume, or begins a frame, while the other is in the
handler (`FramesApart`), and the services run exactly while one is in VR mode
(`ServicesOn`, `ServicesStay`).  The second half, `Ride`, follows a thread from one
statement to the next: what it has decided on is still so when it writes
(`Decided`), the flag and the action agree between handlers (`ThrottleEnds`), and the
action becomes `WAITING_FOR_RESET` only where an unmount is handled; an unmount that
is handled after the throttle began was reported after it, or was on its way in
`HMTMountState` or in what the VR thread had read when it began (`Pending`,
`RideStaysThrottled`).

**CommandQueueProof.**  Assumption `RingAssumption`: finitely many producers, and
commands that fit twice, which `Write` asserts.  `RingInv` says that the data
is a chain: where a command ends the next begins, or the data ends or wraps.  `Written`
and `ReadFirst` show that the two operations of the ring keep the chain, overwrite
nothing and keep the order of what is in it.  `RingAndPoolAreSound` and
`CommandsAreSignalled` follow with little more.  `WaitingIsForExecution` needs the
rest of `IInv`: one event serves to wait for room and for completion, so a pulse must
be shown to mean what its addressee takes it for.  The commands of a producer
lie in the ring in the order of its calls (`OrderInv`), so the last one executed is the
one it waits for; that one names the event it waits on (`WaitInv`), which nobody else has
(`PoolInv`).  That there are never more events than producers is an injection from
the events into the producers (`Allocated`).

`QueueOfCalls` is the refinement.  The commands in the ring, in the order `Before`
reads them, are a sequence: what stands at a place is found by its rank, and that
every place is taken once is an invariant (`LineInv`), kept because `Enqueue` adds a
block behind all others (`LineAppended`) and `PopCommand` removes the first
(`LineTaken`).  `PushCall`, blocking and waiting stutter, `PushExitCommand` is `Close`,
`Enqueue`, `PopCommand` and `Execute` are `Enqueue`, `Take` and `Finish`.  That the exit command
finishes on an empty queue is `ExitInv`: it is with its producer, in the ring
behind all others, or in hand with the ring empty.  `EmptiedAtTheEnd`, the assertion of
`~CircularBuffer`, follows for any number of producers.

`ConsumedAtTheEnd` adds the assertion of `~ThreadCommandQueueImpl`, that no
producer is blocked, where commands have at most `m` blocks and the ring room for one
more of them than there are producers.  The code makes that hypothesis true up to a
number of callers: 2048 bytes are 128 blocks, commands have at most 256 bytes
(`MaxSize`), so `m` is 16 and seven threads may call at once.  The argument
(`RoomInv`): no more producers are blocked than commands are in the ring.  Each
pop takes one of both; a producer blocks only when the ring is full but for less
than `2 * m` blocks (`NearlyFull`), the data is covered by the commands
(`Covered`, `UsedBound`: an injection of the blocks into commands and offsets), so
there are then at least as many commands as producers (`Crowded`).  Some hypothesis
is needed: with four producers and a ring of five blocks TLC finds three that
block behind one command, the exit command enqueued after it, and one of the
three left for ever.  The ring of the run `commandqueue` is one block too small for the hypothesis;
two producers do not need it.

**DevicesProof.**  Assumption `ObjectsAssumption`: finitely many threads, at least
one, finitely many devices, and a `NULL` that is none of them.  A count must be the number of its
owners: the references the threads hold, those in the queue as a release,
the one the manager's thread has in hand, and for the manager its living devices
(`Owners`).  `CountsOwners` is not inductive: that a thread decrements what
it owns needs that a thread in a call holds what it calls with (`ThreadsOK`); that
a command finds its device needs that its caller waits, with the handle and the manager, until it
is served (`QueueOK`, `ServingOK`); that nobody is served after the manager's death needs
that nothing but the exit command follows it (`LifeOK`).  The counts are
cardinalities of finite sets, not sums, so a step adds or removes one member
(`OneMore`) and no induction over the threads is needed.  `CountsAreOwners` and `ThreadEndsLast`
follow; `QueueIsUsedWell` maps each push to `Enqueue`, the manager's death to `Close`,
and shows that nothing is pushed to a queue that is closed.

Only model-checked: liveness, which is out of the prover's reach; `TimeWarpTimeline`.

## 5. Where the code and its documentation disagree

The runs marked "no" above each show one, quoted in `PROJECT.json` ("findings").
Others, found on the way:

* `TimeWarpParms.h:178-179`: "WarpSwap will not return until at least this many
  vsyncs have passed since the previous WarpSwap returned."  `TimeWarp.cpp:1864`
  counts from the vsync of the last latch: a VR thread that is late gets two
  returns in one vsync.
* `TimeWarp.cpp:1908`: "Push three times so it is guaranteed to be fully displayed
  on screen before returning".  The third push returns when the second is latched, so the
  last one or two are not drawn, and the caller may destroy the window next.
* `VrApi.h:94` ("Should be called when the app is both resumed and has a valid window
  surface"), `VrApi.cpp:1142` ("Should be called before the window is destroyed"):
  `App.cpp:1381` destroys the window surface without leaving VR mode, and
  `VrApi.cpp:1174-1175` says that this may come before the pause.  A surface that comes
  back before the pause then makes `createdSurface` enter VR mode again
  (`App.cpp:1369`): `OvrMobile` is overwritten, the TimeWarp of the old mode
  runs on and nothing can end it.  `OneMode`, checked as an invariant of `App`,
  fails after four callbacks; that this is the only way is
  `OnlyAReturnedSurfaceLosesAMode`.
* `App.cpp:301` ("wait for it to have initialized") and `316` ("wait for it to
  complete"): `SyncVrThread` (`App.cpp:630`) waits once with no predicate, so an
  early return lets `SetActivity` go on, and frees the queue that the answer is
  posted to (`SyncedEarly`, `Corrupts`).
* `TimeWarp.cpp:631` ("ShutdownAcknowledged, TimeWarp thread has exited.") and
  `ImageServer.cpp:128` ("Thread stop acknowledged."): the waits at `TimeWarp.cpp:626` and
  `ImageServer.cpp:125` have no predicate either.  One that ends early lets the
  destructor delete what the thread still works on, or abort in
  `eglMakeCurrent` (`EarlyWakeup`, `Dies`).
* `TimeWarp.cpp:877-879` ("block until the warp thread has completed the
  initialization"): the same at 880.  The constructor may return, and the
  application swap, before the warp thread has its context; `ovr_EnterVrMode`
  (`VrApi.cpp:1068-1070`) then sets the priority of thread 0, its caller's.
* `ImageServer.cpp:385` ("Block until we hear from TimeWarp") and `ImageServer.h:70`
  ("The data only remains valid until the next request is set"): the same at 387, and
  the response is compared by its resolution only (395).  The server sends the
  previous image, from a pointer that `EnterWarpSwap` unmaps (`EarlyAnswer`;
  `SendsWhatWasAsked` fails with two requests of one size).
* `VrApi.cpp:538-539` ("60Hz operation will only be re-enabled after the headset has
  been taken off the user's head"): the action is checked, and flag and action are written,
  in separate statements and without a lock.  With `FramesOutlastSwitch` TRUE, four
  events and both activities in `PowerSavers`, two threads decide to reset (552), the
  process is throttled again in between, and the late write ends the new throttle:
  `ThrottleOutlastsRide` fails, and so does `ThrottleHasAnEnd`, with one thread's
  flag and the other's action.
* `VrApi.cpp:1289` ("reset the real mount state since we're handling the change"): 1290
  resets what `HMTMountState` holds by then, not what 1286 has read.  A report that
  comes in between, even in a single thread's frame, is cleared and never
  handled, and a throttle that waits for that unmount goes on.
* `App.h:76-77` says `OneTimeInit` is called "before SetActivity() returns from
  the first creation"; with `DELAYED_ONE_TIME_INIT` (`App.cpp:47`, `1913-1924`) it
  waits for a window, and `NewIntent` may come first.
* `VrApi.h:103` says `ovr_LeaveVrMode` frees the `ovrMobile`; it only sets
  `Destroyed`, and later calls depend on that.
* `VrApi.cpp:499-501` says power level changes are skipped after an unmount; the
  variable `skip` is computed and not used.
* `VrApi.cpp:1243` says "Skipping platform reset because another activity is current";
  `if ( 1 )` at 1203 makes it unreachable.  That an activity which leaves VR
  mode late does not stop the services of the next rests on frames being short: with
  `FramesOutlastSwitch` TRUE `VrModeKeepsServices` fails.
* `VrApi.cpp:117`: `HMTMountState` is a `LocklessUpdater`, made for one producer, and
  is written by the UI thread and by the VR threads.
* `TimeWarp.cpp:564`: the watch dog gives `SCHED_FIFO` back when the thread swaps
  again, except after `ResetTimeWarp`, whose new object has forgotten that it was taken (`forgotten`).
* `OVR_DeviceImpl.cpp:29-30` says `GetLockAddRef` may "busy spin-wait if we hit
  contention on first lock creation".  The `continue` in its `do ... while`
  goes to the condition, which adds one to the marker: the second thread gets a
  lock that is not constructed.
* `Fader.cpp:114-115`: `ForceFinish` tests `FadeState` after clearing it.

## 6. Limits

* TimeWarp: an error from `eglClientWaitSync`, the synchronous mode, the missing
  window (`TimeWarp.cpp:1330-1338`), the second presentation for calibration, and
  the drawing are left out.  Vsync callbacks are assumed to come, so `vsyncBase`
  does not go back.
* WarpThread: the object is made in less than a second, so that the watch dog has
  nothing to do meanwhile (`TimePasses`); that the warp thread unlocks `ShutdownMutex`
  without holding it makes no difference to what is modelled; a `WarpSwap` is
  released by the next frame; what the program does once an object was deleted under
  one of its threads is not followed (`Dies`).  Discovery by UDP changes no state,
  and the progress of the readback on the GPU is the countdown.
* `GetStateReturns` relies on finitely many updates: the updater is lock-free,
  not wait-free.
* MessageQueue: no thread posts while the queue is deleted; `head` and `tail` are
  unbounded, while the `int`s wrap after 2^31 messages; `ClearMessages` is
  `GetNextMessage` repeated.
* App: input, panel and later intent messages change nothing modelled and are left
  out, and with them the overflow of the queue.  What a corrupted stack does is not
  followed (`Corrupts`).
* PowerLevel: one process with two activities; the mounts that the home
  application handles come as the broadcast they cause; `SetState` and `GetState` are
  one step each; the user comes back to an activity later than its VR thread takes
  a message (`ComeBack`); in the run `power` a frame ends before
  the next activity has resumed (`MayTake`), which nothing in the code enforces.
* ThreadCommandQueue: the real ring has 2048 bytes and commands of at most 256.
  `ConsumedBeforeShutdown` needs no more blocked producers than commands in the ring:
  each pop wakes one, and nothing wakes the rest after the exit command.  With the
  real sizes that holds for up to seven threads that call at once (section 4).
* Devices: the queue has no bound; sections under `CreateLock` are one step;
  `GetDevice_AddRef`, which nothing calls, the message handlers and the reports of
  HID devices are left out.

## 7. Not modelled

* Synchronous TimeWarp and the missing window: single threaded, or an early return.
* The composition of `App` with `PowerLevel` and `WarpThread`: each models VR mode
  at the grain it needs; the product of their states is out of TLC's reach.
* `KeyState`, `SwipeDir`, `SwipeView`, `Fader`, `SoundLimiter`: timed state machines of one
  thread whose transitions compare real times.
* The folder browser's background loader: two `MessageQueue`s and a file system.
* Vsync clock, sensor fusion, prediction, distortion: real arithmetic; what they publish goes
  through a `LocklessUpdater`.
* Rendering, meshes, fonts, models and images (geometry and GL calls with no
  protocol), JSON and packages, Java and Unity bindings, vendored code and the
  desktop back ends.

`PROJECT.json` lists them under "components", and under "hazards" what in this
code is hard to test, with the properties that cover it.
