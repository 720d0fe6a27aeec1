-------------------------------- MODULE Devices --------------------------------
(***************************************************************************)
(* The life of the device manager and of its devices                       *)
(* (jni/LibOVR/Src/OVR_DeviceImpl.cpp, OVR_DeviceHandle.cpp,               *)
(* OVR_Android_DeviceManager.cpp): three kinds of counted objects, devices *)
(* and their manager, which die on the manager's thread, and descriptors,  *)
(* which handles keep; and the commands that pass references between       *)
(* threads through the CommandQueue.  What runs under the CreateLock of    *)
(* the DeviceManagerLock is one step.                                      *)
(***************************************************************************)
EXTENDS Integers, Sequences, FiniteSets

CONSTANTS
  Threads,    \* of the application
  Devices,    \* a device and its descriptor
  Manager,
  PlugBound,  \* times a device is plugged in or out
  NULL

Objects == Devices \cup {Manager}

Command(op, object, by) == [op |-> op, object |-> object, by |-> by]
ExitCommand == Command("exit", NULL, NULL)

\* What is pushed.
Sent == {ExitCommand} \cup [op : {"enumerate"}, object : {NULL}, by : Threads]
        \cup [op : {"create"}, object : Devices, by : Threads]
        \cup [op : {"release"}, object : Objects, by : {NULL}]

\* One thread at least, the one that has made the manager.
ASSUME ObjectsAssumption ==
  /\ IsFiniteSet(Threads) /\ Threads # {} /\ IsFiniteSet(Devices)
  /\ Manager \notin Devices /\ NULL \notin Objects \cup Threads \cup Sent
  /\ PlugBound \in Nat

VARIABLES
  refCount,    \* RefCount of a device or of the manager, 0 if there is none
  handleCount, \* HandleCount of a descriptor
  desc,        \* "none", "listed" in Devices, or "removed" from it
  enumerated,  \* Enumerated of a descriptor
  queue, serving, exited,  \* the CommandQueue
  worker,      \* where the manager's thread is
  keepAlive,   \* its descKeepAlive
  pc,          \* where a thread is
  holds,       \* references of a thread to an object
  handle,      \* the descriptor of a thread's DeviceHandle
  releasing,   \* what a thread is about to release
  plugged,     \* is the device there?
  plugs

counts == <<refCount, handleCount>>
list == <<desc, enumerated>>
commands == <<queue, serving, exited>>
thread == <<worker, keepAlive>>
caller == <<pc, holds, handle, releasing>>
hardware == <<plugged, plugs>>
vars == <<counts, list, commands, thread, caller, hardware>>

\* The manager exists, and each thread has a reference to it.
Init ==
  /\ refCount = [x \in Objects |-> IF x = Manager THEN Cardinality(Threads) ELSE 0]
  /\ handleCount = [d \in Devices |-> 0]
  /\ desc = [d \in Devices |-> "none"]
  /\ enumerated = [d \in Devices |-> FALSE]
  /\ queue = <<>> /\ serving = NULL /\ exited = FALSE
  /\ worker = "popping" /\ keepAlive = NULL
  /\ pc = [t \in Threads |-> "out"]
  /\ holds = [t \in Threads |-> [x \in Objects |-> IF x = Manager THEN 1 ELSE 0]]
  /\ handle = [t \in Threads |-> NULL]
  /\ releasing = [t \in Threads |-> NULL]
  /\ plugged \in [Devices -> BOOLEAN] /\ plugs = 0

Alive(x) == refCount[x] > 0

Push(c) == queue' = Append(queue, c) /\ UNCHANGED <<serving, exited>>

\* Does the list keep a descriptor without handles? It goes "if the manager was
\* destroyed already, or Enumerated is false".
Keeps(d) == Alive(Manager) /\ enumerated[d]

\* HandleCount of d goes to n.
SetHandles(d, n) ==
  /\ handleCount' = [handleCount EXCEPT ![d] = n]
  /\ desc' = [desc EXCEPT ![d] = IF n = 0 /\ ~ Keeps(d) THEN "none" ELSE @]

-----------------------------------------------------------------------------
(* Any thread. *)

\* EnumerateDevicesEx: the manager's thread looks for devices ...
EnumerateDevicesEx(t) ==
  /\ pc[t] = "out" /\ handle[t] = NULL
  /\ \E x \in Objects : holds[t][x] > 0
  /\ Push(Command("enumerate", NULL, t))
  /\ pc' = [pc EXCEPT ![t] = "waiting"]
  /\ UNCHANGED <<counts, list, thread, holds, handle, releasing, hardware>>

\* ... then the caller takes a handle of one that is in the list, if any.
GetEnumerator(t) ==
  /\ pc[t] = "enumerated"
  /\ LET found == {d \in Devices : desc[d] = "listed" /\ enumerated[d]}
     IN  \/ found = {} /\ UNCHANGED <<handle, handleCount>>
         \/ \E d \in found : /\ handle' = [handle EXCEPT ![t] = d]
                             /\ handleCount' = [handleCount EXCEPT ![d] = @ + 1]
  /\ pc' = [pc EXCEPT ![t] = "out"]
  /\ UNCHANGED <<refCount, list, commands, thread, holds, releasing, hardware>>

WrongPinned == {}

\* The manager that a creation must find alive.
Pinned == {Manager}

\* CreateDevice of a handle: "both manager and device pointers can only be
\* destroyed during a lock, hold it while checking for availability".
CreateDevice(t) ==
  /\ pc[t] = "out" /\ handle[t] # NULL
  /\ holds[t][handle[t]] = 0
  /\ LET got == IF Alive(handle[t]) THEN {handle[t]} ELSE Pinned
     IN  /\ Alive(handle[t]) \/ Alive(Manager)
         /\ refCount' = [x \in Objects |-> refCount[x] + IF x \in got THEN 1 ELSE 0]
         /\ holds' = [holds EXCEPT ![t] = [x \in Objects |-> @[x] + IF x \in got THEN 1 ELSE 0]]
  /\ pc' = [pc EXCEPT ![t] = IF Alive(handle[t]) THEN @ ELSE "requesting"]
  /\ UNCHANGED <<handleCount, list, commands, thread, handle, releasing, hardware>>

PushCreate(t) ==
  /\ pc[t] = "requesting"
  /\ Push(Command("create", handle[t], t))
  /\ pc' = [pc EXCEPT ![t] = "waiting"]
  /\ UNCHANGED <<counts, list, thread, holds, handle, releasing, hardware>>

WrongIsLast(x) == FALSE

IsLast(x) == refCount[x] = 1

\* DeviceRelease: only the last reference goes to the manager's thread.  A
\* thread that has asked for a device lets go of the manager.
DeviceRelease(t, x) ==
  /\ pc[t] \in {"out", "created"}
  /\ pc[t] = "out" => holds[t][x] > 0
  /\ pc[t] = "created" => x = Manager
  /\ IF IsLast(x)
       THEN /\ pc' = [pc EXCEPT ![t] = "releasing"]
            /\ releasing' = [releasing EXCEPT ![t] = x]
            /\ UNCHANGED <<refCount, holds>>
       ELSE /\ refCount' = [refCount EXCEPT ![x] = @ - 1]
            /\ holds' = [holds EXCEPT ![t][x] = @ - 1]
            /\ pc' = [pc EXCEPT ![t] = "out"]
            /\ UNCHANGED releasing
  /\ UNCHANGED <<handleCount, list, commands, thread, handle, hardware>>

\* "We pass our reference ownership into the queue to destroy."
PushRelease(t) ==
  /\ pc[t] = "releasing"
  /\ Push(Command("release", releasing[t], NULL))
  /\ holds' = [holds EXCEPT ![t][releasing[t]] = @ - 1]
  /\ releasing' = [releasing EXCEPT ![t] = NULL]
  /\ pc' = [pc EXCEPT ![t] = "out"]
  /\ UNCHANGED <<counts, list, thread, handle, hardware>>

\* DeviceCreateDesc::Release by a handle: its last reference needs the lock.
ReleaseHandle(t) ==
  /\ pc[t] = "out" /\ handle[t] # NULL
  /\ IF handleCount[handle[t]] = 1
       THEN /\ pc' = [pc EXCEPT ![t] = "dropping"]
            /\ UNCHANGED <<handleCount, handle>>
       ELSE /\ handleCount' = [handleCount EXCEPT ![handle[t]] = @ - 1]
            /\ handle' = [handle EXCEPT ![t] = NULL]
            /\ UNCHANGED pc
  /\ UNCHANGED <<refCount, list, commands, thread, holds, releasing, hardware>>

WrongStillLast(d) == TRUE

StillLast(d) == handleCount[d] = 1

\* ... under the lock it may not be the last any more.
ReleaseLastHandle(t) ==
  /\ pc[t] = "dropping"
  /\ IF StillLast(handle[t])
       THEN SetHandles(handle[t], 0) /\ handle' = [handle EXCEPT ![t] = NULL]
       ELSE UNCHANGED <<handleCount, desc, handle>>
  /\ pc' = [pc EXCEPT ![t] = "out"]
  /\ UNCHANGED <<refCount, enumerated, commands, thread, holds, releasing, hardware>>

-----------------------------------------------------------------------------
(* The manager's thread. *)

PopCommand ==
  /\ worker = "popping" /\ ~ exited /\ queue # <<>>
  /\ serving' = Head(queue)
  /\ queue' = Tail(queue)
  /\ worker' = "serving"
  /\ UNCHANGED <<exited, counts, list, keepAlive, caller, hardware>>

Serving(op) == worker = "serving" /\ serving.op = op

\* CreateDevice_MgrThread: another reference to the device, or a new device,
\* which refers to its descriptor and to the manager, or a failure.
CreateDevice_MgrThread ==
  /\ Serving("create")
  /\ LET d == serving.object
         give == holds' = [holds EXCEPT ![serving.by][d] = @ + 1]
     IN  \/ /\ Alive(d)
            /\ refCount' = [refCount EXCEPT ![d] = @ + 1]
            /\ give /\ UNCHANGED handleCount
         \/ /\ ~ Alive(d)
            /\ refCount' = [refCount EXCEPT ![d] = 1, ![Manager] = @ + 1]
            /\ handleCount' = [handleCount EXCEPT ![d] = @ + 1]
            /\ give
         \/ ~ Alive(d) /\ UNCHANGED <<counts, holds>>
  /\ worker' = "finishing"
  /\ UNCHANGED <<list, commands, keepAlive, pc, handle, releasing, hardware>>

\* ReleaseDevice_MgrThread, when the reference was stolen meanwhile.
ReleaseStolen ==
  /\ Serving("release")
  /\ ~ IsLast(serving.object)
  /\ refCount' = [refCount EXCEPT ![serving.object] = @ - 1]
  /\ worker' = "finishing"
  /\ UNCHANGED <<handleCount, list, commands, keepAlive, caller, hardware>>

\* The device dies.  Its reference to the manager goes, by DeviceRelease on this
\* thread, and descKeepAlive takes over the one to its descriptor.
ReleaseDevice_MgrThread ==
  /\ Serving("release")
  /\ serving.object \in Devices /\ IsLast(serving.object)
  /\ IF IsLast(Manager)
       THEN /\ refCount' = [refCount EXCEPT ![serving.object] = 0]
            /\ Push(Command("release", Manager, NULL))
       ELSE /\ refCount' = [refCount EXCEPT ![serving.object] = 0, ![Manager] = @ - 1]
            /\ UNCHANGED commands
  /\ keepAlive' = serving.object
  /\ worker' = "keeping"
  /\ UNCHANGED <<handleCount, list, caller, hardware>>

ReleaseKeepAlive ==
  /\ worker = "keeping"
  /\ SetHandles(keepAlive, handleCount[keepAlive] - 1)
  /\ keepAlive' = NULL
  /\ worker' = "finishing"
  /\ UNCHANGED <<refCount, enumerated, commands, caller, hardware>>

\* The manager dies: DeviceManager::Shutdown closes the queue and empties the
\* list, where only descriptors with handles survive.
ReleaseManager_MgrThread ==
  /\ Serving("release")
  /\ serving.object = Manager /\ IsLast(Manager)
  /\ refCount' = [refCount EXCEPT ![Manager] = 0]
  /\ desc' = [d \in Devices |-> IF handleCount[d] = 0 THEN "none" ELSE "removed"]
  /\ enumerated' = [d \in Devices |-> FALSE]
  /\ worker' = "closing"
  /\ UNCHANGED <<handleCount, commands, keepAlive, caller, hardware>>

PushExitCommand ==
  /\ worker = "closing"
  /\ Push(ExitCommand)
  /\ worker' = "finishing"
  /\ UNCHANGED <<counts, list, keepAlive, caller, hardware>>

\* EnumerateAllFactoryDevices: a descriptor that is not found goes, unless a
\* handle or a device has it.
EnumerateAllFactoryDevices ==
  /\ Serving("enumerate")
  /\ enumerated' = plugged
  /\ desc' = [d \in Devices |-> IF plugged[d] THEN "listed"
                                ELSE IF handleCount[d] = 0 THEN "none" ELSE desc[d]]
  /\ worker' = "finishing"
  /\ UNCHANGED <<counts, commands, keepAlive, caller, hardware>>

\* The caller that waits for the command goes on.
Finish ==
  /\ worker = "finishing" \/ Serving("exit")
  /\ pc' = [t \in Threads |-> IF t # serving.by THEN pc[t]
                              ELSE IF serving.op = "create" THEN "created" ELSE "enumerated"]
  /\ exited' = (serving = ExitCommand)
  /\ serving' = NULL
  /\ worker' = "popping"
  /\ UNCHANGED <<queue, counts, list, keepAlive, holds, handle, releasing, hardware>>

\* IsExiting: DeviceManagerThread::Run returns.
Exit ==
  /\ worker = "popping" /\ exited
  /\ worker' = "exited"
  /\ UNCHANGED <<counts, list, commands, keepAlive, caller, hardware>>

\* DetectHIDDevice, when the hidraw monitor reports a device.
DetectHIDDevice(d) ==
  /\ worker = "popping" /\ Alive(Manager)
  /\ plugged[d] /\ ~ (desc[d] = "listed" /\ enumerated[d])
  /\ desc' = [desc EXCEPT ![d] = "listed"]
  /\ enumerated' = [enumerated EXCEPT ![d] = TRUE]
  /\ UNCHANGED <<counts, commands, thread, caller, hardware>>

-----------------------------------------------------------------------------

\* The hardware.
Plug(d) ==
  /\ plugs < PlugBound
  /\ plugs' = plugs + 1
  /\ plugged' = [plugged EXCEPT ![d] = ~ @]
  /\ UNCHANGED <<counts, list, commands, thread, caller>>

Call(t) == \/ EnumerateDevicesEx(t) \/ CreateDevice(t) \/ ReleaseHandle(t)
           \/ pc[t] = "out" /\ \E x \in Objects : DeviceRelease(t, x)

Continue(t) == \/ GetEnumerator(t) \/ PushCreate(t) \/ PushRelease(t) \/ ReleaseLastHandle(t)
               \/ pc[t] = "created" /\ \E x \in Objects : DeviceRelease(t, x)

Run == \/ PopCommand
       \/ CreateDevice_MgrThread
       \/ ReleaseStolen \/ ReleaseDevice_MgrThread \/ ReleaseKeepAlive
       \/ ReleaseManager_MgrThread \/ PushExitCommand
       \/ EnumerateAllFactoryDevices
       \/ Finish \/ Exit

\* The manager's thread polls, or is gone.
Idle == worker = "exited" \/ (worker = "popping" /\ queue = <<>> /\ ~ exited)

Next == \/ \E t \in Threads : Call(t) \/ Continue(t)
        \/ Run
        \/ \E d \in Devices : DetectHIDDevice(d) \/ Plug(d)
        \/ Idle /\ UNCHANGED vars

\* Threads that are in a call, and the manager's thread, are scheduled.
Spec == /\ Init /\ [][Next]_vars
        /\ WF_vars(Run) /\ \A t \in Threads : WF_vars(Continue(t))

-----------------------------------------------------------------------------
(* Properties. *)

\* Every variable has its type.
TypeOK ==
  /\ refCount \in [Objects -> Nat] /\ handleCount \in [Devices -> Nat]
  /\ desc \in [Devices -> {"none", "listed", "removed"}]
  /\ enumerated \in [Devices -> BOOLEAN]
  /\ queue \in Seq(Sent) /\ serving \in Sent \cup {NULL} /\ exited \in BOOLEAN
  /\ worker \in {"popping", "serving", "keeping", "closing", "finishing", "exited"}
  /\ keepAlive \in Devices \cup {NULL}
  /\ pc \in [Threads -> {"out", "waiting", "enumerated", "requesting", "created",
                         "releasing", "dropping"}]
  /\ holds \in [Threads -> [Objects -> Nat]]
  /\ handle \in [Threads -> Devices \cup {NULL}]
  /\ releasing \in [Threads -> Objects \cup {NULL}]
  /\ plugged \in [Devices -> BOOLEAN] /\ plugs \in 0..PlugBound

Count(S) == Cardinality(S)

\* References of the threads, one by one.
Held(x) == Count(UNION {{t} \X (1..holds[t][x]) : t \in Threads})

\* References on their way to the manager's thread.
Passed(x) ==
  LET release == Command("release", x, NULL)
  IN  Count({i \in DOMAIN queue : queue[i] = release})
      + (IF worker = "serving" /\ serving = release THEN 1 ELSE 0)

\* A RefCount is the number of references that threads hold, that are passed
\* through the queue and, for the manager, that its devices hold: so nobody
\* touches a device or the manager once it has died, and nothing leaks.
RefCountsOwners ==
  \A x \in Objects :
    refCount[x] = Held(x) + Passed(x)
                  + IF x = Manager THEN Count({d \in Devices : Alive(d)}) ELSE 0

\* The same for the HandleCount of a descriptor and its handles, its device and
\* the thread that is destroying the device; a descriptor somebody has exists.
HandleCountsOwners ==
  \A d \in Devices :
    /\ handleCount[d] = Count({t \in Threads : handle[t] = d})
                        + (IF Alive(d) THEN 1 ELSE 0) + (IF keepAlive = d THEN 1 ELSE 0)
    /\ handleCount[d] > 0 => desc[d] # "none"

\* A descriptor nobody has is deleted, unless the manager lists it for the next
\* handle.
NoDescriptorLeaks ==
  \A d \in Devices : handleCount[d] = 0 /\ desc[d] # "none" => Alive(Manager) /\ enumerated[d]

\* The counts are those of the owners, of every kind of object, at once: a lock
\* or a command less and some thread works on a freed object, or none frees it.
CountsOwners == TypeOK /\ RefCountsOwners /\ HandleCountsOwners /\ NoDescriptorLeaks

Queue == INSTANCE CommandQueue WITH
  Commands <- Sent, Exits <- {ExitCommand}, fifo <- queue,
  closed <- ~ Alive(Manager)

\* "PushCall shouldn't fail because background thread runs while manager is
\* alive": no call is made to a queue that is closed, and when the manager dies
\* no command but its own exit is left.
UsesCommandQueue == Queue!Spec

\* When the manager's thread ends, which System::Destroy waits for before it
\* takes the allocator away, every device is gone and no thread waits.
ThreadOutlivesDevices ==
  worker = "exited" => /\ \A x \in Objects : ~ Alive(x)
                       /\ queue = <<>> /\ \A t \in Threads : pc[t] # "waiting"

Forgotten == \A t \in Threads : handle[t] = NULL /\ \A x \in Objects : holds[t][x] = 0

\* Once no thread has a reference or a handle, the thread ends: ovr_Shutdown
\* returns.
ShutdownCompletes == Forgotten ~> worker = "exited"

=============================================================================
