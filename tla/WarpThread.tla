------------------------------- MODULE WarpThread -------------------------------
(***************************************************************************)
(* The life of a TimeWarp object (VrApi/TimeWarp.cpp): the handshakes in   *)
(* which the VR thread starts and stops the warp thread and the image      *)
(* server, and the watch dog in the warp thread's loop, which takes        *)
(* SCHED_FIFO from a VR thread that has not called WarpSwap for a second   *)
(* and gives it back.  ovr_EnterVrMode and ovr_LeaveVrMode make and delete *)
(* the object, ResetTimeWarp (VrApi/VrApi.cpp) does both within VR mode.   *)
(* What is swapped and drawn is the subject of module TimeWarp: a WarpSwap *)
(* is released here by the first frame of the warp thread after it.  The   *)
(* model ends ("dead") where the program aborts, or frees what one of its  *)
(* threads still works on.                                                 *)
(***************************************************************************)
EXTENDS ImageServer

CONSTANTS
  LifeBound     \* TimeWarp objects

ASSUME LifeAssumption == LifeBound \in Nat

\* How long ago WarpSwap was called: less than 0.1 s, more than that, more than
\* one second.
Ages == {"fresh", "aging", "stale"}

VARIABLES
  warp,             \* where the warp thread is, "none" when there is none
  shutdownRequest,  \* ShutdownRequest
  removed,          \* local of WarpThread: removedSchedFifo
  sample,           \* local of WarpThread: what lastWarpTime says
  age,              \* LastWarpSwapTimeInSeconds, as an age
  looked,           \* has the watch dog "read" this age, "acted" on it, or "no"?
  fifo,             \* the VR thread's scheduling class is SCHED_FIFO
  forgotten,        \* a TimeWarp that had taken it was replaced by ResetTimeWarp
  async,            \* InitParms.AsynchronousTimeWarp
  serving,          \* NetImageServer # NULL
  resetting,        \* the object is deleted by ResetTimeWarp
  lives             \* TimeWarp objects so far

watch == <<removed, sample, looked>>
mode == <<async, serving, resetting, lives>>
warpVars == <<warp, shutdownRequest, watch, age, fifo, forgotten, mode>>
vars == <<vr, serverVars, warpVars>>

Init ==
  /\ ServerInit
  /\ vr = "out" /\ warp = "none" /\ shutdownRequest = FALSE
  /\ removed = FALSE /\ sample = "fresh" /\ age = "fresh" /\ looked = "no"
  /\ fifo = FALSE /\ forgotten = FALSE
  /\ async = FALSE /\ serving = FALSE /\ resetting = FALSE
  /\ lives = 0

-----------------------------------------------------------------------------
(* The VR thread: TimeWarpLocal(). *)

\* TimeWarpLocal() takes the time of its start for that of a WarpSwap.
Construct(withThread, withServer) ==
  /\ lives' = lives + 1
  /\ async' = withThread /\ serving' = withServer
  /\ age' = "fresh" /\ looked' = "no"
  /\ vr' = IF withServer THEN "newServer" ELSE "serverReady"

\* ovr_EnterVrMode
EnterVrMode ==
  /\ vr = "out" /\ lives < LifeBound
  /\ \E withThread \in BOOLEAN, withServer \in BOOLEAN : Construct(withThread, withServer)
  /\ UNCHANGED <<serverVars, warp, shutdownRequest, removed, sample, fifo, forgotten, resetting>>

\* The thread is made with swapMutex held, so that its signal finds us waiting,
\* unless the wait has ended before.
WrongNewThread == vr' = "created"

NewThread == vr' = "createdLocked"

StartWarpThread ==
  /\ vr = "serverReady" /\ async
  /\ NewThread
  /\ warp' = "init"
  /\ shutdownRequest' = FALSE /\ removed' = FALSE
  /\ UNCHANGED <<serverVars, sample, looked, age, fifo, forgotten, mode>>

\* "block until the warp thread has completed the initialization"
WaitForWarpThread ==
  /\ vr \in {"created", "createdLocked"}
  /\ vr' = "initWait"
  /\ UNCHANGED <<serverVars, warpVars>>

\* The factory returns; only ovr_EnterVrMode sets the priority of its caller.
Enabled ==
  /\ vr' = "app"
  /\ fifo' = (fifo \/ ~ resetting)
  /\ forgotten' = (forgotten /\ resetting)
  /\ resetting' = FALSE
  /\ UNCHANGED <<serverVars, warp, shutdownRequest, watch, age, async, serving, lives>>

SynchronousStart == vr = "serverReady" /\ ~ async /\ Enabled
WarpThreadStarted == vr = "initDone" /\ Enabled

-----------------------------------------------------------------------------
(* The VR thread: WarpSwap. *)

WarpSwap ==
  /\ vr = "app"
  /\ age' = "fresh" /\ looked' = "no"
  /\ IF serving THEN EnterWarpSwap ELSE UNCHANGED buffers
  /\ vr' = IF async THEN "swapWait" ELSE "swapped"
  /\ UNCHANGED <<server, connected, stopByte, exchange, early, warp, shutdownRequest,
                 removed, sample, fifo, forgotten, mode>>

\* The image server gets its chance; a response it set is signalled next.
Swapped ==
  /\ vr = "swapped"
  /\ IF serving THEN LeaveWarpSwap ELSE UNCHANGED <<exchange, buffers>>
  /\ vr' = IF serving /\ ReadbackDone THEN "answered" ELSE "app"
  /\ UNCHANGED <<server, connected, stopByte, early, warpVars>>

Answered ==
  /\ vr = "answered"
  /\ vr' = "app"
  /\ SignalServer
  /\ UNCHANGED <<connected, stopByte, exchange, buffers, early, warpVars>>

-----------------------------------------------------------------------------
(* The VR thread: ~TimeWarpLocal. *)

AfterWarpThread == IF serving THEN "deleteServer" ELSE "deleted"

Delete(reset) ==
  /\ vr = "app"
  /\ resetting' = reset
  /\ shutdownRequest' = async
  /\ vr' = IF async THEN "stopping" ELSE AfterWarpThread
  /\ UNCHANGED <<serverVars, warp, watch, age, fifo, forgotten, async, serving, lives>>

LeaveVrMode == Delete(FALSE)

\* ovr_WarpSwap sees another sensor, or ovr_SetDistortionTuning is called.
ResetTimeWarp == lives < LifeBound /\ Delete(TRUE)

\* ShutdownMutex is released in the wait; that the warp thread unlocks it
\* without holding it makes no difference.
WaitForShutdown ==
  /\ vr = "stopping"
  /\ vr' = "stopWait"
  /\ UNCHANGED <<serverVars, warpVars>>

\* "Attach the windowSurface to the calling context again."
WindowIsFree == warp \in {"released", "none"}

WarpThreadStopped ==
  /\ vr = "stopped" /\ WindowIsFree
  /\ vr' = AfterWarpThread
  /\ UNCHANGED <<serverVars, warpVars>>

\* "Delete the image server after TimeWarp has shut down"
ServerDeleted ==
  /\ vr = "serverEnded" /\ server = "none"
  /\ vr' = "deleted"
  /\ ServerFreed
  /\ UNCHANGED warpVars

WarpDeleted ==
  /\ forgotten' = (forgotten \/ (async /\ removed))
  /\ removed' = FALSE /\ sample' = "fresh" /\ shutdownRequest' = FALSE

\* ovr_LeaveVrMode sets the priority of its thread back.
Left ==
  /\ vr = "deleted" /\ warp = "none" /\ ~ resetting
  /\ vr' = "out"
  /\ fifo' = FALSE
  /\ WarpDeleted
  /\ age' = "fresh" /\ looked' = "no"
  /\ async' = FALSE /\ serving' = FALSE
  /\ UNCHANGED <<serverVars, warp, resetting, lives>>

\* ResetTimeWarp makes a new object with the same parameters.
Reset ==
  /\ vr = "deleted" /\ warp = "none" /\ resetting
  /\ WarpDeleted
  /\ Construct(async, serving)
  /\ UNCHANGED <<serverVars, warp, fifo, resetting>>

\* eglMakeCurrent fails for a surface that is current to another thread, and FAIL
\* aborts; buffers or an object are freed that a thread still uses.
Dies ==
  /\ \/ vr = "stopped" /\ ~ WindowIsFree
     \/ vr = "serverEnded" /\ server # "none"
     \/ vr = "deleted" /\ warp # "none"
  /\ vr' = "dead"
  /\ UNCHANGED <<serverVars, warpVars>>

VrThread ==
  \/ EnterVrMode \/ StartWarpThread \/ WaitForWarpThread
  \/ SynchronousStart \/ WarpThreadStarted
  \/ WarpSwap \/ Swapped \/ Answered
  \/ LeaveVrMode \/ ResetTimeWarp
  \/ WaitForShutdown \/ WarpThreadStopped \/ ServerDeleted
  \/ Left \/ Reset \/ Dies
  \/ (VrThreadInServer /\ UNCHANGED warpVars)

-----------------------------------------------------------------------------
(* The warp thread. *)

\* "Signal the main thread to wake up and return", under swapMutex.
WarpThreadInit ==
  /\ warp = "init" /\ vr # "createdLocked"
  /\ warp' = "loop"
  /\ vr' = IF vr = "initWait" THEN "initDone" ELSE vr
  /\ UNCHANGED <<serverVars, shutdownRequest, watch, age, fifo, forgotten, mode>>

ShutdownReceived ==
  /\ warp = "loop" /\ shutdownRequest
  /\ warp' = "exit"
  /\ UNCHANGED <<vr, serverVars, shutdownRequest, watch, age, fifo, forgotten, mode>>

ReadLastWarpTime ==
  /\ warp = "loop" /\ ~ shutdownRequest
  /\ warp' = "watch"
  /\ sample' = age
  /\ looked' = "read"
  /\ UNCHANGED <<vr, serverVars, shutdownRequest, removed, age, fifo, forgotten, mode>>

WrongRestores == removed /\ sample # "fresh"

Removes == ~ removed /\ sample = "stale"
Restores == removed /\ sample = "fresh"

\* The watch dog calls setSchedFifoStatic for the VR thread.
Watch ==
  /\ warp = "watch"
  /\ warp' = "warping"
  /\ removed' = ((removed \/ Removes) /\ ~ Restores)
  /\ fifo' = ((fifo /\ ~ Removes) \/ Restores)
  /\ looked' = IF looked = "read" THEN "acted" ELSE "no"
  /\ sample' = "fresh"
  /\ UNCHANGED <<vr, serverVars, shutdownRequest, age, forgotten, mode>>

\* A frame; it releases a WarpSwap that waits for swapIsLatched.
WarpToScreen ==
  /\ warp = "warping"
  /\ warp' = "loop"
  /\ vr' = IF vr = "swapWait" THEN "swapped" ELSE vr
  /\ UNCHANGED <<serverVars, shutdownRequest, watch, age, fifo, forgotten, mode>>

\* "release the window so it can be made current by another thread"
WarpThreadShutdown ==
  /\ warp = "exit"
  /\ warp' = "released"
  /\ UNCHANGED <<vr, serverVars, shutdownRequest, watch, age, fifo, forgotten, mode>>

\* ShutdownCondition is broadcast, the last the thread does.
WarpThreadExits ==
  /\ warp = "released"
  /\ warp' = "none"
  /\ vr' = IF vr = "stopWait" THEN "stopped" ELSE vr
  /\ UNCHANGED <<serverVars, shutdownRequest, watch, age, fifo, forgotten, mode>>

WarpThread ==
  \/ WarpThreadInit \/ ShutdownReceived \/ ReadLastWarpTime \/ Watch
  \/ WarpToScreen \/ WarpThreadShutdown \/ WarpThreadExits

-----------------------------------------------------------------------------
(* Time. *)

\* The warp thread's loop runs once per vsync, so often enough to act within
\* 0.1 s on what it reads; and a TimeWarp object is made in less than a second.
TimePasses ==
  /\ vr # "out" /\ age # "stale"
  /\ warp \in {"loop", "watch", "warping"} /\ ~ shutdownRequest => looked = "acted"
  /\ age = "aging" => vr \in {"app", "swapWait", "swapped", "answered"}
  /\ age' = IF age = "fresh" THEN "aging" ELSE "stale"
  /\ looked' = "no"
  /\ UNCHANGED <<vr, serverVars, warp, shutdownRequest, removed, sample, fifo, forgotten, mode>>

-----------------------------------------------------------------------------

\* pthread_cond_wait returns though nothing was signalled: the four waits of the
\* VR thread that look at nothing then (ImageServer.cpp:65 and 125,
\* TimeWarp.cpp:626 and 880).
EarlyWakeup ==
  /\ vr' = CASE vr = "startWait" -> "serverReady"
              [] vr = "initWait" -> "initDone"
              [] vr = "stopWait" -> "stopped"
              [] vr = "endWait" -> "serverEnded"
              [] OTHER -> vr
  /\ vr' # vr
  /\ UNCHANGED <<serverVars, warpVars>>

Alive == vr # "dead"

Next ==
  /\ Alive
  /\ \/ VrThread \/ WarpThread \/ TimePasses \/ EarlyWakeup
     \/ (ServerThread \/ EarlyAnswer) /\ UNCHANGED warpVars

\* Every thread is scheduled.  An application in VR mode swaps or leaves; one
\* that has left it need not enter it again.  No wait is owed an early wakeup.
Spec ==
  /\ Init /\ [][Next]_vars
  /\ WF_vars(vr # "out" /\ VrThread) /\ WF_vars(Alive /\ WarpThread)
  /\ WF_vars(Alive /\ ServerThread /\ UNCHANGED warpVars)

-----------------------------------------------------------------------------
(* Properties. *)

LifeTypeOK ==
  /\ vr \in {"out", "newServer", "serverCreated", "startWait", "serverReady",
             "created", "createdLocked", "initWait", "initDone",
             "app", "swapWait", "swapped", "answered",
             "stopping", "stopWait", "stopped", "deleteServer", "byteWritten",
             "badResponse", "stopSignalled", "endWait", "serverEnded", "deleted", "dead"}
  /\ warp \in {"none", "init", "loop", "watch", "warping", "exit", "released"}
  /\ shutdownRequest \in BOOLEAN /\ removed \in BOOLEAN
  /\ sample \in Ages /\ age \in Ages /\ looked \in {"no", "read", "acted"}
  /\ fifo \in BOOLEAN /\ forgotten \in BOOLEAN
  /\ async \in BOOLEAN /\ serving \in BOOLEAN /\ resetting \in BOOLEAN
  /\ lives \in 0..LifeBound

\* The variables stay within their types and bounds.
TypeOK == ServerTypeOK /\ LifeTypeOK

\* The watch dog keeps up: when it has acted on the age of the last WarpSwap, a
\* VR thread that is stuck has lost SCHED_FIFO and one that swaps has it, unless
\* ResetTimeWarp forgot that it had been taken (TimeWarp.cpp:561-597).
WatchdogFollows ==
  looked = "acted" /\ vr \in {"app", "swapWait", "swapped", "answered"} =>
    /\ age = "stale" => ~ fifo
    /\ age = "fresh" => fifo \/ forgotten

Leaving == vr \in {"stopping", "stopWait", "stopped", "deleteServer", "byteWritten",
                   "badResponse", "stopSignalled", "endWait", "serverEnded", "deleted"}
Constructing == vr \in {"newServer", "serverCreated", "startWait", "serverReady",
                        "created", "createdLocked", "initWait", "initDone"}

\* What a wait was for has happened, and its signal was sent before the wait.
StartMissed == vr = "startWait" /\ server # "start"
StopMissed  == vr = "stopWait" /\ warp = "none"
\* The server has ended, or it waits for an answer instead, or, started after
\* the byte for it was written, it will never be told to end.
EndMissed   == vr = "endWait" /\ (server \in {"none", "responseWait"} \/ ~ stopByte)

WaitsForever == StartMissed \/ StopMissed \/ EndMissed

\* TimeWarp's constructor returns and its destructor returns, or the program
\* dies, except for a VR thread that waits for a signal sent before its wait.
LifeGoesOn == (Leaving \/ Constructing) ~> (vr \in {"app", "out", "dead"} \/ WaitsForever)

\* A client that has asked is answered, or the server ends: the capture, the
\* countdown and the signal reach the server however many frames it takes,
\* unless the signal was sent before the server waited for it.
RequestIsAnswered ==
  (server = "responseWait") ~>
    (server # "responseWait" \/ AnswerMissed \/ WaitsForever \/ vr = "dead")

\* Leaving VR mode ends (ImageServer.cpp:114, 443: a thread told to stop
\* signals "that we are done", whenever that is).
LeavingEnds == Leaving ~> ~ Leaving

=============================================================================
