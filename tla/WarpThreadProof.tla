----------------------------- MODULE WarpThreadProof -----------------------------
(***************************************************************************)
(* Proofs about WarpThread, for any number of TimeWarp objects, any number *)
(* of requests and any resolutions: the watch dog follows the VR thread,   *)
(* and an image server whose waits end with a signal sends what its client *)
(* asked for.                                                              *)
(***************************************************************************)
EXTENDS WarpThread, TLAPS

Swapping == {"app", "swapWait", "swapped", "answered"}

Stopped == {"deleteServer", "byteWritten", "badResponse", "stopSignalled", "endWait",
            "serverEnded", "deleted"}

\* There is a warp thread only where a TimeWarp object that has one is complete
\* or is being made or stopped; past the point where the window surface was taken
\* back it has nothing left to do but to signal its end.
WarpOK ==
  /\ vr \in {"out", "newServer", "serverCreated", "startWait", "serverReady"} => warp = "none"
  /\ vr \in Stopped => WindowIsFree
  /\ ~ async => warp = "none"
  /\ Leaving /\ resetting => lives < LifeBound

\* There is a server thread only while there is an image server.
ServerOK ==
  /\ vr \in {"out", "newServer", "deleted"} => server = "none"
  /\ ~ serving => server = "none"
  /\ vr \in {"newServer", "serverCreated", "startWait"} \cup (Stopped \ {"deleted"}) => serving

\* SCHED_FIFO is missing because this watch dog took it, or because one before
\* it did and was forgotten; and what the watch dog has read is still so.
PriorityOK ==
  /\ removed => async /\ ~ fifo
  /\ vr = "out" \/ Constructing => ~ removed /\ age # "stale" /\ sample # "stale"
  /\ vr = "out" => ~ resetting
  /\ vr \in Swapping \/ Leaving \/ (Constructing /\ resetting) => fifo \/ removed \/ forgotten
  /\ looked = "read" => warp = "watch" /\ sample = age
  /\ WatchdogFollows

\* The image captured is that of the last request.
Captured == captured = request.sequence /\ resolution = request.resolution

\* From the time a request is seen until its answer is signalled the server
\* waits, so it asks for nothing else and sends nothing, if no wait of its ended
\* early.
ExchangeOK ==
  /\ pixels = captured
  /\ vr # "dead" =>
       (Exits(response) <=> vr \in {"badResponse", "stopSignalled", "endWait", "serverEnded"})
  /\ ~ early =>
       /\ vr \notin {"stopSignalled", "endWait", "serverEnded", "dead"} =>
            /\ NewRequest \/ countdown > 0 => server \in {"asked", "responseWait"}
            /\ countdown > 0 => Captured
       /\ vr = "answered" =>
            server \in {"asked", "responseWait"} /\ mapped /\ Captured /\ countdown = 0
       /\ server = "woken" => (mapped /\ Captured) \/ Exits(response)
       /\ server = "sending" => mapped /\ Captured

IInv == TypeOK /\ WarpOK /\ ServerOK /\ PriorityOK /\ ExchangeOK
-----------------------------------------------------------------------------
\* The variables of WarpThread keep their types.
LEMMA LifeTypeStep == IInv /\ [Next]_vars => LifeTypeOK'
<1> SUFFICES ASSUME IInv, [Next]_vars PROVE LifeTypeOK'
  OBVIOUS
<1> USE DEF IInv, LifeTypeOK, TypeOK, Ages, vars, serverVars, exchange, buffers, warpVars, watch, mode
<1> USE LifeAssumption
<1>1. CASE EnterVrMode
  BY <1>1 DEF EnterVrMode, Construct
<1>2. CASE StartWarpThread
  BY <1>2 DEF StartWarpThread, NewThread
<1>3. CASE WaitForWarpThread
  BY <1>3 DEF WaitForWarpThread
<1>4. CASE SynchronousStart \/ WarpThreadStarted
  <2>1. Enabled
    BY <1>4 DEF SynchronousStart, WarpThreadStarted
  <2>2. fifo' \in BOOLEAN
    BY <2>1, Zenon DEF Enabled
  <2>3. forgotten' \in BOOLEAN
    BY <2>1, Zenon DEF Enabled
  <2>4. vr' = "app" /\ resetting' = FALSE
    BY <2>1 DEF Enabled
  <2>5. UNCHANGED <<warp, sample, looked, age, lives>>
    BY <2>1 DEF Enabled
  <2>6. shutdownRequest' \in BOOLEAN /\ removed' \in BOOLEAN /\ async' \in BOOLEAN /\ serving' \in BOOLEAN
    BY <2>1 DEF Enabled
  <2> QED
    BY <2>2, <2>3, <2>4, <2>5, <2>6
<1>6. CASE WarpSwap
  BY <1>6 DEF WarpSwap, EnterWarpSwap, NewRequest
<1>7. CASE Swapped
  BY <1>7 DEF Swapped, LeaveWarpSwap, ReadbackDone, CountedDown
<1>8. CASE Answered
  BY <1>8 DEF Answered, SignalServer
<1>9. CASE LeaveVrMode \/ ResetTimeWarp
  <2>1. PICK reset \in BOOLEAN : Delete(reset)
    BY <1>9 DEF LeaveVrMode, ResetTimeWarp
  <2>2. vr' \in {"stopping", "deleteServer", "deleted"}
    BY <2>1 DEF Delete, AfterWarpThread
  <2>3. shutdownRequest' \in BOOLEAN /\ resetting' \in BOOLEAN
    BY <2>1 DEF Delete
  <2>4. UNCHANGED <<warp, removed, sample, looked, age, fifo, forgotten, async, serving, lives>>
    BY <2>1 DEF Delete
  <2> QED
    BY <2>2, <2>3, <2>4
<1>11. CASE WaitForShutdown
  BY <1>11 DEF WaitForShutdown
<1>12. CASE WarpThreadStopped
  BY <1>12 DEF WarpThreadStopped, AfterWarpThread
<1>13. CASE ServerDeleted
  BY <1>13 DEF ServerDeleted, ServerFreed, NoRequest, NoResponse
<1>14. CASE Left
  BY <1>14 DEF Left, WarpDeleted
<1>15. CASE Reset
  <2>1. lives' \in 0..LifeBound
    BY <1>15 DEF Reset, Construct, WarpOK, Leaving
  <2>2. vr' \in {"newServer", "serverReady"}
    BY <1>15 DEF Reset, Construct, WarpDeleted
  <2>3. forgotten' \in BOOLEAN
    BY <1>15, Zenon DEF Reset, Construct, WarpDeleted
  <2> QED
    BY <2>1, <2>2, <2>3, <1>15 DEF Reset, Construct, WarpDeleted
<1>16. CASE NewServer /\ UNCHANGED warpVars
  BY <1>16 DEF NewServer, NoRequest, NoResponse
<1>17. CASE WaitForStart /\ UNCHANGED warpVars
  BY <1>17 DEF WaitForStart
<1>18. CASE WriteStopByte /\ UNCHANGED warpVars
  BY <1>18 DEF WriteStopByte
<1>19. CASE SetBadResponse /\ UNCHANGED warpVars
  BY <1>19 DEF SetBadResponse, BadResponse
<1>20. CASE SignalStop /\ UNCHANGED warpVars
  BY <1>20 DEF SignalStop, SignalServer
<1>21. CASE WaitForEnd /\ UNCHANGED warpVars
  BY <1>21 DEF WaitForEnd
<1>22. CASE WarpThreadInit
  BY <1>22 DEF WarpThreadInit
<1>23. CASE ShutdownReceived
  BY <1>23 DEF ShutdownReceived
<1>24. CASE ReadLastWarpTime
  BY <1>24 DEF ReadLastWarpTime
<1>25. CASE Watch
  BY <1>25 DEF Watch, Removes, Restores
<1>26. CASE WarpToScreen
  BY <1>26 DEF WarpToScreen
<1>27. CASE WarpThreadExits
  BY <1>27 DEF WarpThreadExits
<1>28. CASE TimePasses
  BY <1>28 DEF TimePasses
<1>29. CASE ServerStarts /\ UNCHANGED warpVars
  BY <1>29 DEF ServerStarts, SignalVrThread
<1>30. CASE ServerEnds /\ UNCHANGED warpVars
  BY <1>30 DEF ServerEnds, SignalVrThread
<1>31. CASE vr' = vr /\ UNCHANGED warpVars
  BY <1>31
<1>32. CASE Dies
  BY <1>32 DEF Dies
<1>33. CASE EarlyWakeup
  BY <1>33 DEF EarlyWakeup
<1>34. CASE WarpThreadShutdown
  BY <1>34 DEF WarpThreadShutdown
<1>35. CASE EarlyAnswer /\ UNCHANGED warpVars
  BY <1>35 DEF EarlyAnswer
<1> QED
  BY <1>1, <1>2, <1>3, <1>4, <1>6, <1>7, <1>8, <1>9, <1>11, <1>12, <1>13,
     <1>14, <1>15, <1>16, <1>17, <1>18, <1>19, <1>20, <1>21, <1>22, <1>23, <1>24,
     <1>25, <1>26, <1>27, <1>28, <1>29, <1>30, <1>31, <1>32, <1>33, <1>34, <1>35 DEF Next, VrThread,
     VrThreadInServer, WarpThread, ServerThread, Poll, Accept, HangUp, Ask,
     WaitForResponse, ReadResponse, Exits, Sent

\* The variables of ImageServer keep their types.
LEMMA ServerTypeStep == IInv /\ [Next]_vars => ServerTypeOK'
<1> SUFFICES ASSUME IInv, [Next]_vars PROVE ServerTypeOK'
  OBVIOUS
<1> USE DEF IInv, ServerTypeOK, TypeOK, LifeTypeOK, vars, serverVars, exchange, buffers, warpVars, watch, mode
<1> USE ServerAssumption
<1>a. /\ request.sequence \in 0..RequestBound /\ request.resolution \in Resolutions \cup {0}
      /\ NoRequest \in [sequence : 0..RequestBound, resolution : Resolutions \cup {0}]
      /\ NoResponse \in [sequence : -1..RequestBound, resolution : Resolutions \cup {-1, 0}]
      /\ BadResponse \in [sequence : -1..RequestBound, resolution : Resolutions \cup {-1, 0}]
  BY DEF NoRequest, NoResponse, BadResponse
<1>b. ASSUME NEW r \in Resolutions \cup {0}
      PROVE  [sequence |-> request.sequence, resolution |-> r]
               \in [sequence : -1..RequestBound, resolution : Resolutions \cup {-1, 0}]
  BY <1>a
<1>1. CASE WarpSwap
  <2>1. captured' \in 0..RequestBound /\ pixels' \in 0..RequestBound
    BY <1>1, <1>a DEF WarpSwap, EnterWarpSwap
  <2>2. resolution' \in Resolutions \cup {0}
    BY <1>1, <1>a DEF WarpSwap, EnterWarpSwap
  <2>3. countdown' \in 0..2
    BY <1>1 DEF WarpSwap, EnterWarpSwap
  <2>4. mapped' \in BOOLEAN
    BY <1>1 DEF WarpSwap, EnterWarpSwap
  <2> QED
    BY <1>1, <2>1, <2>2, <2>3, <2>4 DEF WarpSwap
<1>2. CASE Swapped
  <2>1. countdown' \in 0..2
    BY <1>2 DEF Swapped, LeaveWarpSwap, CountedDown
  <2>2. response' \in [sequence : -1..RequestBound, resolution : Resolutions \cup {-1, 0}]
    BY <1>2, <1>b DEF Swapped, LeaveWarpSwap
  <2>3. mapped' \in BOOLEAN
    BY <1>2 DEF Swapped, LeaveWarpSwap
  <2> QED
    BY <1>2, <2>1, <2>2, <2>3 DEF Swapped, LeaveWarpSwap
<1>3. CASE Answered
  BY <1>3 DEF Answered, SignalServer
<1>4. CASE ServerDeleted
  <2>1. request' \in [sequence : 0..RequestBound, resolution : Resolutions \cup {0}]
    BY <1>4, <1>a DEF ServerDeleted, ServerFreed
  <2>2. response' \in [sequence : -1..RequestBound, resolution : Resolutions \cup {-1, 0}]
    BY <1>4, <1>a DEF ServerDeleted, ServerFreed
  <2>3. /\ server' \in {server, "start"} /\ {connected', stopByte', mapped', early'} \subseteq BOOLEAN
        /\ {captured', pixels', countdown'} \subseteq {0} /\ resolution' = 0
    BY <1>4 DEF ServerDeleted, ServerFreed
  <2> QED
    BY <2>1, <2>2, <2>3
<1>5. CASE NewServer /\ UNCHANGED warpVars
  <2>1. request' \in [sequence : 0..RequestBound, resolution : Resolutions \cup {0}]
    BY <1>5, <1>a DEF NewServer
  <2>2. response' \in [sequence : -1..RequestBound, resolution : Resolutions \cup {-1, 0}]
    BY <1>5, <1>a DEF NewServer
  <2>3. /\ server' \in {server, "start"} /\ {connected', stopByte', mapped', early'} \subseteq BOOLEAN
        /\ {captured', pixels', countdown'} \subseteq {0} /\ resolution' = 0
    BY <1>5 DEF NewServer
  <2> QED
    BY <2>1, <2>2, <2>3
<1>6. CASE WriteStopByte /\ UNCHANGED warpVars
  BY <1>6 DEF WriteStopByte
<1>7. CASE SetBadResponse /\ UNCHANGED warpVars
  BY <1>7 DEF SetBadResponse, BadResponse
<1>8. CASE SignalStop /\ UNCHANGED warpVars
  BY <1>8 DEF SignalStop, SignalServer
<1>9. CASE WarpThreadExits
  BY <1>9 DEF WarpThreadExits
<1>10. CASE ServerStarts /\ UNCHANGED warpVars
  BY <1>10 DEF ServerStarts, SignalVrThread
<1>11. CASE Poll /\ UNCHANGED warpVars
  BY <1>11 DEF Poll
<1>12. CASE Accept /\ UNCHANGED warpVars
  BY <1>12 DEF Accept
<1>13. CASE HangUp /\ UNCHANGED warpVars
  BY <1>13 DEF HangUp
<1>14. ASSUME NEW r \in Resolutions, Ask(r), UNCHANGED warpVars PROVE ServerTypeOK'
  BY <1>14 DEF Ask
<1>15. CASE WaitForResponse /\ UNCHANGED warpVars
  BY <1>15 DEF WaitForResponse
<1>16. CASE ReadResponse /\ UNCHANGED warpVars
  BY <1>16 DEF ReadResponse, Exits
<1>17. CASE Sent /\ UNCHANGED warpVars
  BY <1>17 DEF Sent
<1>18. CASE ServerEnds /\ UNCHANGED warpVars
  BY <1>18 DEF ServerEnds, SignalVrThread
<1>19. CASE UNCHANGED serverVars
  BY <1>19
<1>20. CASE Dies
  BY <1>20 DEF Dies
<1>21. CASE EarlyWakeup
  BY <1>21 DEF EarlyWakeup
<1>22. CASE WarpThreadShutdown
  BY <1>22 DEF WarpThreadShutdown
<1>23. CASE EarlyAnswer /\ UNCHANGED warpVars
  BY <1>23 DEF EarlyAnswer
<1> QED
  BY <1>1, <1>2, <1>3, <1>4, <1>5, <1>6, <1>7, <1>8, <1>9, <1>10, <1>11, <1>12, <1>13,
     <1>14, <1>15, <1>16, <1>17, <1>18, <1>19, <1>20, <1>21, <1>22, <1>23 DEF Next, VrThread, VrThreadInServer,
     WarpThread, ServerThread, EnterVrMode, Construct, StartWarpThread, NewThread,
     WaitForWarpThread, SynchronousStart, Enabled, WarpThreadStarted, Enabled,
     LeaveVrMode, Delete, AfterWarpThread, ResetTimeWarp, Delete, AfterWarpThread,
     WaitForShutdown, WarpThreadStopped, AfterWarpThread, Left, WarpDeleted,
     Reset, WarpDeleted, Construct, WaitForStart, WaitForEnd,
     WarpThreadInit, ShutdownReceived, ReadLastWarpTime, Watch, Removes, Restores,
     WarpToScreen, TimePasses

\* There is a warp thread only where the VR thread says so.
LEMMA WarpStep == IInv /\ [Next]_vars => WarpOK'
<1> SUFFICES ASSUME IInv, [Next]_vars PROVE WarpOK'
  OBVIOUS
<1> USE DEF IInv, WarpOK, WindowIsFree, Stopped, Leaving, vars, serverVars, exchange, buffers, warpVars, watch, mode
<1>1. CASE EnterVrMode
  BY <1>1 DEF EnterVrMode, Construct
<1>2. CASE StartWarpThread
  BY <1>2 DEF StartWarpThread, NewThread
<1>3. CASE WaitForWarpThread
  BY <1>3 DEF WaitForWarpThread
<1>4. CASE SynchronousStart
  BY <1>4 DEF SynchronousStart, Enabled
<1>5. CASE WarpThreadStarted
  BY <1>5 DEF WarpThreadStarted, Enabled
<1>6. CASE WarpSwap
  BY <1>6 DEF WarpSwap, EnterWarpSwap, NewRequest
<1>7. CASE Swapped
  BY <1>7 DEF Swapped, LeaveWarpSwap, ReadbackDone, CountedDown
<1>8. CASE Answered
  BY <1>8 DEF Answered, SignalServer
<1>9. CASE LeaveVrMode
  BY <1>9 DEF LeaveVrMode, Delete, AfterWarpThread
<1>10. CASE ResetTimeWarp
  BY <1>10 DEF ResetTimeWarp, Delete, AfterWarpThread
<1>11. CASE WaitForShutdown
  BY <1>11 DEF WaitForShutdown
<1>12. CASE WarpThreadStopped
  BY <1>12 DEF WarpThreadStopped, AfterWarpThread
<1>13. CASE ServerDeleted
  BY <1>13 DEF ServerDeleted, ServerFreed, NoRequest, NoResponse
<1>14. CASE Left
  BY <1>14 DEF Left, WarpDeleted
<1>15. CASE Reset
  BY <1>15 DEF Reset, WarpDeleted, Construct
<1>16. CASE NewServer /\ UNCHANGED warpVars
  BY <1>16 DEF NewServer, NoRequest, NoResponse
<1>17. CASE WaitForStart /\ UNCHANGED warpVars
  BY <1>17 DEF WaitForStart
<1>18. CASE WriteStopByte /\ UNCHANGED warpVars
  BY <1>18 DEF WriteStopByte
<1>19. CASE SetBadResponse /\ UNCHANGED warpVars
  BY <1>19 DEF SetBadResponse, BadResponse
<1>20. CASE SignalStop /\ UNCHANGED warpVars
  BY <1>20 DEF SignalStop, SignalServer
<1>21. CASE WaitForEnd /\ UNCHANGED warpVars
  BY <1>21 DEF WaitForEnd
<1>22. CASE WarpThreadInit
  BY <1>22 DEF WarpThreadInit
<1>23. CASE ShutdownReceived
  BY <1>23 DEF ShutdownReceived
<1>24. CASE ReadLastWarpTime
  BY <1>24 DEF ReadLastWarpTime
<1>25. CASE Watch
  BY <1>25 DEF Watch, Removes, Restores
<1>26. CASE WarpToScreen
  BY <1>26 DEF WarpToScreen
<1>27. CASE WarpThreadExits
  BY <1>27 DEF WarpThreadExits
<1>28. CASE TimePasses
  BY <1>28 DEF TimePasses
<1>29. CASE ServerStarts /\ UNCHANGED warpVars
  BY <1>29 DEF ServerStarts, SignalVrThread
<1>30. CASE ServerEnds /\ UNCHANGED warpVars
  BY <1>30 DEF ServerEnds, SignalVrThread
<1>31. CASE vr' = vr /\ UNCHANGED warpVars
  BY <1>31
<1>32. CASE Dies
  BY <1>32 DEF Dies
<1>33. CASE EarlyWakeup
  BY <1>33 DEF EarlyWakeup
<1>34. CASE WarpThreadShutdown
  BY <1>34 DEF WarpThreadShutdown
<1>35. CASE EarlyAnswer /\ UNCHANGED warpVars
  BY <1>35 DEF EarlyAnswer
<1> QED
  BY <1>1, <1>2, <1>3, <1>4, <1>5, <1>6, <1>7, <1>8, <1>9, <1>10, <1>11, <1>12, <1>13,
     <1>14, <1>15, <1>16, <1>17, <1>18, <1>19, <1>20, <1>21, <1>22, <1>23, <1>24,
     <1>25, <1>26, <1>27, <1>28, <1>29, <1>30, <1>31, <1>32, <1>33, <1>34, <1>35 DEF Next, VrThread,
     VrThreadInServer, WarpThread, ServerThread, Poll, Accept, HangUp, Ask,
     WaitForResponse, ReadResponse, Exits, Sent

\* There is a server thread only where the VR thread says so.
LEMMA ServerStep == IInv /\ [Next]_vars => ServerOK'
<1> SUFFICES ASSUME IInv, [Next]_vars PROVE ServerOK'
  OBVIOUS
<1> USE DEF IInv, ServerOK, Stopped, vars, serverVars, exchange, buffers, warpVars, watch, mode
<1>1. CASE EnterVrMode
  BY <1>1 DEF EnterVrMode, Construct
<1>2. CASE StartWarpThread
  BY <1>2 DEF StartWarpThread, NewThread
<1>3. CASE WaitForWarpThread
  BY <1>3 DEF WaitForWarpThread
<1>4. CASE SynchronousStart
  BY <1>4 DEF SynchronousStart, Enabled
<1>5. CASE WarpThreadStarted
  BY <1>5 DEF WarpThreadStarted, Enabled
<1>6. CASE WarpSwap
  BY <1>6 DEF WarpSwap, EnterWarpSwap, NewRequest
<1>7. CASE Swapped
  BY <1>7 DEF Swapped, LeaveWarpSwap, ReadbackDone, CountedDown
<1>8. CASE Answered
  BY <1>8 DEF Answered, SignalServer
<1>9. CASE LeaveVrMode
  BY <1>9 DEF LeaveVrMode, Delete, AfterWarpThread
<1>10. CASE ResetTimeWarp
  BY <1>10 DEF ResetTimeWarp, Delete, AfterWarpThread
<1>11. CASE WaitForShutdown
  BY <1>11 DEF WaitForShutdown
<1>12. CASE WarpThreadStopped
  BY <1>12 DEF WarpThreadStopped, AfterWarpThread
<1>13. CASE ServerDeleted
  BY <1>13 DEF ServerDeleted, ServerFreed, NoRequest, NoResponse
<1>14. CASE Left
  BY <1>14 DEF Left, WarpDeleted
<1>15. CASE Reset
  BY <1>15 DEF Reset, WarpDeleted, Construct
<1>16. CASE NewServer /\ UNCHANGED warpVars
  BY <1>16 DEF NewServer, NoRequest, NoResponse
<1>17. CASE WaitForStart /\ UNCHANGED warpVars
  BY <1>17 DEF WaitForStart
<1>18. CASE WriteStopByte /\ UNCHANGED warpVars
  BY <1>18 DEF WriteStopByte
<1>19. CASE SetBadResponse /\ UNCHANGED warpVars
  BY <1>19 DEF SetBadResponse, BadResponse
<1>20. CASE SignalStop /\ UNCHANGED warpVars
  BY <1>20 DEF SignalStop, SignalServer
<1>21. CASE WaitForEnd /\ UNCHANGED warpVars
  BY <1>21 DEF WaitForEnd
<1>22. CASE WarpThreadInit
  BY <1>22 DEF WarpThreadInit
<1>23. CASE ShutdownReceived
  BY <1>23 DEF ShutdownReceived
<1>24. CASE ReadLastWarpTime
  BY <1>24 DEF ReadLastWarpTime
<1>25. CASE Watch
  BY <1>25 DEF Watch, Removes, Restores
<1>26. CASE WarpToScreen
  BY <1>26 DEF WarpToScreen
<1>27. CASE WarpThreadExits
  BY <1>27 DEF WarpThreadExits
<1>28. CASE TimePasses
  BY <1>28 DEF TimePasses
<1>29. CASE ServerStarts /\ UNCHANGED warpVars
  BY <1>29 DEF ServerStarts, SignalVrThread
<1>30. CASE Poll /\ UNCHANGED warpVars
  BY <1>30 DEF Poll
<1>31. CASE Accept /\ UNCHANGED warpVars
  BY <1>31 DEF Accept
<1>32. CASE HangUp /\ UNCHANGED warpVars
  BY <1>32 DEF HangUp
<1>33. ASSUME NEW r \in Resolutions, Ask(r), UNCHANGED warpVars PROVE ServerOK'
  BY <1>33 DEF Ask
<1>34. CASE WaitForResponse /\ UNCHANGED warpVars
  BY <1>34 DEF WaitForResponse
<1>35. CASE ReadResponse /\ UNCHANGED warpVars
  BY <1>35 DEF ReadResponse, Exits
<1>36. CASE Sent /\ UNCHANGED warpVars
  BY <1>36 DEF Sent
<1>37. CASE ServerEnds /\ UNCHANGED warpVars
  BY <1>37 DEF ServerEnds, SignalVrThread
<1>38. CASE UNCHANGED vars
  BY <1>38
<1>39. CASE Dies
  BY <1>39 DEF Dies
<1>40. CASE EarlyWakeup
  BY <1>40 DEF EarlyWakeup
<1>41. CASE WarpThreadShutdown
  BY <1>41 DEF WarpThreadShutdown
<1>42. CASE EarlyAnswer /\ UNCHANGED warpVars
  BY <1>42 DEF EarlyAnswer
<1> QED
  BY <1>1, <1>2, <1>3, <1>4, <1>5, <1>6, <1>7, <1>8, <1>9, <1>10, <1>11, <1>12, <1>13,
     <1>14, <1>15, <1>16, <1>17, <1>18, <1>19, <1>20, <1>21, <1>22, <1>23, <1>24,
     <1>25, <1>26, <1>27, <1>28, <1>29, <1>30, <1>31, <1>32, <1>33, <1>34, <1>35,
     <1>36, <1>37, <1>38, <1>39, <1>40, <1>41, <1>42 DEF Next, VrThread, VrThreadInServer, WarpThread,
     ServerThread

\* The scheduling class is where the watch dog put it.
LEMMA PriorityStep == IInv /\ [Next]_vars => PriorityOK'
<1> SUFFICES ASSUME IInv, [Next]_vars PROVE PriorityOK'
  OBVIOUS
<1> USE DEF IInv, PriorityOK, WatchdogFollows, Leaving, Constructing, Swapping, WarpOK, Stopped, vars, serverVars, exchange, buffers, warpVars, watch, mode
<1>1. CASE EnterVrMode
  BY <1>1 DEF EnterVrMode, Construct
<1>2. CASE StartWarpThread
  BY <1>2 DEF StartWarpThread, NewThread
<1>3. CASE WaitForWarpThread
  BY <1>3 DEF WaitForWarpThread
<1>4. CASE SynchronousStart
  BY <1>4 DEF SynchronousStart, Enabled
<1>5. CASE WarpThreadStarted
  BY <1>5 DEF WarpThreadStarted, Enabled
<1>6. CASE WarpSwap
  BY <1>6 DEF WarpSwap, EnterWarpSwap, NewRequest
<1>7. CASE Swapped
  BY <1>7 DEF Swapped, LeaveWarpSwap, ReadbackDone, CountedDown
<1>8. CASE Answered
  BY <1>8 DEF Answered, SignalServer
<1>9. CASE LeaveVrMode
  BY <1>9 DEF LeaveVrMode, Delete, AfterWarpThread
<1>10. CASE ResetTimeWarp
  BY <1>10 DEF ResetTimeWarp, Delete, AfterWarpThread
<1>11. CASE WaitForShutdown
  BY <1>11 DEF WaitForShutdown
<1>12. CASE WarpThreadStopped
  BY <1>12 DEF WarpThreadStopped, AfterWarpThread
<1>13. CASE ServerDeleted
  BY <1>13 DEF ServerDeleted, ServerFreed, NoRequest, NoResponse
<1>14. CASE Left
  BY <1>14 DEF Left, WarpDeleted
<1>15. CASE Reset
  BY <1>15 DEF Reset, WarpDeleted, Construct
<1>16. CASE NewServer /\ UNCHANGED warpVars
  BY <1>16 DEF NewServer, NoRequest, NoResponse
<1>17. CASE WaitForStart /\ UNCHANGED warpVars
  BY <1>17 DEF WaitForStart
<1>18. CASE WriteStopByte /\ UNCHANGED warpVars
  BY <1>18 DEF WriteStopByte
<1>19. CASE SetBadResponse /\ UNCHANGED warpVars
  BY <1>19 DEF SetBadResponse, BadResponse
<1>20. CASE SignalStop /\ UNCHANGED warpVars
  BY <1>20 DEF SignalStop, SignalServer
<1>21. CASE WaitForEnd /\ UNCHANGED warpVars
  BY <1>21 DEF WaitForEnd
<1>22. CASE WarpThreadInit
  BY <1>22 DEF WarpThreadInit
<1>23. CASE ShutdownReceived
  BY <1>23 DEF ShutdownReceived
<1>24. CASE ReadLastWarpTime
  BY <1>24 DEF ReadLastWarpTime
<1>25. CASE Watch
  BY <1>25 DEF Watch, Removes, Restores
<1>26. CASE WarpToScreen
  BY <1>26 DEF WarpToScreen
<1>27. CASE WarpThreadExits
  BY <1>27 DEF WarpThreadExits
<1>28. CASE TimePasses
  BY <1>28 DEF TimePasses, TypeOK, LifeTypeOK, Ages
<1>29. CASE ServerStarts /\ UNCHANGED warpVars
  BY <1>29 DEF ServerStarts, SignalVrThread
<1>30. CASE ServerEnds /\ UNCHANGED warpVars
  BY <1>30 DEF ServerEnds, SignalVrThread
<1>31. CASE vr' = vr /\ UNCHANGED warpVars
  BY <1>31
<1>32. CASE Dies
  BY <1>32 DEF Dies
<1>33. CASE EarlyWakeup
  BY <1>33 DEF EarlyWakeup
<1>34. CASE WarpThreadShutdown
  BY <1>34 DEF WarpThreadShutdown
<1>35. CASE EarlyAnswer /\ UNCHANGED warpVars
  BY <1>35 DEF EarlyAnswer
<1> QED
  BY <1>1, <1>2, <1>3, <1>4, <1>5, <1>6, <1>7, <1>8, <1>9, <1>10, <1>11, <1>12, <1>13,
     <1>14, <1>15, <1>16, <1>17, <1>18, <1>19, <1>20, <1>21, <1>22, <1>23, <1>24,
     <1>25, <1>26, <1>27, <1>28, <1>29, <1>30, <1>31, <1>32, <1>33, <1>34, <1>35 DEF Next, VrThread,
     VrThreadInServer, WarpThread, ServerThread, Poll, Accept, HangUp, Ask,
     WaitForResponse, ReadResponse, Exits, Sent

\* Requests and answers stay in step.
LEMMA ExchangeStep == IInv /\ [Next]_vars => ExchangeOK'
<1> SUFFICES ASSUME IInv, [Next]_vars PROVE ExchangeOK'
  OBVIOUS
<1> USE DEF IInv, ExchangeOK, Exits, Captured, NewRequest, ServerOK, TypeOK, ServerTypeOK, vars, serverVars, exchange, buffers, warpVars, watch, mode
<1> USE ServerAssumption
<1>1. CASE EnterVrMode
  BY <1>1 DEF EnterVrMode, Construct
<1>2. CASE StartWarpThread
  BY <1>2 DEF StartWarpThread, NewThread
<1>3. CASE WaitForWarpThread
  BY <1>3 DEF WaitForWarpThread
<1>4. CASE SynchronousStart
  BY <1>4 DEF SynchronousStart, Enabled
<1>5. CASE WarpThreadStarted
  BY <1>5 DEF WarpThreadStarted, Enabled
<1>6. CASE WarpSwap
  BY <1>6 DEF WarpSwap, EnterWarpSwap, NewRequest
<1>7. CASE Swapped
  BY <1>7 DEF Swapped, LeaveWarpSwap, ReadbackDone, CountedDown
<1>8. CASE Answered
  BY <1>8 DEF Answered, SignalServer
<1>9. CASE LeaveVrMode
  BY <1>9 DEF LeaveVrMode, Delete, AfterWarpThread
<1>10. CASE ResetTimeWarp
  BY <1>10 DEF ResetTimeWarp, Delete, AfterWarpThread
<1>11. CASE WaitForShutdown
  BY <1>11 DEF WaitForShutdown
<1>12. CASE WarpThreadStopped
  BY <1>12 DEF WarpThreadStopped, AfterWarpThread
<1>13. CASE ServerDeleted
  BY <1>13 DEF ServerDeleted, ServerFreed, NoRequest, NoResponse
<1>14. CASE Left
  BY <1>14 DEF Left, WarpDeleted
<1>15. CASE Reset
  BY <1>15 DEF Reset, WarpDeleted, Construct
<1>16. CASE NewServer /\ UNCHANGED warpVars
  BY <1>16 DEF NewServer, NoRequest, NoResponse
<1>17. CASE WaitForStart /\ UNCHANGED warpVars
  BY <1>17 DEF WaitForStart
<1>18. CASE WriteStopByte /\ UNCHANGED warpVars
  BY <1>18 DEF WriteStopByte
<1>19. CASE SetBadResponse /\ UNCHANGED warpVars
  BY <1>19 DEF SetBadResponse, BadResponse
<1>20. CASE SignalStop /\ UNCHANGED warpVars
  BY <1>20 DEF SignalStop, SignalServer
<1>21. CASE WaitForEnd /\ UNCHANGED warpVars
  BY <1>21 DEF WaitForEnd
<1>22. CASE WarpThreadInit
  BY <1>22 DEF WarpThreadInit
<1>23. CASE ShutdownReceived
  BY <1>23 DEF ShutdownReceived
<1>24. CASE ReadLastWarpTime
  BY <1>24 DEF ReadLastWarpTime
<1>25. CASE Watch
  BY <1>25 DEF Watch, Removes, Restores
<1>26. CASE WarpToScreen
  BY <1>26 DEF WarpToScreen
<1>27. CASE WarpThreadExits
  BY <1>27 DEF WarpThreadExits
<1>28. CASE TimePasses
  BY <1>28 DEF TimePasses
<1>29. CASE ServerStarts /\ UNCHANGED warpVars
  BY <1>29 DEF ServerStarts, SignalVrThread
<1>30. CASE Poll /\ UNCHANGED warpVars
  BY <1>30 DEF Poll
<1>31. CASE Accept /\ UNCHANGED warpVars
  BY <1>31 DEF Accept
<1>32. CASE HangUp /\ UNCHANGED warpVars
  BY <1>32 DEF HangUp
<1>33. ASSUME NEW r \in Resolutions, Ask(r), UNCHANGED warpVars PROVE ExchangeOK'
  BY <1>33 DEF Ask
<1>34. CASE WaitForResponse /\ UNCHANGED warpVars
  BY <1>34 DEF WaitForResponse
<1>35. CASE ReadResponse /\ UNCHANGED warpVars
  BY <1>35 DEF ReadResponse, Exits
<1>36. CASE Sent /\ UNCHANGED warpVars
  BY <1>36 DEF Sent
<1>37. CASE ServerEnds /\ UNCHANGED warpVars
  BY <1>37 DEF ServerEnds, SignalVrThread
<1>38. CASE UNCHANGED vars
  BY <1>38
<1>39. CASE Dies
  BY <1>39 DEF Dies
<1>40. CASE EarlyWakeup
  BY <1>40 DEF EarlyWakeup
<1>41. CASE WarpThreadShutdown
  BY <1>41 DEF WarpThreadShutdown
<1>42. CASE EarlyAnswer /\ UNCHANGED warpVars
  BY <1>42 DEF EarlyAnswer
<1> QED
  BY <1>1, <1>2, <1>3, <1>4, <1>5, <1>6, <1>7, <1>8, <1>9, <1>10, <1>11, <1>12, <1>13,
     <1>14, <1>15, <1>16, <1>17, <1>18, <1>19, <1>20, <1>21, <1>22, <1>23, <1>24,
     <1>25, <1>26, <1>27, <1>28, <1>29, <1>30, <1>31, <1>32, <1>33, <1>34, <1>35,
     <1>36, <1>37, <1>38, <1>39, <1>40, <1>41, <1>42 DEF Next, VrThread, VrThreadInServer, WarpThread,
     ServerThread

-----------------------------------------------------------------------------

\* No TimeWarp has been made, and the image server rests.
LEMMA Initially == Init => IInv
<1> SUFFICES ASSUME Init PROVE IInv
  OBVIOUS
<1>1. ServerTypeOK
  <2>1. request \in [sequence : 0..RequestBound, resolution : Resolutions \cup {0}]
    BY ServerAssumption DEF Init, ServerInit, NoRequest
  <2>2. response \in [sequence : -1..RequestBound, resolution : Resolutions \cup {-1, 0}]
    BY ServerAssumption DEF Init, ServerInit, NoResponse
  <2>3. /\ server = "none" /\ captured = 0 /\ resolution = 0 /\ pixels = 0 /\ countdown = 0
        /\ {connected, stopByte, mapped, early} \subseteq BOOLEAN
    BY DEF Init, ServerInit
  <2> QED
    BY <2>1, <2>2, <2>3, ServerAssumption DEF ServerTypeOK
<1>2. LifeTypeOK
  <2>1. lives \in 0..LifeBound
    BY LifeAssumption DEF Init
  <2> QED
    BY <2>1 DEF Init, LifeTypeOK, Ages
<1>3. WarpOK /\ ServerOK /\ PriorityOK
  BY DEF Init, ServerInit, WarpOK, ServerOK, Stopped, PriorityOK, WatchdogFollows, Leaving, Constructing, Swapping
<1>4. ExchangeOK
  BY DEF Init, ServerInit, ExchangeOK, Exits, NewRequest, NoRequest, NoResponse
<1> QED
  BY <1>1, <1>2, <1>3, <1>4 DEF IInv, TypeOK

\* The inductive invariant: where each thread is, who has taken SCHED_FIFO, and
\* how far a request has come, in every reachable state.
THEOREM Invariance == Spec => []IInv
<1>1. IInv /\ [Next]_vars => IInv'
  BY LifeTypeStep, ServerTypeStep, WarpStep, ServerStep, PriorityStep, ExchangeStep DEF IInv, TypeOK
<1> QED
  BY Initially, <1>1, PTL DEF Spec

\* The variables stay within their types and bounds.
THEOREM TypeCorrect == Spec => []TypeOK
<1>1. IInv => TypeOK
  BY DEF IInv
<1> QED
  BY Invariance, <1>1, PTL

\* A VR thread that is stuck loses SCHED_FIFO, one that swaps gets it back
\* (TimeWarp.cpp:561-597).
THEOREM Watched == Spec => []WatchdogFollows
<1>1. IInv => WatchdogFollows
  BY DEF IInv, PriorityOK
<1> QED
  BY Invariance, <1>1, PTL

\* While no wait of the server ended without a signal, the image it sends is
\* mapped, of the last request, in its resolution (ImageServer.cpp:405-412).
THEOREM AnswersMatch == Spec => []SignalledSendIsRight
<1>1. IInv => SignalledSendIsRight
  BY DEF IInv, ExchangeOK, Captured, SignalledSendIsRight, SendsWhatWasAsked
<1> QED
  BY Invariance, <1>1, PTL

=============================================================================
