----------------------------- MODULE TimeWarpProof -----------------------------
(***************************************************************************)
(* Proofs about module TimeWarp: the inductive invariant IInv and what     *)
(* follows from it for every number of buffers and vsyncs, with spurious   *)
(* wakeups or without.                                                     *)
(*                                                                         *)
(* The argument.  Let n be the newest published buffer and k the one the   *)
(* warp thread last settled on.  WarpSwap(n) returns only when k >= n - 1, *)
(* so n <= k + 2 always and n <= k + 1 while a slot is being rewritten     *)
(* (Pace).  A buffer the warp thread settled on once it settles on again:  *)
(* its slot is untouched, its fence stays signaled and the vsync count     *)
(* grows (Settled), so a search never goes below k (Search).  It therefore *)
(* examines only buffers k .. k + 2 with k + 1 >= n, and the slot under    *)
(* construction belongs to buffer n + 1 <= k + 2, whose previous tenant is *)
(* n - 3 < k: four slots are enough.                                       *)
(***************************************************************************)
EXTENDS TimeWarp, TLAPS

\* A bad pose stops the search of WarpToScreen but not of WarpToScreenSliced, so
\* an application that mixes bad poses with sliced warps can make the search go
\* back behind the buffer it settled on.
ASSUME PoseAssumption == "bad" \in Poses => "sliced" \notin WarpModes

-----------------------------------------------------------------------------

k == swapVsync.eyeBufferCount

Filling == vr \in {"filled", "fenced"}
Preparing == vr \in {"render", "filled", "fenced"}
Waiting == vr \in {"lock", "locked", "waiting", "woken"}

\* The newest buffer in the ring, and the newest the VR thread is working on.
Newest == eyeBufferCount + (IF Filling THEN 1 ELSE 0)
Upcoming == eyeBufferCount + (IF Preparing THEN 1 ELSE 0)

\* The buffers that are in the ring.
Live == {m \in 1..Newest : m > Newest - MaxWarpSources}

Source(m) == warpSources[Slot(m)]

\* The bound on buffers is never exceeded by a swap that is under way.
Bounds ==
  /\ blackLeft > 0 => vr # "render"
  /\ Preparing => eyeBufferCount < BufferBound
  /\ blackLeft > 0 /\ ~ Waiting => eyeBufferCount + blackLeft <= BufferBound
  /\ blackLeft > 0 => eyeBufferCount + blackLeft <= BufferBound + 1
  /\ Waiting => eyeBufferCount > 0
  /\ swapCount <= Upcoming
  /\ gpuDone <= FencesCreated

\* Every slot holds the newest buffer that maps to it.
Slots ==
  /\ \A m \in Live : /\ Source(m).num = m
                     /\ Source(m).fence = m \/ (vr = "filled" /\ m = Newest)
  /\ \A s \in 0..3 : warpSources[s].num # 0 => /\ Slot(warpSources[s].num) = s
                                               /\ warpSources[s].num <= Newest

\* Only poses and modes the application uses appear.
Kinds ==
  /\ \A s \in 0..3 : warpSources[s].mode = "sliced" => "sliced" \in WarpModes
  /\ \A s \in 0..3 : warpSources[s].num # 0 /\ warpSources[s].pose = "bad" => "bad" \in Poses
  /\ sliced => "sliced" \in WarpModes

\* The VR thread is at most two buffers ahead, one while it fills a slot.
Pace ==
  /\ k <= eyeBufferCount
  /\ eyeBufferCount <= k + 2
  /\ ~ Waiting => eyeBufferCount <= k + 1

\* A search that examines buffer m ends there, now and from now on.
Settled(m) ==
  /\ Source(m).minVsync <= vsync
  /\ Source(m).pose = "good" => m <= gpuDone

Search ==
  /\ k > 0 => Settled(k)
  /\ warp = "examine" => num >= k /\ num <= latest /\ latest <= eyeBufferCount
  /\ warp = "report" => /\ num >= k /\ num <= eyeBufferCount
                        /\ num > 0 => Settled(num)

\* The copy the warp thread draws from is the source it settled on.
Latched ==
  /\ warp \in {"loop", "latch", "examine"} => ~ HasTexture
  /\ warp \in {"left", "right"} => HasTexture
  /\ warp = "report" /\ HasTexture => num > 0 /\ num <= gpuDone /\ cur = Source(num)
  /\ warp \in {"signal", "left", "right"} /\ HasTexture
       => k > 0 /\ k <= gpuDone /\ cur = Source(k)

\* Frames are numbered upwards along the ring, and no number is left out.
Frames ==
  \A m \in Live : Source(m).frame # 0 =>
    /\ Source(m).frame <= swapCount
    /\ vr = "render" => Source(m).frame < swapCount
    /\ swapCount <= Source(m).frame + (Upcoming - m)
    /\ \A o \in Live : m < o /\ Source(o).frame # 0 => Source(m).frame < Source(o).frame

\* The newest buffer whose WarpSwap has returned.
Returned == IF Waiting THEN eyeBufferCount - 1 ELSE eyeBufferCount

\* The VR thread's vsync is one it was told, or one the newest buffer it returned
\* for had to wait beyond.
Clock ==
  /\ swapVsync.vsyncCount <= vsync
  /\ k > 0 => Source(k).minVsync <= swapVsync.vsyncCount
  /\ \/ lastSwapVsyncCount <= swapVsync.vsyncCount
     \/ Returned > 0 /\ lastSwapVsyncCount <= Source(Returned).minVsync
  /\ Filling \/ Waiting => /\ minimumVsyncs \in MinVsyncChoices
                           /\ Source(Newest).minVsync = Clip(MinimumVsync(minimumVsyncs))

IInv == /\ TypeOK /\ Bounds /\ Slots /\ Kinds /\ Pace /\ Search
        /\ Latched /\ Frames /\ Clock /\ PacedFromTheClock

-----------------------------------------------------------------------------

\* Clipping keeps vsync counts within their bound.
LEMMA ClipType == ASSUME NEW v \in Nat PROVE Clip(v) \in 0..VsyncBound /\ Clip(v) <= v
  BY ConstantsAssumption DEF Clip

\* The ring has slots 0 to 3.
LEMMA SlotType == ASSUME NEW m \in Nat PROVE Slot(m) \in 0..3
  BY DEF Slot, MaxWarpSources

\* Four buffers in a row are in four different slots.
LEMMA SlotDistinct == ASSUME NEW m \in Nat, NEW n \in Nat, m < n, n < m + 4 PROVE Slot(m) # Slot(n)
  BY DEF Slot, MaxWarpSources

\* Three frames in a row are rendered to three different pairs of textures.
LEMMA EyeSetDistinct ==
  ASSUME NEW f \in Nat, NEW g \in Nat, f < g, g < f + 3
  PROVE  EyeSet(f) # EyeSet(g)
  BY DEF EyeSet, MaxEyeSets

\* What TypeOK says about the numbers.
LEMMA Numbers ==
  ASSUME TypeOK
  PROVE  /\ BufferBound \in Nat /\ VsyncBound \in Nat
         /\ eyeBufferCount \in Nat /\ k \in Nat /\ swapVsync.vsyncCount \in Nat
         /\ lastSwapVsyncCount \in 0..VsyncBound /\ swapCount \in Nat /\ blackLeft \in 0..3
         /\ vsync \in 0..VsyncBound /\ latest \in Nat /\ num \in Nat /\ gpuDone \in Nat
         /\ \A s \in 0..3 : warpSources[s] \in WarpSource /\ warpSources[s].num \in Nat
         /\ \A m \in Nat : /\ Source(m).num \in Nat /\ Source(m).minVsync \in 0..VsyncBound
                           /\ Source(m).fence \in Nat /\ Source(m).frame \in Nat
                           /\ Source(m) \in WarpSource
  BY ConstantsAssumption, SlotType DEF TypeOK, WarpSource, Source, MaxWarpSources, BlackSwaps, k

\* WarpSwap may rewrite the slot after the newest buffer: all that anybody still
\* looks at is in the other three.
LEMMA FillKeeps ==
  ASSUME IInv, NEW pose \in Poses \cup {"good"}, NEW mode \in WarpModes \cup {"whole"},
         NEW frame, FillSource(pose, mode, frame),
         vr \in {"app", "render"}, eyeBufferCount < BufferBound,
         (frame = 0 /\ vr = "app") \/ (frame = swapCount /\ vr = "render"),
         blackLeft' \in 0..BlackSwaps,
         blackLeft' > 0 => frame = 0 /\ eyeBufferCount + blackLeft' <= BufferBound
  PROVE  IInv'
<1> DEFINE n == eyeBufferCount
<1> USE ConstantsAssumption
<1>1. TypeOK
  BY DEF IInv
<1>2. PICK min \in MinVsyncChoices :
        /\ minimumVsyncs' = min
        /\ warpSources' = [warpSources EXCEPT ![NextSlot] =
             [num |-> eyeBufferCount + 1, minVsync |-> Clip(MinimumVsync(min)),
              fence |-> @.fence, pose |-> pose, mode |-> mode, frame |-> frame]]
  BY DEF FillSource
<1>3. /\ vr' = "filled"
      /\ UNCHANGED <<eyeBufferCount, lastSwapVsyncCount, swapCount, warp, gpuDone>>
      /\ UNCHANGED <<swapVsync, vsync, sliced, latest, num, cur>>
  BY DEF FillSource, warpVars
<1>4. /\ Newest = n /\ Newest' = n + 1 /\ Upcoming' = n + 1
      /\ ~ Filling /\ Filling' /\ ~ Waiting /\ ~ Waiting' /\ Preparing'
      /\ Live = {m \in 1..n : m > n - 4} /\ Live' = {m \in 1..n + 1 : m > n - 3}
  BY <1>1, <1>3 DEF TypeOK, Newest, Upcoming, Filling, Preparing, Waiting, Live, MaxWarpSources
<1>5. Slot(n + 1) \in 0..3 /\ NextSlot = Slot(n + 1)
  BY <1>1, SlotType DEF TypeOK, NextSlot
<1>6. warpSources'[Slot(n + 1)] = [num |-> n + 1, minVsync |-> Clip(MinimumVsync(min)),
                       fence |-> warpSources[NextSlot].fence, pose |-> pose,
                       mode |-> mode, frame |-> frame]
  BY <1>1, <1>2, <1>3, <1>5 DEF TypeOK, MaxWarpSources
<1>7. \A s \in 0..3 : s # NextSlot => warpSources'[s] = warpSources[s]
  BY <1>1, <1>2 DEF TypeOK, MaxWarpSources
<1>8. \A m \in Nat : m <= n /\ m > n - 3 => warpSources'[Slot(m)] = warpSources[Slot(m)]
  BY <1>1, <1>5, <1>7, SlotType, SlotDistinct DEF TypeOK
<1>9. Clip(MinimumVsync(min)) \in 0..VsyncBound /\ MinimumVsync(min) \in Nat
  <2>1. MinimumVsync(min) \in Nat
    BY <1>1 DEF TypeOK, MinimumVsync
  <2> QED
    BY <2>1, ClipType
<1>10. TypeOK'
  <2>1. warpSources'[Slot(n + 1)] \in WarpSource
    BY <1>1, <1>5, <1>6, <1>9
    DEF IInv, TypeOK, Bounds, Upcoming, Preparing, WarpSource, MaxWarpSources
  <2>2. warpSources' \in [0..3 -> WarpSource]
    BY <1>1, <1>2, <1>3, <1>5, <2>1, <1>7 DEF TypeOK, MaxWarpSources
  <2> QED
    BY <1>1, <1>2, <1>3, <2>2 DEF TypeOK, VrStates, MaxWarpSources
<1>11. Bounds'
  <2>1. swapCount <= n + 1 /\ gpuDone <= n
    BY <1>1, <1>4 DEF IInv, TypeOK, Bounds, Upcoming, FencesCreated
  <2>2. swapCount' <= Upcoming' /\ gpuDone' <= FencesCreated'
    BY <1>3, <1>4, <2>1 DEF FencesCreated
  <2>3. blackLeft' > 0 => /\ eyeBufferCount' + blackLeft' <= BufferBound
                          /\ eyeBufferCount' + blackLeft' <= BufferBound + 1
    BY <1>1, <1>3, Numbers DEF BlackSwaps
  <2>4. eyeBufferCount' < BufferBound /\ vr' # "render" /\ ~ Waiting'
    BY <1>3 DEF Waiting
  <2> QED
    BY <2>2, <2>3, <2>4 DEF Bounds
<1>12. Slots'
  <2>1. \A m \in Live' : LET s == warpSources'[Slot(m)] IN s.num = m /\ (s.fence = m \/ m = n + 1)
    <3>1. ASSUME NEW m \in Live', m # n + 1
          PROVE  m \in Live /\ m \in Nat /\ m <= n /\ m > n - 3
      BY <1>1, <1>4, <3>1 DEF TypeOK
    <3> QED
      BY <1>4, <1>6, <1>8, <3>1 DEF IInv, Slots, Filling, Source
  <2>2. \A s \in 0..3 : warpSources'[s].num # 0 =>
          Slot(warpSources'[s].num) = s /\ warpSources'[s].num <= n + 1
    BY <1>1, <1>3, <1>4, <1>5, <1>6, <1>7 DEF IInv, TypeOK, Slots, WarpSource, MaxWarpSources
  <2> QED
    BY <1>3, <1>4, <2>1, <2>2 DEF Slots, Source
<1>13. Kinds'
  <2>1. ASSUME NEW s \in 0..3
        PROVE  /\ warpSources'[s].mode = "sliced" => "sliced" \in WarpModes
               /\ warpSources'[s].num # 0 /\ warpSources'[s].pose = "bad" => "bad" \in Poses
    <3>1. CASE s = NextSlot
      BY <1>5, <1>6, <3>1
    <3>2. CASE s # NextSlot
      BY <1>7, <3>2 DEF IInv, Kinds
    <3> QED
      BY <3>1, <3>2
  <2>2. sliced' => "sliced" \in WarpModes
    BY <1>3 DEF IInv, Kinds
  <2> QED
    BY <2>1, <2>2 DEF Kinds
<1>14. Pace' /\ PacedFromTheClock'
  BY <1>3, <1>4 DEF IInv, Pace, k, PacedFromTheClock
<1>15. k' = k /\ k \in Nat /\ k <= n /\ n <= k + 1
  BY <1>1, <1>3, <1>4 DEF IInv, TypeOK, Pace, k
<1>16. Search'
  <2>1. \A m \in Nat : m <= n /\ m > n - 3 /\ Settled(m) => Settled(m)'
    BY <1>3, <1>8 DEF Settled, Source
  <2> QED
    BY <1>1, <1>3, <1>15, <2>1 DEF IInv, TypeOK, Search
<1>17. Latched'
  BY <1>1, <1>3, <1>8, <1>15 DEF IInv, TypeOK, Latched, HasTexture, Search, Source, k
<1>18. Frames'
  <2>1. Upcoming = IF vr = "render" THEN n + 1 ELSE n
    BY <1>1, Numbers DEF Upcoming, Preparing
  <2>2. ASSUME NEW m \in Live', m # n + 1
        PROVE  m \in Live /\ m <= n /\ Source(m)' = Source(m)
    BY <1>1, <1>3, <1>4, <1>8, <2>2 DEF TypeOK, Source
  <2>3. Source(n + 1)'.frame = frame
    BY <1>3, <1>6 DEF Source
  <2>4. ASSUME NEW m \in Live', Source(m)'.frame # 0
        PROVE  /\ Source(m)'.frame <= swapCount
               /\ swapCount <= Source(m)'.frame + (n + 1 - m)
               /\ m # n + 1 /\ frame # 0 => Source(m)'.frame < frame
    <3>1. CASE m = n + 1
      BY <1>1, <1>6, <2>4, <3>1, Numbers DEF Source
    <3>2. CASE m # n + 1
      BY <1>1, <1>4, <2>1, <2>2, <2>4, <3>2, Numbers DEF IInv, Frames, Live
    <3> QED
      BY <3>1, <3>2
  <2>5. ASSUME NEW m \in Live', NEW o \in Live', m < o,
               Source(m)'.frame # 0, Source(o)'.frame # 0
        PROVE  Source(m)'.frame < Source(o)'.frame
    <3>1. m # n + 1
      BY <1>1, <1>4, <2>5 DEF TypeOK
    <3>2. CASE o = n + 1
      BY <1>6, <2>4, <2>5, <3>1, <3>2 DEF Source
    <3>3. CASE o # n + 1
      BY <2>2, <2>5, <3>1, <3>3 DEF IInv, Frames
    <3> QED
      BY <3>2, <3>3
  <2>6. swapCount' = swapCount /\ vr' # "render" /\ Upcoming' = n + 1
    BY <1>3, <1>4
  <2>7. ASSUME NEW m \in Live', Source(m)'.frame # 0
        PROVE  /\ Source(m)'.frame <= swapCount'
               /\ vr' = "render" => Source(m)'.frame < swapCount'
               /\ swapCount' <= Source(m)'.frame + (Upcoming' - m)
               /\ \A o \in Live' : m < o /\ Source(o)'.frame # 0
                                    => Source(m)'.frame < Source(o)'.frame
    <3>1. Source(m)'.frame <= swapCount' /\ swapCount' <= Source(m)'.frame + (Upcoming' - m)
      BY <1>1, <1>4, <2>4, <2>6, <2>7, Numbers DEF Source
    <3>2. ASSUME NEW o \in Live', m < o, Source(o)'.frame # 0
          PROVE  Source(m)'.frame < Source(o)'.frame
      BY <2>5, <2>7, <3>2 DEF Source
    <3> QED
      BY <2>6, <3>1, <3>2 DEF Source
  <2> QED
    BY <2>7 DEF Frames, Source
<1>19. Clock'
  <2>1. k > 0 => warpSources'[Slot(k)] = warpSources[Slot(k)]
    BY <1>1, <1>8, <1>15 DEF TypeOK
  <2>2. n > 0 => warpSources'[Slot(n)] = warpSources[Slot(n)]
    BY <1>1, <1>8 DEF TypeOK
  <2>3. Returned = n /\ Returned' = n
    BY <1>3, <1>4 DEF Returned
  <2>4. warpSources'[Slot(n + 1)].minVsync = Clip(MinimumVsync(minimumVsyncs))'
    BY <1>2, <1>3, <1>4, <1>6 DEF MinimumVsync, Clip
  <2> QED
    BY <1>1, <1>2, <1>3, <1>4, <1>15, <2>1, <2>2, <2>3, <2>4 DEF IInv, TypeOK, Clock, Source
<1> QED
  BY <1>10, <1>11, <1>12, <1>13, <1>14, <1>16, <1>17, <1>18, <1>19 DEF IInv

\* The three callers of WarpSwap fill a slot only when there is room.
LEMMA SwapFrameKeeps == IInv /\ SwapFrame => IInv'
  BY FillKeeps, ConstantsAssumption DEF IInv, TypeOK, Bounds, Preparing, SwapFrame, BlackSwaps

LEMMA StartBlackKeeps == IInv /\ StartBlack => IInv'
<1> SUFFICES ASSUME IInv, StartBlack PROVE IInv'
  OBVIOUS
<1>1. FillSource("good", "whole", 0) /\ vr = "app" /\ blackLeft' = BlackSwaps
  BY DEF StartBlack
<1>2. eyeBufferCount < BufferBound /\ eyeBufferCount + blackLeft' <= BufferBound
  BY <1>1, ConstantsAssumption DEF IInv, TypeOK, StartBlack, BlackSwaps
<1>3. blackLeft' \in 0..BlackSwaps
  BY <1>1 DEF BlackSwaps
<1> QED
  BY <1>1, <1>2, <1>3, FillKeeps

LEMMA PushBlackAgainKeeps == IInv /\ PushBlackAgain => IInv'
<1> SUFFICES ASSUME IInv, PushBlackAgain PROVE IInv'
  OBVIOUS
<1>1. FillSource("good", "whole", 0) /\ vr = "app" /\ blackLeft' = blackLeft /\ blackLeft > 0
  BY DEF PushBlackAgain
<1>2. eyeBufferCount < BufferBound /\ eyeBufferCount + blackLeft' <= BufferBound
  BY <1>1, ConstantsAssumption DEF IInv, TypeOK, Bounds, Waiting, BlackSwaps
<1>3. blackLeft' \in 0..BlackSwaps
  BY <1>1 DEF IInv, TypeOK
<1> QED
  BY <1>1, <1>2, <1>3, FillKeeps

\* The ring starts with empty sources.
LEMMA EmptyType ==
  /\ EmptySource \in WarpSource
  /\ [s \in 0..MaxWarpSources - 1 |-> EmptySource] \in [0..MaxWarpSources - 1 -> WarpSource]
  BY ConstantsAssumption DEF EmptySource, WarpSource

\* The invariant holds when the warp thread is created.
LEMMA InitKeeps == Init => IInv
<1> SUFFICES ASSUME Init PROVE IInv
  OBVIOUS
<1> USE ConstantsAssumption DEF Init
<1>1. TypeOK
  <2>1. warpSources \in [0..MaxWarpSources - 1 -> WarpSource] /\ cur \in WarpSource
    BY EmptyType
  <2>2. swapVsync \in [vsyncCount : 0..VsyncBound, eyeBufferCount : 0..BufferBound]
    OBVIOUS
  <2>3. /\ eyeBufferCount \in 0..BufferBound /\ lastSwapVsyncCount \in 0..VsyncBound
        /\ swapCount \in 0..BufferBound /\ blackLeft \in 0..3 /\ vsync \in 0..VsyncBound
        /\ latest \in 0..BufferBound /\ num \in 0..BufferBound /\ gpuDone \in 0..BufferBound
    OBVIOUS
  <2> QED
    BY <2>1, <2>2, <2>3, Zenon DEF TypeOK, VrStates, WarpStates, BlackSwaps
<1>2. Newest = 0 /\ Upcoming = 0 /\ Live = {} /\ ~ Waiting /\ ~ Preparing /\ k = 0
  BY DEF Newest, Upcoming, Live, Filling, Preparing, Waiting, k
<1>3. Bounds /\ Slots /\ Frames
  BY <1>2 DEF Bounds, FencesCreated, Slots, Frames, EmptySource, MaxWarpSources
<1>4. Kinds /\ Pace /\ Search /\ Latched
  BY <1>2 DEF Kinds, Pace, Search, Latched, HasTexture, EmptySource, MaxWarpSources
<1>5. Clock /\ PacedFromTheClock
  BY <1>2 DEF Clock, Filling, PacedFromTheClock
<1> QED
  BY <1>1, <1>3, <1>4, <1>5 DEF IInv

\* A step that leaves everything but one thread's place alone.
LEMMA BeginFrameKeeps == IInv /\ BeginFrame => IInv'
<1> SUFFICES ASSUME IInv, BeginFrame PROVE IInv'
  OBVIOUS
<1> USE ConstantsAssumption DEF BeginFrame, warpVars
<1>1. TypeOK
  BY DEF IInv
<1>2. swapCount <= eyeBufferCount
  BY <1>1, Numbers DEF IInv, Bounds, Upcoming, Preparing
<1>3. /\ ~ Filling /\ ~ Filling' /\ ~ Waiting /\ ~ Waiting' /\ ~ Preparing /\ Preparing'
      /\ Live' = Live /\ Upcoming = eyeBufferCount /\ Upcoming' = eyeBufferCount + 1
  BY <1>1, Numbers DEF Live, Newest, Filling, Waiting, Preparing, Upcoming
<1>4. TypeOK'
  BY <1>1, <1>2 DEF TypeOK, VrStates
<1>5. Bounds' /\ Pace'
  BY <1>1, <1>2, <1>3, Numbers DEF IInv, Bounds, FencesCreated, Pace, k
<1>6. Slots' /\ Kinds' /\ Search' /\ Latched'
  BY <1>3 DEF IInv, Slots, Kinds, Search, Settled, Latched, HasTexture, Source, Newest, k
<1>7. Frames'
  BY <1>1, <1>3, Numbers DEF IInv, Frames, Source, Live
<1>8. Clock' /\ PacedFromTheClock'
  BY <1>3 DEF IInv, Clock, Source, Returned, PacedFromTheClock, k
<1> QED
  BY <1>4, <1>5, <1>6, <1>7, <1>8 DEF IInv

\* A new fence disturbs nothing but the slot of the buffer being prepared.
LEMMA CreateFenceKeeps == IInv /\ CreateFence => IInv'
<1> SUFFICES ASSUME IInv, CreateFence PROVE IInv'
  OBVIOUS
<1> DEFINE n == eyeBufferCount
<1> USE ConstantsAssumption DEF CreateFence, warpVars
<1>1. TypeOK
  BY DEF IInv
<1>2. n < BufferBound /\ n \in Nat /\ NextSlot \in 0..3 /\ NextSlot = Slot(n + 1)
  BY <1>1, SlotType, Numbers DEF IInv, Bounds, Preparing, NextSlot
<1>3. /\ Filling /\ Filling' /\ ~ Waiting /\ ~ Waiting' /\ Preparing /\ Preparing'
      /\ Newest = n + 1 /\ Newest' = n + 1 /\ Live' = Live /\ Upcoming' = Upcoming
  BY DEF Live, Newest, Filling, Waiting, Preparing, Upcoming
<1>4. \A s \in 0..3 : s # NextSlot => warpSources'[s] = warpSources[s]
  BY <1>1 DEF TypeOK, MaxWarpSources
<1>5. warpSources'[NextSlot] = [warpSources[NextSlot] EXCEPT !.fence = n + 1]
  BY <1>1, <1>2 DEF TypeOK, MaxWarpSources
<1>6. \A s \in 0..3 : /\ warpSources'[s].num = warpSources[s].num
                      /\ warpSources'[s].minVsync = warpSources[s].minVsync
                      /\ warpSources'[s].pose = warpSources[s].pose
                      /\ warpSources'[s].mode = warpSources[s].mode
                      /\ warpSources'[s].frame = warpSources[s].frame
  BY <1>1, <1>4, <1>5, Numbers DEF WarpSource
<1>7. TypeOK'
  <2>1. warpSources' \in [0..3 -> WarpSource]
    BY <1>1, <1>2 DEF TypeOK, WarpSource, MaxWarpSources
  <2> QED
    BY <1>1, <2>1 DEF TypeOK, VrStates, MaxWarpSources
<1>8. Bounds' /\ Pace' /\ PacedFromTheClock'
  BY <1>1, <1>2, <1>3, Numbers DEF IInv, Bounds, FencesCreated, Pace, PacedFromTheClock, k
<1>9. \A m \in Nat : m <= n /\ m > n - 3 =>
        Slot(m) \in 0..3 /\ warpSources'[Slot(m)] = warpSources[Slot(m)]
  BY <1>2, <1>4, SlotType, SlotDistinct
<1>10. Slots'
  <2>1. warpSources[NextSlot].num = n + 1
    BY <1>2, <1>3 DEF IInv, Slots, Live, Source, MaxWarpSources
  <2>2. ASSUME NEW m \in Live, m # n + 1
        PROVE  /\ m \in Nat /\ m <= n /\ m > n - 3
               /\ warpSources[Slot(m)].num = m /\ warpSources[Slot(m)].fence = m
    BY <1>2, <1>3, <2>2 DEF IInv, Slots, Live, Source, MaxWarpSources
  <2> QED
    <3>1. \A m \in Live : warpSources'[Slot(m)].num = m /\ warpSources'[Slot(m)].fence = m
      BY <1>2, <1>5, <1>6, <1>9, <2>1, <2>2, Numbers, <1>1 DEF WarpSource
    <3>2. \A s \in 0..3 : warpSources'[s].num # 0 =>
            Slot(warpSources'[s].num) = s /\ warpSources'[s].num <= n + 1
      BY <1>3, <1>6 DEF IInv, Slots
    <3> QED
      BY <1>3, <3>1, <3>2 DEF Slots, Source
<1>11. Kinds'
  BY <1>6 DEF IInv, Kinds
<1>12. k \in Nat /\ k <= n /\ n <= k + 1
  BY <1>1, <1>3, Numbers DEF IInv, Pace
<1>13. Search' /\ Latched'
  BY <1>1, <1>2, <1>9, <1>12, Numbers DEF IInv, Search, Settled, Latched, HasTexture, Source, k
<1>14. Frames'
  BY <1>3, <1>6, SlotType DEF IInv, Frames, Live, Source
<1>15. Clock'
  BY <1>1, <1>2, <1>3, <1>6, <1>12, SlotType, Numbers
  DEF IInv, Clock, Returned, Source, k, MinimumVsync, Clip
<1> QED
  BY <1>7, <1>8, <1>10, <1>11, <1>13, <1>14, <1>15 DEF IInv

\* Publishing moves the buffer from prepared to newest and the ring stays as it is.
LEMMA PublishKeeps == IInv /\ Publish => IInv'
<1> SUFFICES ASSUME IInv, Publish PROVE IInv'
  OBVIOUS
<1> DEFINE n == eyeBufferCount
<1> USE ConstantsAssumption DEF Publish, warpVars
<1>1. TypeOK
  BY DEF IInv
<1>2. n < BufferBound /\ n \in Nat
  BY <1>1, Numbers DEF IInv, Bounds, Preparing
<1>3. /\ Filling /\ ~ Filling' /\ ~ Waiting /\ Waiting' /\ ~ Preparing'
      /\ Newest = n + 1 /\ Newest' = n + 1 /\ Live' = Live
      /\ Upcoming = n + 1 /\ Upcoming' = n + 1
  BY <1>2 DEF Live, Newest, Filling, Waiting, Preparing, Upcoming
<1>4. TypeOK'
  BY <1>1, <1>2 DEF TypeOK, VrStates
<1>5. Bounds' /\ Pace' /\ PacedFromTheClock'
  BY <1>1, <1>2, <1>3, Numbers DEF IInv, Bounds, FencesCreated, Pace, PacedFromTheClock, k
<1>6. Slots' /\ Kinds' /\ Frames'
  BY <1>3 DEF IInv, Slots, Kinds, Frames, Source
<1>7. Search' /\ Latched'
  BY <1>1, <1>2, Numbers DEF IInv, Search, Settled, Latched, HasTexture, Source, k
<1>8. Clock'
  BY <1>1, <1>2, <1>3, Numbers DEF IInv, Clock, Returned, Source, k, MinimumVsync, Clip
<1> QED
  BY <1>4, <1>5, <1>6, <1>7, <1>8 DEF IInv

\* The mutex and the condition: the VR thread moves within WarpSwap's wait loop.
LEMMA WaitLoopKeeps ==
  ASSUME IInv, Waiting, Waiting', UNCHANGED <<vrVars, warpVars, warp, gpuDone>>
  PROVE  IInv'
<1> USE DEF vrVars, warpVars, Waiting
<1>1. ~ Filling /\ ~ Filling' /\ ~ Preparing /\ ~ Preparing' /\ ~ vr = "render" /\ ~ vr' = "render"
  BY DEF Filling, Preparing
<1>2. Newest' = Newest /\ Live' = Live /\ Upcoming' = Upcoming
  BY <1>1 DEF Newest, Live, Upcoming
<1>3. TypeOK' /\ Bounds' /\ Pace' /\ PacedFromTheClock'
  BY <1>1, <1>2 DEF IInv, TypeOK, Bounds, FencesCreated, Pace, PacedFromTheClock, k, VrStates
<1>4. Slots' /\ Kinds' /\ Frames' /\ Search' /\ Latched'
  BY <1>1, <1>2 DEF IInv, Slots, Kinds, Frames, Search, Settled, Latched, HasTexture, Source, k
<1>5. Clock'
  BY <1>1, <1>2 DEF IInv, Clock, Returned, Source, k, MinimumVsync, Clip
<1> QED
  BY <1>3, <1>4, <1>5 DEF IInv

\* WarpSwap returns only for a buffer whose predecessor is latched, and the vsync
\* count it is paced from has been reached by then.
LEMMA SwapReturnsKeeps == IInv /\ SwapReturns => IInv'
<1> SUFFICES ASSUME IInv, SwapReturns PROVE IInv'
  OBVIOUS
<1> DEFINE n == eyeBufferCount
<1> DEFINE v == swapVsync.vsyncCount
<1> USE ConstantsAssumption DEF SwapReturns, warpVars
<1>1. TypeOK
  BY DEF IInv
<1>2. n \in Nat /\ n > 0 /\ k \in Nat /\ k <= n /\ n <= k + 1
  BY <1>1, Numbers DEF IInv, Bounds, Waiting, Pace, MaySwapReturn, LastBufferCount, k
<1>3. /\ ~ Filling /\ ~ Filling' /\ Waiting /\ ~ Waiting' /\ ~ Preparing /\ ~ Preparing'
      /\ Newest = n /\ Newest' = n /\ Live' = Live
      /\ Upcoming = n /\ Upcoming' = n
  BY <1>2 DEF Live, Newest, Filling, Waiting, Preparing, Upcoming
<1>4. /\ minimumVsyncs \in MinVsyncChoices /\ minimumVsyncs \in Nat
      /\ Source(n).minVsync = Clip(MinimumVsync(minimumVsyncs))
  BY <1>3 DEF IInv, Clock
<1>5. lastSwapVsyncCount <= v
  <2>1. CASE k = n
    BY <1>1, <1>2, <1>4, <2>1, Numbers DEF IInv, Clock, MinimumVsync, Clip
  <2>2. CASE k = n - 1
    BY <1>1, <1>2, <1>3, <2>2, Numbers DEF IInv, Clock, Returned
  <2> QED
    BY <1>2, <2>1, <2>2
<1>6. /\ lastSwapVsyncCount' \in 0..VsyncBound
      /\ lastSwapVsyncCount' <= v \/ lastSwapVsyncCount' <= v + minimumVsyncs
      /\ lastSwapVsyncCount' <= v \/ lastSwapVsyncCount' <= Source(n).minVsync
  <2>1. lastSwapVsyncCount' = Clip(Maximum(v, lastSwapVsyncCount + minimumVsyncs))
    OBVIOUS
  <2>2. Source(n).minVsync = Clip(lastSwapVsyncCount + 2 * minimumVsyncs)
    BY <1>4 DEF MinimumVsync
  <2> HIDE DEF SwapReturns
  <2> QED
    BY <1>1, <1>4, <1>5, <2>1, <2>2, Numbers DEF Clip, Maximum
<1>7. TypeOK'
  BY <1>1, <1>6 DEF TypeOK, VrStates, BlackLeftAfterSwap, BlackSwaps
<1>8. Bounds' /\ Pace'
  BY <1>1, <1>2, <1>3, Numbers DEF IInv, Bounds, FencesCreated, Pace, BlackLeftAfterSwap, k
<1>9. Slots' /\ Kinds' /\ Frames' /\ Search' /\ Latched'
  BY <1>3 DEF IInv, Slots, Kinds, Frames, Search, Settled, Latched, HasTexture, Source, k
<1>10. Clock' /\ PacedFromTheClock'
  BY <1>2, <1>3, <1>4, <1>6 DEF IInv, Clock, Returned, Source, PacedFromTheClock, k
<1> QED
  BY <1>7, <1>8, <1>9, <1>10 DEF IInv

\* Vsyncs only move forward.
LEMMA StartFrameKeeps == IInv /\ StartFrame => IInv'
<1> SUFFICES ASSUME IInv, StartFrame PROVE IInv'
  OBVIOUS
<1> USE ConstantsAssumption DEF StartFrame, vrVars
<1>1. TypeOK
  BY DEF IInv
<1>2. vsync' \in 0..VsyncBound /\ vsync <= vsync'
  BY <1>1, Numbers DEF Resync
<1>3. sliced' \in BOOLEAN /\ (sliced' => "sliced" \in WarpModes)
  BY <1>1, SlotType, Numbers DEF IInv, Kinds
<1>4. UNCHANGED <<Newest, Live, Upcoming, Filling, Waiting, Preparing, FencesCreated>>
  BY DEF Newest, Live, Upcoming, Filling, Waiting, Preparing, FencesCreated
<1>5. TypeOK'
  BY <1>1, <1>2, <1>3 DEF TypeOK, WarpStates
<1>6. Bounds' /\ Slots' /\ Kinds' /\ Pace' /\ Latched' /\ Frames' /\ PacedFromTheClock'
  BY <1>3, <1>4 DEF IInv, Bounds, Slots, Kinds, Pace, Latched, HasTexture, Frames, Source,
                    PacedFromTheClock, k
<1>7. Search'
  BY <1>1, <1>2, Numbers DEF IInv, Search, Settled, Source, k
<1>8. Clock'
  BY <1>1, <1>2, <1>4, Numbers DEF IInv, Clock, Returned, Source, k, MinimumVsync, Clip
<1> QED
  BY <1>5, <1>6, <1>7, <1>8 DEF IInv

\* The warp thread's steps change nothing the VR thread's part of the invariant
\* speaks of, except for SwapVsync.
LEMMA WarpLocal ==
  ASSUME IInv, UNCHANGED <<vrVars, vr, swapVsync, gpuDone, sliced>>,
         vsync' \in 0..VsyncBound, vsync <= vsync'
  PROVE  /\ Bounds' /\ Slots' /\ Kinds' /\ Pace' /\ Frames' /\ Clock' /\ PacedFromTheClock'
         /\ k' = k
         /\ \A m \in Nat : Source(m)' = Source(m) /\ (Settled(m) => Settled(m)')
<1> USE ConstantsAssumption DEF vrVars
<1>1. TypeOK
  BY DEF IInv
<1>2. UNCHANGED <<Newest, Live, Upcoming, Filling, Waiting, Preparing, FencesCreated>>
  BY DEF Newest, Live, Upcoming, Filling, Waiting, Preparing, FencesCreated
<1>3. Bounds' /\ Slots' /\ Kinds' /\ Pace' /\ Frames' /\ PacedFromTheClock' /\ k' = k
  BY <1>2 DEF IInv, Bounds, Slots, Kinds, Pace, Frames, Source, PacedFromTheClock, k
<1>4. Clock'
  BY <1>1, <1>2, Numbers DEF IInv, Clock, Returned, Source, k, MinimumVsync, Clip
<1>5. \A m \in Nat : Source(m)' = Source(m) /\ (Settled(m) => Settled(m)')
  BY <1>1, Numbers DEF Settled, Source
<1> QED
  BY <1>3, <1>4, <1>5

\* A search starts at a buffer no older than the one settled on.
LEMMA ReadLatestKeeps == IInv /\ ReadLatest => IInv'
<1> SUFFICES ASSUME IInv, ReadLatest PROVE IInv'
  OBVIOUS
<1> USE DEF ReadLatest
<1>1. TypeOK /\ vsync' \in 0..VsyncBound /\ vsync <= vsync'
  BY Numbers DEF IInv
<1>2. TypeOK'
  BY <1>1 DEF TypeOK, WarpStates, vrVars
<1>3. Search' /\ Latched'
  BY <1>1, WarpLocal, Numbers DEF IInv, Search, Latched, HasTexture, Pace, vrVars
<1> QED
  BY <1>1, <1>2, <1>3, WarpLocal DEF IInv

\* What a search finds in the slot it looks at.
LEMMA ExaminedIsNum ==
  ASSUME IInv, warp = "examine", num > 0
  PROVE  /\ num \in Live /\ Examined = Source(num)
         /\ Examined.num = num /\ Examined.fence = num
<1> USE ConstantsAssumption
<1>1. TypeOK
  BY DEF IInv
<1>2. num \in Nat /\ num <= eyeBufferCount /\ num > Newest - 4 /\ ~ (vr = "filled" /\ num = Newest)
  BY <1>1, Numbers DEF IInv, Search, Pace, Newest, Filling, Waiting
<1>3. num \in Live
  BY <1>1, <1>2, Numbers DEF Live, Newest, MaxWarpSources
<1> QED
  BY <1>2, <1>3 DEF IInv, Slots, Source, Examined

\* The buffer settled on before is never skipped, so a search ends there at the
\* latest, within the window of the scan.
LEMMA SkipSourceKeeps == IInv /\ SkipSource => IInv'
<1> SUFFICES ASSUME IInv, SkipSource PROVE IInv'
  OBVIOUS
<1>1. TypeOK /\ vsync' \in 0..VsyncBound /\ vsync <= vsync'
  BY Numbers DEF IInv, SkipSource
<1>2. num > k
  <2>1. num >= k /\ num \in Nat /\ k \in Nat
    BY <1>1, Numbers DEF IInv, Search, SkipSource
  <2> SUFFICES ASSUME num = k PROVE FALSE
    BY <2>1
  <2>2. k > 0 /\ Settled(k) /\ Examined = Source(k) /\ Examined.fence = k /\ Examined.num = k
    BY <1>1, <2>1, ExaminedIsNum DEF IInv, Search, SkipSource
  <2>3. ~ TooEarly
    BY <1>1, <2>2, Numbers DEF TooEarly, Settled
  <2>4. ~ (Examined.pose = "good" /\ ~ FenceSignaled)
    BY <2>2 DEF Settled, FenceSignaled
  <2>5. Examined.pose = "bad" => "bad" \in Poses
    BY <1>1, <2>1, <2>2, SlotType, Numbers DEF IInv, Kinds, Examined
  <2>6. ~ (Examined.pose = "bad" /\ BadPoseSkips)
    BY <2>5, PoseAssumption DEF IInv, Kinds, BadPoseSkips
  <2> QED
    BY <2>3, <2>4, <2>6 DEF Skipped, SkipSource
<1>3. latest - num + 1 < ScanWindow
  BY <1>1, <1>2, Numbers DEF IInv, Search, Pace, ScanWindow, MaxWarpSources, SkipSource
<1>4. TypeOK'
  <2>1. num' = num - 1 /\ num - 1 \in 0..BufferBound
    BY <1>1, <1>3, Numbers DEF TypeOK, SkipSource
  <2>2. /\ UNCHANGED <<eyeBufferCount, warpSources, lastSwapVsyncCount, swapCount>>
        /\ UNCHANGED <<blackLeft, minimumVsyncs, vr, warp>>
        /\ UNCHANGED <<swapVsync, sliced, latest, cur, gpuDone>>
    BY <1>3 DEF SkipSource, vrVars
  <2> QED
    BY <1>1, <2>1, <2>2 DEF TypeOK
<1>5. Search' /\ Latched'
  BY <1>1, <1>2, <1>3, WarpLocal, Numbers DEF IInv, Search, Latched, HasTexture, vrVars, SkipSource
<1> QED
  BY <1>1, <1>4, <1>5, WarpLocal DEF IInv, SkipSource

\* A search that stops without an image settles on the buffer it stopped at.
LEMMA StopSearchKeeps == IInv /\ StopSearch => IInv'
<1> SUFFICES ASSUME IInv, StopSearch PROVE IInv'
  OBVIOUS
<1> USE DEF StopSearch
<1>1. TypeOK /\ vsync' \in 0..VsyncBound /\ vsync <= vsync' /\ num \in Nat
  BY Numbers DEF IInv, warpVars
<1>2. num > 0 => Settled(num)
  <2> SUFFICES ASSUME num > 0 PROVE Settled(num)
    OBVIOUS
  <2> QED
    BY <1>1, ExaminedIsNum, Numbers DEF Stopped, TooEarly, Settled
<1>3. TypeOK'
  BY <1>1 DEF TypeOK, WarpStates, vrVars, warpVars
<1>4. Search' /\ Latched'
  BY <1>1, <1>2, WarpLocal, Numbers DEF IInv, Search, Latched, HasTexture, vrVars, warpVars
<1> QED
  BY <1>1, <1>3, <1>4, WarpLocal DEF IInv, warpVars

\* The latched copy is an image the GPU has finished.
LEMMA LatchSourceKeeps == IInv /\ LatchSource => IInv'
<1> SUFFICES ASSUME IInv, LatchSource PROVE IInv'
  OBVIOUS
<1> USE DEF LatchSource
<1>1. TypeOK /\ vsync' \in 0..VsyncBound /\ vsync <= vsync' /\ num \in Nat
  BY Numbers DEF IInv
<1>2. /\ cur' = Source(num) /\ Source(num) \in WarpSource /\ Source(num)' = Source(num)
      /\ num > 0 /\ num <= gpuDone /\ Settled(num)
  BY <1>1, ExaminedIsNum, Numbers DEF Usable, TooEarly, FenceSignaled, Settled, Source, vrVars
<1>3. TypeOK'
  BY <1>1, <1>2 DEF TypeOK, WarpStates, vrVars
<1>4. Search' /\ Latched'
  BY <1>1, <1>2, WarpLocal, Numbers DEF IInv, Search, Latched, vrVars
<1> QED
  BY <1>1, <1>3, <1>4, WarpLocal DEF IInv

\* The report moves forward, to a buffer that stays settled.
LEMMA ReportLatchedKeeps == IInv /\ ReportLatched => IInv'
<1> SUFFICES ASSUME IInv, ReportLatched PROVE IInv'
  OBVIOUS
<1> USE ConstantsAssumption DEF ReportLatched, vrVars
<1>1. TypeOK
  BY DEF IInv
<1>2. /\ k' = num /\ swapVsync'.vsyncCount = vsync
      /\ num >= k /\ num <= eyeBufferCount /\ (num > 0 => Settled(num))
      /\ swapVsync.vsyncCount <= vsync
  BY <1>1 DEF IInv, Search, Clock, k
<1>3. UNCHANGED <<Newest, Live, Upcoming, Filling, Waiting, Preparing, FencesCreated>>
  BY DEF Newest, Live, Upcoming, Filling, Waiting, Preparing, FencesCreated
<1>4. TypeOK'
  BY <1>1 DEF TypeOK, WarpStates
<1>5. Bounds' /\ Slots' /\ Kinds' /\ Frames'
  BY <1>3 DEF IInv, Bounds, Slots, Kinds, Frames, Source
<1>6. Pace' /\ Latched'
  BY <1>1, <1>2, <1>3, Numbers DEF IInv, Pace, Latched, HasTexture, Source
<1>7. Search'
  BY <1>1, <1>2, Numbers DEF Search, Settled, Source
<1>8. Clock' /\ PacedFromTheClock'
  BY <1>1, <1>2, <1>3, Numbers DEF IInv, Clock, Settled, Returned, Source, MinimumVsync, Clip,
                                   PacedFromTheClock
<1> QED
  BY <1>4, <1>5, <1>6, <1>7, <1>8 DEF IInv

\* The end of a frame drops the latched copy.
LEMMA EndFrameKeeps ==
  ASSUME IInv, warp \in {"signal", "right"}, EndFrame,
         UNCHANGED <<vrVars, swapVsync, latest, num, gpuDone>>,
         vr' = vr \/ (Waiting /\ Waiting')
  PROVE  IInv'
<1> USE ConstantsAssumption DEF EndFrame, vrVars
<1>1. TypeOK
  BY DEF IInv
<1>2. vsync' \in 0..VsyncBound /\ vsync <= vsync'
  BY <1>1, Numbers DEF Clip
<1>3. /\ UNCHANGED <<Newest, Live, Upcoming, Filling, Waiting, Preparing, FencesCreated>>
      /\ vr' = "filled" <=> vr = "filled"
      /\ vr' = "render" <=> vr = "render"
  BY DEF Newest, Live, Upcoming, Filling, Waiting, Preparing, FencesCreated
<1>4. TypeOK'
  BY <1>1, <1>2, EmptyType DEF TypeOK, WarpStates, VrStates, Waiting
<1>5. Bounds' /\ Slots' /\ Kinds' /\ Pace' /\ Frames' /\ PacedFromTheClock'
  BY <1>3 DEF IInv, Bounds, Slots, Kinds, Pace, Frames, Source, PacedFromTheClock, k
<1>6. Clock' /\ Search' /\ Latched'
  BY <1>1, <1>2, <1>3, Numbers DEF IInv, Clock, Search, Settled, Latched, HasTexture, EmptySource,
                                   Returned, Source, k, MinimumVsync, Clip
<1> QED
  BY <1>4, <1>5, <1>6 DEF IInv

\* Drawing, and waking the VR thread before drawing.
LEMMA DrawKeeps ==
  ASSUME IInv, warp \in {"signal", "left"}, warp' \in {"left", "right"}, HasTexture,
         UNCHANGED <<vrVars, warpVars, gpuDone>>,
         vr' = vr \/ (Waiting /\ Waiting')
  PROVE  IInv'
<1> USE ConstantsAssumption DEF vrVars, warpVars
<1>1. TypeOK
  BY DEF IInv
<1>2. /\ UNCHANGED <<Newest, Live, Upcoming, Filling, Waiting, Preparing, FencesCreated>>
      /\ vr' = "filled" <=> vr = "filled"
      /\ vr' = "render" <=> vr = "render"
  BY DEF Newest, Live, Upcoming, Filling, Waiting, Preparing, FencesCreated
<1>3. TypeOK'
  BY <1>1 DEF TypeOK, WarpStates, VrStates, Waiting
<1>4. Bounds' /\ Slots' /\ Kinds' /\ Pace' /\ Frames' /\ PacedFromTheClock'
  BY <1>2 DEF IInv, Bounds, Slots, Kinds, Pace, Frames, Source, PacedFromTheClock, k
<1>5. Clock' /\ Search' /\ Latched'
  BY <1>1, <1>2, Numbers DEF IInv, Clock, Search, Settled, Latched, HasTexture,
                             Returned, Source, k, MinimumVsync, Clip
<1> QED
  BY <1>3, <1>4, <1>5 DEF IInv

LEMMA SignalLatchedKeeps == IInv /\ SignalLatched => IInv'
<1> SUFFICES ASSUME IInv, SignalLatched PROVE IInv'
  OBVIOUS
<1>1. vr' = vr \/ (Waiting /\ Waiting')
  BY DEF SignalLatched, Woken, Waiting
<1>2. CASE HasTexture
  BY <1>1, <1>2, DrawKeeps DEF SignalLatched, warpVars
<1>3. CASE ~ HasTexture
  BY <1>1, <1>3, EndFrameKeeps DEF SignalLatched
<1> QED
  BY <1>2, <1>3

LEMMA DrawLeftEyeKeeps == IInv /\ DrawLeftEye => IInv'
  BY DrawKeeps DEF DrawLeftEye, IInv, Latched

LEMMA DrawRightEyeKeeps == IInv /\ DrawRightEye => IInv'
  BY EndFrameKeeps DEF DrawRightEye

\* Fences that signal are of buffers in the ring and only make more images usable.
LEMMA GpuSignalsFenceKeeps == IInv /\ GpuSignalsFence => IInv'
<1> SUFFICES ASSUME IInv, GpuSignalsFence PROVE IInv'
  OBVIOUS
<1> USE ConstantsAssumption DEF GpuSignalsFence, vrVars, warpVars
<1>1. TypeOK
  BY DEF IInv
<1>2. UNCHANGED <<Newest, Live, Upcoming, Filling, Waiting, Preparing, FencesCreated>>
  BY DEF Newest, Live, Upcoming, Filling, Waiting, Preparing, FencesCreated
<1>3. gpuDone' \in 0..BufferBound /\ gpuDone <= gpuDone' /\ gpuDone' <= FencesCreated
  <2>1. FencesCreated \in 0..BufferBound /\ gpuDone <= FencesCreated
    BY <1>1, Numbers DEF IInv, Bounds, FencesCreated, Preparing, TypeOK
  <2> QED
    BY <1>1, <2>1, Numbers
<1>4. TypeOK'
  BY <1>1, <1>3 DEF TypeOK
<1>5. Bounds' /\ Slots' /\ Kinds' /\ Pace' /\ Frames' /\ PacedFromTheClock'
  BY <1>2, <1>3 DEF IInv, Bounds, Slots, Kinds, Pace, Frames, Source, PacedFromTheClock, k
<1>6. Clock' /\ Search' /\ Latched'
  BY <1>1, <1>2, <1>3, Numbers DEF IInv, Clock, Search, Settled, Latched, HasTexture,
                                   Returned, Source, k, MinimumVsync, Clip
<1> QED
  BY <1>4, <1>5, <1>6 DEF IInv

-----------------------------------------------------------------------------

\* Every step of the system keeps the invariant.
LEMMA NextKeeps == IInv /\ [Next]_vars => IInv'
<1> SUFFICES ASSUME IInv, [Next]_vars PROVE IInv'
  OBVIOUS
<1>1. ASSUME BeginFrame \/ SwapFrame \/ StartBlack \/ PushBlackAgain \/ CreateFence \/ Publish
      PROVE  IInv'
  BY <1>1, BeginFrameKeeps, SwapFrameKeeps, StartBlackKeeps, PushBlackAgainKeeps,
     CreateFenceKeeps, PublishKeeps
<1>2. ASSUME LockSwapMutex \/ CondWait \/ SpuriousWakeup \/ SwapWaitsAgain
      PROVE  IInv'
  BY <1>2, WaitLoopKeeps DEF LockSwapMutex, CondWait, SpuriousWakeup, SwapWaitsAgain, Waiting
<1>3. ASSUME SwapReturns
      PROVE  IInv'
  BY <1>3, SwapReturnsKeeps
<1>4. ASSUME WarpStep
      PROVE  IInv'
  BY <1>4, StartFrameKeeps, ReadLatestKeeps, SkipSourceKeeps, StopSearchKeeps, LatchSourceKeeps,
     ReportLatchedKeeps, SignalLatchedKeeps, DrawLeftEyeKeeps, DrawRightEyeKeeps DEF WarpStep
<1>5. ASSUME GpuSignalsFence
      PROVE  IInv'
  BY <1>5, GpuSignalsFenceKeeps
<1>6. ASSUME UNCHANGED vars
      PROVE  IInv'
  <2> USE <1>6 DEF vars, vrVars, warpVars
  <2>1. TypeOK'
    BY DEF IInv, TypeOK
  <2>2. /\ Filling' = Filling /\ Preparing' = Preparing /\ Waiting' = Waiting
        /\ k' = k /\ FencesCreated' = FencesCreated
    BY DEF Filling, Preparing, Waiting, k, FencesCreated
  <2>3. Newest' = Newest /\ Upcoming' = Upcoming /\ Live' = Live /\ Returned' = Returned
    BY <2>2 DEF Newest, Upcoming, Live, Returned
  <2>4. \A m \in Nat : Source(m)' = Source(m) /\ (Settled(m)' <=> Settled(m))
    BY DEF Source, Settled
  <2>5. Bounds' /\ Kinds' /\ Pace' /\ PacedFromTheClock'
    BY <2>2, <2>3 DEF IInv, Bounds, Kinds, Pace, PacedFromTheClock
  <2>6. Slots' /\ Frames'
    BY <2>3 DEF IInv, Slots, Frames, Source
  <2>7. Search' /\ Latched'
    BY <2>2 DEF IInv, Search, Latched, Settled, Source, HasTexture
  <2>8. Clock'
    BY <2>2, <2>3 DEF IInv, Clock, Source, MinimumVsync
  <2> QED
    BY <2>1, <2>5, <2>6, <2>7, <2>8 DEF IInv
<1> QED
  BY <1>1, <1>2, <1>3, <1>4, <1>5, <1>6 DEF Next, VrStep, VrSwapStep

\* The inductive invariant holds in every reachable state.
THEOREM Invariance == Spec => []IInv
<1>1. Init => IInv
  BY InitKeeps
<1>2. IInv /\ [Next]_vars => IInv'
  BY NextKeeps
<1> QED
  BY <1>1, <1>2, PTL DEF Spec

\* The variables stay within their types and bounds.
THEOREM TypeCorrect == Spec => []TypeOK
<1>1. IInv => TypeOK
  BY DEF IInv
<1> QED
  BY <1>1, Invariance, PTL

\* The warp thread never examines a slot that WarpSwap is rewriting, although
\* nothing locks WarpSources.
THEOREM RingIsSafe == Spec => []SourceNotTorn
<1>1. IInv => SourceNotTorn
  BY ExaminedIsNum DEF SourceNotTorn
<1> QED
  BY <1>1, Invariance, PTL

\* The VR thread is never more than two buffers ahead of the warp thread.
THEOREM LatencyBound == Spec => []NoPileUp
<1>1. IInv => NoPileUp
  BY DEF IInv, Pace, NoPileUp, k
<1> QED
  BY <1>1, Invariance, PTL

\* The count WarpSwap is paced from is at most one frame time ahead.
THEOREM PacingIsBounded == Spec => []PacedFromTheClock
<1>1. IInv => PacedFromTheClock
  BY DEF IInv
<1> QED
  BY <1>1, Invariance, PTL

\* The GPU never renders into the eye textures being warped to the screen.
THEOREM TripleBuffering == Spec => []EyeTexturesIdle
<1>1. ASSUME IInv PROVE EyeTexturesIdle
  <2> USE ConstantsAssumption
  <2>1. SUFFICES ASSUME warp \in {"left", "right"}, cur.frame # 0,
                        NEW f \in FramesInFlight, f # 0
                 PROVE  EyeSet(f) # EyeSet(cur.frame)
    BY DEF EyeTexturesIdle
  <2>2. TypeOK
    BY <1>1 DEF IInv
  <2>3. /\ k > 0 /\ k \in Nat /\ k <= gpuDone /\ k <= eyeBufferCount
        /\ Upcoming <= k + 2 /\ Newest <= k + 2
        /\ cur.frame = Source(k).frame /\ cur.frame \in Nat
    <3>1. k > 0 /\ k <= gpuDone /\ cur = Source(k)
      BY <1>1, <2>1 DEF IInv, Latched
    <3>2. k <= eyeBufferCount /\ Upcoming <= k + 2 /\ Newest <= k + 2
      BY <1>1, <2>2, Numbers DEF IInv, Pace, Upcoming, Newest, Filling, Preparing, Waiting
    <3> QED
      BY <2>2, <3>1, <3>2, Numbers
  <2>4. k \in Live
    BY <2>2, <2>3, Numbers DEF Live, MaxWarpSources, Newest
  <2>5. swapCount <= cur.frame + 2
    BY <1>1, <2>1, <2>2, <2>3, <2>4, Numbers DEF IInv, Frames, Upcoming
  <2>6. f \in Nat /\ f > cur.frame /\ f <= swapCount
    <3>1. CASE vr = "render" /\ f = swapCount
      BY <1>1, <2>1, <2>2, <2>3, <2>4, <3>1, Numbers DEF IInv, Frames
    <3>2. CASE \E t \in 0..3 : warpSources[t].num > gpuDone /\ f = warpSources[t].frame
      <4>1. PICK t \in 0..3 : warpSources[t].num > gpuDone /\ f = warpSources[t].frame
        BY <3>2
      <4>2. DEFINE m == warpSources[t].num
      <4>3. m \in Nat /\ m > k /\ m <= Newest /\ Slot(m) = t
        <5>1. m \in Nat /\ m > k
          <6>1. warpSources[t].num \in Nat
            BY <2>2, Numbers DEF WarpSource
          <6> QED
            BY <2>2, <2>3, <4>1, <6>1, Numbers
        <5> QED
          BY <1>1, <2>3, <5>1 DEF IInv, Slots
      <4>4. m \in Live /\ f = Source(m).frame
        BY <2>2, <2>3, <4>1, <4>3, Numbers DEF Live, MaxWarpSources, Source, Newest
      <4> HIDE DEF m
      <4> QED
        BY <1>1, <2>1, <2>2, <2>3, <2>4, <4>3, <4>4, Numbers DEF IInv, Frames
    <3> QED
      BY <2>1, <2>2, <3>1, <3>2 DEF FramesInFlight, TypeOK, MaxWarpSources
  <2> QED
    BY <2>2, <2>3, <2>5, <2>6, EyeSetDistinct, Numbers
<1> QED
  BY <1>1, Invariance, PTL

\* The warp thread never settles on an older buffer than before.
THEOREM OrderOfImages == Spec => NeverBackwards
<1>1. IInv /\ [Next]_vars => [swapVsync'.eyeBufferCount >= swapVsync.eyeBufferCount]_swapVsync
  <2> SUFFICES ASSUME IInv, Next, swapVsync' # swapVsync
               PROVE  swapVsync'.eyeBufferCount >= swapVsync.eyeBufferCount
    BY DEF vars, warpVars
  <2>1. ReportLatched
    BY DEF Next, VrStep, VrSwapStep, WarpStep, BeginFrame, SwapFrame, StartBlack, PushBlackAgain,
           FillSource, CreateFence, Publish, LockSwapMutex, CondWait, SpuriousWakeup, SwapReturns,
           SwapWaitsAgain, StartFrame, ReadLatest, SkipSource, StopSearch, LatchSource,
           SignalLatched, DrawLeftEye, DrawRightEye, GpuSignalsFence, warpVars
  <2> QED
    BY <2>1 DEF IInv, Search, ReportLatched, k
<1> QED
  BY <1>1, Invariance, PTL DEF Spec, NeverBackwards

\* With valid poses, WarpSwap returns only when the GPU has finished the images of
\* the previous WarpSwap.
THEOREM ImagesAreRendered ==
  ASSUME Poses = {"good"} PROVE Spec => PreviousRendered
<1>1. IInv /\ [Next]_vars => [SwapReturns => gpuDone >= LastBufferCount]_vars
  <2> SUFFICES ASSUME IInv, SwapReturns PROVE gpuDone >= LastBufferCount
    OBVIOUS
  <2>1. TypeOK /\ k >= eyeBufferCount - 1 /\ k <= eyeBufferCount
    BY DEF IInv, Pace, SwapReturns, MaySwapReturn, LastBufferCount, k
  <2>2. CASE k = 0
    BY <2>1, <2>2, Numbers DEF LastBufferCount
  <2>3. CASE k > 0
    <3>1. k \in Live /\ Source(k).num = k
      BY <2>1, <2>3, Numbers DEF IInv, Live, Newest, Filling, MaxWarpSources, Slots
    <3>2. Source(k).pose = "good"
      BY <2>1, <2>3, <3>1, SlotType, Numbers DEF IInv, Kinds, Source, WarpSource
    <3> QED
      BY <2>1, <2>3, <3>2, Numbers DEF IInv, Search, Settled, LastBufferCount
  <2> QED
    BY <2>1, <2>2, <2>3, Numbers
<1> QED
  BY <1>1, Invariance, PTL DEF Spec, PreviousRendered

=============================================================================
