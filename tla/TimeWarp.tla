------------------------------- MODULE TimeWarp -------------------------------
(***************************************************************************)
(* The buffer hand-off between the VR thread and the time warp thread      *)
(* (VrApi/TimeWarp.cpp, VrApi/TimeWarpLocal.h).                            *)
(*                                                                         *)
(* The VR thread renders a frame into one of three pairs of eye textures   *)
(* (EyeBuffers), and WarpSwap() publishes it in a ring of four             *)
(* WarpSources with a GPU fence.  The warp thread wakes once per vsync,    *)
(* walks back from the newest source to one that may be shown, latches a   *)
(* copy of it, tells the VR thread which buffer it latched (SwapVsync) and *)
(* warps it to the left and then the right half of the screen.  WarpSwap() *)
(* waits on the condition swapIsLatched until the PREVIOUS buffer has been *)
(* latched.  Nothing but this wait keeps the VR thread from overwriting a  *)
(* ring slot or an eye texture that the warp thread is using.              *)
(*                                                                         *)
(* The published counters (EyeBufferCount, SwapVsync) are LocklessUpdaters *)
(* and are single atomic steps here.                                       *)
(***************************************************************************)
EXTENDS Integers

CONSTANTS
  MinVsyncChoices,  \* values minimumVsyncs takes: SwapParms.MinimumVsyncs, or 2 when throttled
  Poses,            \* subset of {"good", "bad"}: is the orientation of the image a rotation?
  WarpModes,        \* subset of {"whole", "sliced"}: SWAP_OPTION_USE_SLICED_WARP
  SpuriousWakeups,  \* may pthread_cond_wait return without a signal?
  BufferBound,      \* the VR thread stops after this many WarpSwaps
  VsyncBound        \* vsync counts saturate here

ASSUME ConstantsAssumption ==
  /\ MinVsyncChoices \subseteq Nat
  /\ Poses \subseteq {"good", "bad"}
  /\ WarpModes \subseteq {"whole", "sliced"}
  /\ SpuriousWakeups \in BOOLEAN
  /\ BufferBound \in Nat
  /\ VsyncBound \in Nat

VARIABLES
  eyeBufferCount,      \* EyeBufferCount: number of the newest published buffer
  warpSources,         \* WarpSources: the ring of published buffers
  swapVsync,           \* SwapVsync: what the warp thread latched, and when
  lastSwapVsyncCount,  \* LastSwapVsyncCount: vsync the VR thread is paced from
  swapCount,           \* EyeBuffers::SwapCount: frames begun
  blackLeft,           \* iterations left of the loop in WarpSwapBlack / LoadingIcon
  minimumVsyncs,       \* local of WarpSwap
  vr,                  \* where the VR thread is
  warp,                \* where the warp thread is
  vsync,               \* vsyncBase of the frame the warp thread works on
  sliced,              \* this frame is warped by WarpToScreenSliced
  latest,              \* latestEyeBufferNum
  num,                 \* thisEyeBufferNum
  cur,                 \* currentWarpSource: the latched copy
  gpuDone              \* fences signal in order: the newest that has

vrVars == <<eyeBufferCount, warpSources, lastSwapVsyncCount, swapCount,
            blackLeft, minimumVsyncs>>
warpVars == <<swapVsync, vsync, sliced, latest, num, cur>>
vars == <<vrVars, warpVars, vr, warp, gpuDone>>

-----------------------------------------------------------------------------
(* Constants of the code. *)

\* Definitions named Wrong... are mutations: a plausible slip in the definition
\* that follows.  No action uses them; they show which property notices.
WrongEyeSets == 2
WrongWarpSources == 2

MaxWarpSources == 4      \* TimeWarpLocal::MAX_WARP_SOURCES
MaxEyeSets == 3          \* EyeBuffers::MAX_EYE_SETS
BlackSwaps == 3          \* pushes of WarpSwapBlack and WarpSwapLoadingIcon

Slot(n) == n % MaxWarpSources
EyeSet(f) == f % MaxEyeSets

\* Vsync counts above the bound are not told apart.
Clip(v) == IF v > VsyncBound THEN VsyncBound ELSE v

\* An entry of the ring.  frame is the eye-buffer frame the image shows, 0 for
\* the static black texture; fence is the buffer whose GpuSync it holds, 0 for
\* none; num is the buffer its WarpParms were written for.
WarpSource == [num : 0..BufferBound, minVsync : 0..VsyncBound, fence : 0..BufferBound,
               pose : {"good", "bad"}, mode : {"whole", "sliced"}, frame : 0..BufferBound]

EmptySource == [num |-> 0, minVsync |-> 0, fence |-> 0,
                pose |-> "bad", mode |-> "whole", frame |-> 0]

Init ==
  /\ eyeBufferCount = 0
  /\ warpSources = [s \in 0..MaxWarpSources - 1 |-> EmptySource]
  /\ swapVsync = [vsyncCount |-> 0, eyeBufferCount |-> 0]
  /\ lastSwapVsyncCount = 0
  /\ swapCount = 0
  /\ blackLeft = 0
  /\ minimumVsyncs = 0
  /\ vr = "app"
  /\ warp = "loop"
  /\ vsync = 0
  /\ sliced = FALSE
  /\ latest = 0
  /\ num = 0
  /\ cur = EmptySource
  /\ gpuDone = 0

-----------------------------------------------------------------------------
(* The VR thread. *)

\* EyeBuffers::BeginFrame: the next pair of eye textures becomes the render
\* target, and draw commands for it reach the GPU from now on.
BeginFrame ==
  /\ vr = "app" /\ blackLeft = 0 /\ eyeBufferCount < BufferBound
  /\ swapCount' = swapCount + 1
  /\ vr' = "render"
  /\ UNCHANGED <<eyeBufferCount, warpSources, lastSwapVsyncCount, blackLeft, minimumVsyncs,
                 warpVars, warp, gpuDone>>

WrongNextSlot == Slot(eyeBufferCount)

\* The slot after the one of the newest buffer.
NextSlot == Slot(eyeBufferCount + 1)

\* "don't use it if from same frame to avoid problems with very fast frames"
MinimumVsync(min) == lastSwapVsyncCount + 2 * min

\* WarpSwap writes the parameters into the slot after the newest buffer; the
\* slot still holds the fence of the buffer it is about to forget.
FillSource(pose, mode, frame) ==
  /\ \E min \in MinVsyncChoices :
       /\ minimumVsyncs' = min
       /\ warpSources' = [warpSources EXCEPT ![NextSlot] =
            [num |-> eyeBufferCount + 1, minVsync |-> Clip(MinimumVsync(min)),
             fence |-> @.fence, pose |-> pose, mode |-> mode, frame |-> frame]]
  /\ vr' = "filled"
  /\ UNCHANGED <<eyeBufferCount, lastSwapVsyncCount, swapCount,
                 warpVars, warp, gpuDone>>

\* The application presents the frame it rendered.
SwapFrame ==
  /\ vr = "render"
  /\ \E pose \in Poses, mode \in WarpModes : FillSource(pose, mode, swapCount)
  /\ UNCHANGED blackLeft

\* WarpSwapBlack and WarpSwapLoadingIcon push one static image three times.
StartBlack ==
  /\ vr = "app" /\ blackLeft = 0 /\ eyeBufferCount + BlackSwaps <= BufferBound
  /\ blackLeft' = BlackSwaps
  /\ FillSource("good", "whole", 0)

PushBlackAgain ==
  /\ vr = "app" /\ blackLeft > 0
  /\ FillSource("good", "whole", 0)
  /\ UNCHANGED blackLeft

\* The old fence is destroyed, a new one is put behind the draw commands.
CreateFence ==
  /\ vr = "filled"
  /\ warpSources' = [warpSources EXCEPT ![NextSlot].fence = eyeBufferCount + 1]
  /\ vr' = "fenced"
  /\ UNCHANGED <<eyeBufferCount, lastSwapVsyncCount, swapCount, blackLeft, minimumVsyncs,
                 warpVars, warp, gpuDone>>

Publish ==
  /\ vr = "fenced"
  /\ eyeBufferCount' = eyeBufferCount + 1
  /\ vr' = "lock"
  /\ UNCHANGED <<warpSources, lastSwapVsyncCount, swapCount, blackLeft, minimumVsyncs,
                 warpVars, warp, gpuDone>>

\* swapMutex is held by the VR thread exactly while vr = "locked": the warp
\* thread holds it only within SignalLatched.
LockSwapMutex ==
  /\ vr = "lock"
  /\ vr' = "locked"
  /\ UNCHANGED <<vrVars, warpVars, warp, gpuDone>>

CondWait ==
  /\ vr = "locked"
  /\ vr' = "waiting"
  /\ UNCHANGED <<vrVars, warpVars, warp, gpuDone>>

SpuriousWakeup ==
  /\ SpuriousWakeups
  /\ vr = "waiting"
  /\ vr' = "woken"
  /\ UNCHANGED <<vrVars, warpVars, warp, gpuDone>>

Maximum(a, b) == IF a >= b THEN a ELSE b

\* lastBufferCount, read before the buffer was published.
LastBufferCount == eyeBufferCount - 1

WrongMaySwapReturn == swapVsync.eyeBufferCount >= LastBufferCount - 1
WrongNoWait == TRUE

\* The previous buffer set has been latched.
MaySwapReturn == swapVsync.eyeBufferCount >= LastBufferCount

\* The loop counter of WarpSwapBlack, if that is who called.
BlackLeftAfterSwap == IF blackLeft > 0 THEN blackLeft - 1 ELSE 0

\* pthread_cond_wait re-locks and WarpSwap unlocks the mutex, then it looks at
\* SwapVsync and either returns or goes back to sleep.
SwapReturns ==
  /\ vr = "woken"
  /\ MaySwapReturn
  /\ lastSwapVsyncCount' =
       Clip(Maximum(swapVsync.vsyncCount, lastSwapVsyncCount + minimumVsyncs))
  /\ blackLeft' = BlackLeftAfterSwap
  /\ minimumVsyncs' = 0
  /\ vr' = "app"
  /\ UNCHANGED <<eyeBufferCount, warpSources, swapCount, warpVars, warp, gpuDone>>

SwapWaitsAgain ==
  /\ vr = "woken"
  /\ ~ MaySwapReturn
  /\ vr' = "lock"
  /\ UNCHANGED <<vrVars, warpVars, warp, gpuDone>>

-----------------------------------------------------------------------------
(* The warp thread. *)

\* The vsync the loop works on, unless it fell more than two behind the clock.
Resync(v) == {v} \cup {u \in 0..VsyncBound : u > v + 2}

\* Top of WarpThread's loop and of WarpToScreen: the newest source decides how
\* the frame is warped.
StartFrame ==
  /\ warp = "loop"
  /\ vsync' \in Resync(vsync)
  /\ sliced' = (warpSources[Slot(eyeBufferCount)].mode = "sliced")
  /\ warp' = "latch"
  /\ UNCHANGED <<vrVars, swapVsync, latest, num, cur, vr, gpuDone>>

ReadLatest ==
  /\ warp = "latch"
  /\ latest' = eyeBufferCount
  /\ num' = eyeBufferCount
  /\ warp' = "examine"
  /\ UNCHANGED <<vrVars, swapVsync, vsync, sliced, cur, vr, gpuDone>>

Examined == warpSources[Slot(num)]

TooEarly == Examined.minVsync > vsync

WrongFenceIgnored == TRUE
WrongFenceLater == Examined.fence < gpuDone

FenceSignaled == Examined.fence <= gpuDone

WrongBadPoseSkips == TRUE

\* A bad pose skips the buffer in WarpToScreenSliced, and ends the search in
\* WarpToScreen.
BadPoseSkips == sliced

\* The code's `continue`s.
Skipped ==
  \/ TooEarly
  \/ Examined.fence # 0 /\ Examined.pose = "bad" /\ BadPoseSkips
  \/ Examined.fence # 0 /\ Examined.pose = "good" /\ ~ FenceSignaled

\* The code's `break`s that latch nothing.
Stopped ==
  \/ num <= 0
  \/ ~ TooEarly /\ Examined.fence = 0
  \/ ~ TooEarly /\ Examined.pose = "bad" /\ ~ BadPoseSkips

Usable == ~ TooEarly /\ Examined.fence # 0 /\ Examined.pose = "good" /\ FenceSignaled

ScanWindow == MaxWarpSources - 1

SkipSource ==
  /\ warp = "examine" /\ num > 0 /\ Skipped
  /\ IF latest - num + 1 < ScanWindow
       THEN num' = num - 1 /\ UNCHANGED warp
       ELSE warp' = "report" /\ UNCHANGED num
  /\ UNCHANGED <<vrVars, swapVsync, vsync, sliced, latest, cur, vr, gpuDone>>

StopSearch ==
  /\ warp = "examine" /\ Stopped
  /\ warp' = "report"
  /\ UNCHANGED <<vrVars, warpVars, vr, gpuDone>>

LatchSource ==
  /\ warp = "examine" /\ num > 0 /\ Usable
  /\ cur' = Examined
  /\ warp' = "report"
  /\ UNCHANGED <<vrVars, swapVsync, vsync, sliced, latest, num, vr, gpuDone>>

ReportLatched ==
  /\ warp = "report"
  /\ swapVsync' = [vsyncCount |-> vsync, eyeBufferCount |-> num]
  /\ latest' = 0 /\ num' = 0
  /\ warp' = "signal"
  /\ UNCHANGED <<vrVars, vsync, sliced, cur, vr, gpuDone>>

\* With nothing latched there is no texture to draw.
HasTexture == cur.num # 0

\* End of the loop body: the locals of WarpToScreen go, vsync++.
EndFrame ==
  /\ vsync' = Clip(vsync + 1)
  /\ sliced' = FALSE
  /\ cur' = EmptySource
  /\ warp' = "loop"

\* trylock; a VR thread between lock and wait misses this signal.
Woken == IF vr = "waiting" THEN "woken" ELSE vr

SignalLatched ==
  /\ warp = "signal"
  /\ vr' = Woken
  /\ IF HasTexture THEN warp' = "left" /\ UNCHANGED <<vsync, sliced, cur>>
                   ELSE EndFrame
  /\ UNCHANGED <<vrVars, swapVsync, latest, num, gpuDone>>

DrawLeftEye ==
  /\ warp = "left"
  /\ warp' = "right"
  /\ UNCHANGED <<vrVars, warpVars, vr, gpuDone>>

DrawRightEye ==
  /\ warp = "right"
  /\ EndFrame
  /\ UNCHANGED <<vrVars, swapVsync, latest, num, vr, gpuDone>>

-----------------------------------------------------------------------------
(* The GPU executes commands in order, so fences signal in order. *)

FencesCreated == IF vr = "fenced" THEN eyeBufferCount + 1 ELSE eyeBufferCount

GpuSignalsFence ==
  /\ gpuDone < FencesCreated
  /\ gpuDone' = gpuDone + 1
  /\ UNCHANGED <<vrVars, warpVars, vr, warp>>

-----------------------------------------------------------------------------

VrSwapStep == \/ PushBlackAgain \/ CreateFence \/ Publish \/ LockSwapMutex \/ CondWait
              \/ SwapReturns \/ SwapWaitsAgain

VrStep == BeginFrame \/ SwapFrame \/ StartBlack \/ VrSwapStep

WarpStep == \/ StartFrame \/ ReadLatest
            \/ SkipSource \/ StopSearch \/ LatchSource
            \/ ReportLatched \/ SignalLatched \/ DrawLeftEye \/ DrawRightEye

Next == VrStep \/ SpuriousWakeup \/ WarpStep \/ GpuSignalsFence

\* Both threads are scheduled, and the GPU finishes what it was given.  The
\* application need not render another frame.
Fairness == WF_vars(VrSwapStep) /\ WF_vars(WarpStep) /\ WF_vars(GpuSignalsFence)

Spec == Init /\ [][Next]_vars /\ Fairness

-----------------------------------------------------------------------------
(* Properties. *)

VrStates == {"app", "render", "filled", "fenced", "lock", "locked", "waiting", "woken"}
WarpStates == {"loop", "latch", "examine", "report", "signal", "left", "right"}

\* Every variable stays within its type and its bound.
TypeOK ==
  /\ eyeBufferCount \in 0..BufferBound
  /\ warpSources \in [0..MaxWarpSources - 1 -> WarpSource]
  /\ swapVsync \in [vsyncCount : 0..VsyncBound, eyeBufferCount : 0..BufferBound]
  /\ lastSwapVsyncCount \in 0..VsyncBound
  /\ swapCount \in 0..BufferBound
  /\ blackLeft \in 0..BlackSwaps
  /\ minimumVsyncs \in MinVsyncChoices \cup {0}
  /\ vr \in VrStates
  /\ warp \in WarpStates
  /\ vsync \in 0..VsyncBound
  /\ sliced \in BOOLEAN
  /\ latest \in 0..BufferBound
  /\ num \in 0..BufferBound
  /\ cur \in WarpSource
  /\ gpuDone \in 0..BufferBound

\* The warp thread never looks at a ring slot that WarpSwap is rewriting: there
\* is no lock around WarpSources, only the pacing of WarpSwap protects them.
SourceNotTorn ==
  warp = "examine" /\ num > 0 => /\ Examined.num = num
                                 /\ Examined.fence = num

\* No frame goes backwards in time: the buffer the warp thread settles on never
\* has a smaller number than the one it settled on before.
NeverBackwards == [][swapVsync'.eyeBufferCount >= swapVsync.eyeBufferCount]_swapVsync

\* Frames whose draw commands the GPU has not finished.
FramesInFlight ==
  {warpSources[s].frame : s \in {t \in DOMAIN warpSources : warpSources[t].num > gpuDone}}
    \cup (IF vr = "render" THEN {swapCount} ELSE {})

\* Triple buffering of the eye textures is enough: while the warp thread draws
\* from a pair of textures, the GPU is not rendering into that pair, neither for
\* the frame shown nor for a later one.
EyeTexturesIdle ==
  warp \in {"left", "right"} /\ cur.frame # 0
    => \A f \in FramesInFlight \ {0} : EyeSet(f) # EyeSet(cur.frame)

\* TimeWarp.h: WarpSwap "will block until the textures from the previous
\* WarpSwap have completed rendering".
PreviousRendered == [][SwapReturns => gpuDone >= LastBufferCount]_vars

\* The warp thread is at most two buffers behind, so at most two frames wait.
NoPileUp == eyeBufferCount <= swapVsync.eyeBufferCount + 2

\* The vsync the VR thread is paced from runs ahead of the vsync it was told by
\* at most one frame time, whatever sequence of minimumVsyncs was asked for.
PacedFromTheClock ==
  \/ lastSwapVsyncCount <= swapVsync.vsyncCount
  \/ \E m \in MinVsyncChoices : lastSwapVsyncCount <= swapVsync.vsyncCount + m

InSwap == vr \notin {"app", "render"} \/ blackLeft > 0

\* WarpSwap and WarpSwapBlack return.
SwapTerminates == InSwap ~> ~ InSwap

\* A published buffer is eventually drawn for both eyes, or a newer one is, unless
\* the newest buffer has a pose the warp refuses: then nothing is drawn.
PublishedIsShown ==
  \A n \in 1..BufferBound : (eyeBufferCount = n) ~>
    \/ warp = "right" /\ cur.num >= n
    \/ warpSources[Slot(eyeBufferCount)].pose = "bad"

=============================================================================
