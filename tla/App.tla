---------------------------------- MODULE App ----------------------------------
(***************************************************************************)
(* The life cycle of an application (jni/App.cpp, jni/VrApi/VrApi.cpp      *)
(* ovr_EnterVrMode, ovr_LeaveVrMode): what Android tells the activity is   *)
(* posted by the UI thread to the queue of the VR thread, which creates    *)
(* and destroys the window surface, enters and leaves VR mode, renders     *)
(* frames, and ends.  The queue is a Mailbox, which MessageQueue           *)
(* implements.  pthread_cond_wait may return without a signal in either    *)
(* thread.  The model ends ("dead") where the program may have corrupted   *)
(* memory.                                                                 *)
(***************************************************************************)
EXTENDS Integers, Sequences

CONSTANTS
  NULL,
  vrMessages,        \* length of vrMessageQueue
  EventBound,        \* life cycle callbacks after onCreate, except onDestroy
  ReconfigureBound   \* calls of SetVrModeParms

Syncs == {"sync1", "sync2"}  \* the two calls of SyncVrThread, and their messages

Messages == Syncs \cup {"intent", "createdSurface", "destroyedSurface", "pause", "resume", "quit"}

ASSUME AppAssumption ==
  /\ NULL \notin Messages
  /\ EventBound \in Nat /\ ReconfigureBound \in Nat
  /\ vrMessages \in Nat /\ vrMessages >= EventBound + 4

VARIABLES
  \* Android and the UI thread.
  ui,        \* where the UI thread is in onCreate and onDestroy
  resumed,   \* the activity is resumed
  surface,   \* it has a surface
  events,    \* callbacks so far
  result,    \* the queue on the stack of SyncVrThread
  \* Shared.
  queue,     \* vrMessageQueue
  msg,       \* the message the VR thread has taken
  VrThreadSynced,
  \* The VR thread.
  vr,        \* where it is
  Paused, CreatedSurface, OneTimeInitCalled, ReadyToExit,
  window,    \* windowSurface # EGL_NO_SURFACE
  OvrMobile, \* the mode last entered, 0 if none
  entered,   \* calls of ovr_EnterVrMode
  live,      \* modes that are not Destroyed: their TimeWarp runs
  attached,  \* modes whose Screen has the window surface
  reconfigured

android == <<resumed, surface, events>>
mode    == <<OvrMobile, entered, live, attached>>
vrvars  == <<vr, Paused, CreatedSurface, OneTimeInitCalled, ReadyToExit, window, mode, reconfigured>>
vars    == <<ui, android, result, queue, msg, VrThreadSynced, vrvars>>

Queue == INSTANCE Mailbox WITH box <- queue, last <- msg, MaxMessages <- vrMessages

UiStates == {"create", "started", "sync1", "synced", "intent", "sync2", "running",
             "joining", "destroyed"}
VrStates == {"none", "init", "top", "drain", "command", "drained", "idle", "asleep",
             "frame", "done", "dead"}

Init ==
  /\ ui = "create" /\ resumed = FALSE /\ surface = FALSE /\ events = 0
  /\ result = [s \in Syncs |-> "none"]
  /\ msg = NULL /\ Queue!Init
  /\ VrThreadSynced = FALSE
  /\ vr = "none"
  /\ Paused = TRUE
  /\ CreatedSurface = FALSE /\ OneTimeInitCalled = FALSE /\ ReadyToExit = FALSE
  /\ window = FALSE
  /\ OvrMobile = 0 /\ entered = 0 /\ live = {} /\ attached = {} /\ reconfigured = 0

-----------------------------------------------------------------------------
(* The UI thread. *)

WrongWoken == vr

Woken == IF vr = "asleep" THEN "top" ELSE vr

Post(m) ==
  /\ Queue!Accept(m)
  /\ vr' = Woken
  /\ UNCHANGED <<Paused, CreatedSurface, OneTimeInitCalled, ReadyToExit, window, mode, reconfigured>>

StartVrThread ==
  /\ ui = "create"
  /\ ui' = "started"
  /\ vr' = "init"
  /\ UNCHANGED <<android, result, queue, msg, VrThreadSynced, Paused, CreatedSurface,
                 OneTimeInitCalled, ReadyToExit, window, mode, reconfigured>>

\* SyncVrThread begins: a queue on the stack and a message with its address.
PostSync(s) ==
  /\ ui = (IF s = "sync1" THEN "started" ELSE "intent")
  /\ ui' = s
  /\ result' = [result EXCEPT ![s] = "empty"]
  /\ Post(s)
  /\ UNCHANGED <<android, VrThreadSynced>>

\* SyncVrThread returns, and its queue is gone.
Returns(s) ==
  /\ ui = s
  /\ ui' = IF s = "sync1" THEN "synced" ELSE "running"
  /\ result' = [result EXCEPT ![s] = "freed"]
  /\ VrThreadSynced' = TRUE
  /\ UNCHANGED <<android, queue, msg, vrvars>>

Synced(s) == result[s] = "ack" /\ Returns(s)

\* result.SleepUntilMessage() wakes unsignalled: nothing looks whether there is a
\* message.
SyncedEarly(s) == result[s] # "ack" /\ Returns(s)

PostIntent ==
  /\ ui = "synced"
  /\ ui' = "intent"
  /\ Post("intent")
  /\ UNCHANGED <<android, result, VrThreadSynced>>

\* One callback, and the message it posts.
Callback(m) ==
  /\ ui = "running" /\ events < EventBound
  /\ events' = events + 1
  /\ Post(m)
  /\ UNCHANGED <<ui, result, VrThreadSynced>>

onResume == ~ resumed /\ resumed' = TRUE /\ UNCHANGED surface /\ Callback("resume")

onPause == resumed /\ resumed' = FALSE /\ UNCHANGED surface /\ Callback("pause")

\* May come again for the same surface.
surfaceChanged == surface' = TRUE /\ UNCHANGED resumed /\ Callback("createdSurface")

\* "There are cases where the app gets a surfaceDestroyed before getting an
\* onPause" (VrApi.cpp:1174).
surfaceDestroyed ==
  /\ surface
  /\ surface' = FALSE /\ UNCHANGED resumed
  /\ Callback("destroyedSurface")

\* nativeDestroy: StopVrThread posts and joins.
onDestroy ==
  /\ ui = "running" /\ ~ resumed
  /\ ui' = "joining"
  /\ Post("quit")
  /\ UNCHANGED <<android, result, VrThreadSynced>>

\* pthread_join returns, and AppLocal and its queue are deleted.
Joined ==
  /\ ui = "joining" /\ vr = "done"
  /\ ui' = "destroyed"
  /\ Queue!Discard
  /\ UNCHANGED <<android, result, VrThreadSynced, vrvars>>

-----------------------------------------------------------------------------
(* VR mode.  Each takes the modes as they are and gives them as they will be. *)

Modes == [current |-> OvrMobile, entered |-> entered, live |-> live, attached |-> attached]

ModesBecome(m) ==
  /\ OvrMobile' = m.current /\ entered' = m.entered
  /\ live' = m.live /\ attached' = m.attached

EnterVrMode(m) ==
  LET new == m.entered + 1
  IN  [current |-> new, entered |-> new, live |-> m.live \cup {new},
       attached |-> m.attached \cup {new}]

WrongLeaveVrMode(m) == [m EXCEPT !.attached = @ \ {m.current}]

\* Does nothing for a mode that is NULL or Destroyed.
LeaveVrMode(m) == [m EXCEPT !.live = @ \ {m.current}, !.attached = @ \ {m.current}]

SurfaceDestroyed(m) == [m EXCEPT !.attached = @ \ {m.current}]

-----------------------------------------------------------------------------
(* Command: what the VR thread does with a message. *)

WrongHasWindow == CreatedSurface

HasWindow == window

\* "Surfaces are reported as created multiple times."
CreateSurface ==
  /\ msg = "createdSurface"
  /\ IF HasWindow
       THEN UNCHANGED <<window, CreatedSurface, mode>>
       ELSE /\ window' = TRUE /\ CreatedSurface' = TRUE
            /\ ModesBecome(IF Paused THEN Modes ELSE EnterVrMode(Modes))
  /\ UNCHANGED <<Paused, ReadyToExit, result>>

DestroySurface ==
  /\ msg = "destroyedSurface"
  /\ window' = FALSE
  /\ ModesBecome(SurfaceDestroyed(Modes))
  /\ UNCHANGED <<Paused, CreatedSurface, ReadyToExit, result>>

Pause ==
  /\ msg = "pause"
  /\ Paused' = TRUE
  /\ ModesBecome(IF Paused THEN Modes ELSE LeaveVrMode(Modes))
  /\ UNCHANGED <<CreatedSurface, window, ReadyToExit, result>>

WrongMayResume == TRUE

\* "Don't actually do the resume operations if we don't have a window yet."
MayResume == window

Resume ==
  /\ msg = "resume"
  /\ Paused' = FALSE
  /\ ModesBecome(IF MayResume THEN EnterVrMode(Modes) ELSE Modes)
  /\ UNCHANGED <<CreatedSurface, window, ReadyToExit, result>>

\* The answer is posted to a queue that SyncVrThread has already returned from.
Corrupts == msg \in Syncs /\ result[msg] = "freed"

Sync ==
  /\ msg \in Syncs
  /\ result' = [result EXCEPT ![msg] = IF @ = "freed" THEN @ ELSE "ack"]
  /\ UNCHANGED <<Paused, CreatedSurface, window, ReadyToExit, mode>>

Quit ==
  /\ msg = "quit"
  /\ ReadyToExit' = TRUE
  /\ ModesBecome(LeaveVrMode(Modes))
  /\ UNCHANGED <<Paused, CreatedSurface, window, result>>

Intent ==
  /\ msg = "intent"
  /\ UNCHANGED <<Paused, CreatedSurface, window, ReadyToExit, mode, result>>

Command ==
  /\ vr = "command"
  /\ vr' = "drain" \/ (Corrupts /\ vr' = "dead")
  /\ CreateSurface \/ DestroySurface \/ Pause \/ Resume \/ Sync \/ Quit \/ Intent
  /\ UNCHANGED <<ui, android, queue, msg, VrThreadSynced, OneTimeInitCalled, reconfigured>>

-----------------------------------------------------------------------------
(* VrThreadFunction. *)

\* The rest of the program when the VR thread only moves on.
Rest == <<ui, android, result, VrThreadSynced, Paused, CreatedSurface, OneTimeInitCalled,
          ReadyToExit, window, mode, reconfigured>>

InitVrThread == vr = "init" /\ vr' = "top" /\ UNCHANGED <<queue, msg, Rest>>

WrongExiting == ReadyToExit /\ window

Exiting == VrThreadSynced /\ CreatedSurface /\ ReadyToExit

Loop ==
  /\ vr = "top"
  /\ vr' = IF Exiting THEN "done" ELSE "drain"
  /\ UNCHANGED <<queue, msg, Rest>>

GetNextMessage ==
  /\ vr = "drain"
  /\ \/ queue = <<>> /\ vr' = "drained" /\ UNCHANGED <<queue, msg>>
     \/ Queue!HandOut /\ vr' = "command"
  /\ UNCHANGED Rest

\* "If we don't have a surface yet, or we are paused".
Sleeps == ~ window \/ Paused

AfterMessages ==
  /\ vr = "drained"
  /\ vr' = CASE ~ Sleeps -> "frame"
             [] Sleeps /\ Exiting -> "top"
             [] Sleeps /\ ~ Exiting -> "idle"
  /\ UNCHANGED <<queue, msg, Rest>>

SleepUntilMessage ==
  /\ vr = "idle"
  /\ vr' = IF queue = <<>> THEN "asleep" ELSE "top"
  /\ UNCHANGED <<queue, msg, Rest>>

\* The VR thread looks at everything again when it wakes.
SpuriousWakeup ==
  /\ vr = "asleep" /\ vr' = "top"
  /\ UNCHANGED <<queue, msg, Rest>>

\* A frame: the application renders, leaves VR mode (ovr_StartPackageActivity,
\* ovr_ExitActivity, or because the phone was undocked), or changes it
\* (SetVrModeParms).
Frame ==
  /\ vr = "frame"
  /\ vr' = "top"
  /\ OneTimeInitCalled' = TRUE
  /\ \/ UNCHANGED <<mode, reconfigured>>
     \/ ModesBecome(LeaveVrMode(Modes)) /\ UNCHANGED reconfigured
     \/ /\ OvrMobile # 0 /\ reconfigured < ReconfigureBound
        /\ ModesBecome(EnterVrMode(LeaveVrMode(Modes)))
        /\ reconfigured' = reconfigured + 1
  /\ UNCHANGED <<ui, android, result, queue, msg, VrThreadSynced, Paused, CreatedSurface,
                 ReadyToExit, window>>

-----------------------------------------------------------------------------

\* What the UI thread does of itself once it has been called.
UiThread ==
  \/ StartVrThread \/ PostIntent \/ Joined
  \/ \E s \in Syncs : PostSync(s) \/ Synced(s)

Android == onResume \/ onPause \/ surfaceChanged \/ surfaceDestroyed \/ onDestroy

VrThread ==
  InitVrThread \/ Loop \/ GetNextMessage \/ Command \/ AfterMessages \/ SleepUntilMessage \/ Frame

Next ==
  /\ vr # "dead"
  /\ \/ UiThread \/ Android \/ VrThread
     \/ SpuriousWakeup \/ \E s \in Syncs : SyncedEarly(s)

\* Both threads are scheduled; Android owes the activity nothing, and no wait is
\* owed a wakeup without a signal.
Spec ==
  /\ Init /\ [][Next]_vars
  /\ WF_vars(vr # "dead" /\ UiThread) /\ WF_vars(VrThread)

-----------------------------------------------------------------------------
(* Properties. *)

\* Every variable has its type; a mode on the screen is one that was entered and not left.
TypeOK ==
  /\ ui \in UiStates /\ vr \in VrStates
  /\ {resumed, surface, VrThreadSynced, Paused, CreatedSurface, OneTimeInitCalled,
      ReadyToExit, window} \subseteq BOOLEAN
  /\ events \in 0..EventBound /\ reconfigured \in 0..ReconfigureBound
  /\ result \in [Syncs -> {"none", "empty", "ack", "freed"}]
  /\ queue \in Seq(Messages) /\ Len(queue) <= vrMessages
  /\ msg \in Messages \cup {NULL}
  /\ entered \in Nat /\ OvrMobile = entered
  /\ attached \subseteq live /\ live \subseteq 1..entered

\* OvrMobile is the one mode that runs: none is lost sight of, with its TimeWarp
\* running and nobody to end it.
OneMode == live \subseteq {OvrMobile}

\* VR mode is entered "when the app is both resumed and has a valid window
\* surface" (VrApi.h:94) and left "before the window is destroyed"
\* (VrApi.cpp:1142), wherever else OvrMobile is overwritten: a mode is lost only
\* to a surface that has gone and come back before the pause, which createdSurface
\* takes for the first.  Resume and SetVrModeParms, which do not look whether a
\* mode runs, lose none, however late the messages are.
OnlyAReturnedSurfaceLosesAMode ==
  [][OneMode /\ ~ OneMode' => msg = "createdSurface" /\ ~ Paused /\ OvrMobile \notin attached]_vars

\* "Prevent execution of warp swap on this OvrMobile without a window surface"
\* (App.cpp:1380): no mode has a window that was destroyed, or swaps for a paused
\* activity, and one that Resume has lost sight of has no window any more.
OnlyOvrMobileHasTheWindow == attached # {} => attached = {OvrMobile} /\ window /\ ~ Paused

\* With no message waiting the VR thread's idea of the activity is Android's.
Settled ==
  (ui = "running" /\ queue = <<>> /\ vr # "command") =>
    /\ Paused <=> ~ resumed
    /\ window <=> surface
    /\ vr = "asleep" => ~ (resumed /\ surface)

\* A resumed activity with a surface gets frames.
FramesAreRendered ==
  (ui = "running" /\ resumed /\ surface) ~> (vr \in {"frame", "dead"} \/ ~ resumed \/ ~ surface)

\* nativeDestroy returns, if a surface was ever created.
DestroyReturns == ui = "joining" ~> (ui = "destroyed" \/ ~ CreatedSurface \/ vr = "dead")

=============================================================================
