------------------------------- MODULE PowerLevel -------------------------------
(***************************************************************************)
(* What a headset does to an application (jni/VrApi/VrApi.cpp): it is put  *)
(* on and taken off, the phone is pulled out of it, and the phone gets     *)
(* hot.  Broadcasts set static states on the UI thread;                    *)
(* ovr_HandleDeviceStateChanges handles them once a frame.                 *)
(*                                                                         *)
(* The game and the platform UI are two activities of one process, each    *)
(* with a VR thread of its own, and share every static of VrApi.cpp.  The  *)
(* frames an activity still renders after it has left VR mode handle       *)
(* device states too, so both threads can be in the handler at once, and   *)
(* no lock is held there: each access of a static is a step of its own.    *)
(***************************************************************************)
EXTENDS Integers, Sequences

CONSTANTS
  PowerSavers,  \* activities with AllowPowerSave
  FramesOutlastSwitch,  \* may a frame last until the next activity has resumed?
  EventBound    \* what the user and the phone do: a ride of so many events

Activities == {"game", "pui"}

ASSUME PowerAssumption ==
  /\ PowerSavers \subseteq Activities
  /\ FramesOutlastSwitch \in BOOLEAN
  /\ EventBound \in Nat

Levels == {"NORMAL", "POWERSAVE", "MINIMUM"}

VARIABLES
  \* The device and Android.
  level,       \* IVRManager.GetPowerLevelState
  worn, docked,
  inbox,       \* broadcasts on their way to the process
  top, away,   \* the top activity of the task; is another application in front?
  requests,    \* what the UI thread was asked to finish
  events,      \* of the user and the phone so far
  \* Statics of VrApi.cpp.
  HMTMountState, HMTDockState, hmtIsMounted,
  powerLevelAction, Throttled, Minimum,
  checked,     \* the power level was checked in this second
  services,    \* getPowerLevelStateID, vsync callbacks, receivers, clock locks
  registered,  \* registerHMTReceivers
  \* The VR thread of each activity.
  pc, mail,    \* where it is, its message queue
  Paused, inVr,  \* inVr: its ovrMobile is not Destroyed
  seen,        \* what it has read: a mount state or a level
  unmountSince \* history: taken off since the process was throttled

limits  == <<powerLevelAction, Throttled, Minimum>>
statics == <<hmtIsMounted, limits, checked, unmountSince>>
device  == <<level, worn, docked, events>>
task    == <<top, away, requests, mail>>
broadcasts == <<inbox, HMTMountState, HMTDockState>>
vrmode  == <<services, registered, inVr, Paused>>
vars == <<device, task, broadcasts, statics, vrmode, pc, seen>>

Nothing == [mount |-> "NONE", level |-> "NORMAL"]

\* Where a VR thread is: between frames, at the dock, at the mount state, at the
\* power level, in what it does about the level.
Places ==
  {"top", "undocked", "exit",
   "mount", "handle", "mounted", "mounting", "notify", "unmounted", "waiting", "release",
   "power", "ask", "act", "cannot",
   "reset", "resetAction", "save", "saveAction", "stop", "stopMinimum", "stopAction", "start"}

Init ==
  /\ level = "NORMAL" /\ worn = TRUE /\ docked = TRUE
  /\ inbox = <<>>
  /\ top = "game" /\ away = FALSE /\ requests = {}
  /\ events = 0
  /\ HMTMountState = "NONE" /\ HMTDockState = "NONE" /\ hmtIsMounted = FALSE
  /\ powerLevelAction = "NONE" /\ Throttled = FALSE /\ Minimum = FALSE
  /\ checked = FALSE /\ services = FALSE /\ registered = FALSE
  /\ pc = [a \in Activities |-> "top"]
  /\ mail = [a \in Activities |-> IF a = "game" THEN <<"resume">> ELSE <<>>]
  /\ Paused = [a \in Activities |-> TRUE] /\ inVr = [a \in Activities |-> FALSE]
  /\ seen = [a \in Activities |-> Nothing]
  /\ unmountSince = FALSE

-----------------------------------------------------------------------------
(* The user and the phone. *)

Event == events < EventBound /\ events' = events + 1

\* Android sends an intent to every registered receiver.
Broadcast(b) == inbox' = IF registered THEN Append(inbox, b) ELSE inbox

quiet == <<HMTMountState, HMTDockState, statics, vrmode, pc, seen>>

PutOnOrTakeOff ==
  /\ Event
  /\ worn' = ~ worn
  /\ Broadcast(IF worn THEN "unmount" ELSE "mount")
  /\ UNCHANGED <<level, docked, task, quiet>>

PullOutOrPutBack ==
  /\ Event
  /\ docked' = ~ docked
  /\ Broadcast(IF docked THEN "undock" ELSE "dock")
  /\ UNCHANGED <<level, worn, task, quiet>>

\* Another application in front handles the mount and says so.
OthersHandleMount ==
  /\ away /\ worn
  /\ IF inbox = <<>> THEN HMTMountState = "MOUNTED" ELSE inbox[Len(inbox)] = "mount"
  /\ Broadcast("handled")
  /\ UNCHANGED <<device, task, quiet>>

HeatUpOrCoolDown ==
  /\ Event
  /\ level' \in Levels \ {level}
  /\ UNCHANGED <<worn, docked, task, inbox, quiet>>

\* floor( ovr_GetTimeInSeconds() ) grows.
SecondPasses ==
  /\ checked /\ checked' = FALSE
  /\ UNCHANGED <<device, task, broadcasts, hmtIsMounted, limits, unmountSince, vrmode, pc, seen>>

-----------------------------------------------------------------------------
(* The UI thread: broadcast receivers, and the life cycle of the two       *)
(* activities as their VR threads hear of it.                              *)

nativeProximitySensor(onHead) ==
  /\ HMTMountState' = IF onHead THEN "MOUNTED" ELSE "UNMOUNTED"
  /\ unmountSince' = (unmountSince \/ ~ onHead)
  /\ UNCHANGED HMTDockState

\* "the foreground app has already received and processed the mount event"
nativeMountHandled ==
  /\ HMTMountState' = IF HMTMountState = "MOUNTED" THEN "NONE" ELSE HMTMountState
  /\ UNCHANGED <<HMTDockState, unmountSince>>

nativeDockEvent(state) ==
  /\ HMTDockState' = IF state THEN "DOCKED" ELSE "UNDOCKED"
  /\ UNCHANGED <<HMTMountState, unmountSince>>

Receive ==
  /\ inbox # <<>>
  /\ inbox' = Tail(inbox)
  /\ CASE Head(inbox) = "mount" -> nativeProximitySensor(TRUE)
       [] Head(inbox) = "unmount" -> nativeProximitySensor(FALSE)
       [] Head(inbox) = "handled" -> nativeMountHandled
       [] Head(inbox) = "undock" -> nativeDockEvent(FALSE)
       [] Head(inbox) = "dock" -> nativeDockEvent(TRUE)
  /\ UNCHANGED <<device, task, hmtIsMounted, limits, checked, vrmode, pc, seen>>

Finished == "finishAll" \in requests

Front == IF away \/ Finished THEN "none" ELSE top

Tell(a, m) == mail' = [mail EXCEPT ![a] = Append(@, m)]

hidden == <<level, worn, docked, broadcasts, statics, vrmode, pc, seen>>

GoAway ==
  /\ Front # "none" /\ Event
  /\ away' = TRUE
  /\ Tell(top, "pause")
  /\ UNCHANGED <<top, requests, hidden>>

\* The UI thread has done what was asked of it before, and the VR thread has
\* paused: it takes a message within a frame, and the user needs longer.
ComeBack ==
  /\ away /\ requests = {} /\ mail[top] = <<>>
  /\ away' = FALSE
  /\ Tell(top, "resume")
  /\ UNCHANGED <<events, top, requests, hidden>>

\* act.finish() of the platform UI.
PuiFinishes ==
  /\ "finishPui" \in requests /\ ~ Finished
  /\ requests' = requests \ {"finishPui"}
  /\ top' = "game"
  /\ mail' = IF away THEN mail ELSE [mail EXCEPT !["game"] = Append(@, "resume"),
                                                !["pui"] = Append(@, "pause")]
  /\ UNCHANGED <<events, away, hidden>>

UiThread == Receive \/ PuiFinishes

\* Android brings the platform UI in front.  If it is there already it is
\* paused, given the new intent, and resumed.
StartActivity ==
  /\ top' = IF Finished THEN top ELSE "pui"
  /\ away' = (away /\ Finished)
  /\ mail' = CASE Finished -> mail
               [] Front = "pui" -> [mail EXCEPT !["pui"] = @ \o <<"pause", "resume">>]
               [] Front = "game" -> [mail EXCEPT !["game"] = Append(@, "pause"),
                                                 !["pui"] = Append(@, "resume")]
               [] away /\ ~ Finished -> [mail EXCEPT !["pui"] = Append(@, "resume")]

-----------------------------------------------------------------------------
(* Entering and leaving VR mode. *)

WrongStops(a) == TRUE

\* Not if it was left before: "ovr already Destroyed".
Stops(a) == inVr[a]

\* Whoever leaves VR mode stops what the last to enter it has started.
ovr_LeaveVrMode(a) ==
  /\ inVr' = [inVr EXCEPT ![a] = FALSE]
  /\ services' = (services /\ ~ Stops(a))
  /\ UNCHANGED registered

ovr_EnterVrMode(a) ==
  /\ inVr' = [inVr EXCEPT ![a] = TRUE]
  /\ services' = TRUE
  /\ registered' = TRUE

\* It leaves VR mode, then starts the activity.
ovr_StartPackageActivity(a) == ovr_LeaveVrMode(a) /\ StartActivity

BetweenFrames(a) == pc[a] = "top"

MayTake(a, m) ==
  m = "resume" => FramesOutlastSwitch \/ \A b \in Activities \ {a} : BetweenFrames(b)

Command(a) ==
  /\ BetweenFrames(a) /\ mail[a] # <<>> /\ MayTake(a, Head(mail[a]))
  /\ mail' = [mail EXCEPT ![a] = Tail(@)]
  /\ Paused' = [Paused EXCEPT ![a] = Head(mail[a]) = "pause"]
  /\ IF Head(mail[a]) = "pause" THEN ovr_LeaveVrMode(a) ELSE ovr_EnterVrMode(a)
  /\ UNCHANGED <<device, top, away, requests, broadcasts, statics, pc, seen>>

Renders(a) == BetweenFrames(a) /\ mail[a] = <<>> /\ ~ Paused[a] /\ ~ Finished

\* The user asks for the platform UI.
StartPlatformUI ==
  /\ Renders("game") /\ Event
  /\ ovr_StartPackageActivity("game")
  /\ UNCHANGED <<level, worn, docked, requests, Paused, broadcasts, statics, pc, seen>>

\* ovr_ExitActivity( EXIT_TYPE_FINISH ) leaves VR mode, then finishes.
ExitPlatformUI ==
  /\ Renders("pui") /\ top = "pui"
  /\ requests' = requests \cup {"finishPui"}
  /\ ovr_LeaveVrMode("pui")
  /\ UNCHANGED <<device, top, away, mail, Paused, broadcasts, statics, pc, seen>>

-----------------------------------------------------------------------------
(* ovr_HandleDeviceStateChanges, at the end of a frame. *)

Goes(a, from, to) == pc[a] = from /\ pc' = [pc EXCEPT ![a] = to]

\* A frame begins, and looks at the dock when it has rendered.
ReadDock(a) ==
  /\ Renders(a)
  /\ Goes(a, "top", IF HMTDockState = "UNDOCKED" THEN "undocked" ELSE "mount")
  /\ UNCHANGED <<device, task, broadcasts, statics, vrmode, seen>>

ClearDock(a) ==
  /\ Goes(a, "undocked", "exit")
  /\ HMTDockState' = "NONE"
  /\ UNCHANGED <<device, task, inbox, HMTMountState, statics, vrmode, seen>>

WrongExitsActivity(a) == UNCHANGED <<requests, services, registered, inVr>>

\* ovr_ExitActivity( EXIT_TYPE_FINISH_AFFINITY )
ExitsActivity(a) == requests' = requests \cup {"finishAll"} /\ ovr_LeaveVrMode(a)

ExitUndocked(a) ==
  /\ Goes(a, "exit", "power")
  /\ ExitsActivity(a)
  /\ UNCHANGED <<device, top, away, mail, broadcasts, statics, Paused, seen>>

WrongMountStep ==
  IF HMTMountState = "NONE" \/ (HMTMountState = "UNMOUNTED" /\ ~ hmtIsMounted) THEN "power" ELSE "handle"

MountStep == IF HMTMountState = "NONE" THEN "power" ELSE "handle"

ReadMount(a) ==
  /\ Goes(a, "mount", MountStep)
  /\ seen' = [seen EXCEPT ![a].mount = HMTMountState]
  /\ UNCHANGED <<device, task, broadcasts, statics, vrmode>>

\* Whatever has come since the state was read is cleared with it.
ClearMount(a) ==
  /\ Goes(a, "handle", IF seen[a].mount = "MOUNTED" THEN "mounted" ELSE "unmounted")
  /\ HMTMountState' = "NONE"
  /\ seen' = [seen EXCEPT ![a] = Nothing]
  /\ UNCHANGED <<device, task, inbox, HMTDockState, statics, vrmode>>

\* ovr_notifyMountHandled
HandleMounted(a) ==
  /\ \/ /\ Goes(a, "mounted", IF hmtIsMounted THEN "power" ELSE "mounting")
        /\ UNCHANGED <<hmtIsMounted, inbox>>
     \/ Goes(a, "mounting", "notify") /\ hmtIsMounted' = TRUE /\ UNCHANGED inbox
     \/ Goes(a, "notify", "power") /\ Broadcast("handled") /\ UNCHANGED hmtIsMounted
  /\ UNCHANGED <<device, task, HMTMountState, HMTDockState, limits, checked, unmountSince, vrmode,
                 seen>>

\* "Reset power level state action if waiting for an unmount event"
HandleUnmounted(a) ==
  /\ \/ Goes(a, "unmounted", "waiting") /\ hmtIsMounted' = FALSE /\ UNCHANGED powerLevelAction
     \/ /\ Goes(a, "waiting", IF powerLevelAction = "WAITING_FOR_UNMOUNT" THEN "release" ELSE "power")
        /\ UNCHANGED <<hmtIsMounted, powerLevelAction>>
     \/ /\ Goes(a, "release", "power")
        /\ powerLevelAction' = "WAITING_FOR_RESET" /\ UNCHANGED hmtIsMounted
  /\ UNCHANGED <<device, task, broadcasts, Throttled, Minimum, checked, unmountSince, vrmode, seen>>

\* A report that the headset is off has come and has not been handled.
UnmountPending ==
  \/ HMTMountState = "UNMOUNTED"
  \/ \E a \in Activities :
       seen[a].mount = "UNMOUNTED" \/ pc[a] \in {"unmounted", "waiting", "release"}

PowerLevelRead == IF services THEN level ELSE "NORMAL"

\* ovr_CheckPowerLevelState: once a second, ask Java.
ReadPowerLevel(a) ==
  /\ \/ Goes(a, "power", IF checked THEN "top" ELSE "ask") /\ UNCHANGED <<checked, seen>>
     \/ /\ Goes(a, "ask", "act")
        /\ checked' = TRUE
        /\ seen' = [seen EXCEPT ![a].level = PowerLevelRead]
  /\ UNCHANGED <<device, task, broadcasts, hmtIsMounted, limits, unmountSince, vrmode>>

WrongMayReset == powerLevelAction \in {"WAITING_FOR_RESET", "WAITING_FOR_UNMOUNT"}

MayReset == powerLevelAction = "WAITING_FOR_RESET"

\* isThrottled and powerLevelAction are read, and acted on later.
Decision(a) ==
  CASE seen[a].level = "NORMAL" -> IF MayReset THEN "reset" ELSE "top"
    [] seen[a].level = "POWERSAVE" /\ Throttled -> "top"
    [] seen[a].level = "POWERSAVE" /\ ~ Throttled /\ a \in PowerSavers -> "save"
    [] OTHER -> "cannot"

Decide(a) ==
  /\ \/ Goes(a, "act", Decision(a)) /\ seen' = [seen EXCEPT ![a] = Nothing]
     \/ /\ Goes(a, "cannot", IF powerLevelAction # "WAITING_FOR_UNDOCK" THEN "stop" ELSE "top")
        /\ UNCHANGED seen
  /\ UNCHANGED <<device, task, broadcasts, statics, vrmode>>

Sets(throttled, minimum, action) ==
  Throttled' = throttled /\ Minimum' = minimum /\ powerLevelAction' = action

WrongReset(a) == Goes(a, "reset", "top") /\ Sets(FALSE, Minimum, powerLevelAction)

Reset(a) ==
  \/ Goes(a, "reset", "resetAction") /\ Sets(FALSE, Minimum, powerLevelAction)
  \/ Goes(a, "resetAction", "top") /\ Sets(Throttled, Minimum, "NONE")

\* "THERMAL THROTTLING LEVEL 1 - POWER SAVE MODE FORCING 30FPS"
PowerSave(a) ==
  \/ Goes(a, "save", "saveAction") /\ Sets(TRUE, Minimum, powerLevelAction)
  \/ Goes(a, "saveAction", "start") /\ Sets(Throttled, Minimum, "WAITING_FOR_UNMOUNT")

\* "THERMAL THROTTLING LEVEL 2 - CANNOT CONTINUE"
CannotContinue(a) ==
  \/ Goes(a, "stop", "stopMinimum") /\ Sets(TRUE, Minimum, powerLevelAction)
  \/ Goes(a, "stopMinimum", "stopAction") /\ Sets(Throttled, TRUE, powerLevelAction)
  \/ Goes(a, "stopAction", "start") /\ Sets(Throttled, Minimum, "WAITING_FOR_UNDOCK")

ActOnPowerLevel(a) ==
  /\ Reset(a) \/ PowerSave(a) \/ CannotContinue(a)
  /\ unmountSince' = IF ~ Throttled /\ Throttled' THEN UnmountPending ELSE unmountSince
  /\ UNCHANGED <<device, task, broadcasts, hmtIsMounted, checked, vrmode, seen>>

\* The platform UI shows a warning.
Warn(a) ==
  /\ Goes(a, "start", "top")
  /\ ovr_StartPackageActivity(a)
  /\ UNCHANGED <<device, requests, broadcasts, statics, Paused, seen>>

VrThread(a) ==
  \/ Command(a)
  \/ ReadDock(a) \/ ClearDock(a) \/ ExitUndocked(a)
  \/ ReadMount(a) \/ ClearMount(a) \/ HandleMounted(a) \/ HandleUnmounted(a)
  \/ ReadPowerLevel(a) \/ Decide(a) \/ ActOnPowerLevel(a) \/ Warn(a)

\* The task is finished: onDestroy joins the VR threads, and exit( 0 ).
Gone == Finished /\ UNCHANGED vars

Next ==
  \/ PutOnOrTakeOff \/ PullOutOrPutBack \/ OthersHandleMount \/ HeatUpOrCoolDown \/ SecondPasses
  \/ GoAway \/ ComeBack
  \/ UiThread
  \/ \E a \in Activities : VrThread(a)
  \/ StartPlatformUI \/ ExitPlatformUI
  \/ Gone

\* Time passes, and Android schedules every thread.
Spec ==
  /\ Init /\ [][Next]_vars
  /\ WF_vars(SecondPasses) /\ WF_vars(UiThread)
  /\ \A a \in Activities : WF_vars(VrThread(a))

-----------------------------------------------------------------------------

Broadcasts == {"mount", "unmount", "handled", "undock", "dock"}

Reads == [mount : {"NONE", "MOUNTED", "UNMOUNTED"}, level : Levels]

\* Every variable keeps its type: the handler knows the states that the
\* broadcasts can leave, and a VR thread works on what it has read.
TypeOK ==
  /\ level \in Levels /\ {worn, docked, away, hmtIsMounted} \subseteq BOOLEAN
  /\ {Throttled, Minimum, checked, services, registered, unmountSince} \subseteq BOOLEAN
  /\ inbox \in Seq(Broadcasts) /\ mail \in [Activities -> Seq({"pause", "resume"})]
  /\ top \in Activities /\ requests \subseteq {"finishPui", "finishAll"}
  /\ events \in 0..EventBound
  /\ HMTMountState \in {"NONE", "MOUNTED", "UNMOUNTED"}
  /\ HMTDockState \in {"NONE", "DOCKED", "UNDOCKED"}
  /\ powerLevelAction \in {"NONE", "WAITING_FOR_UNMOUNT", "WAITING_FOR_UNDOCK", "WAITING_FOR_RESET"}
  /\ pc \in [Activities -> Places]
  /\ Paused \in [Activities -> BOOLEAN] /\ inVr \in [Activities -> BOOLEAN]
  /\ seen \in [Activities -> Reads]
  /\ \A a \in Activities : pc[a] = "handle" <=> seen[a].mount # "NONE"

\* While an activity is in VR mode, what ovr_EnterVrMode started for it runs:
\* power levels, vsync callbacks, receivers and clock locks belong to the
\* process, and the activity that made way for it may not stop them when it
\* leaves VR mode in its turn.
VrModeKeepsServices == \A a \in Activities : inVr[a] => services

\* A VR thread has written part of what it decided.
Between == {"resetAction", "saveAction", "stopMinimum", "stopAction"}

\* A throttled process waits for something that can end it, whichever VR
\* thread throttled it and whichever handled the unmount: Throttled with no
\* action would be 30 Hz for good.  Two threads that decide on what they have
\* read and write it statement by statement could leave one's flag with the
\* other's action.
ThrottleHasAnEnd ==
  (\A a \in Activities : pc[a] \notin Between) => (Throttled <=> powerLevelAction # "NONE")

\* "60Hz operation will only be re-enabled after the headset has been taken
\* off the user's head" (VrApi.cpp:538): after the throttle began, or just
\* before it in a report that no frame had handled.
ThrottleOutlastsRide == [][Throttled /\ ~ Throttled' => unmountSince]_vars

\* Once a VR thread has read that the headset is off, the throttle that waits for
\* that ends, if the phone has cooled down for good and some activity stays in
\* front: through the reset of the state and of the action, whichever threads
\* come to handle them, and one check a second.
UnmountEndsThrottle ==
  <>[](level = "NORMAL" /\ Front # "none") =>
    (powerLevelAction = "WAITING_FOR_UNMOUNT" /\ (\E a \in Activities : seen[a].mount = "UNMOUNTED"))
      ~> (~ Throttled \/ powerLevelAction = "WAITING_FOR_UNDOCK")

\* Pulling the phone out finishes the application, unless it is put back
\* before a frame has seen that.
UndockFinishes ==
  <>[](Front # "none") => [](HMTDockState = "UNDOCKED" => <>(Finished \/ HMTDockState = "DOCKED"))

=============================================================================
