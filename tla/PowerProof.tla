------------------------------- MODULE PowerProof -------------------------------
(***************************************************************************)
(* Proofs about PowerLevel, for any number of events and whichever         *)
(* activities save power: what an activity in VR mode needs of the process *)
(* runs; a throttle always waits for something, and it ends only after the *)
(* headset was taken off.                                                  *)
(*                                                                         *)
(* All three need what the model leaves open, that no frame outlasts a     *)
(* switch.  Then at most one activity is in VR mode, as only the top one   *)
(* is or has a resume to take (InFront), only an activity in VR mode       *)
(* starts another (FramesInVr, HotFromVr), and no two threads are in       *)
(* ovr_HandleDeviceStateChanges at a time (FramesApart).                   *)
(*                                                                         *)
(* So what a thread has decided is still right when it writes it           *)
(* (Decided).  powerLevelAction becomes WAITING_FOR_RESET only where an    *)
(* unmount is handled, and an unmount that is handled after the throttle   *)
(* was either reported after it, or was on its way, in HMTMountState or    *)
(* in what the VR thread had read, when the throttle began (Pending).      *)
(***************************************************************************)
EXTENDS PowerLevel, SequenceTheorems, TLAPS

-----------------------------------------------------------------------------
(* Types. *)

\* The phone is docked, at the level NORMAL, and the game is to resume.
LEMMA Initially == Init => TypeOK
<1> SUFFICES ASSUME Init PROVE TypeOK
  OBVIOUS
<1>1. /\ inbox \in Seq(Broadcasts) /\ mail \in [Activities -> Seq({"pause", "resume"})]
      /\ pc \in [Activities -> Places]
  BY DEF Init, Activities, Places
<1>2. /\ Paused \in [Activities -> BOOLEAN] /\ inVr \in [Activities -> BOOLEAN]
      /\ seen \in [Activities -> Reads]
  BY DEF Init, Reads, Nothing, Levels
<1>3. \A a \in Activities : pc[a] = "handle" <=> seen[a].mount # "NONE"
  BY DEF Init, Nothing
<1>4. events \in 0..EventBound
  BY PowerAssumption DEF Init
<1> QED
  BY <1>1, <1>2, <1>3, <1>4 DEF Init, TypeOK, Levels, Activities

\* A broadcast joins those the UI thread has yet to deliver.
LEMMA Broadcasting ==
  ASSUME TypeOK, NEW b \in Broadcasts, Broadcast(b)
  PROVE  inbox' \in Seq(Broadcasts)
<1>1. inbox \in Seq(Broadcasts)
  BY DEF TypeOK
<1>2. Append(inbox, b) \in Seq(Broadcasts)
  BY <1>1
<1> QED
  BY <1>1, <1>2 DEF Broadcast

Mails == [Activities -> Seq({"pause", "resume"})]

\* A message joins those of an activity.
LEMMA Mailing ==
  ASSUME TypeOK, NEW a \in Activities, NEW m \in {"pause", "resume"}
  PROVE  [mail EXCEPT ![a] = Append(@, m)] \in Mails
<1>1. mail \in Mails
  BY DEF TypeOK, Mails
<1>2. Append(mail[a], m) \in Seq({"pause", "resume"})
  BY <1>1 DEF Mails
<1> QED
  BY <1>1, <1>2 DEF Mails

\* Starting an activity tells both, the one that leaves and the one that comes.
LEMMA Starting ==
  ASSUME TypeOK, StartActivity
  PROVE  top' \in Activities /\ away' \in BOOLEAN /\ mail' \in Mails
<1>1. mail \in Mails /\ top \in Activities /\ away \in BOOLEAN
  BY DEF TypeOK, Mails
<1>2. top' \in Activities
  BY <1>1 DEF StartActivity, Activities
<1>3. away' \in BOOLEAN
  BY <1>1, Zenon DEF StartActivity
<1>4. /\ mail["pui"] \o <<"pause", "resume">> \in Seq({"pause", "resume"})
      /\ Append(mail["pui"], "resume") \in Seq({"pause", "resume"})
      /\ Append(mail["game"], "pause") \in Seq({"pause", "resume"})
  BY <1>1 DEF Mails, Activities
<1>5. /\ [mail EXCEPT !["pui"] = @ \o <<"pause", "resume">>] \in Mails
      /\ [mail EXCEPT !["pui"] = Append(@, "resume")] \in Mails
      /\ [mail EXCEPT !["game"] = Append(@, "pause"), !["pui"] = Append(@, "resume")] \in Mails
  BY <1>1, <1>4 DEF Mails, Activities
<1>6. Finished \/ Front = "pui" \/ Front = "game" \/ (away /\ ~ Finished)
  BY <1>1 DEF Front, Activities
<1>7. mail' \in Mails
  BY <1>1, <1>5, <1>6 DEF StartActivity
<1> QED
  BY <1>2, <1>3, <1>7

\* A command changes the mode of one activity, and what belongs to the process.
LEMMA CommandType == ASSUME TypeOK, NEW a \in Activities, Command(a) PROVE TypeOK'
<1>1. mail' \in [Activities -> Seq({"pause", "resume"})]
  <2>1. mail' = [mail EXCEPT ![a] = Tail(mail[a])] /\ mail[a] # <<>>
    BY DEF Command
  <2>2. mail[a] \in Seq({"pause", "resume"})
    BY DEF TypeOK
  <2>3. Tail(mail[a]) \in Seq({"pause", "resume"})
    BY <2>1, <2>2
  <2> QED
    BY <2>1, <2>3 DEF TypeOK
<1>2. Paused' \in [Activities -> BOOLEAN]
  <2>1. (Head(mail[a]) = "pause") \in BOOLEAN
    OBVIOUS
  <2> QED
    BY <2>1 DEF Command, TypeOK
<1>3. inVr' \in [Activities -> BOOLEAN]
  <2>1. inVr' = [inVr EXCEPT ![a] = FALSE] \/ inVr' = [inVr EXCEPT ![a] = TRUE]
    BY DEF Command, ovr_LeaveVrMode, ovr_EnterVrMode
  <2> QED
    BY <2>1 DEF TypeOK
<1>4. services' \in BOOLEAN /\ registered' \in BOOLEAN
  BY DEF Command, ovr_LeaveVrMode, ovr_EnterVrMode, TypeOK
<1>5. UNCHANGED <<device, top, away, requests, broadcasts, statics, pc, seen>>
  BY DEF Command
<1> QED
  BY <1>1, <1>2, <1>3, <1>4, <1>5 DEF TypeOK, device, broadcasts, statics, limits

\* A thread moves to another place, with what it has read.
LEMMA Placed ==
  ASSUME TypeOK, NEW a \in Activities, NEW to \in Places, pc' = [pc EXCEPT ![a] = to],
         NEW r \in Reads, seen' = [seen EXCEPT ![a] = r], to = "handle" <=> r.mount # "NONE"
  PROVE  /\ pc' \in [Activities -> Places] /\ seen' \in [Activities -> Reads]
         /\ \A b \in Activities : pc'[b] = "handle" <=> seen'[b].mount # "NONE"
BY DEF TypeOK

\* The types of what moves with a frame.
FrameOK ==
  /\ pc \in [Activities -> Places] /\ seen \in [Activities -> Reads]
  /\ \A a \in Activities : pc[a] = "handle" <=> seen[a].mount # "NONE"

\* A thread moves to another place, and has read nothing.
LEMMA Walked ==
  ASSUME TypeOK, NEW a \in Activities, NEW from \in Places \ {"handle"}, NEW to \in Places \ {"handle"},
         Goes(a, from, to), UNCHANGED seen
  PROVE  FrameOK'
<1>1. pc[a] = from /\ pc' = [pc EXCEPT ![a] = to]
  BY DEF Goes
<1>2. pc' \in [Activities -> Places] /\ seen' \in [Activities -> Reads]
  BY <1>1 DEF TypeOK
<1>3. \A b \in Activities : pc'[b] = "handle" <=> seen'[b].mount # "NONE"
  BY <1>1 DEF TypeOK
<1> QED
  BY <1>2, <1>3 DEF FrameOK

\* Every step of ovr_HandleDeviceStateChanges leads from one of its places to another.
LEMMA FrameType ==
  ASSUME TypeOK, NEW a \in Activities,
         \/ ReadDock(a) \/ ClearDock(a) \/ ExitUndocked(a)
         \/ ReadMount(a) \/ ClearMount(a) \/ HandleMounted(a) \/ HandleUnmounted(a)
         \/ ReadPowerLevel(a) \/ Decide(a) \/ ActOnPowerLevel(a) \/ Warn(a)
  PROVE  FrameOK'
<1>1. /\ seen[a] \in Reads /\ HMTMountState \in {"NONE", "MOUNTED", "UNMOUNTED"}
      /\ PowerLevelRead \in Levels
      /\ pc[a] = "handle" <=> seen[a].mount # "NONE"
      /\ Nothing \in Reads /\ Nothing.mount = "NONE"
  BY DEF TypeOK, PowerLevelRead, Levels, Reads, Nothing
<1>2. CASE ReadDock(a) \/ ClearDock(a) \/ ExitUndocked(a) \/ Warn(a)
  <2>1. PICK from \in Places \ {"handle"}, to \in Places \ {"handle"} : Goes(a, from, to)
    BY <1>2 DEF ReadDock, ClearDock, ExitUndocked, Warn, Places
  <2> QED
    BY <1>2, <2>1, Walked DEF ReadDock, ClearDock, ExitUndocked, Warn
<1>3. CASE ReadMount(a)
  <2>1. PICK r : r = [seen[a] EXCEPT !.mount = HMTMountState]
    OBVIOUS
  <2>a. r \in Reads /\ r.mount = HMTMountState
    BY <1>1, <2>1 DEF Reads
  <2>2. PICK to \in Places : to = MountStep
    BY DEF MountStep, Places
  <2>3. /\ pc' = [pc EXCEPT ![a] = to] /\ seen' = [seen EXCEPT ![a] = r]
        /\ to = "handle" <=> r.mount # "NONE"
    BY <1>3, <2>1, <2>a, <2>2 DEF ReadMount, Goes, MountStep
  <2> QED
    BY <2>a, <2>3, Placed DEF FrameOK
<1>4. CASE ClearMount(a)
  <2>1. PICK to \in Places \ {"handle"} : pc' = [pc EXCEPT ![a] = to]
    <3>1. PICK to : to = (IF seen[a].mount = "MOUNTED" THEN "mounted" ELSE "unmounted")
      OBVIOUS
    <3>2. to \in Places \ {"handle"} /\ pc' = [pc EXCEPT ![a] = to]
      BY <1>4, <3>1 DEF ClearMount, Goes, Places
    <3> QED
      BY <3>2
  <2>2. seen' = [seen EXCEPT ![a] = Nothing]
    BY <1>4 DEF ClearMount
  <2> QED
    BY <1>1, <2>1, <2>2, Placed DEF FrameOK
<1>5. CASE HandleMounted(a) \/ HandleUnmounted(a)
  <2>1. PICK from \in Places \ {"handle"}, to \in Places \ {"handle"} : Goes(a, from, to)
    BY <1>5 DEF HandleMounted, HandleUnmounted, Places
  <2> QED
    BY <1>5, <2>1, Walked DEF HandleMounted, HandleUnmounted
<1>6. CASE ReadPowerLevel(a)
  <2>1. CASE UNCHANGED seen /\ Goes(a, "power", IF checked THEN "top" ELSE "ask")
    <3>1. PICK to \in Places \ {"handle"} : Goes(a, "power", to)
      BY <2>1 DEF Places
    <3> QED
      BY <2>1, <3>1, Walked DEF Places
  <2>2. CASE Goes(a, "ask", "act") /\ seen' = [seen EXCEPT ![a].level = PowerLevelRead]
    <3>1. PICK r : r = [seen[a] EXCEPT !.level = PowerLevelRead]
      OBVIOUS
    <3>a. r \in Reads /\ r.mount = seen[a].mount
      BY <1>1, <3>1 DEF Reads
    <3>2. /\ pc' = [pc EXCEPT ![a] = "act"] /\ seen' = [seen EXCEPT ![a] = r]
          /\ "act" \in Places /\ r.mount = "NONE"
      BY <1>1, <2>2, <3>1, <3>a DEF Goes, Places
    <3> QED
      BY <3>a, <3>2, Placed DEF FrameOK
  <2> QED
    BY <1>6, <2>1, <2>2 DEF ReadPowerLevel
<1>7. CASE Decide(a)
  <2>1. CASE Goes(a, "act", Decision(a)) /\ seen' = [seen EXCEPT ![a] = Nothing]
    <3>1. PICK to \in Places \ {"handle"} : pc' = [pc EXCEPT ![a] = to]
      BY <2>1 DEF Goes, Decision, Places
    <3> QED
      BY <1>1, <2>1, <3>1, Placed DEF FrameOK
  <2>2. CASE UNCHANGED seen /\ pc[a] = "cannot"
    <3>1. PICK to \in Places \ {"handle"} : Goes(a, "cannot", to)
      BY <1>7, <2>2 DEF Decide, Goes, Places
    <3> QED
      BY <2>2, <3>1, Walked DEF Places
  <2> QED
    BY <1>7, <2>1, <2>2 DEF Decide, Goes
<1>8. CASE ActOnPowerLevel(a)
  <2>1. PICK from \in Places \ {"handle"}, to \in Places \ {"handle"} : Goes(a, from, to)
    BY <1>8 DEF ActOnPowerLevel, Reset, PowerSave, CannotContinue, Places
  <2> QED
    BY <1>8, <2>1, Walked DEF ActOnPowerLevel
<1> QED
  BY <1>2, <1>3, <1>4, <1>5, <1>6, <1>7, <1>8

\* The variables keep their types.
LEMMA TypeStep == TypeOK /\ [Next]_vars => TypeOK'
<1> SUFFICES ASSUME TypeOK, [Next]_vars PROVE TypeOK'
  OBVIOUS
<1> USE PowerAssumption DEF TypeOK, Levels, Activities, Broadcasts, device, task, broadcasts, statics,
    limits, vrmode, quiet, hidden
<1>a. mail \in Mails
  BY DEF Mails
<1>1. CASE PutOnOrTakeOff
  BY <1>1 DEF PutOnOrTakeOff, Event, Broadcast
<1>2. CASE PullOutOrPutBack
  BY <1>2 DEF PullOutOrPutBack, Event, Broadcast
<1>3. CASE OthersHandleMount
  BY <1>3 DEF OthersHandleMount, Broadcast
<1>4. CASE HeatUpOrCoolDown
  BY <1>4 DEF HeatUpOrCoolDown, Event
<1>5. CASE SecondPasses
  BY <1>5 DEF SecondPasses
<1>6. CASE GoAway
  BY <1>6 DEF GoAway, Event, Tell
<1>7. CASE ComeBack
  <2>1. mail' \in Mails
    BY <1>7, Mailing DEF ComeBack, Tell
  <2> QED
    BY <1>7, <2>1 DEF ComeBack, Mails
<1>8. CASE Receive
  <2>1. Head(inbox) \in Broadcasts /\ inbox' \in Seq(Broadcasts)
    BY <1>8 DEF Receive
  <2>2. /\ HMTMountState' \in {"NONE", "MOUNTED", "UNMOUNTED"}
        /\ HMTDockState' \in {"NONE", "DOCKED", "UNDOCKED"}
    BY <1>8, <2>1 DEF Receive, nativeProximitySensor, nativeMountHandled, nativeDockEvent
  <2>3. unmountSince' \in BOOLEAN
    BY <1>8, <2>1 DEF Receive, nativeProximitySensor, nativeMountHandled, nativeDockEvent
  <2> QED
    BY <1>8, <2>1, <2>2, <2>3 DEF Receive
<1>9. CASE PuiFinishes
  <2>1. /\ Append(mail["game"], "resume") \in Seq({"pause", "resume"})
        /\ Append(mail["pui"], "pause") \in Seq({"pause", "resume"})
    BY <1>a DEF Mails
  <2>2. mail' \in Mails
    BY <1>9, <1>a, <2>1 DEF PuiFinishes, Mails
  <2> QED
    BY <1>9, <2>2 DEF PuiFinishes, Mails
<1>10. CASE StartPlatformUI
  <2>1. top' \in Activities /\ away' \in BOOLEAN /\ mail' \in Mails
    BY <1>10, Starting DEF StartPlatformUI, ovr_StartPackageActivity
  <2>2. inVr' \in [Activities -> BOOLEAN]
    BY <1>10 DEF StartPlatformUI, ovr_StartPackageActivity, ovr_LeaveVrMode
  <2>3. services' \in BOOLEAN
    BY <1>10 DEF StartPlatformUI, ovr_StartPackageActivity, ovr_LeaveVrMode
  <2>4. events' \in 0..EventBound
    BY <1>10 DEF StartPlatformUI, Event
  <2> QED
    BY <1>10, <2>1, <2>2, <2>3, <2>4 DEF StartPlatformUI, ovr_StartPackageActivity, ovr_LeaveVrMode, Mails
<1>11. CASE ExitPlatformUI
  BY <1>11 DEF ExitPlatformUI, ovr_LeaveVrMode, Stops
<1>12. CASE Gone
  BY <1>12 DEF Gone, vars
<1>13. ASSUME NEW a \in Activities, Command(a) PROVE TypeOK'
  BY <1>13, CommandType
<1>14. ASSUME NEW a \in Activities, ReadDock(a) \/ ClearDock(a) \/ ReadMount(a) \/ ClearMount(a)
       PROVE  TypeOK'
  <2>1. FrameOK'
    BY <1>14, FrameType
  <2>2. HMTMountState' \in {"NONE", "MOUNTED", "UNMOUNTED"} /\ HMTDockState' \in {"NONE", "DOCKED", "UNDOCKED"}
    BY <1>14 DEF ReadDock, ClearDock, ReadMount, ClearMount
  <2>3. UNCHANGED <<device, task, inbox, statics, vrmode>>
    BY <1>14 DEF ReadDock, ClearDock, ReadMount, ClearMount
  <2> QED
    BY <2>1, <2>2, <2>3 DEF FrameOK
<1>15. ASSUME NEW a \in Activities, ExitUndocked(a) PROVE TypeOK'
  <2>1. FrameOK'
    BY <1>15, FrameType
  <2>2. inVr' \in [Activities -> BOOLEAN] /\ registered' \in BOOLEAN
    BY <1>15 DEF ExitUndocked, ExitsActivity, ovr_LeaveVrMode
  <2>3. services' \in BOOLEAN
    BY <1>15 DEF ExitUndocked, ExitsActivity, ovr_LeaveVrMode
  <2>4. requests' \subseteq {"finishPui", "finishAll"}
    BY <1>15 DEF ExitUndocked, ExitsActivity
  <2> QED
    BY <1>15, <2>1, <2>2, <2>3, <2>4 DEF ExitUndocked, FrameOK
<1>16. ASSUME NEW a \in Activities, HandleMounted(a) \/ HandleUnmounted(a) PROVE TypeOK'
  <2>1. FrameOK'
    BY <1>16, FrameType
  <2>2. inbox' \in Seq(Broadcasts)
    BY <1>16, Broadcasting DEF HandleMounted, HandleUnmounted
  <2>3. /\ hmtIsMounted' \in BOOLEAN
        /\ powerLevelAction' \in {"NONE", "WAITING_FOR_UNMOUNT", "WAITING_FOR_UNDOCK",
                                  "WAITING_FOR_RESET"}
    BY <1>16 DEF HandleMounted, HandleUnmounted
  <2>4. UNCHANGED <<device, task, HMTMountState, HMTDockState, Throttled, Minimum, checked,
                    unmountSince, vrmode>>
    BY <1>16 DEF HandleMounted, HandleUnmounted
  <2> QED
    BY <2>1, <2>2, <2>3, <2>4 DEF FrameOK
<1>17. ASSUME NEW a \in Activities, ReadPowerLevel(a) \/ Decide(a) PROVE TypeOK'
  <2>1. FrameOK'
    BY <1>17, FrameType
  <2>2. checked' \in BOOLEAN
    BY <1>17 DEF ReadPowerLevel, Decide
  <2>3. UNCHANGED <<device, task, broadcasts, hmtIsMounted, limits, unmountSince, vrmode>>
    BY <1>17 DEF ReadPowerLevel, Decide
  <2> QED
    BY <2>1, <2>2, <2>3 DEF FrameOK
<1>18. ASSUME NEW a \in Activities, ActOnPowerLevel(a) PROVE TypeOK'
  <2>1. FrameOK'
    BY <1>18, FrameType
  <2>2. /\ {Throttled', Minimum'} \subseteq BOOLEAN
        /\ powerLevelAction' \in {"NONE", "WAITING_FOR_UNMOUNT", "WAITING_FOR_UNDOCK",
                                  "WAITING_FOR_RESET"}
    BY <1>18 DEF ActOnPowerLevel, Reset, PowerSave, CannotContinue, Sets
  <2>3. unmountSince' \in BOOLEAN
    <3>1. UnmountPending \in BOOLEAN /\ unmountSince \in BOOLEAN
      BY Zenon DEF UnmountPending
    <3>2. unmountSince' = UnmountPending \/ unmountSince' = unmountSince
      BY <1>18, Zenon DEF ActOnPowerLevel
    <3> QED
      BY <3>1, <3>2, Zenon
  <2>4. UNCHANGED <<device, task, broadcasts, hmtIsMounted, checked, vrmode>>
    BY <1>18 DEF ActOnPowerLevel
  <2> QED
    BY <2>1, <2>2, <2>3, <2>4 DEF FrameOK
<1>20. ASSUME NEW a \in Activities, Warn(a) PROVE TypeOK'
  <2>1. FrameOK'
    BY <1>20, FrameType
  <2>2. StartActivity /\ ovr_LeaveVrMode(a)
    BY <1>20 DEF Warn, ovr_StartPackageActivity
  <2>3. top' \in Activities /\ away' \in BOOLEAN /\ mail' \in Mails
    BY <2>2, Starting
  <2>4. inVr' \in [Activities -> BOOLEAN] /\ registered' \in BOOLEAN
    BY <2>2 DEF ovr_LeaveVrMode
  <2>5. services' \in BOOLEAN
    BY <2>2 DEF ovr_LeaveVrMode
  <2> QED
    BY <1>20, <2>1, <2>3, <2>4, <2>5 DEF Warn, FrameOK, Mails
<1>19. CASE UNCHANGED vars
  BY <1>19 DEF vars
<1> QED
  BY <1>1, <1>2, <1>3, <1>4, <1>5, <1>6, <1>7, <1>8, <1>9, <1>10, <1>11, <1>12, <1>13,
     <1>14, <1>15, <1>16, <1>17, <1>18, <1>19, <1>20 DEF Next, UiThread, VrThread

\* The variables stay within their types, however long a frame lasts.
THEOREM TypeCorrect == Spec => []TypeOK
BY Initially, TypeStep, PTL DEF Spec

-----------------------------------------------------------------------------
(* Which activity is in VR mode. *)

\* A resume is in a mailbox, what is last in it, and no more than one resume is.
Has(s) == \E i \in 1..Len(s) : s[i] = "resume"

Last(s) == s[Len(s)]

OnlyOne(s) == \A i, j \in 1..Len(s) : s[i] = "resume" /\ s[j] = "resume" => i = j

Resuming(a) == Has(mail[a])

\* The last that an activity was told, whether it has taken it yet or not, is to resume.
Facing(a) == IF mail[a] = <<>> THEN ~ Paused[a] ELSE Last(mail[a]) = "resume"

\* Only the top activity is in VR mode or will be, and not once the platform UI
\* is to finish: both have left it by then.
InFront == \A a \in Activities : inVr[a] \/ Resuming(a) => a = top /\ "finishPui" \notin requests

\* It will enter once, and not while it is there.
EnteredOnce == \A a \in Activities :
  OnlyOne(mail[a]) /\ (inVr[a] => ~ Paused[a] /\ ~ Resuming(a))

FaceIsTop == \A a \in Activities : Facing(a) => a = top /\ ~ away

\* An activity that begins a frame is in VR mode, unless something is to finish.
FramesInVr == \A a \in Activities :
  mail[a] = <<>> /\ ~ Paused[a] /\ ~ Finished => inVr[a] \/ "finishPui" \in requests

PuiOnTop == "finishPui" \in requests => top = "pui"

\* Next to an activity in VR mode, one that is to finish or one in a frame no
\* frame of the other goes on.
FramesApart == \A a, b \in Activities :
  b # a /\ (inVr[a] \/ ("finishPui" \in requests /\ a = top) \/ pc[a] # "top") => pc[b] = "top"

\* The steps after a level other than NORMAL.
Hot == {"cannot", "save", "saveAction", "stop", "stopMinimum", "stopAction", "start"}

\* Who has read a power level that is not NORMAL has read it in VR mode.
HotFromVr == \A a \in Activities :
  /\ seen[a].level # "NORMAL" => pc[a] = "act" /\ inVr[a]
  /\ pc[a] \in Hot => inVr[a]

ServicesOn == services <=> \E a \in Activities : inVr[a]

Boxes == InFront /\ EnteredOnce /\ FaceIsTop /\ PuiOnTop

Switch == Boxes /\ FramesInVr /\ FramesApart /\ HotFromVr /\ ServicesOn

Messages == {"pause", "resume"}

\* A message at the end of a mailbox.
LEMMA Told ==
  ASSUME NEW s \in Seq(Messages), NEW m \in Messages, NEW t, t = Append(s, m)
  PROVE  /\ t \in Seq(Messages) /\ t # <<>> /\ Last(t) = m
         /\ Has(t) <=> Has(s) \/ m = "resume"
         /\ OnlyOne(s) /\ (m = "pause" \/ ~ Has(s)) => OnlyOne(t)
<1>1. /\ t \in Seq(Messages) /\ Len(s) \in Nat /\ Len(t) = Len(s) + 1 /\ t[Len(s) + 1] = m
      /\ \A i \in 1..Len(s) : t[i] = s[i]
  BY AppendProperties, LenProperties
<1>2. t # <<>> /\ Last(t) = m
  BY <1>1, EmptySeq DEF Last
<1>3. Has(t) <=> Has(s) \/ m = "resume"
  <2>1. ASSUME Has(t) PROVE Has(s) \/ m = "resume"
    <3>1. PICK i \in 1..Len(t) : t[i] = "resume"
      BY <2>1 DEF Has
    <3>2. i \in 1..Len(s) \/ i = Len(s) + 1
      BY <1>1
    <3> QED
      BY <1>1, <3>1, <3>2 DEF Has
  <2>2. ASSUME Has(s) PROVE Has(t)
    <3>1. PICK i \in 1..Len(s) : s[i] = "resume"
      BY <2>2 DEF Has
    <3>2. i \in 1..Len(t) /\ t[i] = "resume"
      BY <1>1, <3>1
    <3> QED
      BY <3>2 DEF Has
  <2>3. ASSUME m = "resume" PROVE Has(t)
    <3>1. Len(s) + 1 \in 1..Len(t)
      BY <1>1
    <3> QED
      BY <1>1, <2>3, <3>1 DEF Has
  <2> QED
    BY <2>1, <2>2, <2>3
<1>4. ASSUME OnlyOne(s), m = "pause" \/ ~ Has(s), NEW i \in 1..Len(t), NEW j \in 1..Len(t),
             t[i] = "resume", t[j] = "resume"
      PROVE  i = j
  <2>1. (i \in 1..Len(s) \/ i = Len(s) + 1) /\ (j \in 1..Len(s) \/ j = Len(s) + 1)
    BY <1>1
  <2> QED
    BY <1>1, <1>4, <2>1 DEF OnlyOne, Has
<1> QED
  BY <1>1, <1>2, <1>3, <1>4 DEF OnlyOne

\* The first message leaves a mailbox.
LEMMA Heard ==
  ASSUME NEW s \in Seq(Messages), s # <<>>, NEW t, t = Tail(s)
  PROVE  /\ t \in Seq(Messages) /\ Head(s) \in Messages
         /\ Head(s) = "resume" => Has(s)
         /\ Has(t) => Has(s)
         /\ OnlyOne(s) => OnlyOne(t) /\ (Head(s) = "resume" => ~ Has(t))
         /\ t = <<>> => Last(s) = Head(s)
         /\ t # <<>> => Last(t) = Last(s)
<1>1. /\ t \in Seq(Messages) /\ Head(s) \in Messages /\ Head(s) = s[1]
      /\ Len(s) \in Nat \ {0} /\ Len(t) = Len(s) - 1
      /\ \A i \in 1..Len(t) : t[i] = s[i + 1] /\ i + 1 \in 1..Len(s) /\ i \in Nat \ {0}
  BY HeadTailProperties, EmptySeq, LenProperties
<1>2. Head(s) = "resume" => Has(s)
  <2>1. 1 \in 1..Len(s)
    BY <1>1
  <2> QED
    BY <1>1, <2>1 DEF Has
<1>3. Has(t) => Has(s)
  BY <1>1 DEF Has
<1>4. ASSUME OnlyOne(s), NEW i \in 1..Len(t), t[i] = "resume"
      PROVE  Head(s) # "resume" /\ \A j \in 1..Len(t) : t[j] = "resume" => i = j
  <2>1. i + 1 \in 1..Len(s) /\ s[i + 1] = "resume" /\ i \in Nat \ {0}
    BY <1>1, <1>4
  <2>2. Head(s) # "resume"
    <3>1. 1 \in 1..Len(s) /\ 1 # i + 1
      BY <1>1, <2>1
    <3> QED
      BY <1>1, <1>4, <2>1, <3>1 DEF OnlyOne
  <2>3. ASSUME NEW j \in 1..Len(t), t[j] = "resume" PROVE i = j
    <3>1. i + 1 = j + 1
      BY <1>1, <1>4, <2>1, <2>3 DEF OnlyOne
    <3> QED
      BY <1>1, <3>1
  <2> QED
    BY <2>2, <2>3
<1>5. ASSUME t = <<>> PROVE Last(s) = Head(s)
  <2>1. Len(t) = 0
    BY <1>5, EmptySeq
  <2>2. Len(s) = 1
    BY <1>1, <2>1
  <2> QED
    BY <1>1, <2>2 DEF Last
<1>6. ASSUME t # <<>> PROVE Last(t) = Last(s)
  <2>1. Len(t) \in 1..Len(t) /\ Len(t) + 1 = Len(s)
    BY <1>1, <1>6, EmptySeq
  <2> QED
    BY <1>1, <2>1 DEF Last
<1>7. OnlyOne(s) => OnlyOne(t)
  BY <1>4 DEF OnlyOne
<1>8. OnlyOne(s) /\ Head(s) = "resume" => ~ Has(t)
  BY <1>4 DEF Has
<1> QED
  BY <1>1, <1>2, <1>3, <1>5, <1>6, <1>7, <1>8
\* The types the lemmas about mailboxes ask for.
LEMMA Boxed ==
  ASSUME TypeOK
  PROVE  /\ mail \in [Activities -> Seq(Messages)] /\ \A a \in Activities : mail[a] \in Seq(Messages)
         /\ inVr \in [Activities -> BOOLEAN] /\ Paused \in [Activities -> BOOLEAN]
         /\ top \in Activities /\ away \in BOOLEAN
BY DEF TypeOK, Messages

\* The activity in VR mode starts the platform UI: both have left VR mode, and
\* the platform UI is the one to enter it.
LEMMA SwitchStarted ==
  ASSUME TypeOK, Switch, NEW a \in Activities, inVr[a], StartActivity,
         inVr' = [inVr EXCEPT ![a] = FALSE], UNCHANGED <<requests, Paused>>
  PROVE  Boxes' /\ FramesInVr'
<1>1. /\ a = top /\ "finishPui" \notin requests /\ "finishPui" \notin requests'
      /\ ~ Resuming(a) /\ \A b \in Activities \ {a} : ~ inVr[b] /\ ~ Resuming(b)
  BY DEF Switch, Boxes, InFront, EnteredOnce
<1>2. /\ mail \in [Activities -> Seq(Messages)] /\ \A b \in Activities : mail[b] \in Seq(Messages)
      /\ top \in Activities /\ away \in BOOLEAN
  BY Boxed
<1>3. \A b \in Activities : OnlyOne(mail[b]) /\ ~ Has(mail[b]) /\ ~ inVr'[b]
  <2>1. \A b \in Activities : OnlyOne(mail[b])
    BY DEF Switch, Boxes, EnteredOnce
  <2>2. \A b \in Activities : ~ Has(mail[b])
    BY <1>1 DEF Resuming
  <2>3. \A b \in Activities : ~ inVr'[b]
    BY <1>1, Boxed
  <2> QED
    BY <2>1, <2>2, <2>3
<1>m. PICK p \in Seq(Messages), g \in Seq(Messages), re \in Messages, pa \in Messages :
        p = mail["pui"] /\ g = mail["game"] /\ re = "resume" /\ pa = "pause"
  BY <1>2 DEF Activities, Messages
<1>o. re = "resume" /\ pa = "pause"
  BY <1>m
<1>n. OnlyOne(p) /\ ~ Has(p) /\ OnlyOne(g) /\ ~ Has(g)
  BY <1>3, <1>m DEF Activities
<1>4. CASE Finished
  <2>1. mail' = mail /\ top' = top
    BY <1>4 DEF StartActivity, Front
  <2>2. away' = away
    BY <1>2, <1>4, Zenon DEF StartActivity
  <2>3. InFront' /\ PuiOnTop' /\ FramesInVr'
    BY <1>1, <1>3, <1>4, <2>1 DEF InFront, PuiOnTop, FramesInVr, Resuming, Finished
  <2>4. EnteredOnce'
    BY <1>3, <2>1 DEF EnteredOnce
  <2>5. FaceIsTop'
    BY <2>1, <2>2 DEF Switch, Boxes, FaceIsTop, Facing
  <2> QED
    BY <2>3, <2>4, <2>5 DEF Boxes
<1>5. CASE ~ Finished
  <2>1. top' = "pui" /\ ~ away'
    BY <1>5 DEF StartActivity
  <2>2. /\ OnlyOne(mail'["pui"]) /\ mail'["pui"] # <<>>
        /\ OnlyOne(mail'["game"]) /\ ~ Has(mail'["game"]) /\ ~ Facing("game")'
    <3>1. CASE Front = "pui"
      <4>1. top = "pui" /\ ~ away
        BY <3>1 DEF Front
      <4>2. mail'["pui"] = p \o <<pa, re>> /\ mail'["game"] = g
        BY <1>2, <1>5, <1>m, <3>1 DEF StartActivity, Front, Activities
      <4>3. PICK u : u = Append(p, pa)
        OBVIOUS
      <4>4. OnlyOne(u) /\ ~ Has(u) /\ u \in Seq(Messages)
        BY <1>n, <1>o, <4>3, Told
      <4>5. PICK v : v = Append(u, re) /\ mail'["pui"] = v
        <5>1. p \o <<pa, re>> = Append(Append(p, pa), re)
          OBVIOUS
        <5> QED
          BY <4>2, <4>3, <5>1
      <4>6. OnlyOne(mail'["pui"]) /\ mail'["pui"] # <<>>
        <5>1. OnlyOne(v) /\ v # <<>>
          BY <4>4, <4>5, Told
        <5> QED
          BY <4>5, <5>1
      <4>7. ~ Facing("game")
        BY <4>1 DEF Switch, Boxes, FaceIsTop, Activities
      <4>8. ~ Facing("game")'
        BY <1>m, <4>2, <4>7 DEF Facing
      <4> QED
        BY <1>m, <1>n, <4>2, <4>6, <4>8
    <3>2. CASE Front = "game"
      <4>1. PICK u, v : /\ u = Append(p, re) /\ mail'["pui"] = u
                        /\ v = Append(g, pa) /\ mail'["game"] = v
        BY <1>2, <1>5, <1>m, <3>2 DEF StartActivity, Front, Activities
      <4>2. OnlyOne(u) /\ u # <<>>
        BY <1>n, <4>1, Told
      <4>3. OnlyOne(v) /\ ~ Has(v) /\ v # <<>> /\ Last(v) = "pause"
        <5>1. OnlyOne(v) /\ ~ Has(v)
          BY <1>n, <1>o, <4>1, Told
        <5>2. v # <<>> /\ Last(v) = pa
          BY <4>1, Told
        <5> QED
          BY <1>o, <5>1, <5>2
      <4>4. ~ Facing("game")'
        BY <4>1, <4>3 DEF Facing
      <4> QED
        BY <4>1, <4>2, <4>3, <4>4
    <3>3. CASE away
      <4>1. PICK u : u = Append(p, re) /\ mail'["pui"] = u /\ mail'["game"] = mail["game"]
        BY <1>2, <1>5, <1>m, <3>3 DEF StartActivity, Activities, Front
      <4>2. OnlyOne(u) /\ u # <<>>
        BY <1>n, <4>1, Told
      <4>3. ~ Facing("game")
        BY <3>3 DEF Switch, Boxes, FaceIsTop, Activities
      <4>4. ~ Facing("game")'
        BY <4>1, <4>3 DEF Facing
      <4> QED
        BY <1>m, <1>n, <4>1, <4>2, <4>4
    <3> QED
      BY <1>2, <1>5, <3>1, <3>2, <3>3 DEF Front, Activities
  <2>3. InFront'
    BY <1>1, <1>3, <2>1, <2>2 DEF InFront, Resuming, Activities
  <2>4. EnteredOnce'
    BY <1>3, <2>2 DEF EnteredOnce, Activities
  <2>5. FaceIsTop'
    BY <2>1, <2>2 DEF FaceIsTop, Activities
  <2>6. PuiOnTop'
    BY <2>1 DEF PuiOnTop
  <2>7. FramesInVr'
    BY <2>2 DEF FramesInVr, Facing, Activities
  <2> QED
    BY <2>3, <2>4, <2>5, <2>6, <2>7 DEF Boxes
<1> QED
  BY <1>4, <1>5
\* One activity is told something.
LEMMA Telling ==
  ASSUME TypeOK, NEW a \in Activities, NEW m \in Messages,
         mail' = [mail EXCEPT ![a] = Append(@, m)]
  PROVE  /\ \A b \in Activities \ {a} : mail'[b] = mail[b]
         /\ mail'[a] # <<>> /\ Last(mail'[a]) = m
         /\ Has(mail'[a]) <=> Has(mail[a]) \/ m = "resume"
         /\ OnlyOne(mail[a]) /\ (m = "pause" \/ ~ Has(mail[a])) => OnlyOne(mail'[a])
<1>1. mail \in [Activities -> Seq(Messages)]
  BY Boxed
<1>2. PICK s, t : s \in Seq(Messages) /\ s = mail[a] /\ t = Append(s, m) /\ t = mail'[a]
  BY <1>1
<1>3. \A b \in Activities \ {a} : mail'[b] = mail[b]
  BY <1>1
<1>4. t # <<>> /\ Last(t) = m
  BY <1>2, Told
<1>5. Has(t) <=> Has(s) \/ m = "resume"
  BY <1>2, Told
<1>6. OnlyOne(s) /\ (m = "pause" \/ ~ Has(s)) => OnlyOne(t)
  BY <1>2, Told
<1> QED
  BY <1>2, <1>3, <1>4, <1>5, <1>6

\* Mail and the task alone change.
LEMMA SwitchMailed ==
  ASSUME Switch, Boxes', FramesInVr', UNCHANGED <<services, inVr, pc, seen>>,
         "finishPui" \in requests' => "finishPui" \in requests /\ top' = top
  PROVE  Switch'
BY DEF Switch, FramesApart, HotFromVr, ServicesOn

\* Nothing of the switch changes but how far a frame is.
LEMMA SwitchKept ==
  ASSUME Switch, UNCHANGED <<top, away, requests, mail, services, inVr, Paused>>,
         NEW a \in Activities, \A b \in Activities \ {a} : pc'[b] = pc[b] /\ seen'[b] = seen[b],
         pc'[a] # "top" => pc[a] # "top" \/ inVr[a] \/ ("finishPui" \in requests /\ a = top),
         seen'[a].level # "NORMAL" => pc'[a] = "act" /\ inVr[a],
         pc'[a] \in Hot => inVr[a]
  PROVE  Switch'
<1>1. Boxes'
  BY DEF Switch, Boxes, InFront, EnteredOnce, FaceIsTop, PuiOnTop, Resuming, Facing
<1>2. FramesInVr' /\ ServicesOn'
  BY DEF Switch, FramesInVr, ServicesOn, Finished
<1>3. ASSUME NEW b \in Activities, NEW c \in Activities, c # b,
             inVr[b] \/ ("finishPui" \in requests /\ b = top) \/ pc'[b] # "top"
      PROVE  pc'[c] = "top"
  <2>1. inVr[b] \/ ("finishPui" \in requests /\ b = top) \/ pc[b] # "top"
    BY <1>3
  <2>2. pc[c] = "top"
    BY <1>3, <2>1 DEF Switch, FramesApart
  <2>3. CASE c = a /\ inVr[a]
    <3>1. a = top /\ "finishPui" \notin requests /\ ~ inVr[b]
      BY <1>3, <2>3 DEF Switch, Boxes, InFront
    <3>2. pc[b] = "top"
      BY <1>3, <2>3 DEF Switch, FramesApart
    <3> QED
      BY <2>1, <3>1, <3>2
  <2>4. CASE c = a /\ "finishPui" \in requests /\ a = top
    <3>1. ~ inVr[b] /\ b # top
      BY <1>3, <2>4 DEF Switch, Boxes, InFront
    <3>2. pc[b] = "top"
      BY <1>3, <2>4 DEF Switch, FramesApart
    <3> QED
      BY <2>1, <3>1, <3>2
  <2> QED
    BY <2>2, <2>3, <2>4
<1>4. FramesApart'
  BY <1>3 DEF FramesApart
<1>5. HotFromVr'
  BY DEF Switch, HotFromVr
<1> QED
  BY <1>1, <1>2, <1>4, <1>5 DEF Switch

\* Another application comes in front.
LEMMA SwitchGoAway ==
  ASSUME TypeOK, Switch, GoAway
  PROVE  Switch'
<1>1. /\ ~ Finished /\ top \in Activities /\ "pause" \in Messages
      /\ mail' = [mail EXCEPT ![top] = Append(@, "pause")]
      /\ away' = TRUE /\ UNCHANGED <<top, requests, inVr, Paused, services, pc, seen>>
  BY Boxed DEF GoAway, Front, Tell, hidden, vrmode, Messages
<1>2. PICK a \in Activities, m \in Messages :
        a = top /\ m = "pause" /\ mail' = [mail EXCEPT ![a] = Append(@, m)]
  BY <1>1
<1>3. \A b \in Activities \ {a} : mail'[b] = mail[b]
  BY <1>2, Telling
<1>4. mail'[a] # <<>> /\ Last(mail'[a]) = m
  <2>1. mail'[a] # <<>>
    BY <1>2, Telling
  <2>2. Last(mail'[a]) = m
    BY <1>2, Telling
  <2> QED
    BY <2>1, <2>2
<1>5. Has(mail'[a]) <=> Has(mail[a])
  BY <1>2, Telling
<1>6. OnlyOne(mail'[a])
  BY <1>2, Telling DEF Switch, Boxes, EnteredOnce
<1>7. \A b \in Activities : (Has(mail'[b]) <=> Has(mail[b])) /\ OnlyOne(mail'[b]) /\ ~ Facing(b)'
  <2>1. ~ Facing(a)'
    BY <1>2, <1>4 DEF Facing
  <2>2. ASSUME NEW b \in Activities \ {a} PROVE OnlyOne(mail'[b]) /\ ~ Facing(b)'
    BY <1>1, <1>2, <1>3 DEF Switch, Boxes, EnteredOnce, FaceIsTop, Facing
  <2> QED
    BY <1>3, <1>5, <1>6, <2>1, <2>2
<1>8. InFront' /\ EnteredOnce'
  BY <1>1, <1>7 DEF Switch, Boxes, InFront, EnteredOnce, Resuming
<1>9. FaceIsTop' /\ PuiOnTop'
  BY <1>1, <1>7 DEF Switch, Boxes, FaceIsTop, PuiOnTop
<1>10. FramesInVr'
  BY <1>7 DEF FramesInVr, Facing
<1> QED
  BY <1>1, <1>8, <1>9, <1>10, SwitchMailed DEF Boxes

\* The top activity is in front again.
LEMMA SwitchComeBack ==
  ASSUME TypeOK, Switch, ComeBack
  PROVE  Switch'
<1>1. /\ away /\ requests = {} /\ mail[top] = <<>> /\ top \in Activities
      /\ mail' = [mail EXCEPT ![top] = Append(@, "resume")]
      /\ away' = FALSE /\ UNCHANGED <<top, requests, inVr, Paused, services, pc, seen>>
  BY Boxed DEF ComeBack, Tell, hidden, vrmode
<1>2. PICK a \in Activities, m \in Messages :
        a = top /\ m = "resume" /\ mail' = [mail EXCEPT ![a] = Append(@, m)]
  BY <1>1 DEF Messages
<1>3. \A b \in Activities \ {a} : mail'[b] = mail[b]
  BY <1>2, Telling
<1>4. mail'[a] # <<>> /\ ~ Has(mail[a])
  <2>1. Len(mail[a]) = 0
    BY <1>1, <1>2, EmptySeq
  <2>2. ~ Has(mail[a])
    BY <2>1 DEF Has
  <2>3. mail'[a] # <<>>
    BY <1>2, Telling
  <2> QED
    BY <2>2, <2>3
<1>5. OnlyOne(mail'[a])
  BY <1>2, <1>4, Telling DEF Switch, Boxes, EnteredOnce
<1>6. \A b \in Activities : ~ inVr[b]
  BY <1>1 DEF Switch, Boxes, InFront, EnteredOnce, FaceIsTop, Facing
<1>7. \A b \in Activities \ {a} : ~ Has(mail'[b]) /\ ~ Facing(b)' /\ OnlyOne(mail'[b])
  BY <1>1, <1>2, <1>3 DEF Switch, Boxes, InFront, EnteredOnce, FaceIsTop, Facing, Resuming
<1>8. InFront' /\ EnteredOnce'
  BY <1>1, <1>2, <1>5, <1>6, <1>7 DEF InFront, EnteredOnce, Resuming
<1>9. FaceIsTop' /\ PuiOnTop'
  BY <1>1, <1>2, <1>7 DEF FaceIsTop, PuiOnTop
<1>10. FramesInVr'
  BY <1>4, <1>7 DEF FramesInVr, Facing
<1> QED
  BY <1>1, <1>8, <1>9, <1>10, SwitchMailed DEF Boxes
\* The platform UI finishes, and the game has the screen.
LEMMA SwitchPuiFinishes ==
  ASSUME TypeOK, Switch, PuiFinishes
  PROVE  Switch'
<1>1. /\ "finishPui" \in requests /\ "finishPui" \notin requests' /\ top' = "game"
      /\ UNCHANGED <<away, inVr, Paused, services, pc, seen>>
  BY DEF PuiFinishes, hidden, vrmode
<1>2. \A b \in Activities : ~ inVr[b] /\ ~ Has(mail[b]) /\ OnlyOne(mail[b])
  BY <1>1 DEF Switch, Boxes, InFront, EnteredOnce, Resuming
<1>3. CASE away
  <2>1. mail' = mail
    BY <1>3 DEF PuiFinishes
  <2>2. \A b \in Activities : ~ Facing(b)'
    BY <1>1, <1>3, <2>1 DEF Switch, Boxes, FaceIsTop, Facing
  <2>3. InFront' /\ EnteredOnce'
    BY <1>1, <1>2, <2>1 DEF InFront, EnteredOnce, Resuming
  <2>4. FaceIsTop' /\ PuiOnTop'
    BY <1>1, <2>2 DEF FaceIsTop, PuiOnTop
  <2>5. FramesInVr'
    BY <2>2 DEF FramesInVr, Facing
  <2> QED
    BY <1>1, <2>3, <2>4, <2>5, SwitchMailed DEF Boxes
<1>4. CASE ~ away
  <2>1. PICK g \in Seq(Messages), p \in Seq(Messages), re \in Messages, pa \in Messages :
          g = mail["game"] /\ p = mail["pui"] /\ re = "resume" /\ pa = "pause"
    BY Boxed DEF Activities, Messages
  <2>2. PICK u, v : u = Append(g, re) /\ v = Append(p, pa) /\ mail'["game"] = u /\ mail'["pui"] = v
    BY <1>4, <2>1, Boxed DEF PuiFinishes, Activities
  <2>3. OnlyOne(g) /\ ~ Has(g) /\ OnlyOne(p) /\ ~ Has(p) /\ re = "resume" /\ pa = "pause"
    BY <1>2, <2>1 DEF Activities
  <2>4. OnlyOne(u) /\ u # <<>>
    BY <2>2, <2>3, Told
  <2>5. OnlyOne(v) /\ ~ Has(v)
    BY <2>2, <2>3, Told
  <2>6. v # <<>> /\ Last(v) = pa
    BY <2>2, Told
  <2>7. ~ Facing("pui")'
    BY <2>2, <2>3, <2>6 DEF Facing
  <2>8. InFront'
    BY <1>1, <1>2, <2>2, <2>5 DEF InFront, Resuming, Activities
  <2>9. EnteredOnce'
    BY <1>1, <1>2, <2>2, <2>4, <2>5 DEF EnteredOnce, Activities
  <2>10. FaceIsTop' /\ PuiOnTop'
    BY <1>1, <1>4, <2>7 DEF FaceIsTop, PuiOnTop, Activities
  <2>11. FramesInVr'
    BY <2>2, <2>4, <2>6 DEF FramesInVr, Activities
  <2> QED
    BY <1>1, <2>8, <2>9, <2>10, <2>11, SwitchMailed DEF Boxes
<1> QED
  BY <1>3, <1>4

\* An activity leaves VR mode, or does not if it had left; the one in VR mode
\* has no one to share what belongs to the process with.
LEMMA SwitchLeft ==
  ASSUME TypeOK, Switch, NEW a \in Activities, inVr' = [inVr EXCEPT ![a] = FALSE],
         services' = (services /\ ~ inVr[a]), Boxes', FramesInVr',
         \A b \in Activities \ {a} : pc'[b] = pc[b] /\ seen'[b] = seen[b],
         seen'[a].level = "NORMAL", pc'[a] \notin Hot, pc'[a] # "top" => pc[a] # "top",
         "finishPui" \in requests' => top' = top /\ ("finishPui" \in requests \/ inVr[a])
  PROVE  Switch'
<1>1. \A b \in Activities : inVr'[b] = (b # a /\ inVr[b])
  BY Boxed
<1>2. ServicesOn'
  <2>1. CASE inVr[a]
    <3>1. \A b \in Activities \ {a} : ~ inVr[b]
      BY <2>1 DEF Switch, Boxes, InFront
    <3>2. ~ services' /\ \A b \in Activities : ~ inVr'[b]
      BY <1>1, <2>1, <3>1
    <3> QED
      BY <3>2 DEF ServicesOn
  <2>2. CASE ~ inVr[a]
    <3>1. \A b \in Activities : inVr'[b] <=> inVr[b]
      BY <1>1, <2>2
    <3>2. services' <=> services
      BY <2>2
    <3> QED
      BY <3>1, <3>2 DEF Switch, ServicesOn
  <2> QED
    BY <2>1, <2>2
<1>3. ASSUME NEW b \in Activities, NEW c \in Activities, c # b,
             inVr'[b] \/ ("finishPui" \in requests' /\ b = top') \/ pc'[b] # "top"
      PROVE  pc'[c] = "top"
  <2>1. inVr[b] \/ ("finishPui" \in requests /\ b = top) \/ pc[b] # "top"
    <3>1. CASE inVr'[b] \/ pc'[b] # "top"
      BY <1>1, <3>1
    <3>2. CASE "finishPui" \in requests' /\ b = top'
      <4>1. CASE "finishPui" \in requests
        BY <3>2, <4>1
      <4>2. CASE inVr[a]
        BY <3>2, <4>2 DEF Switch, Boxes, InFront
      <4> QED
        BY <3>2, <4>1, <4>2
    <3> QED
      BY <1>3, <3>1, <3>2
  <2>2. pc[c] = "top"
    BY <1>3, <2>1 DEF Switch, FramesApart
  <2> QED
    BY <2>2
<1>4. HotFromVr'
  BY <1>1 DEF Switch, HotFromVr
<1>5. FramesApart'
  BY <1>3 DEF FramesApart
<1> QED
  BY <1>2, <1>4, <1>5 DEF Switch

\* The message an activity takes was the last it could be told before.
LEMMA Hearing ==
  ASSUME TypeOK, NEW a \in Activities, mail[a] # <<>>, mail' = [mail EXCEPT ![a] = Tail(@)]
  PROVE  /\ \A b \in Activities \ {a} : mail'[b] = mail[b]
         /\ Head(mail[a]) \in Messages
         /\ Head(mail[a]) = "resume" => Has(mail[a])
         /\ Has(mail'[a]) => Has(mail[a])
         /\ OnlyOne(mail[a]) => OnlyOne(mail'[a])
         /\ OnlyOne(mail[a]) /\ Head(mail[a]) = "resume" => ~ Has(mail'[a])
         /\ mail'[a] = <<>> => Last(mail[a]) = Head(mail[a])
         /\ mail'[a] # <<>> => Last(mail'[a]) = Last(mail[a])
<1>1. mail \in [Activities -> Seq(Messages)]
  BY Boxed
<1>2. PICK s, t : s \in Seq(Messages) /\ s = mail[a] /\ t = Tail(s) /\ t = mail'[a] /\ s # <<>>
  BY <1>1
<1>3. \A b \in Activities \ {a} : mail'[b] = mail[b]
  BY <1>1
<1>4. Head(s) \in Messages
  BY <1>2, Heard
<1>5. (Head(s) = "resume" => Has(s)) /\ (Has(t) => Has(s))
  BY <1>2, Heard
<1>6. OnlyOne(s) => OnlyOne(t) /\ (Head(s) = "resume" => ~ Has(t))
  BY <1>2, Heard
<1>7. t = <<>> => Last(s) = Head(s)
  BY <1>2, Heard
<1>8. t # <<>> => Last(t) = Last(s)
  BY <1>2, Heard
<1> QED
  BY <1>2, <1>3, <1>4, <1>5, <1>6, <1>7, <1>8
\* An activity pauses and leaves VR mode.
LEMMA SwitchPauses ==
  ASSUME TypeOK, Switch, NEW a \in Activities, Command(a), Head(mail[a]) = "pause"
  PROVE  Switch'
<1>1. /\ mail[a] # <<>> /\ mail' = [mail EXCEPT ![a] = Tail(@)] /\ pc[a] = "top"
      /\ UNCHANGED <<top, away, requests, pc, seen>>
  BY DEF Command, BetweenFrames
<1>2. inVr' = [inVr EXCEPT ![a] = FALSE] /\ services' = (services /\ ~ inVr[a])
  BY Zenon DEF Command, ovr_LeaveVrMode, Stops
<1>3. Paused'[a] = TRUE /\ \A b \in Activities \ {a} : Paused'[b] = Paused[b]
  BY Boxed DEF Command
<1>4. \A b \in Activities : inVr'[b] = (b # a /\ inVr[b])
  BY <1>2, Boxed
<1>5. \A b \in Activities \ {a} : mail'[b] = mail[b]
  BY <1>1, Hearing
<1>6. Has(mail'[a]) => Has(mail[a])
  BY <1>1, Hearing
<1>7. OnlyOne(mail'[a])
  <2>1. OnlyOne(mail[a])
    BY DEF Switch, Boxes, EnteredOnce
  <2> QED
    BY <1>1, <2>1, Hearing
<1>8. mail'[a] # <<>> => Last(mail'[a]) = Last(mail[a])
  BY <1>1, Hearing
<1>9. InFront'
  BY <1>1, <1>4, <1>5, <1>6 DEF Switch, Boxes, InFront, Resuming
<1>10. EnteredOnce'
  BY <1>3, <1>4, <1>5, <1>7 DEF Switch, Boxes, EnteredOnce, Resuming
<1>11. \A b \in Activities : Facing(b)' => Facing(b)
  <2>1. Facing(a)' => Facing(a)
    BY <1>1, <1>3, <1>8 DEF Facing
  <2>2. ASSUME NEW b \in Activities \ {a} PROVE Facing(b)' => Facing(b)
    BY <1>3, <1>5 DEF Facing
  <2> QED
    BY <2>1, <2>2
<1>12. FaceIsTop' /\ PuiOnTop'
  BY <1>1, <1>11 DEF Switch, Boxes, FaceIsTop, PuiOnTop
<1>13. FramesInVr'
  BY <1>1, <1>3, <1>4, <1>5 DEF Switch, FramesInVr, Finished
<1>14. seen[a].level = "NORMAL" /\ pc[a] \notin Hot
  BY <1>1 DEF Switch, HotFromVr, Hot
<1> QED
  BY <1>1, <1>2, <1>9, <1>10, <1>12, <1>13, <1>14, SwitchLeft DEF Boxes

\* An activity resumes and enters VR mode, between the frames of the other.
LEMMA SwitchResumes ==
  ASSUME ~ FramesOutlastSwitch, TypeOK, Switch, NEW a \in Activities, Command(a),
         Head(mail[a]) = "resume"
  PROVE  Switch'
<1>1. /\ mail[a] # <<>> /\ mail' = [mail EXCEPT ![a] = Tail(@)]
      /\ UNCHANGED <<top, away, requests, pc, seen>>
      /\ inVr' = [inVr EXCEPT ![a] = TRUE] /\ services' = TRUE
  BY DEF Command, ovr_EnterVrMode
<1>2. \A b \in Activities \ {a} : pc[b] = "top"
  BY DEF Command, MayTake, BetweenFrames
<1>3. Paused'[a] = FALSE /\ \A b \in Activities \ {a} : Paused'[b] = Paused[b]
  BY Boxed DEF Command
<1>4. \A b \in Activities : inVr'[b] = (b = a \/ inVr[b])
  BY <1>1, Boxed
<1>5. \A b \in Activities \ {a} : mail'[b] = mail[b]
  BY <1>1, Hearing
<1>6. Has(mail[a]) /\ OnlyOne(mail[a])
  <2>1. Has(mail[a])
    BY <1>1, Hearing
  <2> QED
    BY <2>1 DEF Switch, Boxes, EnteredOnce
<1>7. OnlyOne(mail'[a]) /\ ~ Has(mail'[a])
  <2>1. OnlyOne(mail'[a])
    BY <1>1, <1>6, Hearing
  <2>2. ~ Has(mail'[a])
    BY <1>1, <1>6, Hearing
  <2> QED
    BY <2>1, <2>2
<1>8. Facing(a)' => Facing(a)
  <2>1. mail'[a] = <<>> => Last(mail[a]) = Head(mail[a])
    BY <1>1, Hearing
  <2>2. mail'[a] # <<>> => Last(mail'[a]) = Last(mail[a])
    BY <1>1, Hearing
  <2> QED
    BY <1>1, <2>1, <2>2 DEF Facing
<1>9. /\ a = top /\ "finishPui" \notin requests
      /\ \A b \in Activities \ {a} : ~ inVr[b] /\ ~ Has(mail[b])
  BY <1>6 DEF Switch, Boxes, InFront, Resuming
<1>10. InFront'
  BY <1>1, <1>4, <1>5, <1>9 DEF InFront, Resuming
<1>11. EnteredOnce'
  BY <1>3, <1>4, <1>5, <1>7, <1>9 DEF Switch, Boxes, EnteredOnce, Resuming
<1>12. FaceIsTop' /\ PuiOnTop'
  <2>1. ASSUME NEW b \in Activities \ {a} PROVE Facing(b)' => Facing(b)
    BY <1>3, <1>5 DEF Facing
  <2> QED
    BY <1>1, <1>8, <2>1 DEF Switch, Boxes, FaceIsTop, PuiOnTop
<1>13. FramesInVr'
  BY <1>1, <1>3, <1>4, <1>5 DEF Switch, FramesInVr, Finished
<1>14. FramesApart' /\ ServicesOn'
  BY <1>1, <1>2, <1>4, <1>9 DEF Switch, FramesApart, ServicesOn
<1>15. HotFromVr'
  BY <1>1, <1>4 DEF Switch, HotFromVr
<1> QED
  BY <1>10, <1>11, <1>12, <1>13, <1>14, <1>15 DEF Switch, Boxes

\* Who renders is in VR mode, unless something is to finish.
LEMMA Rendering ==
  ASSUME TypeOK, Switch, NEW a \in Activities, Renders(a)
  PROVE  /\ inVr[a] \/ "finishPui" \in requests
         /\ a = top /\ ~ away /\ mail[a] = <<>> /\ pc[a] = "top"
         /\ seen[a].level = "NORMAL"
<1>1. mail[a] = <<>> /\ ~ Paused[a] /\ ~ Finished /\ pc[a] = "top"
  BY DEF Renders, BetweenFrames
<1>2. Facing(a)
  BY <1>1 DEF Facing
<1>3. a = top /\ ~ away
  BY <1>2 DEF Switch, Boxes, FaceIsTop
<1>4. inVr[a] \/ "finishPui" \in requests
  BY <1>1 DEF Switch, FramesInVr
<1>5. seen[a].level = "NORMAL"
  BY <1>1 DEF Switch, HotFromVr
<1> QED
  BY <1>1, <1>3, <1>4, <1>5

\* The game leaves VR mode and starts the platform UI.
LEMMA SwitchStartPlatformUI ==
  ASSUME TypeOK, Switch, StartPlatformUI
  PROVE  Switch'
<1>1. PICK a \in Activities : a = "game" /\ Renders(a) /\ ovr_StartPackageActivity(a)
  BY DEF StartPlatformUI, Activities
<1>2. /\ inVr' = [inVr EXCEPT ![a] = FALSE] /\ StartActivity
      /\ UNCHANGED <<requests, Paused, pc, seen>>
  BY <1>1 DEF StartPlatformUI, ovr_StartPackageActivity, ovr_LeaveVrMode
<1>3. services' = (services /\ ~ inVr[a])
  BY <1>1, Zenon DEF ovr_StartPackageActivity, ovr_LeaveVrMode, Stops
<1>4. inVr[a] /\ pc[a] = "top" /\ seen[a].level = "NORMAL"
  BY <1>1, Rendering DEF Switch, Boxes, PuiOnTop
<1>5. Boxes' /\ FramesInVr'
  BY <1>2, <1>4, SwitchStarted
<1>6. "finishPui" \notin requests'
  BY <1>2, <1>4 DEF Switch, Boxes, InFront
<1> QED
  BY <1>2, <1>3, <1>4, <1>5, <1>6, SwitchLeft DEF Hot

\* The platform UI leaves VR mode, and is to finish.
LEMMA SwitchExitPlatformUI ==
  ASSUME TypeOK, Switch, ExitPlatformUI
  PROVE  Switch'
<1>1. PICK a \in Activities : a = "pui" /\ Renders(a) /\ ovr_LeaveVrMode(a)
  BY DEF ExitPlatformUI, Activities
<1>2. /\ inVr' = [inVr EXCEPT ![a] = FALSE] /\ requests' = requests \cup {"finishPui"}
      /\ top = "pui" /\ UNCHANGED <<top, away, mail, Paused, pc, seen>>
  BY <1>1 DEF ExitPlatformUI, ovr_LeaveVrMode
<1>3. services' = (services /\ ~ inVr[a])
  BY <1>1, Zenon DEF ovr_LeaveVrMode, Stops
<1>4. /\ a = top /\ mail[a] = <<>> /\ pc[a] = "top" /\ seen[a].level = "NORMAL"
      /\ inVr[a] \/ "finishPui" \in requests
  BY <1>1, Rendering
<1>5. \A b \in Activities : inVr'[b] = (b # a /\ inVr[b])
  BY <1>2, Boxed
<1>6. ~ Has(mail[a])
  <2>1. Len(mail[a]) = 0
    BY <1>4, EmptySeq
  <2> QED
    BY <2>1 DEF Has
<1>7. InFront'
  BY <1>2, <1>4, <1>5, <1>6 DEF Switch, Boxes, InFront, Resuming
<1>8. EnteredOnce'
  BY <1>2, <1>5 DEF Switch, Boxes, EnteredOnce, Resuming
<1>9. FaceIsTop' /\ PuiOnTop'
  BY <1>2 DEF Switch, Boxes, FaceIsTop, PuiOnTop, Facing
<1>10. FramesInVr'
  BY <1>2 DEF FramesInVr
<1> QED
  BY <1>2, <1>3, <1>4, <1>7, <1>8, <1>9, <1>10, SwitchLeft DEF Boxes, Hot

\* Whoever begins a frame is in VR mode, or is to finish.
LEMMA SwitchReadDock ==
  ASSUME TypeOK, Switch, NEW a \in Activities, ReadDock(a)
  PROVE  Switch'
<1>1. /\ inVr[a] \/ "finishPui" \in requests
      /\ a = top /\ seen[a].level = "NORMAL"
  BY Rendering DEF ReadDock
<1>2. /\ UNCHANGED <<top, away, requests, mail, services, inVr, Paused, seen>>
      /\ \A b \in Activities \ {a} : pc'[b] = pc[b]
      /\ pc'[a] \in {"undocked", "mount"}
  BY DEF ReadDock, Goes, task, vrmode, TypeOK
<1> QED
  BY <1>1, <1>2, SwitchKept DEF Hot

\* The dock and the mount state are read and handled within a frame.
LEMMA SwitchHmdEvents ==
  ASSUME TypeOK, Switch, NEW a \in Activities,
         ClearDock(a) \/ ReadMount(a) \/ ClearMount(a) \/ HandleMounted(a) \/ HandleUnmounted(a)
  PROVE  Switch'
<1>1. /\ UNCHANGED <<top, away, requests, mail, services, inVr, Paused>>
      /\ pc[a] \notin {"top", "act"}
      /\ pc'[a] \in {"exit", "handle", "mounted", "mounting", "notify", "unmounted", "waiting",
                     "release", "power"}
      /\ \A b \in Activities \ {a} : pc'[b] = pc[b] /\ seen'[b] = seen[b]
  BY DEF ClearDock, ReadMount, ClearMount, HandleMounted, HandleUnmounted, Goes, MountStep, task,
     vrmode, TypeOK
<1>2. seen'[a].level = "NORMAL"
  <2>1. seen[a].level = "NORMAL"
    BY <1>1 DEF Switch, HotFromVr
  <2> QED
    BY <2>1 DEF ClearDock, ReadMount, ClearMount, HandleMounted, HandleUnmounted, TypeOK, Reads, Nothing
<1> QED
  BY <1>1, <1>2, SwitchKept DEF Hot

\* The phone has been pulled out, and the activity leaves VR mode.
LEMMA SwitchExitUndocked ==
  ASSUME TypeOK, Switch, NEW a \in Activities, ExitUndocked(a)
  PROVE  Switch'
<1>1. /\ UNCHANGED <<top, away, mail, Paused, seen>>
      /\ pc[a] = "exit" /\ pc'[a] = "power" /\ \A b \in Activities \ {a} : pc'[b] = pc[b]
      /\ inVr' = [inVr EXCEPT ![a] = FALSE] /\ requests' = requests \cup {"finishAll"}
  BY DEF ExitUndocked, Goes, ExitsActivity, ovr_LeaveVrMode, TypeOK
<1>2. services' = (services /\ ~ inVr[a])
  BY Zenon DEF ExitUndocked, ExitsActivity, ovr_LeaveVrMode, Stops
<1>3. \A b \in Activities : inVr'[b] = (b # a /\ inVr[b])
  BY <1>1, Boxed
<1>4. InFront' /\ EnteredOnce'
  BY <1>1, <1>3 DEF Switch, Boxes, InFront, EnteredOnce, Resuming
<1>5. FaceIsTop' /\ PuiOnTop'
  BY <1>1 DEF Switch, Boxes, FaceIsTop, PuiOnTop, Facing
<1>6. FramesInVr'
  BY <1>1 DEF FramesInVr, Finished
<1>7. seen[a].level = "NORMAL"
  BY <1>1 DEF Switch, HotFromVr
<1> QED
  BY <1>1, <1>2, <1>4, <1>5, <1>6, <1>7, SwitchLeft DEF Boxes, Hot

\* Who reads a power level other than NORMAL is in VR mode.
LEMMA SwitchReadPowerLevel ==
  ASSUME TypeOK, Switch, NEW a \in Activities, ReadPowerLevel(a)
  PROVE  Switch'
<1>1. /\ UNCHANGED <<top, away, requests, mail, services, inVr, Paused>>
      /\ pc[a] \in {"power", "ask"} /\ pc'[a] \in {"top", "ask", "act"}
      /\ \A b \in Activities \ {a} : pc'[b] = pc[b] /\ seen'[b] = seen[b]
  BY DEF ReadPowerLevel, Goes, task, vrmode, TypeOK
<1>2. seen'[a].level # "NORMAL" => pc'[a] = "act" /\ inVr[a]
  <2>1. CASE UNCHANGED seen
    BY <1>1, <2>1 DEF Switch, HotFromVr
  <2>2. CASE Goes(a, "ask", "act") /\ seen' = [seen EXCEPT ![a].level = PowerLevelRead]
    <3>1. pc'[a] = "act" /\ seen'[a].level = PowerLevelRead
      BY <2>2 DEF Goes, TypeOK, Reads
    <3>2. services => inVr[a]
      BY <1>1 DEF Switch, ServicesOn, FramesApart
    <3> QED
      BY <3>1, <3>2 DEF PowerLevelRead
  <2> QED
    BY <2>1, <2>2 DEF ReadPowerLevel
<1> QED
  BY <1>1, <1>2, SwitchKept DEF Hot

\* Who decides to act on it is still in VR mode.
LEMMA SwitchDecide ==
  ASSUME TypeOK, Switch, NEW a \in Activities, Decide(a)
  PROVE  Switch'
<1>1. /\ UNCHANGED <<top, away, requests, mail, services, inVr, Paused>>
      /\ pc[a] \in {"act", "cannot"}
      /\ \A b \in Activities \ {a} : pc'[b] = pc[b] /\ seen'[b] = seen[b]
  BY DEF Decide, Goes, task, vrmode, TypeOK
<1>2. seen'[a].level = "NORMAL"
  <2>1. CASE pc[a] = "act"
    BY <2>1 DEF Decide, Goes, Nothing, TypeOK
  <2>2. CASE pc[a] = "cannot"
    BY <2>2 DEF Decide, Goes, Switch, HotFromVr
  <2> QED
    BY <1>1, <2>1, <2>2
<1>3. pc'[a] \in Hot => inVr[a]
  <2>1. CASE pc[a] = "act"
    <3>1. pc'[a] = Decision(a)
      BY <2>1 DEF Decide, Goes, TypeOK
    <3>2. CASE seen[a].level = "NORMAL"
      BY <3>1, <3>2 DEF Decision, Hot
    <3> QED
      BY <3>2 DEF Switch, HotFromVr
  <2>2. CASE pc[a] = "cannot"
    BY <2>2 DEF Switch, HotFromVr, Hot
  <2> QED
    BY <1>1, <2>1, <2>2
<1> QED
  BY <1>1, <1>2, <1>3, SwitchKept

\* So is who writes it.
LEMMA SwitchActOnPowerLevel ==
  ASSUME TypeOK, Switch, NEW a \in Activities, ActOnPowerLevel(a)
  PROVE  Switch'
<1>1. /\ UNCHANGED <<top, away, requests, mail, services, inVr, Paused, seen>>
      /\ pc[a] \in {"reset", "resetAction"} \cup Hot
      /\ pc'[a] \in Hot => pc[a] \in Hot
      /\ pc[a] # "top" /\ pc[a] # "act"
      /\ \A b \in Activities \ {a} : pc'[b] = pc[b]
  BY DEF ActOnPowerLevel, Reset, PowerSave, CannotContinue, Goes, task, vrmode, TypeOK, Hot
<1>2. seen[a].level = "NORMAL" /\ (pc'[a] \in Hot => inVr[a])
  BY <1>1 DEF Switch, HotFromVr
<1> QED
  BY <1>1, <1>2, SwitchKept

\* And it leaves VR mode for the platform UI.
LEMMA SwitchWarn ==
  ASSUME TypeOK, Switch, NEW a \in Activities, Warn(a)
  PROVE  Switch'
<1>1. /\ UNCHANGED <<requests, Paused, seen>>
      /\ pc[a] = "start" /\ pc'[a] = "top" /\ \A b \in Activities \ {a} : pc'[b] = pc[b]
      /\ inVr' = [inVr EXCEPT ![a] = FALSE] /\ StartActivity
  BY DEF Warn, Goes, ovr_StartPackageActivity, ovr_LeaveVrMode, TypeOK
<1>2. services' = (services /\ ~ inVr[a])
  BY Zenon DEF Warn, ovr_StartPackageActivity, ovr_LeaveVrMode, Stops
<1>3. inVr[a] /\ seen[a].level = "NORMAL"
  BY <1>1 DEF Switch, HotFromVr, Hot
<1>4. "finishPui" \notin requests'
  BY <1>1, <1>3 DEF Switch, Boxes, InFront
<1>5. Boxes' /\ FramesInVr'
  BY <1>1, <1>3, SwitchStarted
<1> QED
  BY <1>1, <1>2, <1>3, <1>4, <1>5, SwitchLeft DEF Hot

\* The user, the phone and the broadcasts do not touch the switch.
LEMMA SwitchUntouched ==
  ASSUME Switch, UNCHANGED <<top, away, requests, mail, services, inVr, Paused, pc, seen>>
  PROVE  Switch'
<1>1. "game" \in Activities
  BY DEF Activities
<1> QED
  BY <1>1, SwitchKept DEF Switch, HotFromVr

\* However the two activities take turns, one of them has VR mode at a time.
LEMMA SwitchStep == ~ FramesOutlastSwitch /\ TypeOK /\ Switch /\ [Next]_vars => Switch'
<1> SUFFICES ASSUME ~ FramesOutlastSwitch, TypeOK, Switch, [Next]_vars PROVE Switch'
  OBVIOUS
<1>1. CASE PutOnOrTakeOff \/ PullOutOrPutBack \/ OthersHandleMount
  BY <1>1, SwitchUntouched DEF PutOnOrTakeOff, PullOutOrPutBack, OthersHandleMount, task, quiet, vrmode
<1>2. CASE HeatUpOrCoolDown \/ SecondPasses \/ Receive
  BY <1>2, SwitchUntouched DEF HeatUpOrCoolDown, SecondPasses, Receive, task, quiet, vrmode
<1>3. CASE UNCHANGED vars
  BY <1>3, SwitchUntouched DEF vars, task, vrmode
<1>4. ASSUME NEW a \in Activities, Command(a) PROVE Switch'
  <2>1. Head(mail[a]) \in {"pause", "resume"}
    BY <1>4, Hearing DEF Command, Messages
  <2> QED
    BY <1>4, <2>1, SwitchPauses, SwitchResumes
<1>5. ASSUME NEW a \in Activities, VrThread(a) PROVE Switch'
  BY <1>4, <1>5, SwitchReadDock, SwitchHmdEvents, SwitchExitUndocked, SwitchReadPowerLevel,
     SwitchDecide, SwitchActOnPowerLevel, SwitchWarn DEF VrThread
<1> QED
  BY <1>1, <1>2, <1>3, <1>5, SwitchGoAway, SwitchComeBack, SwitchPuiFinishes,
     SwitchStartPlatformUI, SwitchExitPlatformUI DEF Next, UiThread, Gone

\* The game is on top and has a resume to take.
LEMMA SwitchInitially == Init => Switch
<1> SUFFICES ASSUME Init PROVE Switch
  OBVIOUS
<1>1. /\ mail["pui"] = <<>> /\ mail["game"] # <<>> /\ Len(mail["pui"]) = 0
      /\ \A i \in 1..Len(mail["game"]) : i = 1
  BY EmptySeq DEF Init, Activities
<1>2. ~ Has(mail["pui"]) /\ OnlyOne(mail["pui"]) /\ OnlyOne(mail["game"])
  BY <1>1 DEF Has, OnlyOne
<1>3. \A a \in Activities : /\ ~ inVr[a] /\ Paused[a] /\ pc[a] = "top"
                            /\ seen[a].level = "NORMAL"
  BY DEF Init, Nothing
<1>4. top = "game" /\ ~ away /\ requests = {} /\ ~ services
  BY DEF Init
<1>5. InFront /\ EnteredOnce
  BY <1>2, <1>3, <1>4 DEF InFront, EnteredOnce, Resuming, Activities
<1>6. FaceIsTop /\ PuiOnTop
  BY <1>1, <1>3, <1>4 DEF FaceIsTop, PuiOnTop, Facing, Activities
<1>7. FramesInVr /\ FramesApart /\ HotFromVr /\ ServicesOn
  BY <1>3, <1>4 DEF FramesInVr, FramesApart, HotFromVr, Hot, ServicesOn
<1> QED
  BY <1>5, <1>6, <1>7 DEF Switch, Boxes

-----------------------------------------------------------------------------
(* What a thread has decided, and what it reported. *)

\* What a thread has read, or written first, still holds.
Decided == \A a \in Activities :
  /\ pc[a] = "release" => powerLevelAction = "WAITING_FOR_UNMOUNT"
  /\ pc[a] = "reset" => powerLevelAction = "WAITING_FOR_RESET"
  /\ pc[a] = "resetAction" => ~ Throttled
  /\ pc[a] \in {"saveAction", "stopMinimum", "stopAction"} => Throttled

\* Whatever unmount is on its way to be handled was reported late enough.
Pending == UnmountPending => unmountSince

\* So was the one that made the throttle wait for its reset.
ResetAfterRide == powerLevelAction = "WAITING_FOR_RESET" => unmountSince

Ride == ThrottleHasAnEnd /\ Decided /\ Pending /\ ResetAfterRide

\* A thread that goes on leaves what was decided as it is, and all that is reported
\* is reported in time.
LEMMA RideKept ==
  ASSUME Ride, UNCHANGED limits, NEW a \in Activities,
         \A b \in Activities \ {a} : pc'[b] = pc[b],
         pc[a] \notin Between, pc'[a] \notin Between \cup {"release", "reset"},
         UnmountPending' => UnmountPending \/ unmountSince', unmountSince => unmountSince'
  PROVE  Ride'
<1>1. ThrottleHasAnEnd'
  BY DEF Ride, ThrottleHasAnEnd, limits
<1>2. Decided'
  BY DEF Ride, Decided, Between, limits
<1>3. Pending' /\ ResetAfterRide'
  BY DEF Ride, Pending, ResetAfterRide, limits
<1> QED
  BY <1>1, <1>2, <1>3 DEF Ride

\* Nobody goes on.
LEMMA RideUntouched ==
  ASSUME Ride, UNCHANGED <<limits, pc>>,
         UnmountPending' => UnmountPending \/ unmountSince', unmountSince => unmountSince'
  PROVE  Ride'
BY DEF Ride, ThrottleHasAnEnd, Decided, Pending, ResetAfterRide, limits

\* A thread handles an unmount that was read.
LEMMA RideMounts ==
  ASSUME TypeOK, Ride, NEW a \in Activities,
         ReadMount(a) \/ ClearMount(a) \/ HandleMounted(a)
  PROVE  Ride'
<1>1. /\ UNCHANGED <<limits, unmountSince>>
      /\ pc[a] \in {"mount", "handle", "mounted", "mounting", "notify"}
      /\ pc'[a] \in {"handle", "mounted", "unmounted", "mounting", "notify", "power"}
      /\ \A b \in Activities \ {a} : pc'[b] = pc[b] /\ seen'[b] = seen[b]
  BY DEF ReadMount, ClearMount, HandleMounted, Goes, MountStep, statics, TypeOK
<1>2. UnmountPending' => UnmountPending
  <2>1. CASE ReadMount(a)
    <3>1. seen'[a].mount = HMTMountState /\ HMTMountState' = HMTMountState /\ pc'[a] \in {"handle", "power"}
      BY <2>1 DEF ReadMount, Goes, MountStep, broadcasts, TypeOK, Reads
    <3> QED
      BY <1>1, <3>1 DEF UnmountPending
  <2>2. CASE ClearMount(a)
    <3>1. /\ HMTMountState' = "NONE" /\ seen'[a].mount = "NONE"
          /\ pc'[a] = "unmounted" => seen[a].mount = "UNMOUNTED"
          /\ pc'[a] \in {"mounted", "unmounted"}
      BY <2>2 DEF ClearMount, Goes, Nothing, TypeOK, Reads
    <3> QED
      BY <1>1, <3>1 DEF UnmountPending
  <2>3. CASE HandleMounted(a)
    BY <1>1, <2>3 DEF HandleMounted, Goes, UnmountPending, TypeOK
  <2> QED
    BY <2>1, <2>2, <2>3
<1> QED
  BY <1>1, <1>2, RideKept DEF Between

\* An unmount that is handled makes the throttle wait for its reset.
LEMMA RideUnmounts ==
  ASSUME TypeOK, Ride, NEW a \in Activities, HandleUnmounted(a), \A b \in Activities \ {a} : pc[b] = "top"
  PROVE  Ride'
<1>1. /\ UNCHANGED <<Throttled, Minimum, unmountSince, HMTMountState, seen>>
      /\ pc[a] \in {"unmounted", "waiting", "release"}
      /\ pc'[a] \in {"waiting", "release", "power"}
      /\ \A b \in Activities \ {a} : pc'[b] = "top"
  BY DEF HandleUnmounted, Goes, broadcasts, TypeOK
<1>2. Throttled => powerLevelAction # "NONE"
  <2>1. \A b \in Activities : pc[b] \notin Between
    BY <1>1 DEF Between
  <2> QED
    BY <2>1 DEF Ride, ThrottleHasAnEnd
<1>3. powerLevelAction # "NONE" => Throttled
  <2>1. \A b \in Activities : pc[b] \notin Between
    BY <1>1 DEF Between
  <2> QED
    BY <2>1 DEF Ride, ThrottleHasAnEnd
<1>4. UnmountPending
  BY <1>1 DEF UnmountPending
<1>5. unmountSince
  BY <1>4 DEF Ride, Pending
<1>6. Pending' /\ ResetAfterRide'
  BY <1>1, <1>5 DEF Pending, ResetAfterRide
<1>7. CASE pc[a] = "release"
  <2>1. powerLevelAction = "WAITING_FOR_UNMOUNT" /\ powerLevelAction' = "WAITING_FOR_RESET" /\ pc'[a] = "power"
    BY <1>7 DEF HandleUnmounted, Goes, Ride, Decided, TypeOK
  <2>2. ThrottleHasAnEnd'
    BY <1>1, <1>2, <1>3, <2>1 DEF ThrottleHasAnEnd
  <2>3. Decided'
    BY <1>1, <2>1 DEF Decided
  <2> QED
    BY <1>6, <2>2, <2>3 DEF Ride
<1>8. CASE pc[a] # "release"
  <2>1. powerLevelAction' = powerLevelAction
    BY <1>8 DEF HandleUnmounted, Goes
  <2>2. pc'[a] = "release" => powerLevelAction = "WAITING_FOR_UNMOUNT"
    BY <1>8 DEF HandleUnmounted, Goes, TypeOK
  <2>3. ThrottleHasAnEnd'
    BY <1>1, <1>2, <1>3, <2>1 DEF ThrottleHasAnEnd
  <2>4. Decided'
    BY <1>1, <2>1, <2>2 DEF Decided
  <2> QED
    BY <1>6, <2>3, <2>4 DEF Ride
<1> QED
  BY <1>7, <1>8

\* A thread decides on what it has read.
LEMMA RideDecide ==
  ASSUME TypeOK, Ride, NEW a \in Activities, Decide(a)
  PROVE  Ride'
<1>1. /\ UNCHANGED <<limits, unmountSince, HMTMountState>>
      /\ pc[a] \in {"act", "cannot"} /\ pc'[a] \in {"top", "reset", "save", "stop", "cannot"}
      /\ \A b \in Activities \ {a} : pc'[b] = pc[b] /\ seen'[b] = seen[b]
      /\ seen'[a].mount \in {"NONE", seen[a].mount}
  BY DEF Decide, Decision, Goes, Nothing, statics, broadcasts, TypeOK
<1>2. pc'[a] = "reset" => powerLevelAction = "WAITING_FOR_RESET"
  BY <1>1 DEF Decide, Decision, MayReset, Goes, TypeOK
<1>3. ThrottleHasAnEnd'
  BY <1>1 DEF Ride, ThrottleHasAnEnd, Between, limits
<1>4. Decided'
  BY <1>1, <1>2 DEF Ride, Decided, limits
<1>5. UnmountPending' => UnmountPending
  BY <1>1 DEF UnmountPending
<1>6. Pending' /\ ResetAfterRide'
  BY <1>1, <1>5 DEF Ride, Pending, ResetAfterRide, limits
<1> QED
  BY <1>3, <1>4, <1>6 DEF Ride

\* It writes its flag and its action, and no one else does.
LEMMA RideActs ==
  ASSUME TypeOK, Ride, NEW a \in Activities, ActOnPowerLevel(a),
         \A b \in Activities \ {a} : pc[b] = "top"
  PROVE  Ride' /\ (Throttled /\ ~ Throttled' => unmountSince)
<1>1. /\ UNCHANGED <<HMTMountState, seen>> /\ \A b \in Activities \ {a} : pc'[b] = "top"
      /\ Throttled \in BOOLEAN
  BY DEF ActOnPowerLevel, Reset, PowerSave, CannotContinue, Goes, broadcasts, TypeOK
<1>2. pc'[a] \notin {"unmounted", "waiting", "release"}
  BY DEF ActOnPowerLevel, Reset, PowerSave, CannotContinue, Goes, TypeOK
<1>3. UnmountPending' => UnmountPending
  BY <1>1, <1>2 DEF UnmountPending
<1>4. pc[a] \notin Between => (Throttled <=> powerLevelAction # "NONE")
  BY DEF Ride, ThrottleHasAnEnd, Between
<1>5. unmountSince' = IF ~ Throttled /\ Throttled' THEN UnmountPending ELSE unmountSince
  BY DEF ActOnPowerLevel
<1>6. Pending'
  <2>1. CASE ~ Throttled /\ Throttled'
    BY <1>3, <1>5, <2>1, Zenon DEF Pending
  <2>2. CASE ~ (~ Throttled /\ Throttled')
    BY <1>3, <1>5, <2>2, Zenon DEF Ride, Pending
  <2> QED
    BY <2>1, <2>2
<1>7. CASE pc[a] = "reset"
  <2>1. /\ pc'[a] = "resetAction" /\ Throttled' = FALSE /\ powerLevelAction' = powerLevelAction
        /\ powerLevelAction = "WAITING_FOR_RESET"
    BY <1>7 DEF ActOnPowerLevel, Reset, PowerSave, CannotContinue, Goes, Sets, TypeOK, Ride, Decided
  <2>2. unmountSince' = unmountSince /\ unmountSince
    BY <1>5, <2>1 DEF Ride, ResetAfterRide
  <2>3. ThrottleHasAnEnd' /\ Decided'
    BY <1>1, <2>1 DEF ThrottleHasAnEnd, Between, Decided
  <2> QED
    BY <1>6, <2>2, <2>3 DEF Ride, ResetAfterRide
<1>8. CASE pc[a] = "resetAction"
  <2>1. /\ pc'[a] = "top" /\ Throttled' = Throttled /\ powerLevelAction' = "NONE" /\ ~ Throttled
    BY <1>8 DEF ActOnPowerLevel, Reset, PowerSave, CannotContinue, Goes, Sets, TypeOK, Ride, Decided
  <2>2. ThrottleHasAnEnd' /\ Decided' /\ ResetAfterRide'
    BY <1>1, <2>1 DEF ThrottleHasAnEnd, Decided, ResetAfterRide
  <2> QED
    BY <1>6, <2>1, <2>2 DEF Ride
<1>9. CASE pc[a] \in {"save", "stop"}
  <2>1. /\ pc'[a] \in {"saveAction", "stopMinimum"} /\ Throttled' = TRUE
        /\ powerLevelAction' = powerLevelAction
    BY <1>9 DEF ActOnPowerLevel, Reset, PowerSave, CannotContinue, Goes, Sets, TypeOK
  <2>2. ThrottleHasAnEnd' /\ Decided'
    BY <1>1, <2>1 DEF ThrottleHasAnEnd, Between, Decided
  <2>3. ~ Throttled => powerLevelAction = "NONE"
    BY <1>4, <1>9 DEF Between
  <2>4. ResetAfterRide'
    BY <1>5, <2>1, <2>3 DEF Ride, ResetAfterRide
  <2> QED
    BY <1>6, <2>1, <2>2, <2>4 DEF Ride
<1>10. CASE pc[a] \in {"saveAction", "stopMinimum", "stopAction"}
  <2>1. /\ pc'[a] \in {"stopAction", "start"} /\ Throttled' = Throttled /\ Throttled
        /\ pc'[a] = "start" => powerLevelAction' # "NONE"
        /\ powerLevelAction' \in {powerLevelAction, "WAITING_FOR_UNMOUNT", "WAITING_FOR_UNDOCK"}
    BY <1>10 DEF ActOnPowerLevel, Reset, PowerSave, CannotContinue, Goes, Sets, TypeOK, Ride, Decided
  <2>2. ThrottleHasAnEnd'
    BY <1>1, <2>1 DEF ThrottleHasAnEnd, Between
  <2>3. Decided'
    BY <1>1, <2>1 DEF Decided
  <2>4. ResetAfterRide'
    BY <1>5, <2>1 DEF Ride, ResetAfterRide
  <2> QED
    BY <1>6, <2>1, <2>2, <2>3, <2>4 DEF Ride
<1> QED
  BY <1>7, <1>8, <1>9, <1>10 DEF ActOnPowerLevel, Reset, PowerSave, CannotContinue, Goes

\* Only the reset ends a throttle, and it has an unmount to show for it.
LEMMA RideStep ==
  TypeOK /\ FramesApart /\ Ride /\ [Next]_vars => Ride' /\ (Throttled /\ ~ Throttled' => unmountSince)
<1> SUFFICES ASSUME TypeOK, FramesApart, Ride, [Next]_vars
             PROVE  Ride' /\ (Throttled /\ ~ Throttled' => unmountSince)
  OBVIOUS
<1> DEFINE Goal == Ride' /\ (Throttled /\ ~ Throttled' => unmountSince)
<1>1. CASE \/ PutOnOrTakeOff \/ PullOutOrPutBack \/ OthersHandleMount \/ HeatUpOrCoolDown
            \/ SecondPasses \/ GoAway \/ ComeBack \/ PuiFinishes \/ StartPlatformUI
            \/ ExitPlatformUI \/ UNCHANGED vars \/ \E a \in Activities : Command(a)
  <2>1. UNCHANGED <<limits, pc, seen, HMTMountState, unmountSince>>
    BY <1>1 DEF PutOnOrTakeOff, PullOutOrPutBack, OthersHandleMount, HeatUpOrCoolDown, SecondPasses,
       GoAway, ComeBack, PuiFinishes, StartPlatformUI, ExitPlatformUI, Command, vars, statics,
       broadcasts, quiet, hidden
  <2> QED
    BY <2>1, RideUntouched DEF UnmountPending, limits
<1>2. CASE Receive
  <2>1. Head(inbox) \in Broadcasts /\ UNCHANGED <<limits, pc, seen>>
    BY <1>2 DEF Receive, TypeOK
  <2>2. unmountSince => unmountSince'
    BY <1>2, <2>1 DEF Receive, nativeProximitySensor, nativeMountHandled, nativeDockEvent, Broadcasts
  <2>3. HMTMountState' = "UNMOUNTED" => HMTMountState = "UNMOUNTED" \/ unmountSince'
    BY <1>2, <2>1 DEF Receive, nativeProximitySensor, nativeMountHandled, nativeDockEvent, Broadcasts
  <2>4. UnmountPending' => UnmountPending \/ unmountSince'
    BY <2>1, <2>3 DEF UnmountPending
  <2> QED
    BY <2>1, <2>2, <2>4, RideUntouched DEF limits
<1>3. ASSUME NEW a \in Activities,
             ReadDock(a) \/ ClearDock(a) \/ ExitUndocked(a) \/ ReadPowerLevel(a) \/ Warn(a)
      PROVE  Goal
  <2>1. /\ UNCHANGED <<limits, unmountSince, HMTMountState>>
        /\ pc[a] \in {"top", "undocked", "exit", "power", "ask", "start"}
        /\ pc'[a] \in {"undocked", "mount", "exit", "power", "top", "ask", "act"}
        /\ \A b \in Activities \ {a} : pc'[b] = pc[b]
    BY <1>3 DEF ReadDock, ClearDock, ExitUndocked, ReadPowerLevel, Warn, Goes, Renders, BetweenFrames,
       statics, broadcasts, TypeOK
  <2>2. \A b \in Activities : seen'[b].mount = seen[b].mount
    <3>1. CASE UNCHANGED seen
      BY <3>1
    <3>2. CASE seen' = [seen EXCEPT ![a].level = PowerLevelRead]
      BY <3>2 DEF TypeOK, Reads
    <3> QED
      BY <1>3, <3>1, <3>2 DEF ReadDock, ClearDock, ExitUndocked, ReadPowerLevel, Warn
  <2>3. UnmountPending' => UnmountPending
    BY <2>1, <2>2 DEF UnmountPending
  <2> QED
    BY <2>1, <2>3, RideKept DEF Between, limits
<1>4. ASSUME NEW a \in Activities, ReadMount(a) \/ ClearMount(a) \/ HandleMounted(a)
      PROVE  Goal
  <2>1. Ride'
    BY <1>4, RideMounts, Zenon
  <2>2. UNCHANGED limits
    BY <1>4 DEF ReadMount, ClearMount, HandleMounted, statics
  <2> QED
    BY <2>1, <2>2 DEF limits
<1>5. ASSUME NEW a \in Activities, HandleUnmounted(a) PROVE Goal
  BY <1>5, RideUnmounts DEF HandleUnmounted, Goes, FramesApart
<1>6. ASSUME NEW a \in Activities, Decide(a) PROVE Goal
  BY <1>6, RideDecide DEF Decide, statics, limits
<1>7. ASSUME NEW a \in Activities, ActOnPowerLevel(a) PROVE Goal
  <2>1. pc[a] # "top"
    BY <1>7 DEF ActOnPowerLevel, Reset, PowerSave, CannotContinue, Goes
  <2>2. \A b \in Activities \ {a} : pc[b] = "top"
    BY <2>1 DEF FramesApart
  <2> QED
    BY <1>7, <2>2, RideActs
<1> QED
  BY <1>1, <1>2, <1>3, <1>4, <1>5, <1>6, <1>7 DEF Next, UiThread, VrThread, Gone

-----------------------------------------------------------------------------

IInv == TypeOK /\ Switch /\ Ride

\* The inductive invariant: as long as no frame outlasts a switch.
THEOREM Invariance ==
  ASSUME ~ FramesOutlastSwitch
  PROVE  Spec => []IInv
<1>1. Init => IInv
  <2> SUFFICES ASSUME Init PROVE Ride
    BY Initially, SwitchInitially DEF IInv
  <2>1. \A a \in Activities : pc[a] = "top" /\ seen[a].mount = "NONE"
    BY DEF Init, Nothing
  <2> QED
    BY <2>1 DEF Init, Ride, ThrottleHasAnEnd, Decided, Pending, UnmountPending, ResetAfterRide
<1>2. IInv /\ [Next]_vars => IInv'
  BY TypeStep, SwitchStep, RideStep DEF IInv, Switch
<1> QED
  BY <1>1, <1>2, PTL DEF Spec

\* What ovr_EnterVrMode started for an activity runs as long as it is in VR mode
\* (VrApi.cpp ovr_EnterVrMode, ovr_LeaveVrMode): as long as no activity enters
\* VR mode while a frame of the other still goes on.
THEOREM ServicesStay ==
  ASSUME ~ FramesOutlastSwitch
  PROVE  Spec => []VrModeKeepsServices
<1>1. IInv => VrModeKeepsServices
  BY DEF IInv, Switch, ServicesOn, VrModeKeepsServices
<1> QED
  BY Invariance, <1>1, PTL

\* A throttled process waits for an unmount, a reset or an undock (VrApi.cpp:547-595,
\* 1337-1342): no two threads are at it, so none writes what the other has
\* decided otherwise.
THEOREM ThrottleEnds ==
  ASSUME ~ FramesOutlastSwitch
  PROVE  Spec => []ThrottleHasAnEnd
<1>1. IInv => ThrottleHasAnEnd
  BY DEF IInv, Ride
<1> QED
  BY Invariance, <1>1, PTL

\* 60 Hz comes back only after the headset was taken off (VrApi.cpp:547-555).
THEOREM RideStaysThrottled ==
  ASSUME ~ FramesOutlastSwitch
  PROVE  Spec => ThrottleOutlastsRide
<1>1. IInv /\ [Next]_vars => [Throttled /\ ~ Throttled' => unmountSince]_vars
  BY RideStep DEF IInv, Switch
<1> QED
  BY Invariance, <1>1, PTL DEF Spec, ThrottleOutlastsRide

=============================================================================
