-------------------------------- MODULE AppProof --------------------------------
(***************************************************************************)
(* Proofs about App, for any number of callbacks in any order: no mode has *)
(* a window that is gone or swaps for a paused activity, and a VR thread   *)
(* without messages knows the activity as Android does.                    *)
(*                                                                         *)
(* Resume enters VR mode without a look at Paused.  That is safe because   *)
(* of what is still in the queue: when the VR thread takes a resume it has *)
(* taken a pause and no resume since (WhilePaused), as Android resumes no  *)
(* activity but a paused one.                                              *)
(***************************************************************************)
EXTENDS App, SequenceTheorems, TLAPS

Words == {"pause", "resume"}

\* The last word on pausing, once the message the VR thread works on is done.
LastWord ==
  IF vr = "command" /\ msg \in Words THEN msg ELSE IF Paused THEN "pause" ELSE "resume"

\* Paused after the first i messages of s, if the last word before them is w.
PausedAfter(s, w, i) ==
  \/ \E j \in 1..i : s[j] = "pause" /\ \A n \in j + 1..i : s[n] # "resume"
  \/ w = "pause" /\ \A n \in 1..i : s[n] # "resume"

\* A resume finds the VR thread paused, now or when its turn comes.
WhilePaused ==
  /\ vr = "command" /\ msg = "resume" => Paused
  /\ \A i \in 1..Len(queue) : queue[i] = "resume" => PausedAfter(queue, LastWord, i - 1)
  /\ ui # "destroyed" /\ ~ resumed => PausedAfter(queue, LastWord, Len(queue))

\* A frame begins with a window and not paused, and neither changes in it.
FrameHasWindow == vr = "frame" => window /\ ~ Paused

NotStarted == ui = "create" => vr = "none"

IInv == TypeOK /\ OnlyOvrMobileHasTheWindow /\ WhilePaused /\ FrameHasWindow /\ NotStarted

-----------------------------------------------------------------------------
(* What becomes of the pauses in a queue. *)

\* A message at the end of the queue leaves the pauses before it as they are.
LEMMA Appended ==
  ASSUME NEW s \in Seq(Messages), NEW m \in Messages, NEW w \in Words,
         NEW t \in Seq(Messages), t = Append(s, m)
  PROVE  /\ Len(t) = Len(s) + 1 /\ t[Len(t)] = m
         /\ \A i \in 1..Len(s) : t[i] = s[i]
         /\ \A i \in 0..Len(s) : PausedAfter(s, w, i) => PausedAfter(t, w, i)
         /\ m = "pause" => PausedAfter(t, w, Len(t))
         /\ m # "resume" /\ PausedAfter(s, w, Len(s)) => PausedAfter(t, w, Len(t))
<1>1. /\ t \in Seq(Messages) /\ Len(t) = Len(s) + 1 /\ t[Len(t)] = m
      /\ \A i \in 1..Len(s) : t[i] = s[i]
  BY AppendProperties, LenProperties
<1>2. Len(s) \in Nat
  BY LenProperties
<1>3. \A i \in 0..Len(s) : PausedAfter(s, w, i) => PausedAfter(t, w, i)
  BY <1>1, <1>2 DEF PausedAfter
<1>4. m = "pause" => PausedAfter(t, w, Len(t))
  BY <1>1, <1>2 DEF PausedAfter
<1>5. m # "resume" /\ PausedAfter(s, w, Len(s)) => PausedAfter(t, w, Len(t))
  BY <1>1, <1>2 DEF PausedAfter
<1> QED
  BY <1>1, <1>3, <1>4, <1>5

\* The first message of the queue has its effect when it leaves it.
LEMMA Taken ==
  ASSUME NEW s \in Seq(Messages), s # <<>>, NEW w \in Words, NEW t, t = Tail(s), NEW v \in Words,
         v = (IF s[1] \in Words THEN s[1] ELSE w)
  PROVE  /\ t \in Seq(Messages) /\ Len(s) \in Nat \ {0} /\ Len(t) = Len(s) - 1
         /\ \A i \in 1..Len(t) : t[i] = s[i + 1]
         /\ \A i \in 0..Len(t) : PausedAfter(s, w, i + 1) => PausedAfter(t, v, i)
<1>1. /\ t \in Seq(Messages) /\ Len(s) \in Nat \ {0} /\ Len(t) = Len(s) - 1
      /\ \A i \in 1..Len(t) : t[i] = s[i + 1]
  BY HeadTailProperties, EmptySeq, LenProperties
<1>2. ASSUME NEW i \in 0..Len(t), PausedAfter(s, w, i + 1) PROVE PausedAfter(t, v, i)
  <2>1. CASE \E j \in 2..i + 1 : s[j] = "pause" /\ \A n \in j + 1..i + 1 : s[n] # "resume"
    <3>1. PICK j \in 2..i + 1 : s[j] = "pause" /\ \A n \in j + 1..i + 1 : s[n] # "resume"
      BY <2>1
    <3>2. j - 1 \in 1..i /\ t[j - 1] = "pause"
      BY <1>1, <3>1
    <3>3. \A n \in (j - 1) + 1..i : t[n] # "resume"
      BY <1>1, <3>1
    <3> QED
      BY <3>2, <3>3 DEF PausedAfter
  <2>2. CASE v = "pause" /\ \A n \in 2..i + 1 : s[n] # "resume"
    <3>1. \A n \in 1..i : t[n] # "resume"
      BY <1>1, <2>2
    <3> QED
      BY <2>2, <3>1 DEF PausedAfter
  <2>3. \/ \E j \in 2..i + 1 : s[j] = "pause" /\ \A n \in j + 1..i + 1 : s[n] # "resume"
        \/ s[1] = "pause" /\ \A n \in 2..i + 1 : s[n] # "resume"
        \/ w = "pause" /\ s[1] # "resume" /\ \A n \in 2..i + 1 : s[n] # "resume"
    BY <1>1, <1>2 DEF PausedAfter
  <2>4. s[1] = "pause" => v = "pause"
    BY DEF Words
  <2>5. w = "pause" /\ s[1] # "resume" => v = "pause"
    BY DEF Words
  <2> QED
    BY <2>1, <2>2, <2>3, <2>4, <2>5
<1> QED
  BY <1>1, <1>2

-----------------------------------------------------------------------------

\* The types the lemmas about the queue ask for.
LEMMA Typed ==
  ASSUME TypeOK
  PROVE  /\ queue \in Seq(Messages) /\ Len(queue) \in Nat
         /\ LastWord \in Words
<1>1. queue \in Seq(Messages) /\ Len(queue) \in Nat
  BY LenProperties DEF TypeOK
<1>2. Paused \in BOOLEAN
  BY DEF TypeOK
<1> QED
  BY <1>1, <1>2 DEF LastWord, Words

\* Posting adds one message and wakes the VR thread, and touches nothing else of its.
LEMMA Posting ==
  ASSUME TypeOK, NEW m \in Messages, Post(m)
  PROVE  /\ queue' = Append(queue, m) /\ queue' \in Seq(Messages) /\ Len(queue') <= vrMessages
         /\ msg' = msg /\ Paused' = Paused /\ vr' \in VrStates
         /\ vr' = "command" <=> vr = "command"
         /\ vr' = "frame" <=> vr = "frame"
<1>1. queue \in Seq(Messages) /\ Len(queue) <= vrMessages /\ vr \in VrStates
  BY DEF TypeOK
<1>2. queue' = Append(queue, m) /\ msg' = msg /\ Len(queue) < vrMessages
  BY DEF Post, Queue!Accept
<1>3. queue' \in Seq(Messages) /\ Len(queue') = Len(queue) + 1
  BY <1>1, <1>2, AppendProperties
<1>4. /\ vr' \in VrStates
      /\ vr' = "command" <=> vr = "command"
      /\ vr' = "frame" <=> vr = "frame"
  BY <1>1 DEF Post, Woken, VrStates
<1>5. Len(queue') <= vrMessages
  BY <1>1, <1>2, <1>3, AppAssumption, LenProperties
<1>6. Paused' = Paused
  BY DEF Post
<1> QED
  BY <1>2, <1>3, <1>4, <1>5, <1>6

\* Android sends what needs a pause to a paused activity only, and what ends the
\* pause of an activity it has resumed.
LEMMA PostedWhilePaused ==
  ASSUME TypeOK, WhilePaused, NEW m \in Messages, Post(m), ui # "destroyed",
         m = "resume" => ~ resumed,
         ~ resumed' => m = "pause" \/ (m # "resume" /\ ~ resumed)
  PROVE  WhilePaused'
<1>1. /\ queue \in Seq(Messages) /\ LastWord \in Words
      /\ queue' \in Seq(Messages) /\ queue' = Append(queue, m)
  BY Typed, Posting
<1>2. /\ Len(queue) \in Nat /\ msg' = msg /\ Paused' = Paused
      /\ vr' = "command" <=> vr = "command"
  BY Typed, Posting
<1>3. LastWord' = LastWord
  BY <1>2 DEF LastWord, Words
<1>4. /\ Len(queue') = Len(queue) + 1 /\ queue'[Len(queue')] = m
      /\ \A i \in 1..Len(queue) : queue'[i] = queue[i]
  BY <1>1, Appended
<1>5. \A i \in 0..Len(queue) : PausedAfter(queue, LastWord, i) => PausedAfter(queue', LastWord, i)
  BY <1>1, Appended
<1>6. m = "pause" => PausedAfter(queue', LastWord, Len(queue'))
  BY <1>1, Appended
<1>7. m # "resume" /\ PausedAfter(queue, LastWord, Len(queue)) =>
           PausedAfter(queue', LastWord, Len(queue'))
  BY <1>1, Appended
<1>8. vr' = "command" /\ msg' = "resume" => Paused'
  BY <1>2 DEF WhilePaused
<1>9. ASSUME NEW i \in 1..Len(queue'), queue'[i] = "resume"
      PROVE  PausedAfter(queue', LastWord, i - 1)
  <2>1. CASE i \in 1..Len(queue)
    <3>1. PausedAfter(queue, LastWord, i - 1)
      BY <1>4, <1>9, <2>1 DEF WhilePaused
    <3>2. i - 1 \in 0..Len(queue)
      BY <1>2, <2>1
    <3> QED
      BY <1>5, <3>1, <3>2
  <2>2. CASE i = Len(queue) + 1
    <3>1. PausedAfter(queue, LastWord, Len(queue))
      BY <1>4, <1>9, <2>2 DEF WhilePaused
    <3>2. i - 1 = Len(queue) /\ Len(queue) \in 0..Len(queue)
      BY <1>2, <2>2
    <3> QED
      BY <1>5, <3>1, <3>2
  <2> QED
    BY <1>2, <1>4, <2>1, <2>2
<1>10. ASSUME ~ resumed' PROVE PausedAfter(queue', LastWord, Len(queue'))
  BY <1>6, <1>7, <1>10 DEF WhilePaused
<1> QED
  BY <1>3, <1>8, <1>9, <1>10 DEF WhilePaused

\* The first message becomes the one the VR thread works on.
LEMMA HandedOut ==
  ASSUME TypeOK, WhilePaused, vr # "command", vr' = "command", Queue!HandOut,
         UNCHANGED <<ui, resumed, Paused>>
  PROVE  WhilePaused'
<1>1. /\ queue \in Seq(Messages) /\ LastWord \in Words
      /\ queue # <<>> /\ msg' = Head(queue) /\ queue' = Tail(queue)
  BY Typed DEF Queue!HandOut
<1>2. msg' = queue[1]
  BY <1>1, HeadTailProperties
<1>3. LastWord = (IF Paused THEN "pause" ELSE "resume")
  BY DEF LastWord, Words, TypeOK
<1>4. /\ LastWord' = (IF queue[1] \in Words THEN queue[1] ELSE LastWord)
      /\ LastWord' \in Words
  BY <1>2, <1>3 DEF LastWord, Words
<1>5. /\ Len(queue) \in Nat \ {0} /\ Len(queue') = Len(queue) - 1
      /\ \A i \in 1..Len(queue') : queue'[i] = queue[i + 1]
      /\ \A i \in 0..Len(queue') :
           PausedAfter(queue, LastWord, i + 1) => PausedAfter(queue', LastWord', i)
  <2>1. /\ Len(queue) \in Nat \ {0} /\ Len(queue') = Len(queue) - 1
        /\ \A i \in 1..Len(queue') : queue'[i] = queue[i + 1]
    BY <1>1, HeadTailProperties, EmptySeq, LenProperties
  <2>2. PICK v \in Words : v = LastWord' /\ v = (IF queue[1] \in Words THEN queue[1] ELSE LastWord)
    BY <1>4
  <2>3. PICK t : t = Tail(queue) /\ queue' = t
    BY <1>1
  <2>4. \A i \in 0..Len(t) : PausedAfter(queue, LastWord, i + 1) => PausedAfter(t, v, i)
    BY <1>1, <2>2, <2>3, Taken
  <2> QED
    BY <2>1, <2>2, <2>3, <2>4
<1>6. msg' = "resume" => Paused'
  <2>1. 1 \in 1..Len(queue) /\ 1 - 1 = 0
    BY <1>5
  <2>2. queue[1] = "resume" => PausedAfter(queue, LastWord, 1 - 1)
    BY <2>1 DEF WhilePaused
  <2> QED
    BY <1>2, <1>3, <2>1, <2>2 DEF PausedAfter, Words
<1>7. ASSUME NEW i \in 1..Len(queue'), queue'[i] = "resume"
      PROVE  PausedAfter(queue', LastWord', i - 1)
  <2>1. i + 1 \in 1..Len(queue) /\ i - 1 \in 0..Len(queue') /\ (i - 1) + 1 = (i + 1) - 1
    BY <1>5
  <2>2. PausedAfter(queue, LastWord, (i + 1) - 1)
    BY <1>5, <1>7, <2>1 DEF WhilePaused
  <2> QED
    BY <1>5, <2>1, <2>2
<1>8. ASSUME ui # "destroyed", ~ resumed PROVE PausedAfter(queue', LastWord', Len(queue'))
  <2>1. PausedAfter(queue, LastWord, Len(queue') + 1)
    BY <1>5, <1>8 DEF WhilePaused
  <2>2. Len(queue') \in 0..Len(queue')
    BY <1>5
  <2> QED
    BY <1>5, <2>1, <2>2
<1> QED
  BY <1>6, <1>7, <1>8 DEF WhilePaused

\* What the VR thread does to Paused is what the message it has taken says.
LEMMA Commanded ==
  ASSUME WhilePaused, vr' # "command", LastWord = (IF Paused' THEN "pause" ELSE "resume"),
         ui' # "destroyed" => ui # "destroyed", UNCHANGED <<resumed, queue>>
  PROVE  WhilePaused'
<1>1. LastWord' = LastWord
  BY DEF LastWord, Words
<1> QED
  BY <1>1 DEF WhilePaused

\* A thread that moves on between messages leaves the pauses as they are.
LEMMA Moved ==
  ASSUME WhilePaused, vr # "command", vr' # "command",
         ui' # "destroyed" => ui # "destroyed", UNCHANGED <<resumed, queue, Paused>>
  PROVE  WhilePaused'
BY Commanded DEF LastWord

-----------------------------------------------------------------------------

\* The activity is not resumed, and nothing is posted.
LEMMA Initially == Init => IInv
<1> SUFFICES ASSUME Init PROVE IInv
  OBVIOUS
<1>1. TypeOK
  <2>1. ui \in UiStates /\ vr \in VrStates
    BY DEF Init, UiStates, VrStates
  <2>2. {resumed, surface, VrThreadSynced, Paused, CreatedSurface, OneTimeInitCalled,
         ReadyToExit, window} \subseteq BOOLEAN
    BY DEF Init
  <2>3. events \in 0..EventBound /\ reconfigured \in 0..ReconfigureBound
    BY AppAssumption DEF Init
  <2>4. result \in [Syncs -> {"none", "empty", "ack", "freed"}]
    BY DEF Init
  <2>5. queue \in Seq(Messages) /\ Len(queue) <= vrMessages /\ msg \in Messages \cup {NULL}
    BY AppAssumption, EmptySeq DEF Init, Queue!Init
  <2>6. /\ entered \in Nat /\ OvrMobile = entered
        /\ attached \subseteq live /\ live \subseteq 1..entered
    BY DEF Init
  <2> QED
    BY <2>1, <2>2, <2>3, <2>4, <2>5, <2>6 DEF TypeOK
<1>2. OnlyOvrMobileHasTheWindow /\ FrameHasWindow /\ NotStarted
  BY DEF Init, OnlyOvrMobileHasTheWindow, FrameHasWindow, NotStarted
<1>3. WhilePaused
  <2>1. queue = <<>> /\ Paused /\ vr = "none" /\ Len(queue) = 0
    BY EmptySeq DEF Init, Queue!Init
  <2> QED
    BY <2>1 DEF WhilePaused, PausedAfter, LastWord, Words
<1> QED
  BY <1>1, <1>2, <1>3 DEF IInv

-----------------------------------------------------------------------------
(* What becomes of the modes. *)

\* ovr_EnterVrMode makes a new mode the current one, whatever was there.
LEMMA Entering ==
  ASSUME ModesBecome(EnterVrMode(Modes))
  PROVE  /\ entered' = entered + 1 /\ OvrMobile' = entered + 1
         /\ live' = live \cup {entered + 1} /\ attached' = attached \cup {entered + 1}
BY DEF ModesBecome, EnterVrMode, Modes

\* ovr_LeaveVrMode ends the current mode.
LEMMA Leaving ==
  ASSUME ModesBecome(LeaveVrMode(Modes))
  PROVE  /\ entered' = entered /\ OvrMobile' = OvrMobile
         /\ live' = live \ {OvrMobile} /\ attached' = attached \ {OvrMobile}
BY DEF ModesBecome, LeaveVrMode, Modes

\* SetVrModeParms ends the current mode and makes a new one.
LEMMA Changing ==
  ASSUME ModesBecome(EnterVrMode(LeaveVrMode(Modes)))
  PROVE  /\ entered' = entered + 1 /\ OvrMobile' = entered + 1
         /\ live' = (live \ {OvrMobile}) \cup {entered + 1}
         /\ attached' = (attached \ {OvrMobile}) \cup {entered + 1}
BY DEF ModesBecome, LeaveVrMode, EnterVrMode, Modes

\* ovr_SurfaceDestroyed takes the window from the current mode.
LEMMA Detaching ==
  ASSUME ModesBecome(SurfaceDestroyed(Modes))
  PROVE  /\ entered' = entered /\ OvrMobile' = OvrMobile
         /\ live' = live /\ attached' = attached \ {OvrMobile}
BY DEF ModesBecome, SurfaceDestroyed, Modes

\* A message that enters and leaves nothing.
LEMMA Staying ==
  ASSUME ModesBecome(Modes)
  PROVE  UNCHANGED mode
BY DEF ModesBecome, Modes, mode

\* The modes that run, and the one of them that has the window.
ModeOK ==
  /\ entered \in Nat /\ OvrMobile = entered
  /\ attached \subseteq live /\ live \subseteq 1..entered
  /\ OnlyOvrMobileHasTheWindow

\* VR mode is only entered when no mode has the window: the new mode gets it.
LEMMA Entered ==
  ASSUME ModeOK, attached = {}, ModesBecome(EnterVrMode(Modes)), window', ~ Paused'
  PROVE  ModeOK'
<1>1. entered \in Nat /\ live \subseteq 1..entered
  BY DEF ModeOK
<1>2. /\ entered' = entered + 1 /\ OvrMobile' = entered'
      /\ live' = live \cup {entered'} /\ attached' = {entered'}
  BY <1>1, Entering
<1>3. entered' \in Nat /\ live' \subseteq 1..entered'
  BY <1>1, <1>2
<1> QED
  BY <1>2, <1>3 DEF ModeOK, OnlyOvrMobileHasTheWindow

\* With VR mode left, the window and Paused may change.
LEMMA Left ==
  ASSUME ModeOK, ModesBecome(LeaveVrMode(Modes))
  PROVE  ModeOK' /\ attached' = {}
<1>1. /\ entered \in Nat /\ OvrMobile = entered
      /\ attached \subseteq live /\ live \subseteq 1..entered
  BY DEF ModeOK
<1>2. /\ entered' = entered /\ OvrMobile' = OvrMobile
      /\ live' = live \ {OvrMobile} /\ attached' = attached \ {OvrMobile}
  BY Leaving
<1>3. attached' = {}
  BY <1>2 DEF ModeOK, OnlyOvrMobileHasTheWindow
<1>4. live' \subseteq 1..entered'
  BY <1>1, <1>2
<1> QED
  BY <1>1, <1>2, <1>3, <1>4 DEF ModeOK, OnlyOvrMobileHasTheWindow

\* A frame may leave VR mode and enter it again.
LEMMA Changed ==
  ASSUME ModeOK, window', ~ Paused', ModesBecome(EnterVrMode(LeaveVrMode(Modes)))
  PROVE  ModeOK'
<1>1. entered \in Nat /\ live \subseteq 1..entered /\ attached \ {OvrMobile} = {}
  BY DEF ModeOK, OnlyOvrMobileHasTheWindow
<1>2. /\ entered' = entered + 1 /\ OvrMobile' = entered'
      /\ live' = (live \ {OvrMobile}) \cup {entered'} /\ attached' = {entered'}
  BY <1>1, Changing
<1>3. entered' \in Nat /\ live' \subseteq 1..entered'
  <2>1. entered' \in Nat /\ entered' \in 1..entered' /\ 1..entered \subseteq 1..entered'
    BY <1>1, <1>2
  <2> QED
    BY <1>1, <1>2, <2>1
<1> QED
  BY <1>2, <1>3 DEF ModeOK, OnlyOvrMobileHasTheWindow

\* With no mode on the window it and Paused do not matter.
LEMMA Kept ==
  ASSUME ModeOK, UNCHANGED mode, attached # {} => UNCHANGED <<window, Paused>>
  PROVE  ModeOK'
BY DEF ModeOK, OnlyOvrMobileHasTheWindow, mode

-----------------------------------------------------------------------------

\* Each message of the queue leaves the modes as they must be: no mode has the
\* window when a resume is taken, or when a window is created.
LEMMA CommandModes ==
  ASSUME TypeOK, ModeOK, WhilePaused, Command
  PROVE  ModeOK'
<1>1. Paused \in BOOLEAN /\ window \in BOOLEAN /\ CreatedSurface \in BOOLEAN
  BY DEF TypeOK
<1>2. attached # {} => window /\ ~ Paused
  BY DEF ModeOK, OnlyOvrMobileHasTheWindow
<1>3. msg = "resume" => attached = {}
  BY <1>2 DEF Command, WhilePaused
<1>4. CASE CreateSurface
  <2>1. CASE HasWindow
    BY <1>4, <2>1, Kept DEF CreateSurface, mode
  <2>2. CASE ~ HasWindow /\ Paused
    BY <1>2, <1>4, <2>2, Staying, Kept DEF CreateSurface, HasWindow
  <2>3. CASE ~ HasWindow /\ ~ Paused
    BY <1>1, <1>2, <1>4, <2>3, Entered DEF CreateSurface, HasWindow
  <2> QED
    BY <2>1, <2>2, <2>3
<1>5. CASE DestroySurface
  <2>1. /\ entered' = entered /\ OvrMobile' = OvrMobile /\ live' = live
        /\ attached' = attached \ {OvrMobile}
    BY <1>5, Detaching DEF DestroySurface
  <2>2. attached' = {}
    BY <2>1 DEF ModeOK, OnlyOvrMobileHasTheWindow
  <2> QED
    BY <2>1, <2>2 DEF ModeOK, OnlyOvrMobileHasTheWindow
<1>6. CASE Pause
  <2>1. CASE Paused
    BY <1>2, <1>6, <2>1, Staying, Kept DEF Pause
  <2>2. CASE ~ Paused
    BY <1>6, <2>2, Left DEF Pause
  <2> QED
    BY <2>1, <2>2
<1>7. CASE Resume
  <2>1. attached = {}
    BY <1>3, <1>7 DEF Resume
  <2>2. CASE MayResume
    BY <1>1, <1>7, <2>1, <2>2, Entered DEF Resume, MayResume
  <2>3. CASE ~ MayResume
    BY <1>7, <2>1, <2>3, Staying, Kept DEF Resume
  <2> QED
    BY <2>2, <2>3
<1>8. CASE Sync \/ Intent
  BY <1>8, Kept DEF Sync, Intent, mode
<1>9. CASE Quit
  BY <1>9, Left DEF Quit
<1> QED
  BY <1>4, <1>5, <1>6, <1>7, <1>8, <1>9 DEF Command

\* Only a pause and a resume change Paused, and each as it says.
LEMMA CommandPauses ==
  ASSUME TypeOK, WhilePaused, Command
  PROVE  WhilePaused'
<1>1. Paused \in BOOLEAN
  BY DEF TypeOK
<1>2. CASE Pause \/ Resume
  <2>1. LastWord = (IF Paused' THEN "pause" ELSE "resume")
    BY <1>2 DEF Command, Pause, Resume, LastWord, Words
  <2> QED
    BY <2>1, Commanded DEF Command, android
<1>3. CASE CreateSurface \/ DestroySurface \/ Sync \/ Quit \/ Intent
  <2>1. msg \notin Words /\ UNCHANGED Paused
    BY <1>3 DEF CreateSurface, DestroySurface, Sync, Quit, Intent, Words, Syncs
  <2> QED
    BY <1>1, <2>1, Commanded DEF Command, LastWord, Words, android
<1> QED
  BY <1>2, <1>3 DEF Command

-----------------------------------------------------------------------------
(* The types of the rest: where the threads are, the flags, and the data. *)

PlaceOK == ui \in UiStates /\ vr \in VrStates

FlagOK ==
  /\ {resumed, surface, VrThreadSynced} \subseteq BOOLEAN
  /\ {Paused, CreatedSurface, OneTimeInitCalled, ReadyToExit, window} \subseteq BOOLEAN

DataOK ==
  /\ events \in 0..EventBound /\ reconfigured \in 0..ReconfigureBound
  /\ result \in [Syncs -> {"none", "empty", "ack", "freed"}]
  /\ queue \in Seq(Messages) /\ Len(queue) <= vrMessages
  /\ msg \in Messages \cup {NULL}

\* Each thread moves from one of its places to another.
LEMMA PlaceStep ==
  ASSUME TypeOK, Next
  PROVE  PlaceOK'
<1>1. ui \in UiStates /\ vr \in VrStates
  BY DEF TypeOK
<1>2. ASSUME NEW m \in Messages, Post(m) PROVE vr' \in VrStates
  BY <1>2, Posting
<1>3. CASE Android
  <2>1. ui' \in UiStates
    BY <1>1, <1>3 DEF Android, onResume, onPause, surfaceChanged, surfaceDestroyed, onDestroy,
          Callback, UiStates
  <2>2. vr' \in VrStates
    BY <1>2, <1>3 DEF Android, onResume, onPause, surfaceChanged, surfaceDestroyed, onDestroy,
          Callback, Messages
  <2> QED
    BY <2>1, <2>2 DEF PlaceOK
<1>4. ASSUME NEW s \in Syncs, PostSync(s) PROVE PlaceOK'
  BY <1>2, <1>4 DEF PostSync, PlaceOK, Syncs, Messages, UiStates
<1>5. CASE PostIntent
  BY <1>2, <1>5 DEF PostIntent, PlaceOK, Messages, UiStates
<1>6. CASE StartVrThread \/ Joined \/ \E s \in Syncs : Returns(s)
  BY <1>1, <1>6 DEF StartVrThread, Joined, Returns, PlaceOK, UiStates, VrStates, vrvars
<1>7. CASE VrThread \/ SpuriousWakeup
  BY <1>1, <1>7 DEF VrThread, InitVrThread, Loop, GetNextMessage, Command, AfterMessages,
        SleepUntilMessage, Frame, SpuriousWakeup, Rest, PlaceOK, VrStates
<1> QED
  BY <1>3, <1>4, <1>5, <1>6, <1>7 DEF Next, UiThread, Synced, SyncedEarly

\* Flags stay flags.
LEMMA FlagStep ==
  ASSUME TypeOK, Next
  PROVE  FlagOK'
<1>1. FlagOK
  BY DEF TypeOK, FlagOK
<1>2. CASE Android
  BY <1>1, <1>2 DEF Android, onResume, onPause, surfaceChanged, surfaceDestroyed, onDestroy,
        Callback, Post, android, FlagOK
<1>3. CASE UiThread \/ \E s \in Syncs : SyncedEarly(s)
  BY <1>1, <1>3 DEF UiThread, StartVrThread, PostIntent, Joined, PostSync, Synced, SyncedEarly, Returns, Post,
        android, vrvars, FlagOK
<1>4. CASE Command
  BY <1>1, <1>4 DEF Command, CreateSurface, DestroySurface, Pause, Resume, Sync, Quit, Intent,
        android, FlagOK
<1>5. CASE \/ InitVrThread \/ Loop \/ GetNextMessage
            \/ AfterMessages \/ SleepUntilMessage \/ SpuriousWakeup
  BY <1>1, <1>5 DEF InitVrThread, Loop, GetNextMessage, AfterMessages, SleepUntilMessage,
        SpuriousWakeup, Rest, android, FlagOK
<1>6. CASE Frame
  BY <1>1, <1>6 DEF Frame, android, FlagOK
<1> QED
  BY <1>2, <1>3, <1>4, <1>5, <1>6 DEF Next, VrThread

\* The counters stay in their bounds, and the queue holds messages.
LEMMA DataStep ==
  ASSUME TypeOK, Next
  PROVE  DataOK'
<1>1. DataOK
  BY DEF TypeOK, DataOK
<1>2. ASSUME NEW m \in Messages, Post(m)
      PROVE  /\ queue' \in Seq(Messages) /\ Len(queue') <= vrMessages
             /\ msg' \in Messages \cup {NULL} /\ reconfigured' = reconfigured
  BY <1>1, <1>2, Posting DEF DataOK, Post
<1>3. ASSUME NEW m \in Messages, Callback(m) PROVE DataOK'
  <2>1. events' \in 0..EventBound
    BY <1>1, <1>3, AppAssumption DEF Callback, DataOK
  <2>2. Post(m) /\ result' = result
    BY <1>3 DEF Callback
  <2> QED
    BY <1>1, <1>2, <2>1, <2>2 DEF DataOK
<1>4. CASE onResume \/ onPause \/ surfaceChanged \/ surfaceDestroyed
  BY <1>3, <1>4 DEF onResume, onPause, surfaceChanged, surfaceDestroyed, Messages
<1>5. CASE onDestroy
  BY <1>1, <1>2, <1>5 DEF onDestroy, android, DataOK, Messages
<1>6. ASSUME NEW s \in Syncs, PostSync(s) PROVE DataOK'
  BY <1>1, <1>2, <1>6 DEF PostSync, android, DataOK, Messages
<1>7. CASE PostIntent
  BY <1>1, <1>2, <1>7 DEF PostIntent, android, DataOK, Messages
<1>8. CASE StartVrThread
  BY <1>1, <1>8 DEF StartVrThread, android, DataOK
<1>9. ASSUME NEW s \in Syncs, Returns(s) PROVE DataOK'
  BY <1>1, <1>9 DEF Returns, android, vrvars, DataOK
<1>10. CASE Joined
  BY <1>1, <1>10, EmptySeq, AppAssumption DEF Joined, Queue!Discard, android, vrvars, DataOK
<1>11. CASE Command
  BY <1>1, <1>11 DEF Command, CreateSurface, DestroySurface, Pause, Resume, Sync, Quit, Intent,
        android, DataOK
<1>12. CASE GetNextMessage
  <2>1. CASE UNCHANGED <<queue, msg>>
    BY <1>1, <1>12, <2>1 DEF GetNextMessage, Rest, android, DataOK
  <2>2. CASE Queue!HandOut
    <3>1. /\ queue' \in Seq(Messages) /\ Len(queue') = Len(queue) - 1
          /\ msg' \in Messages
      BY <1>1, <2>2, HeadTailProperties DEF DataOK, Queue!HandOut
    <3>2. Len(queue') <= vrMessages
      BY <1>1, <3>1, AppAssumption, LenProperties DEF DataOK
    <3> QED
      BY <1>1, <1>12, <3>1, <3>2 DEF GetNextMessage, Rest, android, DataOK
  <2> QED
    BY <1>12, <2>1, <2>2 DEF GetNextMessage
<1>13. CASE InitVrThread \/ Loop \/ AfterMessages \/ SleepUntilMessage \/ SpuriousWakeup
  BY <1>1, <1>13 DEF InitVrThread, Loop, AfterMessages, SleepUntilMessage, SpuriousWakeup,
        Rest, android, DataOK
<1>14. CASE Frame
  BY <1>1, <1>14, AppAssumption DEF Frame, android, DataOK
<1> QED
  BY <1>4, <1>5, <1>6, <1>7, <1>8, <1>9, <1>10, <1>11, <1>12, <1>13, <1>14
  DEF Next, UiThread, Synced, SyncedEarly, Android, VrThread

-----------------------------------------------------------------------------

\* Only the commands and a frame change the modes, the window or Paused.
LEMMA ModeStep ==
  ASSUME TypeOK, ModeOK, WhilePaused, FrameHasWindow, Next
  PROVE  ModeOK'
<1>1. CASE Android
  BY <1>1, Kept DEF Android, onResume, onPause, surfaceChanged, surfaceDestroyed, onDestroy,
        Callback, Post
<1>2. CASE UiThread \/ \E s \in Syncs : SyncedEarly(s)
  BY <1>2, Kept DEF UiThread, StartVrThread, PostIntent, Joined, PostSync, Synced, SyncedEarly, Returns, Post, vrvars
<1>3. CASE Command
  BY <1>3, CommandModes
<1>4. CASE \/ InitVrThread \/ Loop \/ GetNextMessage
            \/ AfterMessages \/ SleepUntilMessage \/ SpuriousWakeup
  BY <1>4, Kept DEF InitVrThread, Loop, GetNextMessage, AfterMessages, SleepUntilMessage,
        SpuriousWakeup, Rest
<1>5. CASE Frame
  <2>1. window' /\ ~ Paused' /\ UNCHANGED <<window, Paused>>
    BY <1>5 DEF Frame, FrameHasWindow
  <2> QED
    BY <1>5, <2>1, Kept, Left, Changed DEF Frame
<1> QED
  BY <1>1, <1>2, <1>3, <1>4, <1>5 DEF Next, VrThread

\* A message joins the queue in the order of Android's callbacks and leaves it
\* when the VR thread takes it; nothing else moves the pauses.
LEMMA PauseStep ==
  ASSUME TypeOK, WhilePaused, NotStarted, Next
  PROVE  WhilePaused'
<1>1. resumed \in BOOLEAN /\ Paused \in BOOLEAN
  BY DEF TypeOK
<1>2. CASE onResume
  BY <1>2, PostedWhilePaused DEF onResume, Callback, Messages
<1>3. CASE onPause
  BY <1>3, PostedWhilePaused DEF onPause, Callback, Messages
<1>4. CASE surfaceChanged
  BY <1>4, PostedWhilePaused DEF surfaceChanged, Callback, Messages
<1>5. CASE surfaceDestroyed
  BY <1>5, PostedWhilePaused DEF surfaceDestroyed, Callback, Messages
<1>6. CASE onDestroy
  BY <1>6, PostedWhilePaused DEF onDestroy, android, Messages
<1>7. CASE PostIntent
  BY <1>7, PostedWhilePaused DEF PostIntent, android, Messages
<1>8. ASSUME NEW s \in Syncs, PostSync(s) PROVE WhilePaused'
  BY <1>8, PostedWhilePaused DEF PostSync, android, Messages, Syncs
<1>9. CASE StartVrThread
  BY <1>9, Moved DEF StartVrThread, android, NotStarted
<1>10. ASSUME NEW s \in Syncs, Returns(s) PROVE WhilePaused'
  <2>1. LastWord' = LastWord
    BY <1>10 DEF Returns, vrvars, LastWord, Words
  <2> QED
    BY <1>10, <2>1 DEF Returns, vrvars, android, WhilePaused, Syncs
<1>11. CASE Joined
  <2>1. queue' = <<>> /\ Len(queue') = 0
    BY <1>11, EmptySeq DEF Joined, Queue!Discard
  <2> QED
    BY <1>11, <2>1 DEF Joined, vrvars, WhilePaused
<1>12. CASE Command
  BY <1>12, CommandPauses
<1>13. CASE GetNextMessage
  <2>1. CASE queue = <<>> /\ vr' = "drained" /\ UNCHANGED <<queue, msg>>
    BY <1>13, <2>1, Moved DEF GetNextMessage, Rest, android
  <2>2. CASE Queue!HandOut /\ vr' = "command"
    BY <1>13, <2>2, HandedOut DEF GetNextMessage, Rest, android
  <2> QED
    BY <1>13, <2>1, <2>2 DEF GetNextMessage
<1>14. CASE InitVrThread \/ Loop \/ AfterMessages \/ SleepUntilMessage \/ SpuriousWakeup
  BY <1>14, Moved DEF InitVrThread, Loop, AfterMessages, SleepUntilMessage, SpuriousWakeup,
        Rest, android
<1>15. CASE Frame
  BY <1>15, Moved DEF Frame, android
<1> QED
  BY <1>2, <1>3, <1>4, <1>5, <1>6, <1>7, <1>8, <1>9, <1>10, <1>11, <1>12, <1>13, <1>14, <1>15
  DEF Next, UiThread, Synced, SyncedEarly, Android, VrThread

\* A frame begins with a window and not paused; nothing runs before onCreate.
LEMMA PlacesStep ==
  ASSUME TypeOK, FrameHasWindow, NotStarted, Next
  PROVE  FrameHasWindow' /\ NotStarted'
<1>1. ASSUME NEW m \in Messages, Post(m)
      PROVE  (vr' = "frame" <=> vr = "frame") /\ UNCHANGED <<window, Paused>>
  BY <1>1, Posting DEF Post
<1>2. CASE Android
  BY <1>1, <1>2 DEF Android, onResume, onPause, surfaceChanged, surfaceDestroyed, onDestroy,
        Callback, Messages, FrameHasWindow, NotStarted
<1>3. CASE UiThread \/ \E s \in Syncs : SyncedEarly(s)
  BY <1>1, <1>3 DEF UiThread, StartVrThread, PostIntent, Joined, PostSync, Synced, SyncedEarly, Returns,
        Messages, Syncs, vrvars, FrameHasWindow, NotStarted
<1>4. CASE VrThread \/ SpuriousWakeup
  BY <1>4 DEF VrThread, InitVrThread, Loop, GetNextMessage, Command, AfterMessages, Sleeps,
        SleepUntilMessage, Frame, SpuriousWakeup, Rest, FrameHasWindow, NotStarted
<1> QED
  BY <1>2, <1>3, <1>4 DEF Next

\* IInv holds in every state.
THEOREM Invariance == Spec => []IInv
<1>1. IInv /\ Next => IInv'
  <2> SUFFICES ASSUME IInv, Next PROVE IInv'
    OBVIOUS
  <2>1. /\ TypeOK /\ OnlyOvrMobileHasTheWindow /\ WhilePaused /\ FrameHasWindow /\ NotStarted
    BY DEF IInv
  <2>2. ModeOK
    BY <2>1 DEF TypeOK, ModeOK
  <2>3. PlaceOK' /\ FlagOK' /\ DataOK' /\ ModeOK'
    BY <2>1, <2>2, PlaceStep, FlagStep, DataStep, ModeStep
  <2>4. TypeOK'
    BY <2>3 DEF PlaceOK, FlagOK, DataOK, ModeOK, TypeOK
  <2>5. OnlyOvrMobileHasTheWindow'
    BY <2>3 DEF ModeOK
  <2> QED
    BY <2>1, <2>4, <2>5, PauseStep, PlacesStep DEF IInv
<1>2. IInv /\ UNCHANGED vars => IInv'
  BY DEF vars, android, vrvars, mode, IInv, TypeOK, OnlyOvrMobileHasTheWindow, WhilePaused, LastWord,
        FrameHasWindow, NotStarted
<1> QED
  BY Initially, <1>1, <1>2, PTL DEF Spec

\* Every variable has its type, however many callbacks come.
THEOREM TypeCorrect == Spec => []TypeOK
<1>1. IInv => TypeOK
  BY DEF IInv
<1> QED
  BY Invariance, <1>1, PTL

\* However the callbacks of Android and the VR thread interleave, no mode has a
\* window that is gone or swaps for a paused activity, and none but OvrMobile has
\* one.
THEOREM ScreenFollowsTheWindow == Spec => []OnlyOvrMobileHasTheWindow
<1>1. IInv => OnlyOvrMobileHasTheWindow
  BY DEF IInv
<1> QED
  BY Invariance, <1>1, PTL

-----------------------------------------------------------------------------
(* How a mode is lost sight of. *)

\* A paused activity has left VR mode.
LeftWhilePaused == Paused => OvrMobile \notin live

LostToASurface ==
  OneMode /\ ~ OneMode' => msg = "createdSurface" /\ ~ Paused /\ OvrMobile \notin attached

\* With the current mode left, or kept, no other is lost.
LEMMA LeftOrKept ==
  ASSUME OvrMobile' = OvrMobile, live' \subseteq live, LeftWhilePaused,
         Paused' => Paused \/ OvrMobile \notin live'
  PROVE  LeftWhilePaused' /\ LostToASurface
BY DEF LeftWhilePaused, LostToASurface, OneMode

\* Resume finds the mode left, and createdSurface may not.
LEMMA CommandLeaves ==
  ASSUME TypeOK, OnlyOvrMobileHasTheWindow, WhilePaused, LeftWhilePaused, Command
  PROVE  LeftWhilePaused' /\ LostToASurface
<1>1. Paused \in BOOLEAN /\ window \in BOOLEAN
  BY DEF TypeOK
<1>2. CASE CreateSurface
  <2>1. CASE HasWindow
    BY <1>2, <2>1, LeftOrKept DEF CreateSurface, mode
  <2>2. CASE ~ HasWindow /\ Paused
    BY <1>2, <2>2, LeftOrKept, Staying DEF CreateSurface, mode
  <2>3. CASE ~ HasWindow /\ ~ Paused
    <3>1. attached = {}
      BY <2>3 DEF OnlyOvrMobileHasTheWindow, HasWindow
    <3>2. msg = "createdSurface" /\ ~ Paused'
      BY <1>2, <2>3 DEF CreateSurface
    <3> QED
      BY <2>3, <3>1, <3>2 DEF LeftWhilePaused, LostToASurface
  <2> QED
    BY <2>1, <2>2, <2>3
<1>3. CASE DestroySurface
  BY <1>3, LeftOrKept, Detaching DEF DestroySurface
<1>4. CASE Pause
  <2>1. CASE Paused
    BY <1>4, <2>1, LeftOrKept, Staying DEF Pause, mode
  <2>2. CASE ~ Paused
    BY <1>4, <2>2, LeftOrKept, Leaving DEF Pause
  <2> QED
    BY <2>1, <2>2
<1>5. CASE Resume
  <2>1. Paused /\ ~ Paused'
    BY <1>5 DEF Command, Resume, WhilePaused
  <2>2. CASE MayResume
    <3>1. OvrMobile' = entered + 1 /\ live' = live \cup {entered + 1}
      BY <1>5, <2>2, Entering DEF Resume
    <3>2. OneMode => live = {}
      BY <2>1 DEF OneMode, LeftWhilePaused
    <3> QED
      BY <2>1, <3>1, <3>2 DEF LeftWhilePaused, LostToASurface, OneMode
  <2>3. CASE ~ MayResume
    BY <1>5, <2>1, <2>3, LeftOrKept, Staying DEF Resume, mode
  <2> QED
    BY <2>2, <2>3
<1>6. CASE Sync \/ Intent
  BY <1>6, LeftOrKept DEF Sync, Intent, mode
<1>7. CASE Quit
  BY <1>7, LeftOrKept, Leaving DEF Quit
<1> QED
  BY <1>2, <1>3, <1>4, <1>5, <1>6, <1>7 DEF Command

\* A frame that changes the mode leaves the old one first.
LEMMA FrameLeaves ==
  ASSUME LeftWhilePaused, FrameHasWindow, Frame
  PROVE  LeftWhilePaused' /\ LostToASurface
<1>1. ~ Paused' /\ ~ Paused
  BY DEF Frame, FrameHasWindow
<1>2. CASE UNCHANGED mode
  BY <1>1, <1>2, LeftOrKept DEF mode
<1>3. CASE ModesBecome(LeaveVrMode(Modes))
  BY <1>1, <1>3, LeftOrKept, Leaving
<1>4. CASE ModesBecome(EnterVrMode(LeaveVrMode(Modes)))
  <2>1. OvrMobile' = entered + 1 /\ live' = (live \ {OvrMobile}) \cup {entered + 1}
    BY <1>4, Changing
  <2> QED
    BY <1>1, <2>1 DEF LeftWhilePaused, LostToASurface, OneMode
<1> QED
  BY <1>2, <1>3, <1>4 DEF Frame

\* Wherever OvrMobile is overwritten but in createdSurface the mode it named has
\* been left, however late the messages are (App.cpp:1369, 1416-1430).
THEOREM ModesAreLeft == Spec => OnlyAReturnedSurfaceLosesAMode
<1>1. Init => LeftWhilePaused
  BY DEF Init, LeftWhilePaused
<1>2. IInv /\ LeftWhilePaused /\ [Next]_vars => LeftWhilePaused' /\ LostToASurface
  <2> SUFFICES ASSUME IInv, LeftWhilePaused, [Next]_vars PROVE LeftWhilePaused' /\ LostToASurface
    OBVIOUS
  <2>1. CASE Command
    BY <2>1, CommandLeaves DEF IInv
  <2>2. CASE Frame
    BY <2>2, FrameLeaves DEF IInv
  <2>3. CASE \/ Android \/ UiThread \/ SpuriousWakeup \/ (\E s \in Syncs : SyncedEarly(s))
              \/ UNCHANGED vars \/ InitVrThread \/ Loop \/ GetNextMessage \/ AfterMessages
              \/ SleepUntilMessage
    <3>1. UNCHANGED <<mode, Paused>>
      BY <2>3 DEF Android, onResume, onPause, surfaceChanged, surfaceDestroyed, onDestroy,
         Callback, Post, UiThread, StartVrThread, PostIntent, Joined, PostSync, Synced, SyncedEarly,
         Returns, SpuriousWakeup, InitVrThread, Loop, GetNextMessage, AfterMessages,
         SleepUntilMessage, Rest, vrvars, vars
    <3> QED
      BY <3>1, LeftOrKept DEF mode
  <2> QED
    BY <2>1, <2>2, <2>3 DEF Next, VrThread
<1>3. LostToASurface => [OneMode /\ ~ OneMode' =>
        msg = "createdSurface" /\ ~ Paused /\ OvrMobile \notin attached]_vars
  BY DEF LostToASurface
<1> QED
  BY Invariance, <1>1, <1>2, <1>3, PTL DEF Spec, OnlyAReturnedSurfaceLosesAMode

-----------------------------------------------------------------------------
(* What the VR thread knows when it has taken every message. *)

Surfaces == {"createdSurface", "destroyedSurface"}

\* The last word on the surface, once the message the VR thread works on is done.
LastSurface ==
  IF vr = "command" /\ msg \in Surfaces THEN msg
  ELSE IF window THEN "createdSurface" ELSE "destroyedSurface"

\* m is the last message of kind K in s or, if s has none, m is w.
Says(s, K, w, m) ==
  \/ \E j \in 1..Len(s) : s[j] = m /\ \A n \in j + 1..Len(s) : s[n] \notin K
  \/ w = m /\ \A n \in 1..Len(s) : s[n] \notin K

\* The messages in the queue end with what Android has told the activity last.
Told ==
  ui # "destroyed" =>
    /\ Says(queue, Words, LastWord, IF resumed THEN "resume" ELSE "pause")
    /\ Says(queue, Surfaces, LastSurface, IF surface THEN "createdSurface" ELSE "destroyedSurface")

\* The VR thread does not sleep when it could render.
Sleeping == vr \in {"idle", "asleep"} => Sleeps

\* A message at the end of a sequence is the last of its kind.
LEMMA SaidLast ==
  ASSUME NEW K, NEW s \in Seq(Messages), NEW m \in Messages, NEW t, t = Append(s, m), NEW w, NEW v
  PROVE  /\ m \in K => Says(t, K, w, m)
         /\ m \notin K /\ Says(s, K, w, v) => Says(t, K, w, v)
<1>1. /\ Len(s) \in Nat /\ Len(t) = Len(s) + 1 /\ t[Len(s) + 1] = m
      /\ \A i \in 1..Len(s) : t[i] = s[i]
  BY AppendProperties, LenProperties
<1>2. m \in K => Says(t, K, w, m)
  <2>1. Len(t) \in 1..Len(t) /\ t[Len(t)] = m /\ \A n \in Len(t) + 1..Len(t) : t[n] \notin K
    BY <1>1
  <2> QED
    BY <2>1 DEF Says
<1>3. ASSUME m \notin K, Says(s, K, w, v) PROVE Says(t, K, w, v)
  <2>1. CASE \E j \in 1..Len(s) : s[j] = v /\ \A n \in j + 1..Len(s) : s[n] \notin K
    <3>1. PICK j \in 1..Len(s) : s[j] = v /\ \A n \in j + 1..Len(s) : s[n] \notin K
      BY <2>1
    <3>2. j \in 1..Len(t) /\ t[j] = v
      BY <1>1, <3>1
    <3>3. ASSUME NEW n \in j + 1..Len(t) PROVE t[n] \notin K
      <4>1. n \in j + 1..Len(s) \/ n = Len(s) + 1
        BY <1>1
      <4> QED
        BY <1>1, <1>3, <3>1, <4>1
    <3> QED
      BY <3>2, <3>3 DEF Says
  <2>2. CASE w = v /\ \A n \in 1..Len(s) : s[n] \notin K
    <3>1. ASSUME NEW n \in 1..Len(t) PROVE t[n] \notin K
      BY <1>1, <1>3, <2>2
    <3> QED
      BY <2>2, <3>1 DEF Says
  <2> QED
    BY <1>3, <2>1, <2>2 DEF Says
<1> QED
  BY <1>2, <1>3

\* A message that leaves the sequence becomes the word before it.
LEMMA SaidTaken ==
  ASSUME NEW K, NEW s \in Seq(Messages), s # <<>>, NEW t, t = Tail(s),
         NEW w, NEW u, u = (IF s[1] \in K THEN s[1] ELSE w), NEW v \in K, Says(s, K, w, v)
  PROVE  Says(t, K, u, v)
<1>1. /\ Len(s) \in Nat \ {0} /\ Len(t) = Len(s) - 1
      /\ \A i \in 1..Len(t) : t[i] = s[i + 1]
  BY HeadTailProperties, EmptySeq, LenProperties
<1>2. ASSUME NEW j \in 1..Len(s), s[j] = v, \A n \in j + 1..Len(s) : s[n] \notin K
      PROVE  Says(t, K, u, v) \/ (j = 1 /\ s[1] = v /\ \A n \in 1..Len(t) : t[n] \notin K)
  <2>1. CASE j = 1
    <3>1. ASSUME NEW n \in 1..Len(t) PROVE t[n] \notin K
      BY <1>1, <1>2, <2>1
    <3> QED
      BY <1>2, <2>1, <3>1
  <2>2. CASE j # 1
    <3>1. j - 1 \in 1..Len(t) /\ t[j - 1] = v
      BY <1>1, <1>2, <2>2
    <3>2. ASSUME NEW n \in (j - 1) + 1..Len(t) PROVE t[n] \notin K
      <4>1. n \in 1..Len(t) /\ n + 1 \in j + 1..Len(s)
        BY <1>1, <3>1
      <4> QED
        BY <1>1, <1>2, <4>1
    <3> QED
      BY <3>1, <3>2 DEF Says
  <2> QED
    BY <2>1, <2>2
<1>3. ASSUME w = v, \A n \in 1..Len(s) : s[n] \notin K PROVE Says(t, K, u, v)
  <2>1. u = v
    BY <1>1, <1>3
  <2>2. ASSUME NEW n \in 1..Len(t) PROVE t[n] \notin K
    BY <1>1, <1>3
  <2> QED
    BY <2>1, <2>2 DEF Says
<1>4. ASSUME s[1] = v, \A n \in 1..Len(t) : t[n] \notin K PROVE Says(t, K, u, v)
  BY <1>4 DEF Says
<1> QED
  BY <1>2, <1>3, <1>4 DEF Says

\* The types the lemmas on what was said ask for.
LEMMA Spoken ==
  ASSUME TypeOK
  PROVE  /\ queue \in Seq(Messages) /\ LastWord \in Words /\ LastSurface \in Surfaces
         /\ resumed \in BOOLEAN /\ surface \in BOOLEAN /\ Paused \in BOOLEAN /\ window \in BOOLEAN
         /\ Words \cap Surfaces = {}
  BY Typed DEF TypeOK, LastSurface, Surfaces, Words

\* Nothing was said, and the queue is as it was.
LEMMA ToldKept ==
  ASSUME Told, LastWord' = LastWord, LastSurface' = LastSurface, UNCHANGED <<queue, resumed, surface>>,
         ui' # "destroyed" => ui # "destroyed"
  PROVE  Told'
  BY DEF Told

\* A thread that moves on between messages leaves all it knows as it is.
LEMMA ToldMoved ==
  ASSUME Told, vr # "command", vr' # "command", UNCHANGED <<Paused, window>>,
         UNCHANGED <<queue, resumed, surface>>, ui' # "destroyed" => ui # "destroyed"
  PROVE  Told'
<1>1. LastWord' = LastWord /\ LastSurface' = LastSurface
  BY DEF LastWord, LastSurface
<1> QED
  BY <1>1, ToldKept

\* Android posts what it has told the activity.
LEMMA ToldPosted ==
  ASSUME TypeOK, Told, NEW m \in Messages, Post(m), ui # "destroyed",
         IF m \in Words THEN m = (IF resumed' THEN "resume" ELSE "pause") ELSE UNCHANGED resumed,
         IF m \in Surfaces THEN m = (IF surface' THEN "createdSurface" ELSE "destroyedSurface")
                           ELSE UNCHANGED surface
  PROVE  Told'
<1>1. queue \in Seq(Messages)
  BY Spoken
<1>2. PICK t : t = Append(queue, m) /\ queue' = t
  BY Posting
<1>3. LastWord' = LastWord /\ LastSurface' = LastSurface
  <2>1. msg' = msg /\ Paused' = Paused /\ (vr' = "command" <=> vr = "command")
    BY Posting
  <2>2. window' = window
    BY DEF Post
  <2> QED
    BY <2>1, <2>2 DEF LastWord, LastSurface
<1>4. Says(t, Words, LastWord, IF resumed' THEN "resume" ELSE "pause")
  <2>1. CASE m \in Words
    BY <1>1, <1>2, <2>1, SaidLast
  <2>2. CASE m \notin Words
    <3>1. Says(queue, Words, LastWord, IF resumed' THEN "resume" ELSE "pause")
      BY <2>2 DEF Told
    <3> QED
      BY <1>1, <1>2, <2>2, <3>1, SaidLast
  <2> QED
    BY <2>1, <2>2
<1>5. Says(t, Surfaces, LastSurface, IF surface' THEN "createdSurface" ELSE "destroyedSurface")
  <2>1. CASE m \in Surfaces
    BY <1>1, <1>2, <2>1, SaidLast
  <2>2. CASE m \notin Surfaces
    <3>1. Says(queue, Surfaces, LastSurface, IF surface' THEN "createdSurface" ELSE "destroyedSurface")
      BY <2>2 DEF Told
    <3> QED
      BY <1>1, <1>2, <2>2, <3>1, SaidLast
  <2> QED
    BY <2>1, <2>2
<1> QED
  BY <1>2, <1>3, <1>4, <1>5 DEF Told

\* The first message becomes the one the VR thread works on.
LEMMA ToldTaken ==
  ASSUME TypeOK, Told, vr # "command", vr' = "command", Queue!HandOut,
         UNCHANGED <<ui, resumed, surface, Paused, window>>
  PROVE  Told'
<1>1. queue \in Seq(Messages) /\ queue # <<>> /\ msg' = queue[1]
  BY Spoken, HeadTailProperties DEF Queue!HandOut
<1>2. PICK t : t = Tail(queue) /\ queue' = t
  BY DEF Queue!HandOut
<1>3. ASSUME NEW v \in Words, Says(queue, Words, LastWord, v) PROVE Says(t, Words, LastWord', v)
  <2>1. PICK u : u = LastWord' /\ u = (IF queue[1] \in Words THEN queue[1] ELSE LastWord)
    BY <1>1 DEF LastWord
  <2> QED
    BY <1>1, <1>2, <1>3, <2>1, SaidTaken
<1>4. ASSUME NEW v \in Surfaces, Says(queue, Surfaces, LastSurface, v)
      PROVE  Says(t, Surfaces, LastSurface', v)
  <2>1. PICK u : u = LastSurface' /\ u = (IF queue[1] \in Surfaces THEN queue[1] ELSE LastSurface)
    BY <1>1 DEF LastSurface
  <2> QED
    BY <1>1, <1>2, <1>4, <2>1, SaidTaken
<1>5. ui # "destroyed" =>
        /\ Says(t, Words, LastWord', IF resumed THEN "resume" ELSE "pause")
        /\ Says(t, Surfaces, LastSurface', IF surface THEN "createdSurface" ELSE "destroyedSurface")
  BY <1>3, <1>4 DEF Told, Words, Surfaces
<1> QED
  BY <1>2, <1>5 DEF Told

\* What the VR thread does to Paused and the window is what its message says.
LEMMA ToldCommand ==
  ASSUME TypeOK, Told, Command
  PROVE  Told'
<1>1. /\ vr = "command" /\ vr' # "command" /\ ui' = ui
      /\ UNCHANGED <<queue, resumed, surface>>
  BY DEF Command, android
<1>2. CASE Pause \/ Resume
  <2>1. LastWord = (IF Paused' THEN "pause" ELSE "resume") /\ msg \in Words
    BY <1>1, <1>2 DEF Pause, Resume, LastWord, Words
  <2>2. window' = window /\ msg \notin Surfaces
    BY <1>2 DEF Pause, Resume, Surfaces
  <2>3. LastWord' = LastWord /\ LastSurface' = LastSurface
    BY <1>1, <2>1, <2>2 DEF LastWord, LastSurface
  <2> QED
    BY <1>1, <2>3, ToldKept
<1>3. CASE CreateSurface \/ DestroySurface
  <2>1. LastSurface = (IF window' THEN "createdSurface" ELSE "destroyedSurface")
    BY <1>1, <1>3, Spoken DEF CreateSurface, DestroySurface, HasWindow, LastSurface, Surfaces
  <2>2. Paused' = Paused /\ msg \notin Words
    BY <1>3 DEF CreateSurface, DestroySurface, Words
  <2>3. LastWord' = LastWord /\ LastSurface' = LastSurface
    BY <1>1, <2>1, <2>2 DEF LastWord, LastSurface
  <2> QED
    BY <1>1, <2>3, ToldKept
<1>4. CASE Sync \/ Quit \/ Intent
  <2>1. msg \notin Words \cup Surfaces /\ UNCHANGED <<Paused, window>>
    BY <1>4 DEF Sync, Quit, Intent, Words, Surfaces, Syncs
  <2>2. LastWord' = LastWord /\ LastSurface' = LastSurface
    BY <1>1, <2>1 DEF LastWord, LastSurface
  <2> QED
    BY <1>1, <2>2, ToldKept
<1> QED
  BY <1>2, <1>3, <1>4 DEF Command

\* What Android has told the activity is what the queue and the VR thread say.
LEMMA ToldStep ==
  ASSUME TypeOK, NotStarted, Told, Next
  PROVE  Told'
<1>1. resumed \in BOOLEAN /\ surface \in BOOLEAN
  BY Spoken
<1>2. CASE onResume \/ onPause
  <2>1. PICK m \in Words : Callback(m) /\ m = (IF resumed' THEN "resume" ELSE "pause")
    BY <1>2 DEF onResume, onPause, Words
  <2>2. m \in Messages /\ m \notin Surfaces /\ surface' = surface
    BY <1>2, <2>1 DEF onResume, onPause, Words, Surfaces, Messages
  <2> QED
    BY <2>1, <2>2, ToldPosted DEF Callback
<1>3. CASE surfaceChanged \/ surfaceDestroyed
  <2>1. PICK m \in Surfaces : /\ Callback(m)
                              /\ m = (IF surface' THEN "createdSurface" ELSE "destroyedSurface")
    BY <1>3 DEF surfaceChanged, surfaceDestroyed, Surfaces
  <2>2. m \in Messages /\ m \notin Words /\ resumed' = resumed
    BY <1>3, <2>1 DEF surfaceChanged, surfaceDestroyed, Words, Surfaces, Messages
  <2> QED
    BY <2>1, <2>2, ToldPosted DEF Callback
<1>4. CASE onDestroy \/ PostIntent \/ \E s \in Syncs : PostSync(s)
  <2>1. PICK m \in Syncs \cup {"quit", "intent"} : Post(m) /\ ui # "destroyed" /\ UNCHANGED android
    BY <1>4 DEF onDestroy, PostIntent, PostSync, Syncs
  <2>2. m \in Messages /\ m \notin Words /\ m \notin Surfaces
    BY <2>1 DEF Messages, Words, Surfaces, Syncs
  <2> QED
    BY <2>1, <2>2, ToldPosted DEF android
<1>5. CASE StartVrThread
  BY <1>5, ToldMoved DEF StartVrThread, android, NotStarted
<1>6. ASSUME NEW s \in Syncs, Returns(s) PROVE Told'
  <2>1. LastWord' = LastWord /\ LastSurface' = LastSurface
    BY <1>6 DEF Returns, vrvars, LastWord, LastSurface
  <2> QED
    BY <1>6, <2>1, ToldKept DEF Returns, android, Syncs
<1>7. CASE Joined
  BY <1>7 DEF Joined, Told
<1>8. CASE Command
  BY <1>8, ToldCommand
<1>9. CASE GetNextMessage
  <2>1. CASE queue = <<>> /\ vr' = "drained" /\ UNCHANGED <<queue, msg>>
    BY <1>9, <2>1, ToldMoved DEF GetNextMessage, Rest, android
  <2>2. CASE Queue!HandOut /\ vr' = "command"
    BY <1>9, <2>2, ToldTaken DEF GetNextMessage, Rest, android
  <2> QED
    BY <1>9, <2>1, <2>2 DEF GetNextMessage
<1>10. CASE InitVrThread \/ Loop \/ AfterMessages \/ SleepUntilMessage \/ SpuriousWakeup
  BY <1>10, ToldMoved DEF InitVrThread, Loop, AfterMessages, SleepUntilMessage, SpuriousWakeup,
        Rest, android
<1>11. CASE Frame
  BY <1>11, ToldMoved DEF Frame, android
<1> QED
  BY <1>2, <1>3, <1>4, <1>5, <1>6, <1>7, <1>8, <1>9, <1>10, <1>11
  DEF Next, UiThread, Synced, SyncedEarly, Android, VrThread

\* The VR thread goes to sleep only without a window or paused, and nothing
\* changes either before it has woken.
LEMMA SleepingStep ==
  ASSUME Sleeping, Next
  PROVE  Sleeping'
<1>1. ASSUME NEW m \in Messages, Post(m)
      PROVE  (vr' \in {"idle", "asleep"} => vr \in {"idle", "asleep"}) /\ UNCHANGED <<window, Paused>>
  BY <1>1 DEF Post, Woken
<1>2. CASE Android
  BY <1>1, <1>2 DEF Android, onResume, onPause, surfaceChanged, surfaceDestroyed, onDestroy,
        Callback, Messages, Sleeping, Sleeps
<1>3. CASE UiThread \/ \E s \in Syncs : SyncedEarly(s)
  BY <1>1, <1>3 DEF UiThread, StartVrThread, PostIntent, Joined, PostSync, Synced, SyncedEarly, Returns,
        Messages, Syncs, vrvars, Sleeping, Sleeps
<1>4. CASE AfterMessages
  BY <1>4 DEF AfterMessages, Rest, Sleeping, Sleeps
<1>5. CASE SleepUntilMessage
  BY <1>5 DEF SleepUntilMessage, Rest, Sleeping, Sleeps
<1>6. CASE InitVrThread \/ Loop \/ GetNextMessage \/ Command \/ Frame \/ SpuriousWakeup
  BY <1>6 DEF InitVrThread, Loop, GetNextMessage, Command, Frame, SpuriousWakeup, Sleeping
<1> QED
  BY <1>2, <1>3, <1>4, <1>5, <1>6 DEF Next, VrThread

\* When it has taken every message the VR thread knows the activity as Android
\* does, however long the queue was and in whatever order it took them.
THEOREM KnowsTheActivity == Spec => []Settled
<1>1. Init => Told /\ Sleeping
  <2> SUFFICES ASSUME Init PROVE Told /\ Sleeping
    OBVIOUS
  <2>1. /\ LastWord = "pause" /\ LastSurface = "destroyedSurface" /\ Len(queue) = 0
        /\ ~ resumed /\ ~ surface
    BY EmptySeq DEF Init, Queue!Init, LastWord, LastSurface
  <2> QED
    BY <2>1 DEF Init, Told, Says, Sleeping
<1>2. IInv /\ Told /\ Sleeping /\ [Next]_vars => Told' /\ Sleeping'
  <2> SUFFICES ASSUME IInv, Told, Sleeping, [Next]_vars PROVE Told' /\ Sleeping'
    OBVIOUS
  <2>1. CASE Next
    BY <2>1, ToldStep, SleepingStep DEF IInv
  <2>2. CASE UNCHANGED vars
    <3>1. LastWord' = LastWord /\ LastSurface' = LastSurface
      BY <2>2 DEF vars, vrvars, LastWord, LastSurface
    <3>2. Told'
      BY <2>2, <3>1, ToldKept DEF vars, android
    <3> QED
      BY <2>2, <3>2 DEF vars, vrvars, Sleeping, Sleeps
  <2> QED
    BY <2>1, <2>2
<1>3. IInv /\ Told /\ Sleeping => Settled
  <2> SUFFICES ASSUME IInv, Told, Sleeping, ui = "running", queue = <<>>, vr # "command"
               PROVE  /\ Paused <=> ~ resumed
                      /\ window <=> surface
                      /\ vr = "asleep" => ~ (resumed /\ surface)
    BY DEF Settled
  <2>1. TypeOK /\ Len(queue) = 0
    BY EmptySeq DEF IInv
  <2>2. /\ LastWord = (IF resumed THEN "resume" ELSE "pause")
        /\ LastSurface = (IF surface THEN "createdSurface" ELSE "destroyedSurface")
    BY <2>1 DEF Told, Says
  <2>3. (Paused <=> ~ resumed) /\ (window <=> surface)
    BY <2>1, <2>2, Spoken DEF LastWord, LastSurface
  <2> QED
    BY <2>3 DEF Sleeping, Sleeps
<1> QED
  BY <1>1, <1>2, <1>3, Invariance, PTL DEF Spec

=============================================================================
