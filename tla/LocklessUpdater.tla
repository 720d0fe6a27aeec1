---------------------------- MODULE LocklessUpdater ----------------------------
(***************************************************************************)
(* LocklessUpdater (LibOVR/Src/Kernel/OVR_Lockless.h): one producer, any   *)
(* number of consumers, two slots and two counters, no lock.  TimeWarp     *)
(* publishes EyeBufferCount and SwapVsync with it, Vsync its clock, VrApi  *)
(* the device states and SensorFusion the head pose.                       *)
(*                                                                         *)
(* A value is a struct: its parts are copied one at a time, and a copy     *)
(* that overlaps an update may be torn.  Values are numbered by the update *)
(* that wrote them, 0 is what the slots hold before the first.             *)
(***************************************************************************)
EXTENDS Integers

CONSTANTS
  Readers,         \* consumer threads
  Parts,           \* the words of a value
  FinalIsBarrier,  \* does ExchangeAdd_NoSync order the copy before it?  Not on ARM.
  UpdateBound      \* the producer stops after this many updates

ASSUME UpdaterAssumption ==
  /\ FinalIsBarrier \in BOOLEAN
  /\ UpdateBound \in Nat

VARIABLES
  updateBegin,  \* UpdateBegin
  updateEnd,    \* UpdateEnd
  slots,        \* Slots
  unwritten,    \* parts the producer has not written yet
  pc,           \* per consumer, where it is in GetState
  seen,         \* its local end, and later begin
  uncopied,     \* parts it has not copied yet
  state,        \* its local state
  floor,        \* history: updateEnd when its call began
  result        \* what its last call returned

producerVars == <<updateBegin, updateEnd, slots, unwritten>>
consumerVars == <<pc, seen, uncopied, state, floor, result>>
vars == <<producerVars, consumerVars>>

Whole(v) == [p \in Parts |-> v]

Init ==
  /\ updateBegin = 0 /\ updateEnd = 0
  /\ slots = [s \in 0..1 |-> Whole(0)]
  /\ unwritten = {}
  /\ pc = [r \in Readers |-> "out"]
  /\ seen = [r \in Readers |-> 0]
  /\ uncopied = [r \in Readers |-> {}]
  /\ state = [r \in Readers |-> Whole(0)]
  /\ floor = [r \in Readers |-> 0]
  /\ result = [r \in Readers |-> Whole(0)]

-----------------------------------------------------------------------------
(* SetState. *)

BeginUpdate ==
  /\ updateBegin = updateEnd /\ updateEnd < UpdateBound
  /\ updateBegin' = updateBegin + 1
  /\ unwritten' = Parts
  /\ UNCHANGED <<updateEnd, slots, consumerVars>>

\* "slot ^ 1 because ExchangeAdd returns 'previous' value before add"
WriteSlot == updateBegin % 2

WritePart(p) ==
  /\ p \in unwritten
  /\ slots' = [slots EXCEPT ![WriteSlot][p] = updateBegin]
  /\ unwritten' = unwritten \ {p}
  /\ UNCHANGED <<updateBegin, updateEnd, consumerVars>>

EndUpdate ==
  /\ updateBegin # updateEnd /\ unwritten = {}
  /\ updateEnd' = updateEnd + 1
  /\ UNCHANGED <<updateBegin, slots, unwritten, consumerVars>>

-----------------------------------------------------------------------------
(* GetState. *)

Call(r) ==
  /\ pc[r] = "out"
  /\ pc' = [pc EXCEPT ![r] = "top"]
  /\ floor' = [floor EXCEPT ![r] = updateEnd]
  /\ UNCHANGED <<producerVars, seen, uncopied, state, result>>

ReadEnd(r) ==
  /\ pc[r] = "top"
  /\ pc' = [pc EXCEPT ![r] = "copy"]
  /\ seen' = [seen EXCEPT ![r] = updateEnd]
  /\ uncopied' = [uncopied EXCEPT ![r] = Parts]
  /\ UNCHANGED <<producerVars, state, floor, result>>

WrongReadSlot(r) == seen[r] % 2

\* The current slot first, and the other one if an update is under way.
ReadSlot(r) == IF pc[r] = "copy" THEN seen[r] % 2 ELSE (seen[r] + 1) % 2

CopyPart(r, p) ==
  /\ pc[r] \in {"copy", "other", "leave"}
  /\ p \in uncopied[r]
  /\ state' = [state EXCEPT ![r][p] = slots[ReadSlot(r)][p]]
  /\ uncopied' = [uncopied EXCEPT ![r] = @ \ {p}]
  /\ UNCHANGED <<producerVars, pc, seen, floor, result>>

WrongAfterBegin(r) == "top"

\* An update under way must not keep the consumer waiting.
AfterBegin(r) == "other"

ReadBegin(r) ==
  /\ pc[r] = "copy" /\ uncopied[r] = {}
  /\ IF updateBegin = seen[r]
       THEN /\ pc' = [pc EXCEPT ![r] = "leave"]
            /\ UNCHANGED <<seen, uncopied>>
       ELSE /\ pc' = [pc EXCEPT ![r] = AfterBegin(r)]
            /\ seen' = [seen EXCEPT ![r] = updateBegin]
            /\ uncopied' = [uncopied EXCEPT ![r] = Parts]
  /\ UNCHANGED <<producerVars, state, floor, result>>

WrongAfterFinal(r) == "leave"

\* Has the producer started another update since?
AfterFinal(r) == IF updateBegin = seen[r] THEN "leave" ELSE "top"

\* Without a barrier the check can be made before the copy is complete.
ReadFinal(r) ==
  /\ pc[r] = "other"
  /\ FinalIsBarrier => uncopied[r] = {}
  /\ pc' = [pc EXCEPT ![r] = AfterFinal(r)]
  /\ UNCHANGED <<producerVars, seen, uncopied, state, floor, result>>

Return(r) ==
  /\ pc[r] = "leave" /\ uncopied[r] = {}
  /\ pc' = [pc EXCEPT ![r] = "out"]
  /\ result' = [result EXCEPT ![r] = state[r]]
  /\ UNCHANGED <<producerVars, seen, uncopied, state, floor>>

-----------------------------------------------------------------------------

SetState == BeginUpdate \/ (\E p \in Parts : WritePart(p)) \/ EndUpdate

GetState(r) == \/ ReadEnd(r) \/ (\E p \in Parts : CopyPart(r, p))
               \/ ReadBegin(r) \/ ReadFinal(r) \/ Return(r)

Next == SetState \/ \E r \in Readers : Call(r) \/ GetState(r)

\* Consumers are scheduled; the producer may be suspended anywhere, for ever.
Spec == Init /\ [][Next]_vars /\ \A r \in Readers : WF_vars(GetState(r))

-----------------------------------------------------------------------------
(* Properties. *)

ReaderStates == {"out", "top", "copy", "other", "leave"}

\* Every variable has its type.
TypeOK ==
  /\ updateBegin \in 0..UpdateBound
  /\ updateEnd \in 0..UpdateBound
  /\ slots \in [0..1 -> [Parts -> 0..UpdateBound]]
  /\ unwritten \in SUBSET Parts
  /\ pc \in [Readers -> ReaderStates]
  /\ seen \in [Readers -> 0..UpdateBound]
  /\ uncopied \in [Readers -> SUBSET Parts]
  /\ state \in [Readers -> [Parts -> 0..UpdateBound]]
  /\ floor \in [Readers -> 0..UpdateBound]
  /\ result \in [Readers -> [Parts -> 0..UpdateBound]]

Register == INSTANCE FreshRegister WITH
  value <- updateEnd,
  reading <- {r \in Readers : pc[r] # "out"}

\* The two slots implement the register: no call of GetState returns parts of
\* two updates, an update older than the call, or one older than the last.
ImplementsRegister == Register!Spec

\* OVR_Lockless.cpp: what a consumer reads "should be internally consistent".
Consistent == \A r \in Readers : \E v \in 0..UpdateBound : result[r] = Whole(v)

\* GetState returns although the producer may stop in the middle of an update.
GetStateReturns == \A r \in Readers : (pc[r] # "out") ~> (pc[r] = "out")

=============================================================================
