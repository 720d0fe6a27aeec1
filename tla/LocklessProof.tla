----------------------------- MODULE LocklessProof -----------------------------
(***************************************************************************)
(* Where ExchangeAdd_NoSync is a barrier (x86), the LocklessUpdater        *)
(* implements the register of FreshRegister, for any set of consumers, any *)
(* size of a value and any number of updates.                              *)
(***************************************************************************)
EXTENDS LocklessUpdater, TLAPS

\* The build of the theorems below.
ASSUME BarrierAssumption == FinalIsBarrier

-----------------------------------------------------------------------------
(* The inductive invariant. *)

\* The update before v, as long as there is one.
Before(v) == IF v = 0 THEN 0 ELSE v - 1

\* The producer is between two updates or inside one.
Counters ==
  /\ updateBegin \in {updateEnd, updateEnd + 1}
  /\ updateBegin = updateEnd => unwritten = {}

\* The current slot holds the newest finished update; the other one the update
\* before it, but for the parts of the next one that are written.
Current == \A p \in Parts : slots[updateEnd % 2][p] = updateEnd

Standby == \A p \in Parts : slots[(updateEnd + 1) % 2][p] =
  IF updateBegin = updateEnd + 1 /\ p \notin unwritten THEN updateEnd + 1 ELSE Before(updateEnd)

Floors == \A r \in Readers : floor[r] <= updateEnd

\* The first copy is good unless a second update has begun since ReadEnd.
FirstCopy == \A r \in Readers : pc[r] = "copy" =>
  /\ floor[r] <= seen[r] /\ seen[r] <= updateEnd
  /\ updateBegin <= seen[r] + 1 => \A p \in Parts \ uncopied[r] : state[r][p] = seen[r]

\* The second copy is good unless an update has begun since ReadBegin.
SecondCopy == \A r \in Readers : pc[r] = "other" =>
  /\ floor[r] <= seen[r] - 1 /\ seen[r] - 1 <= updateEnd /\ seen[r] <= updateBegin
  /\ updateBegin = seen[r] => \A p \in Parts \ uncopied[r] : state[r][p] = seen[r] - 1

\* What is about to be returned is one update, and a fresh one.
Checked == \A r \in Readers : pc[r] = "leave" =>
  /\ uncopied[r] = {}
  /\ \E v \in floor[r]..updateEnd : state[r] = Whole(v)

Returned == \A r \in Readers : \E v \in 0..updateEnd : result[r] = Whole(v)

IInv == /\ TypeOK /\ Counters /\ Current /\ Standby /\ Floors
        /\ FirstCopy /\ SecondCopy /\ Checked /\ Returned

-----------------------------------------------------------------------------
(* Lemmas. *)

\* Slot indices: an update and the next one never share a slot, two updates
\* apart they do.
LEMMA Parity ==
  ASSUME NEW v \in Nat
  PROVE  /\ v % 2 \in 0..1 /\ (v + 1) % 2 \in 0..1
         /\ v % 2 # (v + 1) % 2
         /\ (v + 2) % 2 = v % 2
         /\ v > 0 => (v - 1) % 2 = (v + 1) % 2
  OBVIOUS

\* TypeOK and Counters as plain facts about numbers.
LEMMA Numbers ==
  ASSUME TypeOK
  PROVE  /\ updateBegin \in Nat /\ updateEnd \in Nat
         /\ \A r \in Readers : seen[r] \in Nat /\ floor[r] \in Nat
  BY UpdaterAssumption DEF TypeOK

\* The initial state satisfies the invariant.
LEMMA InitInv == Init => IInv
<1> SUFFICES ASSUME Init PROVE IInv
    OBVIOUS
<1> USE UpdaterAssumption DEF Init, Whole
<1>1. TypeOK
  BY DEF TypeOK, ReaderStates
<1>2. Counters /\ Floors /\ FirstCopy /\ SecondCopy /\ Checked
  BY DEF Counters, Floors, FirstCopy, SecondCopy, Checked
<1>3. Current
  BY DEF Current
<1>4. Standby
  BY DEF Standby, Before
<1>5. Returned
  <2>1. 0 \in 0..updateEnd /\ \A r \in Readers : result[r] = Whole(0)
    OBVIOUS
  <2> QED BY <2>1 DEF Returned
<1> QED BY <1>1, <1>2, <1>3, <1>4, <1>5 DEF IInv

\* A step of the producer: what the consumers know survives it, as long as the
\* counters only grow.
LEMMA ReadersKeep ==
  ASSUME IInv, UNCHANGED consumerVars, TypeOK',
         updateEnd <= updateEnd', updateBegin <= updateBegin'
  PROVE  Floors' /\ FirstCopy' /\ SecondCopy' /\ Checked' /\ Returned'
<1> USE DEF consumerVars
<1>0. /\ updateBegin \in Nat /\ updateEnd \in Nat /\ updateBegin' \in Nat /\ updateEnd' \in Nat
      /\ \A r \in Readers : seen[r] \in Nat /\ floor[r] \in Nat
  BY UpdaterAssumption DEF IInv, TypeOK
<1>1. Floors'
  BY <1>0 DEF IInv, Floors
<1>2. FirstCopy'
  BY <1>0 DEF IInv, FirstCopy
<1>3. SecondCopy'
  BY <1>0 DEF IInv, SecondCopy
<1>4. Checked'
  BY <1>0 DEF IInv, Checked, Whole
<1>5. Returned'
  BY <1>0 DEF IInv, Returned, Whole
<1> QED BY <1>1, <1>2, <1>3, <1>4, <1>5

\* SetState's first counter: the slot it will write is the other one.
LEMMA BeginUpdateInv == IInv /\ BeginUpdate => IInv'
<1> SUFFICES ASSUME IInv, BeginUpdate PROVE IInv'
    OBVIOUS
<1>0. updateBegin \in Nat /\ updateEnd \in Nat
  BY Numbers DEF IInv
<1>1. TypeOK'
  BY <1>0, UpdaterAssumption DEF IInv, TypeOK, BeginUpdate, consumerVars
<1>2. Counters' /\ Current'
  BY <1>0 DEF IInv, Counters, Current, BeginUpdate
<1>3. Standby'
  BY <1>0 DEF IInv, Counters, Standby, Before, BeginUpdate
<1>4. Floors' /\ FirstCopy' /\ SecondCopy' /\ Checked' /\ Returned'
  BY <1>0, <1>1, ReadersKeep DEF BeginUpdate
<1> QED BY <1>1, <1>2, <1>3, <1>4 DEF IInv

\* A word written: never in the slot that consumers read first.
LEMMA WritePartInv == ASSUME IInv, NEW p \in Parts, WritePart(p) PROVE IInv'
<1>0. updateBegin \in Nat /\ updateEnd \in Nat
  BY Numbers DEF IInv
<1>1. updateBegin = updateEnd + 1
  BY <1>0 DEF IInv, Counters, WritePart
<1>2. /\ updateBegin' = updateBegin /\ updateEnd' = updateEnd
      /\ unwritten' = unwritten \ {p} /\ UNCHANGED consumerVars
  BY DEF WritePart
<1>3. /\ slots[updateEnd % 2]' = slots[updateEnd % 2]
      /\ \A q \in Parts : slots'[(updateEnd + 1) % 2][q] =
           IF q = p THEN updateEnd + 1 ELSE slots[(updateEnd + 1) % 2][q]
  BY <1>0, <1>1, Parity DEF IInv, TypeOK, WritePart, WriteSlot
<1>4. TypeOK'
  <2>1. slots' \in [0..1 -> [Parts -> 0..UpdateBound]]
    BY <1>0, Parity DEF IInv, TypeOK, WritePart, WriteSlot
  <2> QED BY <1>2, <2>1 DEF IInv, TypeOK, consumerVars
<1>5. Counters'
  BY <1>0, <1>1, <1>2 DEF Counters
<1>6. Current'
  BY <1>0, <1>2, <1>3 DEF IInv, Current
<1>7. Standby'
  BY <1>0, <1>1, <1>2, <1>3 DEF IInv, Standby, Before
<1>8. Floors' /\ FirstCopy' /\ SecondCopy' /\ Checked' /\ Returned'
  BY <1>0, <1>2, <1>4, ReadersKeep
<1> QED BY <1>4, <1>5, <1>6, <1>7, <1>8 DEF IInv

\* SetState's second counter: the slots change roles.
LEMMA EndUpdateInv == IInv /\ EndUpdate => IInv'
<1> SUFFICES ASSUME IInv, EndUpdate PROVE IInv'
    OBVIOUS
<1>0. updateBegin \in Nat /\ updateEnd \in Nat
  BY Numbers DEF IInv
<1>1. updateBegin = updateEnd + 1 /\ unwritten = {}
  BY <1>0 DEF IInv, Counters, EndUpdate
<1>2. /\ updateBegin' = updateBegin /\ updateEnd' = updateEnd + 1 /\ slots' = slots
      /\ unwritten' = {} /\ UNCHANGED consumerVars
  BY <1>1 DEF EndUpdate
<1>3. TypeOK'
  BY <1>0, <1>1, <1>2, UpdaterAssumption DEF IInv, TypeOK, consumerVars
<1>4. Counters'
  BY <1>0, <1>1, <1>2 DEF Counters
<1>5. Current'
  BY <1>0, <1>1, <1>2 DEF IInv, Standby, Current
<1>6. Standby'
  <2>1. (updateEnd + 1 + 1) % 2 = updateEnd % 2
    BY <1>0
  <2>2. Before(updateEnd + 1) = updateEnd
    BY <1>0 DEF Before
  <2> QED BY <1>0, <1>1, <1>2, <2>1, <2>2 DEF IInv, Current, Standby
<1>7. Floors' /\ FirstCopy' /\ SecondCopy' /\ Checked' /\ Returned'
  BY <1>0, <1>2, <1>3, ReadersKeep
<1> QED BY <1>3, <1>4, <1>5, <1>6, <1>7 DEF IInv

-----------------------------------------------------------------------------
(* The steps of GetState. *)

\* A call: floor is the newest update finished by now.
LEMMA CallInv == ASSUME IInv, NEW r \in Readers, Call(r) PROVE IInv'
<1>0. /\ updateBegin \in Nat /\ updateEnd \in Nat
      /\ \A c \in Readers : seen[c] \in Nat /\ floor[c] \in Nat
  BY Numbers DEF IInv
<1>1. TypeOK'
  BY DEF IInv, TypeOK, Call, producerVars, ReaderStates
<1>2. Counters' /\ Current' /\ Standby' /\ Returned'
  BY DEF IInv, Counters, Current, Standby, Returned, Whole, Call, producerVars
<1>3. /\ updateBegin' = updateBegin /\ updateEnd' = updateEnd
      /\ seen' = seen /\ uncopied' = uncopied /\ state' = state
      /\ \A c \in Readers : pc'[c] # "top" => pc'[c] = pc[c] /\ floor'[c] = floor[c]
      /\ \A c \in Readers : floor'[c] = floor[c] \/ floor'[c] = updateEnd
  BY DEF IInv, TypeOK, Call, producerVars
<1>4. Floors'
  BY <1>0, <1>3 DEF IInv, Floors
<1>5. FirstCopy' /\ SecondCopy' /\ Checked'
  BY <1>3 DEF IInv, FirstCopy, SecondCopy, Checked, Whole
<1> QED BY <1>1, <1>2, <1>4, <1>5 DEF IInv

\* What a step of one consumer cannot disturb.
LEMMA ProducerKeeps ==
  ASSUME IInv, UNCHANGED <<producerVars, floor>>
  PROVE  /\ Counters' /\ Current' /\ Standby' /\ Floors'
         /\ result' = result => Returned'
  BY DEF IInv, Counters, Current, Standby, Floors, Returned, Whole, producerVars

\* A retry or the first attempt: nothing is copied yet.
LEMMA ReadEndInv == ASSUME IInv, NEW r \in Readers, ReadEnd(r) PROVE IInv'
<1>0. /\ updateBegin \in Nat /\ updateEnd \in Nat
      /\ \A c \in Readers : seen[c] \in Nat /\ floor[c] \in Nat
  BY Numbers DEF IInv
<1>1. TypeOK'
  BY DEF IInv, TypeOK, ReadEnd, producerVars, ReaderStates
<1>2. Counters' /\ Current' /\ Standby' /\ Floors' /\ Returned'
  BY ProducerKeeps DEF ReadEnd
<1>3. /\ updateBegin' = updateBegin /\ updateEnd' = updateEnd /\ floor' = floor /\ state' = state
      /\ pc'[r] = "copy" /\ seen'[r] = updateEnd /\ uncopied'[r] = Parts
      /\ \A c \in Readers \ {r} : /\ pc'[c] = pc[c] /\ seen'[c] = seen[c]
                                  /\ uncopied'[c] = uncopied[c]
  BY DEF IInv, TypeOK, ReadEnd, producerVars
<1>4. FirstCopy'
  BY <1>0, <1>3 DEF IInv, FirstCopy, Floors
<1>5. SecondCopy' /\ Checked'
  BY <1>3 DEF IInv, SecondCopy, Checked, Whole
<1> QED BY <1>1, <1>2, <1>4, <1>5 DEF IInv

\* A word copied: the slot read holds the update wanted, or the check that
\* follows fails.
LEMMA CopyPartInv ==
  ASSUME IInv, NEW r \in Readers, NEW p \in Parts, CopyPart(r, p)
  PROVE  IInv'
<1>0. /\ updateBegin \in Nat /\ updateEnd \in Nat
      /\ \A c \in Readers : seen[c] \in Nat /\ floor[c] \in Nat
  BY Numbers DEF IInv
<1>1. ReadSlot(r) \in 0..1
  BY <1>0, Parity DEF ReadSlot
<1>2. TypeOK'
  <2>1. slots[ReadSlot(r)][p] \in 0..UpdateBound
    BY <1>1 DEF IInv, TypeOK
  <2>2. state' \in [Readers -> [Parts -> 0..UpdateBound]]
    BY <2>1 DEF IInv, TypeOK, CopyPart
  <2>3. uncopied' \in [Readers -> SUBSET Parts]
    BY DEF IInv, TypeOK, CopyPart
  <2> QED BY <2>2, <2>3 DEF IInv, TypeOK, CopyPart, producerVars
<1>3. Counters' /\ Current' /\ Standby' /\ Floors' /\ Returned'
  BY ProducerKeeps DEF CopyPart
<1>4. /\ updateBegin' = updateBegin /\ updateEnd' = updateEnd /\ floor' = floor
      /\ pc' = pc /\ seen' = seen /\ slots' = slots
      /\ uncopied'[r] = uncopied[r] \ {p}
      /\ \A q \in Parts : state'[r][q] = IF q = p THEN slots[ReadSlot(r)][p] ELSE state[r][q]
      /\ \A c \in Readers \ {r} : state'[c] = state[c] /\ uncopied'[c] = uncopied[c]
  BY DEF IInv, TypeOK, CopyPart, producerVars
<1>5. pc[r] \in {"copy", "other", "leave"} /\ p \in uncopied[r]
  BY DEF CopyPart
<1>6. FirstCopy'
  <2>1. ASSUME pc[r] = "copy", updateBegin <= seen[r] + 1
        PROVE  slots[ReadSlot(r)][p] = seen[r]
    <3>1. ReadSlot(r) = seen[r] % 2 /\ seen[r] <= updateEnd
      BY <2>1 DEF ReadSlot, IInv, FirstCopy
    <3>2. CASE updateEnd = seen[r]
      BY <3>1, <3>2 DEF IInv, Current
    <3>3. CASE updateEnd # seen[r]
      <4>1. updateEnd = seen[r] + 1 /\ updateBegin = updateEnd
        BY <1>0, <2>1, <3>1, <3>3 DEF IInv, Counters
      <4>2. (updateEnd + 1) % 2 = seen[r] % 2 /\ Before(updateEnd) = seen[r]
        BY <1>0, <4>1 DEF Before
      <4> QED BY <1>0, <3>1, <4>1, <4>2 DEF IInv, Standby
    <3> QED BY <3>2, <3>3
  <2> QED BY <1>4, <2>1 DEF IInv, FirstCopy
<1>7. SecondCopy'
  <2>1. ASSUME pc[r] = "other", updateBegin = seen[r]
        PROVE  slots[ReadSlot(r)][p] = seen[r] - 1
    <3>1. ReadSlot(r) = (seen[r] + 1) % 2 /\ seen[r] > 0
      BY <1>0, <2>1 DEF ReadSlot, IInv, SecondCopy
    <3>2. CASE updateEnd = seen[r]
      <4>1. Before(updateEnd) = seen[r] - 1
        BY <1>0, <3>1, <3>2 DEF Before
      <4> QED BY <1>0, <2>1, <3>1, <3>2, <4>1 DEF IInv, Standby
    <3>3. CASE updateEnd # seen[r]
      <4>1. updateEnd = seen[r] - 1
        BY <1>0, <2>1, <3>3 DEF IInv, Counters
      <4>2. updateEnd % 2 = (seen[r] + 1) % 2
        BY <1>0, <3>1, <4>1
      <4> QED BY <1>0, <3>1, <4>1, <4>2 DEF IInv, Current
    <3> QED BY <3>2, <3>3
  <2> QED BY <1>4, <2>1 DEF IInv, SecondCopy
<1>8. Checked'
  BY <1>4, <1>5 DEF IInv, Checked, Whole
<1> QED BY <1>2, <1>3, <1>6, <1>7, <1>8 DEF IInv

\* The check after the first copy.
LEMMA ReadBeginInv == ASSUME IInv, NEW r \in Readers, ReadBegin(r) PROVE IInv'
<1>0. /\ updateBegin \in Nat /\ updateEnd \in Nat
      /\ \A c \in Readers : seen[c] \in Nat /\ floor[c] \in Nat
  BY Numbers DEF IInv
<1>1. TypeOK'
  <2>1. UNCHANGED <<producerVars, state, floor, result>>
    BY DEF ReadBegin
  <2>2. /\ pc' = [pc EXCEPT ![r] = "leave"] \/ pc' = [pc EXCEPT ![r] = "other"]
        /\ seen' = seen \/ seen' = [seen EXCEPT ![r] = updateBegin]
        /\ uncopied' = uncopied \/ uncopied' = [uncopied EXCEPT ![r] = Parts]
    BY DEF ReadBegin, AfterBegin
  <2>3. pc' \in [Readers -> ReaderStates]
    BY <2>2 DEF IInv, TypeOK, ReaderStates
  <2>4. seen' \in [Readers -> 0..UpdateBound]
    BY <2>2 DEF IInv, TypeOK
  <2>5. uncopied' \in [Readers -> SUBSET Parts]
    BY <2>2 DEF IInv, TypeOK
  <2> QED
    BY <2>1, <2>3, <2>4, <2>5 DEF IInv, TypeOK, producerVars
<1>2. Counters' /\ Current' /\ Standby' /\ Floors' /\ Returned'
  BY ProducerKeeps DEF ReadBegin
<1>3. /\ updateBegin' = updateBegin /\ updateEnd' = updateEnd /\ floor' = floor /\ state' = state
      /\ \A c \in Readers \ {r} : /\ pc'[c] = pc[c] /\ seen'[c] = seen[c]
                                  /\ uncopied'[c] = uncopied[c]
  BY DEF IInv, TypeOK, ReadBegin, producerVars
<1>4. /\ pc[r] = "copy" /\ uncopied[r] = {}
      /\ floor[r] <= seen[r] /\ seen[r] <= updateEnd
      /\ updateBegin <= seen[r] + 1 => \A p \in Parts : state[r][p] = seen[r]
  BY DEF IInv, FirstCopy, ReadBegin
<1>5. CASE updateBegin = seen[r]
  <2>1. pc'[r] = "leave" /\ uncopied'[r] = {}
    BY <1>4, <1>5 DEF IInv, TypeOK, ReadBegin
  <2>2. state[r] = Whole(seen[r])
    BY <1>0, <1>4, <1>5 DEF IInv, TypeOK, Whole
  <2>3. seen[r] \in floor[r]..updateEnd
    BY <1>0, <1>4
  <2>4. Checked'
    <3>1. \A c \in Readers \ {r} : pc[c] = "leave" =>
            uncopied[c] = {} /\ \E v \in floor[c]..updateEnd : state[c] = Whole(v)
      BY DEF IInv, Checked
    <3>2. \E v \in floor[r]..updateEnd : state[r] = Whole(v)
      BY <2>2, <2>3
    <3>3. \A c \in Readers : pc'[c] = "leave" =>
            uncopied'[c] = {} /\ \E v \in floor'[c]..updateEnd' : state'[c] = Whole(v)
      BY <1>3, <2>1, <3>1, <3>2
    <3> QED BY <3>3 DEF Checked, Whole
  <2>5. FirstCopy' /\ SecondCopy'
    BY <1>3, <2>1 DEF IInv, FirstCopy, SecondCopy
  <2> QED BY <1>1, <1>2, <2>4, <2>5 DEF IInv
<1>6. CASE updateBegin # seen[r]
  <2>1. pc'[r] = "other" /\ seen'[r] = updateBegin /\ uncopied'[r] = Parts
    BY <1>4, <1>6 DEF IInv, TypeOK, ReadBegin, AfterBegin
  <2>2. floor[r] <= updateBegin - 1 /\ updateBegin - 1 <= updateEnd
    BY <1>0, <1>4, <1>6 DEF IInv, Counters
  <2>3. SecondCopy'
    BY <1>0, <1>3, <2>1, <2>2 DEF IInv, SecondCopy
  <2>4. FirstCopy' /\ Checked'
    BY <1>3, <2>1 DEF IInv, FirstCopy, Checked, Whole
  <2> QED BY <1>1, <1>2, <2>3, <2>4 DEF IInv
<1> QED BY <1>5, <1>6

\* The check after the second copy, which the barrier has made complete.
LEMMA ReadFinalInv == ASSUME IInv, NEW r \in Readers, ReadFinal(r) PROVE IInv'
<1>0. /\ updateBegin \in Nat /\ updateEnd \in Nat
      /\ \A c \in Readers : seen[c] \in Nat /\ floor[c] \in Nat
  BY Numbers DEF IInv
<1>1. TypeOK'
  BY DEF IInv, TypeOK, ReadFinal, AfterFinal, producerVars, ReaderStates
<1>2. Counters' /\ Current' /\ Standby' /\ Floors' /\ Returned'
  BY ProducerKeeps DEF ReadFinal
<1>3. /\ updateBegin' = updateBegin /\ updateEnd' = updateEnd /\ floor' = floor
      /\ state' = state /\ seen' = seen /\ uncopied' = uncopied
      /\ pc'[r] = AfterFinal(r)
      /\ \A c \in Readers \ {r} : pc'[c] = pc[c]
  BY DEF IInv, TypeOK, ReadFinal, producerVars
<1>4. /\ pc[r] = "other" /\ uncopied[r] = {}
      /\ floor[r] <= seen[r] - 1 /\ seen[r] - 1 <= updateEnd
      /\ updateBegin = seen[r] => \A p \in Parts : state[r][p] = seen[r] - 1
  BY BarrierAssumption DEF IInv, SecondCopy, ReadFinal
<1>5. pc'[r] = "leave" => Whole(seen[r] - 1) = state[r]
  BY <1>3, <1>4 DEF IInv, TypeOK, Whole, AfterFinal
<1>6. seen[r] - 1 \in floor[r]..updateEnd
  BY <1>0, <1>4
<1>7. Checked'
  <2>1. ASSUME NEW c \in Readers, pc'[c] = "leave"
        PROVE  uncopied'[c] = {} /\ \E v \in floor'[c]..updateEnd' : state'[c] = Whole(v)
    <3>1. CASE c = r
      BY <1>3, <1>4, <1>5, <1>6, <2>1, <3>1
    <3>2. CASE c # r
      BY <1>3, <2>1, <3>2 DEF IInv, Checked
    <3> QED BY <3>1, <3>2
  <2> QED BY <2>1 DEF Checked, Whole
<1>8. \A c \in Readers : pc'[c] \in {"copy", "other"} => pc'[c] = pc[c]
  BY <1>3 DEF AfterFinal
<1>9. FirstCopy' /\ SecondCopy'
  BY <1>3, <1>8 DEF IInv, FirstCopy, SecondCopy
<1> QED BY <1>1, <1>2, <1>7, <1>9 DEF IInv

\* The end of a call.
LEMMA ReturnInv == ASSUME IInv, NEW r \in Readers, Return(r) PROVE IInv'
<1>0. /\ updateEnd \in Nat /\ \A c \in Readers : floor[c] \in Nat
  BY Numbers DEF IInv
<1>1. TypeOK'
  BY DEF IInv, TypeOK, Return, producerVars, ReaderStates
<1>2. Counters' /\ Current' /\ Standby' /\ Floors'
  BY ProducerKeeps DEF Return
<1>3. /\ updateBegin' = updateBegin /\ updateEnd' = updateEnd /\ floor' = floor
      /\ state' = state /\ seen' = seen /\ uncopied' = uncopied
      /\ pc[r] = "leave" /\ pc'[r] = "out" /\ result'[r] = state[r]
      /\ \A c \in Readers \ {r} : pc'[c] = pc[c] /\ result'[c] = result[c]
  BY DEF IInv, TypeOK, Return, producerVars
<1>4. Returned'
  <2>1. \E v \in 0..updateEnd : state[r] = Whole(v)
    <3>1. PICK v \in floor[r]..updateEnd : state[r] = Whole(v)
      BY <1>3 DEF IInv, Checked
    <3>2. v \in 0..updateEnd
      BY <1>0, <3>1
    <3> QED BY <3>1, <3>2
  <2>2. \A c \in Readers \ {r} : \E v \in 0..updateEnd : result[c] = Whole(v)
    BY DEF IInv, Returned
  <2>3. \A c \in Readers : \E v \in 0..updateEnd' : result'[c] = Whole(v)
    BY <1>3, <2>1, <2>2
  <2> QED BY <2>3 DEF Returned, Whole
<1>5. FirstCopy' /\ SecondCopy' /\ Checked'
  BY <1>3 DEF IInv, FirstCopy, SecondCopy, Checked, Whole
<1> QED BY <1>1, <1>2, <1>4, <1>5 DEF IInv

-----------------------------------------------------------------------------
(* The theorems. *)

\* Every step preserves the invariant.
LEMMA NextInv == IInv /\ [Next]_vars => IInv'
<1> SUFFICES ASSUME IInv, [Next]_vars PROVE IInv'
    OBVIOUS
<1>1. CASE SetState
  BY <1>1, BeginUpdateInv, WritePartInv, EndUpdateInv DEF SetState
<1>2. ASSUME NEW r \in Readers, Call(r) PROVE IInv'
  BY <1>2, CallInv
<1>3. ASSUME NEW r \in Readers, GetState(r) PROVE IInv'
  BY <1>3, ReadEndInv, CopyPartInv, ReadBeginInv, ReadFinalInv, ReturnInv DEF GetState
<1>4. CASE UNCHANGED vars
  BY <1>4 DEF IInv, vars, producerVars, consumerVars, TypeOK, Counters, Current, Standby,
     Floors, FirstCopy, SecondCopy, Checked, Returned, Whole
<1> QED BY <1>1, <1>2, <1>3, <1>4 DEF Next

\* The invariant holds of the updater.
THEOREM Invariance == Spec => []IInv
<1>1. Init => IInv
  BY InitInv
<1>2. IInv /\ [Next]_vars => IInv'
  BY NextInv
<1> QED BY <1>1, <1>2, PTL DEF Spec

\* No consumer ever gets the words of two updates.
THEOREM Consistency == Spec => []Consistent
<1>1. IInv => Consistent
  <2> SUFFICES ASSUME IInv PROVE Consistent
      OBVIOUS
  <2>1. updateEnd \in 0..UpdateBound
    BY DEF IInv, TypeOK
  <2>2. 0..updateEnd \subseteq 0..UpdateBound
    BY <2>1, UpdaterAssumption
  <2>3. \A r \in Readers : \E v \in 0..updateEnd : result[r] = Whole(v)
    BY DEF IInv, Returned
  <2> QED BY <2>2, <2>3 DEF Consistent
<1> QED BY <1>1, Invariance, PTL

\* LocklessUpdater implements the register: GetState takes effect when it
\* returns, SetState at its second counter, every other step is a stutter.
THEOREM Refinement == Spec => ImplementsRegister
<1>1. Init => Register!Init
  BY DEF Init, Register!Init, Whole, Register!Whole
<1>2. IInv /\ [Next]_vars => [Register!Next]_(Register!vars)
  <2> SUFFICES ASSUME IInv, [Next]_vars PROVE [Register!Next]_(Register!vars)
      OBVIOUS
  <2> DEFINE reading == {r \in Readers : pc[r] # "out"}
  <2>1. CASE BeginUpdate \/ (\E p \in Parts : WritePart(p)) \/ UNCHANGED vars
    BY <2>1 DEF BeginUpdate, WritePart, vars, consumerVars, producerVars, Register!vars
  <2>2. CASE EndUpdate
    <3>1. /\ updateEnd' = updateEnd + 1 /\ reading' = reading
          /\ floor' = floor /\ result' = result
      BY <2>2 DEF EndUpdate, consumerVars
    <3> QED BY <3>1 DEF Register!Next, Register!Update
  <2>3. ASSUME NEW r \in Readers, Call(r) PROVE Register!Call(r)
    <3>1. r \notin reading /\ reading' = reading \cup {r}
      BY <2>3 DEF Call, IInv, TypeOK
    <3> QED BY <2>3, <3>1 DEF Call, producerVars, Register!Call
  <2>4. ASSUME NEW r \in Readers, Return(r) PROVE Register!Return(r)
    <3>1. r \in reading /\ reading' = reading \ {r}
      BY <2>4 DEF Return, IInv, TypeOK
    <3>2. \E v \in floor[r]..updateEnd : result' = [result EXCEPT ![r] = Register!Whole(v)]
      BY <2>4 DEF Return, IInv, Checked, Whole, Register!Whole
    <3> QED BY <2>4, <3>1, <3>2 DEF Return, producerVars, Register!Return
  <2>5. ASSUME NEW r \in Readers,
               ReadEnd(r) \/ (\E p \in Parts : CopyPart(r, p)) \/ ReadBegin(r) \/ ReadFinal(r)
        PROVE  UNCHANGED Register!vars
    <3>1. UNCHANGED <<updateEnd, floor, result>>
      BY <2>5 DEF ReadEnd, CopyPart, ReadBegin, ReadFinal, producerVars
    <3>2. reading' = reading
      BY <2>5 DEF ReadEnd, CopyPart, ReadBegin, ReadFinal, AfterBegin, AfterFinal, IInv, TypeOK
    <3> QED BY <3>1, <3>2 DEF Register!vars
  <2> QED BY <2>1, <2>2, <2>3, <2>4, <2>5 DEF Next, SetState, GetState, Register!Next
<1> QED BY <1>1, <1>2, Invariance, PTL DEF Spec, Register!Spec, ImplementsRegister

=============================================================================
