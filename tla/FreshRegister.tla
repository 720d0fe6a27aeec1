----------------------------- MODULE FreshRegister -----------------------------
(***************************************************************************)
(* What a LocklessUpdater (LibOVR/Src/Kernel/OVR_Lockless.h) promises its  *)
(* users: "for single producer cases where you only care about the most    *)
(* recent update".  Every read returns one whole update, no older than the *)
(* newest one that was finished when the read began, and a reader never    *)
(* sees updates out of order.                                              *)
(***************************************************************************)
EXTENDS Integers

CONSTANTS
  Readers,  \* threads that call GetState
  Parts     \* the words a value is copied in

VARIABLES
  value,    \* number of the newest finished update
  reading,  \* readers in a call of GetState
  floor,    \* per reader, value when its call began
  result    \* per reader, what its last call returned

vars == <<value, reading, floor, result>>

\* Update number v as a value: all its parts agree.
Whole(v) == [p \in Parts |-> v]

Init ==
  /\ value = 0
  /\ reading = {}
  /\ floor = [r \in Readers |-> 0]
  /\ result = [r \in Readers |-> Whole(0)]

Update ==
  /\ value' = value + 1
  /\ UNCHANGED <<reading, floor, result>>

Call(r) ==
  /\ r \notin reading
  /\ reading' = reading \cup {r}
  /\ floor' = [floor EXCEPT ![r] = value]
  /\ UNCHANGED <<value, result>>

Return(r) ==
  /\ r \in reading
  /\ reading' = reading \ {r}
  /\ \E v \in floor[r]..value : result' = [result EXCEPT ![r] = Whole(v)]
  /\ UNCHANGED <<value, floor>>

Next == Update \/ \E r \in Readers : Call(r) \/ Return(r)

Spec == Init /\ [][Next]_vars

=============================================================================
