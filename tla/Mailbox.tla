-------------------------------- MODULE Mailbox --------------------------------
(***************************************************************************)
(* What a MessageQueue (jni/MessageQueue.h) promises: messages of many     *)
(* threads, each handed out at most once, in the order they were accepted, *)
(* and dropped only when the queue is deleted.                             *)
(***************************************************************************)
EXTENDS Integers, Sequences

CONSTANTS
  Messages,    \* what can be posted
  MaxMessages  \* capacity

VARIABLES
  box,   \* accepted and not handed out
  last   \* what was handed out last

vars == <<box, last>>

Init == box = <<>> /\ \A m \in Messages : last # m

Accept(m) ==
  /\ Len(box) < MaxMessages
  /\ box' = Append(box, m)
  /\ UNCHANGED last

HandOut ==
  /\ box # <<>>
  /\ last' = Head(box)
  /\ box' = Tail(box)

Discard ==
  /\ box' = <<>>
  /\ UNCHANGED last

Next == (\E m \in Messages : Accept(m)) \/ HandOut \/ Discard

Spec == Init /\ [][Next]_vars

=============================================================================
