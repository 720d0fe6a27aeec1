----------------------------- MODULE CommandQueue ------------------------------
(***************************************************************************)
(* What a ThreadCommandQueue (jni/LibOVR/Src/OVR_ThreadCommandQueue.h)     *)
(* promises: the calls of many threads are executed one at a time, in the  *)
(* order they were enqueued; once the queue is closed only the exit        *)
(* command is enqueued, and the queue has exited when that one has been    *)
(* executed, after all the others.                                         *)
(***************************************************************************)
EXTENDS Sequences

CONSTANTS
  Commands,  \* what can be enqueued
  Exits,     \* the exit commands among them
  NULL       \* no command

VARIABLES
  fifo,     \* enqueued and not taken
  serving,  \* what the consumer executes
  closed,   \* PushExitCommand was called
  exited    \* IsExiting

vars == <<fifo, serving, closed, exited>>

Init == fifo = <<>> /\ serving = NULL /\ ~ closed /\ ~ exited

Enqueue(c) ==
  /\ ~ exited
  /\ closed <=> c \in Exits
  /\ fifo' = Append(fifo, c)
  /\ UNCHANGED <<serving, closed, exited>>

Close ==
  /\ ~ closed
  /\ closed' = TRUE
  /\ UNCHANGED <<fifo, serving, exited>>

Take ==
  /\ serving = NULL /\ fifo # <<>>
  /\ serving' = Head(fifo)
  /\ fifo' = Tail(fifo)
  /\ UNCHANGED <<closed, exited>>

Finish ==
  /\ serving # NULL
  /\ serving' = NULL
  /\ exited' = (serving \in Exits)
  /\ serving \in Exits => fifo = <<>>
  /\ UNCHANGED <<fifo, closed>>

Next == (\E c \in Commands : Enqueue(c)) \/ Close \/ Take \/ Finish

Spec == Init /\ [][Next]_vars

=============================================================================
