-------------------------- MODULE ThreadCommandQueue ---------------------------
(***************************************************************************)
(* ThreadCommandQueue (jni/LibOVR/Src/OVR_ThreadCommandQueue.h, .cpp) with *)
(* the loop of Android::DeviceManagerThread that consumes it: commands of  *)
(* different sizes copied into a ring of bytes, producers that block on a  *)
(* pooled event while the ring is full or until their command has been     *)
(* executed, and a pipe that wakes the consumer.  Sizes count blocks of    *)
(* AlignSize bytes.  What runs under QueueLock is one step.                *)
(***************************************************************************)
EXTENDS Integers, Sequences, FiniteSets, Functions

CONSTANTS
  Producers,     \* calling threads
  Size,          \* blocks in the ring
  PostSizes,     \* blocks of a command nobody waits for
  WaitSizes,     \* blocks of a command whose caller waits
  ExitSize,      \* blocks of the exit command
  CallBound,     \* calls of all producers
  NULL           \* no command; the blocks of a command after its first

CommandSizes == PostSizes \cup WaitSizes \cup {ExitSize}

\* A command in the ring, or on the stack of its producer.
Sent == [by : Producers, n : 1..CallBound, size : CommandSizes, wait : BOOLEAN,
         exit : BOOLEAN, event : 0..Cardinality(Producers)]

ASSUME RingAssumption ==
  /\ Size \in Nat /\ CallBound \in Nat
  /\ IsFiniteSet(Producers)
  /\ NULL \notin Sent \cup (Nat \X BOOLEAN)
  /\ CommandSizes \subseteq Nat \ {0}
  /\ \A s \in CommandSizes : 2 * s < Size  \* OVR_ASSERT(size < Size/2)

VARIABLES
  mem, head, tail, end,           \* CircularBuffer
  exitEnqueued, exitProcessed,
  blockedProducers,               \* events of blocked producers
  availableEvents,                \* pool of events
  created,                        \* events allocated so far: 1..created
  pulsed,                         \* events whose State is set
  pc, cmd, event,                 \* of a producer: where, its command, its event
  calls,                          \* calls so far
  consumer, command,              \* where the consumer is, its PopBuffer
  piped,                          \* is there a byte in the pipe?
  done                            \* of a producer: its last command executed

ring == <<mem, head, tail, end>>
pool == <<blockedProducers, availableEvents, created>>
exit == <<exitEnqueued, exitProcessed>>
caller == <<pc, cmd, event, calls>>
thread == <<consumer, command, done>>
vars == <<ring, pool, exit, caller, thread, pulsed, piped>>

Init ==
  /\ mem = [b \in 0..Size - 1 |-> NULL] /\ head = 0 /\ tail = 0 /\ end = 0
  /\ exitEnqueued = FALSE /\ exitProcessed = FALSE
  /\ blockedProducers = <<>> /\ availableEvents = <<>> /\ created = 0
  /\ pulsed = {}
  /\ pc = [p \in Producers |-> "out"]
  /\ cmd = [p \in Producers |-> NULL]
  /\ event = [p \in Producers |-> 0]
  /\ calls = 0
  /\ consumer = "popping" /\ command = NULL
  /\ piped = FALSE
  /\ done = [p \in Producers |-> 0]

-----------------------------------------------------------------------------
(* CircularBuffer. *)

IsEmpty == head = tail

\* Where Write puts n blocks: behind head, or at the start of the ring.
WrongFitsAtHead(n) == n <= Size - head
WrongFitsAtStart(n) == head >= tail /\ n > Size - head /\ n <= tail

FitsAtHead(n) == IF head >= tail THEN n <= Size - head ELSE n < tail - head
FitsAtStart(n) == head >= tail /\ n > Size - head /\ n < tail

Place(n) == IF FitsAtHead(n) THEN head ELSE 0

Write(c) ==
  /\ mem' = [b \in 0..Size - 1 |->
               IF b = Place(c.size) THEN c
               ELSE IF b \in Place(c.size) + 1..Place(c.size) + c.size - 1 THEN NULL
               ELSE mem[b]]
  /\ head' = Place(c.size) + c.size
  /\ end' = IF FitsAtHead(c.size) THEN end ELSE head
  /\ UNCHANGED tail

\* What has been read is forgotten.
Forget(n) == mem' = [b \in 0..Size - 1 |-> IF b \in tail..tail + n - 1 THEN NULL ELSE mem[b]]

ReadEnd(n) ==
  LET t == tail + n
      atEnd == t = end
  IN  /\ tail' = IF atEnd \/ t = head THEN 0 ELSE t
      /\ head' = IF ~ atEnd /\ t = head THEN 0 ELSE head
      /\ end' = IF atEnd THEN 0 ELSE end
      /\ Forget(n)

-----------------------------------------------------------------------------
(* The producers. *)

\* The command on the stack is gone.
Return(p) ==
  /\ pc' = [pc EXCEPT ![p] = "out"]
  /\ cmd' = [cmd EXCEPT ![p] = NULL]

NewCommand(p, size, wait, isExit) ==
  [by |-> p, n |-> calls + 1, size |-> size, wait |-> wait, exit |-> isExit, event |-> 0]

\* PushCall: the arguments are copied into a command on the stack.
PushCall(p, size, wait) ==
  /\ pc[p] = "out" /\ calls < CallBound
  /\ calls' = calls + 1
  /\ cmd' = [cmd EXCEPT ![p] =
       NewCommand(p, size, wait, FALSE)]
  /\ pc' = [pc EXCEPT ![p] = "pushing"]
  /\ UNCHANGED <<ring, pool, exit, thread, event, pulsed, piped>>

\* PushExitCommand( false ), which returns at once when it was called before.
PushExitCommand(p) ==
  /\ pc[p] = "out" /\ calls < CallBound
  /\ ~ exitEnqueued
  /\ exitEnqueued' = TRUE
  /\ calls' = calls + 1
  /\ cmd' = [cmd EXCEPT ![p] =
       NewCommand(p, ExitSize, FALSE, TRUE)]
  /\ pc' = [pc EXCEPT ![p] = "pushing"]
  /\ UNCHANGED <<ring, pool, thread, event, pulsed, piped, exitProcessed>>

\* AvailableEvents once the event of a blocked producer is back.
Returned(p) == IF event[p] = 0 THEN availableEvents ELSE Append(availableEvents, event[p])

\* AllocNotifyEvent_NTS, from the pool or new.
Allocate(p, available) ==
  /\ event' = [event EXCEPT ![p] = IF available = <<>> THEN created + 1 ELSE Head(available)]
  /\ created' = IF available = <<>> THEN created + 1 ELSE created
  /\ availableEvents' = IF available = <<>> THEN available ELSE Tail(available)

WrongRefused(p) == FALSE

\* "Don't allow any commands after PushExitCommand() is called."
Refused(p) == exitEnqueued /\ ~ cmd[p].exit

Fits(p) == FitsAtHead(cmd[p].size) \/ FitsAtStart(cmd[p].size)

Refuse(p) ==
  /\ pc[p] = "pushing" /\ Refused(p)
  /\ availableEvents' = Returned(p)
  /\ event' = [event EXCEPT ![p] = 0]
  /\ Return(p)
  /\ UNCHANGED <<ring, exit, thread, blockedProducers, created, calls, pulsed, piped>>

WrongSignalled == piped

\* OnPushNonEmpty_Locked writes a byte when the ring was empty.
Signalled == piped \/ IsEmpty

Enqueue(p) ==
  /\ pc[p] = "pushing" /\ ~ Refused(p) /\ Fits(p)
  /\ IF cmd[p].wait
       THEN Allocate(p, Returned(p))
       ELSE /\ availableEvents' = Returned(p)
            /\ event' = [event EXCEPT ![p] = 0]
            /\ UNCHANGED created
  /\ Write([cmd[p] EXCEPT !.event = event'[p]])
  /\ piped' = Signalled
  /\ IF cmd[p].wait
       THEN pc' = [pc EXCEPT ![p] = "waiting"] /\ UNCHANGED cmd
       ELSE Return(p)
  /\ UNCHANGED <<exit, thread, blockedProducers, calls, pulsed>>

Block(p) ==
  /\ pc[p] = "pushing" /\ ~ Refused(p) /\ ~ Fits(p)
  /\ Allocate(p, Returned(p))
  /\ blockedProducers' = Append(blockedProducers, event'[p])
  /\ pc' = [pc EXCEPT ![p] = "blocked"]
  /\ UNCHANGED <<ring, exit, thread, cmd, calls, pulsed, piped>>

WrongAfterWait(e) == pulsed

\* Event::Wait resets an event that was pulsed.
AfterWait(e) == pulsed \ {e}

\* NotifyEvent::Wait, for room in the ring or for the command's completion.
WaitEvent(p) ==
  /\ pc[p] \in {"blocked", "waiting"}
  /\ event[p] \in pulsed
  /\ pulsed' = AfterWait(event[p])
  /\ pc' = [pc EXCEPT ![p] = IF @ = "blocked" THEN "pushing" ELSE "completed"]
  /\ UNCHANGED <<ring, pool, exit, thread, cmd, event, calls, piped>>

FreeNotifyEvent(p) ==
  /\ pc[p] = "completed"
  /\ availableEvents' = Append(availableEvents, event[p])
  /\ event' = [event EXCEPT ![p] = 0]
  /\ Return(p)
  /\ UNCHANGED <<ring, exit, thread, blockedProducers, created, calls, pulsed, piped>>

-----------------------------------------------------------------------------
(* The consumer, DeviceManagerThread::Run. *)

WrongWoken == {}

\* Every command taken wakes the producer that has been blocked longest.
Woken == IF blockedProducers = <<>> THEN {} ELSE {Head(blockedProducers)}

PopCommand ==
  /\ consumer = "popping" /\ ~ exitProcessed
  /\ ~ IsEmpty
  /\ command' = mem[tail]
  /\ ReadEnd(mem[tail].size)
  /\ pulsed' = pulsed \cup Woken
  /\ blockedProducers' = IF blockedProducers = <<>> THEN <<>> ELSE Tail(blockedProducers)
  /\ consumer' = "executing"
  /\ UNCHANGED <<exit, caller, availableEvents, created, piped, done>>

\* "Notify thread while in lock scope": there is nothing to do on Android.
PopNothing ==
  /\ consumer = "popping" /\ ~ exitProcessed
  /\ IsEmpty
  /\ consumer' = "polling"
  /\ UNCHANGED <<ring, pool, exit, caller, command, pulsed, piped, done>>

\* The byte is read.
Poll ==
  /\ consumer = "polling" /\ piped
  /\ piped' = FALSE
  /\ consumer' = "popping"
  /\ UNCHANGED <<ring, pool, exit, caller, command, pulsed, done>>

\* PopBuffer::Execute runs the call ...
Execute ==
  /\ consumer = "executing"
  /\ exitProcessed' = (exitProcessed \/ command.exit)
  /\ done' = [done EXCEPT ![command.by] = command.n]
  /\ consumer' = "notifying"
  /\ UNCHANGED <<ring, pool, caller, command, pulsed, piped, exitEnqueued>>

Notified == IF command.wait THEN {command.event} ELSE {}

\* ... and then notifies the caller that waits for it.
Notify ==
  /\ consumer = "notifying"
  /\ pulsed' = pulsed \cup Notified
  /\ command' = NULL
  /\ consumer' = "popping"
  /\ UNCHANGED <<ring, pool, exit, caller, piped, done>>

\* IsExiting: the loop ends.
Exit ==
  /\ consumer = "popping" /\ exitProcessed
  /\ consumer' = "exited"
  /\ UNCHANGED <<ring, pool, exit, caller, command, pulsed, piped, done>>

-----------------------------------------------------------------------------

Call(p) == \/ \E size \in PostSizes : PushCall(p, size, FALSE)
           \/ \E size \in WaitSizes : PushCall(p, size, TRUE)
           \/ PushExitCommand(p)

Continue(p) == Refuse(p) \/ Enqueue(p) \/ Block(p) \/ WaitEvent(p) \/ FreeNotifyEvent(p)

Run == PopCommand \/ PopNothing \/ Poll \/ Execute \/ Notify \/ Exit

\* poll times out and polls again, or the thread is gone.
Idle == consumer = "exited" \/ (consumer = "polling" /\ ~ piped)

Next == \/ \E p \in Producers : Call(p) \/ Continue(p)
        \/ Run
        \/ Idle /\ UNCHANGED vars

\* Threads that are in a call, and the consumer, are scheduled.
Spec == /\ Init /\ [][Next]_vars
        /\ WF_vars(Run) /\ \A p \in Producers : WF_vars(Continue(p))

-----------------------------------------------------------------------------
(* Properties. *)

\* Every variable has its type, and there are no more events than producers.
TypeOK ==
  /\ mem \in [0..Size - 1 -> Sent \cup {NULL}]
  /\ {head, tail, end} \subseteq 0..Size
  /\ {exitEnqueued, exitProcessed, piped} \subseteq BOOLEAN
  /\ created \in 0..Cardinality(Producers)
  /\ Range(blockedProducers) \cup Range(availableEvents) \cup pulsed \subseteq 1..created
  /\ pc \in [Producers -> {"out", "pushing", "blocked", "waiting", "completed"}]
  /\ cmd \in [Producers -> Sent \cup {NULL}]
  /\ event \in [Producers -> 0..created]
  /\ calls \in 0..CallBound /\ done \in [Producers -> 0..CallBound]
  /\ consumer \in {"popping", "polling", "executing", "notifying", "exited"}
  /\ command \in Sent \cup {NULL}

\* The assertions of CircularBuffer: end is set exactly while the data wraps,
\* data that wraps never closes on the tail, and an empty ring starts again at
\* its first block, so that any command fits.
RingAssertions ==
  /\ head >= tail <=> end = 0
  /\ end # 0 => head < tail /\ tail < end
  /\ IsEmpty => head = 0

\* The blocks where commands start, and the order in which they are read.
Starts == {b \in 0..Size - 1 : mem[b] # NULL}

Before(a, b) == IF a >= tail <=> b >= tail THEN a < b ELSE a >= tail

Ahead(b) == Cardinality({a \in Starts : Before(a, b)})

\* The commands in that order.
Commands == [i \in 1..Cardinality(Starts) |-> mem[CHOOSE b \in Starts : Ahead(b) = i - 1]]

CallOf(c) == <<c.n, c.exit>>

Fifo == [i \in DOMAIN Commands |-> CallOf(Commands[i])]

Executing == IF consumer = "executing" THEN CallOf(command) ELSE NULL

Abstract == INSTANCE CommandQueue WITH
  Commands <- (1..CallBound) \X BOOLEAN,
  Exits <- (1..CallBound) \X {TRUE},
  fifo <- Fifo, serving <- Executing,
  closed <- exitEnqueued,
  exited <- exitProcessed

\* The ring of variable-size commands is a queue of calls: each is executed
\* once, in the order enqueued, none is overwritten, and the exit command last.
ImplementsCommandQueue == Abstract!Spec

\* The consumer never polls without a byte in the pipe while the ring holds a
\* command: only the push into an empty ring writes one.
NeverPollsOnCommands == consumer = "polling" /\ ~ piped => IsEmpty

\* The pooled events: one producer has an event at a time, an event goes back
\* to the pool reset, and a pulse only finds the producer it is meant for.
EventsHaveOneOwner ==
  /\ \A p, q \in Producers : p # q /\ event[p] # 0 => event[p] # event[q]
  /\ IsInjective(availableEvents)
  /\ Range(availableEvents) \cap (Range(event) \cup pulsed) = {}

\* A call that waits returns when its command has been executed, whatever else
\* pulsed its event.
WaitMeansExecuted ==
  [][\A p \in Producers : pc[p] = "waiting" /\ pc'[p] # "waiting" => done[p] = cmd[p].n]_vars

\* The assertions of ~CircularBuffer and ~ThreadCommandQueueImpl: when the loop
\* has ended everything is consumed and no producer is blocked.
ConsumedBeforeShutdown == consumer = "exited" => IsEmpty /\ blockedProducers = <<>>

\* What the mutex protects is sound: the ring passes its assertions through
\* every wrap, and the pool lends each event to one producer.
RingAndPool == TypeOK /\ RingAssertions /\ EventsHaveOneOwner

\* A call returns: executed, enqueued or refused.
CallsReturn == \A p \in Producers : pc[p] # "out" ~> pc[p] = "out"

=============================================================================
