----------------------------- MODULE MessageQueue ------------------------------
(***************************************************************************)
(* MessageQueue (jni/MessageQueue.h, .cpp): a ring of strings under a      *)
(* mutex, posted to by any thread, read by the thread that owns it.  The   *)
(* owner is the loop of AppLocal::VrThreadFunction and of                  *)
(* TalkToJava::TtjThreadFunction: take messages until there is none, then  *)
(* sleep.  What runs under the mutex is one step.                          *)
(***************************************************************************)
EXTENDS Integers

CONSTANTS
  Producers,        \* posting threads
  MaxMessages,      \* maxMessages
  NULL,             \* an empty slot
  SpuriousWakeups,  \* may pthread_cond_wait return without a signal?
  PostBound         \* calls of PostString per producer

Messages == Producers \X (1..PostBound)

ASSUME QueueAssumption ==
  /\ MaxMessages \in Nat \ {0}
  /\ NULL \notin Messages
  /\ PostBound \in Nat

VARIABLES
  shutdown, messages, head, tail,  \* the fields of MessageQueue
  owner,     \* where the owner is
  producer,  \* where a producer is
  posted,    \* its calls of PostString so far
  last,      \* what the last successful GetNextMessage returned
  failed     \* FAIL( "Message buffer overflowed" )

ring == <<shutdown, messages, head, tail>>
vars == <<ring, owner, producer, posted, last, failed>>

OwnerStates == {"running", "empty", "asleep", "woken", "closed", "deleted"}

Init ==
  /\ shutdown = FALSE
  /\ messages = [s \in 0..MaxMessages - 1 |-> NULL]
  /\ head = 0 /\ tail = 0
  /\ owner = "running"
  /\ producer = [p \in Producers |-> "out"]
  /\ posted = [p \in Producers |-> 0]
  /\ last = NULL
  /\ failed = FALSE

-----------------------------------------------------------------------------
(* PostString. *)

\* Read outside the mutex.
Refuses == shutdown

\* A message posted to a queue that is shut down is dropped.
PostString(p) ==
  /\ ~ failed /\ owner # "deleted"
  /\ producer[p] = "out" /\ posted[p] < PostBound
  /\ posted' = [posted EXCEPT ![p] = @ + 1]
  /\ producer' = [producer EXCEPT ![p] = IF Refuses THEN "out" ELSE "posting"]
  /\ UNCHANGED <<ring, owner, last, failed>>

WrongFull == tail - head > MaxMessages

Full == tail - head >= MaxMessages

WrongSignaled == owner

\* The signal starts the owner if it sleeps, and is lost otherwise.
Signaled == IF owner = "asleep" THEN "woken" ELSE owner

Enqueue(p) ==
  /\ producer[p] = "posting" /\ ~ failed /\ ~ Full
  /\ messages' = [messages EXCEPT ![tail % MaxMessages] = <<p, posted[p]>>]
  /\ tail' = tail + 1
  /\ owner' = Signaled
  /\ producer' = [producer EXCEPT ![p] = "out"]
  /\ UNCHANGED <<shutdown, head, posted, last, failed>>

\* The application aborts.
Overflow(p) ==
  /\ producer[p] = "posting" /\ ~ failed /\ Full
  /\ failed' = TRUE
  /\ UNCHANGED <<ring, owner, producer, posted, last>>

-----------------------------------------------------------------------------
(* The owner. *)

Empty == tail <= head

ReadIndex == head % MaxMessages

GetNextMessage ==
  /\ owner = "running" /\ ~ failed
  /\ IF Empty
       THEN owner' = "empty" /\ UNCHANGED <<messages, head, last>>
       ELSE /\ last' = messages[ReadIndex]
            /\ messages' = [messages EXCEPT ![ReadIndex] = NULL]
            /\ head' = head + 1
            /\ UNCHANGED owner
  /\ UNCHANGED <<shutdown, tail, producer, posted, failed>>

WrongMustSleep == TRUE

MustSleep == ~ (tail > head)

\* "Atomically unlock the mutex and block until we get a message", if there is
\* none since GetNextMessage found the queue empty.
SleepUntilMessage ==
  /\ owner = "empty" /\ ~ failed
  /\ owner' = IF MustSleep THEN "asleep" ELSE "running"
  /\ UNCHANGED <<ring, producer, posted, last, failed>>

SpuriousWakeup ==
  /\ SpuriousWakeups
  /\ owner = "asleep" /\ ~ failed
  /\ owner' = "woken"
  /\ UNCHANGED <<ring, producer, posted, last, failed>>

\* pthread_cond_wait has the mutex again and returns.
WakeUp ==
  /\ owner = "woken" /\ ~ failed
  /\ owner' = "running"
  /\ UNCHANGED <<ring, producer, posted, last, failed>>

\* The owner has found the queue empty and leaves its loop.
Shutdown ==
  /\ owner = "empty" /\ ~ failed
  /\ shutdown' = TRUE
  /\ owner' = "closed"
  /\ UNCHANGED <<messages, head, tail, producer, posted, last, failed>>

\* ~MessageQueue, when no thread is posting: frees what is still queued.
Delete ==
  /\ owner = "closed" /\ ~ failed
  /\ \A p \in Producers : producer[p] = "out"
  /\ messages' = [s \in 0..MaxMessages - 1 |-> NULL]
  /\ head' = tail
  /\ owner' = "deleted"
  /\ UNCHANGED <<shutdown, tail, producer, posted, last, failed>>

-----------------------------------------------------------------------------

Post(p) == PostString(p) \/ Enqueue(p) \/ Overflow(p)

Take == GetNextMessage \/ SleepUntilMessage \/ WakeUp

Finished == owner = "deleted" \/ failed

Next == \/ \E p \in Producers : Post(p)
        \/ Take \/ SpuriousWakeup \/ Shutdown \/ Delete
        \/ Finished /\ UNCHANGED vars

\* Threads in the middle of a call, and the owner's loop, are scheduled.
Spec == /\ Init /\ [][Next]_vars
        /\ WF_vars(Take) /\ \A p \in Producers : WF_vars(Enqueue(p) \/ Overflow(p))

-----------------------------------------------------------------------------
(* Properties. *)

\* Every variable has its type.
TypeOK ==
  /\ shutdown \in BOOLEAN /\ failed \in BOOLEAN
  /\ head \in Nat /\ tail \in Nat
  /\ messages \in [0..MaxMessages - 1 -> Messages \cup {NULL}]
  /\ owner \in OwnerStates
  /\ producer \in [Producers -> {"out", "posting"}]
  /\ posted \in [Producers -> 0..PostBound]
  /\ last \in Messages \cup {NULL}

\* The assertion of PostString: a slot that is to be filled is empty.
SlotIsFree == ~ Full => messages[tail % MaxMessages] = NULL

\* "Returns immediately if there is already a message in the queue": the owner
\* never sleeps on messages, whenever they were posted.
NeverSleepsOnMessages == owner = "asleep" => Empty

Waiting == [i \in 1..tail - head |-> messages[(head + i - 1) % MaxMessages]]

Mail == INSTANCE Mailbox WITH box <- Waiting

\* The ring is a mailbox: at most once, first in first out, none lost.
ImplementsMailbox == Mail!Spec

\* A message in the queue is handed out, unless the owner leaves or the
\* application aborts.
MessagesAreTaken ==
  \A n \in 0..PostBound : (head = n /\ tail > n) ~> (head > n \/ owner = "closed" \/ failed)

=============================================================================
