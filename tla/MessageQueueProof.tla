--------------------------- MODULE MessageQueueProof ---------------------------
(***************************************************************************)
(* The ring of a MessageQueue is a first-in-first-out mailbox, and its     *)
(* owner never sleeps on a message, for any number of producers, any       *)
(* capacity and any number of messages.                                    *)
(***************************************************************************)
EXTENDS MessageQueue, SequenceTheorems, TLAPS

-----------------------------------------------------------------------------
(* The inductive invariant. *)

\* The positions head..tail-1 of the ring hold messages, the others nothing.
Window ==
  /\ head <= tail /\ tail - head <= MaxMessages
  /\ \A i \in head..tail - 1 : messages[i % MaxMessages] \in Messages
  /\ \A i \in tail..head + MaxMessages - 1 : messages[i % MaxMessages] = NULL

\* A producer that is posting has begun at least one call.
Numbered == \A p \in Producers : producer[p] = "posting" => posted[p] > 0

IInv == TypeOK /\ Window /\ Numbered /\ NeverSleepsOnMessages

-----------------------------------------------------------------------------
(* Arithmetic of the ring. *)

\* Division with remainder by the capacity.
LEMMA Remainder ==
  ASSUME NEW a \in Nat
  PROVE  /\ a % MaxMessages \in 0..MaxMessages - 1 /\ a \div MaxMessages \in Nat
         /\ a = MaxMessages * (a \div MaxMessages) + (a % MaxMessages)
  BY QueueAssumption

\* No positive multiple of the capacity is below the capacity.
LEMMA NoSmallMultiple ==
  ASSUME NEW k \in Int, MaxMessages * k < MaxMessages, MaxMessages * k > 0
  PROVE  FALSE
<1>1. CASE k <= 0
  BY <1>1, QueueAssumption
<1>2. CASE k >= 1
  BY <1>2, QueueAssumption
<1> QED BY <1>1, <1>2

\* Positions less than the capacity apart are different slots.
LEMMA SlotsDiffer ==
  ASSUME NEW a \in Nat, NEW b \in Nat, a < b, b < a + MaxMessages
  PROVE  a % MaxMessages # b % MaxMessages
<1> SUFFICES ASSUME a % MaxMessages = b % MaxMessages PROVE FALSE
    OBVIOUS
<1> DEFINE k == b \div MaxMessages - a \div MaxMessages
<1>1. k \in Int
  BY Remainder
<1>2. b - a = MaxMessages * k
  BY Remainder, QueueAssumption
<1> HIDE DEF k
<1>3. MaxMessages * k > 0 /\ MaxMessages * k < MaxMessages
  BY <1>1, <1>2, QueueAssumption
<1> QED BY <1>1, <1>3, NoSmallMultiple

\* Positions the capacity apart are the same slot.
LEMMA SlotAgain ==
  ASSUME NEW a \in Nat
  PROVE  (a + MaxMessages) % MaxMessages = a % MaxMessages
<1> DEFINE b == a + MaxMessages
           r == b % MaxMessages
           q == a % MaxMessages
           k == b \div MaxMessages - a \div MaxMessages - 1
<1>1. /\ b \in Nat /\ r \in 0..MaxMessages - 1 /\ q \in 0..MaxMessages - 1
      /\ k \in Int /\ MaxMessages \in Nat \ {0}
  BY Remainder, QueueAssumption
<1>2. q - r = MaxMessages * k
  BY Remainder, QueueAssumption
<1> HIDE DEF k, q, r
<1>3. k = 0
  <2>1. CASE k >= 1
    <3>1. MaxMessages * k >= MaxMessages
      BY <1>1, <2>1
    <3> QED BY <1>1, <1>2, <3>1
  <2>2. CASE k <= -1
    <3>1. MaxMessages * k <= - MaxMessages
      BY <1>1, <2>2
    <3> QED BY <1>1, <1>2, <3>1
  <2> QED BY <1>1, <2>1, <2>2
<1>4. q = r
  BY <1>1, <1>2, <1>3
<1> QED BY <1>4 DEF q, r

-----------------------------------------------------------------------------
(* Every step preserves the invariant. *)

\* The initial state satisfies the invariant.
LEMMA InitInv == Init => IInv
<1> SUFFICES ASSUME Init PROVE IInv
    OBVIOUS
<1>1. /\ messages = [s \in 0..MaxMessages - 1 |-> NULL] /\ head = 0 /\ tail = 0
      /\ MaxMessages \in Nat \ {0}
  BY QueueAssumption DEF Init
<1>2. TypeOK
  <2>1. messages \in [0..MaxMessages - 1 -> Messages \cup {NULL}]
    BY <1>1
  <2>2. posted \in [Producers -> 0..PostBound] /\ producer \in [Producers -> {"out", "posting"}]
    BY QueueAssumption DEF Init
  <2>3. shutdown \in BOOLEAN /\ failed \in BOOLEAN /\ owner \in OwnerStates
    BY DEF Init, OwnerStates
  <2>4. head \in Nat /\ tail \in Nat /\ last \in Messages \cup {NULL}
    BY DEF Init
  <2> QED BY <2>1, <2>2, <2>3, <2>4 DEF TypeOK
<1>3. Window
  <2>1. \A i \in Nat : messages[i % MaxMessages] = NULL
    <3> TAKE i \in Nat
    <3>1. i % MaxMessages \in 0..MaxMessages - 1
      BY Remainder
    <3> QED BY <1>1, <3>1
  <2> QED BY <1>1, <2>1 DEF Window
<1>4. Numbered /\ NeverSleepsOnMessages
  BY DEF Init, Numbered, NeverSleepsOnMessages
<1> QED BY <1>2, <1>3, <1>4 DEF IInv

\* A step that leaves the ring alone keeps the window.
LEMMA WindowKept ==
  ASSUME Window, UNCHANGED <<messages, head, tail>>
  PROVE  Window'
  BY DEF Window

\* The unlocked test of shutdown.
LEMMA PostStringInv == ASSUME IInv, NEW p \in Producers, PostString(p) PROVE IInv'
<1>1. TypeOK'
  BY QueueAssumption DEF IInv, TypeOK, PostString, ring
<1>2. Window'
  BY WindowKept DEF IInv, PostString, ring
<1>3. Numbered'
  BY QueueAssumption DEF IInv, TypeOK, Numbered, PostString
<1>4. NeverSleepsOnMessages'
  BY DEF IInv, NeverSleepsOnMessages, Empty, PostString, ring
<1> QED BY <1>1, <1>2, <1>3, <1>4 DEF IInv

\* A message goes into the slot at tail, which is empty, and a sleeping owner
\* is woken.
LEMMA EnqueueInv == ASSUME IInv, NEW p \in Producers, Enqueue(p) PROVE IInv'
<1> DEFINE m == <<p, posted[p]>>
<1>0. /\ head \in Nat /\ tail \in Nat /\ MaxMessages \in Nat \ {0}
      /\ head <= tail /\ tail - head < MaxMessages
      /\ head' = head /\ tail' = tail + 1
  BY QueueAssumption DEF IInv, TypeOK, Window, Enqueue, Full
<1>1. m \in Messages
  BY QueueAssumption DEF IInv, TypeOK, Numbered, Enqueue, Messages
<1> HIDE DEF m
<1>2. /\ tail % MaxMessages \in 0..MaxMessages - 1
      /\ messages' = [messages EXCEPT ![tail % MaxMessages] = m]
  BY <1>0, Remainder DEF Enqueue, m
<1>3. TypeOK'
  <2>1. messages' \in [0..MaxMessages - 1 -> Messages \cup {NULL}]
    BY <1>1, <1>2 DEF IInv, TypeOK
  <2> QED BY <1>0, <2>1 DEF IInv, TypeOK, Enqueue, Signaled, OwnerStates
<1>4. Window'
  <2>1. \A i \in Nat : head <= i /\ i < head + MaxMessages /\ i # tail
          => messages'[i % MaxMessages] = messages[i % MaxMessages]
    <3> TAKE i \in Nat
    <3> HAVE head <= i /\ i < head + MaxMessages /\ i # tail
    <3>1. i % MaxMessages # tail % MaxMessages
      <4>1. CASE i < tail
        <5>1. tail < i + MaxMessages
          BY <1>0
        <5> QED BY <1>0, <4>1, <5>1, SlotsDiffer
      <4>2. CASE i > tail
        <5>1. tail < i /\ i < tail + MaxMessages
          BY <1>0, <4>2
        <5> QED BY <1>0, <5>1, SlotsDiffer
      <4> QED BY <1>0, <4>1, <4>2
    <3>2. i % MaxMessages \in 0..MaxMessages - 1
      BY Remainder
    <3> QED BY <1>2, <3>1, <3>2 DEF IInv, TypeOK
  <2>2. messages'[tail % MaxMessages] = m
    BY <1>2 DEF IInv, TypeOK
  <2>3. \A i \in Nat : head' <= i /\ i < tail' => messages'[i % MaxMessages] \in Messages
    BY <1>0, <1>1, <2>1, <2>2 DEF IInv, Window
  <2>4. \A i \in Nat : tail' <= i /\ i < head' + MaxMessages => messages'[i % MaxMessages] = NULL
    BY <1>0, <2>1 DEF IInv, Window
  <2>5. /\ \A i \in head'..tail' - 1 : i \in Nat /\ head' <= i /\ i < tail'
        /\ \A i \in tail'..head' + MaxMessages - 1 : i \in Nat /\ tail' <= i /\ i < head' + MaxMessages
        /\ head' <= tail' /\ tail' - head' <= MaxMessages
    BY <1>0
  <2> QED BY <2>3, <2>4, <2>5 DEF Window
<1>5. Numbered'
  BY DEF IInv, TypeOK, Numbered, Enqueue
<1>6. NeverSleepsOnMessages'
  BY DEF NeverSleepsOnMessages, Enqueue, Signaled
<1> QED BY <1>3, <1>4, <1>5, <1>6 DEF IInv

\* The slot at head is emptied, or the queue was found empty.
LEMMA GetNextMessageInv == IInv /\ GetNextMessage => IInv'
<1> SUFFICES ASSUME IInv, GetNextMessage PROVE IInv'
    OBVIOUS
<1>0. head \in Nat /\ tail \in Nat /\ MaxMessages \in Nat \ {0}
  BY QueueAssumption DEF IInv, TypeOK
<1>1. CASE Empty
  <2>1. TypeOK'
    BY <1>1 DEF IInv, TypeOK, GetNextMessage, OwnerStates
  <2>2. Window'
    BY <1>1, WindowKept DEF IInv, GetNextMessage
  <2>3. Numbered' /\ NeverSleepsOnMessages'
    BY <1>1 DEF IInv, Numbered, NeverSleepsOnMessages, GetNextMessage
  <2> QED BY <2>1, <2>2, <2>3 DEF IInv
<1>2. CASE ~ Empty
  <2>1. /\ head < tail /\ head' = head + 1 /\ tail' = tail
        /\ head % MaxMessages \in 0..MaxMessages - 1
        /\ last' = messages[head % MaxMessages]
        /\ messages' = [messages EXCEPT ![head % MaxMessages] = NULL]
    BY <1>0, <1>2, Remainder DEF GetNextMessage, Empty, ReadIndex
  <2>2. TypeOK'
    <3>1. messages' \in [0..MaxMessages - 1 -> Messages \cup {NULL}]
      BY <2>1 DEF IInv, TypeOK
    <3>2. last' \in Messages \cup {NULL}
      BY <2>1 DEF IInv, TypeOK
    <3> QED BY <1>0, <1>2, <2>1, <3>1, <3>2 DEF IInv, TypeOK, GetNextMessage
  <2>3. Window'
    <3>1. \A i \in Nat : head < i /\ i < head + MaxMessages
            => messages'[i % MaxMessages] = messages[i % MaxMessages]
      <4> TAKE i \in Nat
      <4> HAVE head < i /\ i < head + MaxMessages
      <4>1. i % MaxMessages # head % MaxMessages
        BY <1>0, SlotsDiffer
      <4>2. i % MaxMessages \in 0..MaxMessages - 1
        BY Remainder
      <4> QED BY <2>1, <4>1, <4>2 DEF IInv, TypeOK
    <3>2. messages'[(head + MaxMessages) % MaxMessages] = NULL
      <4>1. (head + MaxMessages) % MaxMessages = head % MaxMessages
        BY <1>0, SlotAgain
      <4>2. messages'[head % MaxMessages] = NULL
        BY <2>1 DEF IInv, TypeOK
      <4> QED BY <4>1, <4>2
    <3>3. ASSUME NEW i \in Nat, head' <= i, i < tail'
          PROVE  messages'[i % MaxMessages] \in Messages
      <4>1. head < i /\ i < tail /\ i < head + MaxMessages
        BY <1>0, <2>1, <3>3 DEF IInv, Window
      <4>2. messages[i % MaxMessages] \in Messages
        BY <1>0, <4>1 DEF IInv, Window
      <4> QED BY <3>1, <4>1, <4>2
    <3>4. ASSUME NEW i \in Nat, tail' <= i, i < head' + MaxMessages
          PROVE  messages'[i % MaxMessages] = NULL
      <4>1. CASE i < head + MaxMessages
        <5>1. head < i /\ tail <= i
          BY <1>0, <2>1, <3>4
        <5>2. messages[i % MaxMessages] = NULL
          BY <1>0, <4>1, <5>1 DEF IInv, Window
        <5> QED BY <3>1, <4>1, <5>1, <5>2
      <4>2. CASE i = head + MaxMessages
        BY <3>2, <4>2
      <4> QED BY <1>0, <2>1, <3>4, <4>1, <4>2
    <3>5. /\ \A i \in head'..tail' - 1 : i \in Nat /\ head' <= i /\ i < tail'
          /\ \A i \in tail'..head' + MaxMessages - 1 : i \in Nat /\ tail' <= i /\ i < head' + MaxMessages
          /\ head' <= tail' /\ tail' - head' <= MaxMessages
      BY <1>0, <2>1 DEF IInv, Window
    <3> QED BY <3>3, <3>4, <3>5 DEF Window
  <2>4. Numbered' /\ NeverSleepsOnMessages'
    BY <1>2 DEF IInv, Numbered, NeverSleepsOnMessages, GetNextMessage
  <2> QED BY <2>2, <2>3, <2>4 DEF IInv
<1> QED BY <1>1, <1>2

\* The test and the wait are one step under the mutex.
LEMMA SleepUntilMessageInv == IInv /\ SleepUntilMessage => IInv'
<1> SUFFICES ASSUME IInv, SleepUntilMessage PROVE IInv'
    OBVIOUS
<1>1. TypeOK'
  BY DEF IInv, TypeOK, SleepUntilMessage, ring, OwnerStates
<1>2. Window' /\ Numbered'
  BY WindowKept DEF IInv, Numbered, SleepUntilMessage, ring
<1>3. NeverSleepsOnMessages'
  BY DEF IInv, TypeOK, NeverSleepsOnMessages, Empty, MustSleep, SleepUntilMessage, ring
<1> QED BY <1>1, <1>2, <1>3 DEF IInv

\* ~MessageQueue empties every slot.
LEMMA DeleteInv == IInv /\ Delete => IInv'
<1> SUFFICES ASSUME IInv, Delete PROVE IInv'
    OBVIOUS
<1>1. TypeOK'
  BY DEF IInv, TypeOK, Delete, OwnerStates
<1>2. Window'
  <2>1. /\ head' = tail /\ tail' = tail /\ tail \in Nat /\ MaxMessages \in Nat \ {0}
        /\ messages' = [s \in 0..MaxMessages - 1 |-> NULL]
    BY QueueAssumption DEF IInv, TypeOK, Delete
  <2>2. \A i \in Nat : messages'[i % MaxMessages] = NULL
    BY <2>1, Remainder
  <2> QED BY <2>1, <2>2 DEF Window
<1>3. Numbered' /\ NeverSleepsOnMessages'
  BY DEF IInv, Numbered, NeverSleepsOnMessages, Delete
<1> QED BY <1>1, <1>2, <1>3 DEF IInv

\* Steps that only move the owner, or end the program.
LEMMA OtherInv ==
  IInv /\ (SpuriousWakeup \/ WakeUp \/ Shutdown \/ UNCHANGED vars \/ \E p \in Producers : Overflow(p))
    => IInv'
<1> SUFFICES ASSUME IInv, SpuriousWakeup \/ WakeUp \/ Shutdown \/ UNCHANGED vars
                            \/ \E p \in Producers : Overflow(p)
             PROVE IInv'
    OBVIOUS
<1> USE DEF SpuriousWakeup, WakeUp, Shutdown, Overflow, vars, ring
<1>1. TypeOK'
  BY DEF IInv, TypeOK, OwnerStates
<1>2. UNCHANGED <<messages, head, tail, producer, posted>> /\ (owner' = "asleep" => owner = "asleep")
  OBVIOUS
<1>3. Window' /\ Numbered' /\ NeverSleepsOnMessages'
  BY <1>2, WindowKept DEF IInv, Numbered, NeverSleepsOnMessages, Empty
<1> QED BY <1>1, <1>3 DEF IInv

\* Every step keeps the invariant.
LEMMA NextInv == IInv /\ [Next]_vars => IInv'
  BY PostStringInv, EnqueueInv, GetNextMessageInv, SleepUntilMessageInv, DeleteInv, OtherInv
     DEF Next, Post, Take

\* The invariant holds in every state.
THEOREM Invariance == Spec => []IInv
<1>1. Init => IInv
  BY InitInv
<1>2. IInv /\ [Next]_vars => IInv'
  BY NextInv
<1> QED BY <1>1, <1>2, PTL DEF Spec

-----------------------------------------------------------------------------
(* What follows. *)

\* PostString never overwrites a message that waits to be read.
THEOREM NoOverwrite == Spec => []SlotIsFree
<1>1. IInv => SlotIsFree
  <2> SUFFICES ASSUME IInv, ~ Full PROVE messages[tail % MaxMessages] = NULL
      BY DEF SlotIsFree
  <2>1. tail \in tail..head + MaxMessages - 1
    BY QueueAssumption DEF IInv, TypeOK, Full
  <2> QED BY <2>1 DEF IInv, Window
<1> QED BY <1>1, Invariance, PTL

\* The owner never sleeps while a message waits.
THEOREM NoMissedMessage == Spec => []NeverSleepsOnMessages
<1>1. IInv => NeverSleepsOnMessages
  BY DEF IInv
<1> QED BY <1>1, Invariance, PTL

-----------------------------------------------------------------------------
(* The ring implements the mailbox. *)

\* What waits, under a given window of the ring.
LEMMA WaitingIs ==
  ASSUME IInv
  PROVE  /\ head \in Nat /\ tail \in Nat /\ head <= tail /\ MaxMessages \in Nat \ {0}
         /\ tail - head \in Nat /\ Waiting \in Seq(Messages) /\ Len(Waiting) = tail - head
         /\ \A i \in 1..tail - head : Waiting[i] = messages[(head + i - 1) % MaxMessages]
<1>1. /\ head \in Nat /\ tail \in Nat /\ head <= tail /\ MaxMessages \in Nat \ {0}
      /\ tail - head \in Nat
  BY QueueAssumption DEF IInv, TypeOK, Window
<1>2. \A i \in 1..tail - head : Waiting[i] = messages[(head + i - 1) % MaxMessages]
  BY DEF Waiting
<1>3. ASSUME NEW i \in 1..tail - head
      PROVE  messages[(head + i - 1) % MaxMessages] \in Messages
  <2>1. head + i - 1 \in head..tail - 1
    BY <1>1
  <2> QED BY <2>1 DEF IInv, Window
<1>4. Waiting \in [1..tail - head -> Messages]
  BY <1>3 DEF Waiting
<1>5. Waiting \in Seq(Messages) /\ Len(Waiting) = tail - head
  BY <1>1, <1>4
<1> QED BY <1>1, <1>2, <1>5

\* A function on 1..n is a sequence of length n.
LEMMA IsSequence ==
  ASSUME NEW S, NEW n \in Nat, NEW f \in [1..n -> S]
  PROVE  f \in Seq(S) /\ Len(f) = n
  OBVIOUS

\* A message that PostString queues is accepted.
LEMMA EnqueueAccepts ==
  ASSUME IInv, NEW p \in Producers, Enqueue(p)
  PROVE  \E m \in Messages : Mail!Accept(m)
<1> DEFINE m == <<p, posted[p]>>
           n == tail - head
<1>1. /\ head' = head /\ tail' = tail + 1 /\ tail % MaxMessages \in 0..MaxMessages - 1
      /\ messages' = [messages EXCEPT ![tail % MaxMessages] = m]
      /\ n \in Nat /\ tail' - head' = n + 1 /\ last' = last
  <2>1. head \in Nat /\ tail \in Nat /\ head <= tail
    BY WaitingIs
  <2>2. tail % MaxMessages \in 0..MaxMessages - 1
    BY <2>1, Remainder
  <2>3. /\ head' = head /\ tail' = tail + 1 /\ last' = last
        /\ messages' = [messages EXCEPT ![tail % MaxMessages] = m]
    BY DEF Enqueue
  <2> QED BY <2>1, <2>2, <2>3
<1>2. m \in Messages /\ n < MaxMessages
  BY WaitingIs, QueueAssumption DEF IInv, TypeOK, Numbered, Enqueue, Messages, Full
<1> HIDE DEF m
<1>3. ASSUME NEW i \in 1..n
      PROVE  messages'[(head + i - 1) % MaxMessages] = Waiting[i]
  <2>0. head \in Nat /\ tail \in Nat /\ MaxMessages \in Nat
    BY WaitingIs
  <2>1. head + i - 1 \in Nat /\ head + i - 1 < tail /\ tail < head + i - 1 + MaxMessages
    BY <1>2, <2>0
  <2>2. (head + i - 1) % MaxMessages # tail % MaxMessages
    BY <2>1, WaitingIs, SlotsDiffer
  <2>3. (head + i - 1) % MaxMessages \in 0..MaxMessages - 1
    BY <2>1, Remainder
  <2> QED BY <1>1, <2>2, <2>3, WaitingIs DEF IInv, TypeOK
<1>4. messages'[(head + (n + 1) - 1) % MaxMessages] = m
  <2>1. head + (n + 1) - 1 = tail
    BY WaitingIs
  <2> QED BY <1>1, <2>1 DEF IInv, TypeOK
<1>5. Waiting' = [i \in 1..n + 1 |-> messages'[(head + i - 1) % MaxMessages]]
  BY <1>1 DEF Waiting
<1>6. Append(Waiting, m) \in Seq(Messages) /\ Len(Append(Waiting, m)) = n + 1
      /\ (\A i \in 1..n : Append(Waiting, m)[i] = Waiting[i]) /\ Append(Waiting, m)[n + 1] = m
  BY <1>2, WaitingIs, AppendProperties
<1>7. \A i \in 1..n + 1 : Waiting'[i] = Append(Waiting, m)[i]
  <2> TAKE i \in 1..n + 1
  <2>1. i \in 1..n \/ i = n + 1
    BY <1>1
  <2>2. Waiting'[i] = messages'[(head + i - 1) % MaxMessages]
    BY <1>5
  <2> QED BY <1>3, <1>4, <1>6, <2>1, <2>2
<1>8. Waiting' \in Seq(Messages) /\ Len(Waiting') = n + 1
  <2>1. \A i \in 1..n + 1 : Waiting'[i] \in Messages
    BY <1>6, <1>7, ElementOfSeq
  <2>2. Waiting' \in [1..n + 1 -> Messages]
    BY <1>5, <2>1
  <2> QED BY <1>1, <2>2, IsSequence
<1>9. Waiting' = Append(Waiting, m)
  BY <1>6, <1>7, <1>8, SeqEqual
<1> QED BY <1>1, <1>2, <1>9, WaitingIs DEF Mail!Accept

\* GetNextMessage hands out the oldest message, or changes nothing.
LEMMA GetNextMessageHandsOut ==
  ASSUME IInv, GetNextMessage
  PROVE  Mail!HandOut \/ UNCHANGED Mail!vars
<1>1. CASE Empty
  BY <1>1 DEF GetNextMessage, Waiting, Mail!vars
<1>2. CASE ~ Empty
  <2> DEFINE n == tail - head
  <2>1. /\ head' = head + 1 /\ tail' = tail /\ n \in Nat \ {0} /\ n - 1 \in Nat
        /\ tail' - head' = n - 1
        /\ last' = messages[head % MaxMessages]
        /\ messages' = [messages EXCEPT ![head % MaxMessages] = NULL]
    BY <1>2, WaitingIs DEF GetNextMessage, Empty, ReadIndex
  <2>2. last' = Waiting[1]
    <3>1. head + 1 - 1 = head /\ 1 \in 1..n
      BY <2>1, WaitingIs
    <3> QED BY <2>1, <3>1, WaitingIs
  <2>3. ASSUME NEW i \in 1..n - 1
        PROVE  messages'[(head + 1 + i - 1) % MaxMessages] = Waiting[i + 1]
    <3>1. /\ head + 1 + i - 1 \in Nat /\ head < head + 1 + i - 1
          /\ head + 1 + i - 1 < head + MaxMessages
          /\ head + 1 + i - 1 = head + (i + 1) - 1 /\ i + 1 \in 1..n
      <4>1. head \in Nat /\ tail \in Nat /\ MaxMessages \in Nat /\ n <= MaxMessages
        BY WaitingIs DEF IInv, Window
      <4> QED BY <2>1, <4>1
    <3>2. (head + 1 + i - 1) % MaxMessages # head % MaxMessages
      BY <3>1, WaitingIs, SlotsDiffer
    <3>3. (head + 1 + i - 1) % MaxMessages \in 0..MaxMessages - 1
      BY <3>1, Remainder
    <3>4. messages'[(head + 1 + i - 1) % MaxMessages] = messages[(head + 1 + i - 1) % MaxMessages]
      BY <2>1, <3>2, <3>3 DEF IInv, TypeOK
    <3> QED BY <3>1, <3>4, WaitingIs
  <2>4. Waiting' = [i \in 1..n - 1 |-> messages'[(head + 1 + i - 1) % MaxMessages]]
    BY <2>1 DEF Waiting
  <2>5. Waiting # <<>> /\ Head(Waiting) = Waiting[1]
    BY <2>1, WaitingIs
  <2>6. /\ Tail(Waiting) \in Seq(Messages) /\ Len(Tail(Waiting)) = n - 1
        /\ \A i \in 1..n - 1 : Tail(Waiting)[i] = Waiting[i + 1]
    BY <2>5, WaitingIs, HeadTailProperties
  <2>7. \A i \in 1..n - 1 : Waiting'[i] = Tail(Waiting)[i]
    BY <2>3, <2>4, <2>6
  <2>8. Waiting' \in Seq(Messages) /\ Len(Waiting') = n - 1
    <3>1. \A i \in 1..n - 1 : Waiting'[i] \in Messages
      BY <2>6, <2>7, ElementOfSeq
    <3>2. Waiting' \in [1..n - 1 -> Messages]
      BY <2>4, <3>1
    <3> QED BY <2>1, <3>2, IsSequence
  <2>9. Waiting' = Tail(Waiting)
    BY <2>6, <2>7, <2>8, SeqEqual
  <2> QED BY <2>2, <2>5, <2>9 DEF Mail!HandOut
<1> QED BY <1>1, <1>2

\* What ~MessageQueue frees is discarded.
LEMMA DeleteDiscards == ASSUME IInv, Delete PROVE Mail!Discard
<1>1. head' = tail /\ tail' = tail /\ tail \in Nat /\ last' = last
  BY DEF IInv, TypeOK, Delete
<1>2. tail' - head' = 0
  BY <1>1
<1>3. Waiting' = [i \in 1..0 |-> messages'[(head' + i - 1) % MaxMessages]]
  BY <1>2 DEF Waiting
<1>4. Waiting' = <<>>
  BY <1>3
<1> QED BY <1>1, <1>4 DEF Mail!Discard

\* Every step is a step of the mailbox or leaves it alone.
LEMMA StepRefines == IInv /\ [Next]_vars => [Mail!Next]_(Mail!vars)
<1> SUFFICES ASSUME IInv, [Next]_vars PROVE Mail!Next \/ UNCHANGED Mail!vars
    OBVIOUS
<1>1. ASSUME NEW p \in Producers, Enqueue(p) PROVE Mail!Next
  BY <1>1, EnqueueAccepts DEF Mail!Next
<1>2. CASE GetNextMessage
  BY <1>2, GetNextMessageHandsOut DEF Mail!Next
<1>3. CASE Delete
  BY <1>3, DeleteDiscards DEF Mail!Next
<1>4. ASSUME \/ \E p \in Producers : PostString(p) \/ Overflow(p)
             \/ SleepUntilMessage \/ WakeUp \/ SpuriousWakeup \/ Shutdown \/ UNCHANGED vars
      PROVE  UNCHANGED Mail!vars
  <2>1. UNCHANGED <<messages, head, tail, last>>
    BY <1>4 DEF PostString, Overflow, SleepUntilMessage, WakeUp, SpuriousWakeup, Shutdown, vars, ring
  <2> QED BY <2>1 DEF Waiting, Mail!vars
<1> QED BY <1>1, <1>2, <1>3, <1>4 DEF Next, Post, Take

\* The ring under a mutex is a first-in-first-out mailbox: every message that
\* PostString queues is handed out at most once, in order, and none is lost
\* before the queue is deleted.
THEOREM Refinement == Spec => ImplementsMailbox
<1>1. Init => Mail!Init
  <2> SUFFICES ASSUME Init PROVE Mail!Init
      OBVIOUS
  <2>1. Waiting = [i \in 1..0 |-> messages[(head + i - 1) % MaxMessages]]
    BY DEF Init, Waiting
  <2>2. Waiting = <<>>
    BY <2>1
  <2>3. \A m \in Messages : last # m
    BY QueueAssumption DEF Init
  <2> QED BY <2>2, <2>3 DEF Mail!Init
<1>2. IInv /\ [Next]_vars => [Mail!Next]_(Mail!vars)
  BY StepRefines
<1> QED BY <1>1, <1>2, Invariance, PTL DEF Spec, ImplementsMailbox, Mail!Spec

=============================================================================
