--------------------------- MODULE CommandQueueProof ---------------------------
(***************************************************************************)
(* Proofs about ThreadCommandQueue, for any number of producers, any size  *)
(* of the ring and any sizes of commands: what QueueLock protects is       *)
(* sound, a producer returns only when its command has been executed, and  *)
(* the ring implements CommandQueue.                                       *)
(*                                                                         *)
(* A pooled event is used for two purposes, so what makes a pulse mean     *)
(* that a command has been executed is spread over the queue: the commands *)
(* of one producer lie in the ring in the order of its calls (OrderInv),   *)
(* the one it waits for names the event it waits on (WaitInv), an event    *)
(* has one owner (PoolInv), and an event that is pulsed belongs to a       *)
(* producer that is blocked or whose command is done (PulseInv).           *)
(*                                                                         *)
(* The refinement finds the commands in the ring by their rank (LineOf),   *)
(* and the exit command behind all others (ExitInv).  That nobody is left  *)
(* blocked at the end is a matter of counting (RoomInv).                   *)
(***************************************************************************)
EXTENDS ThreadCommandQueue, FiniteSetTheorems, SequenceTheorems, TLAPS

Cells == 0..Size - 1

\* The end of the data that starts at tail.
Limit == IF head >= tail THEN head ELSE end

\* The next command, or the end of the data, is where the command in block b ends.
Follows(b, limit) ==
  /\ b + mem[b].size <= limit
  /\ b + mem[b].size = limit \/ mem[b + mem[b].size] # NULL

\* The data is a chain of commands, from tail to where it ends or wraps, and
\* from the start of the ring to head.
RingInv ==
  /\ RingAssertions
  /\ \A b \in Cells : mem[b] # NULL =>
       \/ b >= tail /\ Follows(b, Limit)
       \/ head < tail /\ Follows(b, head)
  /\ ~ IsEmpty => mem[tail] # NULL
  /\ head < tail => head > 0 /\ mem[0] # NULL

\* The types, and what a producer in a call or a busy consumer holds.
TypeInv ==
  /\ TypeOK
  /\ availableEvents \in Seq(Nat) /\ blockedProducers \in Seq(Nat)
  /\ command = NULL <=> consumer \notin {"executing", "notifying"}
  /\ \A p \in Producers :
       /\ done[p] <= calls
       /\ pc[p] # "out" => cmd[p] # NULL /\ cmd[p].by = p /\ cmd[p].n <= calls

\* The command was sent before the one its producer sends now.
Older(c) ==
  /\ c.n <= calls
  /\ pc[c.by] \in {"pushing", "blocked"} => c.n < cmd[c.by].n
  /\ pc[c.by] = "waiting" => c.n <= cmd[c.by].n

\* The calls of one producer are executed in the order it makes them.
OrderInv ==
  /\ \A a, b \in Cells :
       mem[a] # NULL /\ mem[b] # NULL /\ Before(a, b) /\ mem[a].by = mem[b].by
         => mem[a].n < mem[b].n
  /\ \A b \in Cells : mem[b] # NULL =>
       /\ Older(mem[b]) /\ done[mem[b].by] < mem[b].n
       /\ command # NULL /\ command.by = mem[b].by => command.n < mem[b].n
  /\ command # NULL => Older(command)
  /\ consumer = "executing" => done[command.by] < command.n
  /\ consumer = "notifying" => done[command.by] = command.n
  /\ \A p \in Producers : pc[p] \in {"pushing", "blocked"} => done[p] < cmd[p].n

\* The producer of the command waits for it, on the event in it.
Awaited(c) ==
  /\ pc[c.by] = "waiting" /\ cmd[c.by].n = c.n
  /\ event[c.by] = c.event /\ c.event \notin pulsed

\* A command that is waited for, in the ring or with the consumer, is awaited.
WaitInv ==
  /\ \A b \in Cells : mem[b] # NULL /\ mem[b].wait => Awaited(mem[b])
  /\ command # NULL /\ command.wait => Awaited(command)

\* Every event made is in the pool or with the one producer that has it.
PoolInv ==
  /\ EventsHaveOneOwner
  /\ \A e \in 1..created : e \in Range(availableEvents) \/ \E p \in Producers : event[p] = e

\* A pulse has been sent by the consumer, for room or for a completion.
PulseInv ==
  /\ \A p \in Producers :
       /\ event[p] = 0 => pc[p] \in {"out", "pushing"}
       /\ event[p] \in pulsed => pc[p] = "blocked" \/ (pc[p] = "waiting" /\ done[p] = cmd[p].n)
  /\ IsInjective(blockedProducers)
  /\ \A e \in Range(blockedProducers) :
       e \notin pulsed /\ \E p \in Producers : pc[p] = "blocked" /\ event[p] = e

IInv == TypeInv /\ RingInv /\ OrderInv /\ WaitInv /\ PoolInv /\ PulseInv /\ NeverPollsOnCommands

-----------------------------------------------------------------------------

\* A command takes some blocks, and two of them do not fill the ring.
LEMMA Sizes == \A c \in Sent : /\ c.size \in Nat \ {0} /\ 2 * c.size < Size
                               /\ c # NULL /\ c.by \in Producers /\ c.n \in Nat
  BY RingAssumption DEF Sent, CommandSizes

\* The types of the ring.
LEMMA RingType ==
  ASSUME TypeOK
  PROVE  /\ head \in 0..Size /\ tail \in 0..Size /\ end \in 0..Size
         /\ mem \in [Cells -> Sent \cup {NULL}]
         /\ Size \in Nat
  BY RingAssumption DEF TypeOK, Cells

\* CircularBuffer::Write keeps the chain, overwrites no command and puts the new
\* one behind all others.
LEMMA Written ==
  ASSUME TypeOK, RingInv, NEW c \in Sent,
         FitsAtHead(c.size) \/ FitsAtStart(c.size), Write(c)
  PROVE  /\ RingInv'
         /\ head' \in 0..Size /\ end' \in 0..Size /\ tail' = tail
         /\ mem' \in [Cells -> Sent \cup {NULL}]
         /\ Place(c.size) \in Cells /\ head' # tail'
         /\ \A b \in Cells : mem'[b] = IF b = Place(c.size) THEN c ELSE mem[b]
         /\ \A b \in Cells : mem[b] # NULL => b # Place(c.size) /\ Before(b, Place(c.size))
<1> DEFINE n == c.size
           at == Place(n)
<1>0. /\ head \in 0..Size /\ tail \in 0..Size /\ end \in 0..Size /\ Size \in Nat
      /\ mem \in [Cells -> Sent \cup {NULL}]
      /\ n \in Nat \ {0} /\ 2 * n < Size /\ c # NULL
  BY RingType, Sizes
<1>1. /\ head >= tail <=> end = 0
      /\ end # 0 => head < tail /\ tail < end
      /\ head = tail => head = 0
  BY DEF RingInv, RingAssertions, IsEmpty
<1>2. /\ at = IF FitsAtHead(n) THEN head ELSE 0
      /\ FitsAtHead(n) <=> IF head >= tail THEN n <= Size - head ELSE n < tail - head
      /\ FitsAtHead(n) \/ (head >= tail /\ n > Size - head /\ n < tail)
  BY DEF Place, FitsAtHead, FitsAtStart
<1>3. /\ head' = at + n /\ end' = (IF FitsAtHead(n) THEN end ELSE head) /\ tail' = tail
  BY DEF Write
<1>4. /\ at \in Cells /\ head' \in 0..Size /\ end' \in 0..Size /\ head' # tail'
      /\ RingAssertions'
  BY <1>0, <1>1, <1>2, <1>3 DEF Cells, RingAssertions, IsEmpty
<1>5. \A b \in Cells : mem[b] # NULL =>
        /\ mem[b].size \in Nat \ {0}
        /\ \/ b >= tail /\ b + mem[b].size <= Limit
           \/ head < tail /\ b + mem[b].size <= head
  BY <1>0, Sizes DEF RingInv, Follows
<1>6. \A b \in Cells : mem[b] # NULL => b < at \/ b >= at + n
  BY <1>0, <1>1, <1>2, <1>5 DEF Limit, Cells
<1>7. \A b \in Cells : mem[b] # NULL => b # at /\ Before(b, at)
  <2> SUFFICES ASSUME NEW b \in Cells, mem[b] # NULL PROVE b # at /\ Before(b, at)
    OBVIOUS
  <2>1. \/ b >= tail /\ b < Limit
        \/ head < tail /\ b < head
    BY <1>5, <1>0 DEF Limit, Cells
  <2>2. CASE FitsAtHead(n)
    BY <2>1, <2>2, <1>0, <1>1, <1>2 DEF Limit, Cells, Before
  <2>3. CASE ~ FitsAtHead(n)
    BY <2>1, <2>3, <1>0, <1>1, <1>2 DEF Limit, Cells, Before
  <2> QED BY <2>2, <2>3
<1>8. \A b \in Cells : mem'[b] = IF b = at THEN c ELSE mem[b]
  <2> SUFFICES ASSUME NEW b \in Cells PROVE mem'[b] = IF b = at THEN c ELSE mem[b]
    OBVIOUS
  <2>1. mem'[b] = IF b = at THEN c
                  ELSE IF b \in at + 1..at + n - 1 THEN NULL ELSE mem[b]
    BY DEF Write, Cells
  <2>2. ASSUME b \in at + 1..at + n - 1 PROVE mem[b] = NULL
    <3>1. at \in Int /\ n \in Int /\ at + n - 1 < at + n
      BY <1>0, <1>4 DEF Cells
    <3>2. ~ (b < at \/ b >= at + n)
      BY <2>2, <3>1
    <3> QED BY <3>2, <1>6
  <2> QED BY <2>1, <2>2
<1>9. mem' \in [Cells -> Sent \cup {NULL}]
  BY <1>0 DEF Write, Cells
<1>10. \A b \in Cells : mem'[b] # NULL =>
         \/ b >= tail' /\ Follows(b, Limit)'
         \/ head' < tail' /\ Follows(b, head)'
  <2> SUFFICES ASSUME NEW b \in Cells, mem'[b] # NULL
               PROVE  \/ b >= tail' /\ Follows(b, Limit)'
                      \/ head' < tail' /\ Follows(b, head)'
    OBVIOUS
  <2>1. CASE b = at
    <3>1. mem'[b].size = n
      BY <2>1, <1>8
    <3> QED BY <3>1, <2>1, <1>0, <1>1, <1>2, <1>3, <1>4 DEF Follows, Limit, Cells
  <2>2. CASE b # at
    <3> DEFINE next == b + mem[b].size
    <3>1. mem[b] # NULL /\ mem'[b] = mem[b]
      BY <2>2, <1>8
    <3>2. \/ b >= tail /\ next <= Limit /\ (next = Limit \/ mem[next] # NULL)
          \/ head < tail /\ next <= head /\ (next = head \/ mem[next] # NULL)
      BY <3>1 DEF RingInv, Follows
    <3>3. next \in Nat /\ next > b /\ b \in 0..Size - 1
      BY <3>1, <1>5, <1>0 DEF Cells
    <3>4. next \in Cells /\ mem[next] # NULL => mem'[next] # NULL
      BY <1>8, <1>0
    <3>5. next = at => mem'[next] # NULL
      BY <1>8, <1>4, <1>0
    <3>6. (b + mem[b].size)' = next
      BY <3>1
    <3> HIDE DEF next
    <3>7. CASE b >= tail /\ next <= Limit /\ (next = Limit \/ mem[next] # NULL)
      <4>1. CASE head < tail
        <5>1. end' = end /\ Limit = end /\ Limit' = end /\ end \in Nat
          BY <4>1, <1>0, <1>1, <1>2, <1>3, <1>4 DEF Limit
        <5>2. next # end => next \in Cells
          BY <5>1, <3>3, <3>7, <1>0 DEF Cells
        <5> QED BY <5>1, <5>2, <3>1, <3>4, <3>6, <3>7, <1>3 DEF Follows
      <4>2. CASE head >= tail
        <5>1. Limit = head /\ (next # head => next \in Cells)
          BY <4>2, <3>3, <3>7, <1>0 DEF Limit, Cells
        <5>2. CASE FitsAtHead(n)
          <6>1. at = head /\ Limit' = head' /\ head' = head + n
            BY <5>2, <4>2, <1>0, <1>2, <1>3 DEF Limit
          <6>2. next <= head' /\ mem'[next] # NULL
            BY <6>1, <5>1, <3>3, <3>4, <3>5, <3>7, <1>0
          <6> QED BY <6>1, <6>2, <3>1, <3>6, <3>7, <1>3 DEF Follows
        <5>3. CASE ~ FitsAtHead(n)
          <6>1. Limit' = head
            BY <5>3, <4>2, <1>0, <1>2, <1>3 DEF Limit
          <6> QED BY <6>1, <5>1, <3>1, <3>4, <3>6, <3>7, <1>3 DEF Follows
        <5> QED BY <5>2, <5>3
      <4> QED BY <4>1, <4>2, <1>0
    <3>8. CASE head < tail /\ next <= head /\ (next = head \/ mem[next] # NULL)
      <4>1. at = head /\ head' = head + n /\ head' < tail'
        BY <3>8, <1>0, <1>1, <1>2, <1>3
      <4>2. next # head => next \in Cells
        BY <3>3, <3>8, <1>0 DEF Cells
      <4>3. next <= head' /\ mem'[next] # NULL
        BY <4>1, <4>2, <3>3, <3>4, <3>5, <3>8, <1>0
      <4> QED BY <4>1, <4>3, <3>1, <3>6 DEF Follows
    <3> QED BY <3>2, <3>7, <3>8
  <2> QED BY <2>1, <2>2
<1>11. mem'[tail'] # NULL /\ (head' < tail' => head' > 0 /\ mem'[0] # NULL)
  <2>1. head # tail => tail \in Cells /\ mem[tail] # NULL
    BY <1>0, <1>1 DEF RingInv, IsEmpty, Cells
  <2>2. head = tail => at = tail
    BY <1>0, <1>1, <1>2
  <2>3. mem'[tail'] # NULL
    BY <2>1, <2>2, <1>0, <1>3, <1>4, <1>8
  <2>4. 0 \in Cells /\ head' > 0
    BY <1>0, <1>3, <1>4 DEF Cells
  <2>5. head' < tail' => at = 0 \/ mem[0] # NULL
    BY <1>0, <1>1, <1>2, <1>3 DEF RingInv
  <2> QED BY <2>3, <2>4, <2>5, <1>8, <1>0
<1>12. RingInv'
  BY <1>4, <1>10, <1>11 DEF RingInv
<1> QED
  BY <1>3, <1>4, <1>7, <1>8, <1>9, <1>12

\* CircularBuffer::ReadEnd keeps the chain: it takes the command at tail, before
\* all others, and leaves those in their order.
LEMMA ReadFirst ==
  ASSUME TypeOK, RingInv, ~ IsEmpty, ReadEnd(mem[tail].size)
  PROVE  /\ RingInv'
         /\ head' \in 0..Size /\ end' \in 0..Size /\ tail' \in 0..Size
         /\ mem' \in [Cells -> Sent \cup {NULL}]
         /\ tail \in Cells /\ mem[tail] \in Sent
         /\ \A b \in Cells : mem'[b] # NULL => /\ mem[b] # NULL /\ mem'[b] = mem[b]
                                               /\ b # tail /\ Before(tail, b)
         /\ \A a, b \in Cells : mem'[a] # NULL /\ mem'[b] # NULL /\ Before(a, b)' => Before(a, b)
<1> DEFINE n == mem[tail].size
           t == tail + n
<1>0. /\ head \in 0..Size /\ tail \in 0..Size /\ end \in 0..Size /\ Size \in Nat
      /\ mem \in [Cells -> Sent \cup {NULL}]
  BY RingType
<1>1. /\ head >= tail <=> end = 0
      /\ end # 0 => head < tail /\ tail < end
      /\ head # tail
  BY DEF RingInv, RingAssertions, IsEmpty
<1>2. tail \in Cells /\ mem[tail] \in Sent
  BY <1>0, <1>1 DEF RingInv, IsEmpty, Cells
<1>3. /\ n \in Nat \ {0} /\ t <= Limit
      /\ t = Limit \/ mem[t] # NULL
  BY <1>0, <1>1, <1>2, Sizes DEF RingInv, Follows
<1>4. /\ tail' = IF t = end \/ t = head THEN 0 ELSE t
      /\ head' = IF t # end /\ t = head THEN 0 ELSE head
      /\ end' = IF t = end THEN 0 ELSE end
  BY DEF ReadEnd
<1>5. \A b \in Cells : mem'[b] = IF b \in tail..t - 1 THEN NULL ELSE mem[b]
  <2>1. mem' = [b \in Cells |-> IF b \in tail..tail + n - 1 THEN NULL ELSE mem[b]]
    BY DEF ReadEnd, Forget, Cells
  <2>2. tail + n - 1 = t - 1
    BY <1>0, <1>3
  <2> HIDE DEF t, n
  <2> QED BY <2>1, <2>2
<1>6. mem' \in [Cells -> Sent \cup {NULL}]
  BY <1>0 DEF ReadEnd, Forget, Cells
<1>7. t \in Nat /\ t > tail
  BY <1>0, <1>3
<1> HIDE DEF n, t
<1>8. /\ head' \in 0..Size /\ end' \in 0..Size /\ tail' \in 0..Size
      /\ RingAssertions'
  BY <1>0, <1>1, <1>3, <1>4, <1>7 DEF Limit, RingAssertions, IsEmpty
<1>9. \A b \in Cells : mem[b] # NULL =>
        /\ mem[b].size \in Nat \ {0}
        /\ b + mem[b].size \in Nat /\ b + mem[b].size > b
        /\ \/ b >= tail /\ Follows(b, Limit)
           \/ head < tail /\ Follows(b, head)
  BY <1>0, Sizes DEF RingInv, Cells
<1>10. \A b \in Cells : mem'[b] # NULL =>
         /\ mem[b] # NULL /\ mem'[b] = mem[b] /\ b # tail /\ Before(tail, b)
         /\ b < tail \/ b >= t
  <2> SUFFICES ASSUME NEW b \in Cells, mem'[b] # NULL
               PROVE  /\ mem[b] # NULL /\ mem'[b] = mem[b]
                      /\ b < tail \/ b >= t
    BY <1>0, <1>7 DEF Cells, Before
  <2>1. b \notin tail..t - 1 /\ mem'[b] = mem[b]
    BY <1>5
  <2> QED BY <2>1, <1>0, <1>7 DEF Cells
<1>11. \A b \in Cells : mem'[b] # NULL =>
         \/ b >= tail' /\ Follows(b, Limit)'
         \/ head' < tail' /\ Follows(b, head)'
  <2> SUFFICES ASSUME NEW b \in Cells, mem'[b] # NULL
               PROVE  \/ b >= tail' /\ Follows(b, Limit)'
                      \/ head' < tail' /\ Follows(b, head)'
    OBVIOUS
  <2> DEFINE next == b + mem[b].size
  <2>1. mem[b] # NULL /\ mem'[b] = mem[b] /\ (b < tail \/ b >= t)
    BY <1>10
  <2>2. \/ b >= t /\ next <= Limit /\ (next = Limit \/ mem[next] # NULL)
        \/ b < tail /\ head < tail /\ next <= head /\ (next = head \/ mem[next] # NULL)
    BY <2>1, <1>9, <1>0, <1>1, <1>7 DEF Follows, Limit, Cells
  <2>3. next \in Nat /\ next > b /\ b \in 0..Size - 1
    BY <2>1, <1>9 DEF Cells
  <2>4. next \in Cells /\ mem[next] # NULL /\ (next < tail \/ next >= t) => mem'[next] # NULL
    BY <1>5, <1>0, <1>7 DEF Cells
  <2>5. (b + mem[b].size)' = next
    BY <2>1
  <2> HIDE DEF next
  <2>6. CASE b >= t
    BY <2>2, <2>3, <2>4, <2>5, <2>6, <1>0, <1>1, <1>3, <1>4, <1>7 DEF Follows, Limit, Cells
  <2>7. CASE b < tail
    BY <2>2, <2>3, <2>4, <2>5, <2>7, <1>0, <1>1, <1>3, <1>4, <1>7 DEF Follows, Limit, Cells
  <2> QED BY <2>1, <2>6, <2>7
<1>12. /\ head' # tail' => mem'[tail'] # NULL
       /\ head' < tail' => head' > 0 /\ mem'[0] # NULL
  <2>1. head < tail => head > 0 /\ mem[0] # NULL
    BY DEF RingInv
  <2>2. 0 \in Cells /\ (t < Size => t \in Cells)
    BY <1>0, <1>2, <1>7 DEF Cells
  <2>3. CASE t = end
    BY <2>1, <2>2, <2>3, <1>0, <1>1, <1>3, <1>4, <1>5, <1>7 DEF Limit
  <2>4. CASE t # end
    BY <2>1, <2>2, <2>4, <1>0, <1>1, <1>3, <1>4, <1>5, <1>7 DEF Limit
  <2> QED BY <2>3, <2>4
<1>13. RingInv'
  BY <1>8, <1>11, <1>12 DEF RingInv, IsEmpty
<1>14. ASSUME NEW a \in Cells, NEW b \in Cells, mem'[a] # NULL, mem'[b] # NULL, Before(a, b)'
       PROVE  Before(a, b)
  <2>1. IF a >= tail' <=> b >= tail' THEN a < b ELSE a >= tail'
    BY <1>14 DEF Before
  <2>2. /\ a < tail \/ a >= t
        /\ b < tail \/ b >= t
        /\ a >= tail => a < Limit
        /\ b >= tail => b < Limit
    <3>1. \A c \in Cells : mem'[c] # NULL /\ c >= tail => c < Limit
      <4> SUFFICES ASSUME NEW c \in Cells, mem'[c] # NULL, c >= tail PROVE c < Limit
        OBVIOUS
      <4>1. /\ c + mem[c].size \in Nat /\ c + mem[c].size > c
            /\ c + mem[c].size <= Limit \/ (head < tail /\ c + mem[c].size <= head)
        BY <1>9, <1>10 DEF Follows
      <4> HIDE DEF Cells
      <4> QED BY <4>1, <1>0, <1>1 DEF Limit, Cells
    <3> QED BY <1>10, <1>14, <3>1
  <2>3. CASE t = Limit
    <3>1. a < tail /\ b < tail /\ tail' = 0
      BY <2>2, <2>3, <1>0, <1>1, <1>3, <1>4, <1>7 DEF Limit, Cells
    <3> QED BY <2>1, <3>1, <1>0 DEF Before, Cells
  <2>4. CASE t # Limit
    <3>1. tail' = t
      BY <2>4, <1>0, <1>1, <1>3, <1>4, <1>7 DEF Limit
    <3>2. /\ a >= tail' <=> a >= tail
          /\ b >= tail' <=> b >= tail
      BY <2>2, <3>1, <1>0, <1>7 DEF Cells
    <3> QED BY <2>1, <3>2 DEF Before
  <2> QED BY <2>3, <2>4
<1> QED
  BY <1>2, <1>6, <1>8, <1>10, <1>13, <1>14

-----------------------------------------------------------------------------
(* The events. *)

\* An event at the end of a list that has it not.
LEMMA Appended ==
  ASSUME NEW s \in Seq(Nat), NEW e \in Nat, NEW t, t = Append(s, e)
  PROVE  /\ t \in Seq(Nat) /\ Range(t) = Range(s) \cup {e}
         /\ IsInjective(s) /\ e \notin Range(s) => IsInjective(t)
<1>1. /\ t \in Seq(Nat) /\ Len(t) = Len(s) + 1 /\ Len(s) \in Nat
      /\ \A i \in 1..Len(s) : t[i] = s[i]
      /\ t[Len(s) + 1] = e
      /\ DOMAIN t = 1..Len(s) + 1 /\ DOMAIN s = 1..Len(s)
  <2>1. /\ t \in Seq(Nat) /\ Len(t) = Len(s) + 1
        /\ \A i \in 1..Len(s) : t[i] = s[i]
        /\ t[Len(s) + 1] = e
    BY AppendProperties
  <2>2. Len(s) \in Nat /\ DOMAIN s = 1..Len(s) /\ DOMAIN t = 1..Len(t)
    BY <2>1, LenProperties
  <2> QED BY <2>1, <2>2
<1>2. DOMAIN t = DOMAIN s \cup {Len(s) + 1} /\ Len(s) + 1 \notin DOMAIN s
  BY <1>1
<1>3. Range(t) = Range(s) \cup {e}
  BY <1>1, <1>2 DEF Range
<1>4. IsInjective(s) /\ e \notin Range(s) => IsInjective(t)
  BY <1>1, <1>2 DEF Range, IsInjective
<1> QED BY <1>1, <1>3, <1>4

\* The first event taken from a list.
LEMMA Taken ==
  ASSUME NEW s \in Seq(Nat), s # <<>>, IsInjective(s)
  PROVE  /\ Tail(s) \in Seq(Nat) /\ Head(s) \in Nat
         /\ Range(s) = Range(Tail(s)) \cup {Head(s)}
         /\ IsInjective(Tail(s)) /\ Head(s) \notin Range(Tail(s))
<1> DEFINE t == Tail(s)
<1>1. /\ t \in Seq(Nat) /\ Head(s) \in Nat /\ Head(s) = s[1]
      /\ Len(s) \in Nat \ {0} /\ Len(t) = Len(s) - 1
      /\ \A i \in 1..Len(t) : t[i] = s[i + 1]
      /\ DOMAIN t = 1..Len(s) - 1 /\ DOMAIN s = 1..Len(s)
  <2>1. /\ t \in Seq(Nat) /\ Head(s) \in Nat /\ Len(t) = Len(s) - 1
        /\ \A i \in 1..Len(t) : t[i] = s[i + 1]
    BY HeadTailProperties
  <2>2. Len(s) \in Nat \ {0}
    BY EmptySeq
  <2>3. DOMAIN s = 1..Len(s) /\ DOMAIN t = 1..Len(t)
    BY <2>1, LenProperties
  <2>4. Head(s) = s[1]
    OBVIOUS
  <2> HIDE DEF t
  <2> QED BY <2>1, <2>2, <2>3, <2>4
<1> HIDE DEF t
<1>2. ASSUME NEW i \in DOMAIN t
      PROVE  i + 1 \in DOMAIN s /\ i + 1 # 1 /\ t[i] = s[i + 1]
  <2>1. i \in 1..Len(t) /\ i \in 1..Len(s) - 1 /\ Len(s) \in Nat
    BY <1>1
  <2>2. t[i] = s[i + 1]
    BY <1>1, <2>1
  <2>3. i + 1 \in 1..Len(s) /\ i + 1 # 1
    BY <2>1
  <2> QED BY <2>2, <2>3, <1>1
<1>3. Head(s) \notin Range(t)
  <2>1. 1 \in DOMAIN s
    BY <1>1
  <2>2. \A i \in DOMAIN t : s[i + 1] # s[1]
    BY <2>1, <1>2 DEF IsInjective
  <2> QED BY <2>2, <1>1, <1>2 DEF Range
<1>4. IsInjective(t)
  <2> SUFFICES ASSUME NEW i \in DOMAIN t, NEW j \in DOMAIN t, t[i] = t[j] PROVE i = j
    BY DEF IsInjective
  <2>1. i + 1 = j + 1
    BY <1>2 DEF IsInjective
  <2> QED BY <2>1, <1>1
<1>5. Range(s) = Range(t) \cup {Head(s)}
  <2>1. ASSUME NEW i \in DOMAIN s, i # 1
        PROVE  i - 1 \in DOMAIN t /\ s[i] = t[i - 1]
    <3>1. i - 1 \in 1..Len(t) /\ (i - 1) + 1 = i
      BY <2>1, <1>1
    <3> QED BY <3>1, <1>1
  <2>2. 1 \in DOMAIN s
    BY <1>1
  <2>3. \A e \in Range(s) : e \in Range(t) \cup {Head(s)}
    <3> SUFFICES ASSUME NEW i \in DOMAIN s PROVE s[i] \in Range(t) \cup {s[1]}
      BY <1>1 DEF Range
    <3>1. i - 1 \in DOMAIN t => t[i - 1] \in Range(t)
      BY DEF Range
    <3> QED BY <2>1, <3>1
  <2>4. Head(s) \in Range(s)
    BY <2>2, <1>1 DEF Range
  <2>5. \A e \in Range(t) : e \in Range(s)
    BY <1>2 DEF Range
  <2> QED BY <2>3, <2>4, <2>5
<1> QED BY <1>1, <1>3, <1>4, <1>5 DEF t

\* The pool with the event of p in it again.
LEMMA GivenBack ==
  ASSUME TypeInv, PoolInv, NEW p \in Producers, event[p] \notin pulsed
  PROVE  /\ Returned(p) \in Seq(Nat) /\ Range(Returned(p)) \subseteq 1..created
         /\ IsInjective(Returned(p)) /\ Range(Returned(p)) \cap pulsed = {}
         /\ \A q \in Producers \ {p} : event[q] \notin Range(Returned(p))
         /\ \A e \in 1..created : \/ e \in Range(Returned(p))
                                  \/ \E q \in Producers \ {p} : event[q] = e
<1>1. /\ availableEvents \in Seq(Nat) /\ Range(availableEvents) \subseteq 1..created
      /\ created \in Nat /\ event \in [Producers -> 0..created]
  BY DEF TypeInv, TypeOK
<1>2. /\ \A q, r \in Producers : q # r /\ event[q] # 0 => event[q] # event[r]
      /\ IsInjective(availableEvents)
      /\ Range(availableEvents) \cap pulsed = {}
      /\ \A q \in Producers : event[q] \notin Range(availableEvents)
  <2>1. \A q \in Producers : event[q] \in Range(event)
    BY <1>1 DEF Range
  <2>2. EventsHaveOneOwner
    BY DEF PoolInv
  <2>3. Range(availableEvents) \cap (Range(event) \cup pulsed) = {}
    BY <2>2 DEF EventsHaveOneOwner
  <2>4. /\ \A q, r \in Producers : q # r /\ event[q] # 0 => event[q] # event[r]
        /\ IsInjective(availableEvents)
    BY <2>2 DEF EventsHaveOneOwner
  <2> QED BY <2>1, <2>3, <2>4
<1>3. \A e \in 1..created : \/ e \in Range(availableEvents)
                            \/ \E q \in Producers : event[q] = e
  BY DEF PoolInv
<1>4. CASE event[p] = 0
  <2>1. Returned(p) = availableEvents
    BY <1>4 DEF Returned
  <2> QED BY <2>1, <1>1, <1>2, <1>3, <1>4
<1>5. CASE event[p] # 0
  <2>1. Returned(p) = Append(availableEvents, event[p]) /\ event[p] \in 1..created
    BY <1>1, <1>5 DEF Returned
  <2>2. /\ Returned(p) \in Seq(Nat)
        /\ Range(Returned(p)) = Range(availableEvents) \cup {event[p]}
        /\ IsInjective(Returned(p))
    <3>1. event[p] \in Nat /\ event[p] \notin Range(availableEvents)
      BY <2>1, <1>1, <1>2
    <3> QED BY <3>1, <2>1, <1>1, <1>2, Appended
  <2> QED BY <2>1, <2>2, <1>1, <1>2, <1>3
<1> QED BY <1>4, <1>5

\* PushCommand gives the event of a producer back and takes no other.
LEMMA NotAllocated ==
  ASSUME TypeInv, PoolInv, NEW p \in Producers, event[p] \notin pulsed,
         availableEvents' = Returned(p), event' = [event EXCEPT ![p] = 0],
         created' = created, pulsed' = pulsed
  PROVE  /\ PoolInv' /\ availableEvents' \in Seq(Nat)
         /\ Range(availableEvents') \subseteq 1..created'
         /\ event' \in [Producers -> 0..created']
<1>1. /\ created \in Nat /\ event \in [Producers -> 0..created]
  BY DEF TypeInv, TypeOK
<1>2. \A q, r \in Producers : q # r /\ event[q] # 0 => event[q] # event[r]
  BY DEF PoolInv, EventsHaveOneOwner
<1>3. event' \in [Producers -> 0..created] /\ event'[p] = 0
      /\ \A q \in Producers \ {p} : event'[q] = event[q]
  BY <1>1
<1>4. \A q \in Producers : event'[q] \notin Range(availableEvents')
  BY <1>1, <1>3, GivenBack
<1>5. EventsHaveOneOwner'
  <2>1. IsInjective(availableEvents') /\ Range(availableEvents') \cap pulsed' = {}
    BY GivenBack
  <2>2. \A q, r \in Producers : q # r /\ event'[q] # 0 => event'[q] # event'[r]
    BY <1>2, <1>3
  <2>3. Range(availableEvents') \cap (Range(event') \cup pulsed') = {}
    BY <2>1, <1>3, <1>4 DEF Range
  <2> QED BY <2>1, <2>2, <2>3 DEF EventsHaveOneOwner
<1>6. \A e \in 1..created' : e \in Range(availableEvents') \/ \E q \in Producers : event'[q] = e
  BY <1>3, GivenBack
<1> QED BY <1>3, <1>5, <1>6, GivenBack DEF PoolInv

\* PushCommand gives the event of a producer back and takes one, from the pool or new:
\* it is nobody else's, it is not pulsed, and there are no more than producers.
LEMMA Allocated ==
  ASSUME TypeInv, PoolInv, NEW p \in Producers, event[p] \notin pulsed,
         Allocate(p, Returned(p)), pulsed' = pulsed
  PROVE  /\ PoolInv' /\ availableEvents' \in Seq(Nat)
         /\ Range(availableEvents') \subseteq 1..created'
         /\ created' \in 0..Cardinality(Producers) /\ created <= created'
         /\ event' \in [Producers -> 0..created'] /\ event'[p] \in 1..created'
         /\ event'[p] \notin pulsed
         /\ \A q \in Producers \ {p} : event'[q] = event[q] /\ event'[p] # event[q]
<1>1. /\ created \in 0..Cardinality(Producers) /\ event \in [Producers -> 0..created]
      /\ pulsed \subseteq 1..created /\ Cardinality(Producers) \in Nat
  BY RingAssumption, FS_CardinalityType DEF TypeInv, TypeOK
<1>2. \A q, r \in Producers : q # r /\ event[q] # 0 => event[q] # event[r]
  BY DEF PoolInv, EventsHaveOneOwner
<1> DEFINE r == Returned(p)
<1>3. /\ r \in Seq(Nat) /\ Range(r) \subseteq 1..created
      /\ IsInjective(r) /\ Range(r) \cap pulsed = {}
      /\ \A q \in Producers \ {p} : event[q] \notin Range(r)
      /\ \A e \in 1..created : e \in Range(r) \/ \E q \in Producers \ {p} : event[q] = e
  BY GivenBack
<1> HIDE DEF r
<1>4. /\ event' = [event EXCEPT ![p] = IF r = <<>> THEN created + 1 ELSE Head(r)]
      /\ created' = IF r = <<>> THEN created + 1 ELSE created
      /\ availableEvents' = IF r = <<>> THEN r ELSE Tail(r)
  BY DEF Allocate, r
<1>5. CASE r = <<>>
  <2>1. created < Cardinality(Producers)
    <3> DEFINE Owner == [e \in 1..created |-> CHOOSE q \in Producers \ {p} : event[q] = e]
    <3>1. Range(r) = {}
      BY <1>5, EmptySeq, LenProperties DEF Range
    <3>2. \A e \in 1..created : Owner[e] \in Producers \ {p} /\ event[Owner[e]] = e
      BY <3>1, <1>3
    <3>3. Owner \in Injection(1..created, Producers \ {p})
      BY <3>2 DEF Injection, IsInjective
    <3>4. /\ IsFiniteSet(Producers \ {p})
          /\ Cardinality(Producers \ {p}) = Cardinality(Producers) - 1
      BY RingAssumption, FS_RemoveElement
    <3>5. Cardinality(1..created) <= Cardinality(Producers \ {p})
      BY <3>3, <3>4, FS_Injection
    <3>6. Cardinality(1..created) = created
      BY <1>1, FS_Interval
    <3> QED BY <3>4, <3>5, <3>6, <1>1
  <2>2. /\ created' = created + 1 /\ availableEvents' = r
        /\ event' \in [Producers -> 0..created'] /\ event'[p] = created + 1
        /\ \A q \in Producers \ {p} : event'[q] = event[q] /\ event'[p] # event[q]
    BY <1>1, <1>4, <1>5
  <2>3. \A q \in Producers : event'[q] \notin Range(r)
    BY <2>2, <1>1, <1>3
  <2>4. Range(availableEvents') \cap (Range(event') \cup pulsed') = {}
    BY <2>2, <2>3, <1>3 DEF Range
  <2>5. \A q, s \in Producers : q # s /\ event'[q] # 0 => event'[q] # event'[s]
    BY <2>2, <1>2
  <2>6. EventsHaveOneOwner'
    BY <2>2, <2>4, <2>5, <1>3 DEF EventsHaveOneOwner
  <2>7. \A e \in 1..created' : e \in Range(availableEvents') \/ \E q \in Producers : event'[q] = e
    BY <2>2, <1>1, <1>3
  <2>8. created + 1 \notin pulsed /\ created' \in 0..Cardinality(Producers)
    BY <2>1, <2>2, <1>1
  <2>9. Range(availableEvents') \subseteq 1..created'
    BY <2>2, <1>1, <1>3
  <2> QED BY <2>2, <2>6, <2>7, <2>8, <2>9, <1>1, <1>3 DEF PoolInv
<1>6. CASE r # <<>>
  <2>1. /\ Tail(r) \in Seq(Nat) /\ Head(r) \in Nat
        /\ Range(r) = Range(Tail(r)) \cup {Head(r)}
        /\ IsInjective(Tail(r)) /\ Head(r) \notin Range(Tail(r))
    BY <1>3, <1>6, Taken
  <2>2. /\ created' = created /\ availableEvents' = Tail(r)
        /\ event' \in [Producers -> 0..created'] /\ event'[p] = Head(r)
        /\ Head(r) \in 1..created /\ Head(r) \notin pulsed
        /\ \A q \in Producers \ {p} : event'[q] = event[q] /\ event'[p] # event[q]
    <3>1. Head(r) \in Range(r)
      BY <2>1
    <3>2. Head(r) \in 0..created
      BY <3>1, <1>1, <1>3
    <3> QED BY <3>1, <3>2, <1>1, <1>3, <1>4, <1>6
  <2>3. \A q \in Producers : event'[q] \notin Range(Tail(r))
    BY <2>1, <2>2, <1>3
  <2>4. Range(availableEvents') \cap (Range(event') \cup pulsed') = {}
    BY <2>1, <2>2, <2>3, <1>3 DEF Range
  <2>5. \A q, s \in Producers : q # s /\ event'[q] # 0 => event'[q] # event'[s]
    BY <2>2, <1>2
  <2>6. EventsHaveOneOwner'
    BY <2>1, <2>2, <2>4, <2>5 DEF EventsHaveOneOwner
  <2>7. \A e \in 1..created' : e \in Range(availableEvents') \/ \E q \in Producers : event'[q] = e
    BY <2>1, <2>2, <1>3
  <2> QED BY <2>1, <2>2, <2>6, <2>7, <1>1, <1>3 DEF PoolInv
<1> QED BY <1>5, <1>6

-----------------------------------------------------------------------------
(* Each step keeps the invariant. *)

\* The types, as the steps below need them.
LEMMA Types ==
  ASSUME TypeInv
  PROVE  /\ mem \in [Cells -> Sent \cup {NULL}] /\ tail \in 0..Size /\ Size \in Nat
         /\ cmd \in [Producers -> Sent \cup {NULL}]
         /\ pc \in [Producers -> {"out", "pushing", "blocked", "waiting", "completed"}]
         /\ created \in Nat /\ event \in [Producers -> 0..created]
         /\ done \in [Producers -> 0..CallBound] /\ calls \in 0..CallBound /\ CallBound \in Nat
         /\ command \in Sent \cup {NULL}
         /\ command = NULL <=> consumer \notin {"executing", "notifying"}
<1>1. TypeOK /\ (command = NULL <=> consumer \notin {"executing", "notifying"})
  BY DEF TypeInv
<1>2. mem \in [Cells -> Sent \cup {NULL}] /\ tail \in 0..Size /\ Size \in Nat
  BY <1>1, RingType
<1>3. CallBound \in Nat /\ Cardinality(Producers) \in Nat
  BY RingAssumption, FS_CardinalityType
<1>4. created \in Nat
  BY <1>1, <1>3 DEF TypeOK
<1> QED BY <1>1, <1>2, <1>3, <1>4 DEF TypeOK

\* The queue is created empty.
LEMMA Initially == Init => IInv
<1> SUFFICES ASSUME Init PROVE IInv
  OBVIOUS
<1> USE DEF Init
<1>1. /\ 0 \in 0..Size /\ 0 \in 0..CallBound /\ Cardinality(Producers) \in Nat
  BY RingAssumption, FS_CardinalityType
<1>2. Range(<<>>) = {} /\ IsInjective(<<>>) /\ <<>> \in Seq(Nat)
  BY DEF Range, IsInjective
<1>3. TypeOK
  <2>1. /\ mem \in [0..Size - 1 -> Sent \cup {NULL}] /\ command \in Sent \cup {NULL}
        /\ cmd \in [Producers -> Sent \cup {NULL}]
    OBVIOUS
  <2>2. /\ event \in [Producers -> 0..created]
        /\ calls \in 0..CallBound /\ done \in [Producers -> 0..CallBound]
        /\ {head, tail, end} \subseteq 0..Size /\ created \in 0..Cardinality(Producers)
    BY <1>1, RingAssumption
  <2>3. Range(blockedProducers) \cup Range(availableEvents) \cup pulsed \subseteq 1..created
    BY <1>2
  <2>4. {exitEnqueued, exitProcessed, piped} \subseteq BOOLEAN
    OBVIOUS
  <2>5. /\ pc \in [Producers -> {"out", "pushing", "blocked", "waiting", "completed"}]
        /\ consumer \in {"popping", "polling", "executing", "notifying", "exited"}
    OBVIOUS
  <2> QED BY <2>1, <2>2, <2>3, <2>4, <2>5 DEF TypeOK
<1>4. TypeInv
  BY <1>1, <1>2, <1>3 DEF TypeInv
<1>5. \A b \in Cells : mem[b] = NULL
  BY DEF Cells
<1>6. RingInv
  <2>1. head = tail /\ ~ head < tail
    OBVIOUS
  <2>2. RingAssertions
    BY DEF RingAssertions, IsEmpty
  <2> QED BY <2>1, <2>2, <1>5 DEF RingInv, IsEmpty
<1>7. OrderInv /\ WaitInv
  BY <1>5 DEF OrderInv, WaitInv
<1>8. PoolInv
  BY <1>2, <1>1 DEF PoolInv, EventsHaveOneOwner
<1>9. PulseInv /\ NeverPollsOnCommands
  BY <1>2 DEF PulseInv, NeverPollsOnCommands
<1> QED BY <1>4, <1>6, <1>7, <1>8, <1>9 DEF IInv

\* PushCall and PushExitCommand put a command on the stack of the producer.
LEMMA CallStep ==
  ASSUME IInv, NEW p \in Producers, NEW c \in Sent, c.by = p, c.n = calls + 1,
         pc[p] = "out", calls < CallBound, calls' = calls + 1,
         cmd' = [cmd EXCEPT ![p] = c], pc' = [pc EXCEPT ![p] = "pushing"],
         exitEnqueued' \in BOOLEAN, exitProcessed' = exitProcessed,
         UNCHANGED <<ring, pool, thread, event, pulsed, piped>>
  PROVE  IInv'
<1> USE DEF IInv, ring, pool, thread
<1>0. /\ cmd'[p] = c /\ pc'[p] = "pushing" /\ c # NULL
      /\ \A q \in Producers \ {p} : cmd'[q] = cmd[q] /\ pc'[q] = pc[q]
      /\ calls \in Nat
  BY Types, Sizes
<1>1. TypeOK'
  <2>1. TypeOK
    BY DEF TypeInv
  <2>2. calls' \in 0..CallBound
    BY Types
  <2>3. cmd' \in [Producers -> Sent \cup {NULL}]
    BY Types
  <2>4. pc' \in [Producers -> {"out", "pushing", "blocked", "waiting", "completed"}]
    BY Types
  <2> QED BY <2>1, <2>2, <2>3, <2>4 DEF TypeOK
<1>2. TypeInv'
  <2>1. \A q \in Producers :
          /\ done'[q] <= calls'
          /\ pc'[q] # "out" => cmd'[q] # NULL /\ cmd'[q].by = q /\ cmd'[q].n <= calls'
    <3> SUFFICES ASSUME NEW q \in Producers
                 PROVE  /\ done'[q] <= calls'
                        /\ pc'[q] # "out" => cmd'[q] # NULL /\ cmd'[q].by = q /\ cmd'[q].n <= calls'
      OBVIOUS
    <3>1. done[q] <= calls /\ done[q] \in Nat
      BY Types DEF TypeInv
    <3>2. CASE q = p
      BY <3>1, <3>2, <1>0
    <3>3. CASE q # p
      <4>1. pc[q] # "out" => cmd[q] # NULL /\ cmd[q].by = q /\ cmd[q].n <= calls /\ cmd[q].n \in Nat
        BY Types, Sizes DEF TypeInv
      <4> QED BY <4>1, <3>1, <3>3, <1>0
    <3> QED BY <3>2, <3>3
  <2> QED BY <1>1, <2>1 DEF TypeInv
<1>3. RingInv'
  BY DEF RingInv, RingAssertions, Follows, Limit, IsEmpty
<1>4. OrderInv'
  <2>1. ASSUME NEW d \in Sent, Older(d) PROVE Older(d)'
    <3>1. d.n <= calls /\ d.n \in Nat /\ d.by \in Producers
      BY <2>1, Sizes DEF Older
    <3> QED BY <3>1, <2>1, <1>0 DEF Older
  <2>2. \A q \in Producers : pc'[q] \in {"pushing", "blocked"} => done[q] < cmd'[q].n
    <3>1. \A q \in Producers : done[q] <= calls /\ done[q] \in Nat
      BY Types DEF TypeInv
    <3> QED BY <3>1, <1>0 DEF OrderInv
  <2>3. \A b \in Cells : mem[b] # NULL => mem[b] \in Sent /\ Older(mem[b])
    BY Types DEF OrderInv
  <2>4. command # NULL => command \in Sent /\ Older(command)
    BY Types DEF OrderInv
  <2>5. \A b \in Cells : mem[b] # NULL => Older(mem[b])'
    BY <2>1, <2>3
  <2>6. command # NULL => Older(command)'
    BY <2>1, <2>4
  <2> QED BY <2>2, <2>5, <2>6 DEF OrderInv, Before
<1>5. WaitInv'
  <2>1. ASSUME NEW d \in Sent, Awaited(d) PROVE Awaited(d)'
    BY <2>1, <1>0, Sizes DEF Awaited
  <2>2. \A b \in Cells : mem[b] # NULL /\ mem[b].wait => mem[b] \in Sent /\ Awaited(mem[b])
    BY Types DEF WaitInv
  <2>3. command # NULL /\ command.wait => command \in Sent /\ Awaited(command)
    BY Types DEF WaitInv
  <2> QED BY <2>1, <2>2, <2>3 DEF WaitInv
<1>6. PoolInv'
  BY DEF PoolInv, EventsHaveOneOwner
<1>7. PulseInv'
  BY <1>0 DEF PulseInv
<1>8. NeverPollsOnCommands'
  BY DEF NeverPollsOnCommands, IsEmpty
<1> QED BY <1>2, <1>3, <1>4, <1>5, <1>6, <1>7, <1>8

\* A producer that pushes or has been answered has no pulse to come.
LEMMA Unpulsed ==
  ASSUME IInv, NEW p \in Producers, pc[p] \in {"pushing", "completed"}
  PROVE  event[p] \notin pulsed
  BY DEF IInv, PulseInv

\* A producer returns from PushCommand without its event: refused, or answered.
LEMMA LeaveStep ==
  ASSUME IInv, NEW p \in Producers, pc[p] \in {"pushing", "completed"},
         availableEvents' = Returned(p), event' = [event EXCEPT ![p] = 0], Return(p),
         UNCHANGED <<ring, exit, thread, blockedProducers, created, calls, pulsed, piped>>
  PROVE  IInv'
<1> USE DEF IInv, ring, exit, thread
<1>0. /\ pc'[p] = "out" /\ event'[p] = 0
      /\ \A q \in Producers \ {p} : cmd'[q] = cmd[q] /\ pc'[q] = pc[q] /\ event'[q] = event[q]
  BY Types DEF Return
<1>1. /\ PoolInv' /\ availableEvents' \in Seq(Nat)
      /\ Range(availableEvents') \subseteq 1..created'
      /\ event' \in [Producers -> 0..created']
  BY NotAllocated, Unpulsed
<1>2. TypeInv'
  <2>1. TypeOK
    BY DEF TypeInv
  <2>2. cmd' \in [Producers -> Sent \cup {NULL}]
    BY Types DEF Return
  <2>3. pc' \in [Producers -> {"out", "pushing", "blocked", "waiting", "completed"}]
    BY Types DEF Return
  <2>4. Range(blockedProducers') \cup Range(availableEvents') \cup pulsed' \subseteq 1..created'
    BY <2>1, <1>1 DEF TypeOK
  <2>5. TypeOK'
    BY <2>1, <2>2, <2>3, <2>4, <1>1 DEF TypeOK
  <2> QED BY <2>5, <1>0, <1>1 DEF TypeInv
<1>3. RingInv'
  BY DEF RingInv, RingAssertions, Follows, Limit, IsEmpty
<1>4. OrderInv'
  <2>1. ASSUME NEW d \in Sent, Older(d) PROVE Older(d)'
    <3>1. d.by \in Producers
      BY Sizes
    <3> QED BY <3>1, <2>1, <1>0 DEF Older
  <2>2. \A q \in Producers : pc'[q] \in {"pushing", "blocked"} => done[q] < cmd'[q].n
    BY <1>0 DEF OrderInv
  <2>3. \A b \in Cells : mem[b] # NULL => mem[b] \in Sent /\ Older(mem[b])
    BY Types DEF OrderInv
  <2>4. command # NULL => command \in Sent /\ Older(command)
    BY Types DEF OrderInv
  <2>5. \A b \in Cells : mem[b] # NULL => Older(mem[b])'
    BY <2>1, <2>3
  <2>6. command # NULL => Older(command)'
    BY <2>1, <2>4
  <2> QED BY <2>2, <2>5, <2>6 DEF OrderInv, Before
<1>5. WaitInv'
  <2>1. ASSUME NEW d \in Sent, Awaited(d) PROVE Awaited(d)'
    BY <2>1, <1>0, Sizes DEF Awaited
  <2>2. \A b \in Cells : mem[b] # NULL /\ mem[b].wait => mem[b] \in Sent /\ Awaited(mem[b])
    BY Types DEF WaitInv
  <2>3. command # NULL /\ command.wait => command \in Sent /\ Awaited(command)
    BY Types DEF WaitInv
  <2> QED BY <2>1, <2>2, <2>3 DEF WaitInv
<1>6. PulseInv'
  <2>1. 0 \notin pulsed
    BY DEF TypeInv, TypeOK
  <2> QED BY <2>1, <1>0 DEF PulseInv
<1>7. NeverPollsOnCommands'
  BY DEF NeverPollsOnCommands, IsEmpty
<1> QED BY <1>1, <1>2, <1>3, <1>4, <1>5, <1>6, <1>7

\* PushCommand on a full ring: the producer is blocked on an event.
LEMMA BlockStep ==
  ASSUME IInv, NEW p \in Producers, Block(p)
  PROVE  IInv'
<1> USE DEF IInv, ring, exit, thread
<1>0. /\ pc[p] = "pushing" /\ pc'[p] = "blocked"
      /\ \A q \in Producers \ {p} : pc'[q] = pc[q]
  BY Types DEF Block
<1>1. /\ PoolInv' /\ availableEvents' \in Seq(Nat)
      /\ Range(availableEvents') \subseteq 1..created'
      /\ created' \in 0..Cardinality(Producers) /\ created <= created'
      /\ event' \in [Producers -> 0..created'] /\ event'[p] \in 1..created'
      /\ event'[p] \notin pulsed
      /\ \A q \in Producers \ {p} : event'[q] = event[q] /\ event'[p] # event[q]
  BY <1>0, Allocated, Unpulsed DEF Block
<1>2. /\ blockedProducers' = Append(blockedProducers, event'[p])
      /\ UNCHANGED <<ring, exit, thread, cmd, calls, pulsed, piped>>
  BY DEF Block
<1>3. event'[p] \notin Range(blockedProducers)
  <2>1. \A e \in Range(blockedProducers) : \E q \in Producers \ {p} : event[q] = e
    BY <1>0 DEF PulseInv
  <2> QED BY <2>1, <1>1
<1>4. /\ blockedProducers' \in Seq(Nat) /\ IsInjective(blockedProducers')
      /\ Range(blockedProducers') = Range(blockedProducers) \cup {event'[p]}
  <2>1. blockedProducers \in Seq(Nat) /\ IsInjective(blockedProducers)
    BY DEF TypeInv, PulseInv
  <2>2. event'[p] \in Nat
    BY <1>1, Types
  <2> QED BY <2>1, <2>2, <1>2, <1>3, Appended
<1>5. TypeInv'
  <2>1. TypeOK
    BY DEF TypeInv
  <2>2. pc' \in [Producers -> {"out", "pushing", "blocked", "waiting", "completed"}]
    BY Types DEF Block
  <2>3. Range(blockedProducers') \cup Range(availableEvents') \cup pulsed' \subseteq 1..created'
    <3>1. Range(blockedProducers) \cup pulsed \subseteq 1..created
      BY <2>1 DEF TypeOK
    <3>2. 1..created \subseteq 1..created'
      BY <1>1, Types
    <3> QED BY <3>1, <3>2, <1>1, <1>2, <1>4
  <2>4. TypeOK'
    BY <2>1, <2>2, <2>3, <1>1, <1>2 DEF TypeOK
  <2> QED BY <2>4, <1>0, <1>1, <1>2, <1>4 DEF TypeInv
<1>6. RingInv'
  BY <1>2 DEF RingInv, RingAssertions, Follows, Limit, IsEmpty
<1>7. OrderInv'
  <2>1. ASSUME NEW d \in Sent, Older(d) PROVE Older(d)'
    <3>1. d.by \in Producers
      BY Sizes
    <3> QED BY <3>1, <2>1, <1>0, <1>2 DEF Older
  <2>2. \A q \in Producers : pc'[q] \in {"pushing", "blocked"} => done[q] < cmd[q].n
    BY <1>0 DEF OrderInv
  <2>3. \A b \in Cells : mem[b] # NULL => mem[b] \in Sent /\ Older(mem[b])
    BY Types DEF OrderInv
  <2>4. command # NULL => command \in Sent /\ Older(command)
    BY Types DEF OrderInv
  <2>5. \A b \in Cells : mem[b] # NULL => Older(mem[b])'
    BY <2>1, <2>3, <1>2
  <2>6. command # NULL => Older(command)'
    BY <2>1, <2>4, <1>2
  <2> QED BY <2>2, <2>5, <2>6, <1>2 DEF OrderInv, Before
<1>8. WaitInv'
  <2>1. ASSUME NEW d \in Sent, Awaited(d) PROVE Awaited(d)'
    BY <2>1, <1>0, <1>1, <1>2, Sizes DEF Awaited
  <2>2. \A b \in Cells : mem[b] # NULL /\ mem[b].wait => mem[b] \in Sent /\ Awaited(mem[b])
    BY Types DEF WaitInv
  <2>3. command # NULL /\ command.wait => command \in Sent /\ Awaited(command)
    BY Types DEF WaitInv
  <2> QED BY <2>1, <2>2, <2>3, <1>2 DEF WaitInv
<1>9. PulseInv'
  <2>1. \A q \in Producers :
          /\ event'[q] = 0 => pc'[q] \in {"out", "pushing"}
          /\ event'[q] \in pulsed' =>
               pc'[q] = "blocked" \/ (pc'[q] = "waiting" /\ done'[q] = cmd'[q].n)
    BY <1>0, <1>1, <1>2 DEF PulseInv
  <2>2. \A e \in Range(blockedProducers') :
          e \notin pulsed' /\ \E q \in Producers : pc'[q] = "blocked" /\ event'[q] = e
    <3>1. ASSUME NEW e \in Range(blockedProducers)
          PROVE  e \notin pulsed /\ \E q \in Producers \ {p} : pc[q] = "blocked" /\ event[q] = e
      BY <1>0 DEF PulseInv
    <3>2. ASSUME NEW e \in Range(blockedProducers)
          PROVE  e \notin pulsed' /\ \E q \in Producers : pc'[q] = "blocked" /\ event'[q] = e
      BY <3>1, <3>2, <1>0, <1>1, <1>2
    <3>3. event'[p] \notin pulsed' /\ pc'[p] = "blocked"
      BY <1>0, <1>1, <1>2
    <3> QED BY <3>2, <3>3, <1>4
  <2> QED BY <2>1, <2>2, <1>4 DEF PulseInv
<1>10. NeverPollsOnCommands'
  BY <1>2 DEF NeverPollsOnCommands, IsEmpty
<1> QED BY <1>1, <1>5, <1>6, <1>7, <1>8, <1>9, <1>10

\* PushCommand writes the command, with an event if its producer waits.
LEMMA EnqueueStep ==
  ASSUME IInv, NEW p \in Producers, Enqueue(p)
  PROVE  IInv'
<1> USE DEF IInv, exit, thread
<1>0. /\ pc[p] = "pushing" /\ cmd[p] \in Sent /\ cmd[p].by = p /\ cmd[p].n <= calls
      /\ calls \in Nat
  BY Types DEF Enqueue, TypeInv
<1>1. /\ UNCHANGED <<exit, thread, blockedProducers, calls, pulsed>>
      /\ piped' = (piped \/ IsEmpty)
  BY DEF Enqueue, Signalled
<1>2. /\ \A q \in Producers \ {p} : pc'[q] = pc[q] /\ cmd'[q] = cmd[q]
      /\ pc' \in [Producers -> {"out", "pushing", "blocked", "waiting", "completed"}]
      /\ cmd' \in [Producers -> Sent \cup {NULL}]
      /\ \/ cmd[p].wait /\ pc'[p] = "waiting" /\ cmd'[p] = cmd[p]
         \/ ~ cmd[p].wait /\ pc'[p] = "out"
  <2>1. CASE cmd[p].wait
    BY <2>1, Types DEF Enqueue
  <2>2. CASE ~ cmd[p].wait
    BY <2>2, Types DEF Enqueue, Return
  <2> QED BY <2>1, <2>2
<1>3. /\ PoolInv' /\ availableEvents' \in Seq(Nat)
      /\ Range(availableEvents') \subseteq 1..created'
      /\ created' \in 0..Cardinality(Producers) /\ created <= created'
      /\ event' \in [Producers -> 0..created']
      /\ event'[p] \notin pulsed
      /\ \A q \in Producers \ {p} : event'[q] = event[q]
      /\ event'[p] = 0 => pc'[p] = "out"
  <2>1. CASE cmd[p].wait
    <3>1. Allocate(p, Returned(p))
      BY <2>1 DEF Enqueue
    <3> QED BY <3>1, <1>0, <1>1, <2>1, Allocated, Unpulsed
  <2>2. CASE ~ cmd[p].wait
    <3>1. /\ availableEvents' = Returned(p) /\ event' = [event EXCEPT ![p] = 0]
          /\ created' = created
      BY <2>2 DEF Enqueue
    <3>2. created \in 0..Cardinality(Producers) /\ 0 \notin pulsed
      BY DEF TypeInv, TypeOK
    <3>3. event'[p] = 0 /\ \A q \in Producers \ {p} : event'[q] = event[q]
      BY <3>1, Types
    <3>4. created <= created'
      BY <3>1, Types
    <3>5. /\ PoolInv' /\ availableEvents' \in Seq(Nat)
          /\ Range(availableEvents') \subseteq 1..created'
          /\ event' \in [Producers -> 0..created']
      BY <3>1, <1>0, <1>1, NotAllocated, Unpulsed
    <3> QED BY <3>1, <3>2, <3>3, <3>4, <3>5, <1>2, <2>2
  <2> QED BY <2>1, <2>2
<1>4. PICK c \in Sent : /\ c = [cmd[p] EXCEPT !.event = event'[p]]
                        /\ c.size = cmd[p].size /\ c.by = p /\ c.n = cmd[p].n
                        /\ c.wait = cmd[p].wait /\ c.event = event'[p]
  <2>1. event'[p] \in 0..Cardinality(Producers)
    BY <1>3, RingAssumption, FS_CardinalityType
  <2> DEFINE d == [cmd[p] EXCEPT !.event = event'[p]]
  <2>2. d \in Sent
    BY <2>1, <1>0 DEF Sent
  <2>3. /\ d.size = cmd[p].size /\ d.by = p /\ d.n = cmd[p].n
        /\ d.wait = cmd[p].wait /\ d.event = event'[p]
    BY <1>0 DEF Sent
  <2> QED BY <2>2, <2>3
<1>5. /\ Write(c)
      /\ FitsAtHead(c.size) \/ FitsAtStart(c.size)
  BY <1>4 DEF Enqueue, Fits
<1>6. /\ RingInv'
      /\ head' \in 0..Size /\ end' \in 0..Size /\ tail' = tail
      /\ mem' \in [Cells -> Sent \cup {NULL}] /\ head' # tail'
      /\ \E at \in Cells :
           /\ \A b \in Cells : mem'[b] = IF b = at THEN c ELSE mem[b]
           /\ \A b \in Cells : mem[b] # NULL => b # at /\ Before(b, at)
  <2>1. TypeOK
    BY DEF TypeInv
  <2> QED BY <2>1, <1>4, <1>5, Written
<1>7. TypeInv'
  <2>1. TypeOK
    BY DEF TypeInv
  <2>2. Range(blockedProducers') \cup Range(availableEvents') \cup pulsed' \subseteq 1..created'
    <3>1. Range(blockedProducers) \cup pulsed \subseteq 1..created
      BY <2>1 DEF TypeOK
    <3>2. 1..created \subseteq 1..created'
      BY <1>3, Types
    <3> QED BY <3>1, <3>2, <1>1, <1>3
  <2>3. piped' \in BOOLEAN
    BY <2>1, <1>1 DEF TypeOK
  <2>4. tail \in 0..Size
    BY Types
  <2>5. {head, tail, end}' \subseteq 0..Size
    BY <2>4, <1>6
  <2>6. {exitEnqueued, exitProcessed, piped}' \subseteq BOOLEAN
    BY <2>1, <2>3, <1>1 DEF TypeOK
  <2>7. TypeOK'
    BY <2>1, <2>2, <2>5, <2>6, <1>1, <1>2, <1>3, <1>6 DEF TypeOK, Cells
  <2>8. \A q \in Producers :
          /\ done'[q] <= calls'
          /\ pc'[q] # "out" => cmd'[q] # NULL /\ cmd'[q].by = q /\ cmd'[q].n <= calls'
    BY <1>0, <1>1, <1>2, Sizes DEF TypeInv
  <2> QED BY <2>7, <2>8, <1>1, <1>3 DEF TypeInv
<1>8. PICK at \in Cells : \A b \in Cells : mem'[b] # NULL =>
        \/ b = at /\ mem'[b] = c
        \/ b # at /\ mem'[b] = mem[b] /\ mem[b] # NULL /\ mem[b] \in Sent /\ Before(b, at)
  BY <1>6, Types
<1>9. OrderInv'
  <2>1. ASSUME NEW d \in Sent, Older(d)
        PROVE  Older(d)' /\ (d.by = p => d.n < c.n)
    <3>1. d.by \in Producers /\ d.n \in Nat /\ cmd[p].n \in Nat
      BY <1>0, Sizes
    <3>2. d.by = p => d.n < cmd[p].n
      BY <2>1, <1>0 DEF Older
    <3>3. d.n <= calls'
      BY <2>1, <1>1 DEF Older
    <3>4. pc'[d.by] \in {"pushing", "blocked"} => d.n < cmd'[d.by].n
      BY <3>1, <2>1, <1>2 DEF Older
    <3>5. pc'[d.by] = "waiting" => d.n <= cmd'[d.by].n
      BY <3>1, <3>2, <2>1, <1>2 DEF Older
    <3> QED BY <3>2, <3>3, <3>4, <3>5, <1>4 DEF Older
  <2>2. Older(c)' /\ done[p] < c.n
    <3>1. c.n \in Nat
      BY Sizes
    <3>2. done[p] < cmd[p].n
      BY <1>0 DEF OrderInv
    <3> QED BY <3>1, <3>2, <1>0, <1>1, <1>2, <1>4 DEF Older
  <2>3. \A b \in Cells : mem[b] # NULL => Older(mem[b]) /\ done[mem[b].by] < mem[b].n
    BY DEF OrderInv
  <2>4. command # NULL => command \in Sent /\ Older(command)
    BY Types DEF OrderInv
  <2>5. ASSUME NEW b \in Cells, mem'[b] # NULL
        PROVE  /\ Older(mem[b])' /\ done'[mem'[b].by] < mem'[b].n
               /\ command' # NULL /\ command'.by = mem'[b].by => command'.n < mem'[b].n
    <3>1. CASE mem'[b] = c
      BY <3>1, <2>1, <2>2, <2>4, <1>1, <1>4 DEF Older
    <3>2. CASE mem'[b] = mem[b] /\ mem[b] # NULL /\ mem[b] \in Sent
      <4>1. Older(mem[b])'
        BY <3>2, <2>1, <2>3 DEF Older
      <4>2. command # NULL /\ command.by = mem[b].by => command.n < mem[b].n
        BY <3>2 DEF OrderInv
      <4> QED BY <4>1, <4>2, <3>2, <2>3, <1>1
    <3> QED BY <2>5, <3>1, <3>2, <1>8
  <2>6. ASSUME NEW a \in Cells, NEW b \in Cells, mem'[a] # NULL, mem'[b] # NULL,
               Before(a, b)', mem'[a].by = mem'[b].by
        PROVE  mem'[a].n < mem'[b].n
    <3>1. Before(a, b)
      BY <2>6, <1>6 DEF Before
    <3>2. CASE b = at
      <4>1. a # at
        BY <3>1, <3>2, Types DEF Before, Cells
      <4>2. mem'[b] = c /\ mem'[a] = mem[a] /\ mem[a] # NULL /\ mem[a] \in Sent
        BY <4>1, <3>2, <2>6, <1>8
      <4>3. mem[a].by = p
        BY <4>2, <2>6, <1>4
      <4> QED BY <4>2, <4>3, <2>1, <2>3
    <3>3. CASE a = at
      <4>1. b # at => ~ Before(at, b)
        BY <2>6, <1>8, Types DEF Before, Cells
      <4> QED BY <4>1, <3>1, <3>2, <3>3
    <3>4. CASE a # at /\ b # at
      BY <3>1, <3>4, <2>6, <1>8 DEF OrderInv
    <3> QED BY <3>2, <3>3, <3>4
  <2>7. \A q \in Producers : pc'[q] \in {"pushing", "blocked"} => done'[q] < cmd'[q].n
    BY <1>1, <1>2 DEF OrderInv
  <2>8. /\ command' # NULL => Older(command)'
        /\ consumer' = "executing" => done'[command'.by] < command'.n
        /\ consumer' = "notifying" => done'[command'.by] = command'.n
    <3>1. command # NULL => Older(command)'
      BY <2>1, <2>4, <1>1 DEF Older
    <3> QED BY <3>1, <1>1 DEF OrderInv
  <2> QED BY <2>5, <2>6, <2>7, <2>8 DEF OrderInv
<1>10. WaitInv'
  <2>1. ASSUME NEW d \in Sent, Awaited(d) PROVE Awaited(d)'
    <3>1. d.by \in Producers \ {p}
      BY <2>1, <1>0, Sizes DEF Awaited
    <3> QED BY <3>1, <2>1, <1>1, <1>2, <1>3 DEF Awaited
  <2>2. c.wait => Awaited(c)'
    BY <1>1, <1>2, <1>3, <1>4 DEF Awaited
  <2>3. ASSUME NEW b \in Cells, mem'[b] # NULL /\ mem'[b].wait PROVE Awaited(mem[b])'
    <3>1. CASE mem'[b] = c
      BY <3>1, <2>2, <2>3 DEF Awaited
    <3>2. CASE mem'[b] = mem[b] /\ mem[b] # NULL /\ mem[b] \in Sent
      <4>1. Awaited(mem[b])
        BY <3>2, <2>3 DEF WaitInv
      <4> QED BY <4>1, <3>2, <2>1 DEF Awaited
    <3> QED BY <2>3, <3>1, <3>2, <1>8
  <2>4. command' # NULL /\ command'.wait => Awaited(command)'
    <3>1. command # NULL /\ command.wait => command \in Sent /\ Awaited(command)
      BY Types DEF WaitInv
    <3> QED BY <3>1, <2>1, <1>1 DEF Awaited
  <2> QED BY <2>3, <2>4 DEF WaitInv
<1>11. PulseInv'
  <2>1. \A q \in Producers :
          /\ event'[q] = 0 => pc'[q] \in {"out", "pushing"}
          /\ event'[q] \in pulsed' =>
               pc'[q] = "blocked" \/ (pc'[q] = "waiting" /\ done'[q] = cmd'[q].n)
    BY <1>1, <1>2, <1>3 DEF PulseInv
  <2>2. \A e \in Range(blockedProducers') :
          e \notin pulsed' /\ \E q \in Producers : pc'[q] = "blocked" /\ event'[q] = e
    <3>1. ASSUME NEW e \in Range(blockedProducers)
          PROVE  e \notin pulsed /\ \E q \in Producers \ {p} : pc[q] = "blocked" /\ event[q] = e
      BY <1>0 DEF PulseInv
    <3>2. ASSUME NEW e \in Range(blockedProducers)
          PROVE  e \notin pulsed' /\ \E q \in Producers : pc'[q] = "blocked" /\ event'[q] = e
      <4>1. PICK q \in Producers \ {p} : pc[q] = "blocked" /\ event[q] = e
        BY <3>1, <3>2
      <4>2. pc'[q] = "blocked" /\ event'[q] = e
        BY <4>1, <1>2, <1>3
      <4>3. e \notin pulsed'
        BY <3>1, <3>2, <1>1
      <4> QED BY <4>2, <4>3
    <3>3. blockedProducers' = blockedProducers
      BY <1>1
    <3> QED BY <3>2, <3>3
  <2>3. IsInjective(blockedProducers')
    BY <1>1 DEF PulseInv
  <2> QED BY <2>1, <2>2, <2>3 DEF PulseInv
<1>12. NeverPollsOnCommands'
  <2>1. consumer' = "polling" /\ ~ piped' => ~ piped /\ ~ IsEmpty /\ consumer = "polling"
    BY <1>1
  <2> QED BY <2>1 DEF NeverPollsOnCommands
<1> QED BY <1>3, <1>6, <1>7, <1>9, <1>10, <1>11, <1>12

\* A pulse ends the wait of the producer it was meant for.
LEMMA WaitEventStep ==
  ASSUME IInv, NEW p \in Producers, WaitEvent(p)
  PROVE  IInv'
<1> USE DEF IInv, ring, pool, exit, thread
<1>0. /\ pc[p] \in {"blocked", "waiting"} /\ event[p] \in pulsed
      /\ pulsed' = pulsed \ {event[p]}
      /\ UNCHANGED <<ring, pool, exit, thread, cmd, event, calls, piped>>
  BY DEF WaitEvent, AfterWait
<1>1. /\ \A q \in Producers \ {p} : pc'[q] = pc[q]
      /\ pc' \in [Producers -> {"out", "pushing", "blocked", "waiting", "completed"}]
      /\ \/ pc[p] = "blocked" /\ pc'[p] = "pushing"
         \/ pc[p] = "waiting" /\ pc'[p] = "completed"
  BY Types DEF WaitEvent
<1>2. TypeInv'
  <2>1. TypeOK
    BY DEF TypeInv
  <2>2. Range(blockedProducers) \cup Range(availableEvents) \cup pulsed' \subseteq 1..created
    BY <2>1, <1>0 DEF TypeOK
  <2>3. TypeOK'
    BY <2>1, <2>2, <1>0, <1>1 DEF TypeOK
  <2> QED BY <2>3, <1>0, <1>1 DEF TypeInv
<1>3. RingInv'
  BY <1>0 DEF RingInv, RingAssertions, Follows, Limit, IsEmpty
<1>4. OrderInv'
  <2>1. ASSUME NEW d \in Sent, Older(d) PROVE Older(d)'
    <3>1. d.by \in Producers
      BY Sizes
    <3> QED BY <3>1, <2>1, <1>0, <1>1 DEF Older
  <2>2. \A q \in Producers : pc'[q] \in {"pushing", "blocked"} => done[q] < cmd[q].n
    BY <1>1 DEF OrderInv
  <2>3. \A b \in Cells : mem[b] # NULL => mem[b] \in Sent /\ Older(mem[b])
    BY Types DEF OrderInv
  <2>4. command # NULL => command \in Sent /\ Older(command)
    BY Types DEF OrderInv
  <2>5. \A b \in Cells : mem[b] # NULL => Older(mem[b])'
    BY <2>1, <2>3, <1>0
  <2>6. command # NULL => Older(command)'
    BY <2>1, <2>4, <1>0
  <2> QED BY <2>2, <2>5, <2>6, <1>0 DEF OrderInv, Before
<1>5. WaitInv'
  <2>1. ASSUME NEW d \in Sent, Awaited(d) PROVE Awaited(d)'
    <3>1. d.by \in Producers \ {p}
      BY <2>1, <1>0, Sizes DEF Awaited
    <3> QED BY <3>1, <2>1, <1>0, <1>1 DEF Awaited
  <2>2. \A b \in Cells : mem[b] # NULL /\ mem[b].wait => mem[b] \in Sent /\ Awaited(mem[b])
    BY Types DEF WaitInv
  <2>3. command # NULL /\ command.wait => command \in Sent /\ Awaited(command)
    BY Types DEF WaitInv
  <2> QED BY <2>1, <2>2, <2>3, <1>0 DEF WaitInv
<1>6. PoolInv'
  BY <1>0 DEF PoolInv, EventsHaveOneOwner
<1>7. PulseInv'
  <2>1. event[p] # 0
    BY <1>0 DEF TypeInv, TypeOK
  <2>2. \A q \in Producers :
          /\ event'[q] = 0 => pc'[q] \in {"out", "pushing"}
          /\ event'[q] \in pulsed' =>
               pc'[q] = "blocked" \/ (pc'[q] = "waiting" /\ done'[q] = cmd'[q].n)
    BY <2>1, <1>0, <1>1 DEF PulseInv
  <2>3. \A e \in Range(blockedProducers) :
          e \notin pulsed' /\ \E q \in Producers : pc'[q] = "blocked" /\ event[q] = e
    <3>1. ASSUME NEW e \in Range(blockedProducers)
          PROVE  e \notin pulsed /\ \E q \in Producers \ {p} : pc[q] = "blocked" /\ event[q] = e
      BY <1>0 DEF PulseInv
    <3> QED BY <3>1, <1>0, <1>1
  <2> QED BY <2>2, <2>3, <1>0 DEF PulseInv
<1>8. NeverPollsOnCommands'
  BY <1>0 DEF NeverPollsOnCommands, IsEmpty
<1> QED BY <1>2, <1>3, <1>4, <1>5, <1>6, <1>7, <1>8

\* Whom a pulse reaches: the one producer that has the event.
LEMMA OneOwner ==
  ASSUME IInv, NEW p \in Producers, NEW q \in Producers, event[p] = event[q],
         pc[p] \in {"blocked", "waiting"}
  PROVE  p = q /\ event[p] \in 1..created /\ event[p] \notin Range(availableEvents)
<1>1. event[p] # 0
  BY DEF IInv, PulseInv
<1>2. event \in [Producers -> 0..created] /\ created \in Nat
  BY Types DEF IInv
<1>3. event[p] \in Range(event)
  BY <1>2 DEF Range
<1> QED BY <1>1, <1>2, <1>3 DEF IInv, PoolInv, EventsHaveOneOwner

\* PopCommand takes the first command and wakes the first of the blocked producers.
LEMMA PopCommandStep ==
  ASSUME IInv, PopCommand
  PROVE  IInv'
<1> USE DEF IInv, exit, caller
<1>0. /\ command' = mem[tail] /\ consumer' = "executing" /\ pulsed' = pulsed \cup Woken
      /\ command = NULL
      /\ blockedProducers' = IF blockedProducers = <<>> THEN <<>> ELSE Tail(blockedProducers)
      /\ UNCHANGED <<exit, caller, availableEvents, created, piped, done>>
  BY DEF PopCommand, TypeInv
<1>1. /\ RingInv'
      /\ head' \in 0..Size /\ end' \in 0..Size /\ tail' \in 0..Size
      /\ mem' \in [Cells -> Sent \cup {NULL}]
      /\ tail \in Cells /\ mem[tail] \in Sent
      /\ \A b \in Cells : mem'[b] # NULL => /\ mem[b] # NULL /\ mem'[b] = mem[b]
                                            /\ b # tail /\ Before(tail, b)
      /\ \A a, b \in Cells : mem'[a] # NULL /\ mem'[b] # NULL /\ Before(a, b)' => Before(a, b)
  <2>1. TypeOK /\ ~ IsEmpty /\ ReadEnd(mem[tail].size)
    BY DEF PopCommand, TypeInv
  <2> QED BY <2>1, ReadFirst
<1>2. /\ blockedProducers' \in Seq(Nat) /\ IsInjective(blockedProducers')
      /\ Range(blockedProducers) = Range(blockedProducers') \cup Woken
      /\ Range(blockedProducers') \cap Woken = {}
  <2>1. blockedProducers \in Seq(Nat) /\ IsInjective(blockedProducers)
    BY DEF TypeInv, PulseInv
  <2>2. CASE blockedProducers = <<>>
    BY <2>1, <2>2, <1>0 DEF Woken
  <2>3. CASE blockedProducers # <<>>
    BY <2>1, <2>3, <1>0, Taken DEF Woken
  <2> QED BY <2>2, <2>3
<1>3. \A e \in Range(blockedProducers) :
        /\ e \notin pulsed /\ e \in 1..created /\ e \notin Range(availableEvents)
        /\ \E p \in Producers : pc[p] = "blocked" /\ event[p] = e
        /\ \A p \in Producers : event[p] = e => pc[p] = "blocked"
  <2> SUFFICES ASSUME NEW e \in Range(blockedProducers)
               PROVE  /\ e \notin pulsed /\ e \in 1..created /\ e \notin Range(availableEvents)
                      /\ \E p \in Producers : pc[p] = "blocked" /\ event[p] = e
                      /\ \A p \in Producers : event[p] = e => pc[p] = "blocked"
    OBVIOUS
  <2>1. PICK q \in Producers : pc[q] = "blocked" /\ event[q] = e /\ e \notin pulsed
    BY DEF PulseInv
  <2>2. e \in 1..created /\ e \notin Range(availableEvents)
    BY <2>1, OneOwner
  <2>3. \A p \in Producers : event[p] = e => p = q
    BY <2>1, OneOwner
  <2> QED BY <2>1, <2>2, <2>3
<1>4. TypeInv'
  <2>1. TypeOK
    BY DEF TypeInv
  <2>2. Range(blockedProducers') \cup Range(availableEvents') \cup pulsed' \subseteq 1..created'
    <3>1. Range(blockedProducers) \cup Range(availableEvents) \cup pulsed \subseteq 1..created
      BY <2>1 DEF TypeOK
    <3> QED BY <3>1, <1>0, <1>2
  <2>3. {head, tail, end}' \subseteq 0..Size
    BY <1>1
  <2>4. consumer' \in {"popping", "polling", "executing", "notifying", "exited"}
    BY <1>0
  <2>5. TypeOK'
    BY <2>1, <2>2, <2>3, <2>4, <1>0, <1>1 DEF TypeOK, Cells
  <2>6. command' # NULL
    BY <1>0, <1>1, Sizes
  <2> QED BY <2>5, <2>6, <1>0, <1>2 DEF TypeInv
<1>5. OrderInv'
  <2>1. \A b \in Cells : mem[b] # NULL => Older(mem[b]) /\ done[mem[b].by] < mem[b].n
    BY DEF OrderInv
  <2>2. \A b \in Cells : mem'[b] # NULL =>
          /\ Older(mem[b])' /\ done'[mem'[b].by] < mem'[b].n
          /\ command'.by = mem'[b].by => command'.n < mem'[b].n
    <3> SUFFICES ASSUME NEW b \in Cells, mem'[b] # NULL
                 PROVE  /\ Older(mem[b])' /\ done'[mem'[b].by] < mem'[b].n
                        /\ command'.by = mem'[b].by => command'.n < mem'[b].n
      OBVIOUS
    <3>1. mem[b] # NULL /\ mem'[b] = mem[b] /\ Before(tail, b)
      BY <1>1
    <3>2. Older(mem[b])'
      BY <3>1, <2>1, <1>0 DEF Older
    <3>3. mem[tail] # NULL
      BY <1>1, Sizes
    <3>4. mem[tail].by = mem[b].by => mem[tail].n < mem[b].n
      BY <3>1, <3>3, <1>1 DEF OrderInv
    <3> QED BY <3>1, <3>2, <3>4, <2>1, <1>0
  <2>3. Older(command)' /\ done'[command'.by] < command'.n
    <3>1. mem[tail] # NULL
      BY <1>1, Sizes
    <3>2. Older(mem[tail]) /\ done[mem[tail].by] < mem[tail].n
      BY <3>1, <2>1, <1>1
    <3> QED BY <3>2, <1>0 DEF Older
  <2>4. \A a, b \in Cells :
          mem'[a] # NULL /\ mem'[b] # NULL /\ Before(a, b)' /\ mem'[a].by = mem'[b].by
            => mem'[a].n < mem'[b].n
    BY <1>1 DEF OrderInv
  <2>5. \A q \in Producers : pc'[q] \in {"pushing", "blocked"} => done'[q] < cmd'[q].n
    BY <1>0 DEF OrderInv
  <2> QED BY <2>2, <2>3, <2>4, <2>5, <1>0 DEF OrderInv
<1>6. WaitInv'
  <2>1. ASSUME NEW d \in Sent, Awaited(d) PROVE Awaited(d)'
    <3>1. d.event \notin Range(blockedProducers)
      BY <2>1, <1>3, Sizes DEF Awaited
    <3> QED BY <3>1, <2>1, <1>0, <1>2 DEF Awaited
  <2>2. \A b \in Cells : mem[b] # NULL /\ mem[b].wait => mem[b] \in Sent /\ Awaited(mem[b])
    BY Types DEF WaitInv
  <2>3. ASSUME NEW b \in Cells, mem'[b] # NULL /\ mem'[b].wait PROVE Awaited(mem[b])'
    <3>1. mem[b] # NULL /\ mem'[b] = mem[b]
      BY <2>3, <1>1
    <3> QED BY <3>1, <2>1, <2>2, <2>3 DEF Awaited
  <2>4. command'.wait => Awaited(command)'
    <3>1. mem[tail] # NULL
      BY <1>1, Sizes
    <3> QED BY <3>1, <2>1, <2>2, <1>0, <1>1 DEF Awaited
  <2> QED BY <2>3, <2>4 DEF WaitInv
<1>7. PoolInv'
  <2>1. Range(availableEvents) \cap (Range(event) \cup pulsed') = {}
    BY <1>0, <1>2, <1>3 DEF PoolInv, EventsHaveOneOwner
  <2> QED BY <2>1, <1>0 DEF PoolInv, EventsHaveOneOwner
<1>8. PulseInv'
  <2>1. \A q \in Producers :
          /\ event'[q] = 0 => pc'[q] \in {"out", "pushing"}
          /\ event'[q] \in pulsed' =>
               pc'[q] = "blocked" \/ (pc'[q] = "waiting" /\ done'[q] = cmd'[q].n)
    BY <1>0, <1>2, <1>3 DEF PulseInv
  <2>2. \A e \in Range(blockedProducers') :
          e \notin pulsed' /\ \E q \in Producers : pc'[q] = "blocked" /\ event'[q] = e
    BY <1>0, <1>2, <1>3
  <2> QED BY <2>1, <2>2, <1>2 DEF PulseInv
<1>9. NeverPollsOnCommands'
  BY <1>0 DEF NeverPollsOnCommands
<1> QED BY <1>1, <1>4, <1>5, <1>6, <1>7, <1>8, <1>9

\* Execute: the command is done, later than all before it of the same producer.
LEMMA ExecuteStep ==
  ASSUME IInv, Execute
  PROVE  IInv'
<1> USE DEF IInv, ring, pool, caller
<1>0. /\ consumer = "executing" /\ consumer' = "notifying"
      /\ done' = [done EXCEPT ![command.by] = command.n]
      /\ UNCHANGED <<ring, pool, caller, command, pulsed, piped, exitEnqueued>>
  BY DEF Execute
<1>1. /\ command # NULL /\ command \in Sent /\ command.by \in Producers
      /\ command.n \in 0..CallBound /\ Older(command)
      /\ done[command.by] < command.n
  <2>1. command # NULL /\ command \in Sent
    BY <1>0, Types
  <2> QED BY <2>1, <1>0, RingAssumption DEF Sent, OrderInv
<1>2. /\ done'[command.by] = command.n
      /\ \A q \in Producers \ {command.by} : done'[q] = done[q]
      /\ done' \in [Producers -> 0..CallBound]
  BY <1>0, <1>1, Types
<1>3. TypeInv'
  <2>1. TypeOK
    BY DEF TypeInv
  <2>2. exitProcessed' \in BOOLEAN
    BY <2>1, <1>1 DEF Execute, TypeOK, Sent
  <2>3. {exitEnqueued, exitProcessed, piped}' \subseteq BOOLEAN
    BY <2>1, <2>2, <1>0 DEF TypeOK
  <2>4. TypeOK'
    BY <2>1, <2>3, <1>0, <1>2 DEF TypeOK
  <2>5. \A q \in Producers : done'[q] <= calls
    BY <1>1, <1>2 DEF TypeInv, Older
  <2> QED BY <2>4, <2>5, <1>0 DEF TypeInv
<1>4. RingInv'
  BY <1>0 DEF RingInv, RingAssertions, Follows, Limit, IsEmpty
<1>5. OrderInv'
  <2>1. \A b \in Cells : mem[b] # NULL => done'[mem[b].by] < mem[b].n
    <3> SUFFICES ASSUME NEW b \in Cells, mem[b] # NULL PROVE done'[mem[b].by] < mem[b].n
      OBVIOUS
    <3>1. mem[b].by \in Producers /\ done[mem[b].by] < mem[b].n
      BY Types, Sizes DEF OrderInv
    <3>2. command.by = mem[b].by => command.n < mem[b].n
      BY <1>1 DEF OrderInv
    <3> QED BY <3>1, <3>2, <1>2
  <2>2. \A q \in Producers : pc[q] \in {"pushing", "blocked"} => done'[q] < cmd[q].n
    BY <1>1, <1>2 DEF OrderInv, Older
  <2> QED BY <2>1, <2>2, <1>0, <1>2 DEF OrderInv, Older, Before
<1>6. WaitInv'
  BY <1>0 DEF WaitInv, Awaited
<1>7. PoolInv'
  BY <1>0 DEF PoolInv, EventsHaveOneOwner
<1>8. PulseInv'
  <2>1. ASSUME NEW q \in Producers, event[q] \in pulsed, pc[q] = "waiting"
        PROVE  done'[q] = cmd[q].n
    <3>1. done[q] = cmd[q].n
      BY <2>1 DEF PulseInv
    <3>2. q # command.by
      <4>1. command.n \in Nat /\ done[command.by] \in Nat
        BY <1>1, Types
      <4> QED BY <4>1, <3>1, <2>1, <1>1 DEF Older
    <3> QED BY <3>1, <3>2, <1>2
  <2> QED BY <2>1, <1>0 DEF PulseInv
<1>9. NeverPollsOnCommands'
  BY <1>0 DEF NeverPollsOnCommands
<1> QED BY <1>3, <1>4, <1>5, <1>6, <1>7, <1>8, <1>9

\* The pulse for a completion finds the producer that waits for the command.
LEMMA NotifyStep ==
  ASSUME IInv, Notify
  PROVE  IInv'
<1> USE DEF IInv, ring, pool, exit, caller
<1>0. /\ consumer = "notifying" /\ consumer' = "popping" /\ command' = NULL
      /\ pulsed' = pulsed \cup Notified
      /\ UNCHANGED <<ring, pool, exit, caller, piped, done>>
  BY DEF Notify
<1>1. command # NULL /\ command \in Sent /\ done[command.by] = command.n
  BY <1>0, Types DEF OrderInv
<1>2. \A e \in Notified :
        /\ e \in 1..created /\ e \notin Range(availableEvents)
        /\ e \notin Range(blockedProducers)
        /\ \A q \in Producers : event[q] = e =>
             q = command.by /\ pc[q] = "waiting" /\ done[q] = cmd[q].n
  <2> SUFFICES ASSUME command.wait
               PROVE  /\ command.event \in 1..created
                      /\ command.event \notin Range(availableEvents)
                      /\ command.event \notin Range(blockedProducers)
                      /\ \A q \in Producers : event[q] = command.event =>
                           q = command.by /\ pc[q] = "waiting" /\ done[q] = cmd[q].n
    BY DEF Notified
  <2> DEFINE p == command.by
  <2>1. /\ p \in Producers /\ pc[p] = "waiting" /\ cmd[p].n = command.n
        /\ event[p] = command.event
    BY <1>1, Sizes DEF WaitInv, Awaited
  <2>2. /\ command.event \in 1..created /\ command.event \notin Range(availableEvents)
        /\ \A q \in Producers : event[q] = command.event => q = p
    BY <2>1, OneOwner
  <2>3. command.event \notin Range(blockedProducers)
    <3>1. \A e \in Range(blockedProducers) : \E q \in Producers : pc[q] = "blocked" /\ event[q] = e
      BY DEF PulseInv
    <3> QED BY <3>1, <2>1, <2>2
  <2> QED BY <2>1, <2>2, <2>3, <1>1
<1>3. TypeInv'
  <2>1. TypeOK
    BY DEF TypeInv
  <2>2. Range(blockedProducers) \cup Range(availableEvents) \cup pulsed' \subseteq 1..created
    BY <2>1, <1>0, <1>2 DEF TypeOK
  <2>3. TypeOK'
    BY <2>1, <2>2, <1>0 DEF TypeOK
  <2> QED BY <2>3, <1>0 DEF TypeInv
<1>4. RingInv'
  BY <1>0 DEF RingInv, RingAssertions, Follows, Limit, IsEmpty
<1>5. OrderInv'
  BY <1>0 DEF OrderInv, Older, Before
<1>6. WaitInv'
  <2>1. ASSUME NEW b \in Cells, mem[b] # NULL /\ mem[b].wait PROVE Awaited(mem[b])'
    <3>1. Awaited(mem[b]) /\ mem[b].by \in Producers /\ mem[b].n \in Nat
      BY <2>1, Types, Sizes DEF WaitInv
    <3>2. command.by = mem[b].by => command.n < mem[b].n
      BY <2>1, <1>1 DEF OrderInv
    <3>3. mem[b].event \notin Notified
      <4>1. SUFFICES ASSUME mem[b].event \in Notified PROVE FALSE
        OBVIOUS
      <4>2. command.by = mem[b].by /\ done[mem[b].by] = cmd[mem[b].by].n
        BY <3>1, <4>1, <1>2 DEF Awaited
      <4>3. mem[b].n = command.n
        BY <3>1, <4>2, <1>1 DEF Awaited
      <4> QED BY <3>1, <3>2, <4>2, <4>3
    <3> QED BY <3>1, <3>3, <1>0 DEF Awaited
  <2> QED BY <2>1, <1>0 DEF WaitInv
<1>7. PoolInv'
  <2>1. Range(availableEvents) \cap (Range(event) \cup pulsed') = {}
    BY <1>0, <1>2 DEF PoolInv, EventsHaveOneOwner
  <2> QED BY <2>1, <1>0 DEF PoolInv, EventsHaveOneOwner
<1>8. PulseInv'
  BY <1>0, <1>2 DEF PulseInv
<1>9. NeverPollsOnCommands'
  BY <1>0 DEF NeverPollsOnCommands
<1> QED BY <1>3, <1>4, <1>5, <1>6, <1>7, <1>8, <1>9

\* The steps of the consumer that touch neither the ring nor an event.
LEMMA IdleStep ==
  ASSUME IInv, PopNothing \/ Poll \/ Exit \/ UNCHANGED vars
  PROVE  IInv'
<1> USE DEF IInv, ring, pool, exit, caller, thread, vars
<1>1. /\ UNCHANGED <<ring, pool, exit, caller, command, pulsed, done>>
      /\ piped' = piped \/ piped' = FALSE
      /\ \/ command = NULL /\ consumer' \in {"popping", "polling", "exited"}
         \/ UNCHANGED consumer
      /\ NeverPollsOnCommands'
  <2>1. CASE PopNothing
    BY <2>1 DEF PopNothing, TypeInv, NeverPollsOnCommands, IsEmpty
  <2>2. CASE Poll
    BY <2>2 DEF Poll, TypeInv, NeverPollsOnCommands
  <2>3. CASE Exit
    BY <2>3 DEF Exit, TypeInv, NeverPollsOnCommands
  <2>4. CASE UNCHANGED vars
    BY <2>4 DEF NeverPollsOnCommands, IsEmpty
  <2> QED BY <2>1, <2>2, <2>3, <2>4
<1>2. TypeInv'
  <2>1. TypeOK
    BY DEF TypeInv
  <2>2. {exitEnqueued, exitProcessed, piped}' \subseteq BOOLEAN
    BY <2>1, <1>1 DEF TypeOK
  <2>3. consumer' \in {"popping", "polling", "executing", "notifying", "exited"}
    BY <2>1, <1>1 DEF TypeOK
  <2>4. TypeOK'
    BY <2>1, <2>2, <2>3, <1>1 DEF TypeOK
  <2> QED BY <2>4, <1>1 DEF TypeInv
<1>3. RingInv'
  BY <1>1 DEF RingInv, RingAssertions, Follows, Limit, IsEmpty
<1>4. OrderInv'
  BY <1>1 DEF OrderInv, Older, Before
<1>5. WaitInv'
  BY <1>1 DEF WaitInv, Awaited
<1>6. PoolInv' /\ PulseInv'
  BY <1>1 DEF PoolInv, EventsHaveOneOwner, PulseInv
<1> QED BY <1>1, <1>2, <1>3, <1>4, <1>5, <1>6

\* Every step of the producers and of the consumer keeps the invariant.
LEMMA Inductive == IInv /\ [Next]_vars => IInv'
<1> SUFFICES ASSUME IInv, [Next]_vars PROVE IInv'
  OBVIOUS
<1>1. ASSUME NEW p \in Producers, NEW size \in CommandSizes, NEW wait \in BOOLEAN,
             PushCall(p, size, wait)
      PROVE  IInv'
  <2> DEFINE c == NewCommand(p, size, wait, FALSE)
  <2>1. /\ c \in Sent /\ c.by = p /\ c.n = calls + 1
    <3>1. calls + 1 \in 1..CallBound
      BY <1>1, Types DEF PushCall, IInv
    <3>2. 0 \in 0..Cardinality(Producers)
      BY RingAssumption, FS_CardinalityType
    <3> QED BY <3>1, <3>2 DEF NewCommand, Sent
  <2>2. cmd' = [cmd EXCEPT ![p] = c]
    BY <1>1 DEF PushCall
  <2>3. /\ pc[p] = "out" /\ calls < CallBound /\ calls' = calls + 1
        /\ pc' = [pc EXCEPT ![p] = "pushing"]
        /\ UNCHANGED <<ring, pool, exit, thread, event, pulsed, piped>>
    BY <1>1 DEF PushCall
  <2>4. exitEnqueued' \in BOOLEAN /\ exitProcessed' = exitProcessed
    BY <2>3 DEF exit, IInv, TypeInv, TypeOK
  <2> HIDE DEF c
  <2> QED BY <2>1, <2>2, <2>3, <2>4, CallStep
<1>2. ASSUME NEW p \in Producers, PushExitCommand(p)
      PROVE  IInv'
  <2> DEFINE c == NewCommand(p, ExitSize, FALSE, TRUE)
  <2>1. /\ c \in Sent /\ c.by = p /\ c.n = calls + 1
    <3>1. calls + 1 \in 1..CallBound
      BY <1>2, Types DEF PushExitCommand, IInv
    <3>2. 0 \in 0..Cardinality(Producers)
      BY RingAssumption, FS_CardinalityType
    <3> QED BY <3>1, <3>2 DEF NewCommand, Sent, CommandSizes
  <2>2. cmd' = [cmd EXCEPT ![p] = c]
    BY <1>2 DEF PushExitCommand
  <2>3. /\ pc[p] = "out" /\ calls < CallBound /\ calls' = calls + 1
        /\ pc' = [pc EXCEPT ![p] = "pushing"]
        /\ UNCHANGED <<ring, pool, thread, event, pulsed, piped, exitProcessed>>
        /\ exitEnqueued' = TRUE
    BY <1>2 DEF PushExitCommand
  <2> HIDE DEF c
  <2> QED BY <2>1, <2>2, <2>3, CallStep
<1>3. ASSUME NEW p \in Producers, Call(p) PROVE IInv'
  BY <1>1, <1>2, <1>3 DEF Call, CommandSizes
<1>4. ASSUME NEW p \in Producers, Refuse(p) PROVE IInv'
  BY <1>4, LeaveStep DEF Refuse
<1>5. ASSUME NEW p \in Producers, FreeNotifyEvent(p) PROVE IInv'
  <2>1. event[p] # 0
    BY <1>5 DEF FreeNotifyEvent, IInv, PulseInv
  <2>2. Returned(p) = Append(availableEvents, event[p])
    BY <2>1 DEF Returned
  <2> QED BY <1>5, <2>2, LeaveStep DEF FreeNotifyEvent
<1>6. ASSUME NEW p \in Producers, Continue(p) PROVE IInv'
  BY <1>4, <1>5, <1>6, EnqueueStep, BlockStep, WaitEventStep DEF Continue
<1>7. ASSUME Run PROVE IInv'
  BY <1>7, PopCommandStep, ExecuteStep, NotifyStep, IdleStep DEF Run
<1> QED BY <1>3, <1>6, <1>7, IdleStep DEF Next

\* The invariant always holds.
LEMMA Invariance == Spec => []IInv
  BY Initially, Inductive, PTL DEF Spec

\* The ring passes its assertions through every wrap, whatever the sizes of the
\* commands, and each pooled event belongs to one producer, however many there are.
THEOREM RingAndPoolAreSound == Spec => []RingAndPool
<1>1. IInv => RingAndPool
  BY DEF IInv, TypeInv, RingInv, PoolInv, RingAndPool
<1> QED BY <1>1, Invariance, PTL

\* The consumer is never left polling an empty pipe while a command is in the ring.
THEOREM CommandsAreSignalled == Spec => []NeverPollsOnCommands
<1>1. IInv => NeverPollsOnCommands
  BY DEF IInv
<1> QED BY <1>1, Invariance, PTL

\* Whoever waits for a call returns only when that call has been executed.
THEOREM WaitingIsForExecution == Spec => WaitMeansExecuted
<1>1. ASSUME IInv, [Next]_vars
      PROVE  [\A p \in Producers :
                pc[p] = "waiting" /\ pc'[p] # "waiting" => done[p] = cmd[p].n]_vars
  <2> SUFFICES ASSUME NEW p \in Producers, pc[p] = "waiting", pc'[p] # "waiting"
               PROVE  done[p] = cmd[p].n
    OBVIOUS
  <2>1. \A q \in Producers : pc'[q] = pc[q] \/ WaitEvent(q) \/ pc[q] # "waiting"
    <3> SUFFICES ASSUME NEW q \in Producers, Next, pc[q] = "waiting"
                 PROVE  pc'[q] = pc[q] \/ WaitEvent(q)
      BY <1>1 DEF vars, caller
    <3>1. pc \in [Producers -> {"out", "pushing", "blocked", "waiting", "completed"}]
      BY <1>1, Types DEF IInv
    <3>2. ASSUME NEW r \in Producers, Call(r) PROVE pc'[q] = pc[q]
      BY <3>1, <3>2 DEF Call, PushCall, PushExitCommand
    <3>3. ASSUME NEW r \in Producers, Continue(r) PROVE pc'[q] = pc[q] \/ WaitEvent(q)
      BY <3>1, <3>3 DEF Continue, Refuse, Enqueue, Block, WaitEvent, FreeNotifyEvent, Return
    <3>4. Run => pc' = pc
      BY DEF Run, PopCommand, PopNothing, Poll, Execute, Notify, Exit, caller
    <3>5. UNCHANGED vars => pc' = pc
      BY DEF vars, caller
    <3> QED BY <3>2, <3>3, <3>4, <3>5 DEF Next
  <2>2. event[p] \in pulsed
    BY <2>1 DEF WaitEvent
  <2> QED BY <2>2, <1>1 DEF IInv, PulseInv
<1> QED BY <1>1, Invariance, PTL DEF Spec, WaitMeansExecuted
-----------------------------------------------------------------------------
(* The commands in the ring as a sequence. *)

\* The order in which blocks are read, the members of S read before the one in
\* b, and what stands in the blocks of S in that order.
Ordered(t, a, b) == IF a >= t <=> b >= t THEN a < b ELSE a >= t
AheadIn(S, t, b) == Cardinality({a \in S : Ordered(t, a, b)})
LineOf(S, t, m) == [i \in 1..Cardinality(S) |-> m[CHOOSE b \in S : AheadIn(S, t, b) = i - 1]]

\* Every place in the order is taken.
InLine(S, t) == \A i \in 1..Cardinality(S) : \E b \in S : AheadIn(S, t, b) = i - 1

\* A finite set of blocks.
IsSet(S, t) == S \in SUBSET Nat /\ IsFiniteSet(S) /\ t \in Nat

\* The order is total.
LEMMA Total ==
  ASSUME NEW t \in Nat, NEW a \in Nat, NEW b \in Nat
  PROVE  /\ ~ Ordered(t, a, a)
         /\ a # b => (Ordered(t, a, b) <=> ~ Ordered(t, b, a))
         /\ \A c \in Nat : Ordered(t, a, b) /\ Ordered(t, b, c) => Ordered(t, a, c)
  BY DEF Ordered

\* Who is ahead can be counted.
LEMMA AheadFinite ==
  ASSUME NEW S, NEW t, IsSet(S, t), NEW b \in S
  PROVE  /\ IsFiniteSet({a \in S : Ordered(t, a, b)})
         /\ AheadIn(S, t, b) \in 0..Cardinality(S) - 1 /\ AheadIn(S, t, b) \in Nat
<1> DEFINE A == {a \in S : Ordered(t, a, b)}
<1>1. IsFiniteSet(S) /\ A \in SUBSET S
  BY DEF IsSet
<1>2. b \in S /\ b \notin A
  BY Total DEF IsSet
<1> HIDE DEF A
<1>3. IsFiniteSet(A) /\ Cardinality(A) <= Cardinality(S) /\ Cardinality(S) # Cardinality(A)
  BY <1>1, <1>2, FS_Subset
<1>4. Cardinality(A) \in Nat /\ Cardinality(S) \in Nat
  BY <1>1, <1>3, FS_CardinalityType
<1>5. Cardinality(A) \in 0..Cardinality(S) - 1
  BY <1>3, <1>4
<1> QED BY <1>3, <1>4, <1>5 DEF A, AheadIn

\* More are ahead of who comes later.
LEMMA AheadLess ==
  ASSUME NEW S, NEW t, IsSet(S, t), NEW a \in S, NEW b \in S, Ordered(t, a, b)
  PROVE  AheadIn(S, t, a) < AheadIn(S, t, b)
<1> DEFINE A == {c \in S : Ordered(t, c, a)}
           B == {c \in S : Ordered(t, c, b)}
<1>1. A \in SUBSET B /\ a \in B /\ a \notin A
  BY Total DEF IsSet
<1>2. IsFiniteSet(A) /\ IsFiniteSet(B)
  BY AheadFinite
<1> HIDE DEF A, B
<1>3. Cardinality(A) <= Cardinality(B) /\ Cardinality(A) # Cardinality(B)
  BY <1>1, <1>2, FS_Subset
<1>4. Cardinality(A) \in Nat /\ Cardinality(B) \in Nat
  BY <1>2, FS_CardinalityType
<1>5. Cardinality(A) < Cardinality(B)
  BY <1>3, <1>4
<1> QED BY <1>5 DEF A, B, AheadIn

\* A place has one block.
LEMMA AheadOnce ==
  ASSUME NEW S, NEW t, IsSet(S, t), NEW a \in S, NEW b \in S, AheadIn(S, t, a) = AheadIn(S, t, b)
  PROVE  a = b
<1> SUFFICES ASSUME a # b PROVE FALSE
  OBVIOUS
<1>1. Ordered(t, a, b) \/ Ordered(t, b, a)
  BY Total DEF IsSet
<1>2. AheadIn(S, t, a) \in Nat
  BY AheadFinite
<1>3. Ordered(t, a, b) => AheadIn(S, t, a) < AheadIn(S, t, b)
  BY AheadLess
<1>4. Ordered(t, b, a) => AheadIn(S, t, b) < AheadIn(S, t, a)
  BY AheadLess
<1> QED BY <1>1, <1>2, <1>3, <1>4

\* What stands at a place.
LEMMA Stands ==
  ASSUME NEW S, NEW t, NEW m, IsSet(S, t), NEW b \in S, NEW i \in 1..Cardinality(S),
         AheadIn(S, t, b) = i - 1
  PROVE  LineOf(S, t, m)[i] = m[b]
<1> DEFINE c == CHOOSE c \in S : AheadIn(S, t, c) = i - 1
<1>1. c \in S /\ AheadIn(S, t, c) = i - 1
  OBVIOUS
<1>2. LineOf(S, t, m)[i] = m[c]
  BY DEF LineOf
<1> HIDE DEF c
<1>3. c = b
  BY <1>1, AheadOnce
<1> QED BY <1>2, <1>3

\* It is a sequence.
LEMMA LineType ==
  ASSUME NEW S, NEW t, NEW m, NEW V, IsSet(S, t), InLine(S, t), \A b \in S : m[b] \in V
  PROVE  /\ Cardinality(S) \in Nat
         /\ LineOf(S, t, m) \in Seq(V) /\ Len(LineOf(S, t, m)) = Cardinality(S)
<1>1. Cardinality(S) \in Nat
  BY FS_CardinalityType DEF IsSet
<1>2. \A i \in 1..Cardinality(S) : LineOf(S, t, m)[i] \in V
  <2> SUFFICES ASSUME NEW i \in 1..Cardinality(S) PROVE LineOf(S, t, m)[i] \in V
    OBVIOUS
  <2>1. PICK b \in S : AheadIn(S, t, b) = i - 1
    BY DEF InLine
  <2>2. LineOf(S, t, m)[i] = m[b]
    BY <2>1, Stands
  <2> QED BY <2>2
<1>3. LineOf(S, t, m) \in [1..Cardinality(S) -> V]
  BY <1>2 DEF LineOf
<1> QED BY <1>1, <1>3

\* T is S with n, which is read after all others; S holds what m holds there.
Appends(S, T, t, m, g, V, n) ==
  /\ n \in Nat /\ n \notin S /\ T = S \cup {n}
  /\ IsSet(S, t) /\ InLine(S, t)
  /\ \A b \in S : Ordered(t, b, n)
  /\ \A b \in S : g[b] = m[b]
  /\ \A b \in T : g[b] \in V

\* A block that is read after all others is the last.
LEMMA LineAppended ==
  ASSUME NEW S, NEW T, NEW t, NEW m, NEW g, NEW V, NEW n, Appends(S, T, t, m, g, V, n)
  PROVE  /\ IsSet(T, t) /\ InLine(T, t)
         /\ LineOf(T, t, g) = Append(LineOf(S, t, m), g[n])
<1> USE DEF Appends
<1> DEFINE k == Cardinality(S)
           s == LineOf(S, t, m)
           u == LineOf(T, t, g)
<1>1. IsSet(T, t) /\ Cardinality(T) = k + 1 /\ k \in Nat
  <2>1. IsFiniteSet(S)
    BY DEF IsSet
  <2>2. IsFiniteSet(T) /\ Cardinality(T) = k + 1 /\ k \in Nat
    BY <2>1, FS_AddElement, FS_CardinalityType
  <2> QED BY <2>2 DEF IsSet
<1>2. \A b \in S : AheadIn(T, t, b) = AheadIn(S, t, b)
  <2> SUFFICES ASSUME NEW b \in S PROVE AheadIn(T, t, b) = AheadIn(S, t, b)
    OBVIOUS
  <2>1. ~ Ordered(t, n, b)
    BY Total DEF IsSet
  <2>2. {a \in T : Ordered(t, a, b)} = {a \in S : Ordered(t, a, b)}
    BY <2>1
  <2> QED BY <2>2 DEF AheadIn
<1>3. AheadIn(T, t, n) = k
  <2>1. ~ Ordered(t, n, n)
    BY Total DEF IsSet
  <2>2. {a \in T : Ordered(t, a, n)} = S
    BY <2>1
  <2> QED BY <2>2 DEF AheadIn
<1>4. \A i \in 1..k : \E b \in S : AheadIn(S, t, b) = i - 1 /\ AheadIn(T, t, b) = i - 1
  BY <1>2 DEF InLine
<1>5. InLine(T, t)
  <2> SUFFICES ASSUME NEW i \in 1..k + 1 PROVE \E b \in T : AheadIn(T, t, b) = i - 1
    BY <1>1 DEF InLine
  <2>1. CASE i = k + 1
    BY <1>1, <1>3, <2>1
  <2>2. CASE i # k + 1
    <3>1. i \in 1..k
      BY <1>1, <2>2
    <3> QED BY <1>4, <3>1
  <2> QED BY <2>1, <2>2
<1>6. s \in Seq(V) /\ Len(s) = k
  BY LineType
<1>7. u \in Seq(V) /\ Len(u) = k + 1
  BY <1>1, <1>5, LineType
<1>8. ASSUME NEW i \in 1..k PROVE u[i] = s[i]
  <2>1. PICK b \in S : AheadIn(S, t, b) = i - 1 /\ AheadIn(T, t, b) = i - 1
    BY <1>4
  <2>2. s[i] = m[b]
    BY <2>1, Stands
  <2>3. i \in 1..Cardinality(T) /\ b \in T
    BY <1>1
  <2>4. u[i] = g[b]
    BY <1>1, <2>1, <2>3, Stands
  <2> QED BY <2>2, <2>4
<1>9. u[k + 1] = g[n]
  <2>1. k + 1 \in 1..Cardinality(T) /\ n \in T /\ AheadIn(T, t, n) = (k + 1) - 1
    BY <1>1, <1>3
  <2> QED BY <1>1, <2>1, Stands
<1> HIDE DEF s, u, k
<1>10. g[n] \in V
  OBVIOUS
<1>11. u = Append(s, g[n])
  BY <1>1, <1>6, <1>7, <1>8, <1>9, <1>10
<1> QED BY <1>1, <1>5, <1>11 DEF s, u

\* T is S without f, which is read before all others.
Takes(S, T, t, r, m, g, V, f) ==
  /\ f \in Nat /\ f \notin T /\ S = T \cup {f}
  /\ IsSet(S, t) /\ InLine(S, t) /\ IsSet(T, r)
  /\ \A b \in T : Ordered(t, f, b)
  /\ \A a, b \in T : Ordered(r, a, b) => Ordered(t, a, b)
  /\ \A b \in T : g[b] = m[b]
  /\ \A b \in S : m[b] \in V

\* The block that is read before all others is the first.
LEMMA LineTaken ==
  ASSUME NEW S, NEW T, NEW t, NEW r, NEW m, NEW g, NEW V, NEW f, Takes(S, T, t, r, m, g, V, f)
  PROVE  /\ InLine(T, r)
         /\ LineOf(S, t, m) # <<>>
         /\ Head(LineOf(S, t, m)) = m[f]
         /\ LineOf(T, r, g) = Tail(LineOf(S, t, m))
<1> USE DEF Takes
<1> DEFINE k == Cardinality(T)
           s == LineOf(S, t, m)
           u == LineOf(T, r, g)
<1>1. Cardinality(S) = k + 1 /\ k \in Nat
  <2>1. IsFiniteSet(T)
    BY DEF IsSet
  <2> QED BY <2>1, FS_AddElement, FS_CardinalityType
<1>2. ASSUME NEW a \in T, NEW b \in T PROVE Ordered(t, a, b) <=> Ordered(r, a, b)
  BY Total DEF IsSet
<1>3. ASSUME NEW b \in T
      PROVE  AheadIn(S, t, b) = AheadIn(T, r, b) + 1 /\ AheadIn(T, r, b) \in 0..k - 1
  <2> DEFINE A == {a \in T : Ordered(r, a, b)}
  <2>1. {a \in S : Ordered(t, a, b)} = A \cup {f}
    BY <1>2
  <2>2. IsFiniteSet(A) /\ AheadIn(T, r, b) \in 0..k - 1
    BY AheadFinite
  <2>3. f \notin A
    OBVIOUS
  <2> HIDE DEF A
  <2>4. Cardinality(A \cup {f}) = Cardinality(A) + 1
    BY <2>2, <2>3, FS_AddElement
  <2> QED BY <2>1, <2>2, <2>4 DEF A, AheadIn
<1>4. AheadIn(S, t, f) = 0
  <2>1. \A b \in T : ~ Ordered(t, b, f)
    BY Total DEF IsSet
  <2>2. ~ Ordered(t, f, f)
    BY Total DEF IsSet
  <2>3. {a \in S : Ordered(t, a, f)} = {}
    BY <2>1, <2>2
  <2> QED BY <2>3, FS_EmptySet DEF AheadIn
<1>5. ASSUME NEW i \in 1..k
      PROVE  \E b \in T : AheadIn(T, r, b) = i - 1 /\ AheadIn(S, t, b) = (i + 1) - 1
  <2>1. i + 1 \in 1..Cardinality(S)
    BY <1>1
  <2>2. PICK b \in S : AheadIn(S, t, b) = (i + 1) - 1
    BY <2>1 DEF InLine
  <2>3. AheadIn(S, t, b) # 0
    BY <2>2, <1>1
  <2>4. b \in T
    BY <1>4, <2>3
  <2>5. AheadIn(S, t, b) = AheadIn(T, r, b) + 1 /\ AheadIn(T, r, b) \in 0..k - 1
    BY <1>3, <2>4
  <2>6. AheadIn(T, r, b) = i - 1
    <3> DEFINE x == AheadIn(T, r, b)
    <3>1. x + 1 = (i + 1) - 1 /\ x \in 0..k - 1
      BY <2>2, <2>5
    <3> HIDE DEF x, k
    <3>2. x = i - 1
      BY <1>1, <3>1
    <3> QED BY <3>2 DEF x
  <2> QED BY <2>2, <2>4, <2>6
<1>6. InLine(T, r)
  BY <1>5 DEF InLine
<1>7. s \in Seq(V) /\ Len(s) = k + 1
  BY <1>1, LineType
<1>8. u \in Seq(V) /\ Len(u) = k
  <2>1. \A b \in T : g[b] \in V
    OBVIOUS
  <2> QED BY <1>6, <2>1, LineType
<1>9. s[1] = m[f]
  <2>1. 1 \in 1..Cardinality(S) /\ f \in S /\ AheadIn(S, t, f) = 1 - 1
    BY <1>1, <1>4
  <2> QED BY <2>1, Stands
<1>10. ASSUME NEW i \in 1..k PROVE u[i] = s[i + 1]
  <2>1. PICK b \in T : AheadIn(T, r, b) = i - 1 /\ AheadIn(S, t, b) = (i + 1) - 1
    BY <1>5
  <2>2. u[i] = g[b]
    BY <2>1, Stands
  <2>3. i + 1 \in 1..Cardinality(S) /\ b \in S
    BY <1>1
  <2>4. s[i + 1] = m[b]
    BY <2>1, <2>3, Stands
  <2> QED BY <2>2, <2>4
<1> HIDE DEF s, u, k
<1>11. s # <<>> /\ Head(s) = s[1]
  BY <1>1, <1>7
<1>12. u = Tail(s)
  BY <1>1, <1>7, <1>8, <1>10, <1>11
<1> QED BY <1>6, <1>9, <1>11, <1>12 DEF s, u
-----------------------------------------------------------------------------
(* The exit command. *)

\* Where the exit command can be: with its producer, in the ring, in hand.
Sending(p) == pc[p] # "out" /\ cmd[p].exit
InRing(b) == mem[b] # NULL /\ mem[b].exit
InHand == command # NULL /\ command.exit

\* There is one, and it is behind all other commands.
ExitInv ==
  /\ (\E p \in Producers : Sending(p)) \/ (\E b \in Cells : InRing(b)) \/ InHand \/ exitProcessed
       => exitEnqueued
  /\ \A p \in Producers : Sending(p) =>
       /\ ~ cmd[p].wait /\ \A q \in Producers : Sending(q) => q = p
       /\ \A b \in Cells : ~ InRing(b)
       /\ ~ InHand /\ ~ exitProcessed
  /\ \A b \in Cells : InRing(b) =>
       /\ \A a \in Cells : mem[a] # NULL => a = b \/ Before(a, b)
       /\ ~ InHand /\ ~ exitProcessed
  /\ InHand \/ exitProcessed => \A b \in Cells : mem[b] = NULL
  /\ consumer = "executing" => ~ exitProcessed
  /\ consumer = "exited" => exitProcessed

\* There is room where a command is written.
LEMMA Room ==
  ASSUME TypeOK, RingInv, NEW n \in Nat \ {0}, FitsAtHead(n) \/ FitsAtStart(n),
         NEW b \in Cells, mem[b] # NULL
  PROVE  b + mem[b].size <= Place(n) \/ b >= Place(n) + n
<1>1. /\ head \in Nat /\ tail \in Nat /\ end \in Nat /\ Size \in Nat /\ b \in Nat
      /\ mem[b].size \in Nat \ {0}
  BY RingType, Sizes DEF Cells
<1>2. \/ b >= tail /\ b + mem[b].size <= Limit
      \/ head < tail /\ b + mem[b].size <= head
  BY DEF RingInv, Follows
<1>3. /\ Place(n) = IF FitsAtHead(n) THEN head ELSE 0
      /\ FitsAtHead(n) <=> IF head >= tail THEN n <= Size - head ELSE n < tail - head
      /\ FitsAtHead(n) \/ (head >= tail /\ n < tail)
  BY DEF Place, FitsAtHead, FitsAtStart
<1>4. CASE FitsAtHead(n) /\ head >= tail
  BY <1>1, <1>2, <1>3, <1>4 DEF Limit
<1>5. CASE FitsAtHead(n) /\ ~ head >= tail
  BY <1>1, <1>2, <1>3, <1>5 DEF Limit
<1>6. CASE ~ FitsAtHead(n)
  BY <1>1, <1>2, <1>3, <1>6 DEF Limit
<1> QED BY <1>4, <1>5, <1>6

\* What Enqueue puts into the ring.
LEMMA Enqueued ==
  ASSUME IInv, IInv', NEW p \in Producers, Enqueue(p)
  PROVE  /\ cmd[p] \in Sent /\ pc[p] = "pushing" /\ tail' = tail
         /\ UNCHANGED <<exit, thread, blockedProducers>>
         /\ \A q \in Producers : q # p => pc'[q] = pc[q] /\ cmd'[q] = cmd[q]
         /\ cmd[p].wait \/ pc'[p] = "out"
         /\ cmd'[p] = cmd[p] \/ pc'[p] = "out"
         /\ \E c \in Sent, at \in Cells :
              /\ c.n = cmd[p].n /\ c.exit = cmd[p].exit
              /\ \A b \in Cells : mem[b] # NULL => b + mem[b].size <= at \/ b >= at + c.size
              /\ \A b \in Cells : mem'[b] = IF b = at THEN c ELSE mem[b]
              /\ \A b \in Cells : mem[b] # NULL => b # at /\ Before(b, at)
<1>1. /\ pc[p] = "pushing" /\ cmd[p] \in Sent /\ TypeOK /\ RingInv
      /\ UNCHANGED <<exit, thread, blockedProducers>>
  BY Types DEF Enqueue, IInv, TypeInv
<1>2. event'[p] \in 0..Cardinality(Producers)
  <2>1. created' \in 0..Cardinality(Producers) /\ event' \in [Producers -> 0..created']
    BY DEF IInv, TypeInv, TypeOK
  <2>2. Cardinality(Producers) \in Nat
    BY RingAssumption, FS_CardinalityType
  <2> QED BY <2>1, <2>2
<1> DEFINE c == [cmd[p] EXCEPT !.event = event'[p]]
<1>3. /\ c \in Sent /\ c.n = cmd[p].n /\ c.exit = cmd[p].exit /\ c.size = cmd[p].size
  BY <1>1, <1>2 DEF Sent
<1>4. Write(c) /\ (FitsAtHead(c.size) \/ FitsAtStart(c.size))
  BY <1>3 DEF Enqueue, Fits
<1>5. /\ \A q \in Producers : q # p => pc'[q] = pc[q] /\ cmd'[q] = cmd[q]
      /\ cmd[p].wait \/ pc'[p] = "out"
      /\ cmd'[p] = cmd[p] \/ pc'[p] = "out"
  <2>1. CASE cmd[p].wait
    BY <2>1, Types DEF Enqueue, IInv
  <2>2. CASE ~ cmd[p].wait
    BY <2>2, Types DEF Enqueue, Return, IInv
  <2> QED BY <2>1, <2>2
<1> HIDE DEF c
<1>6. /\ tail' = tail /\ Place(c.size) \in Cells
      /\ \A b \in Cells : mem'[b] = IF b = Place(c.size) THEN c ELSE mem[b]
      /\ \A b \in Cells : mem[b] # NULL => b # Place(c.size) /\ Before(b, Place(c.size))
  BY <1>1, <1>3, <1>4, Written
<1>7. \A b \in Cells : mem[b] # NULL =>
        b + mem[b].size <= Place(c.size) \/ b >= Place(c.size) + c.size
  BY <1>1, <1>3, <1>4, Sizes, Room
<1> QED BY <1>1, <1>3, <1>5, <1>6, <1>7

\* What PopCommand takes out.
LEMMA Popped ==
  ASSUME IInv, PopCommand
  PROVE  /\ consumer = "popping" /\ ~ exitProcessed /\ command = NULL
         /\ command' = mem[tail] /\ consumer' = "executing"
         /\ UNCHANGED <<exit, caller>>
         /\ tail \in Cells /\ tail' \in 0..Size /\ mem[tail] \in Sent
         /\ \A b \in Cells : mem'[b] # NULL => /\ mem[b] # NULL /\ mem'[b] = mem[b]
                                               /\ b # tail /\ Before(tail, b)
         /\ \A a, b \in Cells : mem'[a] # NULL /\ mem'[b] # NULL /\ Before(a, b)' => Before(a, b)
<1>1. TypeOK /\ RingInv /\ ~ IsEmpty /\ ReadEnd(mem[tail].size)
  BY DEF PopCommand, IInv, TypeInv
<1>2. /\ tail \in Cells /\ tail' \in 0..Size /\ mem[tail] \in Sent
      /\ \A b \in Cells : mem'[b] # NULL => /\ mem[b] # NULL /\ mem'[b] = mem[b]
                                            /\ b # tail /\ Before(tail, b)
      /\ \A a, b \in Cells : mem'[a] # NULL /\ mem'[b] # NULL /\ Before(a, b)' => Before(a, b)
  BY <1>1, ReadFirst
<1>3. command = NULL
  BY DEF PopCommand, IInv, TypeInv
<1> QED BY <1>2, <1>3 DEF PopCommand

\* Before is the order of the blocks from tail.
LEMMA BeforeOrdered ==
  /\ \A a, b : Before(a, b) <=> Ordered(tail, a, b)
  /\ \A a, b : Before(a, b)' <=> Ordered(tail', a, b)
  BY DEF Before, Ordered

\* Of two blocks one is read first.
LEMMA OneFirst ==
  ASSUME IInv, NEW a \in Cells, NEW b \in Cells, Before(a, b)
  PROVE  ~ Before(b, a) /\ a # b
<1>1. tail \in Nat /\ a \in Nat /\ b \in Nat
  BY Types DEF IInv, Cells
<1> QED BY <1>1, BeforeOrdered, Total

\* Producers go on without the ring, and no other sends the exit command.
LEMMA ExitKept ==
  ASSUME IInv, ExitInv, UNCHANGED <<mem, tail, exit, consumer, command>>,
         \A q \in Producers : Sending(q)' => Sending(q) /\ cmd'[q] = cmd[q]
  PROVE  ExitInv'
<1>1. \A b \in Cells : InRing(b)' <=> InRing(b)
  BY DEF InRing
<1>2. (InHand' <=> InHand) /\ exitProcessed' = exitProcessed /\ exitEnqueued' = exitEnqueued
  BY DEF InHand, exit
<1>3. \A a, b : Before(a, b)' <=> Before(a, b)
  BY DEF Before
<1> QED BY <1>1, <1>2, <1>3 DEF ExitInv

\* PushExitCommand makes the one exit command.
LEMMA ExitMade ==
  ASSUME IInv, ExitInv, NEW p \in Producers, PushExitCommand(p)
  PROVE  ExitInv'
<1>1. /\ ~ exitEnqueued /\ exitEnqueued' = TRUE /\ exitProcessed' = exitProcessed
      /\ UNCHANGED <<mem, tail, consumer, command>>
      /\ cmd'[p] = NewCommand(p, ExitSize, FALSE, TRUE)
      /\ \A q \in Producers : q # p => cmd'[q] = cmd[q] /\ pc'[q] = pc[q]
  BY Types DEF PushExitCommand, IInv, ring, thread
<1>2. cmd'[p].exit /\ ~ cmd'[p].wait
  BY <1>1 DEF NewCommand
<1>3. /\ \A q \in Producers : ~ Sending(q)
      /\ \A b \in Cells : ~ InRing(b)
      /\ ~ InHand /\ ~ exitProcessed
  BY <1>1 DEF ExitInv
<1>4. /\ \A q \in Producers : Sending(q)' => q = p
      /\ \A b \in Cells : ~ InRing(b)'
      /\ ~ InHand' /\ ~ exitProcessed'
  BY <1>1, <1>3 DEF Sending, InRing, InHand
<1> QED BY <1>1, <1>2, <1>4 DEF ExitInv

\* The exit command is enqueued behind all others, and none behind it.
LEMMA ExitEnqueued ==
  ASSUME IInv, IInv', ExitInv, NEW p \in Producers, Enqueue(p)
  PROVE  ExitInv'
<1>1. /\ cmd[p] \in Sent /\ pc[p] = "pushing" /\ tail' = tail
      /\ UNCHANGED <<exit, thread>>
      /\ \A q \in Producers : q # p => pc'[q] = pc[q] /\ cmd'[q] = cmd[q]
      /\ cmd[p].wait \/ pc'[p] = "out"
      /\ cmd'[p] = cmd[p] \/ pc'[p] = "out"
  BY Enqueued
<1>2. PICK c \in Sent, at \in Cells :
        /\ c.exit = cmd[p].exit
        /\ \A b \in Cells : mem'[b] = IF b = at THEN c ELSE mem[b]
        /\ \A b \in Cells : mem[b] # NULL => b # at /\ Before(b, at)
  BY Enqueued
<1>3. c # NULL
  BY Sizes
<1>4. /\ exitProcessed' = exitProcessed /\ exitEnqueued' = exitEnqueued
      /\ consumer' = consumer /\ (InHand' <=> InHand)
  BY <1>1 DEF exit, thread, InHand
<1>5. \A a, b : Before(a, b)' <=> Before(a, b)
  BY <1>1 DEF Before
<1>6. CASE cmd[p].exit
  <2>1. Sending(p)
    BY <1>1, <1>6 DEF Sending
  <2>2. /\ exitEnqueued /\ ~ cmd[p].wait /\ ~ InHand /\ ~ exitProcessed
        /\ \A b \in Cells : ~ InRing(b)
        /\ \A q \in Producers : q # p => ~ Sending(q)
    BY <2>1 DEF ExitInv
  <2>3. \A q \in Producers : ~ Sending(q)'
    BY <1>1, <2>2 DEF Sending
  <2>4. \A b \in Cells : InRing(b)' => b = at
    BY <1>2, <2>2 DEF InRing
  <2>5. \A a \in Cells : mem'[a] # NULL => a = at \/ Before(a, at)'
    BY <1>2, <1>5
  <2> QED BY <1>4, <2>2, <2>3, <2>4, <2>5 DEF ExitInv
<1>7. CASE ~ cmd[p].exit
  <2>1. ~ exitEnqueued
    BY <1>7 DEF Enqueue, Refused
  <2>2. /\ \A q \in Producers : ~ Sending(q)
        /\ \A b \in Cells : ~ InRing(b)
        /\ ~ InHand /\ ~ exitProcessed
    BY <2>1 DEF ExitInv
  <2>3. \A q \in Producers : ~ Sending(q)'
    BY <1>1, <1>7, <2>2 DEF Sending
  <2>4. \A b \in Cells : ~ InRing(b)'
    BY <1>2, <1>7, <2>2 DEF InRing
  <2> QED BY <1>4, <2>2, <2>3, <2>4 DEF ExitInv
<1> QED BY <1>6, <1>7

\* The exit command is taken when the ring holds no other.
LEMMA ExitPopped ==
  ASSUME IInv, IInv', ExitInv, PopCommand
  PROVE  ExitInv'
<1>1. /\ ~ exitProcessed /\ command = NULL /\ command' = mem[tail] /\ consumer' = "executing"
      /\ UNCHANGED <<exit, caller>> /\ tail \in Cells /\ mem[tail] \in Sent
      /\ \A b \in Cells : mem'[b] # NULL => /\ mem[b] # NULL /\ mem'[b] = mem[b]
                                            /\ b # tail /\ Before(tail, b)
      /\ \A a, b \in Cells : mem'[a] # NULL /\ mem'[b] # NULL /\ Before(a, b)' => Before(a, b)
  BY Popped
<1>2. /\ exitProcessed' = exitProcessed /\ exitEnqueued' = exitEnqueued
      /\ \A q \in Producers : (Sending(q)' <=> Sending(q)) /\ cmd'[q] = cmd[q]
  BY <1>1 DEF exit, caller, Sending
<1>3. \A b \in Cells : InRing(b)' => InRing(b)
  BY <1>1 DEF InRing
<1>4. InHand' => InRing(tail)
  BY <1>1, Sizes DEF InHand, InRing
<1>5. ASSUME InHand' PROVE \A b \in Cells : mem'[b] = NULL
  <2> SUFFICES ASSUME NEW b \in Cells, mem'[b] # NULL PROVE FALSE
    OBVIOUS
  <2>1. mem[b] # NULL /\ b # tail /\ Before(tail, b)
    BY <1>1
  <2>2. Before(b, tail)
    BY <1>1, <1>4, <1>5, <2>1 DEF ExitInv
  <2> QED BY <1>1, <2>1, <2>2, OneFirst
<1>6. ASSUME NEW b \in Cells, InRing(b)', NEW a \in Cells, mem'[a] # NULL, a # b
      PROVE  Before(a, b)'
  <2>1. mem'[b] # NULL
    BY <1>6 DEF InRing
  <2>2. Before(a, b)
    BY <1>1, <1>3, <1>6 DEF ExitInv
  <2>3. ~ Before(b, a)'
    BY <1>1, <1>6, <2>1, <2>2, OneFirst
  <2>4. tail' \in Nat /\ a \in Nat /\ b \in Nat
    BY Popped, Types DEF IInv, Cells
  <2> QED BY <1>6, <2>3, <2>4, BeforeOrdered, Total
<1>7. \A b \in Cells : InRing(b)' => ~ InHand'
  BY <1>5 DEF InRing
<1>8. \A q \in Producers : Sending(q) => ~ InHand'
  BY <1>1, <1>4 DEF ExitInv
<1>9. InHand' => exitEnqueued
  BY <1>1, <1>4 DEF ExitInv
<1>10. /\ (\E q \in Producers : Sending(q)') \/ (\E b \in Cells : InRing(b)') \/ InHand'
          \/ exitProcessed' => exitEnqueued'
  BY <1>2, <1>3, <1>9 DEF ExitInv
<1>11. \A q \in Producers : Sending(q)' =>
         /\ ~ cmd'[q].wait /\ \A r \in Producers : Sending(r)' => r = q
         /\ \A b \in Cells : ~ InRing(b)'
         /\ ~ InHand' /\ ~ exitProcessed'
  BY <1>2, <1>3, <1>8 DEF ExitInv
<1>12. \A b \in Cells : InRing(b)' =>
         /\ \A a \in Cells : mem'[a] # NULL => a = b \/ Before(a, b)'
         /\ ~ InHand' /\ ~ exitProcessed'
  BY <1>1, <1>2, <1>6, <1>7
<1> QED BY <1>1, <1>2, <1>5, <1>10, <1>11, <1>12 DEF ExitInv

\* The consumer executes the exit command and ends.
LEMMA ExitRun ==
  ASSUME IInv, ExitInv, PopNothing \/ Poll \/ Execute \/ Notify \/ Exit
  PROVE  ExitInv'
<1>1. /\ UNCHANGED <<mem, tail, caller, exitEnqueued>>
  BY DEF PopNothing, Poll, Execute, Notify, Exit, ring, exit
<1>2. /\ \A q \in Producers : (Sending(q)' <=> Sending(q)) /\ cmd'[q] = cmd[q]
      /\ \A b \in Cells : InRing(b)' <=> InRing(b)
      /\ \A a, b : Before(a, b)' <=> Before(a, b)
      /\ mem' = mem /\ exitEnqueued' = exitEnqueued
  BY <1>1 DEF Sending, InRing, Before, caller
<1>3. InHand' \/ exitProcessed' => InHand \/ exitProcessed
  BY DEF PopNothing, Poll, Execute, Notify, Exit, exit, InHand, IInv, TypeInv
<1>4. /\ consumer' = "executing" => ~ exitProcessed'
      /\ consumer' = "exited" => exitProcessed'
  BY DEF PopNothing, Poll, Execute, Notify, Exit, exit
<1> QED BY <1>2, <1>3, <1>4 DEF ExitInv

\* Every step keeps the exit command last.
LEMMA ExitStep ==
  ASSUME IInv, IInv', ExitInv, [Next]_vars
  PROVE  ExitInv'
<1>0. /\ pc \in [Producers -> {"out", "pushing", "blocked", "waiting", "completed"}]
      /\ cmd \in [Producers -> Sent \cup {NULL}]
  BY Types DEF IInv
<1>1. ASSUME NEW p \in Producers, NEW size, NEW wait, PushCall(p, size, wait) PROVE ExitInv'
  <2>1. /\ UNCHANGED <<mem, tail, exit, consumer, command>>
        /\ cmd'[p] = NewCommand(p, size, wait, FALSE)
        /\ \A q \in Producers : q # p => cmd'[q] = cmd[q] /\ pc'[q] = pc[q]
    BY <1>0, <1>1 DEF PushCall, ring, thread
  <2>2. ~ Sending(p)'
    BY <2>1 DEF Sending, NewCommand
  <2>3. \A q \in Producers : Sending(q)' => Sending(q) /\ cmd'[q] = cmd[q]
    BY <2>1, <2>2 DEF Sending
  <2> QED BY <2>1, <2>3, ExitKept
<1>2. ASSUME NEW p \in Producers, Call(p) PROVE ExitInv'
  BY <1>1, <1>2, ExitMade DEF Call
<1>3. ASSUME NEW p \in Producers, Refuse(p) \/ FreeNotifyEvent(p) \/ Block(p) \/ WaitEvent(p)
      PROVE  ExitInv'
  <2>1. /\ UNCHANGED <<mem, tail, exit, consumer, command>>
        /\ \A q \in Producers : q # p => cmd'[q] = cmd[q] /\ pc'[q] = pc[q]
        /\ pc[p] # "out" /\ (pc'[p] = "out" \/ cmd'[p] = cmd[p])
    BY <1>0, <1>3 DEF Refuse, FreeNotifyEvent, Block, WaitEvent, Return, ring, thread
  <2>2. \A q \in Producers : Sending(q)' => Sending(q) /\ cmd'[q] = cmd[q]
    BY <2>1 DEF Sending
  <2> QED BY <2>1, <2>2, ExitKept
<1>4. CASE UNCHANGED vars
  <2>1. /\ UNCHANGED <<mem, tail, exit, consumer, command>>
        /\ \A q \in Producers : Sending(q)' => Sending(q) /\ cmd'[q] = cmd[q]
    BY <1>4 DEF vars, ring, exit, thread, caller, Sending
  <2> QED BY <2>1, ExitKept
<1>5. ASSUME NEW p \in Producers, Continue(p) PROVE ExitInv'
  BY <1>3, <1>5, ExitEnqueued DEF Continue
<1>6. CASE Run
  BY <1>6, ExitPopped, ExitRun DEF Run
<1> QED BY <1>2, <1>4, <1>5, <1>6 DEF Next
-----------------------------------------------------------------------------
(* The ring is a queue of calls. *)

\* The commands in the ring do not overlap and stand in a line.
Apart == \A a, b \in Cells : mem[a] # NULL /\ mem[b] # NULL /\ a < b => a + mem[a].size <= b

LineInv == Apart /\ InLine(Starts, tail)

\* A command is taken alone.
LEMMA TakenAlone ==
  ASSUME IInv, Apart, PopCommand, NEW b \in Cells, mem[b] # NULL, b # tail
  PROVE  mem'[b] = mem[b]
<1>1. /\ tail \in Cells /\ mem[tail] \in Sent /\ mem[tail].size \in Nat \ {0} /\ mem[tail] # NULL
      /\ tail \in Nat /\ b \in Nat
  BY Popped, Sizes DEF Cells
<1>2. mem'[b] = IF b \in tail..tail + mem[tail].size - 1 THEN NULL ELSE mem[b]
  BY DEF PopCommand, ReadEnd, Forget, Cells
<1>3. CASE b < tail
  BY <1>1, <1>2, <1>3
<1>4. CASE tail < b
  <2>1. tail + mem[tail].size <= b
    BY <1>1, <1>4 DEF Apart
  <2> QED BY <1>1, <1>2, <2>1
<1> QED BY <1>1, <1>3, <1>4

\* The blocks where commands start are finitely many.
LEMMA StartsType ==
  ASSUME IInv
  PROVE  /\ Starts = {b \in Cells : mem[b] # NULL}
         /\ IsSet(Starts, tail) /\ \A b \in Starts : mem[b] \in Sent
<1>1. /\ mem \in [Cells -> Sent \cup {NULL}] /\ tail \in 0..Size /\ Size \in Nat
  BY Types DEF IInv
<1>2. Starts = {b \in Cells : mem[b] # NULL}
  BY DEF Starts, Cells
<1>3. IsFiniteSet(Cells)
  <2>1. 0 \in Int /\ Size - 1 \in Int
    BY <1>1
  <2> QED BY <2>1, FS_Interval DEF Cells
<1>4. Starts \in SUBSET Cells /\ Cells \in SUBSET Nat
  BY <1>2 DEF Cells
<1>5. IsFiniteSet(Starts)
  BY <1>3, <1>4, FS_Subset
<1>6. tail \in Nat
  BY <1>1
<1>7. IsSet(Starts, tail)
  BY <1>4, <1>5, <1>6 DEF IsSet
<1>8. \A b \in Starts : mem[b] \in Sent
  BY <1>1, <1>2
<1> QED BY <1>2, <1>7, <1>8

\* The commands in the ring, in this state and in the next.
LEMMA CommandsAreLine ==
  /\ Commands = LineOf(Starts, tail, mem)
  /\ Commands' = LineOf(Starts', tail', mem')
  BY DEF Commands, Ahead, Before, LineOf, AheadIn, Ordered

\* A sequence of commands is one of calls.
LEMMA CallsOf ==
  ASSUME NEW s \in Seq(Sent)
  PROVE  /\ [i \in DOMAIN s |-> CallOf(s[i])] \in Seq(Nat \X BOOLEAN)
         /\ Len([i \in DOMAIN s |-> CallOf(s[i])]) = Len(s)
         /\ \A i \in 1..Len(s) : [j \in DOMAIN s |-> CallOf(s[j])][i] = CallOf(s[i])
<1>1. \A c \in Sent : CallOf(c) \in Nat \X BOOLEAN
  BY RingAssumption DEF Sent, CallOf
<1>2. DOMAIN s = 1..Len(s) /\ Len(s) \in Nat /\ \A i \in 1..Len(s) : s[i] \in Sent
  OBVIOUS
<1>3. [i \in DOMAIN s |-> CallOf(s[i])] \in [1..Len(s) -> Nat \X BOOLEAN]
  BY <1>1, <1>2
<1> QED BY <1>2, <1>3

\* What is enqueued and taken as a command is enqueued and taken as a call.
LEMMA CallAppended ==
  ASSUME NEW s \in Seq(Sent), NEW c \in Sent, NEW u, u = Append(s, c)
  PROVE  [i \in DOMAIN u |-> CallOf(u[i])] = Append([i \in DOMAIN s |-> CallOf(s[i])], CallOf(c))
<1> DEFINE f == [i \in DOMAIN s |-> CallOf(s[i])]
           g == [i \in DOMAIN u |-> CallOf(u[i])]
<1>1. /\ u \in Seq(Sent) /\ Len(u) = Len(s) + 1 /\ Len(s) \in Nat
      /\ \A i \in 1..Len(s) : u[i] = s[i]
      /\ u[Len(s) + 1] = c
  BY AppendProperties
<1>2. /\ f \in Seq(Nat \X BOOLEAN) /\ Len(f) = Len(s)
      /\ \A i \in 1..Len(s) : f[i] = CallOf(s[i])
  BY CallsOf
<1>3. /\ g \in Seq(Nat \X BOOLEAN) /\ Len(g) = Len(u)
      /\ \A i \in 1..Len(u) : g[i] = CallOf(u[i])
  BY <1>1, CallsOf
<1> HIDE DEF f, g
<1>4. CallOf(c) \in Nat \X BOOLEAN
  BY RingAssumption DEF Sent, CallOf
<1>5. \A i \in 1..Len(s) : g[i] = f[i]
  BY <1>1, <1>2, <1>3
<1>6. g[Len(s) + 1] = CallOf(c)
  BY <1>1, <1>3
<1>7. g = Append(f, CallOf(c))
  BY <1>1, <1>2, <1>3, <1>4, <1>5, <1>6
<1> QED BY <1>7 DEF f, g

\* The same for the first.
LEMMA CallTaken ==
  ASSUME NEW s \in Seq(Sent), s # <<>>, NEW u, u = Tail(s)
  PROVE  /\ [i \in DOMAIN s |-> CallOf(s[i])] # <<>>
         /\ Head([i \in DOMAIN s |-> CallOf(s[i])]) = CallOf(Head(s))
         /\ [i \in DOMAIN u |-> CallOf(u[i])] = Tail([i \in DOMAIN s |-> CallOf(s[i])])
<1> DEFINE f == [i \in DOMAIN s |-> CallOf(s[i])]
           g == [i \in DOMAIN u |-> CallOf(u[i])]
<1>1. /\ u \in Seq(Sent) /\ Len(u) = Len(s) - 1 /\ Len(s) \in Nat /\ Len(s) > 0
      /\ \A i \in 1..Len(u) : u[i] = s[i + 1]
      /\ Head(s) = s[1]
  BY HeadTailProperties
<1>2. /\ f \in Seq(Nat \X BOOLEAN) /\ Len(f) = Len(s)
      /\ \A i \in 1..Len(s) : f[i] = CallOf(s[i])
  BY CallsOf
<1>3. /\ g \in Seq(Nat \X BOOLEAN) /\ Len(g) = Len(u)
      /\ \A i \in 1..Len(u) : g[i] = CallOf(u[i])
  BY <1>1, CallsOf
<1> HIDE DEF f, g
<1>4. f # <<>> /\ Head(f) = f[1] /\ f[1] = CallOf(s[1])
  BY <1>1, <1>2
<1>5. /\ Tail(f) \in Seq(Nat \X BOOLEAN) /\ Len(Tail(f)) = Len(f) - 1
      /\ \A i \in 1..Len(Tail(f)) : Tail(f)[i] = f[i + 1]
  BY <1>2, <1>4, HeadTailProperties
<1>6. /\ Len(u) \in Nat /\ Len(Tail(f)) = Len(u)
      /\ \A i \in 1..Len(u) : i + 1 \in 1..Len(s)
  BY <1>1, <1>2, <1>5
<1>7. ASSUME NEW i \in 1..Len(u) PROVE g[i] = Tail(f)[i]
  <2>1. g[i] = CallOf(s[i + 1])
    BY <1>1, <1>3
  <2>2. f[i + 1] = CallOf(s[i + 1])
    BY <1>2, <1>6
  <2> QED BY <1>5, <1>6, <2>1, <2>2
<1>8. Len(g) = Len(Tail(f)) /\ g \in Seq(Nat \X BOOLEAN) /\ Tail(f) \in Seq(Nat \X BOOLEAN)
  BY <1>3, <1>5, <1>6
<1>9. g = Tail(f)
  BY <1>3, <1>7, <1>8, SeqEqual
<1> QED BY <1>1, <1>4, <1>9 DEF f, g

\* The commands are a sequence.
LEMMA CommandsType ==
  ASSUME IInv, LineInv
  PROVE  /\ Commands \in Seq(Sent) /\ Len(Commands) = Cardinality(Starts)
         /\ Cardinality(Starts) \in Nat
  BY StartsType, CommandsAreLine, LineType DEF LineInv

\* Enqueue puts the command behind all others.
LEMMA EnqueueAppends ==
  ASSUME IInv, IInv', LineInv, NEW p \in Producers, Enqueue(p)
  PROVE  LineInv' /\ Fifo' = Append(Fifo, CallOf(cmd[p]))
<1>1. PICK c \in Sent, at \in Cells :
        /\ c.n = cmd[p].n /\ c.exit = cmd[p].exit /\ tail' = tail
        /\ \A b \in Cells : mem[b] # NULL => b + mem[b].size <= at \/ b >= at + c.size
        /\ \A b \in Cells : mem'[b] = IF b = at THEN c ELSE mem[b]
        /\ \A b \in Cells : mem[b] # NULL => b # at /\ Before(b, at)
  BY Enqueued
<1>2. c # NULL /\ at \in Nat
  BY Sizes DEF Cells
<1>3. Starts = {b \in Cells : mem[b] # NULL} /\ Starts' = {b \in Cells : mem'[b] # NULL}
  BY DEF Starts, Cells
<1>4. /\ Starts' = Starts \cup {at} /\ at \notin Starts
      /\ \A b \in Starts : Ordered(tail, b, at) /\ mem'[b] = mem[b]
      /\ \A b \in Starts' : mem'[b] \in Sent
      /\ mem'[at] = c
  <2>1. \A b \in Starts : mem[b] \in Sent
    BY StartsType
  <2>2. at \notin Starts /\ mem'[at] = c
    BY <1>1, <1>2, <1>3
  <2>3. \A b \in Starts : Ordered(tail, b, at)
    BY <1>1, <1>3, BeforeOrdered
  <2>4. \A b \in Starts : mem'[b] = mem[b]
    BY <1>1, <1>3
  <2>5. \A b \in Cells : b \in Starts' <=> b \in Starts \/ b = at
    BY <1>1, <1>2, <1>3
  <2>6. Starts' = Starts \cup {at}
    BY <1>3, <2>5
  <2>7. \A b \in Starts' : mem'[b] \in Sent
    BY <2>1, <2>2, <2>4, <2>6
  <2> QED BY <2>2, <2>3, <2>4, <2>6, <2>7
<1>5. IsSet(Starts, tail) /\ InLine(Starts, tail)
  BY StartsType DEF LineInv
<1>6. Appends(Starts, Starts', tail, mem, mem', Sent, at)
  BY <1>2, <1>4, <1>5 DEF Appends
<1>60. InLine(Starts', tail)
  BY <1>6, LineAppended
<1>61. LineOf(Starts', tail, mem') = Append(LineOf(Starts, tail, mem), mem'[at])
  BY <1>6, LineAppended
<1>7. LineInv'
  <2>1. Apart'
    <3> SUFFICES ASSUME NEW a \in Cells, NEW b \in Cells,
                        mem'[a] # NULL, mem'[b] # NULL, a < b
                 PROVE  a + mem'[a].size <= b
      BY DEF Apart
    <3>1. CASE a = at
      <4>1. mem[b] # NULL /\ mem'[a] = c
        BY <1>1, <3>1, a < b DEF Cells
      <4>2. mem[b].size \in Nat \ {0}
        BY <4>1, StartsType, <1>3, Sizes
      <4> QED BY <1>1, <3>1, <4>1, <4>2, Sizes DEF Cells
    <3>2. CASE b = at
      <4>1. mem[a] # NULL /\ mem'[a] = mem[a]
        BY <1>1, <3>2, a < b DEF Cells
      <4>2. c.size \in Nat \ {0}
        BY Sizes
      <4> QED BY <1>1, <3>2, <4>1, <4>2 DEF Cells
    <3>3. CASE a # at /\ b # at
      BY <1>1, <3>3 DEF Apart, LineInv
    <3> QED BY <3>1, <3>2, <3>3
  <2> QED BY <1>1, <1>60, <2>1 DEF LineInv
<1>8. Commands' = Append(Commands, c)
  BY <1>1, <1>4, <1>61, CommandsAreLine
<1>9. Fifo' = Append(Fifo, CallOf(c))
  BY <1>8, CommandsType, CallAppended DEF Fifo
<1>10. CallOf(c) = CallOf(cmd[p])
  BY <1>1 DEF CallOf
<1> QED BY <1>7, <1>9, <1>10

\* PopCommand takes the first command of all.
LEMMA PopTakes ==
  ASSUME IInv, IInv', LineInv, PopCommand
  PROVE  /\ LineInv' /\ Fifo # <<>> /\ CallOf(command') = Head(Fifo) /\ Fifo' = Tail(Fifo)
<1>1. /\ tail \in Cells /\ mem[tail] \in Sent /\ command' = mem[tail]
      /\ \A b \in Cells : mem'[b] # NULL => /\ mem[b] # NULL /\ mem'[b] = mem[b]
                                            /\ b # tail /\ Before(tail, b)
      /\ \A a, b \in Cells : mem'[a] # NULL /\ mem'[b] # NULL /\ Before(a, b)' => Before(a, b)
  BY Popped
<1>2. Starts = {b \in Cells : mem[b] # NULL} /\ Starts' = {b \in Cells : mem'[b] # NULL}
  BY DEF Starts, Cells
<1>3. \A b \in Cells : mem[b] # NULL => b = tail \/ mem'[b] # NULL
  BY TakenAlone DEF LineInv
<1>4. /\ Starts = Starts' \cup {tail} /\ tail \notin Starts'
      /\ \A b \in Starts' : Ordered(tail, tail, b) /\ mem'[b] = mem[b]
      /\ \A a, b \in Starts' : Ordered(tail', a, b) => Ordered(tail, a, b)
      /\ \A b \in Starts : mem[b] \in Sent
      /\ tail \in Nat
  <2>1. \A b \in Starts : mem[b] \in Sent
    BY StartsType
  <2>2. mem[tail] # NULL /\ tail \in Nat
    BY <1>1, Sizes DEF Cells
  <2> QED BY <1>1, <1>2, <1>3, <2>1, <2>2, BeforeOrdered
<1>5. IsSet(Starts, tail) /\ InLine(Starts, tail)
  BY StartsType DEF LineInv
<1>6. IsSet(Starts', tail')
  <2>1. tail' \in Nat
    BY Popped, Types DEF IInv
  <2>2. Starts' \in SUBSET Starts
    BY <1>4
  <2>3. IsFiniteSet(Starts')
    BY <1>5, <2>2, FS_Subset DEF IsSet
  <2> QED BY <1>5, <2>1, <2>2, <2>3 DEF IsSet
<1>70. Takes(Starts, Starts', tail, tail', mem, mem', Sent, tail)
  BY <1>4, <1>5, <1>6 DEF Takes
<1>7. /\ InLine(Starts', tail')
      /\ LineOf(Starts, tail, mem) # <<>>
      /\ Head(LineOf(Starts, tail, mem)) = mem[tail]
      /\ LineOf(Starts', tail', mem') = Tail(LineOf(Starts, tail, mem))
  <2>1. InLine(Starts', tail')
    BY <1>70, LineTaken
  <2>2. LineOf(Starts, tail, mem) # <<>>
    BY <1>70, LineTaken
  <2>3. Head(LineOf(Starts, tail, mem)) = mem[tail]
    BY <1>70, LineTaken
  <2>4. LineOf(Starts', tail', mem') = Tail(LineOf(Starts, tail, mem))
    BY <1>70, LineTaken
  <2> QED BY <2>1, <2>2, <2>3, <2>4
<1>8. Commands # <<>> /\ Head(Commands) = mem[tail] /\ Commands' = Tail(Commands)
  BY <1>7, CommandsAreLine
<1>9. Fifo # <<>> /\ Head(Fifo) = CallOf(mem[tail]) /\ Fifo' = Tail(Fifo)
  BY <1>8, CommandsType, CallTaken DEF Fifo
<1>10. Apart'
  BY <1>1 DEF Apart, LineInv
<1> QED BY <1>1, <1>7, <1>9, <1>10 DEF LineInv

\* Steps that leave the ring alone leave the queue alone.
LEMMA RingKept ==
  ASSUME LineInv, UNCHANGED <<mem, tail>>
  PROVE  LineInv' /\ Fifo' = Fifo
<1>1. Starts' = Starts
  BY DEF Starts
<1>2. Commands' = Commands
  BY <1>1, CommandsAreLine
<1>3. Apart => Apart'
  BY DEF Apart
<1> QED BY <1>1, <1>2, <1>3 DEF LineInv, Fifo

\* When the ring holds no command, nothing is queued.
LEMMA EmptyFifo ==
  ASSUME IInv, LineInv, \A b \in Cells : mem[b] = NULL
  PROVE  Fifo = <<>>
<1>1. Starts = {}
  BY StartsType
<1>2. Commands \in Seq(Sent) /\ Len(Commands) = 0
  BY <1>1, CommandsType, FS_EmptySet
<1>3. Commands = <<>>
  BY <1>2
<1> QED BY <1>3 DEF Fifo
-----------------------------------------------------------------------------
(* The refinement. *)

QueueInv == IInv /\ ExitInv /\ LineInv

\* The queue is created empty and open.
LEMMA QueueInitially == Init => QueueInv /\ Abstract!Init
<1> SUFFICES ASSUME Init PROVE QueueInv /\ Abstract!Init
  OBVIOUS
<1>1. IInv
  BY Initially
<1>2. \A b \in Cells : mem[b] = NULL
  BY DEF Init, Cells
<1>3. command = NULL /\ consumer = "popping" /\ ~ exitProcessed /\ ~ exitEnqueued
      /\ \A p \in Producers : pc[p] = "out"
  BY DEF Init
<1>4. ExitInv
  BY <1>2, <1>3 DEF ExitInv, Sending, InRing, InHand
<1>5. Starts = {}
  BY <1>1, <1>2, StartsType
<1>6. Cardinality(Starts) = 0
  BY <1>5, FS_EmptySet
<1>7. LineInv
  <2>1. Apart
    BY <1>2 DEF Apart
  <2>2. InLine(Starts, tail)
    BY <1>6 DEF InLine
  <2> QED BY <2>1, <2>2 DEF LineInv
<1>8. Fifo = <<>>
  BY <1>1, <1>2, <1>7, EmptyFifo
<1>9. Executing = NULL
  BY <1>3 DEF Executing
<1>10. Abstract!Init
  BY <1>3, <1>8, <1>9 DEF Abstract!Init
<1> QED BY <1>1, <1>4, <1>7, <1>10 DEF QueueInv

\* A call is no absent call.
LEMMA CallsAreCalls ==
  ASSUME NEW c \in Sent
  PROVE  CallOf(c) \in (1..CallBound) \X BOOLEAN /\ CallOf(c) # NULL
         /\ (CallOf(c) \in (1..CallBound) \X {TRUE} <=> c.exit)
<1>1. c.n \in 1..CallBound /\ c.exit \in BOOLEAN
  BY DEF Sent
<1>2. CallOf(c) = <<c.n, c.exit>>
  BY DEF CallOf
<1>3. CallOf(c) \in (1..CallBound) \X BOOLEAN
  BY <1>1, <1>2
<1>4. CallOf(c) \in Nat \X BOOLEAN
  BY <1>1, <1>2, RingAssumption
<1>5. CallOf(c) # NULL
  BY <1>4, RingAssumption
<1>6. ASSUME c.exit PROVE CallOf(c) \in (1..CallBound) \X {TRUE}
  <2>1. c.exit = TRUE
    BY <1>1, <1>6
  <2> DEFINE T == {TRUE}
  <2>2. c.exit \in T
    BY <2>1, Zenon
  <2> HIDE DEF T
  <2>3. CallOf(c) \in (1..CallBound) \X T
    BY <1>1, <1>2, <2>2
  <2> QED BY <2>3 DEF T
<1>7. ASSUME ~ c.exit PROVE CallOf(c) \notin (1..CallBound) \X {TRUE}
  <2>1. c.exit = FALSE
    BY <1>1, <1>7
  <2>2. CallOf(c)[2] = FALSE
    BY <1>2, <2>1
  <2>3. \A x \in (1..CallBound) \X {TRUE} : x[2] = TRUE
    OBVIOUS
  <2> QED BY <2>2, <2>3
<1> QED BY <1>3, <1>5, <1>6, <1>7

\* A step that leaves the ring, the consumer's call and the flags alone does
\* nothing to the queue of calls.
LEMMA NothingSeen ==
  ASSUME LineInv, UNCHANGED <<mem, tail, exit>>, Executing' = Executing
  PROVE  LineInv' /\ UNCHANGED Abstract!vars
<1>1. LineInv' /\ Fifo' = Fifo
  BY RingKept
<1> QED BY <1>1 DEF Abstract!vars, exit

\* Enqueue enqueues a call: before the close any but the exit, after it the exit
\* only.
LEMMA EnqueueRefines ==
  ASSUME IInv, IInv', ExitInv, LineInv, NEW p \in Producers, Enqueue(p)
  PROVE  LineInv' /\ Abstract!Next
<1>1. LineInv' /\ Fifo' = Append(Fifo, CallOf(cmd[p]))
  BY EnqueueAppends
<1>2. cmd[p] \in Sent /\ pc[p] = "pushing" /\ UNCHANGED <<exit, thread>>
  BY Enqueued
<1>3. Executing' = Executing
  BY <1>2 DEF Executing, thread
<1>4. ~ exitEnqueued \/ cmd[p].exit
  BY DEF Enqueue, Refused
<1>5. cmd[p].exit => Sending(p)
  BY <1>2 DEF Sending
<1>6. ~ exitProcessed /\ (exitEnqueued <=> cmd[p].exit)
  BY <1>4, <1>5 DEF ExitInv
<1>7. CallOf(cmd[p]) \in (1..CallBound) \X BOOLEAN
      /\ (CallOf(cmd[p]) \in (1..CallBound) \X {TRUE} <=> cmd[p].exit)
  BY <1>2, CallsAreCalls
<1>8. Abstract!Enqueue(CallOf(cmd[p]))
  BY <1>1, <1>2, <1>3, <1>6, <1>7 DEF Abstract!Enqueue, exit
<1> QED BY <1>1, <1>7, <1>8 DEF Abstract!Next

\* PopCommand takes the first call.
LEMMA PopRefines ==
  ASSUME IInv, IInv', LineInv, PopCommand
  PROVE  LineInv' /\ Abstract!Next
<1>1. LineInv' /\ Fifo # <<>> /\ CallOf(command') = Head(Fifo) /\ Fifo' = Tail(Fifo)
  BY PopTakes
<1>2. consumer = "popping" /\ consumer' = "executing" /\ UNCHANGED exit
  BY Popped
<1>3. Executing = NULL /\ Executing' = CallOf(command')
  BY <1>2 DEF Executing
<1>4. Abstract!Take
  BY <1>1, <1>2, <1>3 DEF Abstract!Take, exit
<1> QED BY <1>1, <1>4 DEF Abstract!Next

\* PopBuffer::Execute finishes it, the exit command when nothing is queued.
LEMMA ExecuteRefines ==
  ASSUME IInv, ExitInv, LineInv, Execute
  PROVE  LineInv' /\ Abstract!Next
<1>1. /\ consumer = "executing" /\ consumer' = "notifying"
      /\ UNCHANGED <<mem, tail, exitEnqueued>>
      /\ exitProcessed' = (exitProcessed \/ command.exit)
  BY DEF Execute, ring
<1>2. command \in Sent
  BY <1>1, Types DEF IInv
<1>3. LineInv' /\ Fifo' = Fifo
  BY <1>1, RingKept
<1>4. Executing = CallOf(command) /\ Executing' = NULL
  BY <1>1 DEF Executing
<1>5. ~ exitProcessed
  BY <1>1 DEF ExitInv
<1>6. command.exit => Fifo = <<>>
  <2>1. command.exit => InHand
    BY <1>2, Sizes DEF InHand
  <2>2. InHand => \A b \in Cells : mem[b] = NULL
    BY DEF ExitInv
  <2> QED BY <2>1, <2>2, EmptyFifo
<1>7. CallOf(command) # NULL
      /\ (CallOf(command) \in (1..CallBound) \X {TRUE} <=> command.exit)
  BY <1>2, CallsAreCalls
<1>8. exitProcessed' = (CallOf(command) \in (1..CallBound) \X {TRUE})
  <2>1. exitProcessed' \in BOOLEAN
    BY <1>1, Zenon
  <2>2. exitProcessed' <=> command.exit
    BY <1>1, <1>5, Zenon
  <2>3. exitProcessed' <=> CallOf(command) \in (1..CallBound) \X {TRUE}
    BY <1>7, <2>2, Zenon
  <2> QED BY <2>1, <2>3, Zenon
<1>9. Abstract!Finish
  BY <1>1, <1>3, <1>4, <1>6, <1>7, <1>8 DEF Abstract!Finish
<1> QED BY <1>3, <1>9 DEF Abstract!Next

\* Every step is a step of the queue of calls or nothing to it.
LEMMA QueueStep ==
  ASSUME IInv, IInv', ExitInv, LineInv, [Next]_vars
  PROVE  LineInv' /\ (Abstract!Next \/ UNCHANGED Abstract!vars)
<1>1. ASSUME NEW p \in Producers, NEW size, NEW wait, PushCall(p, size, wait)
      PROVE  LineInv' /\ UNCHANGED Abstract!vars
  <2>1. UNCHANGED <<mem, tail, exit>> /\ Executing' = Executing
    BY <1>1 DEF PushCall, ring, thread, Executing
  <2> QED BY <2>1, NothingSeen
<1>2. ASSUME NEW p \in Producers, PushExitCommand(p)
      PROVE  LineInv' /\ Abstract!Next
  <2>1. /\ UNCHANGED <<mem, tail, exitProcessed>> /\ Executing' = Executing
        /\ ~ exitEnqueued /\ exitEnqueued' = TRUE
    BY <1>2 DEF PushExitCommand, ring, thread, Executing
  <2>2. LineInv' /\ Fifo' = Fifo
    BY <2>1, RingKept
  <2>3. Abstract!Close
    BY <2>1, <2>2 DEF Abstract!Close
  <2> QED BY <2>2, <2>3 DEF Abstract!Next
<1>3. ASSUME NEW p \in Producers,
             Refuse(p) \/ FreeNotifyEvent(p) \/ Block(p) \/ WaitEvent(p)
      PROVE  LineInv' /\ UNCHANGED Abstract!vars
  <2>1. UNCHANGED <<mem, tail, exit>> /\ Executing' = Executing
    BY <1>3 DEF Refuse, FreeNotifyEvent, Block, WaitEvent, ring, thread, Executing
  <2> QED BY <2>1, NothingSeen
<1>4. ASSUME PopNothing \/ Poll \/ Notify \/ Exit
      PROVE  LineInv' /\ UNCHANGED Abstract!vars
  <2>1. /\ UNCHANGED <<mem, tail, exit>>
        /\ consumer # "executing" /\ consumer' # "executing"
    BY <1>4 DEF PopNothing, Poll, Notify, Exit, ring
  <2>2. Executing' = Executing
    BY <2>1 DEF Executing
  <2> QED BY <2>1, <2>2, NothingSeen
<1>5. ASSUME UNCHANGED vars
      PROVE  LineInv' /\ UNCHANGED Abstract!vars
  <2>1. UNCHANGED <<mem, tail, exit>> /\ Executing' = Executing
    BY <1>5 DEF vars, ring, thread, Executing
  <2> QED BY <2>1, NothingSeen
<1>6. ASSUME NEW p \in Producers, Call(p)
      PROVE  LineInv' /\ (Abstract!Next \/ UNCHANGED Abstract!vars)
  BY <1>1, <1>2, <1>6 DEF Call
<1>7. ASSUME NEW p \in Producers, Continue(p)
      PROVE  LineInv' /\ (Abstract!Next \/ UNCHANGED Abstract!vars)
  BY <1>3, <1>7, EnqueueRefines DEF Continue
<1>8. ASSUME Run
      PROVE  LineInv' /\ (Abstract!Next \/ UNCHANGED Abstract!vars)
  BY <1>4, <1>8, PopRefines, ExecuteRefines DEF Run
<1> QED BY <1>5, <1>6, <1>7, <1>8 DEF Next

\* The invariant of the queue is inductive.
LEMMA QueueInductive == QueueInv /\ [Next]_vars => QueueInv'
<1> SUFFICES ASSUME IInv, ExitInv, LineInv, [Next]_vars PROVE QueueInv'
  BY DEF QueueInv
<1>1. IInv'
  BY Inductive
<1>2. ExitInv'
  BY <1>1, ExitStep
<1>3. LineInv'
  BY <1>1, QueueStep
<1> QED BY <1>1, <1>2, <1>3 DEF QueueInv

\* The ring of bytes is a queue of calls: each is executed once, in the order
\* they were enqueued, and the exit command after all of them.
THEOREM QueueOfCalls == Spec => ImplementsCommandQueue
<1>1. QueueInv /\ [Next]_vars => [Abstract!Next]_(Abstract!vars)
  <2> SUFFICES ASSUME IInv, ExitInv, LineInv, [Next]_vars
               PROVE  Abstract!Next \/ UNCHANGED Abstract!vars
    BY DEF QueueInv
  <2>1. IInv'
    BY Inductive
  <2> QED BY <2>1, QueueStep
<1> QED BY <1>1, QueueInitially, QueueInductive, PTL DEF Spec, Abstract!Spec, ImplementsCommandQueue
-----------------------------------------------------------------------------
(* The end: what the destructors assert. *)

\* The blocks that hold data.
Used == IF head >= tail THEN tail..head - 1 ELSE (tail..end - 1) \cup (0..head - 1)

\* Every one of them belongs to a command.
Covered == \A x \in Used : \E b \in Starts : b <= x /\ x < b + mem[b].size

\* Sizes are at most m, and the ring takes at least a command more than there
\* are producers.
Roomy(m) ==
  /\ m \in Nat /\ \A s \in CommandSizes : s <= m
  /\ (Cardinality(Producers) + 1) * m <= Size

\* No more producers are blocked than commands are in the ring.
RoomInv(m) ==
  /\ Covered
  /\ end # 0 => Size - end < m
  /\ Len(blockedProducers) <= Len(Fifo)

\* What is written is covered by the command written.
LEMMA WrittenCovered ==
  ASSUME TypeOK, RingInv, Covered, NEW c \in Sent,
         FitsAtHead(c.size) \/ FitsAtStart(c.size), Write(c)
  PROVE  Covered'
<1> DEFINE n == c.size
           at == Place(n)
<1>1. /\ head \in Nat /\ tail \in Nat /\ end \in Nat /\ Size \in Nat
      /\ n \in Nat \ {0} /\ c # NULL
  BY RingType, Sizes
<1>2. /\ head >= tail <=> end = 0
      /\ end # 0 => head < tail /\ tail < end
  BY DEF RingInv, RingAssertions
<1>3. /\ tail' = tail /\ at \in Cells /\ at \in Nat
      /\ \A b \in Cells : mem'[b] = IF b = at THEN c ELSE mem[b]
      /\ \A b \in Cells : mem[b] # NULL => b # at
  BY Written DEF Cells
<1>4. /\ head' = at + n
      /\ end' = IF FitsAtHead(n) THEN end ELSE head
  BY DEF Write
<1>5. /\ at = IF FitsAtHead(n) THEN head ELSE 0
      /\ FitsAtHead(n) <=> IF head >= tail THEN n <= Size - head ELSE n < tail - head
      /\ FitsAtHead(n) \/ (head >= tail /\ n < tail)
  BY DEF Place, FitsAtHead, FitsAtStart
<1>6. at \in Starts' /\ mem'[at] = c
  BY <1>1, <1>3 DEF Starts, Cells
<1>7. \A b \in Starts : b \in Starts' /\ mem'[b] = mem[b]
  BY <1>3 DEF Starts, Cells
<1> HIDE DEF n, at
<1>8. ASSUME NEW x \in Used' PROVE x \in Used \/ (at <= x /\ x < at + n)
  <2>1. x \in Int /\ x >= 0
    BY <1>1, <1>3, <1>4, <1>5, <1>8 DEF Used
  <2>2. CASE FitsAtHead(n) /\ head >= tail
    BY <1>1, <1>2, <1>3, <1>4, <1>5, <1>8, <2>1, <2>2 DEF Used
  <2>3. CASE FitsAtHead(n) /\ ~ head >= tail
    BY <1>1, <1>2, <1>3, <1>4, <1>5, <1>8, <2>1, <2>3 DEF Used
  <2>4. CASE ~ FitsAtHead(n)
    BY <1>1, <1>2, <1>3, <1>4, <1>5, <1>8, <2>1, <2>4 DEF Used
  <2> QED BY <2>2, <2>3, <2>4
<1>9. ASSUME NEW x \in Used' PROVE \E b \in Starts' : b <= x /\ x < b + mem'[b].size
  <2>1. CASE x \in Used
    <3>1. PICK b \in Starts : b <= x /\ x < b + mem[b].size
      BY <2>1 DEF Covered
    <3> QED BY <1>7, <3>1
  <2>2. CASE at <= x /\ x < at + n
    BY <1>6, <2>2 DEF n
  <2> QED BY <1>8, <2>1, <2>2
<1> QED BY <1>9 DEF Covered

\* What remains when a command is taken is covered by the others.
LEMMA TakenCovered ==
  ASSUME IInv, Apart, Covered, PopCommand
  PROVE  Covered'
<1> DEFINE n == mem[tail].size
           t == tail + n
<1>1. TypeOK /\ RingInv /\ ReadEnd(n) /\ head # tail
  BY DEF PopCommand, IInv, TypeInv, IsEmpty
<1>2. /\ head \in Nat /\ tail \in Nat /\ end \in Nat /\ Size \in Nat
      /\ tail \in Cells /\ n \in Nat \ {0}
  BY <1>1, RingType, Popped, Sizes
<1>3. /\ head >= tail <=> end = 0
      /\ end # 0 => head < tail /\ tail < end
  BY <1>1 DEF RingInv, RingAssertions
<1>4. /\ tail' = IF t = end \/ t = head THEN 0 ELSE t
      /\ head' = IF t # end /\ t = head THEN 0 ELSE head
      /\ end' = IF t = end THEN 0 ELSE end
  BY <1>1 DEF ReadEnd
<1>5. t <= Limit
  <2>1. mem[tail] # NULL
    BY Popped, Sizes
  <2> QED BY <1>1, <1>2, <2>1 DEF RingInv, Follows, Limit
<1> HIDE DEF n
<1>6. ASSUME NEW x \in Used' PROVE x \in Int /\ x \in Used /\ (x < tail \/ x >= t)
  <2>1. x \in Int /\ x >= 0
    BY <1>2, <1>4, <1>6 DEF Used
  <2>2. CASE head >= tail
    BY <1>2, <1>3, <1>4, <1>5, <1>6, <2>1, <2>2 DEF Used, Limit
  <2>3. CASE ~ head >= tail
    BY <1>2, <1>3, <1>4, <1>5, <1>6, <2>1, <2>3 DEF Used, Limit
  <2> QED BY <2>1, <2>2, <2>3
<1>7. ASSUME NEW x \in Used' PROVE \E b \in Starts' : b <= x /\ x < b + mem'[b].size
  <2>1. PICK b \in Starts : b <= x /\ x < b + mem[b].size
    BY <1>6 DEF Covered
  <2>2. b # tail
    <3> SUFFICES ASSUME b = tail PROVE FALSE
      OBVIOUS
    <3>1. tail <= x /\ x < tail + n
      BY <2>1 DEF n
    <3> QED BY <1>2, <1>6, <3>1
  <2>3. b \in Cells /\ mem[b] # NULL
    BY DEF Starts, Cells
  <2>4. mem'[b] = mem[b]
    BY <2>2, <2>3, TakenAlone
  <2>5. b \in Starts'
    BY <2>3, <2>4 DEF Starts, Cells
  <2> QED BY <2>1, <2>4, <2>5
<1> QED BY <1>7 DEF Covered

\* There are at most m blocks of data for each command.
LEMMA UsedBound ==
  ASSUME IInv, Covered, NEW m \in Nat, \A s \in CommandSizes : s <= m
  PROVE  /\ IsFiniteSet(Used) /\ Cardinality(Used) \in Nat
         /\ Cardinality(Used) <= Cardinality(Starts) * m
<1> DEFINE at(x) == CHOOSE b \in Starts : b <= x /\ x < b + mem[b].size
           f == [x \in Used |-> <<at(x), x - at(x)>>]
<1>1. /\ head \in Nat /\ tail \in Nat /\ end \in Nat
      /\ IsFiniteSet(Starts) /\ Starts \in SUBSET Nat
      /\ \A b \in Starts : mem[b] \in Sent
  BY RingType, StartsType DEF IInv, TypeInv, IsSet
<1>2. \A x \in Used : x \in Int
  BY <1>1 DEF Used
<1>3. ASSUME NEW x \in Used
      PROVE  at(x) \in Starts /\ at(x) <= x /\ x < at(x) + mem[at(x)].size
  BY DEF Covered
<1> HIDE DEF at
<1>4. ASSUME NEW x \in Used PROVE at(x) \in Nat /\ x - at(x) \in 0..m - 1
  <2>1. mem[at(x)] \in Sent /\ at(x) \in Nat
    BY <1>1, <1>3
  <2>2. mem[at(x)].size \in CommandSizes /\ mem[at(x)].size \in Nat
    BY <2>1, Sizes DEF Sent
  <2>3. mem[at(x)].size <= m
    BY <2>2
  <2> QED BY <1>2, <1>3, <2>1, <2>2, <2>3
<1>5. f \in [Used -> Starts \X (0..m - 1)]
  BY <1>3, <1>4
<1>6. ASSUME NEW x \in Used, NEW y \in Used, f[x] = f[y] PROVE x = y
  <2>1. at(x) = at(y) /\ x - at(x) = y - at(y)
    BY <1>6
  <2> QED BY <1>2, <1>4, <2>1
<1>7. f \in Injection(Used, Starts \X (0..m - 1))
  <2>1. IsInjective(f)
    BY <1>6 DEF IsInjective
  <2> QED BY <1>5, <2>1 DEF Injection
<1> HIDE DEF f
<1>8. IsFiniteSet(0..m - 1) /\ Cardinality(0..m - 1) = m
  <2>1. 0 \in Int /\ m - 1 \in Int
    OBVIOUS
  <2>2. IsFiniteSet(0..m - 1) /\ Cardinality(0..m - 1) = IF 0 > m - 1 THEN 0 ELSE (m - 1) - 0 + 1
    BY <2>1, FS_Interval
  <2> QED BY <2>2
<1>9. /\ IsFiniteSet(Starts \X (0..m - 1))
      /\ Cardinality(Starts \X (0..m - 1)) = Cardinality(Starts) * m
  BY <1>1, <1>8, FS_Product
<1>10. IsFiniteSet(Used) /\ Cardinality(Used) <= Cardinality(Starts) * m
  BY <1>7, <1>9, FS_Injection
<1> QED BY <1>10, FS_CardinalityType

\* A command that does not fit finds the ring nearly full.
LEMMA NearlyFull ==
  ASSUME IInv, NEW n \in Nat, NEW m \in Nat, n <= m, end # 0 => Size - end < m,
         ~ FitsAtHead(n), ~ FitsAtStart(n)
  PROVE  Cardinality(Used) > Size - 2 * m
<1>1. /\ head \in Nat /\ tail \in Nat /\ end \in Nat /\ Size \in Nat
  BY RingType DEF IInv, TypeInv
<1>2. /\ head >= tail <=> end = 0
      /\ end # 0 => head < tail /\ tail < end
  BY DEF IInv, RingInv, RingAssertions
<1>3. CASE head >= tail
  <2>1. n > Size - head /\ tail <= n
    BY <1>1, <1>3 DEF FitsAtHead, FitsAtStart
  <2>2. Used = tail..head - 1
    BY <1>3 DEF Used
  <2>3. tail \in Int /\ head - 1 \in Int
    BY <1>1
  <2>4. Cardinality(tail..head - 1) = IF tail > head - 1 THEN 0 ELSE (head - 1) - tail + 1
    BY <2>3, FS_Interval
  <2>5. Cardinality(tail..head - 1) = head - tail
    BY <1>1, <1>3, <2>4
  <2> QED BY <1>1, <2>1, <2>2, <2>5
<1>4. CASE ~ head >= tail
  <2>1. tail - head <= n /\ end # 0 /\ head < tail /\ tail < end /\ Size - end < m
    BY <1>1, <1>2, <1>4 DEF FitsAtHead
  <2>2. Used = (tail..end - 1) \cup (0..head - 1)
    BY <1>4 DEF Used
  <2>3. tail \in Int /\ end - 1 \in Int /\ 0 \in Int /\ head - 1 \in Int
    BY <1>1
  <2>4. /\ IsFiniteSet(tail..end - 1)
        /\ Cardinality(tail..end - 1) = IF tail > end - 1 THEN 0 ELSE (end - 1) - tail + 1
    BY <2>3, FS_Interval
  <2>5. /\ IsFiniteSet(0..head - 1)
        /\ Cardinality(0..head - 1) = IF 0 > head - 1 THEN 0 ELSE (head - 1) - 0 + 1
    BY <2>3, FS_Interval
  <2>6. (tail..end - 1) \cap (0..head - 1) = {}
    BY <1>1, <2>1
  <2>7. Cardinality(Used) = Cardinality(tail..end - 1) + Cardinality(0..head - 1)
                            - Cardinality((tail..end - 1) \cap (0..head - 1))
    BY <2>2, <2>4, <2>5, FS_Union
  <2>8. Cardinality(Used) = (end - tail) + head
    <3>1. Cardinality(tail..end - 1) = end - tail
      BY <1>1, <2>1, <2>4
    <3>2. Cardinality(0..head - 1) = head
      BY <1>1, <2>5
    <3>3. Cardinality((tail..end - 1) \cap (0..head - 1)) = 0
      BY <2>6, FS_EmptySet
    <3>4. Cardinality(Used) = (end - tail) + head - 0
      BY <2>7, <3>1, <3>2, <3>3
    <3> QED BY <1>1, <3>4
  <2> QED BY <1>1, <2>1, <2>8
<1> QED BY <1>3, <1>4

\* What Enqueue writes.
LEMMA EnqueueWrites ==
  ASSUME IInv, IInv', NEW p \in Producers, Enqueue(p)
  PROVE  \E c \in Sent : Write(c) /\ (FitsAtHead(c.size) \/ FitsAtStart(c.size))
<1>1. cmd[p] \in Sent
  BY Enqueued
<1>2. event'[p] \in 0..Cardinality(Producers)
  <2>1. created' \in 0..Cardinality(Producers) /\ event' \in [Producers -> 0..created']
    BY DEF IInv, TypeInv, TypeOK
  <2>2. Cardinality(Producers) \in Nat
    BY RingAssumption, FS_CardinalityType
  <2> QED BY <2>1, <2>2
<1> DEFINE c == [cmd[p] EXCEPT !.event = event'[p]]
<1>3. c \in Sent /\ c.size = cmd[p].size
  BY <1>1, <1>2 DEF Sent
<1>4. Write(c) /\ (FitsAtHead(c.size) \/ FitsAtStart(c.size))
  BY <1>3 DEF Enqueue, Fits
<1> QED BY <1>3, <1>4

\* The calls queued are a sequence.
LEMMA FifoType ==
  ASSUME IInv, LineInv
  PROVE  Fifo \in Seq(Nat \X BOOLEAN) /\ Len(Fifo) = Cardinality(Starts)
<1>1. Commands \in Seq(Sent) /\ Len(Commands) = Cardinality(Starts)
  BY CommandsType
<1> QED BY <1>1, CallsOf DEF Fifo

\* A producer that is not blocked is one more than those that are.
LEMMA BlockedOthers ==
  ASSUME IInv, NEW p \in Producers, pc[p] # "blocked"
  PROVE  /\ Cardinality(Producers) \in Nat /\ Len(blockedProducers) \in Nat
         /\ Len(blockedProducers) + 1 <= Cardinality(Producers)
<1> DEFINE n == Len(blockedProducers)
           waits(e) == CHOOSE q \in Producers : pc[q] = "blocked" /\ event[q] = e
           f == [i \in 1..n |-> waits(blockedProducers[i])]
<1>1. /\ blockedProducers \in Seq(Nat) /\ IsInjective(blockedProducers)
      /\ \A e \in Range(blockedProducers) :
           \E q \in Producers : pc[q] = "blocked" /\ event[q] = e
  BY DEF IInv, TypeInv, PulseInv
<1>2. n \in Nat /\ DOMAIN blockedProducers = 1..n
  BY <1>1
<1>3. ASSUME NEW i \in 1..n
      PROVE  /\ waits(blockedProducers[i]) \in Producers
             /\ pc[waits(blockedProducers[i])] = "blocked"
             /\ event[waits(blockedProducers[i])] = blockedProducers[i]
  <2>1. blockedProducers[i] \in Range(blockedProducers)
    BY <1>2 DEF Range
  <2>2. \E q \in Producers : pc[q] = "blocked" /\ event[q] = blockedProducers[i]
    BY <1>1, <2>1
  <2> QED BY <2>2
<1> HIDE DEF waits
<1>4. f \in [1..n -> Producers \ {p}]
  BY <1>3
<1>5. ASSUME NEW i \in 1..n, NEW j \in 1..n, f[i] = f[j] PROVE i = j
  <2>1. waits(blockedProducers[i]) = waits(blockedProducers[j])
    BY <1>5
  <2>2. blockedProducers[i] = blockedProducers[j]
    BY <1>3, <2>1
  <2> QED BY <1>1, <1>2, <2>2 DEF IsInjective
<1>6. f \in Injection(1..n, Producers \ {p})
  <2>1. IsInjective(f)
    BY <1>5 DEF IsInjective
  <2> QED BY <1>4, <2>1 DEF Injection
<1> HIDE DEF f, n
<1>7. /\ IsFiniteSet(Producers \ {p}) /\ Cardinality(Producers) \in Nat
      /\ Cardinality(Producers \ {p}) = Cardinality(Producers) - 1
  BY RingAssumption, FS_RemoveElement, FS_CardinalityType
<1>8. Cardinality(1..n) <= Cardinality(Producers \ {p})
  BY <1>6, <1>7, FS_Injection
<1>9. Cardinality(1..n) = n
  <2>1. 1 \in Int /\ n \in Int
    BY <1>2
  <2>2. Cardinality(1..n) = IF 1 > n THEN 0 ELSE n - 1 + 1
    BY <2>1, FS_Interval
  <2> QED BY <1>2, <2>2
<1> QED BY <1>2, <1>7, <1>8, <1>9 DEF n

\* A nearly full ring of commands of at most m blocks holds as many as there
\* are producers.
LEMMA Crowded ==
  ASSUME NEW N \in Nat, NEW m \in Nat, NEW k \in Nat, NEW size \in Nat,
         (N + 1) * m <= size, k * m > size - 2 * m
  PROVE  N <= k
<1> SUFFICES ASSUME k + 1 <= N PROVE FALSE
  OBVIOUS
<1>1. PICK d \in Nat : N = k + 1 + d
  <2>1. N - (k + 1) \in Nat /\ N = k + 1 + (N - (k + 1))
    OBVIOUS
  <2> QED BY <2>1
<1>2. (N + 1) * m = k * m + 2 * m + d * m
  BY <1>1
<1>3. d * m >= 0 /\ d * m \in Int /\ k * m \in Int
  OBVIOUS
<1> QED BY <1>2, <1>3

\* Every step keeps the blocked producers fewer than the commands.
LEMMA RoomStep ==
  ASSUME IInv, IInv', LineInv, LineInv', NEW m, Roomy(m), RoomInv(m), [Next]_vars
  PROVE  RoomInv(m)'
<1>1. ASSUME UNCHANGED <<ring, blockedProducers>> PROVE RoomInv(m)'
  <2>1. UNCHANGED <<mem, head, tail, end, blockedProducers>>
    BY <1>1 DEF ring
  <2>2. Fifo' = Fifo
    BY <2>1, RingKept
  <2>3. Used' = Used /\ Starts' = Starts
    BY <2>1 DEF Used, Starts
  <2>4. Covered'
    BY <2>1, <2>3 DEF Covered, RoomInv
  <2> QED BY <2>1, <2>2, <2>4 DEF RoomInv
<1>2. /\ Len(Fifo) = Cardinality(Starts) /\ Len(Fifo) \in Nat
  BY CommandsType, FifoType
<1>4. ASSUME NEW p \in Producers, Enqueue(p) PROVE RoomInv(m)'
  <2>1. PICK c \in Sent : /\ Write(c) /\ (FitsAtHead(c.size) \/ FitsAtStart(c.size))
    BY <1>4, EnqueueWrites
  <2>2. Covered'
    BY <2>1, WrittenCovered DEF RoomInv, IInv, TypeInv
  <2>3. end' # 0 => Size - end' < m
    <3>1. c.size \in Nat /\ c.size \in CommandSizes
      BY Sizes DEF Sent
    <3>2. m \in Nat /\ c.size <= m
      BY <3>1 DEF Roomy
    <3>3. Size \in Nat /\ head \in Nat /\ end \in Nat
      BY RingType DEF IInv, TypeInv
    <3>4. end' = IF FitsAtHead(c.size) THEN end ELSE head
      BY <2>1 DEF Write
    <3>5. CASE FitsAtHead(c.size)
      BY <3>4, <3>5 DEF RoomInv
    <3>6. CASE ~ FitsAtHead(c.size)
      <4>1. c.size > Size - head
        BY <2>1, <3>6 DEF FitsAtStart
      <4> QED BY <3>1, <3>2, <3>3, <3>4, <3>6, <4>1
    <3> QED BY <3>5, <3>6
  <2>4. Fifo' = Append(Fifo, CallOf(cmd[p])) /\ blockedProducers' = blockedProducers
    BY <1>4, EnqueueAppends, Enqueued
  <2>5. Len(Fifo') = Len(Fifo) + 1
    BY <2>4, FifoType
  <2>6. Len(blockedProducers) \in Nat
    BY DEF IInv, TypeInv
  <2>7. Len(blockedProducers') <= Len(Fifo')
    BY <1>2, <2>4, <2>5, <2>6 DEF RoomInv
  <2> QED BY <2>2, <2>3, <2>7 DEF RoomInv
<1>5. ASSUME NEW p \in Producers, Block(p) PROVE RoomInv(m)'
  <2>1. UNCHANGED ring /\ pc[p] = "pushing"
        /\ blockedProducers' = Append(blockedProducers, event'[p])
        /\ ~ FitsAtHead(cmd[p].size) /\ ~ FitsAtStart(cmd[p].size)
    BY <1>5 DEF Block, Fits
  <2>2. UNCHANGED <<mem, head, tail, end>>
    BY <2>1 DEF ring
  <2>3. Fifo' = Fifo
    BY <2>2, RingKept
  <2>4. Used' = Used /\ Starts' = Starts
    BY <2>2 DEF Used, Starts
  <2>5. Covered'
    BY <2>2, <2>4 DEF Covered, RoomInv
  <2>6. cmd[p] \in Sent
    BY <2>1, Types DEF IInv, TypeInv
  <2>7. cmd[p].size \in Nat /\ cmd[p].size <= m /\ m \in Nat
    BY <2>6, Sizes DEF Roomy, Sent
  <2>8. Cardinality(Used) > Size - 2 * m
    BY <2>1, <2>7, NearlyFull DEF RoomInv
  <2>9. Cardinality(Used) \in Nat /\ Cardinality(Used) <= Cardinality(Starts) * m
    BY <2>7, UsedBound DEF RoomInv, Roomy
  <2>10. /\ Cardinality(Producers) \in Nat /\ Len(blockedProducers) \in Nat
         /\ Len(blockedProducers) + 1 <= Cardinality(Producers)
    BY <2>1, BlockedOthers
  <2>11. Size \in Nat /\ Cardinality(Starts) \in Nat
    BY <1>2, RingType DEF IInv, TypeInv
  <2>12. Cardinality(Starts) * m > Size - 2 * m
    <3> DEFINE q == Cardinality(Starts) * m
    <3>1. q \in Int
      BY <2>7, <2>11
    <3> HIDE DEF q
    <3>2. q > Size - 2 * m
      BY <2>7, <2>8, <2>9, <2>11, <3>1 DEF q
    <3> QED BY <3>2 DEF q
  <2>13. Cardinality(Producers) <= Cardinality(Starts)
    BY <2>7, <2>10, <2>11, <2>12, Crowded DEF Roomy
  <2>14. Len(blockedProducers') = Len(blockedProducers) + 1
    <3>1. blockedProducers \in Seq(Nat) /\ blockedProducers' \in Seq(Nat)
      BY DEF IInv, TypeInv
    <3> QED BY <2>1, <3>1
  <2>15. Len(blockedProducers') <= Len(Fifo')
    BY <1>2, <2>3, <2>10, <2>11, <2>13, <2>14
  <2> QED BY <2>2, <2>5, <2>15 DEF RoomInv
<1>6. CASE PopCommand
  <2>1. Covered'
    BY <1>6, TakenCovered DEF RoomInv, LineInv
  <2>2. end' # 0 => Size - end' < m
    <3>1. end' = end \/ end' = 0
      BY <1>6 DEF PopCommand, ReadEnd
    <3> QED BY <3>1 DEF RoomInv
  <2>3. Fifo # <<>> /\ Fifo' = Tail(Fifo)
    BY <1>6, PopTakes
  <2>4. Len(Fifo') = Len(Fifo) - 1 /\ Len(Fifo) >= 1
    BY <2>3, FifoType
  <2>5. blockedProducers \in Seq(Nat) /\ Len(blockedProducers) <= Len(Fifo)
    BY DEF IInv, TypeInv, RoomInv
  <2>6. blockedProducers' = IF blockedProducers = <<>> THEN <<>> ELSE Tail(blockedProducers)
    BY <1>6 DEF PopCommand
  <2>7. Len(blockedProducers') <= Len(Fifo')
    <3>1. CASE blockedProducers = <<>>
      BY <1>2, <2>4, <2>6, <3>1
    <3>2. CASE blockedProducers # <<>>
      <4>1. Len(blockedProducers') = Len(blockedProducers) - 1 /\ Len(blockedProducers) \in Nat
        BY <2>5, <2>6, <3>2
      <4> QED BY <1>2, <2>4, <2>5, <4>1
    <3> QED BY <3>1, <3>2
  <2> QED BY <2>1, <2>2, <2>7 DEF RoomInv
<1>7. ASSUME NEW p \in Producers, Call(p) PROVE UNCHANGED <<ring, blockedProducers>>
  BY <1>7 DEF Call, PushCall, PushExitCommand, pool
<1>8. ASSUME NEW p \in Producers, Refuse(p) \/ WaitEvent(p) \/ FreeNotifyEvent(p)
      PROVE  UNCHANGED <<ring, blockedProducers>>
  BY <1>8 DEF Refuse, WaitEvent, FreeNotifyEvent, pool
<1>9. ASSUME PopNothing \/ Poll \/ Execute \/ Notify \/ Exit
      PROVE  UNCHANGED <<ring, blockedProducers>>
  BY <1>9 DEF PopNothing, Poll, Execute, Notify, Exit, pool
<1>10. ASSUME UNCHANGED vars PROVE UNCHANGED <<ring, blockedProducers>>
  BY <1>10 DEF vars, pool
<1>11. ASSUME NEW p \in Producers, Call(p) \/ Continue(p) PROVE RoomInv(m)'
  BY <1>1, <1>4, <1>5, <1>7, <1>8, <1>11 DEF Continue
<1>12. ASSUME Run PROVE RoomInv(m)'
  BY <1>1, <1>6, <1>9, <1>12 DEF Run
<1> QED BY <1>1, <1>10, <1>11, <1>12 DEF Next

\* The ring is empty when its tail holds no command.
LEMMA EmptyRing ==
  ASSUME IInv, \A b \in Cells : mem[b] = NULL
  PROVE  IsEmpty
<1> SUFFICES ASSUME ~ IsEmpty PROVE FALSE
  OBVIOUS
<1>1. head \in 0..Size /\ tail \in 0..Size /\ end \in 0..Size /\ Size \in Nat
  BY RingType DEF IInv, TypeInv
<1>2. /\ head >= tail <=> end = 0
      /\ end # 0 => head < tail /\ tail < end
      /\ mem[tail] # NULL
  BY DEF IInv, RingInv, RingAssertions
<1>3. head # tail
  BY DEF IsEmpty
<1>4. tail \in Cells
  BY <1>1, <1>2, <1>3 DEF Cells
<1> QED BY <1>2, <1>4

\* When the loop has ended every command has been executed, whatever the number
\* of producers: the ring is empty when ~CircularBuffer asserts it.
THEOREM EmptiedAtTheEnd == Spec => [](consumer = "exited" => IsEmpty)
<1>1. QueueInv => (consumer = "exited" => IsEmpty)
  BY EmptyRing DEF QueueInv, ExitInv
<1> QED BY <1>1, QueueInitially, QueueInductive, PTL DEF Spec

\* And no producer is left blocked, as ~ThreadCommandQueueImpl asserts, when the
\* ring has room for one more command of the largest size than there are
\* producers: in 2048 bytes, with commands of at most 256, for seven.
THEOREM ConsumedAtTheEnd ==
  ASSUME NEW m \in Nat, \A s \in CommandSizes : s <= m,
         (Cardinality(Producers) + 1) * m <= Size
  PROVE  Spec => []ConsumedBeforeShutdown
<1>1. Roomy(m)
  BY DEF Roomy
<1>2. Init => RoomInv(m)
  <2> SUFFICES ASSUME Init PROVE RoomInv(m)
    OBVIOUS
  <2>1. head = 0 /\ tail = 0 /\ end = 0 /\ blockedProducers = <<>>
    BY DEF Init
  <2>2. Used = {}
    BY <2>1 DEF Used
  <2>3. QueueInv /\ Len(Fifo) = 0
    <3>1. QueueInv /\ Fifo = <<>>
      BY QueueInitially DEF Abstract!Init
    <3> QED BY <3>1
  <2> QED BY <2>1, <2>2, <2>3 DEF RoomInv, Covered
<1>3. QueueInv /\ RoomInv(m) /\ [Next]_vars => QueueInv' /\ RoomInv(m)'
  <2> SUFFICES ASSUME QueueInv, RoomInv(m), [Next]_vars PROVE QueueInv' /\ RoomInv(m)'
    OBVIOUS
  <2>1. QueueInv'
    BY QueueInductive
  <2>2. IInv /\ LineInv /\ IInv' /\ LineInv'
    BY <2>1 DEF QueueInv
  <2> QED BY <1>1, <2>1, <2>2, RoomStep
<1>4. QueueInv /\ RoomInv(m) => ConsumedBeforeShutdown
  <2> SUFFICES ASSUME QueueInv, RoomInv(m), consumer = "exited"
               PROVE  IsEmpty /\ blockedProducers = <<>>
    BY DEF ConsumedBeforeShutdown
  <2>1. IInv /\ LineInv /\ \A b \in Cells : mem[b] = NULL
    BY DEF QueueInv, ExitInv
  <2>2. IsEmpty
    BY <2>1, EmptyRing
  <2>3. Fifo = <<>>
    BY <2>1, EmptyFifo
  <2>4. Len(blockedProducers) <= 0 /\ blockedProducers \in Seq(Nat)
    BY <2>1, <2>3 DEF RoomInv, IInv, TypeInv
  <2> QED BY <2>2, <2>4
<1> QED BY <1>2, <1>3, <1>4, QueueInitially, PTL DEF Spec

=============================================================================
