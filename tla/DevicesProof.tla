------------------------------ MODULE DevicesProof -----------------------------
(***************************************************************************)
(* The counts of the device manager are those of the owners, its thread    *)
(* outlives every device, and it uses its command queue as a CommandQueue  *)
(* allows, for any number of threads and of devices.                       *)
(***************************************************************************)
EXTENDS Devices, FiniteSetTheorems, FunctionTheorems, SequenceTheorems, TLAPS

-----------------------------------------------------------------------------
(* The inductive invariant. *)

\* A reference on its way.
Release(x) == Command("release", x, NULL)

\* The terms of RefCountsOwners, and of HandleCountsOwners, of any values.
HeldBy(h, x) == Count(UNION {{t} \X (1..h[t][x]) : t \in Threads})
PassedIn(q, x) == Count({i \in DOMAIN q : q[i] = Release(x)})
InHand(w, s, x) == IF w = "serving" /\ s = Release(x) THEN 1 ELSE 0
Living(r) == Count({d \in Devices : r[d] > 0})
HandlesOf(f, d) == Count({t \in Threads : f[t] = d})

Owners(r, h, q, w, s, x) ==
  HeldBy(h, x) + (PassedIn(q, x) + InHand(w, s, x)) + IF x = Manager THEN Living(r) ELSE 0

\* A thread that is in a call has the reference or the handle it calls with.
ThreadsOK ==
  \A t \in Threads :
    /\ pc[t] \in {"waiting", "enumerated"} => \E x \in Objects : holds[t][x] > 0
    /\ pc[t] \in {"requesting", "created"} => holds[t][Manager] > 0
    /\ pc[t] \in {"requesting", "dropping"} => handle[t] # NULL
    /\ pc[t] = "enumerated" => handle[t] = NULL
    /\ pc[t] = "releasing" => releasing[t] # NULL /\ holds[t][releasing[t]] > 0

\* The caller of a command waits for it, with what the command refers to.
Called(c) ==
  /\ c.op = "create" => /\ pc[c.by] = "waiting" /\ handle[c.by] = c.object
                        /\ holds[c.by][Manager] > 0
  /\ c.op = "enumerate" => pc[c.by] = "waiting" /\ handle[c.by] = NULL

\* Of a command at a time.
QueueOK ==
  \A i \in 1..Len(queue) :
    /\ Called(queue[i])
    /\ queue[i].by # NULL =>
         /\ \A j \in 1..Len(queue) : queue[j].by = queue[i].by => j = i
         /\ serving # NULL => serving.by # queue[i].by

ServingOK == serving # NULL => Called(serving)

\* What the manager's thread has in hand.
WorkerOK ==
  /\ worker \in {"popping", "exited"} <=> serving = NULL
  /\ worker = "keeping" <=> keepAlive # NULL
  /\ worker \in {"finishing", "closing", "keeping"} => serving # ExitCommand

\* The end: nothing but the exit command follows the manager's death.
LifeOK ==
  /\ Alive(Manager) =>
       /\ ~ exited /\ worker \notin {"closing", "exited"} /\ serving # ExitCommand
       /\ \A i \in 1..Len(queue) : queue[i] # ExitCommand
  /\ ~ Alive(Manager) =>
       \/ worker = "closing" /\ queue = <<>> /\ ~ exited
       \/ worker \in {"finishing", "popping"} /\ queue = <<ExitCommand>> /\ ~ exited
       \/ worker = "serving" /\ serving = ExitCommand /\ queue = <<>> /\ ~ exited
       \/ worker \in {"popping", "exited"} /\ queue = <<>> /\ exited

\* Who waits for what.
CallOK == ThreadsOK /\ QueueOK /\ ServingOK

\* What every step preserves.
IInv == CountsOwners /\ CallOK /\ WorkerOK /\ LifeOK

-----------------------------------------------------------------------------
(* Commands. *)

\* What is pushed can be pushed.
LEMMA SentCommands ==
  /\ ExitCommand \in Sent
  /\ \A t \in Threads : Command("enumerate", NULL, t) \in Sent
  /\ \A t \in Threads, d \in Devices : Command("create", d, t) \in Sent
  /\ \A x \in Objects : Release(x) \in Sent
  BY DEF Sent, Command, ExitCommand, Release

\* The fields of a command, by its kind.
LEMMA Fields ==
  ASSUME NEW c \in Sent
  PROVE  /\ c # NULL
         /\ c.op \in {"exit", "enumerate", "create", "release"}
         /\ c.op = "exit" <=> c = ExitCommand
         /\ c.op \in {"create", "enumerate"} <=> c.by # NULL
         /\ c.by # NULL => c.by \in Threads
         /\ c.op = "create" => c.object \in Devices
         /\ c.op = "release" => c.object \in Objects /\ c = Release(c.object)
         /\ \A x : c = Release(x) => c.op = "release" /\ c.object = x
  BY ObjectsAssumption DEF Sent, Command, ExitCommand, Release

\* The fields of the commands that threads push.
LEMMA Made ==
  /\ ExitCommand.op = "exit" /\ ExitCommand.by = NULL
  /\ \A t, d : /\ Command("create", d, t).op = "create"
               /\ Command("create", d, t).object = d /\ Command("create", d, t).by = t
  /\ \A t : /\ Command("enumerate", NULL, t).op = "enumerate"
            /\ Command("enumerate", NULL, t).by = t
  /\ \A x : Release(x).op = "release" /\ Release(x).object = x /\ Release(x).by = NULL
  BY DEF Command, ExitCommand, Release

-----------------------------------------------------------------------------
(* Counting. *)

\* A set of one member more.
LEMMA OneMore ==
  ASSUME NEW S, NEW T, NEW e, IsFiniteSet(S), e \notin S, T = S \cup {e}
  PROVE  IsFiniteSet(T) /\ Count(S) \in Nat /\ Count(T) = Count(S) + 1
  BY FS_AddElement, FS_CardinalityType DEF Count

\* A set with a member.
LEMMA NotNone ==
  ASSUME NEW S, NEW e \in S, IsFiniteSet(S)
  PROVE  Count(S) \in Nat /\ Count(S) > 0
  BY FS_EmptySet, FS_CardinalityType DEF Count

\* A finite set is counted, and one that has no members is empty.
LEMMA Counted ==
  ASSUME NEW S, IsFiniteSet(S)
  PROVE  Count(S) \in Nat /\ (Count(S) = 0 => S = {})
  BY FS_EmptySet, FS_CardinalityType DEF Count

\* The references of the threads to an object are finitely many.
LEMMA HeldFinite ==
  ASSUME NEW h \in [Threads -> [Objects -> Nat]], NEW x \in Objects
  PROVE  /\ IsFiniteSet(UNION {{t} \X (1..h[t][x]) : t \in Threads})
         /\ HeldBy(h, x) \in Nat
<1> DEFINE each(t) == {t} \X (1..h[t][x])
           S == {each(t) : t \in Threads}
           f == [t \in Threads |-> each(t)]
<1>1. IsFiniteSet(S)
  <2>1. f \in Surjection(Threads, S)
    BY DEF Surjection
  <2> QED BY <2>1, FS_Surjection, ObjectsAssumption
<1>2. ASSUME NEW T \in S PROVE IsFiniteSet(T)
  <2>1. PICK t \in Threads : T = {t} \X (1..h[t][x])
    OBVIOUS
  <2>2. IsFiniteSet({t})
    BY FS_Singleton
  <2>3. IsFiniteSet(1..h[t][x])
    <3>1. h[t][x] \in Int
      OBVIOUS
    <3> QED BY <3>1, FS_Interval
  <2> QED BY <2>1, <2>2, <2>3, FS_Product
<1>3. IsFiniteSet(UNION S)
  BY <1>1, <1>2, FS_UNION
<1> QED BY <1>3, FS_CardinalityType DEF HeldBy, Count

\* A thread takes a reference more, or seen backwards gives one back.
LEMMA HeldMore ==
  ASSUME NEW h \in [Threads -> [Objects -> Nat]], NEW g \in [Threads -> [Objects -> Nat]],
         NEW t \in Threads, NEW x \in Objects,
         g[t][x] = h[t][x] + 1,
         \A u \in Threads : u # t => g[u][x] = h[u][x]
  PROVE  HeldBy(g, x) = HeldBy(h, x) + 1
<1> DEFINE S == UNION {{u} \X (1..h[u][x]) : u \in Threads}
           T == UNION {{u} \X (1..g[u][x]) : u \in Threads}
           e == <<t, g[t][x]>>
<1>1. h[t][x] \in Nat /\ g[t][x] \in Nat
  OBVIOUS
<1>2. e \notin S
  BY <1>1
<1>3. T = S \cup {e}
  <2>1. ASSUME NEW p \in T PROVE p \in S \cup {e}
    <3>1. PICK u \in Threads : p \in {u} \X (1..g[u][x])
      OBVIOUS
    <3>2. CASE u = t
      <4>1. PICK n \in 1..g[t][x] : p = <<t, n>>
        BY <3>1, <3>2
      <4>2. CASE n = g[t][x]
        BY <4>1, <4>2
      <4>3. CASE n # g[t][x]
        <5>1. n \in 1..h[t][x]
          BY <1>1, <4>1, <4>3
        <5> QED BY <4>1, <5>1
      <4> QED BY <4>2, <4>3
    <3>3. CASE u # t
      BY <3>1, <3>3
    <3> QED BY <3>2, <3>3
  <2>2. ASSUME NEW p \in S PROVE p \in T
    <3>1. PICK u \in Threads : p \in {u} \X (1..h[u][x])
      OBVIOUS
    <3>2. 1..h[u][x] \subseteq 1..g[u][x]
      <4>1. h[u][x] \in Nat /\ g[u][x] \in Nat
        OBVIOUS
      <4>2. h[u][x] <= g[u][x]
        BY <1>1, <4>1
      <4> QED BY <4>1, <4>2
    <3> QED BY <3>1, <3>2
  <2>3. e \in T
    <3>1. g[t][x] \in 1..g[t][x]
      BY <1>1
    <3> QED BY <3>1
  <2> QED BY <2>1, <2>2, <2>3
<1>4. IsFiniteSet(S)
  BY HeldFinite
<1> HIDE DEF S, T, e
<1>5. Count(T) = Count(S) + 1
  BY <1>2, <1>3, <1>4, OneMore
<1> QED BY <1>5 DEF S, T, HeldBy

\* The references to an object depend on what the threads hold of it.
LEMMA HeldSame ==
  ASSUME NEW h, NEW g, NEW x, \A u \in Threads : g[u][x] = h[u][x]
  PROVE  HeldBy(g, x) = HeldBy(h, x)
<1>1. {{u} \X (1..g[u][x]) : u \in Threads} = {{u} \X (1..h[u][x]) : u \in Threads}
  OBVIOUS
<1> QED BY <1>1 DEF HeldBy

\* A thread that holds an object is counted.
LEMMA HeldSome ==
  ASSUME NEW h \in [Threads -> [Objects -> Nat]], NEW t \in Threads, NEW x \in Objects,
         h[t][x] > 0
  PROVE  HeldBy(h, x) > 0
<1> DEFINE S == UNION {{u} \X (1..h[u][x]) : u \in Threads}
<1>1. <<t, 1>> \in S
  <2>1. h[t][x] \in Nat
    OBVIOUS
  <2>2. 1 \in 1..h[t][x]
    BY <2>1
  <2> QED BY <2>2
<1>2. IsFiniteSet(S)
  BY HeldFinite
<1> HIDE DEF S
<1>3. Count(S) > 0
  BY <1>1, <1>2, NotNone
<1> QED BY <1>3 DEF S, HeldBy

\* References are passed by finitely many commands.
LEMMA PassedFinite ==
  ASSUME NEW q \in Seq(Sent), NEW x
  PROVE  /\ IsFiniteSet({i \in DOMAIN q : q[i] = Release(x)})
         /\ PassedIn(q, x) \in Nat
<1>1. IsFiniteSet(1..Len(q))
  <2>1. Len(q) \in Int
    OBVIOUS
  <2> QED BY <2>1, FS_Interval
<1>2. {i \in DOMAIN q : q[i] = Release(x)} \in SUBSET (1..Len(q))
  OBVIOUS
<1>3. IsFiniteSet({i \in DOMAIN q : q[i] = Release(x)})
  BY <1>1, <1>2, FS_Subset
<1> QED BY <1>3, FS_CardinalityType DEF PassedIn, Count

\* A command at the end passes one more reference, or no more.
LEMMA PassedAppend ==
  ASSUME NEW q \in Seq(Sent), NEW c \in Sent, NEW x
  PROVE  /\ c = Release(x) => PassedIn(Append(q, c), x) = PassedIn(q, x) + 1
         /\ c # Release(x) => PassedIn(Append(q, c), x) = PassedIn(q, x)
<1> DEFINE p == Append(q, c)
           n == Len(q) + 1
           S == {i \in DOMAIN q : q[i] = Release(x)}
           T == {i \in DOMAIN p : p[i] = Release(x)}
<1>1. /\ DOMAIN q = 1..Len(q) /\ DOMAIN p = 1..n /\ Len(q) \in Nat
      /\ p[n] = c /\ \A i \in 1..Len(q) : p[i] = q[i]
  OBVIOUS
<1>2. n \notin S
  BY <1>1
<1>3. IsFiniteSet(S)
  BY PassedFinite
<1> HIDE DEF p
<1>4. ASSUME c = Release(x) PROVE Count(T) = Count(S) + 1
  <2>1. T = S \cup {n}
    BY <1>1, <1>4
  <2> HIDE DEF S, T, n
  <2> QED BY <1>2, <1>3, <2>1, OneMore
<1>5. ASSUME c # Release(x) PROVE T = S
  BY <1>1, <1>5
<1> QED BY <1>4, <1>5 DEF p, PassedIn

\* The first command is taken, with the reference it passes.
LEMMA PassedTail ==
  ASSUME NEW q \in Seq(Sent), q # <<>>, NEW x
  PROVE  /\ Head(q) = Release(x) => PassedIn(q, x) = PassedIn(Tail(q), x) + 1
         /\ Head(q) # Release(x) => PassedIn(q, x) = PassedIn(Tail(q), x)
<1> DEFINE p == Tail(q)
           S == {i \in DOMAIN q : q[i] = Release(x)}
           T == {i \in DOMAIN p : p[i] = Release(x)}
           U == {i \in DOMAIN q : q[i] = Release(x) /\ i # 1}
           f == [i \in T |-> i + 1]
<1>1. /\ Len(q) \in Nat \ {0} /\ DOMAIN q = 1..Len(q) /\ DOMAIN p = 1..Len(q) - 1
      /\ q[1] = Head(q) /\ \A i \in 1..Len(q) - 1 : p[i] = q[i + 1]
  OBVIOUS
<1>2. p \in Seq(Sent)
  OBVIOUS
<1> HIDE DEF p
<1>3. IsFiniteSet(T) /\ IsFiniteSet(S)
  BY <1>2, PassedFinite
<1>4. f \in Bijection(T, U)
  <2>1. f \in Surjection(T, U)
    <3>1. ASSUME NEW i \in T PROVE i + 1 \in U
      BY <1>1
    <3>2. ASSUME NEW i \in U PROVE i - 1 \in T /\ f[i - 1] = i
      <4>1. i \in Nat /\ i > 1 /\ i <= Len(q) /\ q[i] = Release(x)
        BY <1>1
      <4>2. i - 1 \in 1..Len(q) - 1
        BY <4>1, <1>1
      <4>3. p[i - 1] = q[i]
        <5>1. p[i - 1] = q[(i - 1) + 1]
          BY <1>1, <4>2
        <5> QED BY <4>1, <5>1
      <4>4. i - 1 \in T
        BY <1>1, <4>1, <4>2, <4>3
      <4> QED BY <4>1, <4>4
    <3> HIDE DEF T, U
    <3> QED BY <3>1, <3>2 DEF Surjection
  <2>2. f \in Injection(T, U)
    <3>1. \A i \in T : i \in Int
      BY <1>1
    <3>2. f \in [T -> U]
      BY <2>1 DEF Surjection
    <3>3. \A i, j \in T : f[i] = f[j] => i = j
      <4> HIDE DEF T, U
      <4> QED BY <3>1
    <3> HIDE DEF T, U, f
    <3> QED BY <3>2, <3>3 DEF Injection, IsInjective
  <2> QED BY <2>1, <2>2 DEF Bijection
<1>5. IsFiniteSet(U) /\ Count(U) = Count(T)
  BY <1>3, <1>4, FS_Bijection DEF ExistsBijection, Count
<1>6. ASSUME Head(q) = Release(x) PROVE Count(S) = Count(U) + 1
  <2>1. S = U \cup {1} /\ 1 \notin U
    BY <1>1, <1>6
  <2> HIDE DEF S, U
  <2> QED BY <1>5, <2>1, OneMore
<1>7. ASSUME Head(q) # Release(x) PROVE S = U
  BY <1>1, <1>7
<1> HIDE DEF S, T, U, f
<1>8. /\ Head(q) = Release(x) => Count(S) = Count(T) + 1
      /\ Head(q) # Release(x) => Count(S) = Count(T)
  BY <1>5, <1>6, <1>7
<1> QED BY <1>8 DEF p, S, T, PassedIn

\* A command that passes a reference is counted.
LEMMA PassedSome ==
  ASSUME NEW q \in Seq(Sent), NEW i \in 1..Len(q), NEW x, q[i] = Release(x)
  PROVE  PassedIn(q, x) > 0
<1> DEFINE S == {j \in DOMAIN q : q[j] = Release(x)}
<1>1. i \in S /\ IsFiniteSet(S)
  BY PassedFinite
<1> HIDE DEF S
<1>2. Count(S) > 0
  BY <1>1, NotNone
<1> QED BY <1>2 DEF S, PassedIn

\* The devices that live are finitely many.
LEMMA LivingFinite ==
  ASSUME NEW r
  PROVE  IsFiniteSet({d \in Devices : r[d] > 0}) /\ Living(r) \in Nat
<1>1. {d \in Devices : r[d] > 0} \in SUBSET Devices
  OBVIOUS
<1>2. IsFiniteSet({d \in Devices : r[d] > 0})
  BY <1>1, FS_Subset, ObjectsAssumption
<1> QED BY <1>2, FS_CardinalityType DEF Living, Count

\* A device begins to live, or seen backwards dies.
LEMMA LivingMore ==
  ASSUME NEW r, NEW s, NEW d \in Devices, ~ (r[d] > 0), s[d] > 0,
         \A e \in Devices : e # d => (s[e] > 0 <=> r[e] > 0)
  PROVE  Living(s) = Living(r) + 1
<1> DEFINE S == {e \in Devices : r[e] > 0}
           T == {e \in Devices : s[e] > 0}
<1>1. d \notin S /\ T = S \cup {d} /\ IsFiniteSet(S)
  BY LivingFinite
<1> HIDE DEF S, T
<1>2. Count(T) = Count(S) + 1
  BY <1>1, OneMore
<1> QED BY <1>2 DEF S, T, Living

\* The devices that live are the same.
LEMMA LivingSame ==
  ASSUME NEW r, NEW s, \A d \in Devices : s[d] > 0 <=> r[d] > 0
  PROVE  Living(s) = Living(r)
<1>1. {d \in Devices : s[d] > 0} = {d \in Devices : r[d] > 0}
  OBVIOUS
<1> QED BY <1>1 DEF Living

\* A device that lives is counted.
LEMMA LivingSome ==
  ASSUME NEW r, NEW d \in Devices, r[d] > 0
  PROVE  Living(r) > 0
<1> DEFINE S == {e \in Devices : r[e] > 0}
<1>1. d \in S /\ IsFiniteSet(S)
  BY LivingFinite
<1> HIDE DEF S
<1>2. Count(S) > 0
  BY <1>1, NotNone
<1> QED BY <1>2 DEF S, Living

\* The handles of a descriptor are finitely many.
LEMMA HandlesFinite ==
  ASSUME NEW f, NEW d
  PROVE  IsFiniteSet({t \in Threads : f[t] = d}) /\ HandlesOf(f, d) \in Nat
<1>1. {t \in Threads : f[t] = d} \in SUBSET Threads
  OBVIOUS
<1>2. IsFiniteSet({t \in Threads : f[t] = d})
  BY <1>1, FS_Subset, ObjectsAssumption
<1> QED BY <1>2, FS_CardinalityType DEF HandlesOf, Count

\* A thread takes a handle, or seen backwards drops it.
LEMMA HandlesMore ==
  ASSUME NEW f, NEW g, NEW t \in Threads, NEW d, f[t] # d, g[t] = d,
         \A u \in Threads : u # t => g[u] = f[u]
  PROVE  HandlesOf(g, d) = HandlesOf(f, d) + 1
<1> DEFINE S == {u \in Threads : f[u] = d}
           T == {u \in Threads : g[u] = d}
<1>1. t \notin S /\ T = S \cup {t} /\ IsFiniteSet(S)
  BY HandlesFinite
<1> HIDE DEF S, T
<1>2. Count(T) = Count(S) + 1
  BY <1>1, OneMore
<1> QED BY <1>2 DEF S, T, HandlesOf

\* The handles of a descriptor are the same.
LEMMA HandlesSame ==
  ASSUME NEW f, NEW g, NEW d, \A u \in Threads : g[u] = d <=> f[u] = d
  PROVE  HandlesOf(g, d) = HandlesOf(f, d)
<1>1. {u \in Threads : g[u] = d} = {u \in Threads : f[u] = d}
  OBVIOUS
<1> QED BY <1>1 DEF HandlesOf

\* A handle is counted.
LEMMA HandlesSome ==
  ASSUME NEW f, NEW t \in Threads
  PROVE  HandlesOf(f, f[t]) > 0
<1> DEFINE S == {u \in Threads : f[u] = f[t]}
<1>1. t \in S /\ IsFiniteSet(S)
  BY HandlesFinite
<1> HIDE DEF S
<1>2. Count(S) > 0
  BY <1>1, NotNone
<1> QED BY <1>2 DEF S, HandlesOf
-----------------------------------------------------------------------------
(* Who is referred to lives. *)

\* The sum, of this state and of the next.
LEMMA Balance ==
  /\ RefCountsOwners <=>
       \A x \in Objects : refCount[x] = Owners(refCount, holds, queue, worker, serving, x)
  /\ RefCountsOwners' <=>
       \A x \in Objects : refCount'[x] = Owners(refCount', holds', queue', worker', serving', x)
<1>1. RefCountsOwners <=>
        \A x \in Objects : refCount[x] = Owners(refCount, holds, queue, worker, serving, x)
  BY DEF RefCountsOwners, Owners, Held, HeldBy, Passed, PassedIn, InHand, Living, Alive, Release
<1>2. RefCountsOwners' <=>
        \A x \in Objects : refCount'[x] = Owners(refCount', holds', queue', worker', serving', x)
  BY DEF RefCountsOwners, Owners, Held, HeldBy, Passed, PassedIn, InHand, Living, Alive, Release
<1> QED BY <1>1, <1>2

\* Its terms are numbers.
LEMMA Terms ==
  ASSUME NEW r, NEW h \in [Threads -> [Objects -> Nat]], NEW q \in Seq(Sent), NEW w, NEW s,
         NEW x \in Objects
  PROVE  /\ HeldBy(h, x) \in Nat /\ PassedIn(q, x) \in Nat /\ InHand(w, s, x) \in {0, 1}
         /\ Living(r) \in Nat /\ Owners(r, h, q, w, s, x) \in Nat
         /\ Owners(r, h, q, w, s, x) >= HeldBy(h, x)
         /\ Owners(r, h, q, w, s, x) >= PassedIn(q, x) + InHand(w, s, x)
         /\ Owners(r, h, q, w, s, Manager) >= Living(r)
<1>1. HeldBy(h, x) \in Nat /\ HeldBy(h, Manager) \in Nat
  BY HeldFinite DEF Objects
<1>2. PassedIn(q, x) \in Nat /\ PassedIn(q, Manager) \in Nat
  BY PassedFinite
<1>3. InHand(w, s, x) \in {0, 1} /\ InHand(w, s, Manager) \in {0, 1}
  BY DEF InHand
<1>4. Living(r) \in Nat
  BY LivingFinite
<1> QED BY <1>1, <1>2, <1>3, <1>4 DEF Owners

\* A device that lives keeps the manager alive.
LEMMA DeviceKeepsManager ==
  ASSUME CountsOwners, NEW x \in Objects, refCount[x] > 0
  PROVE  refCount[Manager] > 0
<1>1. CASE x = Manager
  BY <1>1
<1>2. CASE x # Manager
  <2>1. Living(refCount) > 0
    BY <1>2, LivingSome DEF Objects
  <2>2. /\ Owners(refCount, holds, queue, worker, serving, Manager) >= Living(refCount)
        /\ Owners(refCount, holds, queue, worker, serving, Manager) \in Nat
        /\ Living(refCount) \in Nat
    BY Terms DEF CountsOwners, TypeOK, Objects
  <2>3. refCount[Manager] = Owners(refCount, holds, queue, worker, serving, Manager)
    BY Balance DEF CountsOwners, Objects
  <2> QED BY <2>1, <2>2, <2>3
<1> QED BY <1>1, <1>2

\* What a thread holds lives.
LEMMA Holder ==
  ASSUME CountsOwners, NEW t \in Threads, NEW x \in Objects, holds[t][x] > 0
  PROVE  refCount[x] > 0 /\ refCount[Manager] > 0
<1>1. holds \in [Threads -> [Objects -> Nat]] /\ queue \in Seq(Sent)
  BY DEF CountsOwners, TypeOK
<1>2. HeldBy(holds, x) > 0
  BY <1>1, HeldSome
<1>3. /\ Owners(refCount, holds, queue, worker, serving, x) >= HeldBy(holds, x)
      /\ Owners(refCount, holds, queue, worker, serving, x) \in Nat
      /\ HeldBy(holds, x) \in Nat
  BY <1>1, Terms
<1>4. refCount[x] = Owners(refCount, holds, queue, worker, serving, x)
  BY Balance DEF CountsOwners
<1>5. refCount[x] > 0
  BY <1>2, <1>3, <1>4
<1> QED BY <1>5, DeviceKeepsManager

\* What is passed lives.
LEMMA Passer ==
  ASSUME CountsOwners, NEW x \in Objects,
         \/ \E i \in 1..Len(queue) : queue[i] = Release(x)
         \/ worker = "serving" /\ serving = Release(x)
  PROVE  refCount[x] > 0 /\ refCount[Manager] > 0
<1>1. holds \in [Threads -> [Objects -> Nat]] /\ queue \in Seq(Sent)
  BY DEF CountsOwners, TypeOK
<1>2. PassedIn(queue, x) \in Nat /\ InHand(worker, serving, x) \in {0, 1}
  BY <1>1, Terms
<1>3. PassedIn(queue, x) + InHand(worker, serving, x) > 0
  <2>1. CASE \E i \in 1..Len(queue) : queue[i] = Release(x)
    <3>1. PassedIn(queue, x) > 0
      BY <1>1, <2>1, PassedSome
    <3> QED BY <1>2, <3>1
  <2>2. CASE worker = "serving" /\ serving = Release(x)
    <3>1. InHand(worker, serving, x) = 1
      BY <2>2 DEF InHand
    <3> QED BY <1>2, <3>1
  <2> QED BY <2>1, <2>2
<1>4. /\ Owners(refCount, holds, queue, worker, serving, x)
           >= PassedIn(queue, x) + InHand(worker, serving, x)
      /\ Owners(refCount, holds, queue, worker, serving, x) \in Nat
  BY <1>1, Terms
<1>5. refCount[x] = Owners(refCount, holds, queue, worker, serving, x)
  BY Balance DEF CountsOwners
<1>6. refCount[x] > 0
  BY <1>2, <1>3, <1>4, <1>5
<1> QED BY <1>6, DeviceKeepsManager

\* The counts are positive where the calls rely on them.
LEMMA Referred ==
  ASSUME IInv
  PROVE  /\ \A t \in Threads, x \in Objects :
              holds[t][x] > 0 => refCount[x] > 0 /\ refCount[Manager] > 0
         /\ \A t \in Threads :
              pc[t] \in {"waiting", "enumerated", "requesting", "created", "releasing"} =>
                refCount[Manager] > 0
         /\ Serving("release") => /\ serving \in Sent /\ serving.object \in Objects
                                  /\ serving = Release(serving.object)
                                  /\ refCount[serving.object] > 0 /\ refCount[Manager] > 0
         /\ Serving("create") \/ Serving("enumerate") =>
              serving \in Sent /\ refCount[Manager] > 0
<1>1. \A t \in Threads, x \in Objects :
        holds[t][x] > 0 => refCount[x] > 0 /\ refCount[Manager] > 0
  BY Holder DEF IInv
<1>2. ASSUME NEW t \in Threads,
             pc[t] \in {"waiting", "enumerated", "requesting", "created", "releasing"}
      PROVE  refCount[Manager] > 0
  <2>1. \E x \in Objects : holds[t][x] > 0
    <3>1. CASE pc[t] \in {"waiting", "enumerated"}
      BY <3>1 DEF IInv, CallOK, ThreadsOK
    <3>2. CASE pc[t] \in {"requesting", "created"}
      BY <3>2 DEF IInv, CallOK, ThreadsOK, Objects
    <3>3. CASE pc[t] = "releasing"
      <4>1. releasing[t] \in Objects
        BY <3>3 DEF IInv, CallOK, ThreadsOK, CountsOwners, TypeOK
      <4> QED BY <3>3, <4>1 DEF IInv, CallOK, ThreadsOK
    <3> QED BY <1>2, <3>1, <3>2, <3>3
  <2> QED BY <1>1, <2>1
<1>3. worker = "serving" => serving \in Sent
  BY DEF IInv, CountsOwners, TypeOK, WorkerOK
<1>4. ASSUME Serving("release")
      PROVE  /\ serving.object \in Objects /\ serving = Release(serving.object)
             /\ refCount[serving.object] > 0 /\ refCount[Manager] > 0
  <2>1. worker = "serving" /\ serving \in Sent /\ serving.op = "release"
    BY <1>3, <1>4 DEF Serving
  <2>2. serving.object \in Objects /\ serving = Release(serving.object)
    BY <2>1, Fields
  <2> QED BY <2>1, <2>2, Passer DEF IInv
<1>5. ASSUME Serving("create") \/ Serving("enumerate")
      PROVE  refCount[Manager] > 0
  <2>1. serving \in Sent /\ serving # NULL /\ serving.op \in {"create", "enumerate"}
    BY <1>3, <1>5, ObjectsAssumption DEF Serving
  <2>2. serving.by \in Threads
    BY <2>1, Fields
  <2>3. pc[serving.by] = "waiting"
    BY <2>1 DEF IInv, CallOK, ServingOK, Called
  <2> QED BY <1>2, <2>2, <2>3
<1> QED BY <1>1, <1>2, <1>3, <1>4, <1>5 DEF Serving
-----------------------------------------------------------------------------
(* Every step preserves the types. *)

\* A command that can be pushed.
LEMMA PushType ==
  ASSUME queue \in Seq(Sent), NEW c \in Sent, Push(c)
  PROVE  queue' \in Seq(Sent) /\ UNCHANGED <<serving, exited>>
  BY DEF Push

\* The types of the variables.
LEMMA Types ==
  ASSUME IInv
  PROVE  /\ refCount \in [Objects -> Nat] /\ handleCount \in [Devices -> Nat]
         /\ desc \in [Devices -> {"none", "listed", "removed"}]
         /\ enumerated \in [Devices -> BOOLEAN]
         /\ queue \in Seq(Sent) /\ serving \in Sent \cup {NULL} /\ exited \in BOOLEAN
         /\ keepAlive \in Devices \cup {NULL}
         /\ holds \in [Threads -> [Objects -> Nat]]
         /\ handle \in [Threads -> Devices \cup {NULL}]
         /\ releasing \in [Threads -> Objects \cup {NULL}]
         /\ Devices \subseteq Objects /\ Manager \in Objects /\ Manager \notin Devices
         /\ NULL \notin Devices /\ NULL \notin Objects /\ NULL \notin Sent /\ NULL \notin Threads
  BY ObjectsAssumption DEF IInv, CountsOwners, TypeOK, Objects

\* The counts of the handles.
LEMMA HandleTerms ==
  ASSUME IInv, NEW d \in Devices
  PROVE  /\ handleCount[d] \in Nat /\ HandlesOf(handle, d) \in Nat
         /\ handleCount[d] = HandlesOf(handle, d) + (IF refCount[d] > 0 THEN 1 ELSE 0)
                             + (IF keepAlive = d THEN 1 ELSE 0)
         /\ handleCount[d] > 0 => desc[d] # "none"
         /\ \A t \in Threads : handle[t] = d => handleCount[d] > 0
         /\ keepAlive = d => handleCount[d] > 0
<1>1. handleCount[d] \in Nat
  BY Types
<1>2. HandlesOf(handle, d) \in Nat
  BY HandlesFinite
<1>3. handleCount[d] = HandlesOf(handle, d) + (IF refCount[d] > 0 THEN 1 ELSE 0)
                       + (IF keepAlive = d THEN 1 ELSE 0)
  BY DEF IInv, CountsOwners, HandleCountsOwners, HandlesOf, Alive
<1>4. handleCount[d] > 0 => desc[d] # "none"
  BY DEF IInv, CountsOwners, HandleCountsOwners
<1>5. ASSUME NEW t \in Threads, handle[t] = d PROVE handleCount[d] > 0
  <2>1. HandlesOf(handle, d) > 0
    BY <1>5, HandlesSome
  <2> QED BY <1>2, <1>3, <2>1
<1>6. keepAlive = d => handleCount[d] > 0
  BY <1>2, <1>3
<1> QED BY <1>1, <1>2, <1>3, <1>4, <1>5, <1>6

\* The counts and the references keep their types.
LEMMA CountTypes ==
  ASSUME IInv, [Next]_vars
  PROVE  /\ refCount' \in [Objects -> Nat]
         /\ holds' \in [Threads -> [Objects -> Nat]]
         /\ releasing' \in [Threads -> Objects \cup {NULL}]
<1> DEFINE Typed == /\ refCount' \in [Objects -> Nat]
                    /\ holds' \in [Threads -> [Objects -> Nat]]
                    /\ releasing' \in [Threads -> Objects \cup {NULL}]
<1>0. /\ refCount \in [Objects -> Nat] /\ holds \in [Threads -> [Objects -> Nat]]
      /\ releasing \in [Threads -> Objects \cup {NULL}] /\ Manager \in Objects
      /\ Devices \subseteq Objects
  BY Types
<1>1. CASE UNCHANGED <<refCount, holds, releasing>>
  BY <1>0, <1>1
<1>2. ASSUME NEW t \in Threads, CreateDevice(t) PROVE Typed
  BY <1>0, <1>2 DEF CreateDevice
<1>3. ASSUME NEW t \in Threads, NEW x \in Objects, DeviceRelease(t, x) PROVE Typed
  <2>1. holds[t][x] \in Nat /\ refCount[x] \in Nat
    BY <1>0
  <2>2. holds[t][x] > 0
    BY <1>3 DEF DeviceRelease, IInv, CallOK, ThreadsOK
  <2>3. refCount[x] > 0
    BY <2>2, Referred
  <2>4. CASE IsLast(x)
    BY <1>0, <1>3, <2>4 DEF DeviceRelease
  <2>5. CASE ~ IsLast(x)
    <3>1. refCount[x] - 1 \in Nat /\ holds[t][x] - 1 \in Nat
      BY <2>1, <2>2, <2>3
    <3>2. /\ refCount' = [refCount EXCEPT ![x] = refCount[x] - 1]
          /\ holds' = [holds EXCEPT ![t][x] = holds[t][x] - 1] /\ releasing' = releasing
      BY <1>0, <1>3, <2>5 DEF DeviceRelease
    <3> QED BY <1>0, <3>1, <3>2
  <2> QED BY <2>4, <2>5
<1>4. ASSUME NEW t \in Threads, PushRelease(t) PROVE Typed
  <2>1. pc[t] = "releasing"
    BY <1>4 DEF PushRelease
  <2>2. releasing[t] \in Objects /\ holds[t][releasing[t]] > 0
    BY <1>0, <2>1 DEF IInv, CallOK, ThreadsOK
  <2>3. holds[t][releasing[t]] - 1 \in Nat
    BY <1>0, <2>2
  <2> QED BY <1>0, <1>4, <2>2, <2>3 DEF PushRelease, counts
<1>5. ASSUME CreateDevice_MgrThread PROVE Typed
  <2>1. serving.object \in Devices /\ serving.by \in Threads
    <3>1. Serving("create")
      BY <1>5 DEF CreateDevice_MgrThread
    <3>2. serving \in Sent /\ serving.op = "create"
      BY <3>1, Referred DEF Serving
    <3> QED BY <3>2, Fields
  <2>2. releasing' = releasing
    BY <1>5 DEF CreateDevice_MgrThread
  <2> DEFINE d == serving.object
             b == serving.by
  <2>3. \/ refCount' = refCount
        \/ refCount' = [refCount EXCEPT ![d] = @ + 1]
        \/ refCount' = [refCount EXCEPT ![d] = 1, ![Manager] = @ + 1]
    BY <1>5 DEF CreateDevice_MgrThread, counts
  <2>4. holds' = holds \/ holds' = [holds EXCEPT ![b][d] = @ + 1]
    BY <1>5 DEF CreateDevice_MgrThread, counts
  <2> HIDE DEF d, b
  <2>5. d \in Objects /\ b \in Threads
    BY <1>0, <2>1 DEF d, b
  <2>6. refCount' \in [Objects -> Nat]
    BY <1>0, <2>3, <2>5
  <2>7. holds' \in [Threads -> [Objects -> Nat]]
    <3>1. CASE holds' = holds
      BY <1>0, <3>1
    <3>2. CASE holds' = [holds EXCEPT ![b][d] = @ + 1]
      <4>1. holds[b] \in [Objects -> Nat] /\ holds[b][d] + 1 \in Nat
        BY <1>0, <2>5
      <4>2. [holds[b] EXCEPT ![d] = @ + 1] \in [Objects -> Nat]
        BY <2>5, <4>1
      <4>3. holds' = [holds EXCEPT ![b] = [holds[b] EXCEPT ![d] = @ + 1]]
        BY <1>0, <2>5, <3>2
      <4> QED BY <1>0, <2>5, <4>2, <4>3
    <3> QED BY <2>4, <3>1, <3>2
  <2> QED BY <1>0, <2>2, <2>6, <2>7
<1>6. ASSUME ReleaseStolen \/ ReleaseDevice_MgrThread \/ ReleaseManager_MgrThread PROVE Typed
  <2>1. holds' = holds /\ releasing' = releasing
    BY <1>6 DEF ReleaseStolen, ReleaseDevice_MgrThread, ReleaseManager_MgrThread, caller
  <2>2. Serving("release")
    BY <1>6 DEF ReleaseStolen, ReleaseDevice_MgrThread, ReleaseManager_MgrThread
  <2>3. serving.object \in Objects /\ refCount[serving.object] > 0 /\ refCount[Manager] > 0
    BY <2>2, Referred
  <2> DEFINE x == serving.object
  <2>4. \/ refCount' = [refCount EXCEPT ![x] = @ - 1]
        \/ refCount' = [refCount EXCEPT ![x] = 0]
        \/ refCount' = [refCount EXCEPT ![x] = 0, ![Manager] = @ - 1] /\ x # Manager
        \/ refCount' = [refCount EXCEPT ![Manager] = 0]
    BY <1>0, <1>6, Types DEF ReleaseStolen, ReleaseDevice_MgrThread, ReleaseManager_MgrThread
  <2> HIDE DEF x
  <2>5. x \in Objects /\ refCount[x] > 0
    BY <2>3 DEF x
  <2> QED BY <1>0, <2>1, <2>3, <2>4, <2>5
<1> QED
  BY <1>1, <1>2, <1>3, <1>4, <1>5, <1>6
     DEF Next, Call, Continue, Run, vars, counts, caller, EnumerateDevicesEx, GetEnumerator,
         PushCreate, ReleaseHandle, ReleaseLastHandle, PopCommand, ReleaseKeepAlive,
         PushExitCommand, EnumerateAllFactoryDevices, Finish, Exit, DetectHIDDevice, Plug
\* The descriptors and their handles keep their types.
LEMMA HandleTypes ==
  ASSUME IInv, [Next]_vars
  PROVE  /\ handleCount' \in [Devices -> Nat]
         /\ desc' \in [Devices -> {"none", "listed", "removed"}]
         /\ enumerated' \in [Devices -> BOOLEAN]
         /\ keepAlive' \in Devices \cup {NULL}
         /\ handle' \in [Threads -> Devices \cup {NULL}]
<1> DEFINE Typed == /\ handleCount' \in [Devices -> Nat]
                    /\ desc' \in [Devices -> {"none", "listed", "removed"}]
                    /\ enumerated' \in [Devices -> BOOLEAN]
                    /\ keepAlive' \in Devices \cup {NULL}
                    /\ handle' \in [Threads -> Devices \cup {NULL}]
<1>0. /\ handleCount \in [Devices -> Nat] /\ desc \in [Devices -> {"none", "listed", "removed"}]
      /\ enumerated \in [Devices -> BOOLEAN] /\ keepAlive \in Devices \cup {NULL}
      /\ handle \in [Threads -> Devices \cup {NULL}] /\ plugged \in [Devices -> BOOLEAN]
  BY Types DEF IInv, CountsOwners, TypeOK
<1>1. CASE UNCHANGED <<handleCount, desc, enumerated, keepAlive, handle>>
  BY <1>0, <1>1
<1>2. ASSUME NEW t \in Threads, GetEnumerator(t) PROVE Typed
  <2>1. UNCHANGED <<desc, enumerated, keepAlive>>
    BY <1>2 DEF GetEnumerator, list, thread
  <2>2. \/ UNCHANGED <<handle, handleCount>>
        \/ \E d \in Devices : /\ handle' = [handle EXCEPT ![t] = d]
                              /\ handleCount' = [handleCount EXCEPT ![d] = @ + 1]
    BY <1>2 DEF GetEnumerator
  <2> QED BY <1>0, <2>1, <2>2
<1>3. ASSUME NEW t \in Threads, ReleaseHandle(t) PROVE Typed
  <2>1. UNCHANGED <<desc, enumerated, keepAlive>>
    BY <1>3 DEF ReleaseHandle, list, thread
  <2>2. handle[t] \in Devices
    BY <1>0, <1>3 DEF ReleaseHandle
  <2>3. handleCount[handle[t]] > 0
    BY <2>2, HandleTerms
  <2>4. \/ UNCHANGED <<handle, handleCount>>
        \/ /\ handle' = [handle EXCEPT ![t] = NULL]
           /\ handleCount' = [handleCount EXCEPT ![handle[t]] = @ - 1]
    BY <1>3 DEF ReleaseHandle
  <2> QED BY <1>0, <2>1, <2>2, <2>3, <2>4
<1>4. ASSUME NEW t \in Threads, ReleaseLastHandle(t) PROVE Typed
  <2>1. UNCHANGED <<enumerated, keepAlive>>
    BY <1>4 DEF ReleaseLastHandle, thread
  <2>2. handle[t] \in Devices
    BY <1>0, <1>4 DEF ReleaseLastHandle, IInv, CallOK, ThreadsOK
  <2>3. CASE StillLast(handle[t])
    BY <1>0, <1>4, <2>1, <2>2, <2>3 DEF ReleaseLastHandle, SetHandles
  <2>4. CASE ~ StillLast(handle[t])
    BY <1>0, <1>4, <2>1, <2>4 DEF ReleaseLastHandle
  <2> QED BY <2>3, <2>4
<1>5. ASSUME CreateDevice_MgrThread PROVE Typed
  <2>1. UNCHANGED <<desc, enumerated, keepAlive, handle>>
    BY <1>5 DEF CreateDevice_MgrThread, list
  <2>2. \/ handleCount' = handleCount
        \/ handleCount' = [handleCount EXCEPT ![serving.object] = @ + 1]
    BY <1>5 DEF CreateDevice_MgrThread, counts
  <2> QED BY <1>0, <2>1, <2>2
<1>6. ASSUME ReleaseDevice_MgrThread PROVE Typed
  BY <1>0, <1>6 DEF ReleaseDevice_MgrThread, list, caller
<1>7. ASSUME ReleaseKeepAlive PROVE Typed
  <2>1. keepAlive \in Devices
    BY <1>0, <1>7 DEF ReleaseKeepAlive, IInv, WorkerOK
  <2>2. handleCount[keepAlive] > 0
    BY <2>1, HandleTerms
  <2>3. handleCount[keepAlive] - 1 \in Nat
    BY <1>0, <2>1, <2>2
  <2>4. UNCHANGED <<enumerated, handle>> /\ keepAlive' = NULL
    BY <1>7 DEF ReleaseKeepAlive, caller
  <2>5. handleCount' = [handleCount EXCEPT ![keepAlive] = handleCount[keepAlive] - 1]
    BY <1>7 DEF ReleaseKeepAlive, SetHandles
  <2>6. desc' \in [Devices -> {"none", "listed", "removed"}]
    BY <1>0, <1>7, <2>1 DEF ReleaseKeepAlive, SetHandles
  <2> QED BY <1>0, <2>3, <2>4, <2>5, <2>6
<1>8. ASSUME ReleaseManager_MgrThread PROVE Typed
  BY <1>0, <1>8 DEF ReleaseManager_MgrThread, caller
<1>9. ASSUME EnumerateAllFactoryDevices PROVE Typed
  BY <1>0, <1>9 DEF EnumerateAllFactoryDevices, counts, caller
<1>10. ASSUME NEW d \in Devices, DetectHIDDevice(d) PROVE Typed
  BY <1>0, <1>10 DEF DetectHIDDevice, counts, thread, caller
<1> QED
  BY <1>1, <1>2, <1>3, <1>4, <1>5, <1>6, <1>7, <1>8, <1>9, <1>10
     DEF Next, Call, Continue, Run, vars, counts, list, thread, caller, EnumerateDevicesEx,
         CreateDevice, DeviceRelease, PushCreate, PushRelease, PopCommand, ReleaseStolen,
         PushExitCommand, Finish, Exit, Plug

\* The commands, and where the threads are, keep their types.
LEMMA CommandTypes ==
  ASSUME IInv, [Next]_vars
  PROVE  queue' \in Seq(Sent) /\ serving' \in Sent \cup {NULL} /\ exited' \in BOOLEAN
<1> DEFINE Typed == queue' \in Seq(Sent) /\ serving' \in Sent \cup {NULL} /\ exited' \in BOOLEAN
<1>0. /\ queue \in Seq(Sent) /\ serving \in Sent \cup {NULL} /\ exited \in BOOLEAN
      /\ handle \in [Threads -> Devices \cup {NULL}]
      /\ releasing \in [Threads -> Objects \cup {NULL}] /\ Manager \in Objects
  BY Types
<1>1. CASE UNCHANGED commands
  BY <1>0, <1>1 DEF commands
<1>2. ASSUME NEW c \in Sent, Push(c) PROVE Typed
  BY <1>0, <1>2, PushType
<1>3. ASSUME NEW t \in Threads, EnumerateDevicesEx(t) PROVE Typed
  BY <1>2, <1>3, SentCommands DEF EnumerateDevicesEx
<1>4. ASSUME NEW t \in Threads, PushCreate(t) PROVE Typed
  <2>1. handle[t] \in Devices
    BY <1>0, <1>4 DEF PushCreate, IInv, CallOK, ThreadsOK
  <2> QED BY <1>2, <1>4, <2>1, SentCommands DEF PushCreate
<1>5. ASSUME NEW t \in Threads, PushRelease(t) PROVE Typed
  <2>1. releasing[t] \in Objects
    BY <1>0, <1>5 DEF PushRelease, IInv, CallOK, ThreadsOK
  <2> QED BY <1>2, <1>5, <2>1, SentCommands DEF PushRelease, Release
<1>6. ASSUME PopCommand PROVE Typed
  <2>1. queue # <<>> /\ serving' = Head(queue) /\ queue' = Tail(queue) /\ exited' = exited
    BY <1>6 DEF PopCommand
  <2> QED BY <1>0, <2>1
<1>7. ASSUME ReleaseDevice_MgrThread PROVE Typed
  <2>1. Push(Release(Manager)) \/ UNCHANGED commands
    BY <1>7 DEF ReleaseDevice_MgrThread, Release
  <2> QED BY <1>0, <1>1, <1>2, <2>1, SentCommands
<1>8. ASSUME PushExitCommand PROVE Typed
  BY <1>2, <1>8, SentCommands DEF PushExitCommand
<1>9. ASSUME Finish PROVE Typed
  BY <1>0, <1>9 DEF Finish
<1> QED
  BY <1>1, <1>3, <1>4, <1>5, <1>6, <1>7, <1>8, <1>9
     DEF Next, Call, Continue, Run, vars, commands, GetEnumerator,
         CreateDevice, DeviceRelease, ReleaseHandle, ReleaseLastHandle, CreateDevice_MgrThread,
         ReleaseStolen, ReleaseKeepAlive, ReleaseManager_MgrThread, EnumerateAllFactoryDevices,
         Exit, DetectHIDDevice, Plug

\* So do the others.
LEMMA OtherTypes ==
  ASSUME IInv, [Next]_vars
  PROVE  /\ worker' \in {"popping", "serving", "keeping", "closing", "finishing", "exited"}
         /\ pc' \in [Threads -> {"out", "waiting", "enumerated", "requesting", "created",
                                 "releasing", "dropping"}]
         /\ plugged' \in [Devices -> BOOLEAN] /\ plugs' \in 0..PlugBound
<1> DEFINE Places == {"out", "waiting", "enumerated", "requesting", "created", "releasing",
                      "dropping"}
           Workers == {"popping", "serving", "keeping", "closing", "finishing", "exited"}
<1>0. /\ worker \in Workers /\ pc \in [Threads -> Places] /\ plugged \in [Devices -> BOOLEAN]
      /\ plugs \in 0..PlugBound /\ PlugBound \in Nat
  BY ObjectsAssumption DEF IInv, CountsOwners, TypeOK
<1>1. worker' \in Workers
  <2>1. ASSUME NEW t \in Threads, Call(t) PROVE worker' = worker
    BY <2>1 DEF Call, thread, EnumerateDevicesEx, CreateDevice, ReleaseHandle, DeviceRelease
  <2>2. ASSUME NEW t \in Threads, Continue(t) PROVE worker' = worker
    BY <2>2
       DEF Continue, thread, GetEnumerator, PushCreate, PushRelease, ReleaseLastHandle, DeviceRelease
  <2>3. ASSUME Run PROVE worker' \in Workers
    BY <2>3
       DEF Run, PopCommand, CreateDevice_MgrThread, ReleaseStolen, ReleaseDevice_MgrThread,
           ReleaseKeepAlive, ReleaseManager_MgrThread, PushExitCommand,
           EnumerateAllFactoryDevices, Finish, Exit
  <2>4. ASSUME NEW d \in Devices, DetectHIDDevice(d) \/ Plug(d) PROVE worker' = worker
    BY <2>4 DEF DetectHIDDevice, Plug, thread
  <2>5. CASE UNCHANGED vars
    BY <1>0, <2>5 DEF vars, thread
  <2> HIDE DEF Workers
  <2> QED BY <1>0, <2>1, <2>2, <2>3, <2>4, <2>5 DEF Next
<1>2. /\ plugged' \in [Devices -> BOOLEAN] /\ plugs' \in 0..PlugBound
  <2>1. CASE UNCHANGED hardware
    BY <1>0, <2>1 DEF hardware
  <2>2. ASSUME NEW d \in Devices, Plug(d) PROVE plugged' \in [Devices -> BOOLEAN]
    BY <1>0, <2>2 DEF Plug
  <2>3. ASSUME NEW d \in Devices, Plug(d) PROVE plugs' \in 0..PlugBound
    BY <1>0, <2>3 DEF Plug
  <2> QED
    BY <2>1, <2>2, <2>3
       DEF Next, Call, Continue, Run, vars, EnumerateDevicesEx, GetEnumerator, CreateDevice,
           PushCreate, DeviceRelease, PushRelease, ReleaseHandle, ReleaseLastHandle, PopCommand,
           CreateDevice_MgrThread, ReleaseStolen, ReleaseDevice_MgrThread, ReleaseKeepAlive,
           ReleaseManager_MgrThread, PushExitCommand, EnumerateAllFactoryDevices, Finish, Exit,
           DetectHIDDevice
<1>3. pc' \in [Threads -> Places]
  <2>1. CASE pc' = pc
    BY <1>0, <2>1
  <2>2. ASSUME NEW t \in Threads, CreateDevice(t) PROVE pc' \in [Threads -> Places]
    BY <1>0, <2>2 DEF CreateDevice
  <2>3. ASSUME NEW t \in Threads, NEW x \in Objects, DeviceRelease(t, x)
        PROVE  pc' \in [Threads -> Places]
    BY <1>0, <2>3 DEF DeviceRelease
  <2>4. ASSUME NEW t \in Threads, ReleaseHandle(t) PROVE pc' \in [Threads -> Places]
    BY <1>0, <2>4 DEF ReleaseHandle
  <2>5. ASSUME Finish PROVE pc' \in [Threads -> Places]
    BY <1>0, <2>5 DEF Finish
  <2>6. ASSUME NEW t \in Threads,
               EnumerateDevicesEx(t) \/ GetEnumerator(t) \/ PushCreate(t) \/ PushRelease(t)
                 \/ ReleaseLastHandle(t)
        PROVE  pc' \in [Threads -> Places]
    BY <1>0, <2>6 DEF EnumerateDevicesEx, GetEnumerator, PushCreate, PushRelease, ReleaseLastHandle
  <2> HIDE DEF Places
  <2> QED
    BY <2>1, <2>2, <2>3, <2>4, <2>5, <2>6
       DEF Next, Call, Continue, Run, vars, caller, PopCommand, CreateDevice_MgrThread,
           ReleaseStolen, ReleaseDevice_MgrThread, ReleaseKeepAlive, ReleaseManager_MgrThread,
           PushExitCommand, EnumerateAllFactoryDevices, Exit, DetectHIDDevice, Plug
<1> QED BY <1>1, <1>2, <1>3

\* Every step preserves the types.
LEMMA TypeStep ==
  ASSUME IInv, [Next]_vars
  PROVE  TypeOK'
  BY CountTypes, HandleTypes, CommandTypes, OtherTypes DEF TypeOK
-----------------------------------------------------------------------------
(* Every step keeps the sums. *)

\* A thread takes a reference more of what lives, or seen backwards gives back
\* one that is not the last.
ReferenceMore(r, s, h, g, t, y) ==
  /\ r \in [Objects -> Nat] /\ t \in Threads /\ y \in Objects
  /\ h \in [Threads -> [Objects -> Nat]] /\ g \in [Threads -> [Objects -> Nat]]
  /\ r[y] > 0 /\ s[y] = r[y] + 1 /\ \A z \in Objects : z # y => s[z] = r[z]
  /\ g[t][y] = h[t][y] + 1
  /\ \A u \in Threads, z \in Objects : u # t \/ z # y => g[u][z] = h[u][z]

\* The references to an object that no thread holds.
Elsewhere(r, h, x) == r[x] - HeldBy(h, x)

\* The same devices live.
LEMMA LivingKept ==
  ASSUME NEW r, NEW s, NEW h, NEW g, NEW t, NEW y, ReferenceMore(r, s, h, g, t, y)
  PROVE  Living(s) = Living(r)
<1>1. \A d \in Devices : s[d] > 0 <=> r[d] > 0
  BY DEF ReferenceMore, Objects
<1> QED BY <1>1, LivingSame

\* Count and references move together.
LEMMA OneReferenceMore ==
  ASSUME NEW r, NEW s, NEW h, NEW g, NEW t, NEW y, ReferenceMore(r, s, h, g, t, y)
  PROVE  \A x \in Objects : Elsewhere(s, g, x) = Elsewhere(r, h, x)
<1> TAKE x \in Objects
<1> USE DEF ReferenceMore
<1>1. HeldBy(g, x) \in Nat /\ HeldBy(h, x) \in Nat
  BY HeldFinite
<1>2. CASE x = y
  <2>1. HeldBy(g, x) = HeldBy(h, x) + 1
    BY <1>2, HeldMore
  <2>2. r[x] \in Nat /\ s[x] = r[x] + 1
    BY <1>2
  <2> QED BY <1>1, <2>1, <2>2 DEF Elsewhere
<1>3. CASE x # y
  <2>1. HeldBy(g, x) = HeldBy(h, x)
    BY <1>3, HeldSame
  <2> QED BY <1>3, <2>1 DEF Elsewhere
<1> QED BY <1>2, <1>3

\* One reference of one thread less.
LEMMA OneLess ==
  ASSUME NEW h \in [Threads -> [Objects -> Nat]], NEW t \in Threads, NEW y \in Objects, NEW g,
         g = [h EXCEPT ![t][y] = @ - 1]
  PROVE  /\ h[t][y] = g[t][y] + 1
         /\ \A u \in Threads, z \in Objects : u # t \/ z # y => g[u][z] = h[u][z]
<1>1. h[t] \in [Objects -> Nat] /\ h[t][y] \in Nat
  OBVIOUS
<1>2. g = [h EXCEPT ![t] = [h[t] EXCEPT ![y] = @ - 1]]
  OBVIOUS
<1>3. g[t] = [h[t] EXCEPT ![y] = @ - 1] /\ \A u \in Threads : u # t => g[u] = h[u]
  BY <1>2
<1>4. g[t][y] = h[t][y] - 1 /\ \A z \in Objects : z # y => g[t][z] = h[t][z]
  BY <1>1, <1>3
<1>5. h[t][y] = g[t][y] + 1
  BY <1>1, <1>4
<1>6. ASSUME NEW u \in Threads, NEW z \in Objects, u # t \/ z # y PROVE g[u][z] = h[u][z]
  BY <1>3, <1>4, <1>6
<1> QED BY <1>5, <1>6

\* One reference of one thread more.
LEMMA OneHeldMore ==
  ASSUME NEW h \in [Threads -> [Objects -> Nat]], NEW t \in Threads, NEW y \in Objects, NEW g,
         g = [h EXCEPT ![t][y] = @ + 1]
  PROVE  /\ g[t][y] = h[t][y] + 1
         /\ \A u \in Threads, z \in Objects : u # t \/ z # y => g[u][z] = h[u][z]
<1>1. h[t] \in [Objects -> Nat]
  OBVIOUS
<1>2. g = [h EXCEPT ![t] = [h[t] EXCEPT ![y] = @ + 1]]
  OBVIOUS
<1>3. g[t] = [h[t] EXCEPT ![y] = @ + 1] /\ \A u \in Threads : u # t => g[u] = h[u]
  BY <1>2
<1>4. g[t][y] = h[t][y] + 1 /\ \A z \in Objects : z # y => g[t][z] = h[t][z]
  BY <1>1, <1>3
<1>5. ASSUME NEW u \in Threads, NEW z \in Objects, u # t \/ z # y PROVE g[u][z] = h[u][z]
  BY <1>3, <1>4, <1>5
<1> QED BY <1>4, <1>5

\* Nothing is in hand when the manager's thread executes no release.
LEMMA EmptyHand ==
  ASSUME NEW w, NEW s, NEW x, w # "serving" \/ s.op # "release"
  PROVE  InHand(w, s, x) = 0
  BY Made DEF InHand

\* The threads' steps keep the sums.
LEMMA CallRefs ==
  ASSUME IInv, [Next]_vars, NEW t \in Threads, Call(t) \/ Continue(t)
  PROVE  RefCountsOwners'
<1>0. /\ refCount \in [Objects -> Nat] /\ holds \in [Threads -> [Objects -> Nat]]
      /\ queue \in Seq(Sent) /\ Manager \in Objects /\ Devices \subseteq Objects
      /\ handle \in [Threads -> Devices \cup {NULL}]
      /\ releasing \in [Threads -> Objects \cup {NULL}]
  BY Types
<1>1. /\ refCount' \in [Objects -> Nat] /\ holds' \in [Threads -> [Objects -> Nat]]
      /\ queue' \in Seq(Sent)
  BY CountTypes, CommandTypes
<1> SUFFICES ASSUME NEW x \in Objects
             PROVE  refCount'[x] = Owners(refCount', holds', queue', worker', serving', x)
  BY Balance
<1> DEFINE Sum == refCount'[x] = Owners(refCount', holds', queue', worker', serving', x)
<1>2. /\ refCount[x] = HeldBy(holds, x) + (PassedIn(queue, x) + InHand(worker, serving, x))
                       + IF x = Manager THEN Living(refCount) ELSE 0
      /\ Sum <=>
           refCount'[x] = HeldBy(holds', x) + (PassedIn(queue', x) + InHand(worker', serving', x))
                          + IF x = Manager THEN Living(refCount') ELSE 0
  BY Balance DEF IInv, CountsOwners, Owners
<1>3. /\ HeldBy(holds, x) \in Nat /\ PassedIn(queue, x) \in Nat
      /\ InHand(worker, serving, x) \in Nat /\ Living(refCount) \in Nat
      /\ refCount[x] \in Nat
  <2>1. InHand(worker, serving, x) \in {0, 1}
    BY <1>0, Terms
  <2>2. HeldBy(holds, x) \in Nat /\ PassedIn(queue, x) \in Nat /\ Living(refCount) \in Nat
    BY <1>0, Terms
  <2> QED BY <1>0, <2>1, <2>2
<1>4. HeldBy(holds', x) \in Nat /\ PassedIn(queue', x) \in Nat /\ refCount'[x] \in Nat
  BY <1>1, Terms
<1> HIDE DEF Sum
<1>5. worker' = worker /\ serving' = serving
  BY DEF Call, Continue, EnumerateDevicesEx, GetEnumerator, CreateDevice, PushCreate,
         DeviceRelease, PushRelease, ReleaseHandle, ReleaseLastHandle, Push, commands, thread
<1>6. InHand(worker', serving', x) = InHand(worker, serving, x)
  BY <1>5
<1>7. ASSUME refCount' = refCount, holds' = holds, queue' = queue PROVE Sum
  BY <1>2, <1>6, <1>7
<1>8. ASSUME UNCHANGED <<refCount, holds>>, NEW c \in Sent, c # Release(x),
             queue' = Append(queue, c)
      PROVE  Sum
  <2>1. PassedIn(queue', x) = PassedIn(queue, x)
    BY <1>0, <1>8, PassedAppend
  <2> QED BY <1>2, <1>6, <1>8, <2>1
<1>9. ASSUME EnumerateDevicesEx(t) PROVE Sum
  <2>1. Command("enumerate", NULL, t) # Release(x)
    BY Made
  <2>2. UNCHANGED <<refCount, holds>> /\ queue' = Append(queue, Command("enumerate", NULL, t))
    BY <1>9 DEF EnumerateDevicesEx, Push, counts
  <2> QED BY <1>8, <2>1, <2>2, SentCommands
<1>10. ASSUME PushCreate(t) PROVE Sum
  <2>1. handle[t] \in Devices
    BY <1>0, <1>10 DEF PushCreate, IInv, CallOK, ThreadsOK
  <2>2. Command("create", handle[t], t) # Release(x)
    BY Made
  <2>3. UNCHANGED <<refCount, holds>> /\ queue' = Append(queue, Command("create", handle[t], t))
    BY <1>10 DEF PushCreate, Push, counts
  <2> QED BY <1>8, <2>1, <2>2, <2>3, SentCommands
<1>11. ASSUME CreateDevice(t) PROVE Sum
  <2>1. handle[t] \in Objects
    BY <1>0, <1>11 DEF CreateDevice
  <2>2. PICK y \in Objects :
          /\ refCount[y] > 0
          /\ refCount' = [z \in Objects |-> refCount[z] + IF z \in {y} THEN 1 ELSE 0]
          /\ holds' = [holds EXCEPT ![t] =
                         [z \in Objects |-> @[z] + IF z \in {y} THEN 1 ELSE 0]]
    <3>1. CASE Alive(handle[t])
      BY <1>11, <2>1, <3>1 DEF CreateDevice, Alive
    <3>2. CASE ~ Alive(handle[t])
      BY <1>0, <1>11, <3>2 DEF CreateDevice, Alive, Pinned
    <3> QED BY <3>1, <3>2
  <2>3. refCount'[y] = refCount[y] + 1 /\ \A z \in Objects : z # y => refCount'[z] = refCount[z]
    BY <1>0, <2>2
  <2>4. /\ holds'[t][y] = holds[t][y] + 1
        /\ \A u \in Threads, z \in Objects : u # t \/ z # y => holds'[u][z] = holds[u][z]
    BY <1>0, <2>2
  <2>5. ReferenceMore(refCount, refCount', holds, holds', t, y)
    BY <1>0, <1>1, <2>2, <2>3, <2>4 DEF ReferenceMore
  <2>6. Living(refCount') = Living(refCount)
    BY <2>5, LivingKept
  <2>7. Elsewhere(refCount', holds', x) = Elsewhere(refCount, holds, x)
    BY <2>5, OneReferenceMore
  <2>8. queue' = queue
    BY <1>11 DEF CreateDevice, commands
  <2> QED BY <1>2, <1>3, <1>4, <1>6, <2>6, <2>7, <2>8 DEF Elsewhere
<1>12. ASSUME NEW y \in Objects, DeviceRelease(t, y) PROVE Sum
  <2>1. queue' = queue
    BY <1>12 DEF DeviceRelease, commands
  <2>2. CASE IsLast(y)
    <3>1. refCount' = refCount /\ holds' = holds
      BY <1>12, <2>2 DEF DeviceRelease
    <3> QED BY <1>7, <2>1, <3>1
  <2>3. CASE ~ IsLast(y)
    <3>1. holds[t][y] > 0
      BY <1>12 DEF DeviceRelease, IInv, CallOK, ThreadsOK
    <3>2. refCount[y] > 0 /\ refCount[y] # 1
      BY <2>3, <3>1, Referred DEF IsLast
    <3>3. /\ refCount' = [refCount EXCEPT ![y] = @ - 1]
          /\ holds' = [holds EXCEPT ![t][y] = @ - 1]
      BY <1>12, <2>3 DEF DeviceRelease
    <3>4. /\ refCount'[y] > 0 /\ refCount[y] = refCount'[y] + 1
          /\ \A z \in Objects : z # y => refCount[z] = refCount'[z]
      BY <1>0, <3>2, <3>3
    <3>5. holds[t][y] = holds'[t][y] + 1
      BY <1>0, <3>3, OneLess
    <3>6. \A u \in Threads, z \in Objects : u # t \/ z # y => holds'[u][z] = holds[u][z]
      BY <1>0, <3>3, OneLess
    <3>7. ReferenceMore(refCount', refCount, holds', holds, t, y)
      BY <1>0, <1>1, <3>4, <3>5, <3>6 DEF ReferenceMore
    <3>8. Living(refCount) = Living(refCount')
      BY <3>7, LivingKept
    <3>9. Elsewhere(refCount, holds, x) = Elsewhere(refCount', holds', x)
      BY <3>7, OneReferenceMore
    <3> QED BY <1>2, <1>3, <1>4, <1>6, <2>1, <3>8, <3>9 DEF Elsewhere
  <2> QED BY <2>2, <2>3
<1>13. ASSUME PushRelease(t) PROVE Sum
  <2>1. PICK y \in Objects : releasing[t] = y /\ holds[t][y] > 0
    BY <1>0, <1>13 DEF PushRelease, IInv, CallOK, ThreadsOK
  <2>2. /\ refCount' = refCount /\ queue' = Append(queue, Release(y))
        /\ holds' = [holds EXCEPT ![t][y] = @ - 1]
    BY <1>13, <2>1 DEF PushRelease, Push, Release, counts
  <2>3. /\ holds[t][y] = holds'[t][y] + 1
        /\ \A u \in Threads, z \in Objects : u # t \/ z # y => holds'[u][z] = holds[u][z]
    BY <1>0, <2>1, <2>2, OneLess
  <2>4. CASE x = y
    <3>1. HeldBy(holds, x) = HeldBy(holds', x) + 1
      BY <1>0, <1>1, <2>3, <2>4, HeldMore
    <3>2. PassedIn(queue', x) = PassedIn(queue, x) + 1
      BY <1>0, <2>2, <2>4, SentCommands, PassedAppend
    <3> QED BY <1>2, <1>3, <1>4, <1>6, <2>2, <3>1, <3>2
  <2>5. CASE x # y
    <3>1. HeldBy(holds', x) = HeldBy(holds, x)
      BY <2>3, <2>5, HeldSame
    <3>2. Release(y) # Release(x)
      BY <2>5, Made
    <3>3. PassedIn(queue', x) = PassedIn(queue, x)
      BY <1>0, <2>2, <3>2, SentCommands, PassedAppend
    <3> QED BY <1>2, <1>6, <2>2, <3>1, <3>3
  <2> QED BY <2>4, <2>5
<1>14. ASSUME GetEnumerator(t) \/ ReleaseHandle(t) \/ ReleaseLastHandle(t) PROVE Sum
  <2>1. UNCHANGED <<refCount, holds, queue>>
    BY <1>14 DEF GetEnumerator, ReleaseHandle, ReleaseLastHandle, commands
  <2> QED BY <1>7, <2>1
<1> QED
  BY <1>9, <1>10, <1>11, <1>12, <1>13, <1>14 DEF Sum, Call, Continue
\* The command in hand.
LEMMA InService ==
  ASSUME IInv, worker = "serving"
  PROVE  /\ serving \in Sent /\ serving # NULL
         /\ serving.op = "create" => /\ serving.object \in Devices /\ serving.by \in Threads
                                     /\ pc[serving.by] = "waiting"
                                     /\ handle[serving.by] = serving.object
                                     /\ holds[serving.by][Manager] > 0
         /\ serving.op = "enumerate" => /\ serving.by \in Threads /\ pc[serving.by] = "waiting"
                                        /\ handle[serving.by] = NULL
<1>1. serving # NULL
  BY DEF IInv, WorkerOK
<1>2. serving \in Sent
  BY <1>1, Types
<1>3. Called(serving)
  BY <1>1 DEF IInv, CallOK, ServingOK
<1>4. /\ serving.op = "create" => serving.object \in Devices /\ serving.by \in Threads
      /\ serving.op = "enumerate" => serving.by \in Threads
  BY <1>2, Fields
<1> QED BY <1>1, <1>2, <1>3, <1>4 DEF Called

\* The steps of the manager's thread keep the sums.
LEMMA RunRefs ==
  ASSUME IInv, [Next]_vars, Run
  PROVE  RefCountsOwners'
<1>0. /\ refCount \in [Objects -> Nat] /\ holds \in [Threads -> [Objects -> Nat]]
      /\ queue \in Seq(Sent) /\ Manager \in Objects /\ Devices \subseteq Objects
      /\ Manager \notin Devices
  BY Types
<1>1. /\ refCount' \in [Objects -> Nat] /\ holds' \in [Threads -> [Objects -> Nat]]
      /\ queue' \in Seq(Sent)
  BY CountTypes, CommandTypes
<1> SUFFICES ASSUME NEW x \in Objects
             PROVE  refCount'[x] = Owners(refCount', holds', queue', worker', serving', x)
  BY Balance
<1> DEFINE Sum == refCount'[x] = Owners(refCount', holds', queue', worker', serving', x)
<1>2. /\ refCount[x] = HeldBy(holds, x) + (PassedIn(queue, x) + InHand(worker, serving, x))
                       + IF x = Manager THEN Living(refCount) ELSE 0
      /\ Sum <=>
           refCount'[x] = HeldBy(holds', x) + (PassedIn(queue', x) + InHand(worker', serving', x))
                          + IF x = Manager THEN Living(refCount') ELSE 0
  BY Balance DEF IInv, CountsOwners, Owners
<1>3. /\ HeldBy(holds, x) \in Nat /\ PassedIn(queue, x) \in Nat
      /\ Living(refCount) \in Nat /\ refCount[x] \in Nat
  BY <1>0, Terms
<1>4. /\ HeldBy(holds', x) \in Nat /\ PassedIn(queue', x) \in Nat
      /\ Living(refCount') \in Nat /\ refCount'[x] \in Nat
  BY <1>1, Terms
<1> HIDE DEF Sum
<1>5. ASSUME refCount' = refCount, holds' = holds, queue' = queue,
             InHand(worker, serving, x) = 0, InHand(worker', serving', x) = 0
      PROVE  Sum
  BY <1>2, <1>5
<1>6. ASSUME PopCommand PROVE Sum
  <2>1. PICK c \in Sent, q \in Seq(Sent) : c = Head(queue) /\ q = Tail(queue)
    <3>1. queue # <<>>
      BY <1>6 DEF PopCommand
    <3>2. Head(queue) \in Sent /\ Tail(queue) \in Seq(Sent)
      BY <1>0, <3>1
    <3> QED BY <3>2
  <2>2. /\ queue # <<>> /\ queue' = q /\ worker = "popping" /\ worker' = "serving" /\ serving' = c
        /\ refCount' = refCount /\ holds' = holds
    BY <1>6, <2>1 DEF PopCommand, counts, caller
  <2>3. InHand(worker, serving, x) = 0
    BY <2>2, EmptyHand
  <2>4. CASE c = Release(x)
    <3>1. PassedIn(queue, x) = PassedIn(q, x) + 1
      BY <1>0, <2>1, <2>2, <2>4, PassedTail
    <3>2. InHand(worker', serving', x) = 1
      BY <2>2, <2>4 DEF InHand
    <3> QED BY <1>2, <1>3, <1>4, <2>2, <2>3, <3>1, <3>2
  <2>5. CASE c # Release(x)
    <3>1. PassedIn(queue, x) = PassedIn(q, x)
      BY <1>0, <2>1, <2>2, <2>5, PassedTail
    <3>2. InHand(worker', serving', x) = 0
      BY <2>2, <2>5 DEF InHand
    <3> QED BY <1>2, <1>3, <1>4, <2>2, <2>3, <3>1, <3>2
  <2> QED BY <2>4, <2>5
<1>7. ASSUME CreateDevice_MgrThread PROVE Sum
  <2>1. worker = "serving" /\ serving.op = "create"
    BY <1>7 DEF CreateDevice_MgrThread, Serving
  <2>2. PICK d \in Devices, b \in Threads : d = serving.object /\ b = serving.by
    BY <2>1, InService
  <2>3. refCount[Manager] > 0
    BY <2>1, Referred DEF Serving
  <2>4. InHand(worker, serving, x) = 0
    BY <2>1, EmptyHand
  <2>5. worker' = "finishing" /\ queue' = queue
    BY <1>7 DEF CreateDevice_MgrThread, commands
  <2>6. InHand(worker', serving', x) = 0
    BY <2>5, EmptyHand
  <2>7. ASSUME holds' = [holds EXCEPT ![b][d] = @ + 1]
        PROVE  /\ holds'[b][d] = holds[b][d] + 1
               /\ \A u \in Threads, z \in Objects : u # b \/ z # d => holds'[u][z] = holds[u][z]
    BY <1>0, <2>2, <2>7, OneHeldMore
  <2>8. CASE /\ refCount[d] > 0 /\ refCount' = [refCount EXCEPT ![d] = @ + 1]
             /\ holds' = [holds EXCEPT ![b][d] = @ + 1]
    <3>1. /\ refCount'[d] = refCount[d] + 1
          /\ \A z \in Objects : z # d => refCount'[z] = refCount[z]
      BY <1>0, <2>8
    <3>2. ReferenceMore(refCount, refCount', holds, holds', b, d)
      BY <1>0, <1>1, <2>2, <2>7, <2>8, <3>1 DEF ReferenceMore
    <3>3. Living(refCount') = Living(refCount)
      BY <3>2, LivingKept
    <3>4. Elsewhere(refCount', holds', x) = Elsewhere(refCount, holds, x)
      BY <3>2, OneReferenceMore
    <3> QED BY <1>2, <1>3, <1>4, <2>4, <2>5, <2>6, <3>3, <3>4 DEF Elsewhere
  <2>9. CASE /\ ~ (refCount[d] > 0)
             /\ refCount' = [refCount EXCEPT ![d] = 1, ![Manager] = @ + 1]
             /\ holds' = [holds EXCEPT ![b][d] = @ + 1]
    <3>1. /\ refCount'[d] = 1 /\ refCount'[Manager] = refCount[Manager] + 1
          /\ \A z \in Objects : z # d /\ z # Manager => refCount'[z] = refCount[z]
          /\ refCount[d] = 0
      BY <1>0, <2>2, <2>9
    <3>2. Living(refCount') = Living(refCount) + 1
      <4>1. refCount'[d] > 0 /\ ~ (refCount[d] > 0)
        BY <3>1
      <4>2. ASSUME NEW e \in Devices, e # d PROVE refCount'[e] > 0 <=> refCount[e] > 0
        <5>1. e \in Objects /\ e # Manager
          BY <1>0
        <5>2. refCount'[e] = refCount[e]
          BY <3>1, <4>2, <5>1
        <5> QED BY <5>2
      <4> QED BY <2>2, <4>1, <4>2, LivingMore
    <3>3. ASSUME x = d PROVE HeldBy(holds', x) = HeldBy(holds, x) + 1
      <4>1. /\ holds'[b][x] = holds[b][x] + 1
            /\ \A u \in Threads : u # b => holds'[u][x] = holds[u][x]
        BY <2>7, <2>9, <3>3
      <4> QED BY <1>0, <1>1, <2>2, <4>1, HeldMore
    <3>4. ASSUME x # d PROVE HeldBy(holds', x) = HeldBy(holds, x)
      BY <2>7, <2>9, <3>4, HeldSame
    <3>5. CASE x = d
      <4>1. refCount'[x] = refCount[x] + 1 /\ x # Manager
        BY <1>0, <2>2, <3>1, <3>5
      <4> QED BY <1>2, <1>3, <1>4, <2>4, <2>5, <2>6, <3>3, <3>5, <4>1
    <3>6. CASE x = Manager
      BY <1>0, <1>2, <1>3, <1>4, <2>2, <2>4, <2>5, <2>6, <3>1, <3>2, <3>4, <3>6
    <3>7. CASE x # d /\ x # Manager
      BY <1>2, <2>4, <2>5, <2>6, <3>1, <3>4, <3>7
    <3> QED BY <3>5, <3>6, <3>7
  <2>10. CASE refCount' = refCount /\ holds' = holds
    BY <1>5, <2>4, <2>5, <2>6, <2>10
  <2> QED BY <1>7, <2>2, <2>8, <2>9, <2>10 DEF CreateDevice_MgrThread, Alive, counts
<1>8. ASSUME ReleaseStolen \/ ReleaseDevice_MgrThread \/ ReleaseManager_MgrThread PROVE Sum
  <2>1. Serving("release") /\ holds' = holds
    BY <1>8 DEF ReleaseStolen, ReleaseDevice_MgrThread, ReleaseManager_MgrThread, caller
  <2>2. PICK y \in Objects : /\ y = serving.object /\ serving = Release(y) /\ refCount[y] > 0
                             /\ refCount[Manager] > 0
    BY <2>1, Referred
  <2>3. worker' # "serving"
    BY <1>8 DEF ReleaseStolen, ReleaseDevice_MgrThread, ReleaseManager_MgrThread
  <2>4. InHand(worker', serving', x) = 0
    BY <2>3, EmptyHand
  <2>5. ASSUME x = y PROVE InHand(worker, serving, x) = 1
    BY <2>1, <2>2, <2>5 DEF InHand, Serving
  <2>6. ASSUME x # y PROVE InHand(worker, serving, x) = 0
    BY <2>2, <2>6, Made DEF InHand
  <2>7. ASSUME ReleaseStolen PROVE Sum
    <3>1. refCount' = [refCount EXCEPT ![y] = @ - 1] /\ queue' = queue /\ refCount[y] # 1
      BY <2>2, <2>7 DEF ReleaseStolen, IsLast, commands
    <3>2. /\ refCount'[y] = refCount[y] - 1 /\ refCount'[y] > 0
          /\ \A z \in Objects : z # y => refCount'[z] = refCount[z]
      <4>1. refCount[y] \in Nat /\ refCount'[y] = refCount[y] - 1
        BY <1>0, <3>1
      <4>2. refCount'[y] > 0
        BY <2>2, <3>1, <4>1
      <4>3. \A z \in Objects : z # y => refCount'[z] = refCount[z]
        BY <1>0, <3>1
      <4> QED BY <4>1, <4>2, <4>3
    <3>3. Living(refCount') = Living(refCount)
      <4>1. \A d \in Devices : refCount'[d] > 0 <=> refCount[d] > 0
        BY <1>0, <2>2, <3>2
      <4> QED BY <4>1, LivingSame
    <3>4. CASE x = y
      BY <1>2, <1>3, <1>4, <2>1, <2>4, <2>5, <3>1, <3>2, <3>3, <3>4
    <3>5. CASE x # y
      BY <1>2, <1>3, <1>4, <2>1, <2>4, <2>6, <3>1, <3>2, <3>3, <3>5
    <3> QED BY <3>4, <3>5
  <2>8. ASSUME ReleaseDevice_MgrThread PROVE Sum
    <3>1. y \in Devices /\ refCount[y] = 1 /\ y # Manager
      BY <1>0, <2>2, <2>8 DEF ReleaseDevice_MgrThread, IsLast
    <3>2. \/ /\ refCount' = [refCount EXCEPT ![y] = 0] /\ queue' = Append(queue, Release(Manager))
          \/ /\ refCount' = [refCount EXCEPT ![y] = 0, ![Manager] = @ - 1] /\ queue' = queue
             /\ refCount[Manager] # 1
      BY <2>2, <2>8 DEF ReleaseDevice_MgrThread, IsLast, Push, Release, commands
    <3>3. Living(refCount) = Living(refCount') + 1
      <4>1. /\ refCount'[y] = 0
            /\ \A e \in Devices : e # y => (refCount[e] > 0 <=> refCount'[e] > 0)
        BY <1>0, <3>1, <3>2
      <4> QED BY <2>2, <3>1, <4>1, LivingMore
    <3>4. CASE x = Manager
      <4>1. InHand(worker, serving, x) = 0
        BY <2>6, <3>1, <3>4
      <4>2. CASE refCount' = [refCount EXCEPT ![y] = 0] /\ queue' = Append(queue, Release(Manager))
        <5>1. PassedIn(queue', x) = PassedIn(queue, x) + 1
          BY <1>0, <3>4, <4>2, SentCommands, PassedAppend
        <5>2. refCount'[x] = refCount[x]
          BY <1>0, <3>1, <3>4, <4>2
        <5> QED BY <1>2, <1>3, <1>4, <2>1, <2>4, <3>3, <3>4, <4>1, <5>1, <5>2
      <4>3. CASE /\ refCount' = [refCount EXCEPT ![y] = 0, ![Manager] = @ - 1] /\ queue' = queue
                 /\ refCount[Manager] # 1
        <5>1. refCount'[x] = refCount[x] - 1
          BY <1>0, <3>1, <3>4, <4>3
        <5> QED BY <1>2, <1>3, <1>4, <2>1, <2>4, <3>3, <3>4, <4>1, <4>3, <5>1
      <4> QED BY <3>2, <4>2, <4>3
    <3>5. CASE x # Manager
      <4>1. PassedIn(queue', x) = PassedIn(queue, x)
        <5>1. Release(Manager) # Release(x)
          BY <3>5, Made
        <5>2. CASE queue' = queue
          BY <5>2
        <5>3. CASE queue' = Append(queue, Release(Manager))
          BY <1>0, <5>1, <5>3, SentCommands, PassedAppend
        <5> QED BY <3>2, <5>2, <5>3
      <4>2. CASE x = y
        <5>1. refCount'[x] = 0 /\ refCount[x] = 1
          BY <1>0, <3>1, <3>2, <4>2
        <5> QED BY <1>2, <1>3, <1>4, <2>1, <2>4, <2>5, <3>5, <4>1, <4>2, <5>1
      <4>3. CASE x # y
        <5>1. refCount'[x] = refCount[x]
          BY <1>0, <3>2, <3>5, <4>3
        <5> QED BY <1>2, <2>1, <2>4, <2>6, <3>5, <4>1, <4>3, <5>1
      <4> QED BY <4>2, <4>3
    <3> QED BY <3>4, <3>5
  <2>9. ASSUME ReleaseManager_MgrThread PROVE Sum
    <3>1. y = Manager /\ refCount[y] = 1
      BY <2>2, <2>9 DEF ReleaseManager_MgrThread, IsLast
    <3>2. refCount' = [refCount EXCEPT ![y] = 0] /\ queue' = queue
      BY <2>9, <3>1 DEF ReleaseManager_MgrThread, commands
    <3>3. \A d \in Devices : refCount'[d] > 0 <=> refCount[d] > 0
      BY <1>0, <3>1, <3>2
    <3>4. Living(refCount') = Living(refCount)
      BY <3>3, LivingSame
    <3>5. CASE x = y
      BY <1>0, <1>2, <1>3, <1>4, <2>1, <2>4, <2>5, <3>1, <3>2, <3>4, <3>5
    <3>6. CASE x # y
      BY <1>0, <1>2, <1>3, <1>4, <2>1, <2>4, <2>6, <3>2, <3>4, <3>6
    <3> QED BY <3>5, <3>6
  <2> QED BY <1>8, <2>7, <2>8, <2>9
<1>9. ASSUME PushExitCommand PROVE Sum
  <2>1. /\ queue' = Append(queue, ExitCommand) /\ worker = "closing" /\ worker' = "finishing"
        /\ refCount' = refCount /\ holds' = holds
    BY <1>9 DEF PushExitCommand, Push, counts, caller
  <2>2. PassedIn(queue', x) = PassedIn(queue, x)
    <3>1. ExitCommand # Release(x)
      BY Made
    <3> QED BY <1>0, <2>1, <3>1, SentCommands, PassedAppend
  <2>3. InHand(worker, serving, x) = 0 /\ InHand(worker', serving', x) = 0
    BY <2>1, EmptyHand
  <2> QED BY <1>2, <2>1, <2>2, <2>3
<1>10. ASSUME ReleaseKeepAlive \/ EnumerateAllFactoryDevices \/ Finish \/ Exit PROVE Sum
  <2>1. refCount' = refCount /\ holds' = holds /\ queue' = queue
    BY <1>10
       DEF ReleaseKeepAlive, EnumerateAllFactoryDevices, Finish, Exit, commands, counts, caller
  <2>2. worker # "serving" \/ serving.op # "release"
    BY <1>10 DEF ReleaseKeepAlive, EnumerateAllFactoryDevices, Finish, Exit, Serving
  <2>3. worker' # "serving"
    BY <1>10 DEF ReleaseKeepAlive, EnumerateAllFactoryDevices, Finish, Exit
  <2>4. InHand(worker, serving, x) = 0 /\ InHand(worker', serving', x) = 0
    BY <2>2, <2>3, EmptyHand
  <2> QED BY <1>5, <2>1, <2>4
<1> QED BY <1>6, <1>7, <1>8, <1>9, <1>10 DEF Sum, Run

\* Every step keeps the sums.
LEMMA RefStep ==
  ASSUME IInv, [Next]_vars
  PROVE  RefCountsOwners'
<1>1. CASE \E t \in Threads : Call(t) \/ Continue(t)
  BY <1>1, CallRefs
<1>2. CASE Run
  BY <1>2, RunRefs
<1>3. CASE UNCHANGED <<refCount, holds, queue, worker, serving>>
  <2>1. RefCountsOwners
    BY DEF IInv, CountsOwners
  <2> QED BY <1>3, <2>1, Balance
<1> QED
  BY <1>1, <1>2, <1>3
     DEF Next, vars, counts, commands, thread, caller, DetectHIDDevice, Plug
-----------------------------------------------------------------------------
(* Every step keeps the handles' counts. *)

\* Who lives goes on living, and nobody comes to life, but where a device is
\* made or destroyed and where the manager is.
LEMMA Lives ==
  ASSUME IInv, [Next]_vars, NEW x \in Objects
  PROVE  \/ refCount'[x] > 0 <=> refCount[x] > 0
         \/ x \in Devices /\ (CreateDevice_MgrThread \/ ReleaseDevice_MgrThread)
         \/ x = Manager /\ ReleaseManager_MgrThread
<1> DEFINE Same == refCount'[x] > 0 <=> refCount[x] > 0
<1>0. /\ refCount \in [Objects -> Nat] /\ holds \in [Threads -> [Objects -> Nat]]
      /\ Manager \in Objects /\ Devices \subseteq Objects /\ Manager \notin Devices
      /\ refCount[x] \in Nat /\ Objects = Devices \cup {Manager}
  BY Types DEF Objects
<1>1. CASE refCount' = refCount
  BY <1>1
<1>2. ASSUME NEW t \in Threads, CreateDevice(t) PROVE Same
  <2> DEFINE got == IF Alive(handle[t]) THEN {handle[t]} ELSE Pinned
  <2>1. refCount'[x] = refCount[x] + IF x \in got THEN 1 ELSE 0
    BY <1>0, <1>2 DEF CreateDevice
  <2>2. x \in got => refCount[x] > 0
    BY <1>2 DEF CreateDevice, Alive, Pinned
  <2> HIDE DEF got
  <2> QED BY <1>0, <2>1, <2>2
<1>3. ASSUME NEW t \in Threads, NEW y \in Objects, DeviceRelease(t, y) PROVE Same
  <2>1. CASE IsLast(y)
    BY <1>1, <1>3, <2>1 DEF DeviceRelease
  <2>2. CASE ~ IsLast(y)
    <3>1. holds[t][y] > 0
      BY <1>3 DEF DeviceRelease, IInv, CallOK, ThreadsOK
    <3>2. refCount[y] > 0 /\ refCount[y] # 1 /\ refCount[y] \in Nat
      BY <1>0, <2>2, <3>1, Referred DEF IsLast
    <3>3. refCount' = [refCount EXCEPT ![y] = @ - 1]
      BY <1>3, <2>2 DEF DeviceRelease
    <3> QED BY <1>0, <3>2, <3>3
  <2> QED BY <2>1, <2>2
<1>4. ASSUME CreateDevice_MgrThread, x \notin Devices PROVE Same
  <2>1. refCount[Manager] > 0
    BY <1>4, Referred DEF CreateDevice_MgrThread
  <2>2. serving.object \in Devices
    BY <1>4, InService DEF CreateDevice_MgrThread, Serving
  <2>3. \/ refCount' = refCount
        \/ refCount' = [refCount EXCEPT ![serving.object] = @ + 1]
        \/ refCount' = [refCount EXCEPT ![serving.object] = 1, ![Manager] = @ + 1]
    BY <1>4 DEF CreateDevice_MgrThread, counts
  <2>4. x = Manager /\ x # serving.object
    BY <1>0, <1>4, <2>2
  <2> QED BY <1>0, <2>1, <2>3, <2>4
<1>5. ASSUME ReleaseStolen \/ ReleaseDevice_MgrThread \/ ReleaseManager_MgrThread
      PROVE  \/ Same
             \/ x \in Devices /\ ReleaseDevice_MgrThread
             \/ x = Manager /\ ReleaseManager_MgrThread
  <2>1. Serving("release")
    BY <1>5 DEF ReleaseStolen, ReleaseDevice_MgrThread, ReleaseManager_MgrThread
  <2>2. PICK y \in Objects : y = serving.object /\ refCount[y] > 0 /\ refCount[Manager] > 0
    BY <2>1, Referred
  <2>3. refCount[y] \in Nat /\ refCount[Manager] \in Nat
    BY <1>0
  <2>4. ASSUME ReleaseStolen PROVE Same
    <3>1. refCount' = [refCount EXCEPT ![y] = @ - 1] /\ refCount[y] # 1
      BY <2>2, <2>4 DEF ReleaseStolen, IsLast
    <3> QED BY <1>0, <2>2, <2>3, <3>1
  <2>5. ASSUME ReleaseDevice_MgrThread, x \notin Devices PROVE Same
    <3>1. y \in Devices /\ x = Manager /\ x # y
      BY <1>0, <2>2, <2>5 DEF ReleaseDevice_MgrThread
    <3>2. \/ refCount' = [refCount EXCEPT ![y] = 0]
          \/ refCount' = [refCount EXCEPT ![y] = 0, ![Manager] = @ - 1] /\ refCount[Manager] # 1
      BY <2>2, <2>5 DEF ReleaseDevice_MgrThread, IsLast
    <3> QED BY <1>0, <2>2, <2>3, <3>1, <3>2
  <2>6. ASSUME ReleaseManager_MgrThread, x # Manager PROVE Same
    BY <1>0, <2>6 DEF ReleaseManager_MgrThread
  <2> QED BY <1>5, <2>4, <2>5, <2>6
<1> HIDE DEF Same
<1>6. ASSUME refCount' # refCount
      PROVE  \/ \E t \in Threads : CreateDevice(t) \/ \E y \in Objects : DeviceRelease(t, y)
             \/ CreateDevice_MgrThread
             \/ ReleaseStolen \/ ReleaseDevice_MgrThread \/ ReleaseManager_MgrThread
  BY <1>6
     DEF Next, Call, Continue, Run, vars, counts, EnumerateDevicesEx, GetEnumerator, PushCreate,
         PushRelease, ReleaseHandle, ReleaseLastHandle, PopCommand, ReleaseKeepAlive,
         PushExitCommand, EnumerateAllFactoryDevices, Finish, Exit, DetectHIDDevice, Plug
<1> QED BY <1>1, <1>2, <1>3, <1>4, <1>5, <1>6 DEF Same

\* The sum for a descriptor in the next state.
HandleSum(d) ==
  handleCount'[d] = HandlesOf(handle', d) + (IF refCount'[d] > 0 THEN 1 ELSE 0)
                    + (IF keepAlive' = d THEN 1 ELSE 0)

\* Steps that leave the handles and the descriptor's device alone.
LEMMA HandlesRest ==
  ASSUME IInv, NEW d \in Devices, refCount'[d] > 0 <=> refCount[d] > 0,
         UNCHANGED <<handleCount, handle, keepAlive>>
  PROVE  HandleSum(d)
  BY HandleTerms DEF HandleSum

\* The threads' steps keep the handles' counts.
LEMMA CallHandles ==
  ASSUME IInv, [Next]_vars, NEW t \in Threads, Call(t) \/ Continue(t), NEW d \in Devices
  PROVE  HandleSum(d)
<1>0. /\ handleCount \in [Devices -> Nat] /\ handle \in [Threads -> Devices \cup {NULL}]
      /\ NULL \notin Devices /\ Devices \subseteq Objects
  BY Types
<1>1. refCount'[d] > 0 <=> refCount[d] > 0
  <2>1. worker' = worker
    BY DEF Call, Continue, EnumerateDevicesEx, GetEnumerator, CreateDevice, PushCreate,
           DeviceRelease, PushRelease, ReleaseHandle, ReleaseLastHandle, thread
  <2>2. d # Manager /\ d \in Objects
    BY Types
  <2> QED
    BY <2>1, <2>2, Lives DEF CreateDevice_MgrThread, ReleaseDevice_MgrThread, Serving
<1>2. /\ handleCount[d] \in Nat /\ HandlesOf(handle, d) \in Nat
      /\ handleCount[d] = HandlesOf(handle, d) + (IF refCount[d] > 0 THEN 1 ELSE 0)
                          + (IF keepAlive = d THEN 1 ELSE 0)
  BY HandleTerms
<1>3. HandlesOf(handle', d) \in Nat
  BY HandlesFinite
<1>4. keepAlive' = keepAlive
  BY DEF Call, Continue, EnumerateDevicesEx, GetEnumerator, CreateDevice, PushCreate,
         DeviceRelease, PushRelease, ReleaseHandle, ReleaseLastHandle, thread
<1>5. CASE handleCount' = handleCount /\ handle' = handle
  BY <1>1, <1>4, <1>5, HandlesRest
<1>6. ASSUME NEW e \in Devices, handle[t] = e, handle' = [handle EXCEPT ![t] = NULL],
             handleCount' = [handleCount EXCEPT ![e] = @ - 1]
      PROVE  HandleSum(d)
  <2>1. CASE d = e
    <3>1. /\ handle'[t] # d /\ handle[t] = d
          /\ \A u \in Threads : u # t => handle[u] = handle'[u]
      BY <1>0, <1>6, <2>1
    <3>2. HandlesOf(handle, d) = HandlesOf(handle', d) + 1
      BY <3>1, HandlesMore
    <3>3. handleCount'[d] = handleCount[d] - 1
      BY <1>0, <1>6, <2>1
    <3> QED BY <1>1, <1>2, <1>3, <1>4, <3>2, <3>3 DEF HandleSum
  <2>2. CASE d # e
    <3>1. \A u \in Threads : handle'[u] = d <=> handle[u] = d
      BY <1>0, <1>6, <2>2
    <3>2. HandlesOf(handle', d) = HandlesOf(handle, d)
      BY <3>1, HandlesSame
    <3>3. handleCount'[d] = handleCount[d]
      BY <1>0, <1>6, <2>2
    <3> QED BY <1>1, <1>2, <1>4, <3>2, <3>3 DEF HandleSum
  <2> QED BY <2>1, <2>2
<1>7. ASSUME GetEnumerator(t) PROVE HandleSum(d)
  <2>1. handle[t] = NULL
    BY <1>7 DEF GetEnumerator, IInv, CallOK, ThreadsOK
  <2>2. ASSUME NEW e \in Devices, handle' = [handle EXCEPT ![t] = e],
               handleCount' = [handleCount EXCEPT ![e] = @ + 1]
        PROVE  HandleSum(d)
    <3>1. CASE d = e
      <4>1. /\ handle[t] # d /\ handle'[t] = d
            /\ \A u \in Threads : u # t => handle'[u] = handle[u]
        BY <1>0, <2>1, <2>2, <3>1
      <4>2. HandlesOf(handle', d) = HandlesOf(handle, d) + 1
        BY <4>1, HandlesMore
      <4>3. handleCount'[d] = handleCount[d] + 1
        BY <1>0, <2>2, <3>1
      <4> QED BY <1>1, <1>2, <1>3, <1>4, <4>2, <4>3 DEF HandleSum
    <3>2. CASE d # e
      <4>1. \A u \in Threads : handle'[u] = d <=> handle[u] = d
        BY <1>0, <2>1, <2>2, <3>2
      <4>2. HandlesOf(handle', d) = HandlesOf(handle, d)
        BY <4>1, HandlesSame
      <4>3. handleCount'[d] = handleCount[d]
        BY <1>0, <2>2, <3>2
      <4> QED BY <1>1, <1>2, <1>4, <4>2, <4>3 DEF HandleSum
    <3> QED BY <3>1, <3>2
  <2> QED BY <1>5, <1>7, <2>2 DEF GetEnumerator
<1>8. ASSUME ReleaseHandle(t) PROVE HandleSum(d)
  <2>1. handle[t] \in Devices
    BY <1>0, <1>8 DEF ReleaseHandle
  <2>2. \/ handleCount' = handleCount /\ handle' = handle
        \/ /\ handle' = [handle EXCEPT ![t] = NULL]
           /\ handleCount' = [handleCount EXCEPT ![handle[t]] = @ - 1]
    BY <1>8 DEF ReleaseHandle
  <2> QED BY <1>5, <1>6, <2>1, <2>2
<1>9. ASSUME ReleaseLastHandle(t) PROVE HandleSum(d)
  <2>1. handle[t] \in Devices
    BY <1>0, <1>9 DEF ReleaseLastHandle, IInv, CallOK, ThreadsOK
  <2>2. CASE ~ StillLast(handle[t])
    BY <1>5, <1>9, <2>2 DEF ReleaseLastHandle
  <2>3. CASE StillLast(handle[t])
    <3>1. /\ handle' = [handle EXCEPT ![t] = NULL] /\ handleCount[handle[t]] = 1
          /\ handleCount' = [handleCount EXCEPT ![handle[t]] = 0]
      BY <1>9, <2>3 DEF ReleaseLastHandle, SetHandles, StillLast
    <3>2. handleCount' = [handleCount EXCEPT ![handle[t]] = @ - 1]
      BY <1>0, <2>1, <3>1
    <3> QED BY <1>6, <2>1, <3>1, <3>2
  <2> QED BY <2>2, <2>3
<1>10. ASSUME \/ EnumerateDevicesEx(t) \/ CreateDevice(t) \/ PushCreate(t) \/ PushRelease(t)
              \/ \E x \in Objects : DeviceRelease(t, x)
       PROVE  HandleSum(d)
  <2>1. handleCount' = handleCount /\ handle' = handle
    BY <1>10
       DEF EnumerateDevicesEx, CreateDevice, PushCreate, PushRelease, DeviceRelease, counts
  <2> QED BY <1>5, <2>1
<1> QED BY <1>7, <1>8, <1>9, <1>10 DEF Call, Continue
\* The steps of the manager's thread keep the handles' counts.
LEMMA RunHandles ==
  ASSUME IInv, [Next]_vars, Run, NEW d \in Devices
  PROVE  HandleSum(d)
<1>0. /\ handleCount \in [Devices -> Nat] /\ refCount \in [Objects -> Nat]
      /\ NULL \notin Devices /\ Devices \subseteq Objects /\ Manager \notin Devices
      /\ keepAlive \in Devices \cup {NULL} /\ d \in Objects /\ d # Manager /\ d # NULL
  BY Types
<1>1. /\ handleCount[d] \in Nat /\ HandlesOf(handle, d) \in Nat
      /\ handleCount[d] = HandlesOf(handle, d) + (IF refCount[d] > 0 THEN 1 ELSE 0)
                          + (IF keepAlive = d THEN 1 ELSE 0)
  BY HandleTerms
<1>2. handle' = handle
  BY DEF Run, PopCommand, CreateDevice_MgrThread, ReleaseStolen, ReleaseDevice_MgrThread,
         ReleaseKeepAlive, ReleaseManager_MgrThread, PushExitCommand,
         EnumerateAllFactoryDevices, Finish, Exit, caller
<1>3. ASSUME refCount'[d] > 0 <=> refCount[d] > 0, handleCount' = handleCount,
             keepAlive' = keepAlive
      PROVE  HandleSum(d)
  BY <1>2, <1>3, HandlesRest
<1>4. ASSUME CreateDevice_MgrThread PROVE HandleSum(d)
  <2>1. worker = "serving" /\ serving.op = "create" /\ keepAlive' = keepAlive
    BY <1>4 DEF CreateDevice_MgrThread, Serving
  <2>2. PICK e \in Devices : e = serving.object
    BY <2>1, InService
  <2>3. CASE refCount[e] > 0
    <3>1. refCount' = [refCount EXCEPT ![e] = @ + 1] /\ handleCount' = handleCount
      BY <1>4, <2>2, <2>3 DEF CreateDevice_MgrThread, Alive
    <3>2. refCount[d] \in Nat /\ refCount'[d] = IF d = e THEN refCount[d] + 1 ELSE refCount[d]
      BY <1>0, <3>1
    <3> QED BY <1>3, <2>1, <2>3, <3>1, <3>2
  <2>4. CASE /\ ~ (refCount[e] > 0)
             /\ refCount' = [refCount EXCEPT ![e] = 1, ![Manager] = @ + 1]
             /\ handleCount' = [handleCount EXCEPT ![e] = @ + 1]
    <3>1. CASE d = e
      <4>1. refCount'[d] = 1 /\ ~ (refCount[d] > 0) /\ handleCount'[d] = handleCount[d] + 1
        BY <1>0, <2>4, <3>1
      <4> QED BY <1>1, <1>2, <2>1, <4>1 DEF HandleSum
    <3>2. CASE d # e
      <4>1. refCount'[d] = refCount[d] /\ handleCount'[d] = handleCount[d]
        BY <1>0, <2>4, <3>2
      <4> QED BY <1>1, <1>2, <2>1, <4>1 DEF HandleSum
    <3> QED BY <3>1, <3>2
  <2>5. CASE refCount' = refCount /\ handleCount' = handleCount
    BY <1>3, <2>1, <2>5
  <2> QED BY <1>4, <2>2, <2>3, <2>4, <2>5 DEF CreateDevice_MgrThread, Alive, counts
<1>5. ASSUME ReleaseDevice_MgrThread PROVE HandleSum(d)
  <2>1. /\ serving.object \in Devices /\ refCount[serving.object] = 1 /\ handleCount' = handleCount
        /\ worker = "serving" /\ keepAlive' = serving.object
    BY <1>5 DEF ReleaseDevice_MgrThread, Serving, IsLast
  <2>2. PICK e \in Devices : e = serving.object
    BY <2>1
  <2>3. \/ refCount' = [refCount EXCEPT ![e] = 0]
        \/ refCount' = [refCount EXCEPT ![e] = 0, ![Manager] = @ - 1]
    BY <1>5, <2>2 DEF ReleaseDevice_MgrThread
  <2>4. keepAlive = NULL
    BY <2>1 DEF IInv, WorkerOK
  <2>5. CASE d = e
    <3>1. refCount'[d] = 0 /\ refCount[d] = 1
      BY <1>0, <2>1, <2>2, <2>3, <2>5
    <3> QED BY <1>0, <1>1, <1>2, <2>1, <2>2, <2>4, <2>5, <3>1 DEF HandleSum
  <2>6. CASE d # e
    <3>1. refCount'[d] = refCount[d]
      BY <1>0, <2>3, <2>6
    <3> QED BY <1>0, <1>1, <1>2, <2>1, <2>2, <2>4, <2>6, <3>1 DEF HandleSum
  <2> QED BY <2>5, <2>6
<1>6. ASSUME ReleaseKeepAlive PROVE HandleSum(d)
  <2>1. PICK e \in Devices : keepAlive = e
    BY <1>0, <1>6 DEF ReleaseKeepAlive, IInv, WorkerOK
  <2>2. /\ handleCount' = [handleCount EXCEPT ![e] = handleCount[e] - 1] /\ refCount' = refCount
        /\ keepAlive' = NULL
    BY <1>6, <2>1 DEF ReleaseKeepAlive, SetHandles
  <2>3. CASE d = e
    <3>1. handleCount'[d] = handleCount[d] - 1
      BY <1>0, <2>2, <2>3
    <3> QED BY <1>0, <1>1, <1>2, <2>1, <2>2, <2>3, <3>1 DEF HandleSum
  <2>4. CASE d # e
    <3>1. handleCount'[d] = handleCount[d]
      BY <1>0, <2>2, <2>4
    <3> QED BY <1>0, <1>1, <1>2, <2>1, <2>2, <2>4, <3>1 DEF HandleSum
  <2> QED BY <2>3, <2>4
<1>7. ASSUME \/ PopCommand \/ ReleaseStolen \/ ReleaseManager_MgrThread \/ PushExitCommand
             \/ EnumerateAllFactoryDevices \/ Finish \/ Exit
      PROVE  HandleSum(d)
  <2>1. handleCount' = handleCount /\ keepAlive' = keepAlive
    BY <1>7
       DEF PopCommand, ReleaseStolen, ReleaseManager_MgrThread, PushExitCommand,
           EnumerateAllFactoryDevices, Finish, Exit, counts
  <2>2. CASE refCount' = refCount
    BY <1>3, <2>1, <2>2
  <2>3. CASE ReleaseStolen
    <3>1. Serving("release") /\ ~ IsLast(serving.object)
      BY <2>3 DEF ReleaseStolen
    <3>2. PICK y \in Objects : y = serving.object /\ refCount[y] > 0 /\ refCount[y] # 1
      BY <3>1, Referred DEF IsLast
    <3>3. refCount' = [refCount EXCEPT ![y] = @ - 1] /\ refCount[y] \in Nat /\ refCount[d] \in Nat
      BY <1>0, <2>3, <3>2 DEF ReleaseStolen
    <3>4. refCount'[d] = IF d = y THEN refCount[d] - 1 ELSE refCount[d]
      BY <1>0, <3>3
    <3>5. refCount'[d] > 0 <=> refCount[d] > 0
      BY <3>2, <3>3, <3>4
    <3> QED BY <1>3, <2>1, <3>5
  <2>4. CASE ReleaseManager_MgrThread
    <3>1. refCount'[d] = refCount[d]
      BY <1>0, <2>4 DEF ReleaseManager_MgrThread
    <3> QED BY <1>3, <2>1, <3>1
  <2> QED
    BY <1>7, <2>2, <2>3, <2>4
       DEF PopCommand, PushExitCommand, EnumerateAllFactoryDevices, Finish, Exit, counts
<1> QED BY <1>4, <1>5, <1>6, <1>7 DEF Run

\* Every step keeps the handles' counts.
LEMMA HandleStep ==
  ASSUME IInv, [Next]_vars, NEW d \in Devices
  PROVE  HandleSum(d)
<1>1. CASE \E t \in Threads : Call(t) \/ Continue(t)
  BY <1>1, CallHandles
<1>2. CASE Run
  BY <1>2, RunHandles
<1>3. CASE UNCHANGED <<refCount, handleCount, handle, keepAlive>>
  <2>1. refCount'[d] > 0 <=> refCount[d] > 0
    BY <1>3
  <2> QED BY <1>3, <2>1, HandlesRest
<1> QED
  BY <1>1, <1>2, <1>3 DEF Next, vars, counts, thread, caller, DetectHIDDevice, Plug

\* A descriptor that somebody has is there, and the list keeps those that
\* nobody has for the next handle.
Described(d) ==
  /\ handleCount[d] > 0 => desc[d] # "none"
  /\ handleCount[d] = 0 /\ desc[d] # "none" => Alive(Manager) /\ enumerated[d]

\* Both, from the invariant.
LEMMA IsDescribed ==
  ASSUME IInv, NEW d \in Devices
  PROVE  Described(d)
  BY DEF IInv, CountsOwners, HandleCountsOwners, NoDescriptorLeaks, Described

\* The last handle takes the descriptor with it, unless the list keeps it.
LEMMA Dropped ==
  ASSUME IInv, NEW d \in Devices, NEW e \in Devices, NEW n \in Nat, SetHandles(e, n),
         n > 0 => handleCount[e] > 0,
         refCount'[Manager] > 0 <=> refCount[Manager] > 0, enumerated' = enumerated
  PROVE  Described(d)'
<1>0. /\ handleCount \in [Devices -> Nat] /\ desc \in [Devices -> {"none", "listed", "removed"}]
  BY Types
<1>1. /\ handleCount' = [handleCount EXCEPT ![e] = n]
      /\ desc' = [desc EXCEPT ![e] = IF n = 0 /\ ~ Keeps(e) THEN "none" ELSE @]
  BY DEF SetHandles
<1>2. Described(d)
  BY IsDescribed
<1>3. CASE d # e
  <2>1. handleCount'[d] = handleCount[d] /\ desc'[d] = desc[d]
    BY <1>0, <1>1, <1>3
  <2> QED BY <1>2, <2>1 DEF Described, Alive
<1>4. CASE d = e
  <2>1. handleCount'[d] = n /\ desc'[d] = IF n = 0 /\ ~ Keeps(d) THEN "none" ELSE desc[d]
    BY <1>0, <1>1, <1>4
  <2>2. CASE n = 0
    BY <2>1, <2>2 DEF Described, Alive, Keeps
  <2>3. CASE n > 0
    BY <1>2, <1>4, <2>1, <2>3 DEF Described
  <2> QED BY <2>2, <2>3
<1> QED BY <1>3, <1>4

\* Every step keeps the descriptors.
LEMMA DescribedStep ==
  ASSUME IInv, [Next]_vars, NEW d \in Devices
  PROVE  Described(d)'
<1>0. /\ handleCount \in [Devices -> Nat] /\ desc \in [Devices -> {"none", "listed", "removed"}]
      /\ handle \in [Threads -> Devices \cup {NULL}] /\ keepAlive \in Devices \cup {NULL}
      /\ plugged \in [Devices -> BOOLEAN] /\ Manager \in Objects /\ Manager \notin Devices
      /\ enumerated \in [Devices -> BOOLEAN]
  BY Types DEF IInv, CountsOwners, TypeOK
<1>1. Described(d) /\ handleCount[d] \in Nat
  BY <1>0, IsDescribed
<1>2. ReleaseManager_MgrThread \/ (refCount'[Manager] > 0 <=> refCount[Manager] > 0)
  BY <1>0, Lives
<1>3. CASE ReleaseManager_MgrThread
  <2>1. /\ handleCount' = handleCount
        /\ desc'[d] = IF handleCount[d] = 0 THEN "none" ELSE "removed"
    BY <1>3 DEF ReleaseManager_MgrThread
  <2> QED BY <1>1, <2>1 DEF Described
<1>4. CASE refCount'[Manager] > 0 <=> refCount[Manager] > 0
  <2>1. CASE UNCHANGED <<handleCount, desc, enumerated>>
    BY <1>1, <1>4, <2>1 DEF Described, Alive
  <2>2. ASSUME NEW e \in Devices, desc[e] # "none", UNCHANGED <<desc, enumerated>>,
               handleCount' = [handleCount EXCEPT ![e] = @ + 1]
        PROVE  Described(d)'
    <3>1. CASE d = e
      <4>1. handleCount'[d] > 0
        BY <1>0, <2>2, <3>1
      <4> QED BY <2>2, <3>1, <4>1 DEF Described
    <3>2. CASE d # e
      <4>1. handleCount'[d] = handleCount[d]
        BY <1>0, <2>2, <3>2
      <4> QED BY <1>1, <1>4, <2>2, <4>1 DEF Described, Alive
    <3> QED BY <3>1, <3>2
  <2>3. ASSUME NEW t \in Threads, GetEnumerator(t) PROVE Described(d)'
    <3>1. UNCHANGED <<desc, enumerated>>
      BY <2>3 DEF GetEnumerator, list
    <3>2. \/ handleCount' = handleCount
          \/ \E e \in Devices : /\ desc[e] = "listed"
                                /\ handleCount' = [handleCount EXCEPT ![e] = @ + 1]
      BY <2>3 DEF GetEnumerator
    <3> QED BY <2>1, <2>2, <3>1, <3>2
  <2>4. ASSUME NEW t \in Threads, ReleaseHandle(t) PROVE Described(d)'
    <3>1. UNCHANGED <<desc, enumerated>>
      BY <2>4 DEF ReleaseHandle, list
    <3>2. PICK e \in Devices : handle[t] = e
      BY <1>0, <2>4 DEF ReleaseHandle
    <3>3. CASE handleCount[e] = 1
      BY <2>1, <2>4, <3>1, <3>2, <3>3 DEF ReleaseHandle
    <3>4. CASE handleCount[e] # 1
      <4>1. handleCount' = [handleCount EXCEPT ![e] = @ - 1]
        BY <2>4, <3>2, <3>4 DEF ReleaseHandle
      <4>2. handleCount[e] > 0 /\ handleCount[e] \in Nat
        BY <1>0, <3>2, HandleTerms
      <4>3. handleCount'[d] = IF d = e THEN handleCount[d] - 1 ELSE handleCount[d]
        BY <1>0, <4>1
      <4> QED BY <1>1, <1>4, <3>1, <3>4, <4>2, <4>3 DEF Described, Alive
    <3> QED BY <3>3, <3>4
  <2>5. ASSUME NEW t \in Threads, ReleaseLastHandle(t) PROVE Described(d)'
    <3>1. handle[t] \in Devices /\ enumerated' = enumerated
      BY <1>0, <2>5 DEF ReleaseLastHandle, IInv, CallOK, ThreadsOK
    <3>2. CASE StillLast(handle[t])
      <4>1. SetHandles(handle[t], 0)
        BY <2>5, <3>2 DEF ReleaseLastHandle
      <4>2. 0 \in Nat /\ ~ (0 > 0)
        OBVIOUS
      <4> QED BY <1>4, <3>1, <4>1, <4>2, Dropped
    <3>3. CASE ~ StillLast(handle[t])
      BY <2>1, <2>5, <3>1, <3>3 DEF ReleaseLastHandle
    <3> QED BY <3>2, <3>3
  <2>6. ASSUME CreateDevice_MgrThread PROVE Described(d)'
    <3>1. UNCHANGED <<desc, enumerated>>
      BY <2>6 DEF CreateDevice_MgrThread, list
    <3>2. worker = "serving" /\ serving.op = "create"
      BY <2>6 DEF CreateDevice_MgrThread, Serving
    <3>3. PICK e \in Devices : e = serving.object /\ \E t \in Threads : handle[t] = e
      BY <3>2, InService
    <3>4. desc[e] # "none"
      BY <3>3, HandleTerms
    <3>5. handleCount' = handleCount \/ handleCount' = [handleCount EXCEPT ![e] = @ + 1]
      BY <2>6, <3>3 DEF CreateDevice_MgrThread, counts
    <3> QED BY <2>1, <2>2, <3>1, <3>4, <3>5
  <2>7. ASSUME ReleaseKeepAlive PROVE Described(d)'
    <3>1. PICK e \in Devices : keepAlive = e
      BY <1>0, <2>7 DEF ReleaseKeepAlive, IInv, WorkerOK
    <3>2. handleCount[e] \in Nat /\ handleCount[e] > 0
      BY <1>0, <3>1, HandleTerms
    <3>3. PICK n \in Nat : n = handleCount[e] - 1
      BY <3>2
    <3>4. SetHandles(e, n) /\ enumerated' = enumerated
      BY <2>7, <3>1, <3>3 DEF ReleaseKeepAlive
    <3> QED BY <1>4, <3>2, <3>4, Dropped
  <2>8. ASSUME EnumerateAllFactoryDevices PROVE Described(d)'
    <3>1. /\ enumerated' = plugged /\ handleCount' = handleCount
          /\ desc'[d] = IF plugged[d] THEN "listed"
                        ELSE IF handleCount[d] = 0 THEN "none" ELSE desc[d]
      BY <2>8 DEF EnumerateAllFactoryDevices, counts
    <3>2. refCount[Manager] > 0
      BY <2>8, Referred DEF EnumerateAllFactoryDevices
    <3>3. CASE plugged[d]
      <4>1. desc'[d] = "listed" /\ enumerated'[d]
        BY <3>1, <3>3
      <4> QED BY <1>4, <3>2, <4>1 DEF Described, Alive
    <3>4. CASE ~ plugged[d]
      <4>1. desc'[d] = IF handleCount[d] = 0 THEN "none" ELSE desc[d]
        BY <3>1, <3>4
      <4> QED BY <1>1, <3>1, <4>1 DEF Described
    <3> QED BY <3>3, <3>4
  <2>9. ASSUME NEW e \in Devices, DetectHIDDevice(e) PROVE Described(d)'
    <3>1. /\ handleCount' = handleCount /\ refCount[Manager] > 0
          /\ desc' = [desc EXCEPT ![e] = "listed"]
          /\ enumerated' = [enumerated EXCEPT ![e] = TRUE]
      BY <2>9 DEF DetectHIDDevice, counts, Alive
    <3>2. CASE d = e
      <4>1. desc'[d] = "listed" /\ enumerated'[d]
        BY <1>0, <3>1, <3>2
      <4> QED BY <1>4, <3>1, <4>1 DEF Described, Alive
    <3>3. CASE d # e
      <4>1. desc'[d] = desc[d] /\ enumerated'[d] = enumerated[d]
        BY <1>0, <3>1, <3>3
      <4> QED BY <1>1, <1>4, <3>1, <4>1 DEF Described, Alive
    <3> QED BY <3>2, <3>3
  <2> QED
    BY <1>3, <2>1, <2>3, <2>4, <2>5, <2>6, <2>7, <2>8, <2>9
       DEF Next, Call, Continue, Run, vars, counts, list, EnumerateDevicesEx, CreateDevice,
           DeviceRelease, PushCreate, PushRelease, PopCommand, ReleaseStolen,
           ReleaseDevice_MgrThread, PushExitCommand, Finish, Exit, Plug
<1> QED BY <1>2, <1>3, <1>4

\* Every step keeps the counts.
LEMMA CountStep ==
  ASSUME IInv, [Next]_vars
  PROVE  CountsOwners'
<1>1. TypeOK' /\ RefCountsOwners'
  BY TypeStep, RefStep
<1>2. HandleCountsOwners'
  <2>1. \A d \in Devices : HandleSum(d) /\ (handleCount'[d] > 0 => desc'[d] # "none")
    BY HandleStep, DescribedStep DEF Described
  <2> QED BY <2>1 DEF HandleCountsOwners, HandleSum, HandlesOf, Alive
<1>3. NoDescriptorLeaks'
  BY DescribedStep DEF NoDescriptorLeaks, Described
<1> QED BY <1>1, <1>2, <1>3 DEF CountsOwners
-----------------------------------------------------------------------------
(* Every step keeps the calls. *)

\* A thread has the reference or the handle that it calls with.
ThreadOK(t) ==
  /\ pc[t] \in {"waiting", "enumerated"} => \E x \in Objects : holds[t][x] > 0
  /\ pc[t] \in {"requesting", "created"} => holds[t][Manager] > 0
  /\ pc[t] \in {"requesting", "dropping"} => handle[t] # NULL
  /\ pc[t] = "enumerated" => handle[t] = NULL
  /\ pc[t] = "releasing" => releasing[t] # NULL /\ holds[t][releasing[t]] > 0

\* A thread that another one's step leaves alone, but for references given to it.
LEMMA ThreadKept ==
  ASSUME IInv, NEW t \in Threads, holds' \in [Threads -> [Objects -> Nat]],
         pc'[t] = pc[t], handle'[t] = handle[t], releasing'[t] = releasing[t],
         \A x \in Objects : holds[t][x] > 0 => holds'[t][x] > 0
  PROVE  ThreadOK(t)'
<1>1. ThreadOK(t)
  BY DEF IInv, CallOK, ThreadsOK, ThreadOK
<1>2. Manager \in Objects /\ releasing[t] \in Objects \cup {NULL}
  BY Types
<1> QED BY <1>1, <1>2 DEF ThreadOK

\* What a thread does in a step of its own.
LEMMA ThreadAlone ==
  ASSUME IInv, NEW t \in Threads, Call(t) \/ Continue(t)
  PROVE  /\ pc[t] # "waiting"
         /\ \A u \in Threads : u # t => /\ pc'[u] = pc[u] /\ handle'[u] = handle[u]
                                        /\ releasing'[u] = releasing[u] /\ holds'[u] = holds[u]
<1>0. /\ pc \in [Threads -> {"out", "waiting", "enumerated", "requesting", "created",
                             "releasing", "dropping"}]
      /\ handle \in [Threads -> Devices \cup {NULL}]
      /\ releasing \in [Threads -> Objects \cup {NULL}]
      /\ holds \in [Threads -> [Objects -> Nat]]
  BY Types DEF IInv, CountsOwners, TypeOK
<1>1. pc[t] # "waiting"
  BY DEF Call, Continue, EnumerateDevicesEx, GetEnumerator, CreateDevice, PushCreate,
         PushRelease, ReleaseHandle, ReleaseLastHandle
<1>2. ASSUME NEW u \in Threads, u # t PROVE pc'[u] = pc[u]
  BY <1>0, <1>2
     DEF Call, Continue, EnumerateDevicesEx, GetEnumerator, CreateDevice, PushCreate,
         DeviceRelease, PushRelease, ReleaseHandle, ReleaseLastHandle
<1>3. ASSUME NEW u \in Threads, u # t PROVE handle'[u] = handle[u]
  BY <1>0, <1>3
     DEF Call, Continue, EnumerateDevicesEx, GetEnumerator, CreateDevice, PushCreate,
         DeviceRelease, PushRelease, ReleaseHandle, ReleaseLastHandle
<1>4. ASSUME NEW u \in Threads, u # t PROVE releasing'[u] = releasing[u]
  BY <1>0, <1>4
     DEF Call, Continue, EnumerateDevicesEx, GetEnumerator, CreateDevice, PushCreate,
         DeviceRelease, PushRelease, ReleaseHandle, ReleaseLastHandle
<1>5. ASSUME NEW u \in Threads, u # t PROVE holds'[u] = holds[u]
  BY <1>0, <1>5
     DEF Call, Continue, EnumerateDevicesEx, GetEnumerator, CreateDevice, PushCreate,
         DeviceRelease, PushRelease, ReleaseHandle, ReleaseLastHandle
<1> QED BY <1>1, <1>2, <1>3, <1>4, <1>5

\* What the manager's thread does to the others: it gives references, and lets
\* the caller of a command go on.
LEMMA RunAlone ==
  ASSUME IInv, Run
  PROVE  /\ handle' = handle /\ releasing' = releasing
         /\ \A t \in Threads, x \in Objects : holds[t][x] > 0 => holds'[t][x] > 0
         /\ pc' = pc \/ Finish
<1>0. holds \in [Threads -> [Objects -> Nat]] /\ Devices \subseteq Objects
  BY Types
<1>1. handle' = handle /\ releasing' = releasing
  BY DEF Run, PopCommand, CreateDevice_MgrThread, ReleaseStolen, ReleaseDevice_MgrThread,
         ReleaseKeepAlive, ReleaseManager_MgrThread, PushExitCommand,
         EnumerateAllFactoryDevices, Finish, Exit, caller
<1>2. pc' = pc \/ Finish
  BY DEF Run, PopCommand, CreateDevice_MgrThread, ReleaseStolen, ReleaseDevice_MgrThread,
         ReleaseKeepAlive, ReleaseManager_MgrThread, PushExitCommand,
         EnumerateAllFactoryDevices, Exit, caller
<1>3. holds' = holds \/ CreateDevice_MgrThread
  BY DEF Run, PopCommand, ReleaseStolen, ReleaseDevice_MgrThread, ReleaseKeepAlive,
         ReleaseManager_MgrThread, PushExitCommand, EnumerateAllFactoryDevices, Finish, Exit, caller
<1>4. ASSUME CreateDevice_MgrThread, NEW t \in Threads, NEW x \in Objects, holds[t][x] > 0
      PROVE  holds'[t][x] > 0
  <2>1. worker = "serving" /\ serving.op = "create"
    BY <1>4 DEF CreateDevice_MgrThread, Serving
  <2>2. PICK d \in Devices, b \in Threads : d = serving.object /\ b = serving.by
    BY <2>1, InService
  <2>3. holds' = holds \/ holds' = [holds EXCEPT ![b][d] = @ + 1]
    BY <1>4, <2>2 DEF CreateDevice_MgrThread, counts
  <2>4. CASE holds' = holds
    BY <1>4, <2>4
  <2>5. CASE holds' = [holds EXCEPT ![b][d] = @ + 1]
    <3>1. holds'[b][d] = holds[b][d] + 1
      BY <1>0, <2>2, <2>5, OneHeldMore
    <3>2. \A u \in Threads, z \in Objects : u # b \/ z # d => holds'[u][z] = holds[u][z]
      BY <1>0, <2>2, <2>5, OneHeldMore
    <3>3. holds[t][x] \in Nat
      BY <1>0
    <3>4. CASE t = b /\ x = d
      BY <1>4, <3>1, <3>3, <3>4
    <3>5. CASE t # b \/ x # d
      BY <1>4, <3>2, <3>5
    <3> QED BY <3>4, <3>5
  <2> QED BY <2>3, <2>4, <2>5
<1>5. \A t \in Threads, x \in Objects : holds[t][x] > 0 => holds'[t][x] > 0
  BY <1>3, <1>4
<1> QED BY <1>1, <1>2, <1>5

\* Every step leaves each thread with what it calls with.
LEMMA ThreadStep ==
  ASSUME IInv, [Next]_vars, NEW t \in Threads
  PROVE  ThreadOK(t)'
<1>0. /\ holds \in [Threads -> [Objects -> Nat]] /\ handle \in [Threads -> Devices \cup {NULL}]
      /\ releasing \in [Threads -> Objects \cup {NULL}] /\ Manager \in Objects
      /\ NULL \notin Objects /\ NULL \notin Devices /\ Devices \subseteq Objects
      /\ pc \in [Threads -> {"out", "waiting", "enumerated", "requesting", "created",
                             "releasing", "dropping"}]
  BY Types DEF IInv, CountsOwners, TypeOK
<1>1. holds' \in [Threads -> [Objects -> Nat]]
  BY CountTypes
<1>2. ThreadOK(t)
  BY DEF IInv, CallOK, ThreadsOK, ThreadOK
<1>3. CASE UNCHANGED caller
  BY <1>1, <1>3, ThreadKept DEF caller
<1>4. ASSUME NEW u \in Threads, u # t, Call(u) \/ Continue(u) PROVE ThreadOK(t)'
  BY <1>1, <1>4, ThreadAlone, ThreadKept
<1>5. ASSUME pc'[t] = "out" PROVE ThreadOK(t)'
  BY <1>5 DEF ThreadOK
<1>6. ASSUME EnumerateDevicesEx(t) PROVE ThreadOK(t)'
  <2>1. pc'[t] = "waiting" /\ holds' = holds /\ \E x \in Objects : holds[t][x] > 0
    BY <1>0, <1>6 DEF EnumerateDevicesEx
  <2> QED BY <2>1 DEF ThreadOK
<1>7. ASSUME CreateDevice(t) PROVE ThreadOK(t)'
  <2>1. CASE Alive(handle[t])
    <3>1. pc'[t] = "out"
      BY <1>0, <1>7, <2>1 DEF CreateDevice
    <3> QED BY <1>5, <3>1
  <2>2. CASE ~ Alive(handle[t])
    <3>1. pc'[t] = "requesting" /\ handle' = handle /\ handle[t] # NULL
      BY <1>0, <1>7, <2>2 DEF CreateDevice
    <3>2. holds'[t][Manager] = holds[t][Manager] + 1
      BY <1>0, <1>7, <2>2 DEF CreateDevice, Pinned
    <3>3. holds'[t][Manager] > 0
      BY <1>0, <3>2
    <3> QED BY <3>1, <3>3 DEF ThreadOK
  <2> QED BY <2>1, <2>2
<1>8. ASSUME PushCreate(t) PROVE ThreadOK(t)'
  <2>1. pc[t] = "requesting" /\ pc'[t] = "waiting" /\ holds' = holds
    BY <1>0, <1>8 DEF PushCreate
  <2>2. holds[t][Manager] > 0
    BY <1>2, <2>1 DEF ThreadOK
  <2> QED BY <1>0, <2>1, <2>2 DEF ThreadOK
<1>9. ASSUME NEW x \in Objects, DeviceRelease(t, x) PROVE ThreadOK(t)'
  <2>1. CASE IsLast(x)
    <3>1. pc'[t] = "releasing" /\ releasing'[t] = x /\ holds' = holds
      BY <1>0, <1>9, <2>1 DEF DeviceRelease
    <3>2. holds[t][x] > 0
      BY <1>2, <1>9 DEF DeviceRelease, ThreadOK
    <3> QED BY <1>0, <3>1, <3>2 DEF ThreadOK
  <2>2. CASE ~ IsLast(x)
    <3>1. pc'[t] = "out"
      BY <1>0, <1>9, <2>2 DEF DeviceRelease
    <3> QED BY <1>5, <3>1
  <2> QED BY <2>1, <2>2
<1>10. ASSUME ReleaseHandle(t) PROVE ThreadOK(t)'
  <2>1. CASE handleCount[handle[t]] = 1
    <3>1. pc'[t] = "dropping" /\ handle' = handle /\ handle[t] # NULL
      BY <1>0, <1>10, <2>1 DEF ReleaseHandle
    <3> QED BY <3>1 DEF ThreadOK
  <2>2. CASE handleCount[handle[t]] # 1
    <3>1. pc'[t] = "out"
      BY <1>0, <1>10, <2>2 DEF ReleaseHandle
    <3> QED BY <1>5, <3>1
  <2> QED BY <2>1, <2>2
<1>11. ASSUME GetEnumerator(t) \/ PushRelease(t) \/ ReleaseLastHandle(t) PROVE ThreadOK(t)'
  <2>1. pc'[t] = "out"
    BY <1>0, <1>11 DEF GetEnumerator, PushRelease, ReleaseLastHandle
  <2> QED BY <1>5, <2>1
<1>12. ASSUME Run PROVE ThreadOK(t)'
  <2>1. /\ handle' = handle /\ releasing' = releasing
        /\ \A x \in Objects : holds[t][x] > 0 => holds'[t][x] > 0
    BY <1>12, RunAlone
  <2>2. CASE pc'[t] = pc[t]
    BY <1>1, <2>1, <2>2, ThreadKept
  <2>3. CASE Finish /\ pc'[t] # pc[t]
    <3>1. /\ t = serving.by /\ holds' = holds /\ serving # NULL
          /\ pc'[t] = IF serving.op = "create" THEN "created" ELSE "enumerated"
      BY <2>3 DEF Finish, IInv, WorkerOK, Serving
    <3>2. serving \in Sent /\ Called(serving)
      BY <3>1, Types DEF IInv, CallOK, ServingOK
    <3>3. serving.op \in {"create", "enumerate"}
      BY <3>1, <3>2, Fields, Types
    <3>4. CASE serving.op = "create"
      <4>1. holds[t][Manager] > 0 /\ pc'[t] = "created"
        BY <3>1, <3>2, <3>4 DEF Called
      <4> QED BY <3>1, <4>1 DEF ThreadOK
    <3>5. CASE serving.op = "enumerate"
      <4>1. pc[t] = "waiting" /\ handle[t] = NULL /\ pc'[t] = "enumerated"
        BY <3>1, <3>2, <3>5 DEF Called
      <4>2. \E x \in Objects : holds[t][x] > 0
        BY <1>2, <4>1 DEF ThreadOK
      <4> QED BY <2>1, <3>1, <4>1, <4>2 DEF ThreadOK
    <3> QED BY <3>3, <3>4, <3>5
  <2> QED BY <1>12, <2>2, <2>3, RunAlone
<1>13. ASSUME Call(t) \/ Continue(t) PROVE ThreadOK(t)'
  BY <1>6, <1>7, <1>8, <1>9, <1>10, <1>11, <1>13 DEF Call, Continue
<1> QED
  BY <1>3, <1>4, <1>12, <1>13 DEF Next, vars, DetectHIDDevice, Plug
\* The same in the next state.
CalledNext(c) ==
  /\ c.op = "create" => /\ pc'[c.by] = "waiting" /\ handle'[c.by] = c.object
                        /\ holds'[c.by][Manager] > 0
  /\ c.op = "enumerate" => pc'[c.by] = "waiting" /\ handle'[c.by] = NULL

\* A call goes on while its caller waits with what it has.
LEMMA CalledKept ==
  ASSUME NEW c \in Sent, Called(c),
         c.by # NULL => /\ pc'[c.by] = pc[c.by] /\ handle'[c.by] = handle[c.by]
                        /\ holds[c.by][Manager] > 0 => holds'[c.by][Manager] > 0
  PROVE  CalledNext(c)
<1>1. c.op \in {"create", "enumerate"} => c.by # NULL
  BY Fields
<1> QED BY <1>1 DEF Called, CalledNext

\* A command that can be queued, behind the others and the one in hand.
Queued(q, s) ==
  \A i \in 1..Len(q) :
    q[i].by # NULL => /\ \A j \in 1..Len(q) : q[j].by = q[i].by => j = i
                      /\ s # NULL => s.by # q[i].by

\* The calls that wait, before and after a step that takes no caller out.
LEMMA CallsKept ==
  ASSUME IInv, NEW c \in Sent, \/ \E i \in 1..Len(queue) : c = queue[i]
                               \/ c = serving,
         \A t \in Threads : pc[t] = "waiting" =>
            /\ pc'[t] = pc[t] /\ handle'[t] = handle[t]
            /\ \A x \in Objects : holds[t][x] > 0 => holds'[t][x] > 0
  PROVE  CalledNext(c)
<1>1. Called(c) /\ c # NULL /\ Manager \in Objects
  BY Types DEF IInv, CallOK, QueueOK, ServingOK
<1>2. ASSUME c.by # NULL
      PROVE  /\ pc'[c.by] = pc[c.by] /\ handle'[c.by] = handle[c.by]
             /\ holds[c.by][Manager] > 0 => holds'[c.by][Manager] > 0
  <2>1. c.op \in {"create", "enumerate"} /\ c.by \in Threads
    BY <1>2, Fields
  <2>2. pc[c.by] = "waiting"
    BY <1>1, <2>1 DEF Called
  <2> QED BY <1>1, <2>1, <2>2
<1> QED BY <1>1, <1>2, CalledKept

\* A command that nobody waits for, or whose caller was not waiting, is queued.
LEMMA QueuedAppend ==
  ASSUME NEW q \in Seq(Sent), NEW s, NEW c \in Sent, Queued(q, s),
         c.by # NULL => /\ \A i \in 1..Len(q) : q[i].by # c.by
                        /\ s # NULL => s.by # c.by
  PROVE  Queued(Append(q, c), s)
<1> DEFINE p == Append(q, c)
           n == Len(q) + 1
<1>1. /\ Len(p) = n /\ p[n] = c /\ \A i \in 1..Len(q) : p[i] = q[i]
      /\ Len(q) \in Nat /\ 1..n = 1..Len(q) \cup {n}
  OBVIOUS
<1> HIDE DEF p, n
<1> SUFFICES ASSUME NEW i \in 1..n, p[i].by # NULL
             PROVE  /\ \A j \in 1..n : p[j].by = p[i].by => j = i
                    /\ s # NULL => s.by # p[i].by
  BY <1>1 DEF Queued, p
<1>2. CASE i = n
  BY <1>1, <1>2
<1>3. CASE i \in 1..Len(q)
  BY <1>1, <1>3 DEF Queued
<1> QED BY <1>1, <1>2, <1>3

\* Taking the first command.
LEMMA QueuedTail ==
  ASSUME NEW q \in Seq(Sent), q # <<>>, NEW s, Queued(q, s)
  PROVE  Queued(Tail(q), Head(q))
<1> DEFINE p == Tail(q)
           c == Head(q)
<1>1. /\ Len(q) \in Nat \ {0} /\ Len(p) = Len(q) - 1 /\ c = q[1]
      /\ \A i \in 1..Len(q) - 1 : p[i] = q[i + 1] /\ i + 1 \in 1..Len(q)
      /\ 1 \in 1..Len(q)
  OBVIOUS
<1> HIDE DEF p, c
<1> SUFFICES ASSUME NEW i \in 1..Len(q) - 1, p[i].by # NULL
             PROVE  /\ \A j \in 1..Len(q) - 1 : p[j].by = p[i].by => j = i
                    /\ c # NULL => c.by # p[i].by
  BY <1>1 DEF Queued, p, c
<1>2. i + 1 \in 1..Len(q) /\ p[i] = q[i + 1] /\ i + 1 # 1
  BY <1>1
<1>3. \A j \in 1..Len(q) : q[j].by = p[i].by => j = i + 1
  BY <1>2 DEF Queued
<1>4. c.by # p[i].by
  BY <1>1, <1>2, <1>3
<1>5. ASSUME NEW j \in 1..Len(q) - 1, p[j].by = p[i].by PROVE j = i
  <2>1. j + 1 \in 1..Len(q) /\ q[j + 1].by = p[i].by
    BY <1>1, <1>5
  <2>2. j + 1 = i + 1
    BY <1>3, <2>1
  <2> QED BY <2>2
<1> QED BY <1>4, <1>5

\* The queue's invariant in its parts, of this state and of the next.
LEMMA QueueParts ==
  /\ QueueOK <=> Queued(queue, serving) /\ \A i \in 1..Len(queue) : Called(queue[i])
  /\ QueueOK' <=> Queued(queue', serving') /\ \A i \in 1..Len(queue') : CalledNext(queue'[i])
  /\ ServingOK' <=> (serving' # NULL => CalledNext(serving'))
<1>1. QueueOK <=> Queued(queue, serving) /\ \A i \in 1..Len(queue) : Called(queue[i])
  BY DEF QueueOK, Queued
<1>2. QueueOK' <=> Queued(queue', serving') /\ \A i \in 1..Len(queue') : CalledNext(queue'[i])
  BY DEF QueueOK, Queued, Called, CalledNext
<1>3. ServingOK' <=> (serving' # NULL => CalledNext(serving'))
  BY DEF ServingOK, Called, CalledNext
<1> QED BY <1>1, <1>2, <1>3

\* What a thread pushes is queued.
LEMMA PushedByThread ==
  ASSUME IInv, NEW t \in Threads, pc[t] # "waiting", NEW c \in Sent, c.by \in {NULL, t}
  PROVE  Queued(Append(queue, c), serving)
<1>1. Queued(queue, serving) /\ queue \in Seq(Sent) /\ serving \in Sent \cup {NULL}
  BY QueueParts, Types DEF IInv, CallOK
<1>2. ASSUME NEW d \in Sent, d.by = t, Called(d) PROVE FALSE
  <2>1. d.by # NULL
    BY <1>2, Types
  <2>2. d.op \in {"create", "enumerate"}
    BY <2>1, Fields
  <2> QED BY <1>2, <2>2 DEF Called
<1>3. ASSUME c.by # NULL
      PROVE  /\ \A i \in 1..Len(queue) : queue[i].by # c.by
             /\ serving # NULL => serving.by # c.by
  <2>1. c.by = t
    BY <1>3
  <2>2. ASSUME NEW i \in 1..Len(queue) PROVE queue[i].by # c.by
    <3>1. queue[i] \in Sent /\ Called(queue[i])
      BY <1>1 DEF IInv, CallOK, QueueOK
    <3> QED BY <1>2, <2>1, <3>1
  <2>3. serving # NULL => serving.by # c.by
    <3>1. serving # NULL => serving \in Sent /\ Called(serving)
      BY <1>1 DEF IInv, CallOK, ServingOK
    <3> QED BY <1>2, <2>1, <3>1
  <2> QED BY <2>2, <2>3
<1> QED BY <1>1, <1>3, QueuedAppend

\* The threads' steps keep the queue.
LEMMA CallQueue ==
  ASSUME IInv, [Next]_vars, NEW t \in Threads, Call(t) \/ Continue(t)
  PROVE  QueueOK' /\ ServingOK'
<1>0. /\ queue \in Seq(Sent) /\ serving \in Sent \cup {NULL} /\ Manager \in Objects
      /\ handle \in [Threads -> Devices \cup {NULL}]
      /\ releasing \in [Threads -> Objects \cup {NULL}]
      /\ holds \in [Threads -> [Objects -> Nat]]
      /\ pc \in [Threads -> {"out", "waiting", "enumerated", "requesting", "created",
                             "releasing", "dropping"}]
  BY Types DEF IInv, CountsOwners, TypeOK
<1>1. serving' = serving
  BY DEF Call, Continue, EnumerateDevicesEx, GetEnumerator, CreateDevice, PushCreate,
         DeviceRelease, PushRelease, ReleaseHandle, ReleaseLastHandle, Push, commands
<1>2. pc[t] # "waiting"
  BY ThreadAlone
<1>3. ASSUME NEW u \in Threads, pc[u] = "waiting"
      PROVE  /\ pc'[u] = pc[u] /\ handle'[u] = handle[u]
             /\ \A x \in Objects : holds[u][x] > 0 => holds'[u][x] > 0
  BY <1>2, <1>3, ThreadAlone
<1>4. \A i \in 1..Len(queue) : CalledNext(queue[i])
  <2>1. ASSUME NEW c \in Sent, \E i \in 1..Len(queue) : c = queue[i] PROVE CalledNext(c)
    BY <1>3, <2>1, CallsKept
  <2> QED BY <1>0, <2>1
<1>5. serving # NULL => CalledNext(serving)
  <2>1. ASSUME NEW c \in Sent, c = serving PROVE CalledNext(c)
    BY <1>3, <2>1, CallsKept
  <2> QED BY <1>0, <2>1
<1>6. ServingOK'
  BY <1>1, <1>5, QueueParts
<1>7. CASE queue' = queue
  <2>1. Queued(queue, serving)
    BY QueueParts DEF IInv, CallOK
  <2>2. Queued(queue', serving') /\ \A i \in 1..Len(queue') : CalledNext(queue'[i])
    BY <1>1, <1>4, <1>7, <2>1
  <2> QED BY <1>6, <2>2, QueueParts
<1>8. ASSUME NEW c \in Sent, queue' = Append(queue, c), CalledNext(c), c.by \in {NULL, t}
      PROVE  QueueOK'
  <2>1. Queued(queue', serving')
    BY <1>1, <1>2, <1>8, PushedByThread
  <2>2. ASSUME NEW i \in 1..Len(queue') PROVE CalledNext(queue'[i])
    <3>1. (i \in 1..Len(queue) /\ queue'[i] = queue[i]) \/ queue'[i] = c
      BY <1>0, <1>8
    <3>2. CASE i \in 1..Len(queue) /\ queue'[i] = queue[i]
      BY <1>4, <3>2
    <3>3. CASE queue'[i] = c
      BY <1>8, <3>3 DEF CalledNext
    <3> QED BY <3>1, <3>2, <3>3
  <2> QED BY <2>1, <2>2, QueueParts
<1>9. ASSUME EnumerateDevicesEx(t) PROVE QueueOK'
  <2>1. PICK c \in Sent : c = Command("enumerate", NULL, t)
    BY SentCommands
  <2>2. c.op = "enumerate" /\ c.by = t
    BY <2>1, Made
  <2>3. /\ queue' = Append(queue, c) /\ pc'[t] = "waiting" /\ handle'[t] = NULL
    BY <1>0, <1>9, <2>1 DEF EnumerateDevicesEx, Push
  <2>4. CalledNext(c)
    BY <2>2, <2>3 DEF CalledNext
  <2> QED BY <1>8, <2>2, <2>3, <2>4
<1>10. ASSUME PushCreate(t) PROVE QueueOK'
  <2>1. handle[t] \in Devices /\ holds[t][Manager] > 0
    BY <1>0, <1>10 DEF PushCreate, IInv, CallOK, ThreadsOK
  <2>2. PICK c \in Sent : c = Command("create", handle[t], t)
    BY <2>1, SentCommands
  <2>3. c.op = "create" /\ c.by = t /\ c.object = handle[t]
    BY <2>2, Made
  <2>4. /\ queue' = Append(queue, c) /\ pc'[t] = "waiting" /\ handle' = handle /\ holds' = holds
    BY <1>0, <1>10, <2>2 DEF PushCreate, Push
  <2>5. CalledNext(c)
    BY <2>1, <2>3, <2>4 DEF CalledNext
  <2> QED BY <1>8, <2>3, <2>4, <2>5
<1>11. ASSUME PushRelease(t) PROVE QueueOK'
  <2>1. releasing[t] \in Objects
    BY <1>0, <1>11 DEF PushRelease, IInv, CallOK, ThreadsOK
  <2>2. PICK c \in Sent : c = Release(releasing[t])
    BY <2>1, SentCommands
  <2>3. c.op = "release" /\ c.by = NULL
    BY <2>2, Made
  <2>4. queue' = Append(queue, c)
    BY <1>11, <2>2 DEF PushRelease, Push, Release
  <2>5. CalledNext(c)
    BY <2>3 DEF CalledNext
  <2> QED BY <1>8, <2>3, <2>4, <2>5
<1>12. ASSUME \/ GetEnumerator(t) \/ CreateDevice(t) \/ ReleaseHandle(t) \/ ReleaseLastHandle(t)
              \/ \E x \in Objects : DeviceRelease(t, x)
       PROVE  QueueOK'
  <2>1. queue' = queue
    BY <1>12
       DEF GetEnumerator, CreateDevice, ReleaseHandle, ReleaseLastHandle, DeviceRelease, commands
  <2> QED BY <1>7, <2>1
<1>13. QueueOK'
  BY <1>9, <1>10, <1>11, <1>12 DEF Call, Continue
<1> QED BY <1>6, <1>13

\* The steps of the manager's thread keep the queue.
LEMMA RunQueue ==
  ASSUME IInv, [Next]_vars, Run
  PROVE  QueueOK' /\ ServingOK'
<1>0. /\ queue \in Seq(Sent) /\ serving \in Sent \cup {NULL} /\ Manager \in Objects
      /\ Queued(queue, serving)
  BY Types, QueueParts DEF IInv, CallOK
<1>1. /\ handle' = handle /\ (pc' = pc \/ Finish)
      /\ \A t \in Threads, x \in Objects : holds[t][x] > 0 => holds'[t][x] > 0
  BY RunAlone
<1>2. ASSUME NEW c \in Sent, \/ \E i \in 1..Len(queue) : c = queue[i]
                             \/ c = serving,
             pc' = pc
      PROVE  CalledNext(c)
  <2>1. ASSUME NEW u \in Threads, pc[u] = "waiting"
        PROVE  /\ pc'[u] = pc[u] /\ handle'[u] = handle[u]
               /\ \A x \in Objects : holds[u][x] > 0 => holds'[u][x] > 0
    BY <1>1, <1>2
  <2> QED BY <1>2, <2>1, CallsKept
<1>3. ASSUME pc' = pc, queue' = queue, serving' = serving PROVE QueueOK' /\ ServingOK'
  <2>1. \A i \in 1..Len(queue) : queue[i] \in Sent
    BY <1>0
  <2>2. \A i \in 1..Len(queue) : CalledNext(queue[i])
    BY <1>2, <1>3, <2>1
  <2>3. serving # NULL => CalledNext(serving)
    BY <1>0, <1>2, <1>3
  <2>4. QueueOK'
    BY <1>0, <1>3, <2>2, QueueParts
  <2>5. ServingOK'
    BY <1>3, <2>3, QueueParts
  <2> QED BY <2>4, <2>5
<1>4. ASSUME NEW c \in Sent, c.by = NULL, pc' = pc, queue' = Append(queue, c), serving' = serving
      PROVE  QueueOK' /\ ServingOK'
  <2>1. CalledNext(c)
    <3>1. c.op \notin {"create", "enumerate"}
      BY <1>4, Fields
    <3> QED BY <3>1 DEF CalledNext
  <2>2. ASSUME NEW i \in 1..Len(queue') PROVE CalledNext(queue'[i])
    <3>1. (i \in 1..Len(queue) /\ queue'[i] = queue[i] /\ queue[i] \in Sent) \/ queue'[i] = c
      BY <1>0, <1>4
    <3>2. CASE i \in 1..Len(queue) /\ queue'[i] = queue[i] /\ queue[i] \in Sent
      <4>1. CalledNext(queue[i])
        BY <1>2, <1>4, <3>2
      <4> QED BY <3>2, <4>1
    <3>3. CASE queue'[i] = c
      BY <2>1, <3>3 DEF CalledNext
    <3> QED BY <3>1, <3>2, <3>3
  <2>3. Queued(queue', serving')
    BY <1>0, <1>4, QueuedAppend
  <2>4. QueueOK'
    BY <2>2, <2>3, QueueParts
  <2>5. serving # NULL => CalledNext(serving)
    BY <1>0, <1>2, <1>4
  <2>6. ServingOK'
    BY <1>4, <2>5, QueueParts
  <2> QED BY <2>4, <2>6
<1>5. ASSUME PopCommand PROVE QueueOK' /\ ServingOK'
  <2>1. queue # <<>> /\ serving' = Head(queue) /\ queue' = Tail(queue) /\ pc' = pc
    BY <1>5 DEF PopCommand, caller
  <2>2. /\ Head(queue) \in Sent /\ Head(queue) = queue[1] /\ 1 \in 1..Len(queue)
        /\ \A i \in 1..Len(queue') : /\ queue'[i] = queue[i + 1] /\ i + 1 \in 1..Len(queue)
                                     /\ queue[i + 1] \in Sent
    BY <1>0, <2>1
  <2>3. \A i \in 1..Len(queue') : CalledNext(queue'[i])
    <3>1. ASSUME NEW i \in 1..Len(queue') PROVE CalledNext(queue'[i])
      <4>1. CalledNext(queue[i + 1])
        BY <1>2, <2>1, <2>2
      <4> QED BY <2>2, <4>1
    <3> QED BY <3>1
  <2>4. Queued(queue', serving')
    BY <1>0, <2>1, QueuedTail
  <2>5. QueueOK'
    BY <2>3, <2>4, QueueParts
  <2>6. ServingOK'
    <3>1. ASSUME NEW c \in Sent, c = Head(queue) PROVE CalledNext(c)
      BY <1>2, <2>1, <2>2, <3>1
    <3>2. CalledNext(Head(queue))
      BY <2>2, <3>1
    <3> QED BY <2>1, <3>2, QueueParts
  <2> QED BY <2>5, <2>6
<1>6. ASSUME Finish PROVE QueueOK' /\ ServingOK'
  <2>1. /\ serving # NULL /\ serving' = NULL /\ queue' = queue /\ holds' = holds
        /\ \A t \in Threads : t # serving.by => pc'[t] = pc[t]
    BY <1>6 DEF Finish, IInv, WorkerOK, Serving
  <2>2. ASSUME NEW i \in 1..Len(queue) PROVE CalledNext(queue[i])
    <3>1. PICK c \in Sent : c = queue[i]
      BY <1>0
    <3>2. Called(c)
      BY <3>1 DEF IInv, CallOK, QueueOK
    <3>3. ASSUME c.by # NULL
          PROVE  /\ pc'[c.by] = pc[c.by] /\ handle'[c.by] = handle[c.by]
                 /\ holds[c.by][Manager] > 0 => holds'[c.by][Manager] > 0
      <4>1. c.by \in Threads /\ c.by # serving.by
        BY <1>0, <2>1, <3>1, <3>3, Fields DEF Queued
      <4> QED BY <1>1, <2>1, <4>1
    <3>4. CalledNext(c)
      BY <3>2, <3>3, CalledKept
    <3> QED BY <3>1, <3>4
  <2>3. Queued(queue', serving')
    BY <1>0, <2>1 DEF Queued
  <2>4. QueueOK'
    BY <2>1, <2>2, <2>3, QueueParts
  <2> QED BY <2>1, <2>4 DEF ServingOK
<1>7. ASSUME ReleaseDevice_MgrThread PROVE QueueOK' /\ ServingOK'
  <2>1. /\ pc' = pc /\ serving' = serving
        /\ queue' = queue \/ queue' = Append(queue, Release(Manager))
    BY <1>7 DEF ReleaseDevice_MgrThread, caller, Push, commands, Release
  <2>2. Release(Manager) \in Sent /\ Release(Manager).by = NULL
    BY <1>0, SentCommands, Made
  <2> QED BY <1>3, <1>4, <2>1, <2>2
<1>8. ASSUME PushExitCommand PROVE QueueOK' /\ ServingOK'
  <2>1. pc' = pc /\ serving' = serving /\ queue' = Append(queue, ExitCommand)
    BY <1>8 DEF PushExitCommand, caller, Push
  <2> QED BY <1>4, <2>1, SentCommands, Made
<1>9. ASSUME \/ CreateDevice_MgrThread \/ ReleaseStolen \/ ReleaseKeepAlive
             \/ ReleaseManager_MgrThread \/ EnumerateAllFactoryDevices \/ Exit
      PROVE  QueueOK' /\ ServingOK'
  <2>1. pc' = pc /\ serving' = serving /\ queue' = queue
    BY <1>9
       DEF CreateDevice_MgrThread, ReleaseStolen, ReleaseKeepAlive, ReleaseManager_MgrThread,
           EnumerateAllFactoryDevices, Exit, commands, caller
  <2> QED BY <1>3, <2>1
<1> QED BY <1>5, <1>6, <1>7, <1>8, <1>9 DEF Run

\* Every step keeps the calls.
LEMMA CallStep ==
  ASSUME IInv, [Next]_vars
  PROVE  CallOK'
<1>1. ThreadsOK'
  BY ThreadStep DEF ThreadsOK, ThreadOK
<1>2. QueueOK' /\ ServingOK'
  <2>1. CASE \E t \in Threads : Call(t) \/ Continue(t)
    BY <2>1, CallQueue
  <2>2. CASE Run
    BY <2>2, RunQueue
  <2>3. CASE UNCHANGED <<commands, caller>>
    BY <2>3 DEF IInv, CallOK, QueueOK, ServingOK, Called, commands, caller
  <2> QED BY <2>1, <2>2, <2>3 DEF Next, vars, DetectHIDDevice, Plug
<1> QED BY <1>1, <1>2 DEF CallOK
-----------------------------------------------------------------------------
(* Every step keeps what the manager's thread has in hand. *)

\* What the manager's thread has in hand follows its steps.
LEMMA WorkerStep ==
  ASSUME IInv, [Next]_vars
  PROVE  WorkerOK'
<1>0. /\ queue \in Seq(Sent) /\ serving \in Sent \cup {NULL} /\ NULL \notin Sent
      /\ NULL \notin Devices /\ WorkerOK
  BY Types DEF IInv
<1>1. CASE UNCHANGED <<serving, worker, keepAlive>>
  BY <1>0, <1>1 DEF WorkerOK
<1>2. ASSUME PopCommand PROVE WorkerOK'
  <2>1. /\ queue # <<>> /\ serving' = Head(queue) /\ keepAlive' = keepAlive
        /\ worker = "popping" /\ worker' = "serving"
    BY <1>2 DEF PopCommand
  <2>2. Head(queue) \in Sent
    BY <1>0, <2>1
  <2>3. keepAlive = NULL /\ serving' # NULL
    BY <1>0, <2>1, <2>2 DEF WorkerOK
  <2> QED BY <2>1, <2>3 DEF WorkerOK
<1>3. ASSUME worker = "serving", serving.op # "exit", serving' = serving,
             \/ worker' \in {"finishing", "closing"} /\ keepAlive' = keepAlive
             \/ worker' = "keeping" /\ keepAlive' # NULL
      PROVE  WorkerOK'
  <2>1. serving # ExitCommand /\ serving # NULL /\ keepAlive = NULL
    BY <1>0, <1>3, Made DEF WorkerOK
  <2> QED BY <1>3, <2>1 DEF WorkerOK
<1>4. ASSUME \/ CreateDevice_MgrThread \/ ReleaseStolen \/ EnumerateAllFactoryDevices
             \/ ReleaseManager_MgrThread
      PROVE  WorkerOK'
  <2>1. worker = "serving" /\ serving.op # "exit"
    BY <1>4
       DEF CreateDevice_MgrThread, ReleaseStolen, EnumerateAllFactoryDevices,
           ReleaseManager_MgrThread, Serving
  <2>2. serving' = serving /\ worker' \in {"finishing", "closing"} /\ keepAlive' = keepAlive
    BY <1>4
       DEF CreateDevice_MgrThread, ReleaseStolen, EnumerateAllFactoryDevices,
           ReleaseManager_MgrThread, commands
  <2> QED BY <1>3, <2>1, <2>2
<1>5. ASSUME ReleaseDevice_MgrThread PROVE WorkerOK'
  <2>1. worker = "serving" /\ serving.op # "exit" /\ serving.object \in Devices
    BY <1>5 DEF ReleaseDevice_MgrThread, Serving
  <2>2. serving' = serving /\ worker' = "keeping" /\ keepAlive' = serving.object
    BY <1>5 DEF ReleaseDevice_MgrThread, commands, Push
  <2>3. keepAlive' # NULL
    BY <1>0, <2>1, <2>2
  <2> QED BY <1>3, <2>1, <2>2, <2>3
<1>6. ASSUME ReleaseKeepAlive PROVE WorkerOK'
  BY <1>0, <1>6 DEF ReleaseKeepAlive, WorkerOK, commands
<1>7. ASSUME PushExitCommand PROVE WorkerOK'
  BY <1>0, <1>7 DEF PushExitCommand, WorkerOK, Push
<1>8. ASSUME Finish PROVE WorkerOK'
  BY <1>0, <1>8 DEF Finish, WorkerOK, Serving
<1>9. ASSUME Exit PROVE WorkerOK'
  BY <1>0, <1>9 DEF Exit, WorkerOK, commands
<1>10. CASE \E t \in Threads : Call(t) \/ Continue(t)
  <2>1. UNCHANGED <<serving, worker, keepAlive>>
    BY <1>10
       DEF Call, Continue, EnumerateDevicesEx, GetEnumerator, CreateDevice, PushCreate,
           DeviceRelease, PushRelease, ReleaseHandle, ReleaseLastHandle, Push, commands, thread
  <2> QED BY <1>1, <2>1
<1>11. CASE Run
  BY <1>2, <1>4, <1>5, <1>6, <1>7, <1>8, <1>9, <1>11 DEF Run
<1> QED
  BY <1>1, <1>10, <1>11 DEF Next, vars, commands, thread, DetectHIDDevice, Plug

-----------------------------------------------------------------------------
(* Every step keeps the order of the end. *)

\* Once the manager is dead nobody has a reference, and no device lives.
LEMMA Dead ==
  ASSUME IInv, ~ (refCount[Manager] > 0)
  PROVE  /\ \A x \in Objects : ~ (refCount[x] > 0)
         /\ \A t \in Threads, x \in Objects : ~ (holds[t][x] > 0)
         /\ \A t \in Threads :
              pc[t] \notin {"waiting", "enumerated", "requesting", "created", "releasing"}
  BY DeviceKeepsManager, Referred DEF IInv

\* When the last reference to the manager is in hand nothing is queued.
LEMMA LastReference ==
  ASSUME IInv, worker = "serving", serving = Release(Manager), refCount[Manager] = 1
  PROVE  queue = <<>>
<1>0. /\ queue \in Seq(Sent) /\ holds \in [Threads -> [Objects -> Nat]] /\ Manager \in Objects
      /\ refCount \in [Objects -> Nat] /\ Objects = Devices \cup {Manager}
  BY Types DEF Objects
<1>1. /\ HeldBy(holds, Manager) = 0 /\ PassedIn(queue, Manager) = 0 /\ Living(refCount) = 0
  <2>1. /\ HeldBy(holds, Manager) \in Nat /\ PassedIn(queue, Manager) \in Nat
        /\ Living(refCount) \in Nat
    BY <1>0, Terms
  <2>2. InHand(worker, serving, Manager) = 1
    BY DEF InHand
  <2>3. refCount[Manager] = HeldBy(holds, Manager)
                            + (PassedIn(queue, Manager) + InHand(worker, serving, Manager))
                            + Living(refCount)
    BY <1>0, Balance DEF IInv, CountsOwners, Owners
  <2>4. ASSUME NEW a \in Nat, NEW b \in Nat, NEW c \in Nat, 1 = a + (b + 1) + c
        PROVE  a = 0 /\ b = 0 /\ c = 0
    BY <2>4
  <2> QED BY <2>1, <2>2, <2>3, <2>4
<1>2. \A d \in Devices : ~ (refCount[d] > 0)
  BY <1>1, LivingSome
<1>3. ASSUME NEW t \in Threads, NEW x \in Objects PROVE ~ (holds[t][x] > 0)
  <2>1. ASSUME holds[t][Manager] > 0 PROVE FALSE
    <3>1. HeldBy(holds, Manager) > 0
      BY <1>0, <2>1, HeldSome
    <3> QED BY <1>1, <3>1
  <2>2. CASE x \in Devices
    BY <1>2, <2>2, Referred
  <2> QED BY <1>0, <2>1, <2>2
<1>4. ASSUME NEW i \in 1..Len(queue) PROVE FALSE
  <2>1. PICK c \in Sent : c = queue[i]
    BY <1>0
  <2>2. CASE c.op = "exit"
    <3>1. c = ExitCommand
      BY <2>2, Fields
    <3>2. Alive(Manager)
      BY DEF Alive
    <3> QED BY <2>1, <3>1, <3>2 DEF IInv, LifeOK
  <2>3. CASE c.op \in {"create", "enumerate"}
    <3>1. c.by \in Threads /\ Called(c)
      BY <2>1, <2>3, Fields DEF IInv, CallOK, QueueOK
    <3>2. pc[c.by] = "waiting"
      BY <2>3, <3>1 DEF Called
    <3>3. \E x \in Objects : holds[c.by][x] > 0
      BY <3>1, <3>2 DEF IInv, CallOK, ThreadsOK
    <3> QED BY <1>3, <3>1, <3>3
  <2>4. CASE c.op = "release"
    <3>1. c.object \in Objects /\ queue[i] = Release(c.object)
      BY <2>1, <2>4, Fields
    <3>2. CASE c.object = Manager
      BY <1>0, <1>1, <3>1, <3>2, PassedSome
    <3>3. CASE c.object \in Devices
      <4>1. refCount[c.object] > 0
        BY <3>1, Passer DEF IInv
      <4> QED BY <1>2, <3>3, <4>1
    <3> QED BY <1>0, <3>1, <3>2, <3>3
  <2> QED BY <2>2, <2>3, <2>4, Fields
<1> QED BY <1>0, <1>4

\* While the manager lives nothing is exited, and no exit command is queued.
Running ==
  /\ ~ exited /\ worker \notin {"closing", "exited"} /\ serving # ExitCommand
  /\ \A i \in 1..Len(queue) : queue[i] # ExitCommand

\* Then the exit command is pushed, executed, and the thread ends.
Ending ==
  \/ worker = "closing" /\ queue = <<>> /\ ~ exited
  \/ worker \in {"finishing", "popping"} /\ queue = <<ExitCommand>> /\ ~ exited
  \/ worker = "serving" /\ serving = ExitCommand /\ queue = <<>> /\ ~ exited
  \/ worker \in {"popping", "exited"} /\ queue = <<>> /\ exited

\* A push of another command does not end the run.
LEMMA RunningPush ==
  ASSUME IInv, Running, NEW c \in Sent, c # ExitCommand, queue' = Append(queue, c),
         serving' = serving, exited' = exited, worker' \notin {"closing", "exited"}
  PROVE  Running'
<1>1. queue \in Seq(Sent)
  BY Types
<1>2. ASSUME NEW i \in 1..Len(queue') PROVE queue'[i] # ExitCommand
  <2>1. (i \in 1..Len(queue) /\ queue'[i] = queue[i]) \/ queue'[i] = c
    BY <1>1
  <2> QED BY <2>1 DEF Running
<1> QED BY <1>2 DEF Running

\* A thread's step while the manager lives.
LEMMA RunningCall ==
  ASSUME IInv, Running, NEW t \in Threads, Call(t) \/ Continue(t)
  PROVE  Running'
<1>0. /\ handle \in [Threads -> Devices \cup {NULL}]
      /\ releasing \in [Threads -> Objects \cup {NULL}]
  BY Types
<1>1. serving' = serving /\ exited' = exited /\ worker' = worker
  BY DEF Call, Continue, EnumerateDevicesEx, GetEnumerator, CreateDevice, PushCreate,
         DeviceRelease, PushRelease, ReleaseHandle, ReleaseLastHandle, Push, commands, thread
<1>2. CASE queue' = queue
  BY <1>1, <1>2 DEF Running
<1>3. ASSUME NEW c \in Sent, c # ExitCommand, queue' = Append(queue, c) PROVE Running'
  <2>1. worker' \notin {"closing", "exited"}
    BY <1>1 DEF Running
  <2> QED BY <1>1, <1>3, <2>1, RunningPush
<1>4. ASSUME EnumerateDevicesEx(t) PROVE Running'
  BY <1>3, <1>4, SentCommands, Made DEF EnumerateDevicesEx, Push
<1>5. ASSUME PushCreate(t) PROVE Running'
  <2>1. handle[t] \in Devices
    BY <1>0, <1>5 DEF PushCreate, IInv, CallOK, ThreadsOK
  <2> QED BY <1>3, <1>5, <2>1, SentCommands, Made DEF PushCreate, Push
<1>6. ASSUME PushRelease(t) PROVE Running'
  <2>1. releasing[t] \in Objects
    BY <1>0, <1>6 DEF PushRelease, IInv, CallOK, ThreadsOK
  <2>2. queue' = Append(queue, Release(releasing[t]))
    BY <1>6 DEF PushRelease, Push, Release
  <2> QED BY <1>3, <2>1, <2>2, SentCommands, Made
<1>7. ASSUME \/ GetEnumerator(t) \/ CreateDevice(t) \/ ReleaseHandle(t) \/ ReleaseLastHandle(t)
             \/ \E x \in Objects : DeviceRelease(t, x)
      PROVE  queue' = queue
  BY <1>7
     DEF GetEnumerator, CreateDevice, ReleaseHandle, ReleaseLastHandle, DeviceRelease, commands
<1> QED BY <1>2, <1>4, <1>5, <1>6, <1>7 DEF Call, Continue

\* A step of the manager's thread while the manager lives.
LEMMA RunningRun ==
  ASSUME IInv, Running, Run, ~ ReleaseManager_MgrThread
  PROVE  Running'
<1>0. queue \in Seq(Sent) /\ NULL \notin Sent /\ Manager \in Objects
  BY Types
<1>1. ASSUME serving' = serving, exited' = exited, queue' = queue,
             worker' \notin {"closing", "exited"}
      PROVE  Running'
  BY <1>1 DEF Running
<1>2. ASSUME PopCommand PROVE Running'
  <2>1. /\ queue # <<>> /\ serving' = Head(queue) /\ queue' = Tail(queue) /\ exited' = exited
        /\ worker' = "serving"
    BY <1>2 DEF PopCommand
  <2>2. /\ Head(queue) = queue[1] /\ 1 \in 1..Len(queue)
        /\ \A i \in 1..Len(queue') : queue'[i] = queue[i + 1] /\ i + 1 \in 1..Len(queue)
    BY <1>0, <2>1
  <2> QED BY <2>1, <2>2 DEF Running
<1>3. ASSUME ReleaseDevice_MgrThread PROVE Running'
  <2>1. /\ worker' = "keeping" /\ serving' = serving /\ exited' = exited
        /\ queue' = queue \/ queue' = Append(queue, Release(Manager))
    BY <1>3 DEF ReleaseDevice_MgrThread, Push, Release, commands
  <2>2. Release(Manager) \in Sent /\ Release(Manager) # ExitCommand
    BY <1>0, SentCommands, Made
  <2> QED BY <1>1, <2>1, <2>2, RunningPush
<1>4. ASSUME \/ CreateDevice_MgrThread \/ ReleaseStolen \/ ReleaseKeepAlive
             \/ EnumerateAllFactoryDevices
      PROVE  Running'
  <2>1. /\ worker' = "finishing" /\ serving' = serving /\ exited' = exited /\ queue' = queue
    BY <1>4
       DEF CreateDevice_MgrThread, ReleaseStolen, ReleaseKeepAlive, EnumerateAllFactoryDevices,
           commands
  <2> QED BY <1>1, <2>1
<1>5. ASSUME Finish PROVE Running'
  <2>1. /\ worker' = "popping" /\ serving' = NULL /\ queue' = queue
        /\ exited' = (serving = ExitCommand)
    BY <1>5 DEF Finish
  <2>2. NULL # ExitCommand
    BY <1>0, SentCommands
  <2> QED BY <2>1, <2>2 DEF Running
<1>6. ~ PushExitCommand /\ ~ Exit
  BY DEF Running, PushExitCommand, Exit
<1> QED BY <1>2, <1>3, <1>4, <1>5, <1>6 DEF Run

\* A thread's step once the manager is dead.
LEMMA EndingCall ==
  ASSUME IInv, Ending, ~ (refCount[Manager] > 0), NEW t \in Threads, Call(t) \/ Continue(t)
  PROVE  Ending'
<1>1. ReleaseHandle(t) \/ ReleaseLastHandle(t)
  <2>1. /\ \A x \in Objects : ~ (refCount[x] > 0) /\ ~ (holds[t][x] > 0)
        /\ pc[t] \notin {"waiting", "enumerated", "requesting", "created", "releasing"}
    BY Dead
  <2>2. handle[t] # NULL => handle[t] \in Objects
    BY Types
  <2>3. ~ CreateDevice(t)
    BY <2>1, <2>2 DEF CreateDevice, Alive
  <2>4. ~ EnumerateDevicesEx(t) /\ ~ GetEnumerator(t) /\ ~ PushCreate(t) /\ ~ PushRelease(t)
    BY <2>1 DEF EnumerateDevicesEx, GetEnumerator, PushCreate, PushRelease
  <2>5. \A x \in Objects : ~ DeviceRelease(t, x)
    BY <2>1 DEF DeviceRelease
  <2> QED BY <2>3, <2>4, <2>5 DEF Call, Continue
<1>2. UNCHANGED <<commands, worker>>
  BY <1>1 DEF ReleaseHandle, ReleaseLastHandle, thread
<1> QED BY <1>2 DEF Ending, commands

\* A step of the manager's thread once the manager is dead.
LEMMA EndingRun ==
  ASSUME IInv, Ending, Run, ~ (refCount[Manager] > 0)
  PROVE  Ending'
<1>0. ExitCommand.op = "exit" /\ WorkerOK
  BY Made DEF IInv
<1>1. CASE worker = "closing" /\ queue = <<>> /\ ~ exited
  <2>1. PushExitCommand
    BY <1>1
       DEF Run, PopCommand, CreateDevice_MgrThread, ReleaseStolen, ReleaseDevice_MgrThread,
           ReleaseKeepAlive, ReleaseManager_MgrThread, EnumerateAllFactoryDevices, Finish, Exit,
           Serving
  <2>2. queue' = Append(queue, ExitCommand) /\ worker' = "finishing" /\ exited' = exited
    BY <2>1 DEF PushExitCommand, Push
  <2>3. queue' = <<ExitCommand>>
    BY <1>1, <2>2
  <2> QED BY <1>1, <2>2, <2>3 DEF Ending
<1>2. CASE worker \in {"finishing", "popping"} /\ queue = <<ExitCommand>> /\ ~ exited
  <2>1. PopCommand \/ Finish
    BY <1>2
       DEF Run, CreateDevice_MgrThread, ReleaseStolen, ReleaseDevice_MgrThread,
           ReleaseKeepAlive, ReleaseManager_MgrThread, EnumerateAllFactoryDevices,
           PushExitCommand, Exit, Serving
  <2>2. CASE PopCommand
    <3>1. /\ worker' = "serving" /\ serving' = Head(queue) /\ queue' = Tail(queue)
          /\ exited' = exited
      BY <2>2 DEF PopCommand
    <3>2. serving' = ExitCommand /\ queue' = <<>>
      BY <1>2, <3>1
    <3> QED BY <1>2, <3>1, <3>2 DEF Ending
  <2>3. CASE Finish
    <3>1. serving # ExitCommand
      BY <1>0, <1>2, <2>3 DEF Finish, WorkerOK, Serving
    <3>2. worker' = "popping" /\ queue' = queue /\ exited' = (serving = ExitCommand)
      BY <2>3 DEF Finish
    <3> QED BY <1>2, <3>1, <3>2 DEF Ending
  <2> QED BY <2>1, <2>2, <2>3
<1>3. CASE worker = "serving" /\ serving = ExitCommand /\ queue = <<>> /\ ~ exited
  <2>1. Finish
    BY <1>0, <1>3
       DEF Run, PopCommand, CreateDevice_MgrThread, ReleaseStolen, ReleaseDevice_MgrThread,
           ReleaseKeepAlive, ReleaseManager_MgrThread, EnumerateAllFactoryDevices,
           PushExitCommand, Exit, Serving
  <2>2. worker' = "popping" /\ queue' = queue /\ exited' = (serving = ExitCommand)
    BY <2>1 DEF Finish
  <2> QED BY <1>3, <2>2 DEF Ending
<1>4. CASE worker \in {"popping", "exited"} /\ queue = <<>> /\ exited
  <2>1. Exit
    BY <1>4
       DEF Run, PopCommand, CreateDevice_MgrThread, ReleaseStolen, ReleaseDevice_MgrThread,
           ReleaseKeepAlive, ReleaseManager_MgrThread, EnumerateAllFactoryDevices,
           PushExitCommand, Finish, Serving
  <2>2. worker' = "exited" /\ UNCHANGED commands
    BY <2>1 DEF Exit
  <2> QED BY <1>4, <2>2 DEF Ending, commands
<1> QED BY <1>1, <1>2, <1>3, <1>4 DEF Ending

\* Every step keeps the order of the end.
LEMMA LifeStep ==
  ASSUME IInv, [Next]_vars
  PROVE  LifeOK'
<1>0. /\ Manager \in Objects /\ Manager \notin Devices /\ refCount \in [Objects -> Nat]
  BY Types
<1>1. /\ refCount[Manager] > 0 => Running
      /\ ~ (refCount[Manager] > 0) => Ending
  BY DEF IInv, LifeOK, Running, Ending, Alive
<1>2. ASSUME /\ refCount'[Manager] > 0 => Running'
             /\ ~ (refCount'[Manager] > 0) => Ending'
      PROVE  LifeOK'
  BY <1>2 DEF LifeOK, Running, Ending, Alive
<1>3. CASE ReleaseManager_MgrThread
  <2>1. /\ Serving("release") /\ serving.object = Manager /\ refCount[Manager] = 1
        /\ refCount' = [refCount EXCEPT ![Manager] = 0] /\ worker' = "closing"
        /\ queue' = queue /\ exited' = exited
    BY <1>3 DEF ReleaseManager_MgrThread, IsLast, commands
  <2>2. worker = "serving" /\ serving = Release(Manager)
    BY <2>1, Referred DEF Serving
  <2>3. queue = <<>>
    BY <2>1, <2>2, LastReference
  <2>4. ~ exited
    BY <1>1, <2>1 DEF Running
  <2>5. ~ (refCount'[Manager] > 0)
    BY <1>0, <2>1
  <2>6. Ending'
    BY <2>1, <2>3, <2>4 DEF Ending
  <2> QED BY <1>2, <2>5, <2>6
<1>4. CASE ~ ReleaseManager_MgrThread
  <2>1. refCount'[Manager] > 0 <=> refCount[Manager] > 0
    BY <1>0, <1>4, Lives
  <2>2. CASE UNCHANGED <<commands, worker>>
    <3>1. (Running => Running') /\ (Ending => Ending')
      BY <2>2 DEF Running, Ending, commands
    <3> QED BY <1>1, <1>2, <2>1, <3>1
  <2>3. CASE refCount[Manager] > 0
    <3>1. ASSUME NEW t \in Threads, Call(t) \/ Continue(t) PROVE Running'
      BY <1>1, <2>3, <3>1, RunningCall
    <3>2. ASSUME Run PROVE Running'
      BY <1>1, <1>4, <2>3, <3>2, RunningRun
    <3> QED
      BY <1>2, <2>1, <2>2, <2>3, <3>1, <3>2
         DEF Next, vars, commands, thread, DetectHIDDevice, Plug
  <2>4. CASE ~ (refCount[Manager] > 0)
    <3>1. ASSUME NEW t \in Threads, Call(t) \/ Continue(t) PROVE Ending'
      BY <1>1, <2>4, <3>1, EndingCall
    <3>2. ASSUME Run PROVE Ending'
      BY <1>1, <2>4, <3>2, EndingRun
    <3> QED
      BY <1>2, <2>1, <2>2, <2>4, <3>1, <3>2
         DEF Next, vars, commands, thread, DetectHIDDevice, Plug
  <2> QED BY <2>3, <2>4
<1> QED BY <1>3, <1>4
-----------------------------------------------------------------------------
(* The beginning. *)

\* At the beginning the references are those of the threads to the manager.
LEMMA InitialReferences ==
  ASSUME NEW h,
         \A t \in Threads, x \in Objects : h[t][x] = IF x = Manager THEN 1 ELSE 0
  PROVE  /\ HeldBy(h, Manager) = Cardinality(Threads)
         /\ \A d \in Devices : HeldBy(h, d) = 0
<1> DEFINE S(x) == UNION {{t} \X (1..h[t][x]) : t \in Threads}
           f == [t \in Threads |-> <<t, 1>>]
<1>1. S(Manager) = {<<t, 1>> : t \in Threads}
  <2>1. \A t \in Threads : {t} \X (1..h[t][Manager]) = {<<t, 1>>}
    BY DEF Objects
  <2> QED BY <2>1
<1>2. f \in Bijection(Threads, S(Manager))
  <2>1. f \in [Threads -> S(Manager)]
    BY <1>1
  <2>2. \A t, u \in Threads : f[t] = f[u] => t = u
    OBVIOUS
  <2>3. \A p \in S(Manager) : \E t \in Threads : f[t] = p
    BY <1>1
  <2> HIDE DEF f, S
  <2>4. f \in Injection(Threads, S(Manager))
    BY <2>1, <2>2 DEF Injection, IsInjective
  <2>5. f \in Surjection(Threads, S(Manager))
    BY <2>1, <2>3 DEF Surjection
  <2> QED BY <2>4, <2>5 DEF Bijection
<1>3. Cardinality(S(Manager)) = Cardinality(Threads)
  <2> HIDE DEF f, S
  <2>1. IsFiniteSet(Threads)
    BY ObjectsAssumption
  <2> QED BY <1>2, <2>1, FS_Bijection DEF ExistsBijection
<1>4. ASSUME NEW d \in Devices PROVE HeldBy(h, d) = 0
  <2>1. S(d) = {}
    <3>1. d \in Objects /\ d # Manager
      BY ObjectsAssumption DEF Objects
    <3>2. \A t \in Threads : {t} \X (1..h[t][d]) = {}
      BY <3>1
    <3> QED BY <3>2
  <2>2. Count({}) = 0
    BY FS_EmptySet DEF Count
  <2> QED BY <2>1, <2>2 DEF HeldBy
<1> QED BY <1>3, <1>4 DEF HeldBy, Count

\* There is a thread.
LEMMA SomeThread == Cardinality(Threads) \in Nat /\ Cardinality(Threads) > 0
<1>1. PICK t \in Threads : TRUE
  BY ObjectsAssumption
<1> QED BY <1>1, NotNone, ObjectsAssumption DEF Count

\* The invariant holds at the beginning.
LEMMA Initially == Init => IInv
<1> SUFFICES ASSUME Init PROVE IInv
  OBVIOUS
<1>0. /\ Manager \in Objects /\ Manager \notin Devices /\ Objects = Devices \cup {Manager}
      /\ NULL \notin Objects /\ NULL \notin Threads /\ NULL \notin Sent /\ PlugBound \in Nat
  BY ObjectsAssumption DEF Objects
<1>1. /\ refCount = [x \in Objects |-> IF x = Manager THEN Cardinality(Threads) ELSE 0]
      /\ handleCount = [d \in Devices |-> 0] /\ desc = [d \in Devices |-> "none"]
      /\ enumerated = [d \in Devices |-> FALSE]
      /\ queue = <<>> /\ serving = NULL /\ exited = FALSE
      /\ worker = "popping" /\ keepAlive = NULL
      /\ pc = [t \in Threads |-> "out"]
      /\ holds = [t \in Threads |-> [x \in Objects |-> IF x = Manager THEN 1 ELSE 0]]
      /\ handle = [t \in Threads |-> NULL] /\ releasing = [t \in Threads |-> NULL]
      /\ plugged \in [Devices -> BOOLEAN] /\ plugs = 0
  BY DEF Init
<1>2. TypeOK
  <2>1. /\ refCount \in [Objects -> Nat] /\ handleCount \in [Devices -> Nat]
        /\ desc \in [Devices -> {"none", "listed", "removed"}]
        /\ enumerated \in [Devices -> BOOLEAN]
    BY <1>1, SomeThread
  <2>2. /\ queue \in Seq(Sent) /\ serving \in Sent \cup {NULL} /\ exited \in BOOLEAN
        /\ worker \in {"popping", "serving", "keeping", "closing", "finishing", "exited"}
        /\ keepAlive \in Devices \cup {NULL}
    <3>1. <<>> \in Seq(Sent)
      OBVIOUS
    <3> QED BY <1>1, <3>1
  <2>3. /\ pc \in [Threads -> {"out", "waiting", "enumerated", "requesting", "created",
                               "releasing", "dropping"}]
        /\ holds \in [Threads -> [Objects -> Nat]]
    BY <1>1
  <2>4. /\ handle \in [Threads -> Devices \cup {NULL}]
        /\ releasing \in [Threads -> Objects \cup {NULL}]
        /\ plugged \in [Devices -> BOOLEAN] /\ plugs \in 0..PlugBound
    BY <1>0, <1>1
  <2> QED BY <2>1, <2>2, <2>3, <2>4 DEF TypeOK
<1>3. /\ refCount[Manager] = Cardinality(Threads)
      /\ \A d \in Devices : refCount[d] = 0 /\ handleCount[d] = 0 /\ desc[d] = "none"
  BY <1>0, <1>1
<1>4. RefCountsOwners
  <2>1. \A t \in Threads, x \in Objects : holds[t][x] = IF x = Manager THEN 1 ELSE 0
    BY <1>1
  <2>2. /\ HeldBy(holds, Manager) = Cardinality(Threads)
        /\ \A d \in Devices : HeldBy(holds, d) = 0
    BY <2>1, InitialReferences
  <2>3. Count({}) = 0
    BY FS_EmptySet DEF Count
  <2>4. ASSUME NEW x PROVE PassedIn(queue, x) = 0 /\ InHand(worker, serving, x) = 0
    <3>1. {i \in DOMAIN queue : queue[i] = Release(x)} = {}
      BY <1>1
    <3> QED BY <1>1, <2>3, <3>1 DEF PassedIn, InHand
  <2>5. Living(refCount) = 0
    <3>1. {d \in Devices : refCount[d] > 0} = {}
      BY <1>3
    <3> QED BY <2>3, <3>1 DEF Living
  <2>6. ASSUME NEW x \in Objects
        PROVE  refCount[x] = Owners(refCount, holds, queue, worker, serving, x)
    BY <1>0, <1>3, <2>2, <2>4, <2>5, SomeThread DEF Owners
  <2> QED BY <2>6, Balance
<1>5. ASSUME NEW d \in Devices PROVE HandlesOf(handle, d) = 0 /\ keepAlive # d
  <2>1. {t \in Threads : handle[t] = d} = {}
    BY <1>0, <1>1
  <2>2. Count({}) = 0
    BY FS_EmptySet DEF Count
  <2> QED BY <1>0, <1>1, <2>1, <2>2 DEF HandlesOf
<1>6. HandleCountsOwners /\ NoDescriptorLeaks
  BY <1>3, <1>5 DEF HandleCountsOwners, NoDescriptorLeaks, HandlesOf, Alive
<1>7. CallOK
  BY <1>1 DEF CallOK, ThreadsOK, QueueOK, ServingOK
<1>8. WorkerOK
  BY <1>1 DEF WorkerOK
<1>9. LifeOK
  <2>1. Alive(Manager)
    BY <1>3, SomeThread DEF Alive
  <2>2. serving # ExitCommand
    BY <1>0, <1>1, SentCommands
  <2> QED BY <1>1, <2>1, <2>2 DEF LifeOK
<1> QED BY <1>2, <1>4, <1>6, <1>7, <1>8, <1>9 DEF IInv, CountsOwners

-----------------------------------------------------------------------------
(* The theorems. *)

\* The invariant always holds.
LEMMA Invariance == Spec => []IInv
<1>1. IInv /\ [Next]_vars => IInv'
  BY CountStep, CallStep, WorkerStep, LifeStep DEF IInv
<1> QED BY <1>1, Initially, PTL DEF Spec

\* The counts of the devices, of the manager and of the descriptors are those
\* of their owners, whatever the threads do: nobody refers to an object that
\* has died, and none is left that nobody refers to.
THEOREM CountsAreOwners == Spec => []CountsOwners
<1>1. IInv => CountsOwners
  BY DEF IInv
<1> QED BY <1>1, Invariance, PTL

\* When the manager's thread ends every device is gone and nobody waits for it.
THEOREM ThreadEndsLast == Spec => []ThreadOutlivesDevices
<1>1. IInv => ThreadOutlivesDevices
  <2> SUFFICES ASSUME IInv, worker = "exited"
               PROVE  /\ \A x \in Objects : ~ Alive(x)
                      /\ queue = <<>> /\ \A t \in Threads : pc[t] # "waiting"
    BY DEF ThreadOutlivesDevices
  <2>1. ~ (refCount[Manager] > 0) /\ queue = <<>>
    BY DEF IInv, LifeOK, Alive
  <2> QED BY <2>1, Dead DEF Alive
<1> QED BY <1>1, Invariance, PTL

\* A step of a thread is a step of the queue, or none.
LEMMA CallRefines ==
  ASSUME IInv, NEW t \in Threads, Call(t) \/ Continue(t), Alive(Manager)' <=> Alive(Manager)
  PROVE  Queue!Next \/ UNCHANGED Queue!vars
<1>0. /\ handle \in [Threads -> Devices \cup {NULL}]
      /\ releasing \in [Threads -> Objects \cup {NULL}]
  BY Types
<1>1. ASSUME NEW c \in Sent, c # ExitCommand, Push(c), Alive(Manager) PROVE Queue!Next
  <2>1. ~ exited
    BY <1>1 DEF IInv, LifeOK
  <2>2. Queue!Enqueue(c)
    BY <1>1, <2>1 DEF Queue!Enqueue, Push
  <2> QED BY <2>2 DEF Queue!Next
<1>2. \A u \in Threads :
        pc[u] \in {"waiting", "enumerated", "requesting", "created", "releasing"} => Alive(Manager)
  BY Referred DEF Alive
<1>3. ASSUME EnumerateDevicesEx(t) PROVE Queue!Next
  <2>1. Push(Command("enumerate", NULL, t)) /\ Alive(Manager)
    BY <1>3, Referred DEF EnumerateDevicesEx, Alive
  <2> QED BY <1>1, <2>1, SentCommands, Made
<1>4. ASSUME PushCreate(t) PROVE Queue!Next
  <2>1. pc[t] = "requesting" /\ Push(Command("create", handle[t], t))
    BY <1>4 DEF PushCreate
  <2>2. handle[t] \in Devices /\ Alive(Manager)
    BY <1>0, <1>2, <2>1 DEF IInv, CallOK, ThreadsOK
  <2> QED BY <1>1, <2>1, <2>2, SentCommands, Made
<1>5. ASSUME PushRelease(t) PROVE Queue!Next
  <2>1. pc[t] = "releasing" /\ Push(Release(releasing[t]))
    BY <1>5 DEF PushRelease, Release
  <2>2. releasing[t] \in Objects /\ Alive(Manager)
    BY <1>0, <1>2, <2>1 DEF IInv, CallOK, ThreadsOK
  <2> QED BY <1>1, <2>1, <2>2, SentCommands, Made
<1>6. ASSUME \/ GetEnumerator(t) \/ CreateDevice(t) \/ ReleaseHandle(t) \/ ReleaseLastHandle(t)
             \/ \E x \in Objects : DeviceRelease(t, x)
      PROVE  UNCHANGED Queue!vars
  <2>1. UNCHANGED commands
    BY <1>6 DEF GetEnumerator, CreateDevice, ReleaseHandle, ReleaseLastHandle, DeviceRelease
  <2> QED BY <2>1 DEF Queue!vars, commands
<1> QED BY <1>3, <1>4, <1>5, <1>6 DEF Call, Continue

\* A step of the manager's thread is a step of the queue, or none.
LEMMA RunRefines ==
  ASSUME IInv, Run, ReleaseManager_MgrThread \/ (Alive(Manager)' <=> Alive(Manager))
  PROVE  Queue!Next \/ UNCHANGED Queue!vars
<1>0. /\ NULL \notin Sent /\ Manager \in Objects /\ Manager \notin Devices
      /\ refCount \in [Objects -> Nat] /\ ExitCommand.op = "exit"
  BY Types, Made
<1>1. CASE ReleaseManager_MgrThread
  <2>1. Alive(Manager) /\ ~ Alive(Manager)' /\ UNCHANGED commands
    BY <1>0, <1>1 DEF ReleaseManager_MgrThread, IsLast, Alive
  <2>2. Queue!Close
    BY <2>1 DEF Queue!Close, commands
  <2> QED BY <2>2 DEF Queue!Next
<1> SUFFICES ASSUME ~ ReleaseManager_MgrThread, Alive(Manager)' <=> Alive(Manager)
             PROVE  Queue!Next \/ UNCHANGED Queue!vars
  BY <1>1
<1>2. CASE PopCommand
  <2>1. serving = NULL /\ queue # <<>>
    BY <1>2 DEF PopCommand, IInv, WorkerOK
  <2>2. Queue!Take
    BY <1>2, <2>1 DEF Queue!Take, PopCommand
  <2> QED BY <2>2 DEF Queue!Next
<1>3. CASE Finish
  <2>1. serving # NULL
    BY <1>3 DEF Finish, Serving, IInv, WorkerOK
  <2>2. serving = ExitCommand => queue = <<>>
    BY <1>3 DEF Finish, Serving, IInv, WorkerOK, LifeOK
  <2>3. Queue!Finish
    BY <1>3, <2>1, <2>2 DEF Queue!Finish, Finish
  <2> QED BY <2>3 DEF Queue!Next
<1>4. CASE PushExitCommand
  <2>1. ~ Alive(Manager) /\ ~ exited
    BY <1>4 DEF PushExitCommand, IInv, LifeOK
  <2>2. ExitCommand \in Sent /\ Queue!Enqueue(ExitCommand)
    BY <1>4, <2>1, SentCommands DEF PushExitCommand, Queue!Enqueue, Push
  <2> QED BY <2>2 DEF Queue!Next
<1>5. CASE ReleaseDevice_MgrThread
  <2>1. Alive(Manager) /\ (UNCHANGED commands \/ Push(Release(Manager)))
    BY <1>5, Referred DEF ReleaseDevice_MgrThread, Release, Alive
  <2>2. CASE UNCHANGED commands
    BY <2>2 DEF Queue!vars, commands
  <2>3. CASE Push(Release(Manager))
    <3>1. Release(Manager) \in Sent /\ Release(Manager) # ExitCommand
      BY <1>0, SentCommands, Made
    <3>2. ~ exited
      BY <2>1 DEF IInv, LifeOK
    <3>3. Queue!Enqueue(Release(Manager))
      BY <2>1, <2>3, <3>1, <3>2 DEF Queue!Enqueue, Push
    <3> QED BY <3>1, <3>3 DEF Queue!Next
  <2> QED BY <2>1, <2>2, <2>3
<1>6. CASE \/ CreateDevice_MgrThread \/ ReleaseStolen \/ ReleaseKeepAlive
           \/ EnumerateAllFactoryDevices \/ Exit
  <2>1. UNCHANGED commands
    BY <1>6
       DEF CreateDevice_MgrThread, ReleaseStolen, ReleaseKeepAlive, EnumerateAllFactoryDevices,
           Exit
  <2> QED BY <2>1 DEF Queue!vars, commands
<1> QED BY <1>2, <1>3, <1>4, <1>5, <1>6 DEF Run

\* The queue is used as a CommandQueue: while the manager lives every command
\* is taken, and after its death nothing is called but its own exit.
THEOREM QueueIsUsedWell == Spec => UsesCommandQueue
<1>1. Init => Queue!Init
  <2> SUFFICES ASSUME Init PROVE Queue!Init
    OBVIOUS
  <2>1. Alive(Manager)
    BY SomeThread DEF Init, Alive, Objects
  <2> QED BY <2>1 DEF Init, Queue!Init
<1>2. IInv /\ [Next]_vars => [Queue!Next]_(Queue!vars)
  <2> SUFFICES ASSUME IInv, [Next]_vars PROVE Queue!Next \/ UNCHANGED Queue!vars
    OBVIOUS
  <2>1. ReleaseManager_MgrThread \/ (Alive(Manager)' <=> Alive(Manager))
    <3>1. Manager \in Objects /\ Manager \notin Devices
      BY Types
    <3> QED BY <3>1, Lives DEF Alive
  <2>2. ASSUME NEW t \in Threads, Call(t) \/ Continue(t)
        PROVE  Queue!Next \/ UNCHANGED Queue!vars
    <3>1. UNCHANGED <<serving, worker>>
      BY <2>2
         DEF Call, Continue, EnumerateDevicesEx, GetEnumerator, CreateDevice, PushCreate,
             DeviceRelease, PushRelease, ReleaseHandle, ReleaseLastHandle, Push, commands, thread
    <3>2. ~ ReleaseManager_MgrThread
      BY <3>1 DEF ReleaseManager_MgrThread, Serving
    <3> QED BY <2>1, <2>2, <3>2, CallRefines
  <2>3. CASE Run
    BY <2>1, <2>3, RunRefines
  <2>4. ASSUME UNCHANGED <<commands, refCount>> PROVE UNCHANGED Queue!vars
    BY <2>4 DEF Queue!vars, commands, Alive
  <2> QED BY <2>2, <2>3, <2>4 DEF Next, vars, counts, DetectHIDDevice, Plug
<1> QED BY <1>1, <1>2, Invariance, PTL DEF Spec, Queue!Spec, UsesCommandQueue

=============================================================================
