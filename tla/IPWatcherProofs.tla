-------------------------- MODULE IPWatcherProofs --------------------------
(***************************************************************************)
(* Proofs about IPWatcher, for any pods, addresses and bounds.             *)
(*                                                                         *)
(* What is pending for a pod in DeltaFIFO is a chain: each delta starts    *)
(* from the state the one before leaves, the first from the indexer's.  So *)
(* a deletion that Pop hands on always has a stored pod to take away, at   *)
(* the address it names.  The rest is about the notifications still queued *)
(* in the listener.  The count is balanced in every prefix of the queue,   *)
(* so no deletion ever brings it below zero; the whole queue brings it to  *)
(* the pods known and missed.  The address of a known pod leads to it      *)
(* already, or a queued notification will put it there, and whatever could *)
(* undo that is queued before it, unless the address is contested.  An     *)
(* address that leads to any other pod, or will, is one that pod has left. *)
(***************************************************************************)
EXTENDS IPWatcher, FiniteSetTheorems, TLAPS

\* How many of the first n notifications of q are of the kind
Count(q, n, kind) == Cardinality({i \in 1..n : q[i].kind = kind})

\* How much more the first n notifications of q add than they subtract
Balance(q, n) == Count(q, n, "add") - Count(q, n, "delete")

\* Where things are: only the informer of a running watcher feeds, and only
\* the K8SData that newK8SWatcher made
Wired ==
    /\ phase = "running" <=> handler = "internal"
    /\ phase = "running" => current = "kd"
    /\ conn \/ fifo # << >> \/ queue # << >> => phase = "running"

Distinct(q) == \A i, j \in 1..Len(q) : q[i] = q[j] => i = j

\* Each pod of the FIFO has something pending and is there once
Keyed == (\A i \in 1..Len(fifo) : deltas[fifo[i]] # << >>) /\ Distinct(fifo)

\* While the watch is connected, what is pending leads to the API server's state
Mirror == conn => \A p \in Pods : Told(p) = api[p]

\* Delta d of pod p follows the state was: a deletion takes away a pod at the
\* address it names, and an address of p goes unreported only if p has left it
Follows(p, was, d, gone) ==
    /\ d.kind # "changed" => was # NoPod /\ d.ip = was
    /\ d.kind # "deleted" /\ was \in IPs /\ After(d) # was => <<p, was>> \in gone

\* The state that delta i of q follows, if q follows was
Before(was, q, i) == IF i = 1 THEN was ELSE After(q[i - 1])

Chain(p, was, q, gone) == \A i \in 1..Len(q) : Follows(p, Before(was, q, i), q[i], gone)

Chained == \A p \in Pods : Chain(p, store[p], deltas[p], left)

\* An address that p was told at, but has no more, has been left
Unseen == \A p \in Pods : Told(p) \in IPs /\ api[p] # Told(p) => <<p, Told(p)>> \in left

\* The deletions in any prefix of the queue have something to subtract from
Balanced == \A n \in 0..Len(queue) : Fed.pods + Balance(queue, n) >= 0

\* The whole queue balances to the pods known and those that lists have found gone
Exact == Fed.pods + Balance(queue, Len(queue)) = Cardinality(Live(store)) + missed

SharedContested == Shared(store) \subseteq contested

AddressesLead ==
    \A p \in Pods : store[p] \in IPs /\ store[p] \notin contested
                        => Leads(Fed.ipToSrc, queue, store[p], p)

\* And what leads anywhere else, or will, leads to a pod that has left
Explained == \A p \in Pods, a \in IPs :
    Leads(Fed.ipToSrc, queue, a, p) => store[p] = a \/ <<p, a>> \in left

\* With table x and notifications q to come, p has an entry in the end
Enters(x, q, p) ==
    \/ x[p] # NoPod
    \/ \E i \in 1..Len(q) : q[i].kind = "add" /\ q[i].pod = p

PodsEnter == \A p \in Live(store) : Enters(Fed.podInfo, queue, p)

\* What is pending
Pending == Keyed /\ Mirror /\ Chained /\ Unseen

\* What the handlers have done and will do
Promised ==
    /\ Balanced /\ Exact
    /\ SharedContested /\ AddressesLead /\ Explained
    /\ PodsEnter

IInv == TypeOK /\ Wired /\ Pending /\ Promised

-----------------------------------------------------------------------------
(* Lemmas about counting the notifications of a queue.                     *)

\* The set that is counted is finite.
LEMMA CountType ==
    ASSUME NEW q, NEW n \in Nat, NEW kind
    PROVE  /\ IsFiniteSet({i \in 1..n : q[i].kind = kind})
           /\ Count(q, n, kind) \in Nat
<1> DEFINE S == {i \in 1..n : q[i].kind = kind}
<1>1. S \in SUBSET (1..n)
    OBVIOUS
<1>2. IsFiniteSet(1..n)
    BY FS_Interval
<1>3. IsFiniteSet(S)
    <2> HIDE DEF S
    <2> QED
        BY <1>1, <1>2, FS_Subset
<1> QED
    BY <1>3, FS_CardinalityType DEF Count

\* Nothing is counted in an empty prefix, nor where no kind is counted.
LEMMA CountNone ==
    ASSUME NEW q, NEW n \in Nat, NEW kind,
           \A i \in 1..n : q[i].kind # kind
    PROVE  Count(q, n, kind) = 0
<1>1. {i \in 1..n : q[i].kind = kind} = {}
    OBVIOUS
<1> QED
    BY <1>1, FS_EmptySet DEF Count

\* The counts of a sequence of one are 0 or 1.
LEMMA CountOne ==
    ASSUME NEW x, NEW kind
    PROVE  Count(<<x>>, 1, kind) = IF x.kind = kind THEN 1 ELSE 0
<1>1. CASE x.kind = kind
    <2>1. {i \in 1..1 : <<x>>[i].kind = kind} = {1}
        BY <1>1
    <2> QED
        BY <1>1, <2>1, FS_Singleton DEF Count
<1>2. CASE x.kind # kind
    BY <1>2, CountNone
<1> QED
    BY <1>1, <1>2

\* Counts look at nothing but the prefix.
LEMMA CountSame ==
    ASSUME NEW q, NEW r, NEW n \in Nat, NEW kind, \A i \in 1..n : q[i] = r[i]
    PROVE  Count(q, n, kind) = Count(r, n, kind)
<1>1. {i \in 1..n : q[i].kind = kind} = {i \in 1..n : r[i].kind = kind}
    OBVIOUS
<1> QED
    BY <1>1 DEF Count

\* A set of integers keeps its size when it is shifted.
LEMMA ShiftSize ==
    ASSUME NEW S \in SUBSET Int, IsFiniteSet(S), NEW k \in Int
    PROVE  /\ IsFiniteSet({i + k : i \in S})
           /\ Cardinality({i + k : i \in S}) = Cardinality(S)
<1> DEFINE T == {i + k : i \in S}
           f == [i \in S |-> i + k]
<1>1. f \in Bijection(S, T)
    BY DEF Bijection, Injection, Surjection, IsInjective
<1>2. ExistsBijection(S, T)
    BY <1>1 DEF ExistsBijection
<1> QED
    BY <1>2, FS_Bijection

\* The count of a sequence and some of the next is the sum of the counts.
LEMMA CountConcat ==
    ASSUME NEW T, NEW q \in Seq(T), NEW r \in Seq(T), NEW n \in 0..Len(r), NEW kind
    PROVE  Count(q \o r, Len(q) + n, kind) = Count(q, Len(q), kind) + Count(r, n, kind)
<1> DEFINE m == Len(q)
           A == {i \in 1..m : q[i].kind = kind}
           B == {i \in 1..n : r[i].kind = kind}
           C == {i + m : i \in B}
           Both == {i \in 1..(m + n) : (q \o r)[i].kind = kind}
<1>1. m \in Nat /\ n \in Nat /\ n <= Len(r)
    OBVIOUS
<1>2. \A i \in 1..m : (q \o r)[i] = q[i]
    BY <1>1
<1>3. \A i \in 1..n : (q \o r)[i + m] = r[i]
    BY <1>1
<1>4. Both = A \cup C
    <2>1. Both \subseteq A \cup C
        <3> SUFFICES ASSUME NEW i \in 1..(m + n), (q \o r)[i].kind = kind, i \notin A
                     PROVE  i \in C
            OBVIOUS
        <3>1. i > m
            BY <1>1, <1>2
        <3>2. i - m \in 1..n /\ (i - m) + m = i
            BY <1>1, <3>1
        <3>3. i - m \in B
            BY <1>3, <3>2
        <3> QED
            BY <3>2, <3>3
    <2>2. A \subseteq Both
        BY <1>1, <1>2
    <2>3. C \subseteq Both
        <3> SUFFICES ASSUME NEW i \in B
                     PROVE  i + m \in Both
            OBVIOUS
        <3>1. i + m \in 1..(m + n)
            BY <1>1
        <3> QED
            BY <1>3, <3>1
    <2> QED
        BY <2>1, <2>2, <2>3
<1>5. A \cap C = {}
    BY <1>1
<1>6. IsFiniteSet(A) /\ IsFiniteSet(B)
    <2>1. IsFiniteSet(1..m) /\ IsFiniteSet(1..n)
        BY <1>1, FS_Interval
    <2>2. A \in SUBSET (1..m) /\ B \in SUBSET (1..n)
        OBVIOUS
    <2> HIDE DEF A, B
    <2> QED
        BY <2>1, <2>2, FS_Subset
<1>7. IsFiniteSet(C) /\ Cardinality(C) = Cardinality(B)
    <2>1. B \in SUBSET Int /\ m \in Int
        OBVIOUS
    <2>2. \A S \in SUBSET Int : IsFiniteSet(S) =>
              IsFiniteSet({i + m : i \in S}) /\ Cardinality({i + m : i \in S}) = Cardinality(S)
        BY <2>1, ShiftSize
    <2> QED
        BY <1>6, <2>1, <2>2
<1>8. Cardinality(A \cup C) = Cardinality(A) + Cardinality(C)
    <2> HIDE DEF A, C
    <2>1. Cardinality(A \cup C) = Cardinality(A) + Cardinality(C) - Cardinality({})
        BY <1>5, <1>6, <1>7, FS_Union
    <2>2. Cardinality(A) \in Nat /\ Cardinality(C) \in Nat
        BY <1>6, <1>7, FS_CardinalityType
    <2> QED
        BY <2>1, <2>2, FS_EmptySet
<1> QED
    BY <1>4, <1>7, <1>8 DEF Count

\* The count of a queue is that of its head and that of its tail.
LEMMA CountTail ==
    ASSUME NEW T, NEW q \in Seq(T), q # << >>, NEW n \in 0..Len(Tail(q)), NEW kind
    PROVE  Count(q, n + 1, kind) =
               (IF Head(q).kind = kind THEN 1 ELSE 0) + Count(Tail(q), n, kind)
<1> DEFINE first == <<Head(q)>>
           rest == Tail(q)
<1>1. q = first \o rest
    OBVIOUS
<1>2. first \in Seq(T) /\ rest \in Seq(T) /\ Len(first) = 1 /\ n \in 0..Len(rest)
    OBVIOUS
<1>3. Count(first, 1, kind) = IF Head(q).kind = kind THEN 1 ELSE 0
    BY CountOne
<1>4. Count(first \o rest, Len(first) + n, kind)
          = Count(first, Len(first), kind) + Count(rest, n, kind)
    <2>1. n \in 0..Len(rest)
        BY <1>2
    <2>2. first \in Seq(T) /\ rest \in Seq(T)
        BY <1>2
    <2> HIDE DEF first, rest
    <2> QED
        BY <2>1, <2>2, CountConcat
<1>5. Len(first) + n = n + 1
    BY <1>2
<1> HIDE DEF first, rest
<1>6. Count(q, n + 1, kind) = Count(first, 1, kind) + Count(rest, n, kind)
    BY <1>1, <1>2, <1>4, <1>5
<1> QED
    BY <1>3, <1>6 DEF rest

\* A balance is a number, none in an empty prefix.
LEMMA BalanceType ==
    ASSUME NEW q, NEW n \in Nat
    PROVE  Balance(q, n) \in Int /\ Balance(q, 0) = 0
<1>1. Count(q, n, "add") \in Nat /\ Count(q, n, "delete") \in Nat
    BY CountType
<1>2. Count(q, 0, "add") = 0 /\ Count(q, 0, "delete") = 0
    BY CountNone
<1> QED
    BY <1>1, <1>2 DEF Balance

\* The balance of a sequence and some of the next; that of a prefix of it.
LEMMA BalanceConcat ==
    ASSUME NEW q \in Seq(Notices), NEW r \in Seq(Notices)
    PROVE  /\ \A n \in 0..Len(r) :
                  Balance(q \o r, Len(q) + n) = Balance(q, Len(q)) + Balance(r, n)
           /\ \A n \in 0..Len(q) : Balance(q \o r, n) = Balance(q, n)
<1>1. ASSUME NEW n \in 0..Len(r)
      PROVE  Balance(q \o r, Len(q) + n) = Balance(q, Len(q)) + Balance(r, n)
    <2>1. Len(q) \in Nat /\ n \in Nat
        OBVIOUS
    <2>2. ASSUME NEW kind
          PROVE  /\ Count(q, Len(q), kind) \in Nat /\ Count(r, n, kind) \in Nat
                 /\ Count(q \o r, Len(q) + n, kind)
                        = Count(q, Len(q), kind) + Count(r, n, kind)
        <3>1. Count(q, Len(q), kind) \in Nat /\ Count(r, n, kind) \in Nat
            BY <2>1, CountType
        <3> QED
            BY <3>1, CountConcat
    <2> QED
        BY <2>2 DEF Balance
<1>2. ASSUME NEW n \in 0..Len(q)
      PROVE  Balance(q \o r, n) = Balance(q, n)
    <2> DEFINE s == q \o r
    <2>1. n \in Nat /\ \A i \in 1..n : s[i] = q[i]
        OBVIOUS
    <2> HIDE DEF s
    <2>2. ASSUME NEW kind
          PROVE  Count(s, n, kind) = Count(q, n, kind)
        BY <2>1, CountSame
    <2>3. Balance(s, n) = Balance(q, n)
        BY <2>2 DEF Balance
    <2> QED
        BY <2>3 DEF s
<1> QED
    BY <1>1, <1>2

\* The balance of a sequence of one.
LEMMA BalanceOne ==
    ASSUME NEW x \in Notices
    PROVE  Balance(<<x>>, 1) = IF x.kind = "add" THEN 1
                               ELSE IF x.kind = "delete" THEN -1 ELSE 0
<1>1. Count(<<x>>, 1, "add") = IF x.kind = "add" THEN 1 ELSE 0
    BY CountOne
<1>2. Count(<<x>>, 1, "delete") = IF x.kind = "delete" THEN 1 ELSE 0
    BY CountOne
<1> QED
    BY <1>1, <1>2 DEF Balance

\* What is queued, as the properties count it, is a balance.
LEMMA QueuedBalance == TypeOK => PodsToBe = Fed.pods + Balance(queue, Len(queue))
<1> SUFFICES ASSUME TypeOK
             PROVE  PodsToBe = Fed.pods + Balance(queue, Len(queue))
    OBVIOUS
<1>1. DOMAIN queue = 1..Len(queue) /\ Len(queue) \in Nat
    BY DEF TypeOK
<1>2. /\ Queued("add") = Count(queue, Len(queue), "add")
      /\ Queued("delete") = Count(queue, Len(queue), "delete")
    BY <1>1 DEF Queued, Count
<1>3. /\ Count(queue, Len(queue), "add") \in Nat
      /\ Count(queue, Len(queue), "delete") \in Nat
    BY <1>1, CountType
<1>4. Fed.pods \in Nat
    BY DEF TypeOK, Fed, K8SData, DataObjects
<1> QED
    BY <1>2, <1>3, <1>4 DEF PodsToBe, Balance

\* A count that is exact is not too low.
LEMMA ExactCovers ==
    ASSUME NEW pods \in Nat, NEW queued \in Int, NEW known \in Nat, NEW gone \in Nat,
           pods + queued = known + gone
    PROVE  pods + queued >= known
OBVIOUS

\* The balance of a queue is that of its head and that of its tail.
LEMMA BalanceTail ==
    ASSUME NEW q \in Seq(Notices), q # << >>, NEW n \in 0..Len(Tail(q))
    PROVE  Balance(q, n + 1) = (IF Head(q).kind = "add" THEN 1 ELSE 0)
                                 - (IF Head(q).kind = "delete" THEN 1 ELSE 0)
                                 + Balance(Tail(q), n)
<1>1. n \in Nat
    OBVIOUS
<1>2. /\ Count(q, n + 1, "add")
             = (IF Head(q).kind = "add" THEN 1 ELSE 0) + Count(Tail(q), n, "add")
      /\ Count(q, n + 1, "delete")
             = (IF Head(q).kind = "delete" THEN 1 ELSE 0) + Count(Tail(q), n, "delete")
    BY CountTail
<1>3. Count(Tail(q), n, "add") \in Nat /\ Count(Tail(q), n, "delete") \in Nat
    BY <1>1, CountType
<1> QED
    BY <1>2, <1>3 DEF Balance

\* The order of a finite set is a sequence of its members that has each once.
LEMMA OrderOnto ==
    ASSUME NEW S, IsFiniteSet(S), NEW order \in SetToSeqs(S)
    PROVE  /\ order \in Seq(S)
           /\ \A x \in S : \E i \in 1..Len(order) : order[i] = x
           /\ \A i, j \in 1..Len(order) : order[i] = order[j] => i = j
<1>1. Cardinality(S) \in Nat
    BY FS_CardinalityType
<1>2. /\ order \in [1..Cardinality(S) -> S]
      /\ \A i, j \in 1..Cardinality(S) : i # j => order[i] # order[j]
    BY DEF SetToSeqs
<1>3. order \in Seq(S) /\ Len(order) = Cardinality(S)
    BY <1>1, <1>2
<1>4. order \in Injection(1..Cardinality(S), S)
    BY <1>2 DEF Injection, IsInjective
<1>5. Cardinality(1..Cardinality(S)) = Cardinality(S)
    BY <1>1, FS_Interval
<1>6. order \in Surjection(1..Cardinality(S), S)
    BY <1>4, <1>5, FS_Injection
<1> QED
    BY <1>2, <1>3, <1>6 DEF Surjection

-----------------------------------------------------------------------------
(* Lemmas about the notifications and their handlers.                      *)

\* Each kind of notification has its handler.
LEMMA Handlers ==
    ASSUME NEW d, NEW n
    PROVE  /\ n.kind = "add" => Handled(d, n) = OnAdd(d, n.pod, n.ip)
           /\ n.kind = "update" => Handled(d, n) = OnUpdate(d, n.pod, n.ip)
           /\ n.kind = "delete" => Handled(d, n) = OnDelete(d, n.pod, n.ip)
           /\ n.kind = "tombstone" => Handled(d, n) = OnTombstone(d, n.pod, n.ip)
BY Zenon DEF Handled

\* A handler's effect on the count, the table of pods and the index.
LEMMA HandledEffect ==
    ASSUME NEW d \in K8SData, NEW n \in Notices, n.kind = "delete" => d.pods >= 1
    PROVE  LET e == Handled(d, n)
           IN  /\ e \in K8SData
               /\ e.pods = d.pods + (IF n.kind = "add" THEN 1 ELSE 0)
                                  - (IF n.kind = "delete" THEN 1 ELSE 0)
               /\ \A p \in Pods : e.podInfo[p] =
                      IF n.kind = "add" /\ n.pod = p THEN n.ip ELSE d.podInfo[p]
               /\ \A a \in IPs : e.ipToSrc[a] =
                      IF n.ip = a /\ n.kind \in Stores THEN n.pod
                      ELSE IF n.ip = a /\ n.kind = "delete" THEN NoPod
                      ELSE d.ipToSrc[a]
<1> DEFINE e == Handled(d, n)
<1> USE DEF K8SData, Notices, Kinds, Stores, Addresses
<1>1. CASE n.kind = "add"
    <2>1. e = OnAdd(d, n.pod, n.ip)
        BY <1>1, Handlers
    <2>2. e.pods = d.pods + 1 /\ e.synced = d.synced
        BY <2>1 DEF OnAdd
    <2>3. \A p \in Pods : e.podInfo[p] = IF n.pod = p THEN n.ip ELSE d.podInfo[p]
        BY <2>1 DEF OnAdd
    <2>4. \A a \in IPs : e.ipToSrc[a] = IF n.ip = a THEN n.pod ELSE d.ipToSrc[a]
        BY <2>1, ConstantsAssumption DEF OnAdd
    <2>5. e.ipToSrc \in [Addresses -> Pods \cup {NoPod}]
        BY <2>1 DEF OnAdd
    <2>6. e.podInfo \in [Pods -> Addresses \cup {NoPod}]
        BY <2>1 DEF OnAdd
    <2>7. e = [ipToSrc |-> e.ipToSrc, podInfo |-> e.podInfo, pods |-> e.pods, synced |-> e.synced]
        BY <2>1 DEF OnAdd
    <2>8. e \in K8SData
        BY <2>2, <2>5, <2>6, <2>7
    <2> QED
        BY <1>1, <2>2, <2>3, <2>4, <2>8
<1>2. CASE n.kind = "update"
    BY <1>2, Handlers DEF OnUpdate
<1>3. CASE n.kind = "delete"
    <2>1. e = OnDelete(d, n.pod, n.ip)
        BY <1>3, Handlers
    <2>2. e.pods = d.pods - 1 /\ e.pods \in Nat /\ e.synced = d.synced
        BY <1>3, <2>1 DEF OnDelete
    <2>3. \A p \in Pods : e.podInfo[p] = d.podInfo[p]
        BY <2>1 DEF OnDelete
    <2>4. \A a \in IPs : e.ipToSrc[a] = IF n.ip = a THEN NoPod ELSE d.ipToSrc[a]
        BY <2>1, ConstantsAssumption DEF OnDelete
    <2>5. e.ipToSrc \in [Addresses -> Pods \cup {NoPod}] /\ e.podInfo = d.podInfo
        BY <2>1 DEF OnDelete
    <2>6. e = [ipToSrc |-> e.ipToSrc, podInfo |-> e.podInfo, pods |-> e.pods, synced |-> e.synced]
        BY <2>1 DEF OnDelete
    <2>7. e \in K8SData
        BY <2>2, <2>5, <2>6
    <2> QED
        BY <1>3, <2>2, <2>3, <2>4, <2>7
<1>4. CASE n.kind = "tombstone"
    BY <1>4, Handlers DEF OnTombstone
<1> QED
    BY <1>1, <1>2, <1>3, <1>4

-----------------------------------------------------------------------------
(* Lemmas about DeltaFIFO: what is pending for a pod, and the FIFO's order. *)

\* The kinds of delta, and where they lead.
LEMMA DeltaKinds ==
    ASSUME NEW d \in Deltas
    PROVE  /\ d.kind \in {"changed", "deleted", "tombstone"} /\ d.ip \in Addresses /\ d.ip # NoPod
           /\ After(d) \in Addresses \cup {NoPod}
           /\ d.kind = "changed" => After(d) = d.ip
           /\ d.kind # "changed" => After(d) = NoPod
BY ConstantsAssumption DEF Deltas, After, Addresses

\* A chain with one more delta that follows its end.
LEMMA ChainAppend ==
    ASSUME NEW p, NEW was, NEW gone, NEW q \in Seq(Deltas), NEW d \in Deltas,
           Chain(p, was, q, gone),
           Follows(p, IF q = << >> THEN was ELSE After(Last(q)), d, gone)
    PROVE  /\ Append(q, d) \in Seq(Deltas) /\ Append(q, d) # << >>
           /\ Chain(p, was, Append(q, d), gone)
           /\ Last(Append(q, d)) = d
<1> DEFINE s == Append(q, d)
<1>1. /\ s \in Seq(Deltas) /\ Len(s) = Len(q) + 1 /\ Len(q) \in Nat
      /\ s[Len(s)] = d /\ \A i \in 1..Len(q) : s[i] = q[i]
      /\ q = << >> <=> Len(q) = 0
    OBVIOUS
<1> HIDE DEF s
<1>2. ASSUME NEW i \in 1..Len(s)
      PROVE  Follows(p, Before(was, s, i), s[i], gone)
    <2>1. CASE i \in 1..Len(q)
        <3>1. Before(was, s, i) = Before(was, q, i)
            BY <1>1, <2>1 DEF Before
        <3> QED
            BY <1>1, <2>1, <3>1 DEF Chain
    <2>2. CASE i = Len(q) + 1
        <3>1. Before(was, s, i) = IF q = << >> THEN was ELSE After(Last(q))
            <4>1. CASE Len(q) = 0
                BY <1>1, <2>2, <4>1 DEF Before
            <4>2. CASE Len(q) # 0
                <5>1. i # 1 /\ i - 1 = Len(q) /\ s[i - 1] = q[Len(q)]
                    BY <1>1, <2>2, <4>2
                <5> QED
                    BY <1>1, <4>2, <5>1 DEF Before, Last
            <4> QED
                BY <4>1, <4>2
        <3> QED
            BY <1>1, <2>2, <3>1
    <2> QED
        BY <1>1, <2>1, <2>2
<1>3. s # << >> /\ Last(s) = d
    BY <1>1 DEF Last
<1> QED
    BY <1>1, <1>2, <1>3 DEF Chain, s

\* A chain without its first delta starts where that one leads, and ends alike.
LEMMA ChainTail ==
    ASSUME NEW p, NEW was, NEW gone, NEW q \in Seq(Deltas), q # << >>, Chain(p, was, q, gone)
    PROVE  /\ Head(q) \in Deltas /\ Tail(q) \in Seq(Deltas)
           /\ Follows(p, was, Head(q), gone)
           /\ Chain(p, After(Head(q)), Tail(q), gone)
           /\ Tail(q) = << >> => Last(q) = Head(q)
           /\ Tail(q) # << >> => Last(q) = Last(Tail(q))
<1> DEFINE s == Tail(q)
           d == Head(q)
<1>1. /\ d \in Deltas /\ s \in Seq(Deltas) /\ Len(q) = Len(s) + 1 /\ Len(s) \in Nat
      /\ q[1] = d /\ \A i \in 1..Len(s) : s[i] = q[i + 1]
    OBVIOUS
<1> HIDE DEF s, d
<1>5. s = << >> <=> Len(s) = 0
    BY <1>1
<1>2. Follows(p, was, d, gone)
    <2>1. 1 \in 1..Len(q) /\ Before(was, q, 1) = was
        BY <1>1 DEF Before
    <2> QED
        BY <1>1, <2>1 DEF Chain
<1>3. ASSUME NEW i \in 1..Len(s)
      PROVE  Follows(p, Before(After(d), s, i), s[i], gone)
    <2>1. i + 1 \in 1..Len(q) /\ i + 1 # 1 /\ (i + 1) - 1 = i
        BY <1>1
    <2>2. Follows(p, Before(was, q, i + 1), q[i + 1], gone)
        BY <2>1 DEF Chain
    <2>3. Before(was, q, i + 1) = After(q[i])
        BY <2>1 DEF Before
    <2>4. Before(After(d), s, i) = After(q[i])
        <3>1. CASE i = 1
            BY <1>1, <3>1 DEF Before
        <3>2. CASE i # 1
            <4>1. i - 1 \in 1..Len(s) /\ (i - 1) + 1 = i
                BY <1>1, <3>2
            <4> QED
                BY <1>1, <3>2, <4>1 DEF Before
        <3> QED
            BY <3>1, <3>2
    <2> QED
        BY <1>1, <2>2, <2>3, <2>4
<1>4. (s = << >> => Last(q) = d) /\ (s # << >> => Last(q) = Last(s))
    <2>1. CASE Len(s) = 0
        BY <1>1, <1>5, <2>1 DEF Last
    <2>2. CASE Len(s) # 0
        <3>1. Len(s) \in 1..Len(s)
            BY <1>1, <2>2
        <3> QED
            BY <1>1, <1>5, <2>2, <3>1 DEF Last
    <2> QED
        BY <2>1, <2>2
<1> QED
    BY <1>1, <1>2, <1>3, <1>4 DEF Chain, s, d

\* A chain is one also where more has been left.
LEMMA ChainMore ==
    ASSUME NEW p, NEW was, NEW q, NEW gone, NEW more, gone \subseteq more, Chain(p, was, q, gone)
    PROVE  Chain(p, was, q, more)
BY DEF Chain, Follows

\* What pods were told is what is stored, or what is pending leads to.
LEMMA ToldType ==
    ASSUME TypeOK, NEW p \in Pods
    PROVE  /\ deltas[p] \in Seq(Deltas) /\ store[p] \in Addresses \cup {NoPod}
           /\ api[p] \in Addresses \cup {NoPod} /\ Told(p) \in Addresses \cup {NoPod}
           /\ Told(p) = IF deltas[p] = << >> THEN store[p] ELSE After(Last(deltas[p]))
<1>1. /\ deltas[p] \in Seq(Deltas) /\ store[p] \in Addresses \cup {NoPod}
      /\ api[p] \in Addresses \cup {NoPod}
    BY DEF TypeOK
<1>2. Told(p) = IF deltas[p] = << >> THEN store[p] ELSE After(Last(deltas[p]))
    BY DEF Told
<1>3. ASSUME deltas[p] # << >>
      PROVE  After(Last(deltas[p])) \in Addresses \cup {NoPod}
    <2>1. Last(deltas[p]) \in Deltas
        BY <1>1, <1>3 DEF Last
    <2> QED
        BY <2>1, DeltaKinds
<1> QED
    BY <1>1, <1>2, <1>3

\* Two orders without a pod in common make an order.
LEMMA DistinctConcat ==
    ASSUME NEW T, NEW q \in Seq(T), NEW r \in Seq(T), Distinct(q), Distinct(r),
           \A i \in 1..Len(q), j \in 1..Len(r) : q[i] # r[j]
    PROVE  /\ q \o r \in Seq(T) /\ Distinct(q \o r)
           /\ \A i \in 1..Len(q \o r) :
                  \/ \E j \in 1..Len(q) : (q \o r)[i] = q[j]
                  \/ \E j \in 1..Len(r) : (q \o r)[i] = r[j]
<1> DEFINE s == q \o r
<1>1. /\ s \in Seq(T) /\ Len(s) = Len(q) + Len(r) /\ Len(q) \in Nat /\ Len(r) \in Nat
      /\ \A i \in 1..Len(q) : s[i] = q[i]
      /\ \A i \in 1..Len(s) : i > Len(q) => s[i] = r[i - Len(q)]
    OBVIOUS
<1> HIDE DEF s
<1>2. ASSUME NEW i \in 1..Len(s)
      PROVE  \/ i \in 1..Len(q) /\ s[i] = q[i]
             \/ i > Len(q) /\ i - Len(q) \in 1..Len(r) /\ s[i] = r[i - Len(q)]
    BY <1>1
<1>3. ASSUME NEW i \in 1..Len(s), NEW j \in 1..Len(s), s[i] = s[j]
      PROVE  i = j
    <2>1. CASE i \in 1..Len(q) /\ j \in 1..Len(q)
        BY <1>1, <1>3, <2>1 DEF Distinct
    <2>2. CASE i > Len(q) /\ j > Len(q)
        <3>1. i - Len(q) = j - Len(q)
            BY <1>2, <1>3, <2>2 DEF Distinct
        <3> QED
            BY <1>1, <3>1
    <2>3. CASE (i \in 1..Len(q)) # (j \in 1..Len(q))
        BY <1>1, <1>2, <1>3, <2>3
    <2> QED
        BY <1>1, <2>1, <2>2, <2>3
<1> QED
    BY <1>1, <1>2, <1>3 DEF Distinct, s

\* Pods in any order behind a queue that has none of them.
LEMMA OrderBehind ==
    ASSUME NEW q \in Seq(Pods), Distinct(q), NEW S \in SUBSET Pods, NEW order \in SetToSeqs(S),
           \A i \in 1..Len(q) : q[i] \notin S
    PROVE  /\ q \o order \in Seq(Pods) /\ Distinct(q \o order)
           /\ \A i \in 1..Len(q \o order) :
                  \/ \E j \in 1..Len(q) : (q \o order)[i] = q[j]
                  \/ (q \o order)[i] \in S
<1>1. IsFiniteSet(S)
    BY ConstantsAssumption, FS_Subset
<1>2. order \in Seq(S) /\ Distinct(order)
    BY <1>1, OrderOnto DEF Distinct
<1>3. order \in Seq(Pods) /\ \A j \in 1..Len(order) : order[j] \in S
    <2>1. \A j \in 1..Len(order) : order[j] \in S
        BY <1>2
    <2>2. order = [j \in 1..Len(order) |-> order[j]] /\ Len(order) \in Nat
        BY <1>2
    <2> QED
        BY <2>1, <2>2
<1>4. \A i \in 1..Len(q), j \in 1..Len(order) : q[i] # order[j]
    BY <1>3
<1>5. /\ q \o order \in Seq(Pods) /\ Distinct(q \o order)
      /\ \A i \in 1..Len(q \o order) :
             \/ \E j \in 1..Len(q) : (q \o order)[i] = q[j]
             \/ \E j \in 1..Len(order) : (q \o order)[i] = order[j]
    BY <1>2, <1>3, <1>4, DistinctConcat
<1> HIDE DEF Distinct
<1> QED
    BY <1>3, <1>5

\* Pods in any order behind the FIFO, if they had nothing pending and have now.
LEMMA FifoGrows ==
    ASSUME TypeOK, Keyed, NEW S \in SUBSET Idle, NEW order \in SetToSeqs(S), fifo' = fifo \o order,
           \A p \in Pods : p \in S \/ deltas[p] # << >> => deltas'[p] # << >>
    PROVE  fifo' \in Seq(Pods) /\ Keyed'
<1>1. S \in SUBSET Pods /\ \A p \in S : deltas[p] = << >>
    BY DEF Idle
<1>2. /\ fifo \in Seq(Pods) /\ Distinct(fifo)
      /\ \A i \in 1..Len(fifo) : fifo[i] \in Pods /\ deltas[fifo[i]] # << >>
    BY DEF TypeOK, Keyed
<1>3. \A i \in 1..Len(fifo) : fifo[i] \notin S
    BY <1>1, <1>2
<1>4. /\ fifo' \in Seq(Pods) /\ Distinct(fifo')
      /\ \A i \in 1..Len(fifo') : (\E j \in 1..Len(fifo) : fifo'[i] = fifo[j]) \/ fifo'[i] \in S
    BY <1>1, <1>2, <1>3, OrderBehind
<1>5. \A i \in 1..Len(fifo') : deltas'[fifo'[i]] # << >>
    BY <1>1, <1>2, <1>4
<1> QED
    BY <1>4, <1>5 DEF Keyed, Distinct

-----------------------------------------------------------------------------
(* Lemmas about what is still to come: more notifications keep what is     *)
(* promised of an address, a pod or the count, if they do not undo it.     *)

\* An address keeps leading to its pod behind notifications that do not undo
\* it, and comes to lead to it if one of them puts it there.
LEMMA LeadsOn ==
    ASSUME NEW x, NEW a, NEW p, NEW q \in Seq(Notices), NEW r \in Seq(Notices),
           \A i \in 1..Len(r) : ~Undoes(r[i], a, p),
           Leads(x, q, a, p) \/ \E i \in 1..Len(r) : Puts(r[i], a, p)
    PROVE  Leads(x, q \o r, a, p)
<1> DEFINE s == q \o r
<1>1. /\ Len(s) = Len(q) + Len(r) /\ Len(q) \in Nat /\ Len(r) \in Nat
      /\ \A i \in 1..Len(q) : s[i] = q[i]
      /\ \A i \in 1..Len(r) : s[Len(q) + i] = r[i]
    OBVIOUS
<1> HIDE DEF s
<1>2. \A j \in 1..Len(s) : j > Len(q) => ~Undoes(s[j], a, p)
    <2> SUFFICES ASSUME NEW j \in 1..Len(s), j > Len(q)
                 PROVE  ~Undoes(s[j], a, p)
        OBVIOUS
    <2>1. j - Len(q) \in 1..Len(r) /\ Len(q) + (j - Len(q)) = j
        BY <1>1
    <2> QED
        BY <1>1, <2>1
<1>3. CASE x[a] = p /\ \A i \in 1..Len(q) : ~Undoes(q[i], a, p)
    <2>1. \A j \in 1..Len(s) : ~Undoes(s[j], a, p)
        BY <1>1, <1>2, <1>3
    <2> QED
        BY <1>3, <2>1 DEF Leads, s
<1>4. ASSUME NEW i \in 1..Len(q), Puts(q[i], a, p),
             \A j \in 1..Len(q) : i < j => ~Undoes(q[j], a, p)
      PROVE  Leads(x, s, a, p)
    <2>1. i \in 1..Len(s) /\ Puts(s[i], a, p)
        BY <1>1, <1>4
    <2>2. \A j \in 1..Len(s) : i < j => ~Undoes(s[j], a, p)
        BY <1>1, <1>2, <1>4
    <2> QED
        BY <2>1, <2>2 DEF Leads
<1>5. ASSUME NEW i \in 1..Len(r), Puts(r[i], a, p)
      PROVE  Leads(x, s, a, p)
    <2>1. Len(q) + i \in 1..Len(s) /\ Puts(s[Len(q) + i], a, p)
        BY <1>1, <1>5
    <2>2. \A j \in 1..Len(s) : Len(q) + i < j => ~Undoes(s[j], a, p)
        BY <1>1, <1>2
    <2> QED
        BY <2>1, <2>2 DEF Leads
<1> QED
    BY <1>3, <1>4, <1>5 DEF Leads, s

\* Conversely what leads somewhere behind more notifications is put there by one
\* of them, or led there before and none of them undoes it.
LEMMA LeadsBack ==
    ASSUME NEW x, NEW a, NEW p, NEW q \in Seq(Notices), NEW r \in Seq(Notices),
           Leads(x, q \o r, a, p), \A i \in 1..Len(r) : ~Puts(r[i], a, p)
    PROVE  Leads(x, q, a, p) /\ \A i \in 1..Len(r) : ~Undoes(r[i], a, p)
<1> DEFINE s == q \o r
<1>1. /\ Len(s) = Len(q) + Len(r) /\ Len(q) \in Nat /\ Len(r) \in Nat
      /\ \A i \in 1..Len(q) : s[i] = q[i]
      /\ \A i \in 1..Len(r) : s[Len(q) + i] = r[i]
    OBVIOUS
<1> HIDE DEF s
<1>2. CASE x[a] = p /\ \A i \in 1..Len(s) : ~Undoes(s[i], a, p)
    <2>1. \A i \in 1..Len(q) : ~Undoes(q[i], a, p)
        BY <1>1, <1>2
    <2>2. ASSUME NEW i \in 1..Len(r) PROVE ~Undoes(r[i], a, p)
        <3>1. Len(q) + i \in 1..Len(s)
            BY <1>1
        <3> QED
            BY <1>1, <1>2, <3>1
    <2> QED
        BY <1>2, <2>1, <2>2 DEF Leads
<1>3. ASSUME NEW k \in 1..Len(s), Puts(s[k], a, p),
             \A j \in 1..Len(s) : k < j => ~Undoes(s[j], a, p)
      PROVE  Leads(x, q, a, p) /\ \A i \in 1..Len(r) : ~Undoes(r[i], a, p)
    <2>1. k <= Len(q)
        <3> SUFFICES ASSUME k > Len(q) PROVE FALSE
            BY <1>1
        <3>1. k - Len(q) \in 1..Len(r) /\ Len(q) + (k - Len(q)) = k
            BY <1>1
        <3>2. s[k] = r[k - Len(q)]
            BY <1>1, <3>1
        <3> QED
            BY <1>3, <3>1, <3>2
    <2>2. k \in 1..Len(q) /\ Puts(q[k], a, p)
        BY <1>1, <1>3, <2>1
    <2>3. \A j \in 1..Len(q) : k < j => ~Undoes(q[j], a, p)
        BY <1>1, <1>3
    <2>4. ASSUME NEW i \in 1..Len(r) PROVE ~Undoes(r[i], a, p)
        <3>1. Len(q) + i \in 1..Len(s) /\ k < Len(q) + i
            BY <1>1, <2>2
        <3> QED
            BY <1>1, <1>3, <3>1
    <2> QED
        BY <2>2, <2>3, <2>4 DEF Leads
<1> QED
    BY <1>2, <1>3 DEF Leads, s

\* The same of a pod's entry.
LEMMA EntersOn ==
    ASSUME NEW x, NEW p, NEW q \in Seq(Notices), NEW r \in Seq(Notices),
           Enters(x, q, p) \/ \E i \in 1..Len(r) : r[i].kind = "add" /\ r[i].pod = p
    PROVE  Enters(x, q \o r, p)
<1>1. ASSUME NEW i \in 1..Len(q), q[i].kind = "add", q[i].pod = p
      PROVE  Enters(x, q \o r, p)
    <2>1. i \in 1..Len(q \o r) /\ (q \o r)[i] = q[i]
        OBVIOUS
    <2> QED
        BY <1>1, <2>1 DEF Enters
<1>2. ASSUME NEW i \in 1..Len(r), r[i].kind = "add", r[i].pod = p
      PROVE  Enters(x, q \o r, p)
    <2>1. Len(q) + i \in 1..Len(q \o r) /\ (q \o r)[Len(q) + i] = r[i]
        OBVIOUS
    <2> QED
        BY <1>2, <2>1 DEF Enters
<1> QED
    BY <1>1, <1>2 DEF Enters

\* The live objects of a table are finitely many.
LEMMA LiveFinite ==
    ASSUME NEW objects
    PROVE  IsFiniteSet(Live(objects)) /\ Cardinality(Live(objects)) \in Nat
<1>1. Live(objects) \in SUBSET Pods
    BY DEF Live
<1>2. IsFiniteSet(Live(objects))
    BY <1>1, ConstantsAssumption, FS_Subset
<1> QED
    BY <1>2, FS_CardinalityType

\* A queue's notifications are its head and, one place further on, its tail's.
LEMMA TailOf ==
    ASSUME NEW queue_, NEW q, NEW n, Len(q) \in Nat, Len(queue_) = Len(q) + 1, queue_[1] = n,
           \A i \in 1..Len(q) : queue_[i + 1] = q[i],
           NEW j \in 1..Len(queue_)
    PROVE  \/ j = 1 /\ queue_[j] = n
           \/ j - 1 \in 1..Len(q) /\ queue_[j] = q[j - 1]
<1>1. CASE j # 1
    <2>1. j - 1 \in 1..Len(q) /\ (j - 1) + 1 = j
        BY <1>1
    <2> QED
        BY <2>1
<1> QED
    BY <1>1

\* Handling the first notification takes from the queue and gives to the fed
\* data; a deletion has something to subtract from.
LEMMA HandleFeeds ==
    ASSUME IInv, Handle
    PROVE  /\ queue \in Seq(Notices) /\ queue # << >> /\ queue' = Tail(queue)
           /\ \A k \in 0..Len(Tail(queue)) :
                  /\ Balance(queue, k + 1) = (IF Head(queue).kind = "add" THEN 1 ELSE 0)
                         - (IF Head(queue).kind = "delete" THEN 1 ELSE 0) + Balance(Tail(queue), k)
                  /\ Balance(Tail(queue), k) \in Int
                  /\ Fed.pods + Balance(queue, k + 1) >= 0
           /\ Fed' \in K8SData /\ data' = [data EXCEPT !["internal"] = Fed']
           /\ Fed'.pods = Fed.pods + (IF Head(queue).kind = "add" THEN 1 ELSE 0)
                                   - (IF Head(queue).kind = "delete" THEN 1 ELSE 0)
           /\ \A p \in Pods : Fed'.podInfo[p] =
                  IF Head(queue).kind = "add" /\ Head(queue).pod = p
                  THEN Head(queue).ip ELSE Fed.podInfo[p]
           /\ \A a \in IPs : Fed'.ipToSrc[a] =
                  IF Head(queue).ip = a /\ Head(queue).kind \in Stores THEN Head(queue).pod
                  ELSE IF Head(queue).ip = a /\ Head(queue).kind = "delete" THEN NoPod
                  ELSE Fed.ipToSrc[a]
<1> USE DEF Handle, watcher, cluster, informer
<1> DEFINE n == Head(queue)
           q == Tail(queue)
<1>1. TypeOK /\ queue \in Seq(Notices) /\ queue # << >> /\ handler = "internal"
    BY DEF IInv, TypeOK, Wired
<1>2. /\ n \in Notices /\ q \in Seq(Notices) /\ Len(queue) = Len(q) + 1 /\ Len(q) \in Nat
      /\ queue[1] = n /\ \A i \in 1..Len(q) : queue[i + 1] = q[i]
    BY <1>1
<1>3. Fed \in K8SData /\ Fed.pods \in Nat
    BY <1>1 DEF TypeOK, Fed, K8SData, DataObjects
<1>4. \A k \in 0..Len(q) :
          /\ Balance(queue, k + 1) = (IF n.kind = "add" THEN 1 ELSE 0)
                                        - (IF n.kind = "delete" THEN 1 ELSE 0) + Balance(q, k)
          /\ Balance(q, k) \in Int
          /\ Fed.pods + Balance(queue, k + 1) >= 0
    <2> SUFFICES ASSUME NEW k \in 0..Len(q)
                 PROVE  /\ Balance(queue, k + 1) = (IF n.kind = "add" THEN 1 ELSE 0)
                               - (IF n.kind = "delete" THEN 1 ELSE 0) + Balance(q, k)
                        /\ Balance(q, k) \in Int
                        /\ Fed.pods + Balance(queue, k + 1) >= 0
        OBVIOUS
    <2>1. k + 1 \in 0..Len(queue) /\ k \in Nat
        BY <1>2
    <2>2. Fed.pods + Balance(queue, k + 1) >= 0
        BY <2>1 DEF IInv, Promised, Balanced
    <2> QED
        BY <1>1, <2>1, <2>2, BalanceTail, BalanceType
<1>5. n.kind = "delete" => Fed.pods >= 1
    <2>1. Balance(q, 0) = 0 /\ 0 \in 0..Len(q)
        BY <1>2, BalanceType
    <2> QED
        BY <1>3, <1>4, <2>1
<1>6. queue' = q /\ Fed' = Handled(Fed, n) /\ data' = [data EXCEPT !["internal"] = Handled(Fed, n)]
    BY <1>1 DEF Fed, TypeOK, DataObjects
<1> HIDE DEF n, q
<1>7. /\ Fed' \in K8SData
      /\ Fed'.pods = Fed.pods + (IF n.kind = "add" THEN 1 ELSE 0)
                              - (IF n.kind = "delete" THEN 1 ELSE 0)
      /\ \A p \in Pods : Fed'.podInfo[p] =
             IF n.kind = "add" /\ n.pod = p THEN n.ip ELSE Fed.podInfo[p]
      /\ \A a \in IPs : Fed'.ipToSrc[a] =
             IF n.ip = a /\ n.kind \in Stores THEN n.pod
             ELSE IF n.ip = a /\ n.kind = "delete" THEN NoPod
             ELSE Fed.ipToSrc[a]
    BY <1>2, <1>3, <1>5, <1>6, HandledEffect
<1> QED
    BY <1>1, <1>4, <1>6, <1>7 DEF n, q

\* When the first notification has been handled, each address leads where it
\* would have led when it was still queued.
LEMMA LeadsHandled ==
    ASSUME NEW x, NEW y, NEW s \in Seq(Notices), s # << >>, NEW a \in IPs, NEW p \in Pods,
           y[a] = IF Head(s).ip = a /\ Head(s).kind \in Stores THEN Head(s).pod
                  ELSE IF Head(s).ip = a /\ Head(s).kind = "delete" THEN NoPod
                  ELSE x[a]
    PROVE  Leads(y, Tail(s), a, p) <=> Leads(x, s, a, p)
<1> DEFINE n == Head(s)
           q == Tail(s)
<1>1. /\ n \in Notices /\ q \in Seq(Notices) /\ Len(s) = Len(q) + 1 /\ Len(q) \in Nat
      /\ s[1] = n /\ \A i \in 1..Len(q) : s[i + 1] = q[i]
    OBVIOUS
<1>2. y[a] = IF n.ip = a /\ n.kind \in Stores THEN n.pod
             ELSE IF n.ip = a /\ n.kind = "delete" THEN NoPod ELSE x[a]
    OBVIOUS
<1> HIDE DEF n, q
<1>3. \A j \in 1..Len(s) : (j = 1 /\ s[j] = n) \/ (j - 1 \in 1..Len(q) /\ s[j] = q[j - 1])
    BY <1>1, TailOf
<1>4. ASSUME Leads(y, q, a, p)
      PROVE  Leads(x, s, a, p)
    <2>1. ASSUME \A i \in 1..Len(q) : ~Undoes(q[i], a, p), ~Undoes(n, a, p)
          PROVE  \A j \in 1..Len(s) : ~Undoes(s[j], a, p)
        BY <2>1, <1>3
    <2>2. CASE y[a] = p /\ \A i \in 1..Len(q) : ~Undoes(q[i], a, p)
        <3>1. Puts(n, a, p) \/ (x[a] = p /\ ~Undoes(n, a, p))
            BY <1>1, <1>2, <2>2, ConstantsAssumption DEF Puts, Undoes, Notices
        <3>2. CASE Puts(n, a, p)
            <4>1. 1 \in 1..Len(s) /\ Puts(s[1], a, p)
                BY <1>1, <3>2
            <4>2. \A j \in 1..Len(s) : 1 < j => ~Undoes(s[j], a, p)
                BY <2>2, <1>3
            <4> QED
                BY <4>1, <4>2 DEF Leads
        <3>3. CASE x[a] = p /\ ~Undoes(n, a, p)
            BY <2>1, <2>2, <3>3 DEF Leads
        <3> QED
            BY <3>1, <3>2, <3>3
    <2>3. ASSUME NEW i \in 1..Len(q), Puts(q[i], a, p),
                 \A j \in 1..Len(q) : i < j => ~Undoes(q[j], a, p)
          PROVE  Leads(x, s, a, p)
        <3>1. i + 1 \in 1..Len(s) /\ Puts(s[i + 1], a, p)
            BY <1>1, <2>3
        <3>2. ASSUME NEW j \in 1..Len(s), i + 1 < j PROVE ~Undoes(s[j], a, p)
            <4>1. j - 1 \in 1..Len(q) /\ i < j - 1 /\ s[j] = q[j - 1]
                BY <1>1, <1>3, <3>2
            <4> QED
                BY <2>3, <4>1
        <3> QED
            BY <3>1, <3>2 DEF Leads
    <2> QED
        BY <1>4, <2>2, <2>3 DEF Leads
<1>5. ASSUME Leads(x, s, a, p)
      PROVE  Leads(y, q, a, p)
    <2>1. CASE x[a] = p /\ \A i \in 1..Len(s) : ~Undoes(s[i], a, p)
        <3>1. ~Undoes(n, a, p) /\ \A i \in 1..Len(q) : ~Undoes(q[i], a, p)
            BY <1>1, <2>1
        <3>2. y[a] = p
            BY <1>2, <2>1, <3>1 DEF Undoes
        <3> QED
            BY <3>1, <3>2 DEF Leads
    <2>2. ASSUME NEW i \in 1..Len(s), Puts(s[i], a, p),
                 \A j \in 1..Len(s) : i < j => ~Undoes(s[j], a, p)
          PROVE  Leads(y, q, a, p)
        <3>1. CASE i = 1
            <4>1. \A j \in 1..Len(q) : ~Undoes(q[j], a, p)
                BY <1>1, <2>2, <3>1
            <4>2. y[a] = p
                BY <1>1, <1>2, <2>2, <3>1 DEF Puts
            <4> QED
                BY <4>1, <4>2 DEF Leads
        <3>2. CASE i # 1
            <4>1. i - 1 \in 1..Len(q) /\ q[i - 1] = s[i]
                <5>1. i - 1 \in 1..Len(q) /\ (i - 1) + 1 = i
                    BY <1>1, <3>2
                <5> QED
                    BY <1>1, <5>1
            <4>2. \A j \in 1..Len(q) : i - 1 < j => ~Undoes(q[j], a, p)
                BY <1>1, <2>2
            <4> QED
                BY <2>2, <4>1, <4>2 DEF Leads
        <3> QED
            BY <3>1, <3>2
    <2> QED
        BY <1>5, <2>1, <2>2 DEF Leads
<1> QED
    BY <1>4, <1>5 DEF n, q

-----------------------------------------------------------------------------
(* The invariant is inductive: Pop.                                        *)

\* How a delta is notified.
LEMMA NoticeIs ==
    ASSUME NEW p \in Pods, NEW d \in Deltas
    PROVE  LET n == Notice(p, d)
           IN  /\ n \in Notices /\ n.pod = p /\ n.ip = d.ip
               /\ d.kind = "changed" /\ store[p] = NoPod => n.kind = "add"
               /\ d.kind = "changed" /\ store[p] # NoPod => n.kind = "update"
               /\ d.kind = "deleted" => n.kind = "delete"
               /\ d.kind = "tombstone" => n.kind = "tombstone"
<1> DEFINE n == Notice(p, d)
<1>1. n.pod = p /\ n.ip = d.ip
    BY DEF Notice
<1>2. /\ d.kind = "changed" /\ store[p] = NoPod => n.kind = "add"
      /\ d.kind = "changed" /\ store[p] # NoPod => n.kind = "update"
      /\ d.kind = "deleted" => n.kind = "delete"
      /\ d.kind = "tombstone" => n.kind = "tombstone"
    BY DEF Notice
<1>3. n.kind \in Kinds
    BY <1>2 DEF Deltas, Kinds
<1>4. n = [kind |-> n.kind, pod |-> p, ip |-> d.ip]
    BY DEF Notice
<1>5. d.ip \in Addresses
    BY DEF Deltas
<1> HIDE DEF n
<1>6. n \in Notices
    BY <1>3, <1>4, <1>5 DEF Notices
<1> QED
    BY <1>1, <1>2, <1>6 DEF n

\* What Pop takes, and what it changes.
LEMMA PopTakes ==
    ASSUME IInv, PopDelta
    PROVE  \E p \in Pods, d \in Deltas :
               /\ fifo # << >> /\ p = Head(fifo)
               /\ deltas[p] # << >> /\ d = Head(deltas[p]) /\ Tail(deltas[p]) \in Seq(Deltas)
               /\ Follows(p, store[p], d, left)
               /\ deltas' = [deltas EXCEPT ![p] = Tail(deltas[p])]
               /\ fifo' = IF Tail(deltas[p]) = << >> THEN Tail(fifo) ELSE fifo
               /\ store' = [store EXCEPT ![p] = After(d)]
               /\ queue' = Append(queue, Notice(p, d))
               /\ contested' = Shared(store') \cup (contested \ {After(d)})
               /\ missed' = IF d.kind = "tombstone" THEN missed + 1 ELSE missed
               /\ popping' \in BOOLEAN /\ unpopped' \subseteq Pods
               /\ UNCHANGED <<api, writes, left, conn, lists, data, handler, current, phase, stopped>>
<1> DEFINE p == Head(fifo)
           d == Head(deltas[p])
<1>1. TypeOK /\ Keyed /\ Chained /\ fifo # << >> /\ fifo \in Seq(Pods)
    BY DEF IInv, TypeOK, Pending, PopDelta
<1>2. 1 \in 1..Len(fifo) /\ p = fifo[1] /\ p \in Pods
    BY <1>1
<1>3. deltas[p] # << >> /\ deltas[p] \in Seq(Deltas) /\ Chain(p, store[p], deltas[p], left)
    BY <1>1, <1>2 DEF Keyed, TypeOK, Chained
<1>4. /\ d \in Deltas /\ Tail(deltas[p]) \in Seq(Deltas)
      /\ Follows(p, store[p], d, left)
    BY <1>3, ChainTail
<1>5. /\ deltas' = [deltas EXCEPT ![p] = Tail(deltas[p])]
      /\ fifo' = IF Tail(deltas[p]) = << >> THEN Tail(fifo) ELSE fifo
      /\ store' = [store EXCEPT ![p] = After(d)]
      /\ queue' = Append(queue, Notice(p, d))
      /\ contested' = Shared(store') \cup (contested \ {After(d)})
      /\ missed' = IF d.kind = "tombstone" THEN missed + 1 ELSE missed
      /\ UNCHANGED <<api, writes, left, conn, lists, data, handler, current, phase, stopped>>
    BY DEF PopDelta, cluster, session, watcher
<1>6. popping' \in BOOLEAN /\ unpopped' \subseteq Pods
    BY <1>1 DEF PopDelta, TypeOK
<1> HIDE DEF p, d
<1> QED
    BY <1>1, <1>2, <1>3, <1>4, <1>5, <1>6 DEF p, d

\* A pod that Pop changes is stored as the delta says, the others as before.
LEMMA StoreTakes ==
    ASSUME TypeOK, NEW p \in Pods, NEW d \in Deltas, Follows(p, store[p], d, left),
           store' = [store EXCEPT ![p] = After(d)]
    PROVE  /\ store' \in [Pods -> Addresses \cup {NoPod}]
           /\ store'[p] = After(d) /\ \A q \in Pods : q # p => store'[q] = store[q]
           /\ d.kind = "changed" /\ store[p] = NoPod =>
                  Cardinality(Live(store')) = Cardinality(Live(store)) + 1
           /\ d.kind = "changed" /\ store[p] # NoPod => Live(store') = Live(store)
           /\ d.kind # "changed" =>
                  Cardinality(Live(store')) = Cardinality(Live(store)) - 1
<1>1. /\ After(d) \in Addresses \cup {NoPod} /\ d.ip # NoPod
      /\ d.kind = "changed" => After(d) = d.ip
      /\ d.kind # "changed" => After(d) = NoPod
    BY DeltaKinds
<1>2. /\ store \in [Pods -> Addresses \cup {NoPod}]
      /\ store' \in [Pods -> Addresses \cup {NoPod}]
      /\ store'[p] = After(d) /\ \A q \in Pods : q # p => store'[q] = store[q]
    BY <1>1 DEF TypeOK
<1>3. IsFiniteSet(Live(store)) /\ Cardinality(Live(store)) \in Nat
    BY LiveFinite
<1>4. CASE d.kind = "changed" /\ store[p] = NoPod
    <2>1. Live(store') = Live(store) \cup {p} /\ p \notin Live(store)
        BY <1>1, <1>2, <1>4 DEF Live
    <2> QED
        BY <1>2, <1>3, <1>4, <2>1, FS_AddElement
<1>5. CASE d.kind = "changed" /\ store[p] # NoPod
    <2>1. Live(store') = Live(store)
        BY <1>1, <1>2, <1>5 DEF Live
    <2> QED
        BY <1>2, <1>5, <2>1
<1>6. CASE d.kind # "changed"
    <2>1. Live(store') = Live(store) \ {p} /\ p \in Live(store)
        BY <1>1, <1>2, <1>6 DEF Live, Follows
    <2> QED
        BY <1>2, <1>3, <1>6, <2>1, FS_RemoveElement
<1> QED
    BY <1>2, <1>4, <1>5, <1>6

\* Pop takes the head of a chain: where what is pending leads stays the same.
LEMMA PopPending ==
    ASSUME IInv, PopDelta
    PROVE  fifo' \in Seq(Pods) /\ Pending'
<1>1. PICK p \in Pods, d \in Deltas :
          /\ fifo # << >> /\ p = Head(fifo)
          /\ deltas[p] # << >> /\ d = Head(deltas[p]) /\ Tail(deltas[p]) \in Seq(Deltas)
          /\ deltas' = [deltas EXCEPT ![p] = Tail(deltas[p])]
          /\ fifo' = IF Tail(deltas[p]) = << >> THEN Tail(fifo) ELSE fifo
          /\ store' = [store EXCEPT ![p] = After(d)]
          /\ UNCHANGED <<api, left, conn>>
    BY PopTakes
<1>2. TypeOK /\ Keyed /\ Mirror /\ Chained /\ Unseen
    BY DEF IInv, Pending
<1>3. /\ deltas \in [Pods -> Seq(Deltas)] /\ store \in [Pods -> Addresses \cup {NoPod}]
      /\ fifo \in Seq(Pods)
    BY <1>2 DEF TypeOK
<1>4. /\ deltas'[p] = Tail(deltas[p]) /\ store'[p] = After(d)
      /\ \A q \in Pods : q # p => deltas'[q] = deltas[q] /\ store'[q] = store[q]
    BY <1>1, <1>3
<1>5. /\ Chain(p, After(d), Tail(deltas[p]), left)
      /\ Tail(deltas[p]) = << >> => Last(deltas[p]) = d
      /\ Tail(deltas[p]) # << >> => Last(deltas[p]) = Last(Tail(deltas[p]))
    BY <1>1, <1>2, <1>3, ChainTail DEF Chained
<1>6. fifo' \in Seq(Pods) /\ Keyed'
    <2>1. CASE Tail(deltas[p]) = << >>
        <3>1. /\ fifo' = Tail(fifo) /\ fifo' \in Seq(Pods) /\ Len(fifo') = Len(fifo) - 1
              /\ fifo[1] = p /\ Len(fifo) \in Nat
              /\ \A i \in 1..Len(fifo') : fifo'[i] = fifo[i + 1] /\ i + 1 \in 1..Len(fifo)
            BY <1>1, <1>3, <2>1
        <3>2. ASSUME NEW i \in 1..Len(fifo')
              PROVE  deltas'[fifo'[i]] # << >>
            <4>1. i + 1 \in 1..Len(fifo) /\ i + 1 # 1 /\ 1 \in 1..Len(fifo)
                BY <3>1
            <4>2. fifo[i + 1] # p
                BY <1>2, <3>1, <4>1 DEF Keyed, Distinct
            <4>3. fifo[i + 1] \in Pods
                BY <1>3, <4>1
            <4>4. deltas[fifo[i + 1]] # << >>
                BY <1>2, <4>1 DEF Keyed
            <4> QED
                BY <1>4, <3>1, <4>2, <4>3, <4>4
        <3>3. ASSUME NEW i \in 1..Len(fifo'), NEW j \in 1..Len(fifo'), fifo'[i] = fifo'[j]
              PROVE  i = j
            <4>1. i + 1 = j + 1
                BY <1>2, <3>1, <3>3 DEF Keyed, Distinct
            <4> QED
                BY <3>1, <4>1
        <3> QED
            BY <3>1, <3>2, <3>3 DEF Keyed, Distinct
    <2>2. CASE Tail(deltas[p]) # << >>
        <3>1. fifo' = fifo
            BY <1>1, <2>2
        <3>2. ASSUME NEW i \in 1..Len(fifo)
              PROVE  deltas'[fifo[i]] # << >>
            <4>1. fifo[i] \in Pods /\ deltas[fifo[i]] # << >>
                BY <1>2, <1>3 DEF Keyed
            <4>2. CASE fifo[i] = p
                BY <1>4, <2>2, <4>2
            <4>3. CASE fifo[i] # p
                BY <1>4, <4>1, <4>3
            <4> QED
                BY <4>2, <4>3
        <3> QED
            BY <1>2, <1>3, <3>1, <3>2 DEF Keyed, Distinct
    <2> QED
        BY <2>1, <2>2
<1>7. ASSUME NEW q \in Pods
      PROVE  Told(q)' = Told(q)
    BY <1>1, <1>4, <1>5 DEF Told
<1>8. Mirror' /\ Unseen'
    BY <1>1, <1>2, <1>7 DEF Mirror, Unseen
<1>9. Chained'
    <2> SUFFICES ASSUME NEW q \in Pods
                 PROVE  Chain(q, store'[q], deltas'[q], left)
        BY <1>1 DEF Chained
    <2> QED
        BY <1>2, <1>4, <1>5 DEF Chained
<1> QED
    BY <1>6, <1>8, <1>9 DEF Pending

\* The notification of what Pop takes balances with the store, and keeps each
\* address that is not contested leading to its pod.
LEMMA PopPromised ==
    ASSUME IInv, PopDelta
    PROVE  queue' \in Seq(Notices) /\ missed' \in Nat /\ contested' \subseteq IPs /\ Promised'
<1>1. PICK p \in Pods, d \in Deltas :
          /\ Follows(p, store[p], d, left)
          /\ store' = [store EXCEPT ![p] = After(d)]
          /\ queue' = Append(queue, Notice(p, d))
          /\ contested' = Shared(store') \cup (contested \ {After(d)})
          /\ missed' = IF d.kind = "tombstone" THEN missed + 1 ELSE missed
          /\ UNCHANGED <<left, data>>
    BY PopTakes
<1> DEFINE n == Notice(p, d)
           r == <<n>>
<1>2. TypeOK /\ Promised
    BY DEF IInv
<1>3. /\ n \in Notices /\ n.pod = p /\ n.ip = d.ip
      /\ d.kind = "changed" /\ store[p] = NoPod => n.kind = "add"
      /\ d.kind = "changed" /\ store[p] # NoPod => n.kind = "update"
      /\ d.kind = "deleted" => n.kind = "delete"
      /\ d.kind = "tombstone" => n.kind = "tombstone"
    BY NoticeIs
<1> HIDE DEF n
<1>4. /\ queue \in Seq(Notices) /\ Len(queue) \in Nat /\ queue' = queue \o r /\ r \in Seq(Notices)
      /\ queue' \in Seq(Notices) /\ Len(r) = 1 /\ r[1] = n /\ Len(queue') = Len(queue) + 1
    BY <1>1, <1>2, <1>3 DEF TypeOK, n
<1>5. /\ d.kind \in {"changed", "deleted", "tombstone"} /\ d.ip # NoPod /\ d.ip \in Addresses
      /\ d.kind = "changed" => After(d) = d.ip
      /\ d.kind # "changed" => After(d) = NoPod
    BY DeltaKinds
<1>6. /\ store'[p] = After(d) /\ \A q \in Pods : q # p => store'[q] = store[q]
      /\ d.kind = "changed" /\ store[p] = NoPod =>
             Cardinality(Live(store')) = Cardinality(Live(store)) + 1
      /\ d.kind = "changed" /\ store[p] # NoPod => Live(store') = Live(store)
      /\ d.kind # "changed" => Cardinality(Live(store')) = Cardinality(Live(store)) - 1
    BY <1>1, <1>2, StoreTakes
<1>7. Fed' = Fed /\ Fed.pods \in Nat /\ missed \in Nat /\ missed' \in Nat
    BY <1>1, <1>2 DEF TypeOK, Fed, K8SData, DataObjects
<1>8. /\ Balance(queue', Len(queue) + 1) = Balance(queue, Len(queue)) + Balance(r, 1)
      /\ \A k \in 0..Len(queue) : Balance(queue', k) = Balance(queue, k)
      /\ Balance(queue, Len(queue)) \in Int
    <2> HIDE DEF r
    <2>1. 1 \in 0..Len(r)
        BY <1>4
    <2> QED
        BY <1>4, <2>1, BalanceConcat, BalanceType
<1>9. Balance(r, 1) = IF n.kind = "add" THEN 1 ELSE IF n.kind = "delete" THEN -1 ELSE 0
    BY <1>3, BalanceOne
<1>10. Cardinality(Live(store)) \in Nat /\ Cardinality(Live(store')) \in Nat
    BY LiveFinite
<1> HIDE DEF r
<1>11. Fed.pods + Balance(queue', Len(queue')) = Cardinality(Live(store')) + missed'
    <2> DEFINE known == Cardinality(Live(store))
               now == Cardinality(Live(store'))
               so == Balance(queue, Len(queue))
               more == Balance(r, 1)
    <2>1. Fed.pods + so = known + missed
        BY <1>2 DEF Promised, Exact
    <2>2. more = now + missed' - (known + missed)
        <3>1. CASE d.kind = "changed" /\ store[p] = NoPod
            BY <1>1, <1>3, <1>6, <1>7, <1>9, <1>10, <3>1
        <3>2. CASE d.kind = "changed" /\ store[p] # NoPod
            BY <1>1, <1>3, <1>6, <1>7, <1>9, <1>10, <3>2
        <3>3. CASE d.kind = "deleted"
            BY <1>1, <1>3, <1>6, <1>7, <1>9, <1>10, <3>3
        <3>4. CASE d.kind = "tombstone"
            BY <1>1, <1>3, <1>6, <1>7, <1>9, <1>10, <3>4
        <3> QED
            BY <1>5, <3>1, <3>2, <3>3, <3>4
    <2>3. Balance(queue', Len(queue')) = so + more
        BY <1>4, <1>8
    <2>4. so \in Int /\ known \in Nat /\ now \in Nat
        BY <1>8, <1>10
    <2> HIDE DEF known, now, so, more
    <2>5. Fed.pods + (so + more) = now + missed'
        BY <1>7, <2>1, <2>2, <2>4
    <2> QED
        BY <2>3, <2>5 DEF now
<1>12. Exact'
    BY <1>7, <1>11 DEF Exact, Live
<1>13. Balanced'
    <2> SUFFICES ASSUME NEW k \in 0..Len(queue')
                 PROVE  Fed.pods + Balance(queue', k) >= 0
        BY <1>7 DEF Balanced
    <2>1. CASE k \in 0..Len(queue)
        BY <1>2, <1>8, <2>1 DEF Promised, Balanced
    <2>2. CASE k = Len(queue')
        BY <1>7, <1>10, <1>11, <2>2
    <2> QED
        BY <1>4, <2>1, <2>2
<1>14. SharedContested' /\ contested' \subseteq IPs
    BY <1>1, <1>2 DEF SharedContested, Shared, TypeOK
<1>15. AddressesLead'
    <2> SUFFICES ASSUME NEW q \in Pods, store'[q] \in IPs, store'[q] \notin contested'
                 PROVE  Leads(Fed.ipToSrc, queue', store'[q], q)
        BY <1>7 DEF AddressesLead, Leads
    <2> DEFINE a == store'[q]
    <2>1. a # NoPod /\ a \notin Shared(store')
        BY <1>1, ConstantsAssumption
    <2>2. CASE q = p
        <3>1. d.kind = "changed" /\ n.ip = a /\ n.kind \in Stores
            BY <1>3, <1>5, <1>6, <2>1, <2>2 DEF Stores
        <3>2. \A i \in 1..Len(r) : Puts(r[i], a, q) /\ ~Undoes(r[i], a, q)
            BY <1>3, <1>4, <2>2, <3>1 DEF Puts, Undoes, Stores
        <3>3. \E i \in 1..Len(r) : Puts(r[i], a, q)
            BY <1>4, <3>2
        <3> HIDE DEF a
        <3> QED
            BY <1>4, <3>2, <3>3, LeadsOn DEF a
    <2>3. CASE q # p
        <3>1. store[q] = a
            BY <1>6, <2>3
        <3>2. After(d) # a
            BY <1>6, <2>1, <2>3 DEF Shared
        <3>3. a \notin contested
            BY <1>1, <3>2
        <3>4. Leads(Fed.ipToSrc, queue, a, q)
            BY <1>2, <3>1, <3>3 DEF Promised, AddressesLead
        <3>5. store[p] # a
            BY <1>2, <2>3, <3>1, <3>3 DEF Promised, SharedContested, Shared
        <3>6. ~Undoes(n, a, q)
            BY <1>1, <1>3, <1>5, <3>2, <3>5 DEF Undoes, Stores, Follows
        <3>7. \A i \in 1..Len(r) : ~Undoes(r[i], a, q)
            BY <1>4, <3>6
        <3> HIDE DEF a
        <3> QED
            BY <1>4, <3>4, <3>7, LeadsOn DEF a
    <2> QED
        BY <2>2, <2>3
<1>16. Explained'
    <2> SUFFICES ASSUME NEW q \in Pods, NEW a \in IPs, Leads(Fed.ipToSrc, queue', a, q)
                 PROVE  store'[q] = a \/ <<q, a>> \in left
        BY <1>1, <1>7 DEF Explained, Leads
    <2>1. CASE Puts(n, a, q)
        <3>1. q = p /\ d.ip = a /\ d.kind = "changed"
            BY <1>3, <1>5, <2>1 DEF Puts, Stores
        <3> QED
            BY <1>5, <1>6, <3>1
    <2>2. CASE ~Puts(n, a, q)
        <3>1. \A i \in 1..Len(r) : ~Puts(r[i], a, q)
            BY <1>4, <2>2
        <3>2. Leads(Fed.ipToSrc, queue, a, q) /\ \A i \in 1..Len(r) : ~Undoes(r[i], a, q)
            BY <1>4, <3>1, LeadsBack
        <3>3. ~Undoes(n, a, q)
            BY <1>4, <3>2
        <3>4. store[q] = a \/ <<q, a>> \in left
            BY <1>2, <3>2 DEF Promised, Explained
        <3>5. ASSUME q = p, store[p] = a, After(d) # a
              PROVE  <<p, a>> \in left
            <4>1. d.kind # "deleted"
                BY <1>1, <1>3, <3>3, <3>5 DEF Undoes, Follows
            <4> QED
                BY <1>1, <3>5, <4>1 DEF Follows
        <3> QED
            BY <1>6, <3>4, <3>5
    <2> QED
        BY <2>1, <2>2
<1>17. PodsEnter'
    <2> SUFFICES ASSUME NEW q \in Live(store')
                 PROVE  Enters(Fed.podInfo, queue', q)
        BY <1>7 DEF PodsEnter, Enters, Live
    <2>1. CASE q \in Live(store)
        <3>1. Enters(Fed.podInfo, queue, q)
            BY <1>2, <2>1 DEF Promised, PodsEnter
        <3> QED
            BY <1>4, <3>1, EntersOn
    <2>2. CASE q \notin Live(store)
        <3>1. q = p /\ store[p] = NoPod /\ d.kind = "changed"
            BY <1>5, <1>6, <2>2 DEF Live
        <3>2. \E i \in 1..Len(r) : r[i].kind = "add" /\ r[i].pod = q
            BY <1>3, <1>4, <3>1
        <3> QED
            BY <1>4, <3>2, EntersOn
    <2> QED
        BY <2>1, <2>2
<1> QED
    BY <1>4, <1>7, <1>12, <1>13, <1>14, <1>15, <1>16, <1>17 DEF Promised

\* Pop.
LEMMA PopStep ==
    ASSUME IInv, PopDelta
    PROVE  IInv'
<1>1. PICK p \in Pods, d \in Deltas :
          /\ fifo # << >>
          /\ Tail(deltas[p]) \in Seq(Deltas)
          /\ deltas' = [deltas EXCEPT ![p] = Tail(deltas[p])]
          /\ store' = [store EXCEPT ![p] = After(d)]
          /\ popping' \in BOOLEAN /\ unpopped' \subseteq Pods
          /\ UNCHANGED <<api, writes, left, conn, lists, data, handler, current, phase, stopped>>
    BY PopTakes
<1>2. fifo' \in Seq(Pods) /\ Pending'
    BY PopPending
<1>3. queue' \in Seq(Notices) /\ missed' \in Nat /\ contested' \subseteq IPs /\ Promised'
    BY PopPromised
<1>4. After(d) \in Addresses \cup {NoPod}
    BY DeltaKinds
<1>5. TypeOK'
    BY <1>1, <1>2, <1>3, <1>4 DEF IInv, TypeOK
<1>6. Wired'
    BY <1>1 DEF IInv, Wired
<1> QED
    BY <1>2, <1>3, <1>5, <1>6 DEF IInv

-----------------------------------------------------------------------------
(* The invariant is inductive: what leaves the handlers alone.             *)

\* Steps that neither notify nor handle keep what the handlers promise.
LEMMA Untouched ==
    ASSUME IInv, UNCHANGED <<store, queue, contested, missed>>, Fed' = Fed, left \subseteq left'
    PROVE  Promised'
<1>1. Promised
    BY DEF IInv
<1>2. Balanced' /\ Exact' /\ SharedContested' /\ PodsEnter'
    BY <1>1 DEF Promised, Balanced, Exact, SharedContested, Shared, PodsEnter, Live
<1>3. AddressesLead'
    BY <1>1 DEF Promised, AddressesLead, Leads
<1>4. Explained'
    BY <1>1 DEF Promised, Explained, Leads
<1> QED
    BY <1>2, <1>3, <1>4 DEF Promised

\* Nothing is pending, queued or known.
LEMMA InitIInv == Init => IInv
<1> SUFFICES ASSUME Init
             PROVE  IInv
    OBVIOUS
<1> USE DEF Init
<1>1. /\ Fed = EmptyData /\ queue = << >> /\ Len(queue) = 0 /\ Len(fifo) = 0
      /\ \A p \in Pods : store[p] = NoPod /\ deltas[p] = << >>
    BY DEF Fed, DataObjects
<1>2. EmptyData \in K8SData
    BY DEF EmptyData, K8SData
<1>3. TypeOK
    <2>1. data \in [DataObjects -> K8SData] /\ fifo \in Seq(Pods) /\ queue \in Seq(Notices)
        BY <1>2
    <2>2. deltas \in [Pods -> Seq(Deltas)] /\ store \in [Pods -> Addresses \cup {NoPod}]
        OBVIOUS
    <2>3. writes \in 0..MaxWrites /\ lists \in 0..MaxLists /\ missed \in Nat
        BY ConstantsAssumption
    <2>4. /\ api \in [Pods -> Addresses \cup {NoPod}] /\ left \subseteq Pods \X IPs
          /\ contested \subseteq IPs /\ unpopped \subseteq Pods
          /\ conn \in BOOLEAN /\ popping \in BOOLEAN /\ stopped \in BOOLEAN
          /\ handler \in {"none", "internal"} /\ current \in {"none", "kd"}
          /\ phase \in {"new", "running", "failed"}
        OBVIOUS
    <2> QED
        BY <2>1, <2>2, <2>3, <2>4 DEF TypeOK
<1>4. Wired
    BY DEF Wired
<1>5. Pending
    <2>1. Keyed /\ Mirror /\ Chained
        BY <1>1 DEF Keyed, Distinct, Mirror, Chained, Chain
    <2>2. Unseen
        BY <1>1, ConstantsAssumption DEF Unseen, Told
    <2> QED
        BY <2>1, <2>2 DEF Pending
<1>6. Live(store) = {} /\ Shared(store) = {}
    BY <1>1, ConstantsAssumption DEF Live, Shared
<1>7. Balanced /\ Exact
    <2>1. Balance(queue, 0) = 0 /\ Cardinality(Live(store)) = 0 /\ Fed.pods = 0
        BY <1>1, <1>6, BalanceType, FS_EmptySet DEF EmptyData
    <2> QED
        BY <1>1, <2>1 DEF Balanced, Exact
<1>8. SharedContested /\ AddressesLead /\ PodsEnter
    BY <1>1, <1>6, ConstantsAssumption DEF SharedContested, AddressesLead, PodsEnter
<1>9. Explained
    <2> SUFFICES ASSUME NEW p \in Pods, NEW a \in IPs, Leads(Fed.ipToSrc, queue, a, p)
                 PROVE  FALSE
        BY DEF Explained
    <2>1. Fed.ipToSrc[a] = NoPod
        BY <1>1 DEF EmptyData, Addresses
    <2> QED
        BY <1>1, <2>1, ConstantsAssumption DEF Leads
<1> QED
    BY <1>3, <1>4, <1>5, <1>7, <1>8, <1>9 DEF IInv, Promised

-----------------------------------------------------------------------------
(* The invariant is inductive: the cluster and the reflector.              *)

\* A pod changes: what the watch reports follows what the pod was told, or the
\* address it was told at has been left.
LEMMA PodChangesStep ==
    ASSUME IInv, NEW p \in Pods, NEW is \in Addresses \cup {NoPod}, PodChanges(p, is)
    PROVE  IInv'
<1> USE DEF PodChanges, session, indexer, watcher
<1> DEFINE d == Event(api[p], is)
<1>1. TypeOK /\ Keyed /\ Mirror /\ Chained /\ Unseen
    BY DEF IInv, Pending
<1>2. /\ api'[p] = is /\ \A q \in Pods : q # p => api'[q] = api[q]
      /\ left \subseteq left' /\ left' \in SUBSET (Pods \X IPs)
      /\ api' \in [Pods -> Addresses \cup {NoPod}] /\ writes' \in 0..MaxWrites
    <2>1. writes' \in 0..MaxWrites
        BY <1>1, ConstantsAssumption DEF TypeOK
    <2>2. /\ api' \in [Pods -> Addresses \cup {NoPod}]
          /\ api'[p] = is /\ \A q \in Pods : q # p => api'[q] = api[q]
        BY <1>1 DEF TypeOK
    <2>3. left \subseteq left' /\ left' \in SUBSET (Pods \X IPs)
        BY <1>1 DEF TypeOK
    <2> QED
        BY <2>1, <2>2, <2>3
<1>3. /\ UNCHANGED <<store, queue, contested, missed, data, conn, lists, popping, unpopped>>
      /\ UNCHANGED <<handler, current, phase, stopped>>
    OBVIOUS
<1>4. /\ d \in Deltas /\ After(d) = is
      /\ Follows(p, api[p], d, IF conn THEN left' ELSE {})
         \/ ~conn
    <2>1. api[p] \in Addresses \cup {NoPod} /\ (api[p] # NoPod \/ is # NoPod)
        BY <1>1 DEF TypeOK
    <2>2. CASE is = NoPod
        <3>1. d = [kind |-> "deleted", ip |-> api[p]] /\ api[p] \in Addresses
            BY <2>1, <2>2 DEF Event
        <3> QED
            BY <2>1, <2>2, <3>1 DEF Deltas, After, Follows
    <2>3. CASE is # NoPod
        <3>1. d = [kind |-> "changed", ip |-> is] /\ is \in Addresses
            BY <2>3 DEF Event
        <3> QED
            BY <2>1, <2>3, <3>1 DEF Deltas, After, Follows
    <2> QED
        BY <2>2, <2>3
<1> HIDE DEF d
<1>5. CASE conn
    <2>1. /\ deltas' = [deltas EXCEPT ![p] = Append(@, d)]
          /\ fifo' = IF p \in Idle THEN Append(fifo, p) ELSE fifo
        BY <1>5 DEF d
    <2>2. /\ deltas[p] \in Seq(Deltas) /\ Told(p) = api[p]
          /\ Told(p) = IF deltas[p] = << >> THEN store[p] ELSE After(Last(deltas[p]))
        BY <1>1, <1>5, ToldType DEF Mirror
    <2>3. Chain(p, store[p], deltas[p], left')
        BY <1>1, <1>2, ChainMore DEF Chained
    <2>4. /\ Append(deltas[p], d) \in Seq(Deltas) /\ Append(deltas[p], d) # << >>
          /\ Chain(p, store[p], Append(deltas[p], d), left')
          /\ Last(Append(deltas[p], d)) = d
        BY <1>4, <1>5, <2>2, <2>3, ChainAppend
    <2>5. /\ deltas'[p] = Append(deltas[p], d)
          /\ \A q \in Pods : q # p => deltas'[q] = deltas[q]
          /\ deltas' \in [Pods -> Seq(Deltas)]
        BY <1>1, <2>1, <2>4 DEF TypeOK
    <2>6. /\ Told(p)' = is
          /\ \A q \in Pods : q # p => Told(q)' = Told(q)
        BY <1>3, <1>4, <2>4, <2>5 DEF Told
    <2>7. Mirror' /\ Unseen'
        BY <1>1, <1>2, <1>5, <2>6 DEF Mirror, Unseen
    <2>8. Chained'
        <3> SUFFICES ASSUME NEW q \in Pods
                     PROVE  Chain(q, store[q], deltas'[q], left')
            BY <1>3 DEF Chained
        <3>1. Chain(q, store[q], deltas[q], left')
            BY <1>1, <1>2, ChainMore DEF Chained
        <3> QED
            BY <2>4, <2>5, <3>1
    <2>9. fifo' \in Seq(Pods) /\ Keyed'
        <3>1. \A q \in Pods : deltas[q] # << >> => deltas'[q] # << >>
            BY <2>4, <2>5
        <3>2. fifo \in Seq(Pods)
            BY <1>1 DEF TypeOK
        <3>3. CASE p \notin Idle
            BY <1>1, <2>1, <3>1, <3>2, <3>3 DEF Keyed, Distinct
        <3>4. CASE p \in Idle
            <4>1. <<p>> \in SetToSeqs({p}) /\ {p} \in SUBSET Idle
                <5>1. Cardinality({p}) = 1
                    BY FS_Singleton
                <5>2. <<p>> = [i \in 1..1 |-> p] /\ \A i, j \in 1..1 : i = j
                    OBVIOUS
                <5>3. <<p>> \in [1..1 -> {p}]
                    BY <5>2
                <5> QED
                    BY <3>4, <5>1, <5>2, <5>3 DEF SetToSeqs
            <4>2. fifo' = fifo \o <<p>>
                BY <2>1, <3>2, <3>4
            <4>3. \A q \in Pods : q \in {p} \/ deltas[q] # << >> => deltas'[q] # << >>
                BY <2>4, <2>5, <3>1
            <4> QED
                BY <1>1, <4>1, <4>2, <4>3, FifoGrows
        <3> QED
            BY <3>3, <3>4
    <2>10. TypeOK'
        BY <1>1, <1>2, <1>3, <2>5, <2>9 DEF TypeOK
    <2>11. Wired'
        BY <1>3, <1>5 DEF IInv, Wired
    <2>12. Promised'
        BY <1>2, <1>3, Untouched DEF Fed
    <2> QED
        BY <2>7, <2>8, <2>9, <2>10, <2>11, <2>12 DEF IInv, Pending
<1>6. CASE ~conn
    <2>1. UNCHANGED <<deltas, fifo>>
        BY <1>6
    <2>2. \A q \in Pods : Told(q)' = Told(q)
        BY <1>3, <2>1 DEF Told
    <2>3. Mirror' /\ Keyed'
        BY <1>1, <1>3, <1>6, <2>1 DEF Mirror, Keyed, Distinct
    <2>4. Unseen'
        <3> SUFFICES ASSUME NEW q \in Pods, Told(q) \in IPs, api'[q] # Told(q)
                     PROVE  <<q, Told(q)>> \in left'
            BY <2>2 DEF Unseen
        <3>1. CASE api[q] # Told(q)
            BY <1>1, <1>2, <3>1 DEF Unseen
        <3>2. CASE api[q] = Told(q)
            <4>1. q = p /\ api[p] \in IPs /\ api[p] # is
                BY <1>2, <3>2
            <4> QED
                BY <1>6, <3>2, <4>1
        <3> QED
            BY <3>1, <3>2
    <2>5. Chained'
        BY <1>1, <1>2, <1>3, <2>1, ChainMore DEF Chained
    <2>6. TypeOK'
        BY <1>1, <1>2, <1>3, <2>1 DEF TypeOK
    <2>7. Wired'
        BY <1>3, <1>6, <2>1 DEF IInv, Wired
    <2>8. Promised'
        BY <1>2, <1>3, Untouched DEF Fed
    <2> QED
        BY <2>3, <2>4, <2>5, <2>6, <2>7, <2>8 DEF IInv, Pending
<1> QED
    BY <1>5, <1>6

\* What Replace leaves pending for a pod leads to the API server's state.
LEMMA ReplacedIs ==
    ASSUME TypeOK, Chained, Unseen, NEW p \in Pods
    PROVE  /\ Replaced(p) \in Seq(Deltas) /\ Chain(p, store[p], Replaced(p), left)
           /\ deltas[p] # << >> \/ api[p] # NoPod \/ store[p] # NoPod => Replaced(p) # << >>
           /\ (IF Replaced(p) = << >> THEN store[p] ELSE After(Last(Replaced(p)))) = api[p]
<1>1. /\ deltas[p] \in Seq(Deltas) /\ store[p] \in Addresses \cup {NoPod}
      /\ api[p] \in Addresses \cup {NoPod} /\ Told(p) \in Addresses \cup {NoPod}
      /\ Told(p) = IF deltas[p] = << >> THEN store[p] ELSE After(Last(deltas[p]))
    BY ToldType
<1>2. Chain(p, store[p], deltas[p], left)
    BY DEF Chained
<1>3. Told(p) \in IPs /\ api[p] # Told(p) => <<p, Told(p)>> \in left
    BY DEF Unseen
<1>4. ASSUME NEW d \in Deltas, Follows(p, Told(p), d, left), After(d) = api[p],
             Replaced(p) = Append(deltas[p], d)
      PROVE  /\ Replaced(p) \in Seq(Deltas) /\ Chain(p, store[p], Replaced(p), left)
             /\ Replaced(p) # << >> /\ After(Last(Replaced(p))) = api[p]
    BY <1>1, <1>2, <1>4, ChainAppend
<1>5. CASE api[p] # NoPod
    <2> DEFINE d == [kind |-> "changed", ip |-> api[p]]
    <2>1. Replaced(p) = Append(deltas[p], d)
        BY <1>5 DEF Replaced
    <2>2. d \in Deltas /\ After(d) = api[p] /\ d.kind = "changed"
        BY <1>1, <1>5 DEF Deltas, After
    <2>3. Follows(p, Told(p), d, left)
        BY <1>3, <2>2 DEF Follows
    <2> HIDE DEF d
    <2> QED
        BY <1>4, <2>1, <2>2, <2>3
<1>6. CASE api[p] = NoPod /\ Told(p) # NoPod
    <2> DEFINE d == [kind |-> "tombstone", ip |-> Told(p)]
    <2>1. Replaced(p) = Append(deltas[p], d)
        BY <1>6 DEF Replaced
    <2>2. d \in Deltas /\ After(d) = api[p] /\ d.kind = "tombstone" /\ d.ip = Told(p)
        BY <1>1, <1>6 DEF Deltas, After
    <2>3. Follows(p, Told(p), d, left)
        BY <1>3, <1>6, <2>2 DEF Follows
    <2> HIDE DEF d
    <2> QED
        BY <1>4, <2>1, <2>2, <2>3
<1>7. CASE api[p] = NoPod /\ Told(p) = NoPod
    <2>1. Replaced(p) = deltas[p]
        BY <1>7 DEF Replaced
    <2> QED
        BY <1>1, <1>2, <1>7, <2>1
<1> QED
    BY <1>5, <1>6, <1>7

\* A list puts pods behind the FIFO that had nothing pending, and each one once.
LEMMA RelistStep ==
    ASSUME IInv, Relist
    PROVE  IInv'
<1> USE DEF Relist, cluster, indexer, watcher
<1>1. TypeOK /\ Keyed /\ Chained /\ Unseen
    BY DEF IInv, Pending
<1>2. /\ UNCHANGED <<api, writes, left, store, contested, missed, queue, data, popping>>
      /\ UNCHANGED <<handler, current, phase, stopped>>
      /\ phase = "running" /\ conn' \in BOOLEAN
    OBVIOUS
<1>3. lists' \in 0..MaxLists
    BY <1>1, ConstantsAssumption DEF TypeOK
<1>4. unpopped' \in SUBSET Pods
    BY <1>1 DEF TypeOK, Live
<1>5. deltas' = [p \in Pods |-> Replaced(p)]
    OBVIOUS
<1>6. PICK listed \in SetToSeqs(Listed), gone \in SetToSeqs(Gone) : fifo' = fifo \o listed \o gone
    OBVIOUS
<1> HIDE DEF Relist, cluster, indexer, watcher
<1>7. /\ deltas' \in [Pods -> Seq(Deltas)]
      /\ \A p \in Pods : Chain(p, store[p], deltas'[p], left)
      /\ \A p \in Pods : deltas[p] # << >> \/ api[p] # NoPod \/ store[p] # NoPod
                             => deltas'[p] # << >>
      /\ \A p \in Pods : Told(p)' = api[p]
    BY <1>1, <1>2, <1>5, ReplacedIs DEF Told
<1>8. Mirror' /\ Unseen' /\ Chained'
    BY <1>2, <1>7 DEF Mirror, Unseen, Chained
<1>9. fifo' \in Seq(Pods) /\ Keyed'
    <2>1. /\ fifo \in Seq(Pods) /\ Distinct(fifo)
          /\ \A i \in 1..Len(fifo) : fifo[i] \in Pods /\ deltas[fifo[i]] # << >>
        BY <1>1 DEF TypeOK, Keyed
    <2>2. /\ Listed \in SUBSET Pods /\ Gone \in SUBSET Pods
          /\ \A p \in Listed : deltas[p] = << >> /\ api[p] # NoPod
          /\ \A p \in Gone : deltas[p] = << >> /\ api[p] = NoPod /\ store[p] # NoPod
        BY DEF Listed, Gone, Idle
    <2>3. /\ fifo \o listed \in Seq(Pods) /\ Distinct(fifo \o listed)
          /\ \A i \in 1..Len(fifo \o listed) :
                 (fifo \o listed)[i] \in Listed \/ deltas[(fifo \o listed)[i]] # << >>
        <3>1. \A i \in 1..Len(fifo) : fifo[i] \notin Listed
            BY <2>1, <2>2
        <3> HIDE DEF Distinct
        <3>2. /\ fifo \o listed \in Seq(Pods) /\ Distinct(fifo \o listed)
              /\ \A i \in 1..Len(fifo \o listed) :
                     \/ \E j \in 1..Len(fifo) : (fifo \o listed)[i] = fifo[j]
                     \/ (fifo \o listed)[i] \in Listed
            BY <2>1, <2>2, <3>1, OrderBehind
        <3> QED
            BY <2>1, <3>2
    <2>4. /\ fifo' \in Seq(Pods) /\ Distinct(fifo')
          /\ \A i \in 1..Len(fifo') :
                 \/ fifo'[i] \in Gone
                 \/ fifo'[i] \in Listed
                 \/ deltas[fifo'[i]] # << >>
        <3> DEFINE q == fifo \o listed
        <3>1. q \in Seq(Pods) /\ Distinct(q) /\ fifo' = q \o gone
            BY <1>6, <2>3
        <3>2. \A i \in 1..Len(q) : q[i] \in Listed \/ deltas[q[i]] # << >>
            BY <2>3
        <3>3. \A i \in 1..Len(q) : q[i] \notin Gone
            BY <2>2, <3>2
        <3> HIDE DEF q
        <3> QED
            BY <2>2, <3>1, <3>2, <3>3, OrderBehind
    <2>5. ASSUME NEW i \in 1..Len(fifo')
          PROVE  deltas'[fifo'[i]] # << >>
        <3>1. fifo'[i] \in Pods
            BY <2>4
        <3>2. deltas[fifo'[i]] # << >> \/ api[fifo'[i]] # NoPod \/ store[fifo'[i]] # NoPod
            BY <2>2, <2>4
        <3> QED
            BY <1>7, <3>1, <3>2
    <2> QED
        BY <2>4, <2>5 DEF Keyed, Distinct
<1>10. TypeOK'
    BY <1>1, <1>2, <1>3, <1>4, <1>7, <1>9 DEF TypeOK
<1>11. Wired'
    BY <1>2 DEF IInv, Wired
<1>12. Promised'
    BY <1>2, Untouched DEF Fed
<1> QED
    BY <1>8, <1>9, <1>10, <1>11, <1>12 DEF IInv, Pending

\* A resync tells of pods what is stored.
LEMMA ResyncStep ==
    ASSUME IInv, Resync
    PROVE  IInv'
<1> USE DEF Resync, cluster, session, indexer, watcher
<1>1. TypeOK /\ Keyed /\ Mirror /\ Chained /\ Unseen
    BY DEF IInv, Pending
<1>2. /\ UNCHANGED <<api, writes, left, store, contested, missed, queue, data, popping, unpopped>>
      /\ UNCHANGED <<conn, lists, handler, current, phase, stopped>> /\ conn
    OBVIOUS
<1>3. deltas' = [p \in Pods |-> IF p \in Resynced
                                THEN <<[kind |-> "changed", ip |-> store[p]]>>
                                ELSE deltas[p]]
    OBVIOUS
<1>4. PICK order \in SetToSeqs(Resynced) : fifo' = fifo \o order
    OBVIOUS
<1> HIDE DEF Resync, cluster, session, indexer, watcher
<1>5. Resynced \in SUBSET Idle /\ Resynced \in SUBSET Pods
    BY DEF Resynced, Idle
<1>6. ASSUME NEW p \in Resynced
      PROVE  /\ deltas'[p] \in Seq(Deltas) /\ deltas'[p] # << >>
             /\ Chain(p, store[p], deltas'[p], left) /\ Told(p)' = Told(p)
    <2> DEFINE d == [kind |-> "changed", ip |-> store[p]]
    <2>1. /\ p \in Pods /\ deltas[p] = << >> /\ store[p] # NoPod
          /\ store[p] \in Addresses \cup {NoPod}
        BY <1>1, <1>5 DEF Resynced, Idle, TypeOK
    <2>2. d \in Deltas /\ After(d) = store[p] /\ d.kind = "changed"
        BY <2>1 DEF Deltas, After
    <2>3. deltas'[p] = <<d>> /\ <<d>> = Append(deltas[p], d)
        BY <1>3, <2>1
    <2>4. Chain(p, store[p], deltas[p], left) /\ deltas[p] \in Seq(Deltas)
        BY <1>1, <2>1 DEF Chained, TypeOK
    <2>5. Follows(p, IF deltas[p] = << >> THEN store[p] ELSE After(Last(deltas[p])), d, left)
        BY <2>1, <2>2 DEF Follows
    <2> HIDE DEF d
    <2>6. /\ deltas'[p] \in Seq(Deltas) /\ deltas'[p] # << >>
          /\ Chain(p, store[p], deltas'[p], left) /\ Last(deltas'[p]) = d
        <3> DEFINE s == Append(deltas[p], d)
        <3>1. s \in Seq(Deltas) /\ s # << >> /\ Chain(p, store[p], s, left) /\ Last(s) = d
            BY <2>2, <2>4, <2>5, ChainAppend
        <3>2. deltas'[p] = s
            BY <2>3
        <3> HIDE DEF s
        <3> QED
            BY <3>1, <3>2
    <2>7. Told(p)' = Told(p)
        BY <1>2, <2>1, <2>2, <2>6 DEF Told
    <2> QED
        BY <2>6, <2>7
<1>7. ASSUME NEW p \in Pods, p \notin Resynced
      PROVE  deltas'[p] = deltas[p] /\ Told(p)' = Told(p)
    BY <1>2, <1>3, <1>7 DEF Told
<1>8. deltas' \in [Pods -> Seq(Deltas)]
    <2>1. \A p \in Pods : deltas'[p] \in Seq(Deltas)
        BY <1>1, <1>6, <1>7 DEF TypeOK
    <2>2. DOMAIN deltas' = Pods /\ deltas' = [p \in Pods |-> deltas'[p]]
        BY <1>3
    <2> QED
        BY <2>1, <2>2
<1>9. Mirror' /\ Unseen'
    BY <1>1, <1>2, <1>6, <1>7 DEF Mirror, Unseen
<1>10. Chained'
    BY <1>1, <1>2, <1>6, <1>7 DEF Chained
<1>11. fifo' \in Seq(Pods) /\ Keyed'
    <2>1. \A p \in Pods : p \in Resynced \/ deltas[p] # << >> => deltas'[p] # << >>
        BY <1>6, <1>7
    <2> QED
        BY <1>1, <1>4, <1>5, <2>1, FifoGrows
<1>12. TypeOK'
    BY <1>1, <1>2, <1>8, <1>11 DEF TypeOK
<1>13. Wired'
    BY <1>2 DEF IInv, Wired
<1>14. Promised'
    BY <1>2, Untouched DEF Fed
<1> QED
    BY <1>9, <1>10, <1>11, <1>12, <1>13, <1>14 DEF IInv, Pending

\* The steps of the watcher, and a broken watch, change neither what is pending
\* nor what is queued or fed.
LEMMA OtherSteps ==
    ASSUME IInv, Disconnect \/ Start \/ StartFails \/ WaitForInit \/ CloseStop
    PROVE  IInv'
<1> USE DEF Disconnect, Start, StartFails, WaitForInit, CloseStop,
            cluster, session, fifoVars, indexer, watcher, informer
<1>1. TypeOK /\ Wired
    BY DEF IInv
<1>2. /\ UNCHANGED <<api, writes, left, fifo, deltas, popping, unpopped>>
      /\ UNCHANGED <<store, contested, missed, queue>>
    OBVIOUS
<1>3. conn' => conn
    OBVIOUS
<1>4. Fed' = Fed /\ data' \in [DataObjects -> K8SData]
    <2>1. CASE WaitForInit
        <3>1. current = "kd" /\ data' = [data EXCEPT !["kd"].synced = TRUE]
            BY <1>1, <2>1 DEF Wired
        <3>2. data["kd"] \in K8SData
            BY <1>1 DEF TypeOK, DataObjects
        <3>3. [data["kd"] EXCEPT !.synced = TRUE] \in K8SData
            BY <3>2 DEF K8SData
        <3> QED
            BY <1>1, <3>1, <3>3 DEF TypeOK, Fed, DataObjects
    <2>2. CASE ~WaitForInit
        BY <1>1, <2>2 DEF TypeOK, Fed
    <2> QED
        BY <2>1, <2>2
<1>5. TypeOK'
    BY <1>1, <1>2, <1>4 DEF TypeOK
<1>6. Wired'
    BY <1>1, <1>2, <1>3 DEF Wired
<1> HIDE DEF Disconnect, Start, StartFails, WaitForInit, CloseStop,
             cluster, session, fifoVars, indexer, watcher, informer
<1>7. Pending'
    <2>1. \A p \in Pods : Told(p)' = Told(p)
        BY <1>2 DEF Told
    <2> QED
        BY <1>2, <1>3, <2>1 DEF IInv, Pending, Keyed, Distinct, Mirror, Chained, Unseen
<1>8. Promised'
    BY <1>2, <1>4, Untouched
<1> QED
    BY <1>5, <1>6, <1>7, <1>8 DEF IInv

-----------------------------------------------------------------------------
(* The invariant is inductive: the handlers.                               *)

\* Handling the first notification.  What it adds or subtracts moves from the
\* queue's balance to the count; the address it stores leads to its pod.
LEMMA HandleStep ==
    ASSUME IInv, Handle
    PROVE  IInv'
<1> USE DEF Handle, watcher, cluster, session, fifoVars, indexer
<1> DEFINE n == Head(queue)
           q == Tail(queue)
<1>1. TypeOK /\ queue \in Seq(Notices) /\ queue # << >> /\ queue' = q
    BY HandleFeeds DEF IInv
<1>2. /\ n \in Notices /\ q \in Seq(Notices) /\ Len(queue) = Len(q) + 1 /\ Len(q) \in Nat
      /\ queue[1] = n /\ \A i \in 1..Len(q) : queue[i + 1] = q[i]
    BY <1>1
<1>3. Fed \in K8SData /\ Fed.pods \in Nat
    BY <1>1 DEF TypeOK, Fed, K8SData, DataObjects
<1>4. \A k \in 0..Len(q) :
          /\ Balance(queue, k + 1) = (IF n.kind = "add" THEN 1 ELSE 0)
                                        - (IF n.kind = "delete" THEN 1 ELSE 0) + Balance(q, k)
          /\ Balance(q, k) \in Int
          /\ Fed.pods + Balance(queue, k + 1) >= 0
    BY HandleFeeds
<1>5. /\ Fed' \in K8SData /\ data' = [data EXCEPT !["internal"] = Fed']
      /\ Fed'.pods = Fed.pods + (IF n.kind = "add" THEN 1 ELSE 0)
                              - (IF n.kind = "delete" THEN 1 ELSE 0)
      /\ \A p \in Pods : Fed'.podInfo[p] =
             IF n.kind = "add" /\ n.pod = p THEN n.ip ELSE Fed.podInfo[p]
      /\ \A a \in IPs : Fed'.ipToSrc[a] =
             IF n.ip = a /\ n.kind \in Stores THEN n.pod
             ELSE IF n.ip = a /\ n.kind = "delete" THEN NoPod
             ELSE Fed.ipToSrc[a]
    BY HandleFeeds
<1> HIDE DEF n, q
<1>6. TypeOK'
    <2>1. data' \in [DataObjects -> K8SData]
        BY <1>1, <1>5 DEF TypeOK
    <2> QED
        BY <1>1, <1>2, <2>1 DEF TypeOK
<1>7. Wired'
    BY <1>1 DEF IInv, Wired
<1>8. /\ queue' = q /\ UNCHANGED <<store, left, missed, contested, api, conn, fifo, deltas>>
    BY <1>1
<1> HIDE DEF Handle, watcher, cluster, session, fifoVars, indexer
<1>9. Balanced'
    <2> SUFFICES ASSUME NEW k \in 0..Len(q)
                 PROVE  Fed'.pods + Balance(q, k) >= 0
        BY <1>1 DEF Balanced
    <2> QED
        BY <1>3, <1>4, <1>5
<1>10. Exact'
    <2>1. Fed'.pods + Balance(q, Len(q)) = Fed.pods + Balance(queue, Len(queue))
        BY <1>2, <1>3, <1>4, <1>5
    <2>2. Fed'.pods + Balance(q, Len(q)) = Cardinality(Live(store)) + missed
        BY <2>1 DEF IInv, Promised, Exact
    <2> QED
        BY <1>8, <2>2 DEF Exact, Live
<1>11. \A p \in Pods, a \in IPs :
           Leads(Fed'.ipToSrc, queue', a, p) <=> Leads(Fed.ipToSrc, queue, a, p)
    BY <1>1, <1>5, LeadsHandled DEF n, q
<1>12. Explained' /\ AddressesLead'
    <2>1. Explained'
        BY <1>11, <1>8 DEF IInv, Promised, Explained
    <2>2. AddressesLead'
        BY <1>11, <1>8 DEF IInv, Promised, AddressesLead
    <2> QED
        BY <2>1, <2>2
<1>13. PodsEnter'
    <2> SUFFICES ASSUME NEW p \in Live(store)
                 PROVE  Enters(Fed'.podInfo, q, p)
        BY <1>8 DEF PodsEnter, Enters, Live
    <2>1. Enters(Fed.podInfo, queue, p) /\ p \in Pods
        BY DEF IInv, Promised, PodsEnter, Live
    <2>2. n.ip # NoPod
        BY <1>2, ConstantsAssumption DEF Notices, Addresses
    <2>3. CASE Fed.podInfo[p] # NoPod
        BY <1>5, <2>1, <2>2, <2>3 DEF Enters
    <2>4. ASSUME NEW i \in 1..Len(queue), queue[i].kind = "add", queue[i].pod = p
          PROVE  Enters(Fed'.podInfo, q, p)
        <3>1. CASE i = 1
            BY <1>2, <1>5, <2>1, <2>2, <2>4, <3>1 DEF Enters
        <3>2. CASE i # 1
            <4>1. i - 1 \in 1..Len(q) /\ (i - 1) + 1 = i
                BY <1>2, <3>2
            <4> QED
                BY <1>2, <2>4, <4>1 DEF Enters
        <3> QED
            BY <3>1, <3>2
    <2> QED
        BY <2>1, <2>3, <2>4 DEF Enters
<1>14. SharedContested'
    BY <1>8 DEF IInv, Promised, SharedContested, Shared
<1>15. Pending'
    <2>1. \A p \in Pods : Told(p)' = Told(p)
        BY <1>8 DEF Told
    <2> QED
        BY <1>8, <2>1 DEF IInv, Pending, Keyed, Distinct, Mirror, Chained, Unseen
<1> QED
    BY <1>6, <1>7, <1>9, <1>10, <1>12, <1>13, <1>14, <1>15 DEF IInv, Promised


\* Every step of the watcher, the informer and the cluster keeps the invariant.
LEMMA NextIInv == IInv /\ [Next]_vars => IInv'
<1> SUFFICES ASSUME IInv, [Next]_vars
             PROVE  IInv'
    OBVIOUS
<1>1. CASE UNCHANGED vars
    <2>1. /\ UNCHANGED <<api, writes, left, conn, lists, fifo, deltas, popping, unpopped>>
          /\ UNCHANGED <<store, contested, missed, queue, data, handler, current, phase, stopped>>
        BY <1>1 DEF vars, cluster, informer, session, fifoVars, indexer, watcher
    <2>2. TypeOK' /\ Wired'
        BY <2>1 DEF IInv, TypeOK, Wired
    <2>3. Pending'
        <3>1. \A p \in Pods : Told(p)' = Told(p)
            BY <2>1 DEF Told
        <3> QED
            BY <2>1, <3>1 DEF IInv, Pending, Keyed, Distinct, Mirror, Chained, Unseen
    <2>4. Promised'
        BY <2>1, Untouched DEF Fed
    <2> QED
        BY <2>2, <2>3, <2>4 DEF IInv
<1>2. ASSUME NEW p \in Pods, NEW is \in Addresses \cup {NoPod}, PodChanges(p, is)
      PROVE  IInv'
    BY <1>2, PodChangesStep
<1>3. CASE Relist
    BY <1>3, RelistStep
<1>4. CASE Resync
    BY <1>4, ResyncStep
<1>5. CASE PopDelta
    BY <1>5, PopStep
<1>6. CASE Handle
    BY <1>6, HandleStep
<1>7. CASE Disconnect \/ Start \/ StartFails \/ WaitForInit \/ CloseStop
    BY <1>7, OtherSteps
<1> QED
    BY <1>1, <1>2, <1>3, <1>4, <1>5, <1>6, <1>7 DEF Next

-----------------------------------------------------------------------------
(* Theorems.                                                               *)

\* The invariant holds in every reachable state of the watcher.
THEOREM Invariance == Spec => []IInv
BY InitIInv, NextIInv, PTL DEF Spec

\* Every variable has its type: Pods.Load() in particular never becomes
\* negative, whatever disconnections and relists hide from OnAdd and OnDelete.
THEOREM TypeCorrect == Spec => []TypeOK
<1>1. IInv => TypeOK
    BY DEF IInv
<1> QED
    BY <1>1, Invariance, PTL

\* OnAdd and OnDelete's count, with what is queued, is never below the number
\* of pods that the informer knows.
THEOREM PodsCountSafe == Spec => []PodsNeverUndercounted
<1>1. IInv => PodsNeverUndercounted
    <2> SUFFICES ASSUME IInv
                 PROVE  PodsToBe >= Cardinality(Live(store))
        BY DEF PodsNeverUndercounted
    <2>1. Len(queue) \in Nat /\ Fed.pods \in Nat /\ missed \in Nat
        BY DEF IInv, TypeOK, Fed, K8SData, DataObjects
    <2>2. Balance(queue, Len(queue)) \in Int /\ Cardinality(Live(store)) \in Nat
        BY <2>1, BalanceType, LiveFinite
    <2>3. Fed.pods + Balance(queue, Len(queue)) = Cardinality(Live(store)) + missed
        BY DEF IInv, Promised, Exact
    <2>4. PodsToBe = Fed.pods + Balance(queue, Len(queue))
        BY QueuedBalance DEF IInv
    <2> QED
        BY <2>1, <2>2, <2>3, <2>4, ExactCovers
<1> QED
    BY <1>1, Invariance, PTL

\* With every notification handled by OnAdd and OnDelete, the count is the
\* number of pods that the informer knows and of those that relists have found
\* gone, whose tombstones OnDelete ignores: nothing else makes it wrong.
THEOREM CountSafe == Spec => []PodsMiscountedByMissed
<1>1. IInv => PodsMiscountedByMissed
    <2> SUFFICES ASSUME IInv, queue = << >>
                 PROVE  Fed.pods = Cardinality(Live(store)) + missed
        BY DEF PodsMiscountedByMissed
    <2>1. Balance(queue, Len(queue)) = 0
        BY BalanceType
    <2>2. Fed.pods \in Nat
        BY DEF IInv, TypeOK, Fed, K8SData, DataObjects
    <2> QED
        BY <2>1, <2>2 DEF IInv, Promised, Exact
<1> QED
    BY <1>1, Invariance, PTL

\* With every notification handled, OnAdd, OnUpdate and OnDelete have left in
\* IPToSrc no entry for a pod that is not there, but at addresses which the pod
\* left for another or while the watch was broken.
THEOREM StaleSafe == Spec => []IndexStaleOnlyIfLeft
<1>1. IInv => IndexStaleOnlyIfLeft
    <2> SUFFICES ASSUME IInv, queue = << >>, NEW ip \in IPs, Fed.ipToSrc[ip] # NoPod
                 PROVE  \/ store[Fed.ipToSrc[ip]] = ip
                        \/ <<Fed.ipToSrc[ip], ip>> \in left
        BY DEF IndexStaleOnlyIfLeft
    <2>1. Fed.ipToSrc[ip] \in Pods
        BY DEF IInv, TypeOK, Fed, K8SData, DataObjects, Addresses
    <2>2. Leads(Fed.ipToSrc, queue, ip, Fed.ipToSrc[ip])
        BY DEF Leads
    <2> QED
        BY <2>1, <2>2 DEF IInv, Promised, Explained
<1> QED
    BY <1>1, Invariance, PTL

\* With every notification handled by OnAdd, OnUpdate and OnDelete, each known
\* pod is in PodInfo and its address leads to it in IPToSrc, unless the address
\* is one that the indexer has had for another pod at the same time, without
\* being told since of a pod that has it alone.
THEOREM IndexSafe == Spec => []IndexMissesOnlyContested
<1>1. IInv => IndexMissesOnlyContested
    <2> SUFFICES ASSUME IInv, queue = << >>, NEW p \in Live(store)
                 PROVE  Fed.podInfo[p] # NoPod /\ (store[p] \notin contested => Resolves(Fed, p))
        BY DEF IndexMissesOnlyContested
    <2>1. 1..Len(queue) = {} /\ p \in Pods
        BY DEF Live
    <2>2. Fed.podInfo[p] # NoPod
        BY <2>1 DEF IInv, Promised, PodsEnter, Enters
    <2>3. store[p] \notin contested => Resolves(Fed, p)
        BY <2>1 DEF IInv, Promised, AddressesLead, Leads, Resolves
    <2> QED
        BY <2>2, <2>3
<1> QED
    BY <1>1, Invariance, PTL

=============================================================================
