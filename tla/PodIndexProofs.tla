--------------------------- MODULE PodIndexProofs ---------------------------
(***************************************************************************)
(* IPWatcher implements PodIndex, for any pods, addresses and bounds.      *)
(*                                                                         *)
(* An address leads to one pod at most, and what is queued behind changes  *)
(* only the address it is about.  So each delta that Pop hands on is a     *)
(* change of one address, for a deletion the one the indexer had for the   *)
(* pod, which is what the chain of deltas in the invariant is for; and     *)
(* handling a notification leaves each address leading where it was to     *)
(* lead.  The count follows from the invariant of IPWatcherProofs: it is   *)
(* that of the pods known and missed.                                      *)
(***************************************************************************)
EXTENDS IPWatcherProofs

\* No address leads to two pods: the later one to be stored undoes the other.
LEMMA LeadsOnce ==
    ASSUME NEW x, NEW q, Len(q) \in Nat, NEW a, NEW p, NEW other,
           Leads(x, q, a, p), Leads(x, q, a, other)
    PROVE  p = other
<1> SUFFICES ASSUME p # other PROVE FALSE
    OBVIOUS
<1>1. \A n : /\ Puts(n, a, p) => Undoes(n, a, other)
             /\ Puts(n, a, other) => Undoes(n, a, p)
    BY DEF Puts, Undoes
<1>2. CASE x[a] = p /\ \A i \in 1..Len(q) : ~Undoes(q[i], a, p)
    BY <1>1, <1>2 DEF Leads
<1>3. ASSUME NEW i \in 1..Len(q), Puts(q[i], a, p),
             \A k \in 1..Len(q) : i < k => ~Undoes(q[k], a, p)
      PROVE  FALSE
    <2>1. Undoes(q[i], a, other)
        BY <1>1, <1>3
    <2>2. PICK j \in 1..Len(q) :
              Puts(q[j], a, other) /\ \A k \in 1..Len(q) : j < k => ~Undoes(q[k], a, other)
        BY <2>1 DEF Leads
    <2>3. ~(j < i) /\ ~(i < j)
        BY <1>1, <1>3, <2>1, <2>2
    <2>4. i = j
        BY <2>3
    <2> QED
        BY <1>3, <2>2, <2>4 DEF Puts
<1> QED
    BY <1>2, <1>3 DEF Leads

\* So it is led where it leads, or nowhere.
LEMMA LedIs ==
    ASSUME NEW x, NEW q, Len(q) \in Nat, NEW a \in IPs
    PROVE  /\ \A p \in Pods : Leads(x, q, a, p) => Led(x, q)[a] = p
           /\ (\A p \in Pods : ~Leads(x, q, a, p)) => Led(x, q)[a] = NoPod
<1>1. ASSUME NEW p \in Pods, Leads(x, q, a, p)
      PROVE  Led(x, q)[a] = p
    <2> DEFINE c == CHOOSE d \in Pods : Leads(x, q, a, d)
    <2>1. Leads(x, q, a, c)
        BY <1>1
    <2>2. Led(x, q)[a] = c
        BY <1>1 DEF Led
    <2> HIDE DEF c
    <2> QED
        BY <1>1, <2>1, <2>2, LeadsOnce
<1>2. ASSUME \A p \in Pods : ~Leads(x, q, a, p)
      PROVE  Led(x, q)[a] = NoPod
    BY <1>2 DEF Led
<1> QED
    BY <1>1, <1>2

\* What leads to the same pods is led alike.
LEMMA LedSame ==
    ASSUME NEW x, NEW q, Len(q) \in Nat, NEW y, NEW s, Len(s) \in Nat, NEW a \in IPs,
           \A p \in Pods : Leads(x, q, a, p) <=> Leads(y, s, a, p)
    PROVE  Led(x, q)[a] = Led(y, s)[a]
<1>1. CASE \E p \in Pods : Leads(x, q, a, p)
    <2>1. PICK p \in Pods : Leads(x, q, a, p)
        BY <1>1
    <2>2. Led(x, q)[a] = p /\ Led(y, s)[a] = p
        BY <2>1, LedIs
    <2> QED
        BY <2>2
<1>2. CASE \A p \in Pods : ~Leads(x, q, a, p)
    <2>1. Led(x, q)[a] = NoPod /\ Led(y, s)[a] = NoPod
        BY <1>2, LedIs
    <2> QED
        BY <2>1
<1> QED
    BY <1>1, <1>2

\* More notifications leave alone the addresses they are not about, but for
\* tombstones, which no handler takes.
LEMMA LedElsewhere ==
    ASSUME NEW x, NEW q \in Seq(Notices), NEW r \in Seq(Notices), NEW a \in IPs,
           \A i \in 1..Len(r) : r[i].kind = "tombstone" \/ r[i].ip # a
    PROVE  Led(x, q \o r)[a] = Led(x, q)[a]
<1>1. \A p \in Pods, i \in 1..Len(r) : ~Puts(r[i], a, p) /\ ~Undoes(r[i], a, p)
    BY DEF Puts, Undoes, Stores
<1>2. \A p \in Pods : Leads(x, q \o r, a, p) <=> Leads(x, q, a, p)
    BY <1>1, LeadsOn, LeadsBack
<1>3. Len(q) \in Nat /\ q \o r \in Seq(Notices)
    OBVIOUS
<1>4. Len(q \o r) \in Nat
    BY <1>3
<1> QED
    BY <1>2, <1>3, <1>4, LedSame

\* One that stores a pod at its address makes it lead there, if no other does.
LEMMA LedThere ==
    ASSUME NEW x, NEW q \in Seq(Notices), NEW r \in Seq(Notices), NEW a \in IPs, NEW p \in Pods,
           NEW k \in 1..Len(r), Puts(r[k], a, p),
           \A i \in 1..Len(r) : ~Undoes(r[i], a, p)
    PROVE  Led(x, q \o r)[a] = p
<1>1. Leads(x, q \o r, a, p)
    BY LeadsOn
<1>2. Len(q \o r) \in Nat
    <2>1. q \o r \in Seq(Notices)
        OBVIOUS
    <2> QED
        BY <2>1
<1> QED
    BY <1>1, <1>2, LedIs

\* A deletion makes its address lead nowhere.
LEMMA LedNowhere ==
    ASSUME NEW x, NEW q \in Seq(Notices), NEW n \in Notices, n.kind = "delete", n.ip \in IPs
    PROVE  Led(x, q \o <<n>>)[n.ip] = NoPod
<1> DEFINE r == <<n>>
<1>1. r \in Seq(Notices) /\ 1 \in 1..Len(r) /\ \A i \in 1..Len(r) : r[i] = n
    OBVIOUS
<1> HIDE DEF r
<1>2. \A p \in Pods, i \in 1..Len(r) : ~Puts(r[i], n.ip, p) /\ Undoes(r[i], n.ip, p)
    BY <1>1 DEF Puts, Undoes, Stores
<1>3. \A p \in Pods : ~Leads(x, q \o r, n.ip, p)
    BY <1>1, <1>2, LeadsBack
<1>4. Len(q \o r) \in Nat
    <2>1. q \o r \in Seq(Notices)
        BY <1>1
    <2> QED
        BY <2>1
<1> QED
    BY <1>3, <1>4, LedIs DEF r

\* With everything handled the count will be that of the pods known and missed.
LEMMA CountToBe ==
    /\ IInv => PodsToBe = Cardinality(Live(store)) + missed
    /\ IInv' => PodsToBe' = Cardinality(Live(store)') + missed'
<1>1. IInv => PodsToBe = Cardinality(Live(store)) + missed
    BY QueuedBalance DEF IInv, Promised, Exact
<1>2. (IInv => PodsToBe = Cardinality(Live(store)) + missed)'
    BY <1>1, PTL
<1> QED
    BY <1>1, <1>2

-----------------------------------------------------------------------------
(* Each step is one of PodIndex, or changes nothing of it.                 *)

\* A delta that Pop hands on is a change of its pod: of the address that it, or
\* what is stored of the pod, names.
LEMMA PopRefines ==
    ASSUME IInv, IInv', PopDelta
    PROVE  Index!Next
<1>1. PICK p \in Pods, d \in Deltas :
          /\ Follows(p, store[p], d, left)
          /\ store' = [store EXCEPT ![p] = After(d)]
          /\ queue' = Append(queue, Notice(p, d))
          /\ missed' = IF d.kind = "tombstone" THEN missed + 1 ELSE missed
          /\ UNCHANGED data
    BY PopTakes
<1> DEFINE n == Notice(p, d)
           r == <<n>>
<1>2. /\ TypeOK /\ queue \in Seq(Notices) /\ missed \in Nat
      /\ store[p] \in Addresses \cup {NoPod} /\ Fed' = Fed
    BY <1>1 DEF IInv, TypeOK, Fed
<1>3. /\ n \in Notices /\ n.pod = p /\ n.ip = d.ip
      /\ d.kind = "changed" /\ store[p] = NoPod => n.kind = "add"
      /\ d.kind = "changed" /\ store[p] # NoPod => n.kind = "update"
      /\ d.kind = "deleted" => n.kind = "delete"
      /\ d.kind = "tombstone" => n.kind = "tombstone"
    BY NoticeIs
<1>4. /\ d.kind \in {"changed", "deleted", "tombstone"} /\ d.ip \in Addresses
      /\ d.kind = "changed" => After(d) = d.ip
      /\ d.kind # "changed" => After(d) = NoPod /\ store[p] # NoPod /\ d.ip = store[p]
    BY <1>1, DeltaKinds DEF Follows
<1>5. /\ d.kind = "changed" /\ store[p] = NoPod =>
             Cardinality(Live(store')) = Cardinality(Live(store)) + 1
      /\ d.kind = "changed" /\ store[p] # NoPod => Live(store') = Live(store)
      /\ d.kind # "changed" => Cardinality(Live(store')) = Cardinality(Live(store)) - 1
    BY <1>1, <1>2, StoreTakes
<1> HIDE DEF n
<1>6. /\ queue' = queue \o r /\ r \in Seq(Notices)
      /\ 1 \in 1..Len(r) /\ \A i \in 1..Len(r) : r[i] = n
    BY <1>1, <1>2, <1>3 DEF n
<1>7. /\ PodsToBe = Cardinality(Live(store)) + missed
      /\ PodsToBe' = Cardinality(Live(store')) + missed'
      /\ Cardinality(Live(store)) \in Nat /\ Cardinality(Live(store')) \in Nat
    BY CountToBe, LiveFinite DEF Live
<1>8. IndexToBe' = Led(Fed.ipToSrc, queue \o r)
    BY <1>2, <1>6 DEF IndexToBe
<1>9. ASSUME NEW b \in Pods \cup {NoPod}, n.ip \in IPs => IndexToBe'[n.ip] = b
      PROVE  IndexToBe' = Index!Leading(n.ip, b)
    <2> DEFINE x == IndexToBe
               y == IndexToBe'
    <2>1. ASSUME NEW a \in IPs, n.ip # a
          PROVE  y[a] = x[a]
        <3> HIDE DEF r
        <3>1. \A i \in 1..Len(r) : r[i].kind = "tombstone" \/ r[i].ip # a
            BY <1>6, <2>1
        <3> QED
            BY <1>2, <1>6, <1>8, <3>1, LedElsewhere DEF IndexToBe
    <2>2. /\ x = [a \in IPs |-> x[a]] /\ y = [a \in IPs |-> y[a]]
          /\ n.ip \in IPs => y[n.ip] = b
        BY <1>8, <1>9 DEF IndexToBe, Led
    <2>3. Index!Leading(n.ip, b) = IF n.ip \in IPs THEN [x EXCEPT ![n.ip] = b] ELSE x
        BY DEF Index!Leading
    <2> HIDE DEF x, y
    <2>4. CASE n.ip \in IPs
        <3>1. [x EXCEPT ![n.ip] = b] = [a \in IPs |-> IF a = n.ip THEN b ELSE x[a]]
            BY <2>2
        <3>2. \A a \in IPs : y[a] = IF a = n.ip THEN b ELSE x[a]
            BY <2>1, <2>2, <2>4
        <3>3. y = [x EXCEPT ![n.ip] = b]
            BY <2>2, <3>1, <3>2
        <3> QED
            BY <2>3, <2>4, <3>3 DEF y
    <2>5. CASE n.ip \notin IPs
        <3>1. \A a \in IPs : y[a] = x[a]
            BY <2>1, <2>5
        <3>2. y = x
            BY <2>2, <3>1
        <3> QED
            BY <2>3, <2>5, <3>2 DEF y
    <2> QED
        BY <2>4, <2>5
<1> HIDE DEF r
<1>10. ASSUME d.kind = "changed"
       PROVE  IndexToBe' = Index!Leading(d.ip, p)
    <2>1. n.kind \in Stores /\ n.kind # "delete"
        BY <1>3, <1>10 DEF Stores
    <2>2. ASSUME n.ip \in IPs
          PROVE  IndexToBe'[n.ip] = p
        <3> DEFINE a == n.ip
        <3>1. \A i \in 1..Len(r) : Puts(r[i], a, p) /\ ~Undoes(r[i], a, p)
            BY <1>3, <1>6, <2>1 DEF Puts, Undoes
        <3>2. a \in IPs /\ queue \in Seq(Notices) /\ r \in Seq(Notices)
            BY <1>2, <1>6, <2>2
        <3>3. IndexToBe'[a] = Led(Fed.ipToSrc, queue \o r)[a]
            BY <1>8
        <3> HIDE DEF a
        <3>4. 1 \in 1..Len(r) /\ Puts(r[1], a, p) /\ \A i \in 1..Len(r) : ~Undoes(r[i], a, p)
            BY <1>6, <3>1
        <3>5. \A x : Led(x, queue \o r)[a] = p
            BY <3>2, <3>4, LedThere
        <3> QED
            BY <3>3, <3>5 DEF a
    <2> QED
        BY <1>3, <1>9, <2>2
<1>11. CASE d.kind = "changed" /\ store[p] = NoPod
    <2>1. PodsToBe' = PodsToBe + 1
        BY <1>1, <1>2, <1>5, <1>7, <1>11
    <2>2. Index!Appears(p, d.ip)
        BY <1>1, <1>4, <1>10, <1>11, <2>1 DEF Index!Appears
    <2> QED
        BY <1>4, <2>2 DEF Index!Next, Index!Addresses, Addresses
<1>12. CASE d.kind = "changed" /\ store[p] # NoPod
    <2>1. PodsToBe' = PodsToBe
        BY <1>1, <1>5, <1>7, <1>12
    <2>2. Index!Moves(p, d.ip)
        BY <1>1, <1>4, <1>10, <1>12, <2>1 DEF Index!Moves
    <2> QED
        BY <1>4, <2>2 DEF Index!Next, Index!Addresses, Addresses
<1>13. CASE d.kind = "deleted"
    <2>1. PodsToBe' = PodsToBe - 1
        BY <1>1, <1>2, <1>5, <1>7, <1>13
    <2>2. n.ip \in IPs => IndexToBe'[n.ip] = NoPod
        BY <1>2, <1>3, <1>8, <1>13, LedNowhere DEF r
    <2>3. IndexToBe' = Index!Leading(store[p], NoPod)
        BY <1>3, <1>4, <1>9, <1>13, <2>2
    <2>4. Index!Disappears(p)
        BY <1>1, <1>4, <1>13, <2>1, <2>3 DEF Index!Disappears
    <2> QED
        BY <2>4 DEF Index!Next
<1>14. CASE d.kind = "tombstone"
    <2>1. PodsToBe' = PodsToBe
        BY <1>1, <1>2, <1>5, <1>7, <1>14
    <2>2. ASSUME NEW a \in IPs
          PROVE  IndexToBe'[a] = IndexToBe[a]
        <3>1. \A i \in 1..Len(r) : r[i].kind = "tombstone" \/ r[i].ip # a
            BY <1>3, <1>6, <1>14
        <3> QED
            BY <1>2, <1>6, <1>8, <3>1, LedElsewhere DEF IndexToBe
    <2>3. IndexToBe' = IndexToBe
        <3> DEFINE x == IndexToBe
                   y == IndexToBe'
        <3>1. x = [a \in IPs |-> x[a]] /\ y = [a \in IPs |-> y[a]]
            BY <1>8 DEF IndexToBe, Led
        <3> HIDE DEF x, y
        <3>2. \A a \in IPs : y[a] = x[a]
            BY <2>2 DEF x, y
        <3>3. y = x
            BY <3>1, <3>2
        <3> QED
            BY <3>3 DEF x, y
    <2>4. Index!Missed(p)
        BY <1>1, <1>4, <1>14, <2>1, <2>3 DEF Index!Missed
    <2> QED
        BY <2>4 DEF Index!Next
<1> QED
    BY <1>4, <1>11, <1>12, <1>13, <1>14

\* Handling a notification: what it does was settled when it was queued.
LEMMA HandleRefines ==
    ASSUME IInv, IInv', Handle
    PROVE  UNCHANGED <<store, IndexToBe, PodsToBe>>
<1>1. store' = store /\ missed' = missed
    BY DEF Handle, indexer
<1>2. PodsToBe' = PodsToBe
    BY <1>1, CountToBe DEF Live
<1> DEFINE x == Fed.ipToSrc
           y == Fed'.ipToSrc
<1>3. /\ queue \in Seq(Notices) /\ queue # << >> /\ queue' = Tail(queue)
      /\ \A a \in IPs : y[a] =
             IF Head(queue).ip = a /\ Head(queue).kind \in Stores THEN Head(queue).pod
             ELSE IF Head(queue).ip = a /\ Head(queue).kind = "delete" THEN NoPod
             ELSE x[a]
    BY HandleFeeds
<1>4. IndexToBe' = Led(y, queue') /\ IndexToBe = Led(x, queue)
    BY DEF IndexToBe
<1> HIDE DEF x, y
<1>5. \A a \in IPs, p \in Pods : Leads(y, Tail(queue), a, p) <=> Leads(x, queue, a, p)
    BY <1>3, LeadsHandled
<1>6. Len(queue) \in Nat /\ Len(Tail(queue)) \in Nat
    BY <1>3
<1>7. ASSUME NEW a \in IPs
      PROVE  Led(y, Tail(queue))[a] = Led(x, queue)[a]
    BY <1>5, <1>6, LedSame
<1>8. Led(y, Tail(queue)) = Led(x, queue)
    <2> DEFINE v == Led(y, Tail(queue))
               z == Led(x, queue)
    <2>1. v = [a \in IPs |-> v[a]] /\ z = [a \in IPs |-> z[a]]
        BY DEF Led
    <2> HIDE DEF v, z
    <2>2. \A a \in IPs : v[a] = z[a]
        BY <1>7 DEF v, z
    <2>3. v = z
        BY <2>1, <2>2
    <2> QED
        BY <2>3 DEF v, z
<1> QED
    BY <1>1, <1>2, <1>3, <1>4, <1>8

\* The other steps touch neither the queue nor the index: what the API server
\* and DeltaFIFO hold is not known yet.
LEMMA OthersRefine ==
    ASSUME IInv,
           \/ \E p \in Pods, is \in Addresses \cup {NoPod} : PodChanges(p, is)
           \/ Relist \/ Disconnect \/ Resync \/ Start \/ StartFails \/ WaitForInit \/ CloseStop
           \/ UNCHANGED vars
    PROVE  UNCHANGED <<store, IndexToBe, PodsToBe>>
<1>1. queue' = queue /\ store' = store
    BY DEF PodChanges, Relist, Disconnect, Resync, Start, StartFails, WaitForInit, CloseStop,
           vars, informer, indexer
<1>2. Fed' = Fed
    <2>1. CASE WaitForInit
        <3>1. current = "kd"
            BY <2>1 DEF IInv, Wired, WaitForInit
        <3>2. data \in [DataObjects -> K8SData] /\ data' = [data EXCEPT !["kd"].synced = TRUE]
            BY <2>1, <3>1 DEF IInv, TypeOK, WaitForInit
        <3> QED
            BY <3>2 DEF DataObjects, Fed
    <2>2. CASE data' = data
        BY <2>2 DEF Fed
    <2> QED
        BY <2>1, <2>2
           DEF PodChanges, Relist, Disconnect, Resync, Start, StartFails, CloseStop, vars
<1> QED
    BY <1>1, <1>2 DEF IndexToBe, PodsToBe, Queued

-----------------------------------------------------------------------------
(* Theorem.                                                                *)

\* K8SData's handlers and the informer implement PodIndex: the index and the
\* count that a queue of notifications settles change exactly as if each change
\* had been applied when Pop hands it on.
THEOREM IndexRefinement == Spec => ImplementsIndex
<1>1. Init => Index!Init
    <2> SUFFICES ASSUME Init
                 PROVE  Index!Init
        OBVIOUS
    <2>1. queue = << >> /\ Len(queue) = 0 /\ store = [p \in Pods |-> NoPod]
        BY DEF Init
    <2>2. Fed.ipToSrc = [a \in Addresses |-> NoPod]
        BY DEF Init, Fed, EmptyData, DataObjects
    <2>3. \A a \in IPs, p \in Pods : ~Leads(Fed.ipToSrc, queue, a, p)
        BY <2>1, <2>2, ConstantsAssumption DEF Leads, Addresses
    <2>4. IndexToBe = [a \in IPs |-> NoPod]
        BY <2>3 DEF IndexToBe, Led
    <2>5. PodsToBe = 0
        <3>1. Live(store) = {} /\ missed = 0
            BY <2>1 DEF Init, Live
        <3>2. PodsToBe = Cardinality(Live(store)) + missed
            BY InitIInv, CountToBe
        <3> QED
            BY <3>1, <3>2, FS_EmptySet
    <2> QED
        BY <2>1, <2>4, <2>5 DEF Index!Init
<1>2. IInv /\ IInv' /\ [Next]_vars => [Index!Next]_<<store, IndexToBe, PodsToBe>>
    <2> SUFFICES ASSUME IInv, IInv', [Next]_vars
                 PROVE  Index!Next \/ UNCHANGED <<store, IndexToBe, PodsToBe>>
        OBVIOUS
    <2>1. CASE PopDelta
        BY <2>1, PopRefines
    <2>2. CASE Handle
        BY <2>2, HandleRefines
    <2>3. CASE \/ \E p \in Pods, is \in Addresses \cup {NoPod} : PodChanges(p, is)
               \/ Relist \/ Disconnect \/ Resync \/ Start \/ StartFails
               \/ WaitForInit \/ CloseStop \/ UNCHANGED vars
        BY <2>3, OthersRefine
    <2> QED
        BY <2>1, <2>2, <2>3 DEF Next
<1> QED
    BY <1>1, <1>2, Invariance, PTL DEF Spec, ImplementsIndex, Index!Spec
=============================================================================
