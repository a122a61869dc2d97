------------------------ MODULE CSRControllerProofs ------------------------
(***************************************************************************)
(* Proofs about CSRController, for any requests, replicas and bounds.      *)
(*                                                                         *)
(* The argument is about versions.  A cached object, a queued notification *)
(* or an UpdateStatus request never names a later version than the API     *)
(* server's, and one that names the present version agrees with it.  So a  *)
(* request that the server accepts was made from an object that had no     *)
(* certificate at the version that is being replaced.                      *)
(***************************************************************************)
EXTENDS CSRController, FiniteSetTheorems, TLAPS

\* The copy p is not ahead of the API server's object o, and at the same
\* version it agrees with it, a certificate set by the handler excepted
Coherent(o, p) ==
    /\ p.rv <= o.rv
    /\ o.live /\ p.rv = o.rv =>
          /\ p.cert = NoCert => o.cert = NoCert
          /\ p.approved = o.approved
          /\ p.denied = o.denied
          /\ p.kind = o.kind

StoresCoherent ==
    \A r \in Replicas, c \in CSRs :
        store[r][c] # NoObject => Coherent(api[c], store[r][c])

QueuesCoherent ==
    \A r \in Replicas : \A i \in 1..Len(queue[r]) :
        Coherent(api[queue[r][i].csr], queue[r][i].obj)

\* What UpdateStatus would replace, if it were accepted
RequestCoherent(q) ==
    /\ q.cert.rv = q.rv
    /\ q.rv <= api[q.csr].rv
    /\ Accepts(q) => /\ api[q.csr].kind \in Answerable
                     /\ api[q.csr].cert = NoCert
                     /\ q.approved = api[q.csr].approved
                     /\ q.denied = api[q.csr].denied

RequestsCoherent == \A q \in requests : RequestCoherent(q)

ObjectOK(o) ==
    /\ o.live => o.rv \in 1..MaxRV /\ o.born <= o.rv
    /\ o.cert # NoCert => o.live /\ o.cert.rv >= o.born

ObjectsOK == \A c \in CSRs : ObjectOK(api[c])

ConnectedOnce == \A r \in Replicas : conn[r] => session[r] \in 1..MaxLists

IInv == /\ TypeOK
        /\ StoresCoherent
        /\ QueuesCoherent
        /\ RequestsCoherent
        /\ ObjectsOK
        /\ ConnectedOnce

-----------------------------------------------------------------------------
(* Lemmas about the data.                                                  *)

\* An order of the members of a finite set is a sequence over it.
LEMMA OrderType ==
    ASSUME NEW S, IsFiniteSet(S), NEW order \in SetToSeqs(S)
    PROVE  order \in Seq(S)
BY FS_CardinalityType DEF SetToSeqs

\* Decoding a live object gives a well-typed pointer that agrees with it.
LEMMA DecodedType ==
    ASSUME NEW o \in Objects, o.live, o.rv \in 1..MaxRV, NEW s \in 1..MaxLists
    PROVE  /\ Decoded(o, s) \in Pointers
           /\ Decoded(o, s).rv = o.rv /\ Decoded(o, s).cert = o.cert
           /\ Decoded(o, s).approved = o.approved /\ Decoded(o, s).denied = o.denied
           /\ Decoded(o, s).kind = o.kind
BY DEF Decoded, Objects, Pointers

\* Setting the certificate keeps a pointer's type and everything else in it.
LEMMA WithCertType ==
    ASSUME NEW r \in Replicas, NEW p \in Pointers, NEW x \in Pointers
    PROVE  /\ WithCert(r, p, x) \in Pointers
           /\ WithCert(r, p, x).rv = x.rv
           /\ WithCert(r, p, x).approved = x.approved
           /\ WithCert(r, p, x).denied = x.denied
           /\ WithCert(r, p, x).kind = x.kind
           /\ WithCert(r, p, x).cert = NoCert => x.cert = NoCert
<1>1. CertFor(r, p) \in Certs
  BY DEF CertFor, Certs, Pointers
<1>2. CertFor(r, p) # NoCert
  BY <1>1, MarkersAssumption
<1> QED
  BY <1>1, <1>2 DEF WithCert, Pointers

\* Notify makes one notification per name, with that name's object.
LEMMA NotifyType ==
    ASSUME NEW cache, NEW order \in Seq(Held(cache)),
           \A c \in Held(cache) : cache[c] \in Pointers
    PROVE  /\ Notify(order, cache) \in Seq(Notices)
           /\ \A i \in 1..Len(Notify(order, cache)) :
                 /\ Notify(order, cache)[i].csr \in Held(cache)
                 /\ Notify(order, cache)[i].obj = cache[Notify(order, cache)[i].csr]
<1>1. \A i \in 1..Len(order) : order[i] \in Held(cache)
  OBVIOUS
<1>2. \A i \in 1..Len(order) : [csr |-> order[i], obj |-> cache[order[i]]] \in Notices
  BY <1>1 DEF Notices, Held
<1> QED
  BY <1>1, <1>2 DEF Notify

-----------------------------------------------------------------------------
(* Lemmas about the actions' parts.                                        *)

\* A write that takes the next version (or deletes) leaves everything cached
\* or under way behind the API server, except the copies it delivers.
LEMMA WriteCoherent ==
    ASSUME IInv, NEW c \in CSRs, NEW o \in Objects, ObjectOK(o),
           o.live => o.rv = api[c].rv + 1,
           ~o.live => o.rv = api[c].rv,
           Write(c, o), UNCHANGED <<conn, session>>
    PROVE  /\ api' \in [CSRs -> Objects]
           /\ store' \in [Replicas -> [CSRs -> Pointers \cup {NoObject}]]
           /\ queue' \in [Replicas -> Seq(Notices)]
           /\ StoresCoherent' /\ QueuesCoherent' /\ ObjectsOK'
           /\ \A q \in requests : RequestCoherent(q)'
<1> DEFINE New(r) == Decoded(o, session[r])
<1>1. api \in [CSRs -> Objects] /\ api' = [api EXCEPT ![c] = o]
  BY DEF IInv, TypeOK, Write
<1>2. api' \in [CSRs -> Objects] /\ api'[c] = o /\ \A d \in CSRs \ {c} : api'[d] = api[d]
  BY <1>1
<1>3. \A d \in CSRs : api[d].rv \in Nat /\ api'[d].rv \in Nat
  BY <1>1, <1>2 DEF Objects
<1>4. \A p : p.rv \in Nat => \A d \in CSRs : Coherent(api[d], p) => Coherent(api'[d], p)
  <2> SUFFICES ASSUME NEW p, p.rv \in Nat, NEW d \in CSRs, Coherent(api[d], p)
               PROVE  Coherent(api'[d], p)
    OBVIOUS
  <2>1. CASE d # c
    BY <2>1, <1>2 DEF Coherent
  <2>2. CASE d = c
    BY <2>2, <1>2, <1>3 DEF Coherent
  <2> QED
    BY <2>1, <2>2
<1>5. \A r \in Replicas : o.live /\ conn[r] =>
         New(r) \in Pointers /\ Coherent(api'[c], New(r))
  <2> SUFFICES ASSUME NEW r \in Replicas, o.live, conn[r]
               PROVE  New(r) \in Pointers /\ Coherent(api'[c], New(r))
    OBVIOUS
  <2>1. o.rv \in 1..MaxRV /\ session[r] \in 1..MaxLists
    BY DEF ObjectOK, IInv, ConnectedOnce
  <2>2. /\ New(r) \in Pointers
        /\ New(r).rv = o.rv /\ New(r).cert = o.cert
        /\ New(r).approved = o.approved /\ New(r).denied = o.denied
        /\ New(r).kind = o.kind
    BY <2>1, DecodedType
  <2> QED
    BY <2>1, <2>2, <1>2 DEF Coherent
<1>6. /\ store' \in [Replicas -> [CSRs -> Pointers \cup {NoObject}]]
      /\ StoresCoherent'
  <2>1. store \in [Replicas -> [CSRs -> Pointers \cup {NoObject}]]
    BY DEF IInv, TypeOK
  <2>2. \A r \in Replicas, d \in CSRs :
           store'[r][d] = IF conn[r] /\ d = c
                          THEN IF o.live THEN New(r) ELSE NoObject
                          ELSE store[r][d]
    BY <2>1 DEF Write
  <2>3. store' \in [Replicas -> [CSRs -> Pointers \cup {NoObject}]]
    BY <2>1, <1>5 DEF Write
  <2>4. ASSUME NEW r \in Replicas, NEW d \in CSRs, store'[r][d] # NoObject
        PROVE  Coherent(api'[d], store'[r][d])
    <3>1. CASE conn[r] /\ d = c
      BY <3>1, <2>2, <2>4, <1>5
    <3>2. CASE ~(conn[r] /\ d = c)
      <4>1. store'[r][d] = store[r][d] /\ store[r][d] \in Pointers
        BY <3>2, <2>1, <2>2, <2>4
      <4>2. store[r][d].rv \in Nat /\ Coherent(api[d], store[r][d])
        BY <4>1, <2>4 DEF IInv, StoresCoherent, Pointers
      <4> QED
        BY <4>1, <4>2, <1>4
    <3> QED
      BY <3>1, <3>2
  <2> QED
    BY <2>3, <2>4 DEF StoresCoherent
<1>7. /\ queue' \in [Replicas -> Seq(Notices)]
      /\ QueuesCoherent'
  <2>1. queue \in [Replicas -> Seq(Notices)]
    BY DEF IInv, TypeOK
  <2>2. \A r \in Replicas : o.live /\ conn[r] => [csr |-> c, obj |-> New(r)] \in Notices
    BY <1>5 DEF Notices
  <2>3. queue' \in [Replicas -> Seq(Notices)]
    BY <2>1, <2>2 DEF Write
  <2>4. ASSUME NEW r \in Replicas, NEW i \in 1..Len(queue'[r])
        PROVE  Coherent(api'[queue'[r][i].csr], queue'[r][i].obj)
    <3>1. ASSUME NEW j \in 1..Len(queue[r])
          PROVE  Coherent(api'[queue[r][j].csr], queue[r][j].obj)
      <4>1. queue[r][j] \in Notices
        BY <2>1
      <4>2. queue[r][j].obj.rv \in Nat /\ queue[r][j].csr \in CSRs
        BY <4>1 DEF Notices, Pointers
      <4> QED
        BY <4>2, <1>4 DEF IInv, QueuesCoherent
    <3>2. CASE conn[r] /\ o.live
      <4>1. queue'[r] = Append(queue[r], [csr |-> c, obj |-> New(r)])
        BY <3>2 DEF Write
      <4>2. CASE i = Len(queue[r]) + 1
        BY <4>1, <4>2, <3>2, <2>1, <1>5
      <4>3. CASE i # Len(queue[r]) + 1
        <5>1. i \in 1..Len(queue[r]) /\ queue'[r][i] = queue[r][i]
          BY <4>1, <4>3, <2>1
        <5> QED
          BY <5>1, <3>1
      <4> QED
        BY <4>2, <4>3
    <3>3. CASE ~(conn[r] /\ o.live)
      BY <3>1, <3>3 DEF Write
    <3> QED
      BY <3>2, <3>3
  <2> QED
    BY <2>3, <2>4 DEF QueuesCoherent
<1>8. ObjectsOK'
  BY <1>2 DEF ObjectsOK, ObjectOK, IInv
<1>9. ASSUME NEW q \in requests
      PROVE  RequestCoherent(q)'
  <2>1. q \in Requests /\ q.csr \in CSRs /\ q.rv \in Nat /\ RequestCoherent(q)
    BY DEF IInv, TypeOK, Requests, RequestsCoherent
  <2>2. CASE q.csr # c
    BY <2>1, <2>2, <1>2 DEF RequestCoherent, Accepts
  <2>3. CASE q.csr = c
    BY <2>1, <2>3, <1>2, <1>3 DEF RequestCoherent, Accepts
  <2> QED
    BY <2>2, <2>3
<1> QED
  BY <1>2, <1>6, <1>7, <1>8, <1>9

\* Notifications of coherent copies are coherent (Relist and Resync).
LEMMA EnqueueCoherent ==
    ASSUME IInv, NEW r \in Replicas,
           NEW cache \in [CSRs -> Pointers \cup {NoObject}],
           \A c \in Held(cache) : Coherent(api[c], cache[c]),
           NEW order \in SetToSeqs(Held(cache)),
           queue' = [queue EXCEPT ![r] = @ \o Notify(order, cache)],
           api' = api
    PROVE  queue' \in [Replicas -> Seq(Notices)] /\ QueuesCoherent'
<1> DEFINE new == Notify(order, cache)
<1>1. IsFiniteSet(Held(cache))
  BY FS_Subset, ConstantsAssumption DEF Held
<1>2. order \in Seq(Held(cache)) /\ \A c \in Held(cache) : cache[c] \in Pointers
  BY <1>1, OrderType DEF Held
<1>3. /\ new \in Seq(Notices)
      /\ \A i \in 1..Len(new) : Coherent(api[new[i].csr], new[i].obj)
  BY <1>2, NotifyType
<1> HIDE DEF new
<1>4. queue \in [Replicas -> Seq(Notices)] /\ queue'[r] = queue[r] \o new
  BY DEF IInv, TypeOK, new
<1>5. queue' \in [Replicas -> Seq(Notices)]
  BY <1>3, <1>4 DEF new
<1>6. ASSUME NEW s \in Replicas, NEW i \in 1..Len(queue'[s])
      PROVE  Coherent(api'[queue'[s][i].csr], queue'[s][i].obj)
  <2>1. CASE s # r
    BY <2>1, <1>4 DEF IInv, QueuesCoherent
  <2>2. CASE s = r /\ i <= Len(queue[r])
    <3>1. i \in 1..Len(queue[r]) /\ queue'[s][i] = queue[r][i]
      BY <2>2, <1>3, <1>4
    <3> QED
      BY <3>1 DEF IInv, QueuesCoherent
  <2>3. CASE s = r /\ i > Len(queue[r])
    <3>1. i - Len(queue[r]) \in 1..Len(new) /\ queue'[s][i] = new[i - Len(queue[r])]
      BY <2>3, <1>3, <1>4
    <3> QED
      BY <3>1, <1>3
  <2> QED
    BY <2>1, <2>2, <2>3, <1>3, <1>4
<1> QED
  BY <1>5, <1>6 DEF QueuesCoherent

\* What a list puts in the store is well typed and coherent.
LEMMA ListedCoherent ==
    ASSUME IInv, NEW s \in 1..MaxLists
    PROVE  /\ Listed(s) \in [CSRs -> Pointers \cup {NoObject}]
           /\ \A c \in CSRs : Listed(s)[c] # NoObject => Coherent(api[c], Listed(s)[c])
<1>1. ASSUME NEW c \in CSRs, api[c].live
      PROVE  Decoded(api[c], s) \in Pointers /\ Coherent(api[c], Decoded(api[c], s))
  <2>1. api[c] \in Objects /\ api[c].rv \in 1..MaxRV
    BY <1>1 DEF IInv, TypeOK, ObjectsOK, ObjectOK
  <2> QED
    BY <2>1, <1>1, DecodedType DEF Coherent
<1> QED
  BY <1>1 DEF Listed

\* Dropping the head of a queue leaves it well typed and coherent.
LEMMA DequeueCoherent ==
    ASSUME IInv, NEW r \in Replicas, queue[r] # << >>
    PROVE  /\ Tail(queue[r]) \in Seq(Notices)
           /\ \A i \in 1..Len(Tail(queue[r])) :
                 Coherent(api[Tail(queue[r])[i].csr], Tail(queue[r])[i].obj)
<1>1. queue[r] \in Seq(Notices)
  BY DEF IInv, TypeOK
<1>2. /\ Tail(queue[r]) \in Seq(Notices)
      /\ Len(Tail(queue[r])) = Len(queue[r]) - 1
      /\ \A i \in 1..Len(Tail(queue[r])) : /\ i + 1 \in 1..Len(queue[r])
                                          /\ Tail(queue[r])[i] = queue[r][i + 1]
  BY <1>1
<1> QED
  BY <1>2 DEF IInv, QueuesCoherent

-----------------------------------------------------------------------------
(* One lemma per kind of step that does more than drop things.             *)

\* What users and approvers do keeps the invariant: each write takes the next
\* version, which no cached copy or request can have.
LEMMA UserStep ==
    ASSUME IInv, NEW c \in CSRs,
           UserCreate(c) \/ UserApprove(c) \/ UserDeny(c) \/ UserDelete(c)
    PROVE  IInv'
<1>1. api[c] \in Objects /\ ObjectOK(api[c]) /\ NoCert \notin Certs
  BY MarkersAssumption DEF IInv, TypeOK, ObjectsOK
<1>2. PICK o \in Objects : /\ ObjectOK(o)
                           /\ o.live => o.rv = api[c].rv + 1
                           /\ ~o.live => o.rv = api[c].rv
                           /\ Write(c, o)
  <2>1. CASE UserCreate(c)
    <3>k. PICK k \in Kinds : Write(c, [Absent EXCEPT !.live = TRUE, !.rv = api[c].rv + 1,
                                                   !.born = api[c].rv + 1, !.kind = k])
      BY <2>1 DEF UserCreate
    <3> DEFINE o == [Absent EXCEPT !.live = TRUE, !.rv = api[c].rv + 1,
                                    !.born = api[c].rv + 1, !.kind = k]
    <3>b. api[c].rv + 1 < MaxRV
      BY <2>1 DEF UserCreate
    <3>a. api[c].rv + 1 \in 0..MaxRV /\ api[c].rv + 1 \in 1..MaxRV
      BY <3>b, <1>1, ConstantsAssumption DEF Objects
    <3>1. /\ o \in Objects
          /\ o.live = TRUE /\ o.rv = api[c].rv + 1
          /\ o.born = api[c].rv + 1 /\ o.cert = NoCert
          /\ o.rv \in 1..MaxRV
      BY <3>a, <1>1 DEF Absent, Objects
    <3>2. Write(c, o)
      BY <3>k
    <3> HIDE DEF o
    <3> QED
      BY <3>1, <3>2, <1>1 DEF Objects, ObjectOK
  <2>2. CASE UserApprove(c)
    <3> DEFINE o == [api[c] EXCEPT !.rv = @ + 1, !.approved = TRUE]
    <3>a. api[c].rv + 1 \in 0..MaxRV /\ api[c].rv + 1 \in 1..MaxRV /\ api[c].live
      BY <2>2, <1>1, ConstantsAssumption DEF UserApprove, Objects
    <3>1. /\ o \in Objects
          /\ o.live = TRUE /\ o.rv = api[c].rv + 1
          /\ o.born = api[c].born /\ o.cert = api[c].cert
          /\ o.rv \in 1..MaxRV /\ api[c].live
      BY <3>a, <1>1 DEF Objects
    <3>2. Write(c, o)
      BY <2>2 DEF UserApprove
    <3> HIDE DEF o
    <3> QED
      BY <3>1, <3>2, <1>1 DEF Objects, ObjectOK
  <2>3. CASE UserDeny(c)
    <3> DEFINE o == [api[c] EXCEPT !.rv = @ + 1, !.denied = TRUE]
    <3>a. api[c].rv + 1 \in 0..MaxRV /\ api[c].rv + 1 \in 1..MaxRV /\ api[c].live
      BY <2>3, <1>1, ConstantsAssumption DEF UserDeny, Objects
    <3>1. /\ o \in Objects
          /\ o.live = TRUE /\ o.rv = api[c].rv + 1
          /\ o.born = api[c].born /\ o.cert = api[c].cert
          /\ o.rv \in 1..MaxRV /\ api[c].live
      BY <3>a, <1>1 DEF Objects
    <3>2. Write(c, o)
      BY <2>3 DEF UserDeny
    <3> HIDE DEF o
    <3> QED
      BY <3>1, <3>2, <1>1 DEF Objects, ObjectOK
  <2>4. CASE UserDelete(c)
    <3> DEFINE o == [Absent EXCEPT !.rv = api[c].rv]
    <3>a. 0 \in 0..MaxRV
      BY ConstantsAssumption
    <3>1. /\ o \in Objects
          /\ o.live = FALSE /\ o.rv = api[c].rv
          /\ o.born = 0 /\ o.cert = NoCert
      BY <3>a, <1>1 DEF Absent, Objects
    <3>2. Write(c, o)
      BY <2>4 DEF UserDelete
    <3> HIDE DEF o
    <3> QED
      BY <3>1, <3>2, <1>1 DEF Objects, ObjectOK
  <2> QED
    BY <2>1, <2>2, <2>3, <2>4
<1>3. UNCHANGED <<conn, session, call, requests, ca>>
  BY DEF UserCreate, UserApprove, UserDeny, UserDelete
<1>4. /\ api' \in [CSRs -> Objects]
      /\ store' \in [Replicas -> [CSRs -> Pointers \cup {NoObject}]]
      /\ queue' \in [Replicas -> Seq(Notices)]
      /\ StoresCoherent' /\ QueuesCoherent' /\ ObjectsOK'
      /\ \A q \in requests : RequestCoherent(q)'
  BY <1>2, <1>3, WriteCoherent
<1>5. TypeOK'
  BY <1>3, <1>4 DEF IInv, TypeOK
<1>6. RequestsCoherent' /\ ConnectedOnce'
  BY <1>3, <1>4 DEF IInv, RequestsCoherent, ConnectedOnce
<1> QED
  BY <1>4, <1>5, <1>6 DEF IInv

\* So does an accepted UpdateStatus.
LEMMA AppliedStep ==
    ASSUME IInv, NEW q \in requests, UpdateStatusApplied(q)
    PROVE  IInv'
<1> DEFINE c == q.csr
           o == [api[c] EXCEPT !.rv = @ + 1, !.cert = q.cert,
                               !.approved = q.approved, !.denied = q.denied]
<1>1. q \in Requests /\ RequestCoherent(q)
  BY DEF IInv, TypeOK, RequestsCoherent
<1>2. api[c] \in Objects /\ ObjectOK(api[c]) /\ c \in CSRs
  BY <1>1 DEF IInv, TypeOK, ObjectsOK, Requests
<1>3. /\ o \in Objects /\ ObjectOK(o)
      /\ o.live => o.rv = api[c].rv + 1
      /\ ~o.live => o.rv = api[c].rv
  <2>1. /\ api[c].live /\ q.rv = api[c].rv /\ api[c].rv < MaxRV
        /\ q.cert \in Certs /\ q.cert.rv = q.rv /\ q.rv \in 1..MaxRV
        /\ q.approved \in BOOLEAN /\ q.denied \in BOOLEAN
    BY <1>1 DEF UpdateStatusApplied, Accepts, Requests, RequestCoherent
  <2>a. api[c].rv + 1 \in 0..MaxRV
    BY <2>1, <1>2, ConstantsAssumption DEF Objects
  <2>2. /\ o \in Objects
        /\ o.live = api[c].live /\ o.rv = api[c].rv + 1
        /\ o.born = api[c].born /\ o.cert = q.cert
    BY <2>1, <2>a, <1>2 DEF Objects
  <2> HIDE DEF o
  <2> QED
    BY <2>1, <2>2, <1>2, ConstantsAssumption DEF ObjectOK, Objects
<1>4. /\ Write(c, o) /\ requests' = requests \ {q}
      /\ UNCHANGED <<conn, session, call, ca>>
  BY DEF UpdateStatusApplied
<1>5. /\ api' \in [CSRs -> Objects]
      /\ store' \in [Replicas -> [CSRs -> Pointers \cup {NoObject}]]
      /\ queue' \in [Replicas -> Seq(Notices)]
      /\ StoresCoherent' /\ QueuesCoherent' /\ ObjectsOK'
      /\ \A q2 \in requests : RequestCoherent(q2)'
  BY <1>2, <1>3, <1>4, WriteCoherent
<1>6. TypeOK'
  BY <1>4, <1>5 DEF IInv, TypeOK
<1>7. RequestsCoherent' /\ ConnectedOnce'
  BY <1>4, <1>5 DEF IInv, RequestsCoherent, ConnectedOnce
<1> QED
  BY <1>5, <1>6, <1>7 DEF IInv

\* A new session decodes afresh: its pointers agree with the API server, and no
\* certificate was made in it yet.
LEMMA RelistStep ==
    ASSUME IInv, NEW r \in Replicas, Relist(r)
    PROVE  IInv'
<1> DEFINE s == session[r] + 1
<1>1. s \in 1..MaxLists
  BY ConstantsAssumption DEF IInv, TypeOK, Relist
<1>2. /\ Listed(s) \in [CSRs -> Pointers \cup {NoObject}]
      /\ \A c \in CSRs : Listed(s)[c] # NoObject => Coherent(api[c], Listed(s)[c])
  BY <1>1, ListedCoherent
<1>3. queue' \in [Replicas -> Seq(Notices)] /\ QueuesCoherent'
  <2>1. PICK order \in SetToSeqs(Held(Listed(s))) :
           queue' = [queue EXCEPT ![r] = @ \o Notify(order, Listed(s))]
    BY DEF Relist
  <2>2. \A c \in Held(Listed(s)) : Coherent(api[c], Listed(s)[c])
    BY <1>2 DEF Held
  <2>3. api' = api
    BY DEF Relist
  <2> HIDE DEF s
  <2> QED
    BY <1>2, <2>1, <2>2, <2>3, EnqueueCoherent
<1>4. /\ store' = [store EXCEPT ![r] = Listed(s)]
      /\ session' = [session EXCEPT ![r] = s] /\ conn' = [conn EXCEPT ![r] = TRUE]
      /\ UNCHANGED <<api, call, requests, ca>>
  BY DEF Relist
<1> HIDE DEF s
<1>5. TypeOK'
  <2>1. store' \in [Replicas -> [CSRs -> Pointers \cup {NoObject}]]
    BY <1>2, <1>4 DEF IInv, TypeOK
  <2>2. session' \in [Replicas -> 0..MaxLists] /\ conn' \in [Replicas -> BOOLEAN]
    BY <1>1, <1>4 DEF IInv, TypeOK
  <2> QED
    BY <2>1, <2>2, <1>3, <1>4 DEF IInv, TypeOK
<1>6. StoresCoherent'
  BY <1>2, <1>4 DEF IInv, TypeOK, StoresCoherent
<1>7. ConnectedOnce'
  BY <1>1, <1>4 DEF IInv, TypeOK, ConnectedOnce
<1>8. RequestsCoherent' /\ ObjectsOK'
  BY <1>4 DEF IInv, RequestsCoherent, RequestCoherent, Accepts, ObjectsOK
<1> QED
  BY <1>3, <1>5, <1>6, <1>7, <1>8 DEF IInv

\* A resync only queues what the store holds.
LEMMA ResyncStep ==
    ASSUME IInv, NEW r \in Replicas, Resync(r)
    PROVE  IInv'
<1>1. UNCHANGED <<api, conn, session, store, call, requests, ca>>
  BY DEF Resync
<1>2. queue' \in [Replicas -> Seq(Notices)] /\ QueuesCoherent'
  <2>1. PICK order \in SetToSeqs(Held(store[r])) :
           queue' = [queue EXCEPT ![r] = @ \o Notify(order, store[r])]
    BY DEF Resync
  <2>2. store[r] \in [CSRs -> Pointers \cup {NoObject}]
    BY DEF IInv, TypeOK
  <2>3. \A c \in Held(store[r]) : Coherent(api[c], store[r][c])
    BY DEF IInv, StoresCoherent, Held
  <2> QED
    BY <1>1, <2>1, <2>2, <2>3, EnqueueCoherent
<1> QED
  BY <1>1, <1>2 DEF IInv, TypeOK, StoresCoherent, RequestsCoherent,
                    RequestCoherent, Accepts, ObjectsOK, ConnectedOnce

\* The object the handler takes up.
LEMMA HeadCoherent ==
    ASSUME IInv, NEW r \in Replicas, queue[r] # << >>
    PROVE  /\ Head(queue[r]) \in Notices
           /\ Coherent(api[Head(queue[r]).csr], Head(queue[r]).obj)
<1>1. queue[r] \in Seq(Notices)
  BY DEF IInv, TypeOK
<1>2. 1 \in 1..Len(queue[r]) /\ Head(queue[r]) = queue[r][1]
  BY <1>1
<1> QED
  BY <1>1, <1>2 DEF IInv, QueuesCoherent

\* A notification OnUpdate returns from early is dropped, no more.
LEMMA IgnoreStep ==
    ASSUME IInv, NEW r \in Replicas, OnUpdateIgnore(r)
    PROVE  IInv'
<1>1. /\ queue[r] # << >> /\ queue' = [queue EXCEPT ![r] = Tail(queue[r])]
      /\ UNCHANGED <<api, conn, session, store, call, requests, ca>>
  BY DEF OnUpdateIgnore
<1>2. queue' \in [Replicas -> Seq(Notices)] /\ QueuesCoherent'
  BY <1>1, DequeueCoherent DEF IInv, TypeOK, QueuesCoherent
<1> QED
  BY <1>1, <1>2 DEF IInv, TypeOK, StoresCoherent, RequestsCoherent,
                    RequestCoherent, Accepts, ObjectsOK, ConnectedOnce

\* Setting the certificate in a copy leaves it coherent.
LEMMA WithCertCoherent ==
    ASSUME NEW r \in Replicas, NEW p \in Pointers, NEW x \in Pointers,
           NEW o, Coherent(o, x)
    PROVE  WithCert(r, p, x) \in Pointers /\ Coherent(o, WithCert(r, p, x))
BY WithCertType DEF Coherent

\* OnUpdate sets the certificate at every place that holds the object it signs,
\* and sends what it has just set.
LEMMA SignStep ==
    ASSUME IInv, NEW r \in Replicas, OnUpdateSign(r)
    PROVE  IInv'
<1> DEFINE c == Head(queue[r]).csr
           p == Head(queue[r]).obj
           q == StatusUpdate(r, c, p)
           rest == [i \in 1..(Len(queue[r]) - 1) |-> Seen(r, c, p, queue[r][i + 1])]
<1>1. /\ queue[r] # << >>
      /\ Signable(p) /\ SignCSR(p)
      /\ store' = [store EXCEPT ![r][c] = WithCert(r, p, @)]
      /\ queue' = [queue EXCEPT ![r] = rest]
      /\ call' = [call EXCEPT ![r] = q]
      /\ requests' = requests \cup {q}
      /\ UNCHANGED <<api, conn, session, ca>>
  BY DEF OnUpdateSign
<1>2. /\ c \in CSRs /\ p \in Pointers
      /\ Coherent(api[c], p)
  BY <1>1, HeadCoherent DEF Notices
<1>3. q \in Requests /\ RequestCoherent(q)
  <2>1. CertFor(r, p) \in Certs /\ CertFor(r, p).rv = p.rv
    BY <1>2 DEF CertFor, Certs, Pointers
  <2>2. q \in Requests
    BY <1>2, <2>1 DEF StatusUpdate, Requests, Pointers
  <2>3. /\ q.csr = c /\ q.rv = p.rv /\ q.cert.rv = p.rv
        /\ q.approved = p.approved /\ q.denied = p.denied
    BY <2>1 DEF StatusUpdate
  <2> QED
    BY <1>1, <1>2, <2>2, <2>3
       DEF RequestCoherent, Signable, SignCSR, Answerable, Accepts, Coherent
<1>4. /\ store' \in [Replicas -> [CSRs -> Pointers \cup {NoObject}]]
      /\ StoresCoherent'
  <2>1. store \in [Replicas -> [CSRs -> Pointers \cup {NoObject}]]
    BY DEF IInv, TypeOK
  <2>2. CASE store[r][c] = NoObject
    <3>1. WithCert(r, p, store[r][c]) = NoObject
      BY <2>2 DEF WithCert
    <3> QED
      BY <1>1, <1>2, <2>1, <3>1 DEF IInv, StoresCoherent
  <2>3. CASE store[r][c] # NoObject
    <3>1. store[r][c] \in Pointers /\ Coherent(api[c], store[r][c])
      BY <1>2, <2>1, <2>3 DEF IInv, StoresCoherent
    <3>2. /\ WithCert(r, p, store[r][c]) \in Pointers
          /\ Coherent(api[c], WithCert(r, p, store[r][c]))
      BY <1>2, <3>1, WithCertCoherent
    <3> QED
      BY <1>1, <1>2, <2>1, <3>2 DEF IInv, StoresCoherent
  <2> QED
    BY <2>2, <2>3
<1>5. /\ queue' \in [Replicas -> Seq(Notices)]
      /\ QueuesCoherent'
  <2>1. queue \in [Replicas -> Seq(Notices)] /\ Len(queue[r]) - 1 \in Nat
    BY <1>1 DEF IInv, TypeOK
  <2>2. ASSUME NEW i \in 1..(Len(queue[r]) - 1)
        PROVE  rest[i] \in Notices /\ Coherent(api[rest[i].csr], rest[i].obj)
    <3> DEFINE n == queue[r][i + 1]
    <3>1. i + 1 \in 1..Len(queue[r])
      BY <2>1
    <3>2. n \in Notices /\ Coherent(api[n.csr], n.obj)
      BY <2>1, <3>1 DEF IInv, QueuesCoherent
    <3>3. /\ WithCert(r, p, n.obj) \in Pointers
          /\ Coherent(api[n.csr], WithCert(r, p, n.obj))
      BY <1>2, <3>2, WithCertCoherent DEF Notices
    <3>4. rest[i] = IF n.csr = c THEN [n EXCEPT !.obj = WithCert(r, p, n.obj)] ELSE n
      BY DEF Seen
    <3> HIDE DEF n, rest
    <3>5. CASE n.csr = c
      BY <3>2, <3>3, <3>4, <3>5 DEF Notices
    <3>6. CASE n.csr # c
      BY <3>2, <3>4, <3>6
    <3> QED
      BY <3>5, <3>6
  <2>3. rest \in Seq(Notices) /\ Len(rest) = Len(queue[r]) - 1
    <3> DEFINE n == Len(queue[r]) - 1
    <3>1. rest = [i \in 1..n |-> rest[i]] /\ n \in Nat
      BY <2>1
    <3>2. \A i \in 1..n : rest[i] \in Notices
      BY <2>2
    <3> HIDE DEF n, rest
    <3>3. rest \in Seq(Notices) /\ Len(rest) = n
      BY <3>1, <3>2
    <3> QED
      BY <3>3 DEF n
  <2> HIDE DEF rest
  <2>4. queue' \in [Replicas -> Seq(Notices)]
    BY <1>1, <2>1, <2>3
  <2>5. ASSUME NEW s \in Replicas, NEW i \in 1..Len(queue'[s])
        PROVE  Coherent(api'[queue'[s][i].csr], queue'[s][i].obj)
    <3>1. CASE s = r
      BY <1>1, <2>1, <2>2, <2>3, <3>1
    <3>2. CASE s # r
      BY <1>1, <2>1, <3>2 DEF IInv, QueuesCoherent
    <3> QED
      BY <3>1, <3>2
  <2> QED
    BY <2>4, <2>5 DEF QueuesCoherent
<1> HIDE DEF q, rest
<1>6. TypeOK'
  BY <1>1, <1>3, <1>4, <1>5 DEF IInv, TypeOK
<1>7. RequestsCoherent' /\ ObjectsOK' /\ ConnectedOnce'
  BY <1>1, <1>3 DEF IInv, RequestsCoherent, RequestCoherent, Accepts, ObjectsOK, ConnectedOnce
<1> QED
  BY <1>4, <1>5, <1>6, <1>7 DEF IInv

\* The steps that only drop requests, end calls or lose a connection.
LEMMA OtherStep ==
    ASSUME IInv,
           \/ \E r \in Replicas : \/ Disconnect(r) \/ Crash(r) \/ OnUpdatePanics(r)
                                 \/ UpdateStatusFails(r) \/ UpdateStatusReturns(r)
           \/ \E q \in requests : UpdateStatusRefused(q)
           \/ CAExpires
           \/ UNCHANGED vars
    PROVE  IInv'
<1>1. /\ UNCHANGED <<api, session>> /\ requests' \subseteq requests
      /\ \/ UNCHANGED <<store, queue>>
         \/ \E r \in Replicas :
               /\ store' = [store EXCEPT ![r] = [c \in CSRs |-> NoObject]]
               /\ queue' = [queue EXCEPT ![r] = << >>]
      /\ \/ UNCHANGED conn
         \/ \E r \in Replicas : conn' = [conn EXCEPT ![r] = FALSE]
      /\ \/ UNCHANGED call
         \/ \E r \in Replicas : call' = [call EXCEPT ![r] = NoCall]
      /\ ca' \in {ca, "expired"}
  BY DEF Disconnect, Crash, OnUpdatePanics, UpdateStatusFails, UpdateStatusReturns,
         UpdateStatusRefused, CAExpires, vars, client
<1>2. TypeOK
  BY DEF IInv
<1>3. /\ store' \in [Replicas -> [CSRs -> Pointers \cup {NoObject}]]
      /\ queue' \in [Replicas -> Seq(Notices)]
      /\ StoresCoherent' /\ QueuesCoherent'
  <2>1. CASE UNCHANGED <<store, queue>>
    BY <1>1, <1>2, <2>1 DEF IInv, TypeOK, StoresCoherent, QueuesCoherent
  <2>2. ASSUME NEW r \in Replicas,
               store' = [store EXCEPT ![r] = [c \in CSRs |-> NoObject]],
               queue' = [queue EXCEPT ![r] = << >>]
        PROVE  /\ store' \in [Replicas -> [CSRs -> Pointers \cup {NoObject}]]
               /\ queue' \in [Replicas -> Seq(Notices)]
               /\ StoresCoherent' /\ QueuesCoherent'
    <3>1. store' \in [Replicas -> [CSRs -> Pointers \cup {NoObject}]]
      BY <1>2, <2>2 DEF TypeOK
    <3>2. queue' \in [Replicas -> Seq(Notices)]
      BY <1>2, <2>2 DEF TypeOK
    <3>3. StoresCoherent'
      BY <1>1, <1>2, <2>2 DEF IInv, TypeOK, StoresCoherent
    <3>4. QueuesCoherent'
      BY <1>1, <1>2, <2>2 DEF IInv, TypeOK, QueuesCoherent
    <3> QED
      BY <3>1, <3>2, <3>3, <3>4
  <2> QED
    BY <1>1, <2>1, <2>2
<1>5. TypeOK'
  <2>1. conn' \in [Replicas -> BOOLEAN] /\ call' \in [Replicas -> Requests \cup {NoCall}]
    BY <1>1, <1>2 DEF TypeOK
  <2> QED
    BY <1>1, <1>2, <1>3, <2>1 DEF TypeOK
<1>4. RequestsCoherent' /\ ObjectsOK' /\ ConnectedOnce'
  BY <1>1 DEF IInv, TypeOK, RequestsCoherent, RequestCoherent, Accepts,
              ObjectsOK, ConnectedOnce
<1> QED
  BY <1>3, <1>4, <1>5 DEF IInv

-----------------------------------------------------------------------------
(* The inductive invariant.                                                *)

\* At first nothing is cached, sent or signed.
LEMMA IInvInit == Init => IInv
<1> SUFFICES ASSUME Init PROVE IInv
  OBVIOUS
<1>1. Absent \in Objects /\ ObjectOK(Absent)
  <2>1. 0 \in 0..MaxRV
    BY ConstantsAssumption
  <2> QED
    BY <2>1 DEF Absent, Objects, ObjectOK
<1>2. TypeOK
  <2>1. 0 \in 0..MaxLists /\ << >> \in Seq(Notices)
    BY ConstantsAssumption
  <2> QED
    BY <1>1, <2>1 DEF Init, TypeOK
<1>3. StoresCoherent /\ QueuesCoherent /\ RequestsCoherent /\ ObjectsOK /\ ConnectedOnce
  BY <1>1 DEF Init, StoresCoherent, QueuesCoherent, RequestsCoherent,
              ObjectsOK, ConnectedOnce
<1> QED
  BY <1>2, <1>3 DEF IInv

\* Every step keeps the invariant.
LEMMA IInvStep == IInv /\ [Next]_vars => IInv'
<1> SUFFICES ASSUME IInv, [Next]_vars PROVE IInv'
  OBVIOUS
<1>1. ASSUME NEW c \in CSRs,
             UserCreate(c) \/ UserApprove(c) \/ UserDeny(c) \/ UserDelete(c)
      PROVE  IInv'
  BY <1>1, UserStep
<1>2. ASSUME NEW r \in Replicas, Resync(r)
      PROVE  IInv'
  BY <1>2, ResyncStep
<1>3. ASSUME NEW r \in Replicas, Relist(r)
      PROVE  IInv'
  BY <1>3, RelistStep
<1>4. ASSUME NEW r \in Replicas, OnUpdateIgnore(r)
      PROVE  IInv'
  BY <1>4, IgnoreStep
<1>5. ASSUME NEW r \in Replicas, OnUpdateSign(r)
      PROVE  IInv'
  BY <1>5, SignStep
<1>6. ASSUME NEW q \in requests, UpdateStatusApplied(q)
      PROVE  IInv'
  BY <1>6, AppliedStep
<1>7. ASSUME \/ \E r \in Replicas : \/ Disconnect(r) \/ Crash(r) \/ OnUpdatePanics(r)
                                    \/ UpdateStatusFails(r) \/ UpdateStatusReturns(r)
             \/ \E q \in requests : UpdateStatusRefused(q)
             \/ CAExpires
             \/ UNCHANGED vars
      PROVE  IInv'
  BY <1>7, OtherStep
<1> QED
  BY <1>1, <1>2, <1>3, <1>4, <1>5, <1>6, <1>7 DEF Next, Environment, Server, Controller

\* The inductive invariant holds in every behaviour.
THEOREM Invariance == Spec => []IInv
BY IInvInit, IInvStep, PTL DEF Spec

\* Every variable keeps its type: in particular no version, session or
\* certificate leaves its bounds, whatever the number of replicas.
THEOREM TypeCorrect == Spec => []TypeOK
<1>1. IInv => TypeOK
  BY DEF IInv
<1> QED
  BY <1>1, Invariance, PTL

\* A certificate was signed from the incarnation that carries it.
THEOREM IncarnationSafe == Spec => []CertificateOfThisIncarnation
<1>1. IInv => CertificateOfThisIncarnation
  BY DEF IInv, ObjectsOK, ObjectOK, CertificateOfThisIncarnation
<1> QED
  BY <1>1, Invariance, PTL

-----------------------------------------------------------------------------
(* What the steps do to the objects at the API server.                     *)

Created(o, n) == ~o.live /\ n.live /\ n.kind \in Kinds /\ n.cert = NoCert

Reviewed(o, n) == /\ o.live /\ n.live /\ n.kind = o.kind /\ n.cert = o.cert
                  /\ o.approved => n.approved
                  /\ o.denied => n.denied

Deleted(o, n) == o.live /\ ~n.live

Signed(o, n) == /\ o.live /\ n.live
                /\ o.kind \in Answerable /\ n.kind = o.kind
                /\ o.cert = NoCert /\ n.cert \in Certs
                /\ n.approved = o.approved /\ n.denied = o.denied

Changed(c) == \/ Created(api[c], api'[c]) \/ Reviewed(api[c], api'[c])
              \/ Deleted(api[c], api'[c]) \/ Signed(api[c], api'[c])

\* Every step leaves the API server alone or changes one object, in one of
\* these ways; an accepted UpdateStatus meets an object without certificate.
LEMMA APIStep ==
    ASSUME IInv, [Next]_vars
    PROVE  \/ UNCHANGED api
           \/ \E c \in CSRs : Changed(c) /\ \A d \in CSRs \ {c} : api'[d] = api[d]
<1>1. api \in [CSRs -> Objects]
  BY DEF IInv, TypeOK
<1>2. ASSUME NEW c \in CSRs, NEW o, Write(c, o)
      PROVE  api'[c] = o /\ \A d \in CSRs \ {c} : api'[d] = api[d]
  BY <1>1, <1>2 DEF Write
<1>3. ASSUME NEW c \in CSRs, UserCreate(c)
      PROVE  Changed(c) /\ \A d \in CSRs \ {c} : api'[d] = api[d]
  <2>k. PICK k \in Kinds : Write(c, [Absent EXCEPT !.live = TRUE, !.rv = api[c].rv + 1,
                                                 !.born = api[c].rv + 1, !.kind = k])
    BY <1>3 DEF UserCreate
  <2> DEFINE o == [Absent EXCEPT !.live = TRUE, !.rv = api[c].rv + 1,
                                 !.born = api[c].rv + 1, !.kind = k]
  <2>1. o.live /\ o.cert = NoCert /\ o.kind \in Kinds
    BY DEF Absent
  <2>2. Write(c, o) /\ ~api[c].live
    BY <2>k, <1>3 DEF UserCreate
  <2> HIDE DEF o
  <2> QED
    BY <2>1, <2>2, <1>2 DEF Changed, Created
<1>4. ASSUME NEW c \in CSRs, UserApprove(c) \/ UserDeny(c)
      PROVE  Changed(c) /\ \A d \in CSRs \ {c} : api'[d] = api[d]
  <2> DEFINE a == [api[c] EXCEPT !.rv = @ + 1, !.approved = TRUE]
             b == [api[c] EXCEPT !.rv = @ + 1, !.denied = TRUE]
  <2>1. api[c] \in Objects
    BY <1>1
  <2>2. /\ a.live = api[c].live /\ a.cert = api[c].cert /\ a.kind = api[c].kind
        /\ a.approved = TRUE /\ a.denied = api[c].denied
    BY <2>1 DEF Objects
  <2>3. /\ b.live = api[c].live /\ b.cert = api[c].cert /\ b.kind = api[c].kind
        /\ b.approved = api[c].approved /\ b.denied = TRUE
    BY <2>1 DEF Objects
  <2>4. api[c].live /\ (Write(c, a) \/ Write(c, b))
    BY <1>4 DEF UserApprove, UserDeny
  <2> HIDE DEF a, b
  <2> QED
    BY <2>2, <2>3, <2>4, <1>2 DEF Changed, Reviewed
<1>5. ASSUME NEW c \in CSRs, UserDelete(c)
      PROVE  Changed(c) /\ \A d \in CSRs \ {c} : api'[d] = api[d]
  <2> DEFINE o == [Absent EXCEPT !.rv = api[c].rv]
  <2>1. ~o.live
    BY DEF Absent
  <2>2. Write(c, o) /\ api[c].live
    BY <1>5 DEF UserDelete
  <2> HIDE DEF o
  <2> QED
    BY <2>1, <2>2, <1>2 DEF Changed, Deleted
<1>6. ASSUME NEW q \in requests, UpdateStatusApplied(q)
      PROVE  /\ q.csr \in CSRs /\ Changed(q.csr)
             /\ \A d \in CSRs \ {q.csr} : api'[d] = api[d]
  <2> DEFINE c == q.csr
             o == [api[c] EXCEPT !.rv = @ + 1, !.cert = q.cert,
                                 !.approved = q.approved, !.denied = q.denied]
  <2>1. q \in Requests /\ RequestCoherent(q) /\ Accepts(q)
    BY <1>6 DEF IInv, TypeOK, RequestsCoherent, UpdateStatusApplied
  <2>2. api[c] \in Objects /\ c \in CSRs /\ q.cert \in Certs
    BY <2>1, <1>1 DEF Requests
  <2>3. /\ o.live = api[c].live /\ o.cert = q.cert /\ o.kind = api[c].kind
        /\ o.approved = q.approved /\ o.denied = q.denied
    BY <2>2 DEF Objects
  <2>4. Write(c, o)
    BY <1>6 DEF UpdateStatusApplied
  <2> HIDE DEF o
  <2> QED
    BY <2>1, <2>2, <2>3, <2>4, <1>2 DEF Changed, Signed, RequestCoherent, Accepts
<1>7. ASSUME \/ \E r \in Replicas : \/ Disconnect(r) \/ Resync(r) \/ Crash(r)
                                    \/ UpdateStatusFails(r) \/ Controller(r)
             \/ \E q \in requests : UpdateStatusRefused(q)
             \/ CAExpires
             \/ UNCHANGED vars
      PROVE  UNCHANGED api
  BY <1>7 DEF Disconnect, Resync, Crash, UpdateStatusFails, Controller, Relist,
              OnUpdateIgnore, OnUpdateSign, OnUpdatePanics, UpdateStatusReturns,
              UpdateStatusRefused, CAExpires, vars
<1> QED
  BY <1>3, <1>4, <1>5, <1>6, <1>7 DEF Next, Environment, Server

\* An accepted UpdateStatus never takes back an approval or a denial, although
\* it replaces the whole status with a cached one.
THEOREM ConditionsSafe == Spec => ConditionsKept
<1>1. IInv /\ [Next]_vars => [KeepsConditions]_vars
  <2> SUFFICES ASSUME IInv, [Next]_vars PROVE KeepsConditions
    OBVIOUS
  <2>1. CASE UNCHANGED api
    BY <2>1 DEF KeepsConditions
  <2>2. ASSUME NEW c \in CSRs, Changed(c), \A d \in CSRs \ {c} : api'[d] = api[d]
        PROVE  KeepsConditions
    BY <2>2 DEF KeepsConditions, Changed, Created, Reviewed, Deleted, Signed
  <2> QED
    BY <2>1, <2>2, APIStep
<1> QED
  BY <1>1, Invariance, PTL DEF Spec, ConditionsKept

\* However many replicas there are and whatever they cache, each object gets at
\* most one certificate, and only if the handler's checks let it through.
THEOREM Refinement == Spec => ImplementsLifecycle
<1>1. Init => Lifecycle!Init
  BY DEF Init, Absent, lifeOfAPI, Lifecycle!Init
<1>2. IInv /\ [Next]_vars => [Lifecycle!Next]_lifeOfAPI
  <2> SUFFICES ASSUME IInv, [Next]_vars
               PROVE  Lifecycle!Next \/ UNCHANGED lifeOfAPI
    OBVIOUS
  <2>1. CASE UNCHANGED api
    BY <2>1 DEF lifeOfAPI
  <2>2. ASSUME NEW c \in CSRs, Changed(c), \A d \in CSRs \ {c} : api'[d] = api[d]
        PROVE  Lifecycle!Next \/ UNCHANGED lifeOfAPI
    <3> DEFINE new == IF api'[c].live
                      THEN [kind |-> api'[c].kind, cert |-> api'[c].cert]
                      ELSE NoObject
    <3>1. lifeOfAPI' = [lifeOfAPI EXCEPT ![c] = new]
      <4>1. \A d \in CSRs : lifeOfAPI'[d] = IF d = c THEN new ELSE lifeOfAPI[d]
        BY <2>2 DEF lifeOfAPI
      <4>2. /\ lifeOfAPI = [d \in CSRs |-> lifeOfAPI[d]]
            /\ lifeOfAPI' = [d \in CSRs |-> lifeOfAPI'[d]]
        BY DEF lifeOfAPI
      <4> HIDE DEF new
      <4> QED
        BY <4>1, <4>2
    <3>2. lifeOfAPI[c] = IF api[c].live
                         THEN [kind |-> api[c].kind, cert |-> api[c].cert]
                         ELSE NoObject
      BY DEF lifeOfAPI
    <3>3. /\ NoObject \notin [kind : Kinds \cup {NoKind}, cert : Certs \cup {NoCert}]
          /\ api[c].cert \in Certs \cup {NoCert} /\ api[c].kind \in Kinds \cup {NoKind}
      BY MarkersAssumption DEF IInv, TypeOK, Objects
    <3>a. api[c].live => lifeOfAPI[c] # NoObject
      BY <3>2, <3>3
    <3>4. CASE Created(api[c], api'[c])
      <4>1. Lifecycle!Create(c)
        BY <3>1, <3>2, <3>4 DEF Created, Lifecycle!Create
      <4> QED
        BY <4>1 DEF Lifecycle!Next
    <3>5. CASE Reviewed(api[c], api'[c])
      <4>1. new = lifeOfAPI[c]
        BY <3>2, <3>5 DEF Reviewed
      <4>2. UNCHANGED lifeOfAPI
        BY <3>1, <4>1 DEF lifeOfAPI
      <4> QED
        BY <4>2
    <3>6. CASE Deleted(api[c], api'[c])
      <4>1. Lifecycle!Remove(c)
        BY <3>1, <3>a, <3>6 DEF Deleted, Lifecycle!Remove
      <4> QED
        BY <4>1 DEF Lifecycle!Next
    <3>7. CASE Signed(api[c], api'[c])
      <4>1. /\ new = [kind |-> lifeOfAPI[c].kind, cert |-> api'[c].cert]
            /\ lifeOfAPI[c].kind \in Answerable /\ lifeOfAPI[c].cert = NoCert
            /\ api'[c].cert \in Certs
        BY <3>2, <3>7 DEF Signed
      <4> HIDE DEF new
      <4>2. Lifecycle!Issue(c)
        BY <3>1, <3>a, <3>7, <4>1 DEF Signed, Lifecycle!Issue
      <4> QED
        BY <4>2 DEF Lifecycle!Next
    <3> QED
      BY <2>2, <3>4, <3>5, <3>6, <3>7 DEF Changed
  <2> QED
    BY <2>1, <2>2, APIStep
<1> QED
  BY <1>1, <1>2, Invariance, PTL DEF Spec, ImplementsLifecycle, Lifecycle!Spec
=============================================================================
