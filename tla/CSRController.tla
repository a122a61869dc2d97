--------------------------- MODULE CSRController ---------------------------
(***************************************************************************)
(* The CSR signing controller of pkg/csrctrl/csr_controller.go: K8SSigner  *)
(* handles the events of a shared informer, signs the requests addressed   *)
(* to its signer name and writes the certificate back with UpdateStatus.   *)
(* Several replicas of the program may run; none of them takes a lease.    *)
(*                                                                         *)
(* The API server and the client-go informer are external: they are        *)
(* modelled by what OnAdd and OnUpdate can observe of them.  The watch     *)
(* stream, the informer's delta queue and its listener's buffer are one    *)
(* FIFO per replica, filled the moment the object changes: an event that   *)
(* is still on the wire cannot be told from one that is still queued, and  *)
(* one that is lost cannot be told from one that came after a disconnect.  *)
(*                                                                         *)
(* A cached object is a pointer: the informer hands the SAME object to its *)
(* store, to every queued notification and to the handler.  A pointer is   *)
(* named by the request, the resource version it was decoded at and the    *)
(* list-and-watch session that decoded it.                                 *)
(***************************************************************************)
EXTENDS Naturals, Sequences, FiniteSets, SequencesExt

CONSTANTS
    CSRs,        \* names of CertificateSigningRequest objects
    Replicas,    \* processes that run a K8SSigner
    Resyncing,   \* those whose informer factory has a resync period
    Kinds,       \* what a request's spec may be like
    Ours,        \* kinds whose spec.signerName is K8SSigner.Name
    Parses,      \* kinds that hold a PEM block with a PKCS#10 request
    SelfSigned,  \* kinds whose own signature verifies (Sign rejects others)
    NoKind,      \* the kind of a name without object
    NoCert,      \* Status.Certificate is nil
    NoObject,    \* no object of that name in a store
    NoCall,      \* the handler is not blocked in UpdateStatus
    MaxRV,       \* bound: resource versions of one name; users leave the last one
                 \* to UpdateStatus
    MaxLists,    \* bound: list-and-watch sessions of one replica
    MaxQueue     \* bound: queue length up to which a resync still happens

ASSUME ConstantsAssumption ==
    /\ IsFiniteSet(CSRs) /\ IsFiniteSet(Replicas) /\ Resyncing \subseteq Replicas
    /\ Ours \subseteq Kinds /\ Parses \subseteq Kinds /\ SelfSigned \subseteq Kinds
    /\ MaxRV \in Nat /\ MaxLists \in Nat /\ MaxQueue \in Nat

VARIABLES
    api,         \* the object of each name at the API server
    conn,        \* whether each replica's watch is connected
    session,     \* list-and-watch sessions each replica has begun
    store,       \* each replica's informer store
    queue,       \* each replica's notifications not yet handled
    call,        \* the UpdateStatus call each handler goroutine is blocked in
    requests,    \* UpdateStatus requests on their way to the API server
    ca           \* CertificateAuthority.Certificate: "unset", "valid" or "expired"

vars == <<api, conn, session, store, queue, call, requests, ca>>
client == <<conn, session, store, queue, call>>

-----------------------------------------------------------------------------
(* Certificates and objects.  A certificate is named by the pointer it was *)
(* signed from: no pointer is ever signed twice (see Signable).            *)

\* K8SSigner's certificates: who signed, and from which pointer
Certs == [by : Replicas, rv : 1..MaxRV, session : 1..MaxLists]

\* A CertificateSigningRequest at the API server: its spec never changes; born is the resource
\* version its present incarnation was created at
Objects == [live : BOOLEAN, rv : 0..MaxRV, born : 0..MaxRV, kind : Kinds \cup {NoKind},
            approved : BOOLEAN, denied : BOOLEAN, cert : Certs \cup {NoCert}]

\* A decoded object: resource version, session, spec and status as received
Pointers == [rv : 1..MaxRV, session : 1..MaxLists, kind : Kinds \cup {NoKind},
             approved : BOOLEAN, denied : BOOLEAN, cert : Certs \cup {NoCert}]

Notices == [csr : CSRs, obj : Pointers]

\* An UpdateStatus request: the object it carries, its own rv as precondition
Requests == [csr : CSRs, by : Replicas, rv : 1..MaxRV, session : 1..MaxLists,
             approved : BOOLEAN, denied : BOOLEAN, cert : Certs]

\* The markers are none of the values they stand in for
ASSUME MarkersAssumption ==
    /\ NoCert \notin Certs /\ NoObject \notin Certs /\ NoObject # NoCert
    /\ NoObject \notin [kind : Kinds \cup {NoKind}, cert : Certs \cup {NoCert}]
    /\ NoObject \notin Pointers /\ NoCall \notin Requests

Decoded(o, s) == [rv |-> o.rv, session |-> s, kind |-> o.kind,
                  approved |-> o.approved, denied |-> o.denied, cert |-> o.cert]

\* The certificate replica r makes from pointer p
CertFor(r, p) == [by |-> r, rv |-> p.rv, session |-> p.session]

\* Fault: objects are told apart by name only
SameName(p, x) == TRUE

\* Two cached versions of one name are the same object in memory
SameObject(p, x) == x.rv = p.rv /\ x.session = p.session

\* What is seen at x once the handler of r has set p.Status.Certificate
WithCert(r, p, x) ==
    IF x # NoObject /\ SameObject(p, x) THEN [x EXCEPT !.cert = CertFor(r, p)] ELSE x

\* The same for a queued notification, when p is an object of name c
Seen(r, c, p, n) ==
    IF n.csr = c THEN [n EXCEPT !.obj = WithCert(r, p, n.obj)] ELSE n

-----------------------------------------------------------------------------
\* CertificateAuthority.Init reads Chain and Roots and drops what it parsed: the
\* program that makes the CA sets Certificate itself, or nothing does
CAs == {"unset", "valid"}

Absent == [live |-> FALSE, rv |-> 0, born |-> 0, kind |-> NoKind,
           approved |-> FALSE, denied |-> FALSE, cert |-> NoCert]

Init ==
    /\ api = [c \in CSRs |-> Absent]
    /\ conn = [r \in Replicas |-> FALSE]
    /\ session = [r \in Replicas |-> 0]
    /\ store = [r \in Replicas |-> [c \in CSRs |-> NoObject]]
    /\ queue = [r \in Replicas |-> << >>]
    /\ call = [r \in Replicas |-> NoCall]
    /\ requests = {}
    /\ ca \in CAs

(***************************************************************************)
(* The API server writes version o of request c, and every connected watch *)
(* delivers it: a live object replaces the stored one and is queued for    *)
(* OnAdd or OnUpdate (OnAdd calls OnUpdate); a deletion empties the store  *)
(* and is queued for OnDelete, which does nothing and is left out.         *)
(***************************************************************************)
Write(c, o) ==
    /\ api' = [api EXCEPT ![c] = o]
    /\ store' = [r \in Replicas |->
          IF conn[r]
          THEN [store[r] EXCEPT ![c] = IF o.live THEN Decoded(o, session[r]) ELSE NoObject]
          ELSE store[r]]
    /\ queue' = [r \in Replicas |->
          IF conn[r] /\ o.live
          THEN Append(queue[r], [csr |-> c, obj |-> Decoded(o, session[r])])
          ELSE queue[r]]

\* Users and approvers.  Each write takes the next resource version.
UserCreate(c) ==
    /\ ~api[c].live /\ api[c].rv + 1 < MaxRV
    /\ \E k \in Kinds :
          Write(c, [Absent EXCEPT !.live = TRUE, !.rv = api[c].rv + 1,
                                  !.born = api[c].rv + 1, !.kind = k])
    /\ UNCHANGED <<conn, session, call, requests, ca>>

UserApprove(c) ==
    /\ api[c].live /\ api[c].rv + 1 < MaxRV
    /\ ~api[c].approved /\ ~api[c].denied
    /\ Write(c, [api[c] EXCEPT !.rv = @ + 1, !.approved = TRUE])
    /\ UNCHANGED <<conn, session, call, requests, ca>>

UserDeny(c) ==
    /\ api[c].live /\ api[c].rv + 1 < MaxRV
    /\ ~api[c].approved /\ ~api[c].denied
    /\ Write(c, [api[c] EXCEPT !.rv = @ + 1, !.denied = TRUE])
    /\ UNCHANGED <<conn, session, call, requests, ca>>

UserDelete(c) ==
    /\ api[c].live
    /\ Write(c, [Absent EXCEPT !.rv = api[c].rv])
    /\ UNCHANGED <<conn, session, call, requests, ca>>

-----------------------------------------------------------------------------
(* The informer's sessions.                                                *)

\* The notifications for the names in order, each with its object in cache
Notify(order, cache) ==
    [i \in 1..Len(order) |-> [csr |-> order[i], obj |-> cache[order[i]]]]

\* The names a cache holds an object of
Held(cache) == {c \in CSRs : cache[c] # NoObject}

\* What a list made in session s puts in the store
Listed(s) == [c \in CSRs |-> IF api[c].live THEN Decoded(api[c], s) ELSE NoObject]

\* List and watch again: every object is decoded afresh and notified, in the
\* order the server lists them; what is gone leaves the store.
Relist(r) ==
    /\ ~conn[r] /\ session[r] < MaxLists
    /\ conn' = [conn EXCEPT ![r] = TRUE]
    /\ session' = [session EXCEPT ![r] = @ + 1]
    /\ store' = [store EXCEPT ![r] = Listed(session[r] + 1)]
    /\ \E order \in SetToSeqs(Held(Listed(session[r] + 1))) :
          queue' = [queue EXCEPT ![r] = @ \o Notify(order, Listed(session[r] + 1))]
    /\ UNCHANGED <<api, call, requests, ca>>

Disconnect(r) ==
    /\ conn[r] /\ session[r] < MaxLists
    /\ conn' = [conn EXCEPT ![r] = FALSE]
    /\ UNCHANGED <<api, session, store, queue, call, requests, ca>>

\* The periodic resync notifies the stored pointers again.
Resync(r) ==
    /\ r \in Resyncing /\ conn[r] /\ Held(store[r]) # {}
    /\ Len(queue[r]) + Cardinality(Held(store[r])) <= MaxQueue
    /\ \E order \in SetToSeqs(Held(store[r])) :
          queue' = [queue EXCEPT ![r] = @ \o Notify(order, store[r])]
    /\ UNCHANGED <<api, conn, session, store, call, requests, ca>>

\* The process dies and starts over with an empty cache; a request it had
\* sent may still arrive.
Crash(r) ==
    /\ session[r] \in 1..(MaxLists - 1)
    /\ conn' = [conn EXCEPT ![r] = FALSE]
    /\ store' = [store EXCEPT ![r] = [c \in CSRs |-> NoObject]]
    /\ queue' = [queue EXCEPT ![r] = << >>]
    /\ call' = [call EXCEPT ![r] = NoCall]
    /\ requests' \in {requests, requests \ {call[r]}}
    /\ UNCHANGED <<api, session, ca>>

CAExpires ==
    /\ ca = "valid" /\ ca' = "expired"
    /\ UNCHANGED <<api, client, requests>>

-----------------------------------------------------------------------------
(* The handler.                                                            *)

\* isCertificateRequestApproved: approved and not denied.
isCertificateRequestApproved(p) == p.approved /\ ~p.denied

\* SignCSR makes a certificate: the request's own signature verifies, and the
\* CA certificate has not expired.
SignCSR(p) == p.kind \in SelfSigned /\ ca = "valid"

\* Sign reads the fields of a nil Certificate
SignPanics(p) == p.kind \in SelfSigned /\ ca = "unset"

\* Fault: the signer name is not looked at
SignableAnyName(p) == p.kind \in Parses /\ p.cert = NoCert

\* Fault: no check that a certificate is there
SignableAgain(p) == p.kind \in Parses /\ p.kind \in Ours

\* OnUpdate gets as far as SignCSR: the request parses, is addressed to this
\* signer and has no certificate in the cached copy.  The approval is looked
\* at, but only logged.
Signable(p) == p.kind \in Parses /\ p.kind \in Ours /\ p.cert = NoCert

\* Fault: the precondition is refreshed, the status is not
StatusUpdateRefreshed(r, c, p) ==
    [csr |-> c, by |-> r, rv |-> IF api[c].live THEN api[c].rv ELSE p.rv,
     session |-> p.session,
     approved |-> p.approved, denied |-> p.denied, cert |-> CertFor(r, p)]

\* Fault: the object is sent before its certificate is set
StatusUpdateUnset(r, c, p) ==
    [csr |-> c, by |-> r, rv |-> p.rv, session |-> p.session,
     approved |-> p.approved, denied |-> p.denied, cert |-> p.cert]

\* The object UpdateStatus sends: the cached one, certificate set, with the
\* resource version it was received at
StatusUpdate(r, c, p) ==
    [csr |-> c, by |-> r, rv |-> p.rv, session |-> p.session,
     approved |-> p.approved, denied |-> p.denied, cert |-> CertFor(r, p)]

\* OnUpdate returns without a call
OnUpdateIgnore(r) ==
    /\ call[r] = NoCall /\ queue[r] # << >>
    /\ LET p == Head(queue[r]).obj
       IN Signable(p) => ~SignCSR(p) /\ ~SignPanics(p)
    /\ queue' = [queue EXCEPT ![r] = Tail(@)]
    /\ UNCHANGED <<api, conn, session, store, call, requests, ca>>

\* OnUpdate signs, sets Status.Certificate in the shared object and blocks in
\* UpdateStatus, which sends that object with its resource version
OnUpdateSign(r) ==
    /\ call[r] = NoCall /\ queue[r] # << >>
    /\ LET c == Head(queue[r]).csr
           p == Head(queue[r]).obj
       IN /\ Signable(p) /\ SignCSR(p)
          /\ store' = [store EXCEPT ![r][c] = WithCert(r, p, @)]
          /\ queue' = [queue EXCEPT ![r] =
                [i \in 1..(Len(@) - 1) |-> Seen(r, c, p, @[i + 1])]]
          /\ call' = [call EXCEPT ![r] = StatusUpdate(r, c, p)]
          /\ requests' = requests \cup {StatusUpdate(r, c, p)}
    /\ UNCHANGED <<api, conn, session, ca>>

\* OnUpdate panics in Sign, and takes the process with it
OnUpdatePanics(r) ==
    /\ call[r] = NoCall /\ queue[r] # << >>
    /\ Signable(Head(queue[r]).obj) /\ SignPanics(Head(queue[r]).obj)
    /\ conn' = [conn EXCEPT ![r] = FALSE]
    /\ store' = [store EXCEPT ![r] = [c \in CSRs |-> NoObject]]
    /\ queue' = [queue EXCEPT ![r] = << >>]
    /\ UNCHANGED <<api, session, call, requests, ca>>

-----------------------------------------------------------------------------
(* UpdateStatus at the API server, and back.                               *)

\* The object exists at the version the request names: its status is replaced
Accepts(q) == api[q.csr].live /\ api[q.csr].rv = q.rv

UpdateStatusApplied(q) ==
    /\ Accepts(q) /\ q.rv < MaxRV
    /\ Write(q.csr, [api[q.csr] EXCEPT !.rv = @ + 1, !.cert = q.cert,
                              !.approved = q.approved, !.denied = q.denied])
    /\ requests' = requests \ {q}
    /\ UNCHANGED <<conn, session, call, ca>>

\* Otherwise the answer is NotFound or Conflict
UpdateStatusRefused(q) ==
    /\ ~Accepts(q)
    /\ requests' = requests \ {q}
    /\ UNCHANGED <<api, client, ca>>

\* The answer is in: success and error both end the handler
UpdateStatusReturns(r) ==
    /\ call[r] # NoCall /\ call[r] \notin requests
    /\ call' = [call EXCEPT ![r] = NoCall]
    /\ UNCHANGED <<api, conn, session, store, queue, requests, ca>>

\* The connection breaks first: the handler returns, the request is lost or late
UpdateStatusFails(r) ==
    /\ call[r] # NoCall /\ call[r] \in requests
    /\ call' = [call EXCEPT ![r] = NoCall]
    /\ requests' \in {requests, requests \ {call[r]}}
    /\ UNCHANGED <<api, conn, session, store, queue, ca>>

-----------------------------------------------------------------------------
Environment ==
    \/ \E c \in CSRs : \/ UserCreate(c) \/ UserApprove(c)
                       \/ UserDeny(c) \/ UserDelete(c)
    \/ \E r \in Replicas : Disconnect(r) \/ Resync(r) \/ Crash(r) \/ UpdateStatusFails(r)
    \/ CAExpires

Server == \E q \in requests : UpdateStatusApplied(q) \/ UpdateStatusRefused(q)

Controller(r) == \/ Relist(r) \/ OnUpdateIgnore(r) \/ OnUpdateSign(r)
                 \/ OnUpdatePanics(r) \/ UpdateStatusReturns(r)

Next == Environment \/ Server \/ \E r \in Replicas : Controller(r)

Spec == Init /\ [][Next]_vars

(***************************************************************************)
(* Fairness: a replica in which a goroutine can run (the reflector, the    *)
(* handler) runs one, and the API server answers what reaches it.          *)
(* Users, crashes, resyncs and broken connections owe nothing.             *)
(***************************************************************************)
FairSpec ==
    /\ Spec
    /\ WF_vars(Server)
    /\ \A r \in Replicas : WF_vars(Controller(r))

-----------------------------------------------------------------------------
(* Properties.                                                             *)

\* Every variable has its type.
TypeOK ==
    /\ api \in [CSRs -> Objects]
    /\ conn \in [Replicas -> BOOLEAN]
    /\ session \in [Replicas -> 0..MaxLists]
    /\ store \in [Replicas -> [CSRs -> Pointers \cup {NoObject}]]
    /\ queue \in [Replicas -> Seq(Notices)]
    /\ call \in [Replicas -> Requests \cup {NoCall}]
    /\ requests \subseteq Requests
    /\ ca \in CAs \cup {"expired"}

Answerable == Ours \cap Parses \cap SelfSigned

\* The certificate on an object was signed from that incarnation of it: a
\* cached copy, or a request still under way, of a deleted object never
\* certifies the object created after it under the same name (OnUpdate sends
\* the resource version it received, csr_controller.go:77).
CertificateOfThisIncarnation ==
    \A c \in CSRs : api[c].cert # NoCert => /\ api[c].live
                                         /\ api[c].cert.rv >= api[c].born

\* UpdateStatus replaces the whole status with the cached one; it never takes
\* back an approval or a denial that was written after the copy was cached.
KeepsConditions ==
    \A c \in CSRs :
       api[c].live /\ api'[c].live =>
          /\ api[c].approved => api'[c].approved
          /\ api[c].denied => api'[c].denied

ConditionsKept == [][KeepsConditions]_vars

\* Seen from the API server, replicas, stale caches, conflicts, crashes and
\* late requests together still issue at most one certificate per object, and
\* only for the requests OnUpdate lets through: a request of another kind that
\* is created under the name of one being signed gets none.
lifeOfAPI == [c \in CSRs |-> IF api[c].live
                             THEN [kind |-> api[c].kind, cert |-> api[c].cert]
                             ELSE NoObject]

Lifecycle == INSTANCE CSRLifecycle WITH Absent <- NoObject, life <- lifeOfAPI

ImplementsLifecycle == Lifecycle!Spec

Pending(c) == api[c].live /\ api[c].cert = NoCert /\ api[c].kind \in Answerable

\* Every replica has set the certificate of its copy of the present version, so
\* it will not sign it again, and no request is left that could still be applied.
Stranded(c) ==
    /\ \A r \in Replicas :
          /\ store[r][c] # NoObject /\ store[r][c].rv = api[c].rv
          /\ store[r][c].cert = CertFor(r, store[r][c])
    /\ ~ \E q \in requests : q.csr = c /\ Accepts(q)

\* A request the controller may answer is signed (or deleted), however many
\* conflicts, crashes and reconnections there are: a conflict alone is always
\* made good by the event of the write that caused it.  Only a call that broke
\* off in every replica, or a CA that is expired or unset, leaves it pending.
EventuallySigned ==
    \A c \in CSRs : Pending(c) ~> (~Pending(c) \/ Stranded(c) \/ ca # "valid")

\* The early return at csr_controller.go:60-63 says "already signed": when
\* OnUpdate takes it for the present version of an object and no call for it
\* is under way, the object at the API server has a certificate.
AlreadySigned ==
    \A r \in Replicas :
       call[r] = NoCall /\ queue[r] # << >> =>
          LET c == Head(queue[r]).csr
              p == Head(queue[r]).obj
          IN p.kind \in Parses \cap Ours /\ p.cert # NoCert
                /\ api[c].live /\ api[c].rv = p.rv
             => api[c].cert # NoCert

\* "CSR is not approved, Ignoring." (csr_controller.go:65): no certificate is
\* made from a copy that was not approved, or was denied.
OnlyApprovedSigned ==
    \A q \in requests : isCertificateRequestApproved(q)
=============================================================================
