----------------------------- MODULE IPWatcher -----------------------------
(***************************************************************************)
(* The IP-to-pod index of pkg/ip: K8SData's informer handlers              *)
(* (ipdata.go) and the watcher that starts them (shared_informer.go).      *)
(*                                                                         *)
(* The informer is external: client-go's reflector, DeltaFIFO, indexer and *)
(* listener.  DeltaFIFO keeps the changes of each pod together, at the     *)
(* place of the first that is not handled: pods take turns in an order     *)
(* that may not be the one they changed in.  Pop hands all that is pending *)
(* for one pod to the indexer and the listener, whose FIFO the handlers    *)
(* work off.  The watch stream is not kept apart: what is delivered late   *)
(* is as if it had changed late.  A pod object is its name and             *)
(* Status.PodIP, which several pods may have: those of a node's network,   *)
(* or one that has ended and one that runs.                                *)
(***************************************************************************)
EXTENDS Integers, Sequences, FiniteSets, SequencesExt

CONSTANTS
    Pods,        \* pod names
    IPs,         \* pod addresses
    NoIP,        \* an empty Status.PodIP
    NoPod,       \* no object: of that name, under that key
    MaxWrites,   \* bound: changes of pods at the API server
    MaxLists,    \* bound: list-and-watch sessions
    MaxQueue     \* bound: queue length up to which a resync still happens

ASSUME ConstantsAssumption ==
    /\ IsFiniteSet(Pods)
    /\ NoIP \notin IPs /\ NoPod \notin IPs \cup {NoIP} /\ NoPod \notin Pods
    /\ MaxWrites \in Nat /\ MaxLists \in Nat /\ MaxQueue \in Nat

Addresses == IPs \cup {NoIP}

\* The two K8SData objects there are: the one newK8SWatcher makes and the one
\* the caller of Start passes
DataObjects == {"internal", "kd"}

VARIABLES
    api,         \* PodIP of each pod at the API server, or NoPod
    writes,      \* how many times a pod has changed
    conn,        \* whether the pod watch is connected
    lists,       \* list-and-watch sessions so far
    fifo,        \* DeltaFIFO's queue: pods with something pending
    deltas,      \* DeltaFIFO's items: what is pending for each pod
    popping,     \* Pop is at work on the first pod and has the FIFO's lock
    unpopped,    \* pods of the first list that Pop has not handed on
    store,       \* the pod informer's indexer
    queue,       \* the listener's notifications not yet handled
    data,        \* the contents of each K8SData
    handler,     \* the K8SData registered with AddEventHandler, or "none"
    current,     \* the K8SIPWatcher's embedded K8SData, or "none"
    phase,       \* of Start: "new", "running", "failed"
    stopped,     \* the watcher's Stop channel is closed
    left,        \* history: the addresses pods have left, but for deletions the
                 \* watch has reported
    contested,   \* history: the addresses that two pods of the indexer have had
                 \* at once, until one that has it alone is told of again
    missed       \* history: how many pods were handed on as tombstones

cluster == <<api, writes, left>>
fifoVars == <<fifo, deltas, popping, unpopped>>
indexer == <<store, contested, missed>>
session == <<conn, lists>>
watcher == <<handler, current, phase, stopped>>
informer == <<session, fifoVars, indexer, queue>>
vars == <<cluster, informer, data, watcher>>

K8SData == [ipToSrc : [Addresses -> Pods \cup {NoPod}],
            podInfo : [Pods -> Addresses \cup {NoPod}],
            pods : Nat, synced : BOOLEAN]

EmptyData == [ipToSrc |-> [a \in Addresses |-> NoPod],
              podInfo |-> [p \in Pods |-> NoPod],
              pods |-> 0, synced |-> FALSE]

\* Added, Updated, Replaced and Sync are handled alike.  A "tombstone" is
\* a Deleted with a DeletedFinalStateUnknown.
Deltas == [kind : {"changed", "deleted", "tombstone"}, ip : Addresses]

Kinds == {"add", "update", "delete", "tombstone"}
Notices == [kind : Kinds, pod : Pods, ip : Addresses]

Live(objects) == {p \in Pods : objects[p] # NoPod}

Init ==
    /\ api \in [Pods -> Addresses \cup {NoPod}] /\ writes = 0
    /\ conn = FALSE /\ lists = 0
    /\ fifo = << >> /\ deltas = [p \in Pods |-> << >>]
    /\ popping = FALSE /\ unpopped = {}
    /\ store = [p \in Pods |-> NoPod]
    /\ queue = << >>
    /\ data = [d \in DataObjects |-> EmptyData]
    /\ handler = "none" /\ current = "none"
    /\ phase = "new" /\ stopped = FALSE
    /\ left = {} /\ contested = {} /\ missed = 0

-----------------------------------------------------------------------------
(* K8SData's handlers, as functions of the data they update.  The node     *)
(* cases only log.                                                         *)

\* Fault: pods that have no address yet are left out
OnAddWithIP(d, p, ip) ==
    IF ip = NoIP THEN d
    ELSE [d EXCEPT !.podInfo[p] = ip, !.pods = @ + 1, !.ipToSrc[ip] = p]

\* Fault: the count is forgotten
OnAddUncounted(d, p, ip) ==
    [d EXCEPT !.podInfo[p] = ip,
              !.ipToSrc = IF ip # NoIP THEN [@ EXCEPT ![ip] = p] ELSE @]

OnAdd(d, p, ip) ==
    [d EXCEPT !.podInfo[p] = ip,
              !.pods = @ + 1,
              !.ipToSrc = IF ip # NoIP THEN [@ EXCEPT ![ip] = p] ELSE @]

\* Fault: updates are only logged
OnUpdateLogged(d, p, ip) == d

\* Fault: an address that is taken is left to the pod it leads to
OnUpdateIfFree(d, p, ip) == IF d.ipToSrc[ip] = NoPod THEN [d EXCEPT !.ipToSrc[ip] = p] ELSE d

\* The new object is stored under its address, the empty one included; the
\* old address and PodInfo keep what they have
OnUpdate(d, p, ip) == [d EXCEPT !.ipToSrc[ip] = p]

\* Fault: a deletion is not subtracted
OnDeleteUncounted(d, p, ip) ==
    [d EXCEPT !.ipToSrc = IF ip # NoIP THEN [@ EXCEPT ![ip] = NoPod] ELSE @]

\* Fault: a deletion leaves the address
OnDeleteKeepsAddress(d, p, ip) == [d EXCEPT !.pods = @ - 1]

\* PodInfo keeps the pod
OnDelete(d, p, ip) ==
    [d EXCEPT !.pods = @ - 1,
              !.ipToSrc = IF ip # NoIP THEN [@ EXCEPT ![ip] = NoPod] ELSE @]

\* Fault: a tombstone is unwrapped and handled like the deletion it reports
OnTombstoneDeleted(d, p, ip) == OnDelete(d, p, ip)

\* DeletedFinalStateUnknown is neither a Pod nor a Node: no case takes it
OnTombstone(d, p, ip) == d

Handled(d, n) ==
    CASE n.kind = "add"       -> OnAdd(d, n.pod, n.ip)
      [] n.kind = "update"    -> OnUpdate(d, n.pod, n.ip)
      [] n.kind = "delete"    -> OnDelete(d, n.pod, n.ip)
      [] n.kind = "tombstone" -> OnTombstone(d, n.pod, n.ip)

Handle ==
    /\ queue # << >>
    /\ data' = [data EXCEPT ![handler] = Handled(@, Head(queue))]
    /\ queue' = Tail(queue)
    /\ UNCHANGED <<cluster, session, fifoVars, indexer, watcher>>

-----------------------------------------------------------------------------
(* DeltaFIFO: what is pending, and Pop.                                    *)

\* The pod after the delta
After(d) == IF d.kind = "changed" THEN d.ip ELSE NoPod

\* The pod as the informer knows it once all that is pending is handled
Told(p) == IF deltas[p] = << >> THEN store[p] ELSE After(Last(deltas[p]))

Idle == {p \in Pods : deltas[p] = << >>}

Shared(objects) == {ip \in IPs : \E p, q \in Pods : p # q /\ objects[p] = ip /\ objects[q] = ip}

\* How processDeltas notifies of a delta of pod p
Notice(p, d) ==
    [kind |-> CASE d.kind = "changed" /\ store[p] = NoPod -> "add"
                [] d.kind = "changed" /\ store[p] # NoPod -> "update"
                [] d.kind = "deleted" -> "delete"
                [] OTHER -> "tombstone",
     pod |-> p, ip |-> d.ip]

\* Pop takes the first pod and handles all that is pending for it, one delta
\* at a time, under the lock that every other use of the FIFO needs
PopDelta ==
    /\ fifo # << >>
    /\ LET p == Head(fifo)
           d == Head(deltas[p])
           rest == Tail(deltas[p])
       IN  /\ deltas' = [deltas EXCEPT ![p] = rest]
           /\ popping' = (rest # << >>)
           /\ IF rest = << >>
              THEN fifo' = Tail(fifo) /\ unpopped' = unpopped \ {p}
              ELSE UNCHANGED <<fifo, unpopped>>
           /\ store' = [store EXCEPT ![p] = After(d)]
           /\ queue' = Append(queue, Notice(p, d))
           /\ contested' = Shared(store') \cup (contested \ {After(d)})
           /\ missed' = IF d.kind = "tombstone" THEN missed + 1 ELSE missed
    /\ UNCHANGED <<cluster, session, data, watcher>>

-----------------------------------------------------------------------------
(* The cluster, and the reflector that fills the FIFO.                     *)

\* How a watch reports that pod p went from was to is
Event(was, is) ==
    IF is = NoPod THEN [kind |-> "deleted", ip |-> was] ELSE [kind |-> "changed", ip |-> is]

PodChanges(p, is) ==
    /\ writes < MaxWrites /\ writes' = writes + 1
    /\ api[p] # NoPod \/ is # NoPod
    /\ api' = [api EXCEPT ![p] = is]
    /\ IF conn
       THEN /\ ~popping
            /\ deltas' = [deltas EXCEPT ![p] = Append(@, Event(api[p], is))]
            /\ fifo' = IF p \in Idle THEN Append(fifo, p) ELSE fifo
       ELSE UNCHANGED <<deltas, fifo>>
    /\ left' = IF api[p] \in IPs /\ api[p] # is /\ ~(conn /\ is = NoPod)
               THEN left \cup {<<p, api[p]>>} ELSE left
    /\ UNCHANGED <<session, popping, unpopped, indexer, queue, data, watcher>>

\* What Replace leaves pending for p: each listed pod is told; one that is not
\* listed is told as deleted, with its last known state, unless that is pending
Replaced(p) ==
    IF api[p] # NoPod THEN Append(deltas[p], [kind |-> "changed", ip |-> api[p]])
    ELSE IF Told(p) # NoPod THEN Append(deltas[p], [kind |-> "tombstone", ip |-> Told(p)])
    ELSE deltas[p]

Listed == {p \in Idle : api[p] # NoPod}
Gone == {p \in Idle : api[p] = NoPod /\ store[p] # NoPod}

\* List, replace, watch.  What is listed first is what HasSynced waits for.
Relist ==
    /\ phase = "running" /\ ~stopped
    /\ ~conn /\ lists < MaxLists
    /\ ~popping
    /\ conn' = TRUE /\ lists' = lists + 1
    /\ deltas' = [p \in Pods |-> Replaced(p)]
    /\ \E listed \in SetToSeqs(Listed), gone \in SetToSeqs(Gone) :
          fifo' = fifo \o listed \o gone
    /\ unpopped' = IF lists = 0 THEN Live(api) ELSE unpopped
    /\ UNCHANGED <<cluster, popping, indexer, queue, data, watcher>>

Disconnect ==
    /\ conn /\ lists < MaxLists
    /\ conn' = FALSE
    /\ UNCHANGED <<cluster, lists, fifoVars, indexer, queue, data, watcher>>

\* The daily resync tells of every stored pod that has nothing pending
Resynced == {p \in Idle : store[p] # NoPod}

Resync ==
    /\ conn /\ ~popping
    /\ Resynced # {} /\ Len(queue) <= MaxQueue
    /\ deltas' = [p \in Pods |-> IF p \in Resynced
                                 THEN <<[kind |-> "changed", ip |-> store[p]]>>
                                 ELSE deltas[p]]
    /\ \E order \in SetToSeqs(Resynced) : fifo' = fifo \o order
    /\ UNCHANGED <<cluster, session, popping, unpopped, indexer, queue, data, watcher>>

-----------------------------------------------------------------------------
(* Start and WaitForInit.                                                  *)

\* newK8SWatcher makes a K8SData and registers it; Start then replaces the
\* watcher's K8SData by the caller's and starts the informers.
Start ==
    /\ phase = "new"
    /\ handler' = "internal"
    /\ current' = "kd"
    /\ phase' = "running"
    /\ UNCHANGED <<cluster, informer, data, stopped>>

\* NewForConfig rejects the configuration
StartFails ==
    /\ phase = "new" /\ phase' = "failed"
    /\ UNCHANGED <<cluster, informer, data, handler, current, stopped>>

\* The pod informer's HasSynced: Pop has handed on all of the first list
HasSynced == lists > 0 /\ unpopped = {}

\* WaitForInit comes back without an error, if the node informer, which is left
\* to chance, has synced too.  An error, once the channel that is passed to it
\* closes (not the watcher's Stop), changes nothing.
WaitForInit ==
    /\ phase = "running" /\ HasSynced
    /\ data' = [data EXCEPT ![current].synced = TRUE]
    /\ UNCHANGED <<cluster, informer, watcher>>

\* The watcher's Stop is closed: the reflector ends
CloseStop ==
    /\ phase = "running" /\ ~stopped
    /\ stopped' = TRUE /\ conn' = FALSE
    /\ UNCHANGED <<cluster, lists, fifoVars, indexer, queue, data, handler, current, phase>>

Next ==
    \/ \E p \in Pods, is \in Addresses \cup {NoPod} : PodChanges(p, is)
    \/ Relist \/ Disconnect \/ Resync \/ PopDelta \/ Handle
    \/ Start \/ StartFails \/ WaitForInit \/ CloseStop

Spec == Init /\ [][Next]_vars

\* Until Stop closes the reflector reconnects and resyncs every 24 hours, and
\* the goroutines of the FIFO and of the listener run.
FairSpec ==
    /\ Spec
    /\ WF_vars(Relist)
    /\ WF_vars(Resync)
    /\ WF_vars(PopDelta /\ ~stopped)
    /\ WF_vars(Handle /\ ~stopped)

-----------------------------------------------------------------------------
(* Properties.                                                             *)

\* Every variable has its type; Pods.Load() is never negative.
TypeOK ==
    /\ api \in [Pods -> Addresses \cup {NoPod}]
    /\ writes \in 0..MaxWrites
    /\ conn \in BOOLEAN /\ lists \in 0..MaxLists
    /\ fifo \in Seq(Pods) /\ deltas \in [Pods -> Seq(Deltas)]
    /\ popping \in BOOLEAN /\ unpopped \subseteq Pods
    /\ store \in [Pods -> Addresses \cup {NoPod}]
    /\ queue \in Seq(Notices)
    /\ data \in [DataObjects -> K8SData]
    /\ handler \in {"none", "internal"} /\ current \in {"none", "kd"}
    /\ phase \in {"new", "running", "failed"}
    /\ stopped \in BOOLEAN
    /\ left \subseteq Pods \X IPs /\ contested \subseteq IPs /\ missed \in Nat

Fed == data["internal"]

Queued(kind) == Cardinality({i \in DOMAIN queue : queue[i].kind = kind})

\* What Pods will be once the queue is handled
PodsToBe == Fed.pods + Queued("add") - Queued("delete")

\* OnAdd and OnDelete keep Pods a count that, with what is still queued, never
\* falls below the pods the informer knows: disconnections and relists can
\* make it too high (a tombstone is not subtracted) but never too low.
PodsNeverUndercounted ==
    PodsToBe >= Cardinality(Live(store))

\* The count is wrong by the pods that relists have found gone, each counted for
\* good because OnDelete ignores its tombstone, and by nothing else, however
\* resyncs, changes, disconnections and lists are mixed.
PodsMiscountedByMissed ==
    queue = << >> => Fed.pods = Cardinality(Live(store)) + missed

Resolves(d, p) == store[p] \in IPs => d.ipToSrc[store[p]] = p

\* When every notification is handled, each known pod is in PodInfo, and its
\* address leads to it unless the indexer has had another pod at that address
\* at the same time and the pod has not been told of again since it is alone:
\* OnDelete removes an address without a look at whose entry it is, and nothing
\* else loses one, whatever order DeltaFIFO hands pods on in.
IndexMissesOnlyContested ==
    queue = << >> =>
        \A p \in Live(store) :
            Fed.podInfo[p] # NoPod /\ (store[p] \notin contested => Resolves(Fed, p))

\* When every notification is handled, IPToSrc is out of date only at addresses
\* that the pod has left for another, which OnUpdate does not look at, or while
\* the watch was broken: no other entry outlives its pod, and none ever leads
\* to a pod that was not there.
IndexStaleOnlyIfLeft ==
    queue = << >> =>
        \A ip \in IPs : Fed.ipToSrc[ip] # NoPod =>
            LET p == Fed.ipToSrc[ip] IN store[p] = ip \/ <<p, ip>> \in left

\* Notifications that store a pod under its address
Stores == {"add", "update"}

\* Notification n makes address a lead to p; makes it lead elsewhere
Puts(n, a, p) == n.kind \in Stores /\ n.ip = a /\ n.pod = p
Undoes(n, a, p) == n.ip = a /\ ((n.kind \in Stores /\ n.pod # p) \/ n.kind = "delete")

\* With index x and notifications q to come, a leads to p in the end
Leads(x, q, a, p) ==
    \/ x[a] = p /\ \A i \in 1..Len(q) : ~Undoes(q[i], a, p)
    \/ \E i \in 1..Len(q) :
          /\ Puts(q[i], a, p)
          /\ \A j \in 1..Len(q) : i < j => ~Undoes(q[j], a, p)

\* Where each address leads in the end
Led(x, q) == [a \in IPs |-> IF \E p \in Pods : Leads(x, q, a, p)
                            THEN CHOOSE p \in Pods : Leads(x, q, a, p)
                            ELSE NoPod]

IndexToBe == Led(Fed.ipToSrc, queue)

\* K8SData keeps its promise: what is queued already settles the index and the
\* count, as if each change had been applied when the indexer took it.  The
\* notifications wait in the listener, and the handlers run later beside Pop,
\* without any effect on the outcome; and every deletion that is told names the
\* address the indexer had for the pod.
Index == INSTANCE PodIndex WITH known <- store, index <- IndexToBe, count <- PodsToBe

ImplementsIndex == Index!Spec

AloneAt(p, ip) == api[p] = ip /\ \A other \in Pods : api[other] = ip => other = p

\* An address that stays with one pod is found in the end, and stays found:
\* also when a deletion that was handed on late has removed it, for then a
\* resync brings it back.
EventuallyFound ==
    \A p \in Pods, ip \in IPs :
        <>[](phase = "running" /\ ~stopped /\ AloneAt(p, ip))
            => <>[](Fed.ipToSrc[ip] = p)

\* "User data structures and callbacks" (shared_informer.go:34): after
\* WaitForInit, the K8SData passed to Start has the pods the informer knows.
UserDataFed ==
    phase = "running" /\ data[current].synced /\ queue = << >> =>
        \A p \in Live(store) : data[current].podInfo[p] # NoPod

\* "OnDelete will get [...] an object of type DeletedFinalStateUnknown"
\* (ipdata.go:27-30): each deletion, however it is reported, is subtracted.
PodsCounted == queue = << >> => Fed.pods = Cardinality(Live(store))

\* "K8SIPWatcher watches pods [...] to find IPs" (shared_informer.go:20): when
\* every notification is handled, each address of a pod the informer knows leads
\* to some pod.
AddressFound ==
    queue = << >> =>
        \A p \in Live(store) : store[p] \in IPs => Fed.ipToSrc[store[p]] # NoPod
=============================================================================
