# Formal models of mk8s

TLA+ models, TLC runs and TLAPS proofs for `github.com/costinm/mk8s`: the CSR
signing controller, the pod IP index and its watcher, the cluster set loaded
from kubeconfig and the pod environment, the discovery of GKE and hub clusters
on top of it, a cluster used by several goroutines, the transport that adds
tokens to requests, and the telemetry tools with their log stream.

## The system

mk8s is a library of loosely coupled parts around client-go.

| Part | Source | State it keeps | Operations | Modelled in |
|---|---|---|---|---|
| CSR signing controller | `pkg/csrctrl/csr_controller.go` | none of its own; it writes into the objects of the shared informer's cache | `OnAdd`, `OnUpdate`, `OnDelete`, `NewK8SSigner` | `CSRController`, `CSRLifecycle` |
| Certificate authority | `pkg/csrctrl/authority.go` | key, chain, `Certificate` | `Init`, `Sign`, `SignCSR` | `Init` and the outcome of `SignCSR`, in `CSRController` |
| Pod IP index | `pkg/ip/ipdata.go` | `IPToSrc`, `PodInfo`, `Pods`, `synced` | `OnAdd`, `OnUpdate`, `OnDelete` | `IPWatcher`, `PodIndex` |
| IP watcher | `pkg/ip/shared_informer.go` | informers, the embedded `K8SData`, the stop channel | `Start`, `WaitForInit` | `IPWatcher` |
| Cluster set | `kube.go`, `kubeconfig.go` | `ByName`, `Default` | `New`, `init`, `LoadKubeConfig`, `loadInCluster` | `ClusterSet` |
| One cluster | `kube_cluster.go` | lazy `client`, cached `project`/`location`/`name`, `KSA` | `Client`, `RunAs`, `GetToken`, `GetCM`, `GetSecret`, `Label`, `GcpInfo` | `ClusterClient` |
| GCP discovery | `gcp/gke.go`, `gcp/autodetect.go` | token sources, project data, the set's `ByName` and `Default` | `New`, `NewModule`, `initGKE`, `Autodetect`, `FindCluster`, `GKECluster`, `LoadGKEClusters`, `LoadHubClusters`, `NumericProjectId`, `Token`, `GetToken` | `GKEDiscovery` |
| Auth provider | `gcp/k8s_auth_provider.go` | cached `token` and `exp` | `RoundTrip` | `TokenTransport` |
| Telemetry | `gcp/telemetry.go` | the clients of a `Stackdriver`, a log stream and its goroutine | `NewStackdriver`, `Close`, `LogTail`, `LogList`, `MetricList`, `MetricUpdate`, `Run` | `Telemetry`, `LogFeed` |
| Echo API server | `apiserver/` | storage map | an example resource | not modelled |
| API types, kine, tools | `pkg/apis/`, `kine/`, `tools/` | none | none | not modelled |

How they interact.  The controller and the watcher are event handlers that a
client-go shared informer calls on one goroutine each; the informer hands the
same pointer to its store, to the queue of its listener and to the handler.
The controller answers through the API server, so its own write comes back to
it as an event, and to every other replica.  `gcp.New` finds the set that
`mk8s.New` made (as the mesh's "k8s" module) and fills `Default` if it is nil;
tokens for the GCP calls come from `GKE.Token`, through the set's `Default` or
from Google's sources.

What is hard here:

* the controller changes a cached object before it knows whether the API server
  will accept the change, and nothing retries;
* several replicas sign at the same time, against caches of different age,
  while users delete and create again under the same name;
* calls can fail after they were applied, and be applied after the caller died;
* a watch that breaks hides deletions, which a relist then reports in another
  form;
* the informer keeps order for one pod and none between pods: an address that
  one gives back and another takes may be taken first;
* Go ranges over maps in a random order where a default is picked;
* a discovery that fails half way leaves what it had loaded;
* the handler may be registered, and the informer synced, before what the caller
  looks at is in place;
* the fields of a shared cluster have no lock, and strings are two words;
* a goroutine that feeds a callback outlives the call that started it, and the
  `Close` of the client it reads from.

What makes each part correct: the controller issues at most one certificate per
object, to a request it may answer, from that very object, and takes no
approval or denial back; every request it may answer is answered in the end.
The index leads from the address of every known pod to that pod, unless two
pods have been known at that address at once and it has not been told of again
since it is alone there, as the next resync does.  Every usable context of a kubeconfig becomes a
cluster, in whatever order they are read; later loads keep the Default and lose
no name, and GKE's list replaces no entry of the kubeconfig (hub memberships and
"incluster" do replace an entry of their name).  Whoever asks a cluster for a
client, a token or a label gets that cluster's, unless a race or a failure is to
blame.  A log feed gives every response once and in order, and nothing after it
has failed; as a response without entries is a nil too, a nil alone does not say
so.  The list of everything that can go
wrong, line by line, is under "hazards" in `PROJECT.json`.

## The modules

### CSRController, CSRLifecycle, CSRControllerProofs

| TLA+ | Code |
|---|---|
| `queue[r]`, `store[r]`, `conn[r]`, `session[r]` | client-go's shared informer in replica `r` (external) |
| `OnUpdateIgnore(r)` | `OnAdd`/`OnUpdate` that ends in one of its early returns, or in a failed `SignCSR` |
| `OnUpdateSign(r)` | `OnUpdate` up to and including the send of `UpdateStatus`: `csr.Status.Certificate = cert` is visible at once everywhere the pointer is held (`WithCert`, `Seen`) |
| `UpdateStatusApplied/Refused(q)` | the API server: resource version precondition, NotFound, Conflict (external) |
| `UpdateStatusReturns(r)`, `UpdateStatusFails(r)` | `UpdateStatus` returns to the handler, with the server's answer or with a broken connection |
| `OnUpdatePanics(r)` | `Sign` reads the fields of a `Certificate` nobody has set; the process dies |
| `Crash(r)` | the process dies with its cache; a request it had sent is lost or still arrives |
| `User...(c)`, `CAExpires` | users, approvers, time |

A cached object is a pointer, named by its request, its resource version and
the list-and-watch session that decoded it; two copies with the same name are
one object in memory.  A certificate is named by who signed it and from which
pointer.  Each incarnation of a name has a kind of its own, which stands for
`Spec.Request` and the signer name: `Parses`, `SelfSigned` and `Ours` are sets of
kinds, so a name may come back with a request of another kind.  `ca` is what the
signer's `Certificate` is: `CertificateAuthority.Init` parses the chain and keeps
nothing of it, so it is unset unless the program sets it.  Deleting keeps the resource version of the name, so a
new incarnation starts above it (resource versions only grow).  `OnDelete` does
nothing and its notifications are left out.  A queued event cannot be told from
one that is still on the wire, so the watch stream, the delta queue and the
listener's buffer are one FIFO.

`CSRLifecycle` is what the controller promises to the users of the API server:
each object is created, is issued at most one certificate if it is answerable,
and is removed.  `CSRController` implements it under `lifeOfAPI`, which maps the
API server's objects to their certificates; all of caches, calls, crashes and
replicas are stuttering steps.

### IPWatcher, PodIndex, IPWatcherProofs, PodIndexProofs

`K8SData`'s handlers are operators on the data they update (`OnAdd`, `OnUpdate`,
`OnDelete`, and `OnTombstone` for what no case of `OnDelete` takes); `Handle` is
the listener's goroutine.  The rest of the informer and the cluster are external:

| TLA+ | client-go |
|---|---|
| `fifo`, `deltas[p]` | `DeltaFIFO`: the pods that have something pending, in the order in which they got it, and what is pending for each; a later change of a pod joins its earlier ones, so pods may be handed on in another order than they changed in |
| `popping`, `PopDelta` | `Pop` hands on all that is pending for the first pod, one delta at a time, to the indexer (`store`) and the listener (`queue`), with the FIFO locked |
| `unpopped`, `HasSynced` | what of the first list has not been handed on |
| `PodChanges`, `Disconnect` | the API server and its watch |
| `Relist` | `Replace`: the pods found are told in any order, then those that are gone, as tombstones that carry the last known object |
| `Resync` | every stored pod that has nothing pending is told again |

`handler` is the `K8SData` registered with the informers and `current` the one the
watcher shows its caller.  Any pods may have the same address: those of a node's
network (`hostNetwork`) do, and one that has finished keeps the address another may
get.  `CloseStop` closes the watcher's `Stop`; the channel that `WaitForInit` is passed
is another, and an error return of it changes nothing, so it is no action.  Whether
the node informer has synced, for which `WaitForInit` waits too, is left to chance.
`EndpointSlice` counters are left out since no slice informer is started, node
notifications since they only log.

History, for the properties: `left`, the addresses pods have left, but for deletions
that the watch reported; `contested`, the addresses two pods of the indexer have had
at once, until one that is alone there is told of again; `missed`, how many pods
were handed on as tombstones.

`PodIndex` is what `K8SData` promises to those who look addresses up.  Its steps are
what the indexer takes: a pod appears, moves (or is told again), disappears, or is
found gone by a list, and the entry of its address and the count change with it, or
for the last do not.  `IPWatcher` implements it with what the listener's queue
settles: `Leads` says where an address leads when index and queued notifications are
taken together, without running the handlers, `IndexToBe` and `PodsToBe` are the
index and the count that this gives.  `PopDelta` is the step; `Handle`, the cluster
and the reflector are stuttering steps.

### ClusterSet

What `New` finds is chosen in `Init` as `env`; a step is one read or one round of
the loop over contexts, in any order.  `Return` is every return of `init` with its
deferred function, which gives the Default object a namespace; as `ByName` may
hold the same pointer, it changes there too.

### GKEDiscovery, GKEDiscoveryProofs

Extends `ClusterSet`: `pc` continues from `"ready"` or `"failed"` into `gcp.New`.  A
step is one call to GKE, to the hub's iterator, to the resource manager or to the
metadata server; what it answers (any subset of `GKENames`, `HubNames`) has
nothing to do with what the last one did, which covers a cloud that changes in
between.  After `New`, callers may list GKE or the hub, or autodetect again
(`CallerLoads`); `task` says whose loads are running.  `InRegion` and `Matching` are
the names that pass `FindCluster`'s two tests; `near` and `wanted` are the tests of
the autodetection under way, `FindCluster` the names it may return: those of the
first of its passes that allows any.  A call without a token source ends in
`"panicked"` (nil `TokenSource`), as does an unparseable `MESH_URL`.  `NextHub`
includes `NumericProjectId`: without a number the entry is of no use
(`"unnumbered"`).  `RegisterProviders` and `SetupAgent` are what `NewModule` does
after `New`; of the providers only "k8s" keeps a cluster of its own.  The client
of the GKE API is made for each load, and making it may fail in any of them.  Names
are well formed here; what malformed ones do is in `ClusterClient`.

### ClusterClient, ClusterClientProofs

One shared `K8SCluster` and a clone of it for each caller that makes one.  A step
is one access to a field: `CheckClient` reads `client`, `BuildClient` and
`BuildFails` store what `NewForConfig` returned.  A Go string is two words, which
`WriteKSA` and `WriteInfo` write one at a time in either order (`Written`), so
another caller may see a length without bytes, which panics when used, or bytes
without a length, which is an empty string.  Different fields are written in the
order of the source, and a pointer brings what it points to: that is how builds
for amd64 behave; other machines promise less.  `kind` is the form of the
cluster's name, which decides what `GcpInfo` writes before it indexes out of
range.  The API server may refuse a token.  A panic ends the call and the caller goes on, as in a server that
recovers it.  `answer` and `overlapped` are history, for the properties.

### Telemetry, LogFeed, TelemetryProofs

Each of `Calls` runs one function, chosen in `Init`, with a `Stackdriver` of its own.
`NewStackdriver` opens the clients in order and may stop at any; `Ends` is the
deferred `Close`, `Fatal` is `log.Fatal`, which ends the process without it.  Loops
over what a service lists are one step per item; the one over the logs
(`ListLogs`) has no limit.  `LogTail` starts the goroutine
of which `Recv`, `RecvEOF`, `RecvError`, `CallbackReturns` and `CallbackSends` are the
steps; the service and the stream are external.  `Recv` gives the callback the
entries of a response, or nil if it has none; `RecvError` gives it nil and sets
`failed`, and it is the error, not the nil, that ends the loop (`AfterCallback`).  Its only other caller,
`TestSD` in `telemetry_test.go`, is the model of a program that uses the feed:
it takes one value from a channel or times out, cancels, and polls.

`LogFeed` is what `LogTail` promises to its callback; `Telemetry` implements it with
`seen`, what the callback was called with, as its `given`.

### TokenTransport, TokenTransportProofs

One action per access of `RoundTrip` to the shared fields.  `token` is a Go string,
two words; `Store` writes and `Read` reads them one at a time, and the writes of
one `RoundTrip` (the two words and `exp`) become visible in any order, as nothing
orders them for another goroutine.  `fresh` stands for `exp` being less than 30
minutes old, `Age` for the time that makes it stale.  A failed `GetToken` may be a
source that is down or a request whose context was cancelled.  A string with a
length and no address makes the goroutine panic; its request is not sent.

## Checks

| Run | Instance | Shows |
|---|---|---|
| `CSRReplicas` | 1 name, 4 kinds of request, 2 replicas, one of them with resyncs, 3 versions, 2 sessions each, with fairness | `TypeOK`, `CertificateOfThisIncarnation`, `ConditionsKept`, `ImplementsLifecycle`, `EventuallySigned` |
| `CSRAlreadySigned` | 1 request, 1 replica | violated: "already signed" is said of an unsigned object |
| `CSROnlyApproved` | 1 request, 1 replica | violated: an unapproved request is signed |
| `IPIndex` | 2 pods, 1 address, 2 changes, 2 sessions, with fairness | `TypeOK`, `PodsNeverUndercounted`, `PodsMiscountedByMissed`, `IndexMissesOnlyContested`, `IndexStaleOnlyIfLeft`, `ImplementsIndex`, `EventuallyFound` |
| `IPUserData` | 2 pods, 1 address | violated: the caller's `K8SData` is never fed |
| `IPTombstone` | 2 pods, 2 sessions | violated: `Pods` counts a deleted pod |
| `IPAddress` | 2 pods, 1 address, 1 change | violated: two pods have one address, and deleting one loses it for the other |
| `GKEDiscover` | every kubeconfig over 3 contexts, one of them called "incluster", every pod environment; 2 GKE clusters, 1 hub membership, 1 explicit; 1 later load | `TypeOK`, `LoadedAsFound`, `FailedKeepsLoaded`, `EmulationIsLocal`, `DefaultStays`, `EntriesKept`, `AutodetectFinds`, `NumberKept`, `NewReturnsToCaller` |
| `TransportRecovers` | 2 callers, 2 tokens, 2 failing refreshes, with fairness | `TypeOK`, `BearerIfAlone`, `StoredTokenStays`, `Recovers` |
| `TransportCached` | 2 callers, 1 token, 1 failing refresh | violated: an empty token is cached as a fresh one |
| `ClusterUse` | 2 callers, 1 of them with a clone, every form of name, 2 failing `NewForConfig`, with fairness | `TypeOK`, `PanicsExplained`, `TokensAgree`, `LabelsAnswered`, `ClientKept`, `ClientRecovers` |
| `TelemetryTools` | any 2 calls, 1 metric, 2 entries, 2 responses per stream, with fairness | `TypeOK`, `FeedKeepsItsClient`, `ImplementsFeed`, `FeedTold`, `ToolsEnd` |

Bounds, and why they are enough.

* `MaxRV` = 3: users take versions up to 2 and leave the last to `UpdateStatus`.
  Two user versions make creation, approval or denial, deletion and creation
  again meet a request that is queued, cached or sent at version 1; the third is
  the signed object, which comes back as an event.
* `MaxLists` = 2: one reconnection or restart of each replica, the least that
  makes two pointers for one version.
* `MaxQueue` only limits resyncs, which without a limit could fill the queue for
  ever.  In `CSRReplicas` it is 1 and one replica resyncs: a resync notifies an
  object that was notified before, and what that does to a replica the other does
  not see.
* Four kinds of request: the one that is answered, and one for each test that
  turns a request away (the signer's name, the encoding, the request's own
  signature).
* Two replicas: the refinement is a matter of two writers of one object.  The
  proofs cover any number.
* `IPIndex`: any two pods at the start, at the one address or without; two changes
  are enough for one of them to release the address and the other to take it, in
  either order, for both to have it and one to leave, and for `DeltaFIFO` to hand
  them on the other way round; two sessions for a disconnection and a list between
  the two.  `MaxQueue` = 0: a resync finds the listener idle, as one a day does.
* `MaxLoads` = 1: a listing that differs from the one before.
  `GKECluster`'s five attempts are modelled as they are.
* `MaxFailures` = 2 failing refreshes and two callers: one failure for each, so
  that both words of the token can be lost by either.
* `ClusterUse`: two callers and two failing `NewForConfig`, one that leaves nil and
  one that takes away the other caller's clientset; one clone, since clones only
  differ by whose they are.
* `TelemetryTools`: one metric, two entries and two responses are the least for a list that is not
  empty and an order that can be wrong.  The calls share nothing but the process,
  which one of them may end.


Deadlock is checked in `ClusterUse`, where a caller that is not in a call can
always begin one.  The other systems may stop when users, time or the cloud do
nothing more, and at the bounds.

Fairness.  `CSRController!FairSpec`: the API server answers what reaches it; a
replica in which something can run (the reflector reconnects, the listener's
goroutine runs the handler, a call that was answered returns) runs something.
These goroutines block on nothing else, and client-go retries connections by
itself.  Users, crashes,
resyncs and broken calls owe nothing.  `EventuallySigned` therefore has to allow
the state `Stranded`: every replica set the certificate in its copy and no
request is left that the server could accept (a call that broke off is not
tried again before the object changes or is listed anew), and a CA that is
expired or was never set.  `IPWatcher!FairSpec`: until
`Stop` closes, the reflector reconnects and lists, and resyncs (every 24 hours,
`shared_informer.go:66`), and the goroutines of the FIFO and of the listener run; the
resync is what brings back an address that a late deletion has removed.
`GKEDiscovery!Spec`: one goroutine runs, and every call is answered.
`ClusterClient!Spec`: a goroutine in a call runs, as it takes no lock; beginning a call
and failing are up to others.  `Telemetry!Spec`: every request is answered and
every goroutine that can run does, until the process exits; what the service
sends, and when a stream ends, is its own business, as is when a program closes
its `Stackdriver`.
`TokenTransport!Spec`: time passes, callers keep sending requests, and a call of the
source returns; failures owe nothing, but are finitely many.

What the violation runs say is quoted with its line under "findings".  Besides
those, some texts say other things than the code does; no passing property
claims either side of them, but for the one that is named.

* `README.md:28`: "In the end, Default cluster will be set if at least one cluster
  is available".  Out of a cluster, `LoadKubeConfig` sets it only to the current
  context; without a usable one it stays nil.
* `README.md:23-26` (the in-cluster configuration only if there is no kubeconfig) and
  `kube.go:60` ("If running in cluster, the 'local' cluster will be the default"):
  `loadInCluster` runs whatever was loaded before and adds "incluster" to it, but a
  Default that the kubeconfig set stays.  `LoadedAsFound` speaks of the Default out of
  a cluster and with a usable current context, where text and code agree.
* `autodetect.go:49-50` ("will attempt to find a cluster in the same region", "if
  nothing - pick any cluster"), `autodetect.go:79-80` ("First attempt to find a cluster
  in same region"): when a name is given, one that matches it in another region is
  taken before one in the region that does not.  `AutodetectFinds` leaves open which
  is found.
* `gke.go:67` ("Default should be set after New()"): it is only if the listings
  succeed and find something; `AutodetectFinds` says so.
* `gke.go:412` ("It calls the original or the delegated one"): `Token` calls neither
  but panics off GCP, without credentials and without a Default to take a token from;
  the model's `"panicked"`.
* `ipdata.go:82` ("set on last 'isInitialList'"): `synced` is set by `WaitForInit`, which
  looks at the informers and not at what the handlers were told.

## Proofs

Every invariant and action property of the passing runs, and the three
refinements, are theorems, for every value of the constants.  One module of proofs goes with
each system, and a second with `PodIndex`; each has an inductive invariant `IInv`, which TLC has checked on the
run's instance, a lemma for each kind of step that keeps it, and the theorems
that follow from it.  `X!A` is theorem `A` of module `X`.

| Run | Property | Theorem |
|---|---|---|
| `CSRReplicas` | `TypeOK` | `CSRControllerProofs!TypeCorrect` |
| | `CertificateOfThisIncarnation` | `CSRControllerProofs!IncarnationSafe` |
| | `ConditionsKept` | `CSRControllerProofs!ConditionsSafe` |
| | `ImplementsLifecycle` | `CSRControllerProofs!Refinement` |
| `IPIndex` | `TypeOK` | `IPWatcherProofs!TypeCorrect` |
| | `PodsNeverUndercounted` | `IPWatcherProofs!PodsCountSafe` |
| | `PodsMiscountedByMissed` | `IPWatcherProofs!CountSafe` |
| | `IndexMissesOnlyContested` | `IPWatcherProofs!IndexSafe` |
| | `IndexStaleOnlyIfLeft` | `IPWatcherProofs!StaleSafe` |
| | `ImplementsIndex` | `PodIndexProofs!IndexRefinement` |
| `GKEDiscover` | `TypeOK` | `GKEDiscoveryProofs!TypeCorrect` |
| | `LoadedAsFound` | `GKEDiscoveryProofs!LoadingSafe` |
| | `FailedKeepsLoaded` | `GKEDiscoveryProofs!FailingSafe` |
| | `EmulationIsLocal` | `GKEDiscoveryProofs!EmulationSafe` |
| | `DefaultStays` | `GKEDiscoveryProofs!DefaultSafe` |
| | `EntriesKept` | `GKEDiscoveryProofs!EntriesSafe` |
| | `NumberKept` | `GKEDiscoveryProofs!NumberSafe` |
| | `AutodetectFinds` | `GKEDiscoveryProofs!AutodetectSafe` |
| `TransportRecovers` | `TypeOK` | `TokenTransportProofs!TypeCorrect` |
| | `BearerIfAlone` | `TokenTransportProofs!BearersSafe` |
| | `StoredTokenStays` | `TokenTransportProofs!StoredSafe` |
| `ClusterUse` | `TypeOK` | `ClusterClientProofs!TypeCorrect` |
| | `PanicsExplained` | `ClusterClientProofs!PanicsSafe` |
| | `TokensAgree` | `ClusterClientProofs!TokensSafe` |
| | `LabelsAnswered` | `ClusterClientProofs!LabelsSafe` |
| | `ClientKept` | `ClusterClientProofs!KeptSafe` |
| `TelemetryTools` | `TypeOK` | `TelemetryProofs!TypeCorrect` |
| | `FeedKeepsItsClient` | `TelemetryProofs!FeedsSafe` |
| | `ImplementsFeed` | `TelemetryProofs!FeedRefinement` |

### What is assumed

The assumptions are those the modules state of their constants, and TLC evaluates
them on every run.  Bounds are natural numbers; requests, replicas, pods, names and
calls are finitely many; a marker for "none" (`NoCert`, `NoPod`, `Nil`, `NoBearer`...)
is none of the values it stands beside.  The others say what the sets are:

* `CSRController`: the kinds that parse, are self-signed or ours are kinds;
* `ClusterSet`, `GKEDiscovery`: contexts, GKE's and the hub's names and the explicit
  cluster are among the names; no hub name is in the region, as `GcpInfo` finds no
  location in one;
* `ClusterClient`: those who clone are callers, and the shared object is none.

### CSRControllerProofs

None of its three properties is inductive.  Whether an accepted `UpdateStatus`
meets an object that has no certificate depends on where its copy came from, and
the copy was taken long before.  `IInv` adds what ties them together: no cached,
queued or sent copy names a later version than the API server's, and one that
names the present version agrees with it on the conditions, and on having no
certificate if the copy has none, and a copy of the present incarnation on the
kind (`Coherent`; the converse fails, since the handler writes into the copy).
Hence a request that the server accepts carries the conditions the object has, and
replaces no certificate (`RequestCoherent`).  Writes keep it because they take a
version nobody can have seen; lists and resyncs because they copy what is there;
the handler because it changes nothing of a copy but its certificate.  `APIStep`
then says how a step can change the API server's objects at all, and both
`ConditionsSafe` and `Refinement` follow from it.

### IPWatcherProofs

`PodsNeverUndercounted` says nothing of the middle of the queue, so it does not
keep `OnDelete` from taking the count below zero, and `IndexMissesOnlyContested` says
nothing at all while something is queued.  `IInv` has two parts besides types
(`Wired` says who feeds whom).  `Pending` is about `DeltaFIFO`:

* `Keyed`: a pod is in `fifo` once, with something pending;
* `Chained`: what is pending for a pod is a chain, each delta following from the
  state the one before leaves and the first from the indexer's.  So a deletion that
  is handed on names the address that the indexer has for the pod, however far behind
  the API server that is, and an address is left unreported only if it is in `left`;
* `Mirror`: while the watch is connected, the end of the chain (`Told`) is the API
  server's state, so the next event continues it;
* `Unseen`: an address at its end that the pod has no more has been left, so a list,
  which adds to the chain what it finds, loses none of them.

`Promised` is about the listener's queue and the data:

* `Balanced`: the count, with the additions and without the deletions in any
  prefix of the queue, is not negative.  A deletion that is queued has a stored pod
  (`Chained`), so by `Exact` there is one to subtract at the end of the queue;
* `Exact`: the count balances with the whole queue to the pods that are stored and
  those handed on as tombstones (`missed`), which no handler takes.  This is the other
  side of what `IPTombstone` shows: it says by how much the count is wrong, and that
  nothing but a relist makes it so;
* `AddressesLead`: the address of a stored pod, unless contested, leads to it and
  nothing in the queue undoes that, or a queued notification stores it there and
  nothing behind it undoes that.  What is handed on of another pod can undo it only
  if both are stored at that address, and then it is contested (`SharedContested`);
* `Explained`: where an address leads, or will, the pod has that address in the
  store or has left it;
* `PodsEnter`: a stored pod is in `PodInfo` or its addition is queued.

`PopTakes` gathers what one `PopDelta` is, `PopPending` and `PopPromised` that it keeps
the two parts; the other steps of the informer touch only `Pending`, by `ChainAppend`
and `FifoGrows`.  `LeadsHandled` says that handling the head of the queue leaves each
address leading where it would have led, and `HandleStep` moves it into the data.
Under them are lemmas on counting in sequences (`CountConcat`, `CountTail`) and on
the order of a finite set (`OrderOnto`).

### PodIndexProofs

An address leads to one pod at most (`LeadsOnce`), so `IndexToBe` is where it leads
(`LedIs`); a notification behind the queue changes only the address it is about
(`LedElsewhere`), and for that `LedThere` and `LedNowhere` say how.  Hence each delta
handed on is a step of `PodIndex` at one address (`PopRefines`), for a deletion the one
that `Chained` says the indexer had; handling is a stutter by `LeadsHandled`
(`HandleRefines`), and so is everything else (`OthersRefine`).  The count is `Exact`'s.

### GKEDiscoveryProofs

It covers `ClusterSet` and `GKEDiscovery`, which run as one.  `LoadedAsFound` speaks of
the end of `New`; the loop before it needs `LoopInv`: the set is what the contexts
visited so far make of it (`LoadedOf`), which depends on which they are and not on
their order.  For the rest it is enough that `ByName` has each cluster under its name,
that the module has done nothing before `New` has returned, when each Default is a
local one (`SetInv`), and that who is about to choose a Default has found none
(`ChoosingInv`).  As a Default is never replaced, `EmulationIsLocal` needs no more.  The action properties
follow from `DefaultKept` and `EntrySteps`, which say what any step may make of the
Default and of an entry of `ByName`.

### TokenTransportProofs

`BearerIfAlone` is about a request that was sent; what it was sent with was stored
or found by steps before.  `IInv` says, for as long as no calls overlapped, that one
caller at most is in `RoundTrip`; that it fetches only when the token is old, so
that what a failure leaves empty is not taken for fresh; and that the words it has
written or read so far are those of one token of the source (`Knows`).

`StoredTokenStays` is about requests that do overlap, so none of this helps.  Its
invariant is `WorkingSource`: while no `GetToken` has failed, whoever stores has both
words of a token, and a word that is missing although `exp` is fresh is one that
some caller has still to store.  A caller that overwrites another's token puts a
word in place of a word; none is taken away.

### ClusterClientProofs

A half-written string has a caller that is writing it (`Halves`), and without overlaps
there is one caller in calls (`Alone`), so nobody else can read it.  A caller past
`Client` finds a clientset unless a `NewForConfig` has failed (`Served`): only a failure
stores nil.  Only the owner of a clone calls its methods, so the account it asks a
token for is still the one `RunAs` gave it when the token is answered (`Accounts`,
`Answered`).  For labels, `Writing` follows the order of the writes: `location` is
written only when `project` is, and as long as `name` is not, its writer is there.
A clientset that is lost is lost in `BuildFails`; without an overlap the builder has
found none there and nobody else has stored one since (`BuildsFirst`).

### TelemetryProofs

A tool that is running has every client (`Holds`), and it ends once, in `Ends`.  The
goroutine of `LogTail` starts only in such a call or in a user's, and reads from a
client no `Close` takes.  It receives only as long as `Recv` has not failed, whatever
its callback was called with (`Tails`), which makes `FeedSteps`: each step of
`Telemetry` is for each call a step of `LogFeed` or leaves what was given as it is.

### Only model-checked

Everything with fairness (`EventuallySigned`, `EventuallyFound`, `NewReturnsToCaller`,
 `Recovers`, `ClientRecovers`, `FeedTold`, `ToolsEnd`), which is
beyond the prover; and the violations, which are single behaviours.

## Plan

1. done: `CSRController` with `CSRLifecycle`, `IPWatcher` with `PodIndex`, `ClusterSet`,
   `GKEDiscovery`, `TokenTransport`, `ClusterClient`, `Telemetry` with `LogFeed`.
2. done: the safety and action properties and the refinements of all of them as
   theorems, with what requests that overlap may find (`StoredTokenStays`,
   `ClientKept`) and which entries of `IPToSrc` are out of date
   (`IndexStaleOnlyIfLeft`).
3. Left: what `ClusterClient` promises its callers as an abstract specification.

## Not modelled, and why

* The API server, etcd and client-go beyond what the handlers can observe.
* The text of certificates and PEM, their dates and serial numbers, keys that
  `Init` cannot parse, names beyond the tests made on them, logging.
* `EndpointSlice` counters, node notifications and when the node informer syncs (see
  `IPWatcher`).
* Memory effects of `synced`, which nothing reads, and reorderings of `client` that
  amd64 does not make.
* What the telemetry tools print, and the filters they send; `RestClient`, which
  works on a copy.
* The echo API server (an example), generated code, kine's one call and the
  build tools: no behaviour of their own.
