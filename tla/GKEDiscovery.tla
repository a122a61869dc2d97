---------------------------- MODULE GKEDiscovery ----------------------------
(***************************************************************************)
(* The gcp module on top of a ClusterSet: New (gke.go) chooses where       *)
(* tokens come from and, when there is no Default cluster, gets one: an    *)
(* explicitly configured GKE cluster (GKECluster), or the best of what the *)
(* GKE and hub APIs list (Autodetect, FindCluster in autodetect.go).       *)
(* NewModule then registers auth providers with the mesh.  Callers may     *)
(* list and autodetect again later.                                        *)
(*                                                                         *)
(* GKE, the hub, the resource manager and the metadata server are external. *)
(* Any call may fail, and what a call answers has nothing to do with what   *)
(* the last one did; one step is one call.                                  *)
(***************************************************************************)
EXTENDS ClusterSet

CONSTANTS
    GKENames,    \* names of clusters in the GKE project ("gke_...")
    HubNames,    \* names of hub memberships ("connectgateway_...")
    InRegion,    \* names whose Location() starts with this process's region
    Matching,    \* names that contain a cluster name that may be wanted
    Explicit,    \* the cluster MESH_URL names, under the name GKECluster makes
    MaxLoads     \* bound: listings and autodetections callers ask for after New

ASSUME GKEAssumption ==
    /\ GKENames \subseteq Names /\ HubNames \subseteq Names
    /\ InRegion \subseteq Names \ HubNames  \* GcpInfo finds no location in those
    /\ Matching \subseteq Names /\ Explicit \in Names
    /\ Nil \notin Clusters
    /\ MaxLoads \in Nat

VARIABLES
    address,     \* Module.Address is set: emulated metadata server
    access,      \* GKE.AccessTokenSource is set
    raw,         \* GKE.TokenSource is set
    projectData, \* GKE.projectData is set
    task,        \* whose loads are running: "none", "new", "autodetect", "list", "hub"
    wanted,      \* the names that contain Autodetect's findClusterN
    near,        \* the names that pass FindCluster's region test
    provider,    \* AuthProviders["k8s"] of the mesh
    tries,       \* GKECluster's failed attempts
    loads        \* calls of the listing functions so far

sources == <<address, access, raw>>
search == <<wanted, near>>
gkeVars == <<sources, projectData, task, search, provider, tries, loads>>
vars == <<setVars, gkeVars>>

\* No name contains one that matches nothing; an empty one skips the test
Wanted == {Matching, {}}

Init ==
    /\ SetInit
    /\ address \in BOOLEAN
    /\ access = FALSE /\ raw = FALSE /\ projectData = FALSE
    /\ task = "none" /\ wanted = {} /\ near = {}
    /\ provider = Nil /\ tries = 0 /\ loads = 0

\* k8s.New runs first, as the mesh's "k8s" module
InitSet == SetNext /\ UNCHANGED gkeVars

-----------------------------------------------------------------------------
(* New.                                                                    *)

\* Fault: an emulated metadata server is set up without a cluster behind it
NoCredentialsNever == FALSE

\* Tokens of the emulated metadata server come from the Default
NoCredentials == address /\ default = Nil

\* The part before any call: token sources, then initGKE if there is no
\* Default.  GOOGLE_APPLICATION_CREDENTIALS may load; GCE_METADATA_HOST or
\* metadata.OnGCE() may say that this is GCP.
New ==
    /\ pc \in {"ready", "failed"}
    /\ IF NoCredentials
       THEN /\ pc' = "noCredentials" \* "Missing credentials source"
            /\ UNCHANGED <<access, raw, task>>
       ELSE /\ raw' = address
            /\ \E gac, onGCE \in BOOLEAN : access' = (gac \/ (~address /\ onGCE))
            /\ task' = "new"
            /\ pc' = IF default = Nil THEN "initGKE" ELSE "registering"
    /\ UNCHANGED <<byName, default, pending, env, address, projectData, search, provider,
                   tries, loads>>

\* MeshAddr or MESH_URL: a gke: URL with a path is an explicit cluster; a
\* cluster: URL, or none, says which name to look for; the error of url.Parse
\* is dropped and its nil result used
InitGKE ==
    /\ pc = "initGKE"
    /\ \/ pc' = "getCluster" /\ UNCHANGED wanted
       \/ pc' = "listGKE" /\ wanted' \in Wanted
       \/ pc' = "panicked" /\ UNCHANGED wanted
    /\ UNCHANGED <<byName, default, pending, env, sources, projectData, task, near,
                   provider, tries, loads>>

\* The loads of task end; New only logs their error
Ends ==
    /\ pc' = IF task = "new" THEN "registering" ELSE "gcpReady"
    /\ task' = "none" /\ wanted' = {} /\ near' = {}

\* Token(): with neither source set, the nil TokenSource is called
HasToken == access \/ raw

Panics ==
    /\ pc \in {"getCluster", "listGKE", "listHub"} /\ ~HasToken
    /\ pc' = "panicked"
    /\ UNCHANGED <<byName, default, pending, env, gkeVars>>

\* Fault: a failed attempt is counted by the loop and by its body
TriesTwice(n) == n + 2

\* Fault: the count starts again before it reaches the limit
TriesAgain(n) == (n + 1) % 5

TriesAfterFailure(n) == n + 1

\* GKECluster: up to five attempts; initGKE makes its result the Default
\* without adding it to ByName
GetCluster ==
    /\ pc = "getCluster" /\ HasToken
    /\ \/ /\ default' = Cluster(Explicit, "explicit", 0, "empty")
          /\ Ends
          /\ UNCHANGED tries
       \/ /\ tries' = TriesAfterFailure(tries)
          /\ IF tries' = 5 THEN Ends ELSE UNCHANGED <<pc, task, search>>
          /\ UNCHANGED default
    /\ UNCHANGED <<byName, pending, env, sources, projectData, provider, loads>>

\* The client of a load cannot be made, before its first call: no token is asked
\* for.  GKECluster makes one for all its attempts.
NoAPIClient ==
    /\ pc \in {"getCluster", "listGKE", "listHub"}
    /\ pc = "getCluster" => tries = 0
    /\ Ends
    /\ UNCHANGED <<byName, default, pending, env, sources, projectData, provider, tries,
                   loads>>

-----------------------------------------------------------------------------
(* Listing.                                                                *)

Autodetecting == task \in {"new", "autodetect"}

\* Fault: a listed cluster replaces what has its name
ListedOverwrites(old, new) == new

\* LoadGKEClusters keeps the entry there is
ListedEntry(old, new) == IF old = Nil THEN new ELSE old

\* LoadGKEClusters: one ListClusters call, which fails or lists what there is
ListGKE ==
    /\ pc = "listGKE" /\ HasToken
    /\ \/ /\ Ends
          /\ UNCHANGED byName
       \/ \E listed \in SUBSET GKENames :
             /\ byName' = [n \in Names |->
                   IF n \in listed
                   THEN ListedEntry(byName[n], Cluster(n, "gke", loads, "given"))
                   ELSE byName[n]]
             /\ IF Autodetecting
                THEN pc' = "listHub" /\ UNCHANGED <<task, search>>
                ELSE Ends
    /\ UNCHANGED <<default, pending, env, sources, projectData, provider, tries, loads>>

\* LoadHubClusters: the memberships come in pages
ListHub ==
    /\ pc = "listHub" /\ HasToken
    /\ pc' = "nextHub" /\ pending' \in SUBSET HubNames
    /\ UNCHANGED <<byName, default, env, gkeVars>>

\* mr.Next() fails: what was read of the list stays in ByName
HubFails ==
    /\ pc = "nextHub"
    /\ Ends /\ pending' = {}
    /\ UNCHANGED <<byName, default, env, sources, projectData, provider, tries, loads>>

\* Fault: the project is looked up for every membership
ProjectNumberUncached ==
    {[numbered |-> FALSE, data |-> projectData], [numbered |-> TRUE, data |-> TRUE]}

\* NumericProjectId: what the metadata server says, else what the resource
\* manager said once or says now; what it says is kept, that it fails is not
ProjectNumber ==
    IF projectData THEN {[numbered |-> TRUE, data |-> TRUE]}
    ELSE {[numbered |-> TRUE, data |-> FALSE], [numbered |-> TRUE, data |-> TRUE],
          [numbered |-> FALSE, data |-> FALSE]}

\* A membership replaces what ByName has under its name.  Without a project
\* number its URL lacks it: the entry is of no use and says nothing of it.
NextHub ==
    /\ pc = "nextHub"
    /\ \E m \in pending, number \in ProjectNumber :
          /\ pending' = pending \ {m}
          /\ projectData' = number.data
          /\ byName' = [byName EXCEPT ![m] =
                Cluster(m, IF number.numbered THEN "hub" ELSE "unnumbered", loads, "empty")]
    /\ UNCHANGED <<pc, default, env, sources, task, search, provider, tries, loads>>

HubDone ==
    /\ pc = "nextHub" /\ pending = {}
    /\ IF Autodetecting
       THEN pc' = "region" /\ UNCHANGED <<task, search>>
       ELSE Ends
    /\ UNCHANGED <<byName, default, pending, env, sources, projectData, provider, tries,
                   loads>>

-----------------------------------------------------------------------------
(* FindCluster.                                                            *)

\* Fault: every Autodetect finds a Default
UndecidedAlways == TRUE

\* Autodetect leaves a Default that there is
Undecided == default = Nil

\* The metadata server tells the region, or fails: then every cluster passes
AskRegion ==
    /\ pc = "region"
    /\ IF Undecided
       THEN pc' = "find" /\ near' \in {InRegion, Names} /\ UNCHANGED <<task, wanted>>
       ELSE Ends
    /\ UNCHANGED <<byName, default, pending, env, sources, projectData, provider, tries,
                   loads>>

Near == Available(byName) \cap near

Named == Available(byName) \cap wanted

FirstNonEmpty(passes) ==
    LET found == {i \in DOMAIN passes : passes[i] # {}}
    IN IF found = {} THEN {} ELSE passes[CHOOSE i \in found : \A j \in found : i <= j]

\* Fault: no last resort
FindNearOnly == FirstNonEmpty(<<Near \cap Named, Named, Near>>)

\* The names FindCluster may return: it ranges over the map up to four times,
\* and takes the first entry the pass allows
FindCluster == FirstNonEmpty(<<Near \cap Named, Named, Near, Available(byName)>>)

Find ==
    /\ pc = "find"
    /\ IF FindCluster = {}
       THEN UNCHANGED default
       ELSE \E n \in FindCluster : default' = byName[n]
    /\ Ends
    /\ UNCHANGED <<byName, pending, env, sources, projectData, provider, tries, loads>>

-----------------------------------------------------------------------------
(* NewModule, the rest of it, and the callers.                             *)

\* The Default there is, or a nil *K8SCluster, becomes the "k8s" provider; the
\* others ask the set for its Default at each call
RegisterProviders ==
    /\ pc = "registering"
    /\ provider' = default
    /\ pc' = IF address THEN "agent" ELSE "gcpReady"
    /\ UNCHANGED <<byName, default, pending, env, sources, projectData, task, search, tries,
                   loads>>

\* The emulated metadata server is set up, or NewModule returns its error
SetupAgent ==
    /\ pc = "agent"
    /\ pc' \in {"gcpReady", "noAgent"}
    /\ UNCHANGED <<byName, default, pending, env, gkeVars>>

\* A caller lists GKE, lists the hub, or autodetects, after New
CallerLoads ==
    /\ pc = "gcpReady" /\ loads < MaxLoads
    /\ loads' = loads + 1
    /\ \/ task' = "autodetect" /\ pc' = "listGKE" /\ wanted' \in Wanted
       \/ task' = "list" /\ pc' = "listGKE" /\ UNCHANGED wanted
       \/ task' = "hub" /\ pc' = "listHub" /\ UNCHANGED wanted
    /\ UNCHANGED <<byName, default, pending, env, sources, projectData, near, provider,
                   tries>>

\* GetToken: unlike Token it uses the raw source only for an audience, and
\* calls a nil AccessTokenSource otherwise; what it returns changes nothing
GetTokenPanics ==
    /\ pc = "gcpReady"
    /\ \E aud \in BOOLEAN : ~(aud /\ raw) /\ ~access
    /\ pc' = "panicked"
    /\ UNCHANGED <<byName, default, pending, env, gkeVars>>

\* What runs without being asked
Running == \/ InitSet \/ New \/ InitGKE \/ Panics \/ GetCluster \/ NoAPIClient
           \/ ListGKE \/ ListHub \/ HubFails \/ NextHub \/ HubDone \/ AskRegion
           \/ Find \/ RegisterProviders \/ SetupAgent

Next == Running \/ CallerLoads \/ GetTokenPanics

\* The caller's goroutine runs, and every call is answered
Spec == Init /\ [][Next]_vars /\ WF_vars(Running)

-----------------------------------------------------------------------------
(* Properties.                                                             *)

Resting == {"gcpReady", "noCredentials", "noAgent", "panicked"}

\* Every variable has its type.
TypeOK ==
    /\ byName \in [Names -> Clusters \cup {Nil}]
    /\ default \in Clusters \cup {Nil}
    /\ pc \in Loading \cup Resting \cup {"ready", "failed", "initGKE", "getCluster",
                                         "listGKE", "listHub", "nextHub", "region",
                                         "find", "registering", "agent"}
    /\ pending \subseteq Names
    /\ env \in Environments
    /\ {address, access, raw, projectData} \subseteq BOOLEAN
    /\ task \in {"none", "new", "autodetect", "list", "hub"}
    /\ wanted \subseteq Names /\ near \subseteq Names
    /\ provider \in Clusters \cup {Nil}
    /\ tries \in 0..5 /\ loads \in 0..MaxLoads

\* Once there is a Default no load changes which cluster it is, however often
\* callers list and autodetect and whatever comes and goes in the cloud: the
\* tokens and clients handed out for it stay those of one cluster.
SameCluster(o, p) == p # Nil /\ p.name = o.name /\ p.from = o.from /\ p.gen = o.gen

DefaultStays == [][default # Nil => SameCluster(default, default')]_vars

\* No load, failed or half done, takes a known name away, and a cluster that
\* was configured is never replaced by one that GKE lists (the hub's
\* memberships do replace what has their name).
EntriesKept ==
    [][\A n \in Names : byName[n] # Nil =>
          /\ byName'[n] # Nil
          /\ byName[n].from = "kubeconfig" => byName'[n].from # "gke"]_vars

Finding == pc = "find"

\* When Autodetect ends without an error there is a Default exactly if any
\* cluster is known, and it is near, or has the name that was asked for, if
\* there is one with that name or near.
AutodetectFinds ==
    [][Finding =>
          /\ default' # Nil <=> Available(byName) # {}
          /\ Near \cup Named # {} => default'.name \in Near \cup Named]_vars

\* New returns: GKECluster gives up after its attempts, the lists end.
NewReturnsToCaller == (pc \notin Resting) ~> (pc \in Resting)

\* The emulated metadata server stands on a cluster that New of the k8s package
\* found locally, for as long as the process runs: never on one that GKE or the
\* hub listed, which itself needs the tokens the emulation is there to give.
EmulationIsLocal ==
    raw => default # Nil /\ default.from \in {"kubeconfig", "incluster"}

\* Once the resource manager has told the project's number no entry of the hub
\* is written without it, whatever fails later.
NumberKept ==
    [][projectData => \A n \in Names :
          byName'[n] # byName[n] => byName'[n].from # "unnumbered"]_vars
=============================================================================
