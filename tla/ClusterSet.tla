----------------------------- MODULE ClusterSet -----------------------------
(***************************************************************************)
(* The cluster set of the k8s package: New (kube.go) loads every context   *)
(* of a kubeconfig file (kubeconfig.go), then the cluster the process runs *)
(* in, into ByName, and picks a Default.                                   *)
(*                                                                         *)
(* What New finds is chosen once, in Init; Go ranges over the contexts in  *)
(* an order that is different every time, one step per context.            *)
(***************************************************************************)
EXTENDS Naturals, FiniteSets

CONSTANTS
    Names,       \* cluster names: contexts, and what GKE and the hub list
    ContextNames, \* those a kubeconfig may have contexts of
    InCluster,   \* the name "incluster"; a context may be called that too
    Nil,         \* a nil *K8SCluster, or an absent key of ByName
    NoName       \* a kubeconfig without current-context

ASSUME NamesAssumption == 
    /\ IsFiniteSet(Names) /\ InCluster \in Names /\ NoName \notin Names
    /\ ContextNames \subseteq Names

VARIABLES
    byName,      \* K8S.ByName
    default,     \* K8S.Default
    pc,          \* where the running operation is
    pending,     \* what its loop has still to visit
    env          \* what the process finds in its environment

\* A K8SCluster object: its name, what it was made from and by which load, and
\* whether its Namespace is empty
Origins == {"kubeconfig", "incluster", "gke", "hub", "unnumbered", "explicit"}
Cluster(n, from, gen, ns) == [name |-> n, from |-> from, gen |-> gen, ns |-> ns]

Environments ==
    [file : {"missing", "unreadable", "readable"},  \* the kubeconfig file
     contexts : SUBSET ContextNames, \* its contexts
     invalid : SUBSET ContextNames,  \* those no rest.Config can be made from
     current : ContextNames \cup {NoName}, \* its current-context
     token : BOOLEAN,               \* the service account token is mounted
     ca : BOOLEAN,                  \* the root CA file can be loaded
     podNS : BOOLEAN]               \* POD_NAMESPACE is set

\* What a file that is not read would have held makes no difference
Relevant(e) ==
    /\ e.invalid \subseteq e.contexts
    /\ e.file # "readable" => e.contexts = {} /\ e.current = NoName
    /\ ~e.token => ~e.ca /\ ~e.podNS

Available(set) == {n \in Names : set[n] # Nil}

Loading == {"kubeconfig", "contexts", "incluster"}

SetInit ==
    /\ env \in {e \in Environments : Relevant(e)}
    /\ byName = [n \in Names |-> Nil] /\ default = Nil
    /\ pc = "kubeconfig" /\ pending = {}

-----------------------------------------------------------------------------
\* init's deferred function runs on every return: an empty Namespace of the
\* Default object, which ByName may refer to as well, becomes "default"
Namespaced(o) == IF o.ns = "empty" THEN [o EXCEPT !.ns = "default"] ELSE o

Return(result, set, d) ==
    /\ pc' = result
    /\ default' = IF d = Nil THEN Nil ELSE Namespaced(d)
    /\ byName' = [n \in Names |->
          IF d # Nil /\ set[n] = d THEN Namespaced(d) ELSE set[n]]

\* LoadKubeConfig: no file is no error, a file that cannot be read is one
ReadKubeConfig ==
    /\ pc = "kubeconfig"
    /\ \/ /\ env.file = "missing"
          /\ pc' = "incluster"
          /\ UNCHANGED <<byName, default, pending>>
       \/ /\ env.file = "unreadable"
          /\ Return("failed", byName, default)
          /\ UNCHANGED pending
       \/ /\ env.file = "readable"
          /\ pc' = "contexts" /\ pending' = env.contexts
          /\ UNCHANGED <<byName, default>>
    /\ UNCHANGED env

\* Fault: the first usable context becomes the default
FirstBecomesDefault(k) == default = Nil

BecomesDefault(k) == default = Nil /\ k = env.current

\* Fault: the rest of the loop is skipped with the invalid context
StillPendingNone(k) == IF k \in env.invalid THEN {} ELSE pending \ {k}

StillPending(k) == pending \ {k}

\* The cluster made of a context; an empty namespace becomes "default" there
ContextCluster(k) == Cluster(k, "kubeconfig", 0, "given")

\* One round of the loop over apiConfig.Contexts, whichever comes next
LoadContext ==
    /\ pc = "contexts"
    /\ \E k \in pending :
          /\ pending' = StillPending(k)
          /\ \/ /\ k \in env.invalid
                /\ UNCHANGED <<byName, default>>
             \/ /\ k \notin env.invalid
                /\ LET kcc == ContextCluster(k)
                   IN /\ byName' = [byName EXCEPT ![k] = kcc]
                      /\ default' = IF BecomesDefault(k) THEN kcc ELSE default
    /\ UNCHANGED <<pc, env>>

ContextsLoaded ==
    /\ pc = "contexts" /\ pending = {}
    /\ pc' = "incluster"
    /\ UNCHANGED <<byName, default, pending, env>>

\* loadInCluster: no token is no error, no CA is one
NotInCluster ==
    /\ pc = "incluster"
    /\ \/ ~env.token /\ Return("ready", byName, default)
       \/ env.token /\ ~env.ca /\ Return("failed", byName, default)
    /\ UNCHANGED <<pending, env>>

\* loadInCluster adds the cluster, which is the default if there is none
LoadInCluster ==
    /\ pc = "incluster" /\ env.token /\ env.ca
    /\ LET ic == Cluster(InCluster, "incluster", 0, IF env.podNS THEN "given" ELSE "empty")
       IN Return("ready", [byName EXCEPT ![InCluster] = ic],
                 IF default = Nil THEN ic ELSE default)
    /\ UNCHANGED <<pending, env>>

SetNext == \/ ReadKubeConfig \/ LoadContext \/ ContextsLoaded
           \/ NotInCluster \/ LoadInCluster

setVars == <<byName, default, pc, pending, env>>

Clusters == [name : Names, from : Origins, gen : Nat, ns : {"empty", "given", "default"}]

-----------------------------------------------------------------------------
(* Properties.                                                             *)

Usable == env.contexts \ env.invalid

\* In whatever order the contexts are visited New loads every one that is usable,
\* an invalid one takes nothing else down with it, and out of a cluster the
\* Default is the current context if that is usable.  (In a cluster, and without
\* a usable current context, the documents and the code disagree on the Default:
\* nothing is claimed.)
LoadedAsFound ==
    pc = "ready" =>
       /\ Available(byName) \ {InCluster} = Usable \ {InCluster}
       /\ env.current \in Usable /\ ~env.token =>
             default # Nil /\ default.name = env.current

\* A New that fails still returns what it had loaded, and a Default is never
\* left without a namespace (GetToken uses it), the error returns included.
FailedKeepsLoaded ==
    /\ pc = "failed" => Available(byName) = Usable
    /\ pc \in {"ready", "failed"} /\ default # Nil => default.ns # "empty"
=============================================================================
