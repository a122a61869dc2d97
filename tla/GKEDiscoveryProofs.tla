------------------------- MODULE GKEDiscoveryProofs -------------------------
(***************************************************************************)
(* Proofs about ClusterSet and GKEDiscovery, for any names and loads.      *)
(*                                                                         *)
(* While New ranges over the contexts, the set is what the contexts        *)
(* visited so far make of it, whichever they are; and a Default is written *)
(* by nobody who has not found it nil, or who does more than name it.      *)
(***************************************************************************)
EXTENDS GKEDiscovery, TLAPS

\* Before the gcp module runs, with what New has loaded
Set == Loading \cup {"ready", "failed"}

Local == {"kubeconfig", "incluster"}

\* What the contexts in visited have made of the set
LoadedOf(visited) ==
    /\ Available(byName) = Usable \cap visited
    /\ env.current \in Usable \cap visited =>
          /\ default \in Clusters
          /\ default.name = env.current /\ default.from = "kubeconfig"
    /\ env.current \notin Usable \cap visited => default = Nil

\* The loop of LoadKubeConfig, and what comes before and after it
LoopInv ==
    /\ pc = "kubeconfig" => LoadedOf({}) /\ (env.file # "readable" => env.contexts = {})
    /\ pc = "contexts" => pending \subseteq env.contexts /\ LoadedOf(env.contexts \ pending)
    /\ pc = "incluster" => LoadedOf(env.contexts)

\* ByName has each cluster under its name
NamesInv == \A n \in Names : byName[n] # Nil => byName[n].name = n

\* The gcp module has done nothing yet
SetInv ==
    pc \in Set => /\ provider = Nil /\ ~raw /\ ~projectData /\ tries = 0
                  /\ default # Nil => default.from \in Local

\* Whoever is about to choose a Default has found none
ChoosingInv ==
    /\ pc \in {"initGKE", "getCluster", "find"} => default = Nil
    /\ pc = "initGKE" => tries = 0
    /\ pc = "getCluster" => tries < 5

IInv ==
    /\ TypeOK /\ LoopInv /\ NamesInv /\ SetInv /\ ChoosingInv
    /\ LoadedAsFound /\ FailedKeepsLoaded /\ EmulationIsLocal

-----------------------------------------------------------------------------
(* Lemmas about clusters and the set.                                      *)

\* A cluster made by any load is one, with the parts it was made of.
LEMMA ClusterType ==
    ASSUME NEW n \in Names, NEW from \in Origins, NEW gen \in Nat,
           NEW space \in {"empty", "given", "default"}
    PROVE  /\ Cluster(n, from, gen, space) \in Clusters
           /\ Cluster(n, from, gen, space) # Nil
           /\ Cluster(n, from, gen, space).name = n
           /\ Cluster(n, from, gen, space).from = from
           /\ Cluster(n, from, gen, space).gen = gen
           /\ Cluster(n, from, gen, space).ns = space
<1>1. Cluster(n, from, gen, space) \in Clusters
  BY DEF Cluster, Clusters
<1> QED
  BY <1>1, GKEAssumption DEF Cluster

\* The deferred function of init fills in the namespace and nothing else.
LEMMA NamespacedType ==
    ASSUME NEW o \in Clusters
    PROVE  /\ Namespaced(o) \in Clusters /\ Namespaced(o) # Nil
           /\ Namespaced(o).name = o.name /\ Namespaced(o).from = o.from
           /\ Namespaced(o).gen = o.gen /\ Namespaced(o).ns # "empty"
<1>1. Namespaced(o) \in Clusters
  BY DEF Namespaced, Clusters
<1> QED
  BY <1>1, GKEAssumption DEF Namespaced, Clusters

\* Return leaves the set and the Default it is given, but for the namespace.
LEMMA ReturnLeaves ==
    ASSUME NEW result, NEW set \in [Names -> Clusters \cup {Nil}],
           NEW d \in Clusters \cup {Nil}, Return(result, set, d)
    PROVE  /\ byName' \in [Names -> Clusters \cup {Nil}] /\ default' \in Clusters \cup {Nil}
           /\ Available(byName') = Available(set)
           /\ \A n \in Names : set[n] # Nil =>
                 byName'[n] # Nil /\ byName'[n].name = set[n].name /\ byName'[n].from = set[n].from
           /\ d = Nil => default' = Nil
           /\ d # Nil => /\ SameCluster(d, default') /\ default'.ns # "empty"
                         /\ \A n \in Names : set[n] = d => byName'[n] = default'
<1>1. d # Nil => /\ Namespaced(d) \in Clusters /\ Namespaced(d) # Nil
                 /\ Namespaced(d).name = d.name /\ Namespaced(d).from = d.from
                 /\ Namespaced(d).gen = d.gen /\ Namespaced(d).ns # "empty"
  BY NamespacedType
<1>2. /\ default' = IF d = Nil THEN Nil ELSE Namespaced(d)
      /\ byName' = [n \in Names |-> IF d # Nil /\ set[n] = d THEN Namespaced(d) ELSE set[n]]
  BY DEF Return
<1>3. \A n \in Names : byName'[n] # Nil <=> set[n] # Nil
  BY <1>1, <1>2
<1> QED
  BY <1>1, <1>2, <1>3 DEF Available, SameCluster

-----------------------------------------------------------------------------
(* A lemma for each kind of step of the set's New.                         *)

\* Initially nothing is loaded.
LEMMA InitIInv == Init => IInv
<1> SUFFICES ASSUME Init PROVE IInv
  OBVIOUS
<1>1. TypeOK
  <2>1. byName \in [Names -> Clusters \cup {Nil}] /\ default \in Clusters \cup {Nil}
    BY DEF Init, SetInit
  <2>2. tries \in 0..5 /\ loads \in 0..MaxLoads
    BY GKEAssumption DEF Init
  <2>3. {address, access, raw, projectData} \subseteq BOOLEAN
    BY DEF Init
  <2> QED
    BY <2>1, <2>2, <2>3 DEF Init, SetInit, TypeOK, Loading
<1>2. LoopInv
  BY DEF Init, SetInit, LoopInv, LoadedOf, Available, Usable, Relevant
<1>3. NamesInv /\ SetInv /\ ChoosingInv
  BY DEF Init, SetInit, NamesInv, SetInv, ChoosingInv
<1>4. LoadedAsFound /\ FailedKeepsLoaded /\ EmulationIsLocal
  BY DEF Init, SetInit, LoadedAsFound, FailedKeepsLoaded, EmulationIsLocal
<1> QED
  BY <1>1, <1>2, <1>3, <1>4 DEF IInv

\* In the set's New there is no provider, and no token source to speak of.
LEMMA SetQuiet ==
    ASSUME IInv, pc \in Set, UNCHANGED gkeVars,
           default' # Nil => default'.from \in Local,
           pc' \in Set
    PROVE  SetInv' /\ ChoosingInv' /\ EmulationIsLocal'
BY DEF IInv, Set, SetInv, ChoosingInv, EmulationIsLocal, gkeVars, sources,
   Loading

\* The kubeconfig file is missing, unreadable or read.
LEMMA ReadKubeConfigIInv ==
    ASSUME IInv, ReadKubeConfig, UNCHANGED gkeVars
    PROVE  IInv'
<1>0. pc = "kubeconfig" /\ UNCHANGED env /\ env \in Environments /\ LoadedOf({})
      /\ default = Nil /\ Available(byName) = {}
      /\ (env.file # "readable" => env.contexts = {})
      /\ byName \in [Names -> Clusters \cup {Nil}]
      /\ ContextNames \subseteq Names
  BY NamesAssumption DEF ReadKubeConfig, IInv, TypeOK, LoopInv, LoadedOf
<1>1. CASE env.file = "missing"
  <2>0. pc' = "incluster" /\ UNCHANGED <<byName, default, pending>>
    BY <1>1 DEF ReadKubeConfig
  <2>1. TypeOK'
    BY <1>0, <2>0 DEF IInv, TypeOK, gkeVars, sources, search, Loading
  <2>2. LoopInv' /\ NamesInv' /\ LoadedAsFound' /\ FailedKeepsLoaded'
    BY <1>0, <1>1, <2>0 DEF IInv, LoopInv, LoadedOf, Usable, Available, NamesInv, LoadedAsFound,
       FailedKeepsLoaded
  <2>3. SetInv' /\ ChoosingInv' /\ EmulationIsLocal'
    BY <1>0, <2>0, SetQuiet DEF Set, Loading
  <2> QED
    BY <2>1, <2>2, <2>3 DEF IInv
<1>2. CASE env.file = "unreadable"
  <2>0. Return("failed", byName, default) /\ pc' = "failed" /\ UNCHANGED pending
    BY <1>2 DEF ReadKubeConfig, Return
  <2>1. /\ byName' \in [Names -> Clusters \cup {Nil}] /\ default' = Nil
        /\ Available(byName') = {}
    BY <1>0, <2>0, ReturnLeaves
  <2>2. TypeOK'
    BY <1>0, <2>0, <2>1 DEF IInv, TypeOK, gkeVars, sources, search
  <2>3. LoopInv' /\ NamesInv' /\ LoadedAsFound' /\ FailedKeepsLoaded'
    BY <1>0, <1>2, <2>0, <2>1 DEF LoopInv, Usable, Available, NamesInv, LoadedAsFound,
       FailedKeepsLoaded
  <2>4. SetInv' /\ ChoosingInv' /\ EmulationIsLocal'
    BY <1>0, <2>0, <2>1, SetQuiet DEF Set, Loading
  <2> QED
    BY <2>2, <2>3, <2>4 DEF IInv
<1>3. CASE env.file = "readable"
  <2>0. pc' = "contexts" /\ pending' = env.contexts /\ UNCHANGED <<byName, default>>
    BY <1>3 DEF ReadKubeConfig
  <2>1. TypeOK'
    BY <1>0, <2>0 DEF IInv, TypeOK, gkeVars, sources, search, Loading, Environments
  <2>2. LoopInv' /\ NamesInv' /\ LoadedAsFound' /\ FailedKeepsLoaded'
    BY <1>0, <2>0 DEF IInv, LoopInv, LoadedOf, Usable, Available, NamesInv, LoadedAsFound,
       FailedKeepsLoaded
  <2>3. SetInv' /\ ChoosingInv' /\ EmulationIsLocal'
    BY <1>0, <2>0, SetQuiet DEF Set, Loading
  <2> QED
    BY <2>1, <2>2, <2>3 DEF IInv
<1> QED
  BY <1>1, <1>2, <1>3 DEF ReadKubeConfig

\* One more context, whichever it is: an invalid one leaves what the others made,
\* and no other becomes the Default than the current one.
LEMMA LoadContextIInv ==
    ASSUME IInv, LoadContext, UNCHANGED gkeVars
    PROVE  IInv'
<1> DEFINE visited == env.contexts \ pending
<1>0. PICK k \in pending :
         /\ pending' = pending \ {k}
         /\ \/ k \in env.invalid /\ UNCHANGED <<byName, default>>
            \/ /\ k \notin env.invalid
               /\ byName' = [byName EXCEPT ![k] = ContextCluster(k)]
               /\ default' = IF default = Nil /\ k = env.current THEN ContextCluster(k)
                             ELSE default
  BY DEF LoadContext, StillPending, BecomesDefault
<1>1. /\ pc = "contexts" /\ UNCHANGED <<pc, env>>
      /\ pending \subseteq env.contexts /\ LoadedOf(visited)
      /\ env.contexts \subseteq ContextNames /\ ContextNames \subseteq Names
      /\ byName \in [Names -> Clusters \cup {Nil}] /\ default \in Clusters \cup {Nil}
      /\ NamesInv /\ k \in Names /\ k \in env.contexts
  BY NamesAssumption DEF LoadContext, IInv, TypeOK, LoopInv, Environments
<1>2. /\ ContextCluster(k) \in Clusters /\ ContextCluster(k) # Nil
      /\ ContextCluster(k).name = k /\ ContextCluster(k).from = "kubeconfig"
  BY <1>1, ClusterType, 0 \in Nat DEF ContextCluster, Origins
<1>3. env.contexts \ pending' = visited \cup {k}
  BY <1>0, <1>1
<1>4. Available(byName)' = Usable \cap (visited \cup {k})
  <2>1. Available(byName) = Usable \cap visited
    BY <1>1 DEF LoadedOf
  <2>2. CASE k \in env.invalid
    BY <1>0, <1>1, <2>1, <2>2 DEF Available, Usable
  <2>3. CASE k \notin env.invalid
    <3>1. \A n \in Names : byName'[n] # Nil <=> n = k \/ byName[n] # Nil
      BY <1>0, <1>1, <1>2, <2>3
    <3> QED
      BY <1>1, <2>1, <2>3, <3>1 DEF Available, Usable
  <2> QED
    BY <2>2, <2>3
<1>5. LoadedOf(visited \cup {k})'
  BY <1>0, <1>1, <1>2, <1>4 DEF LoadedOf, Usable
<1>6. TypeOK'
  BY <1>0, <1>1, <1>2 DEF IInv, TypeOK, gkeVars, sources, search
<1>7. LoopInv' /\ LoadedAsFound' /\ FailedKeepsLoaded'
  BY <1>0, <1>1, <1>3, <1>5 DEF LoopInv, LoadedAsFound, FailedKeepsLoaded, LoadedOf, Usable
<1>8. NamesInv'
  BY <1>0, <1>1, <1>2 DEF NamesInv
<1>9. SetInv' /\ ChoosingInv' /\ EmulationIsLocal'
  <2>1. default' # Nil => default'.from \in Local
    BY <1>0, <1>1, <1>2 DEF IInv, SetInv, Set, Loading, Local
  <2> QED
    BY <1>1, <2>1, SetQuiet DEF Set, Loading
<1> QED
  BY <1>6, <1>7, <1>8, <1>9 DEF IInv

\* All contexts are visited.
LEMMA ContextsLoadedIInv ==
    ASSUME IInv, ContextsLoaded, UNCHANGED gkeVars
    PROVE  IInv'
<1>0. /\ pc = "contexts" /\ pc' = "incluster" /\ LoadedOf(env.contexts)
      /\ UNCHANGED <<byName, default, pending, env>>
  <2>1. env.contexts \ pending = env.contexts
    BY DEF ContextsLoaded
  <2> QED
    BY <2>1 DEF ContextsLoaded, IInv, LoopInv
<1>1. TypeOK'
  BY <1>0 DEF IInv, TypeOK, gkeVars, sources, search, Loading
<1>2. LoopInv' /\ NamesInv' /\ LoadedAsFound' /\ FailedKeepsLoaded'
  BY <1>0 DEF IInv, LoopInv, LoadedOf, Usable, Available, NamesInv, LoadedAsFound,
     FailedKeepsLoaded
<1>3. SetInv' /\ ChoosingInv' /\ EmulationIsLocal'
  BY <1>0, SetQuiet DEF IInv, SetInv, Set, Loading
<1> QED
  BY <1>1, <1>2, <1>3 DEF IInv

\* loadInCluster adds nothing: without a token New succeeds, without a CA it fails.
LEMMA NotInClusterIInv ==
    ASSUME IInv, NotInCluster, UNCHANGED gkeVars
    PROVE  IInv'
<1>0. /\ pc = "incluster" /\ LoadedOf(env.contexts) /\ UNCHANGED <<pending, env>>
      /\ byName \in [Names -> Clusters \cup {Nil}] /\ default \in Clusters \cup {Nil}
      /\ NamesInv
      /\ \/ pc' = "ready" /\ ~env.token /\ Return("ready", byName, default)
         \/ pc' = "failed" /\ Return("failed", byName, default)
  BY DEF NotInCluster, IInv, LoopInv, TypeOK, Return
<1>1. /\ byName' \in [Names -> Clusters \cup {Nil}] /\ default' \in Clusters \cup {Nil}
      /\ Available(byName') = Available(byName)
      /\ \A n \in Names : byName[n] # Nil => byName'[n] # Nil /\ byName'[n].name = byName[n].name
      /\ default = Nil => default' = Nil
      /\ default # Nil => SameCluster(default, default') /\ default'.ns # "empty"
  BY <1>0, ReturnLeaves
<1>2. TypeOK'
  BY <1>0, <1>1 DEF IInv, TypeOK, gkeVars, sources, search
<1>3. NamesInv'
  BY <1>0, <1>1 DEF NamesInv, Available
<1>4. Available(byName)' = Usable /\ Usable' = Usable /\ Usable \cap env.contexts = Usable
  BY <1>0, <1>1 DEF LoadedOf, Usable, Available
<1>5. LoopInv' /\ LoadedAsFound' /\ FailedKeepsLoaded'
  <2>1. env.current \in Usable => default' # Nil /\ default'.name = env.current
    BY <1>0, <1>1, <1>4, GKEAssumption DEF LoadedOf, SameCluster
  <2> QED
    BY <1>0, <1>1, <1>4, <2>1 DEF LoopInv, LoadedAsFound, FailedKeepsLoaded
<1>6. SetInv' /\ ChoosingInv' /\ EmulationIsLocal'
  <2>1. default' # Nil => default'.from \in Local
    BY <1>0, <1>1 DEF IInv, SetInv, Set, Loading, SameCluster
  <2> QED
    BY <1>0, <2>1, SetQuiet DEF Set, Loading
<1> QED
  BY <1>2, <1>3, <1>5, <1>6 DEF IInv

\* loadInCluster adds its cluster, which replaces a context of that name, and is
\* the Default if there is none.
LEMMA LoadInClusterIInv ==
    ASSUME IInv, LoadInCluster, UNCHANGED gkeVars
    PROVE  IInv'
<1> DEFINE ic == Cluster(InCluster, "incluster", 0, IF env.podNS THEN "given" ELSE "empty")
           set == [byName EXCEPT ![InCluster] = ic]
           d == IF default = Nil THEN ic ELSE default
<1>0. /\ pc = "incluster" /\ LoadedOf(env.contexts) /\ UNCHANGED <<pending, env>>
      /\ byName \in [Names -> Clusters \cup {Nil}] /\ default \in Clusters \cup {Nil}
      /\ NamesInv /\ pc' = "ready" /\ env.token /\ Return("ready", set, d)
      /\ InCluster \in Names
  BY NamesAssumption DEF LoadInCluster, IInv, LoopInv, TypeOK, Return
<1>1. /\ ic \in Clusters /\ ic # Nil /\ ic.name = InCluster /\ ic.from = "incluster"
  BY <1>0, ClusterType, 0 \in Nat DEF Origins
<1> HIDE DEF ic
<1>2. /\ set \in [Names -> Clusters \cup {Nil}] /\ d \in Clusters \cup {Nil} /\ d # Nil
      /\ set[InCluster] = ic /\ \A n \in Names \ {InCluster} : set[n] = byName[n]
  BY <1>0, <1>1
<1>3. Available(set) = Available(byName) \cup {InCluster}
  BY <1>0, <1>1, <1>2 DEF Available
<1> HIDE DEF set
<1>4. /\ byName' \in [Names -> Clusters \cup {Nil}] /\ default' \in Clusters \cup {Nil}
      /\ Available(byName') = Available(set)
      /\ \A n \in Names : set[n] # Nil => byName'[n] # Nil /\ byName'[n].name = set[n].name
      /\ SameCluster(d, default') /\ default'.ns # "empty"
      /\ \A n \in Names : set[n] = d => byName'[n] = default'
  BY <1>0, <1>2, ReturnLeaves
<1>5. TypeOK'
  BY <1>0, <1>4 DEF IInv, TypeOK, gkeVars, sources, search
<1>6. NamesInv'
  BY <1>0, <1>1, <1>2, <1>4 DEF NamesInv, Available
<1>7. LoopInv' /\ FailedKeepsLoaded'
  BY <1>0, <1>4 DEF LoopInv, FailedKeepsLoaded
<1>8. LoadedAsFound'
  <2>1. Available(byName)' = Usable \cup {InCluster} /\ Usable' = Usable
    BY <1>0, <1>3, <1>4 DEF LoadedOf, Usable, Available
  <2> QED
    BY <1>0, <2>1 DEF LoadedAsFound
<1>9. SetInv' /\ ChoosingInv' /\ EmulationIsLocal'
  <2>1. default' # Nil => default'.from \in Local
    BY <1>0, <1>1, <1>4 DEF IInv, SetInv, Set, Loading, SameCluster, Local
  <2> QED
    BY <1>0, <2>1, SetQuiet DEF Set, Loading
<1> QED
  BY <1>5, <1>6, <1>7, <1>8, <1>9 DEF IInv

-----------------------------------------------------------------------------
(* A lemma for each kind of step of the gcp module.                        *)

\* After the set's New, what a step may do to the Default and the source of raw
\* tokens without breaking what ties them together.
LEMMA AfterSet ==
    ASSUME IInv, pc' \notin Set, UNCHANGED raw, default' = default \/ default = Nil
    PROVE  LoopInv' /\ SetInv' /\ LoadedAsFound' /\ FailedKeepsLoaded' /\ EmulationIsLocal'
<1>1. LoopInv' /\ SetInv' /\ LoadedAsFound' /\ FailedKeepsLoaded'
  BY DEF Set, Loading, LoopInv, SetInv, LoadedAsFound, FailedKeepsLoaded
<1>2. EmulationIsLocal'
  BY DEF IInv, EmulationIsLocal
<1> QED
  BY <1>1, <1>2

\* The end of the loads decides nothing and forgets what was searched.
LEMMA EndsType ==
    ASSUME Ends
    PROVE  /\ pc' \in {"registering", "gcpReady"} /\ task' = "none"
           /\ wanted' = {} /\ near' = {}
BY DEF Ends

\* New of the gcp module asks the Default for tokens only if there is one.
LEMMA NewIInv ==
    ASSUME IInv, New
    PROVE  IInv'
<1>0. /\ pc \in {"ready", "failed"}
      /\ UNCHANGED <<byName, default, pending, env, address, projectData, wanted, near,
                     provider, tries, loads>>
      /\ pc' \in {"noCredentials", "initGKE", "registering"}
      /\ pc' = "initGKE" => default = Nil
      /\ raw' = raw \/ (raw' = address /\ ~(address /\ default = Nil))
      /\ task' \in {task, "new"}
  BY DEF New, NoCredentials, search
<1>1. access' \in BOOLEAN /\ access \in BOOLEAN /\ address \in BOOLEAN /\ raw \in BOOLEAN
  BY DEF New, IInv, TypeOK
<1>2. TypeOK'
  BY <1>0, <1>1 DEF IInv, TypeOK, Resting
<1>3. NamesInv'
  BY <1>0 DEF IInv, NamesInv
<1>4. LoopInv' /\ SetInv' /\ LoadedAsFound' /\ FailedKeepsLoaded'
  BY <1>0 DEF Set, Loading, LoopInv, SetInv, LoadedAsFound, FailedKeepsLoaded
<1>5. ChoosingInv'
  BY <1>0 DEF IInv, ChoosingInv, SetInv, Set
<1>6. EmulationIsLocal'
  BY <1>0, <1>1 DEF IInv, SetInv, Set, Local, EmulationIsLocal
<1> QED
  BY <1>2, <1>3, <1>4, <1>5, <1>6 DEF IInv

\* A step that moves on, changing neither clusters nor sources.
LEMMA MovesIInv ==
    ASSUME IInv,
           \/ InitGKE \/ Panics \/ NoAPIClient \/ ListHub \/ HubFails \/ HubDone
           \/ AskRegion \/ RegisterProviders \/ SetupAgent \/ CallerLoads \/ GetTokenPanics
    PROVE  IInv'
<1>0. /\ UNCHANGED <<byName, default, env, address, access, raw, projectData, tries>>
      /\ pc \notin Set
      /\ pc' \in Resting \cup {"getCluster", "listGKE", "listHub", "nextHub", "region",
                                "find", "registering", "agent"}
      /\ task' \in {task, "none", "autodetect", "list", "hub"}
      /\ pending' \subseteq Names
  BY GKEAssumption, EndsType DEF InitGKE, Panics, NoAPIClient, ListHub, HubFails, HubDone,
     AskRegion, RegisterProviders, SetupAgent, CallerLoads, GetTokenPanics, gkeVars, sources,
     search, Resting, Set, Loading, IInv, TypeOK
<1>1. provider' = provider \/ provider' = default
  BY DEF InitGKE, Panics, NoAPIClient, ListHub, HubFails, HubDone,
     AskRegion, RegisterProviders, SetupAgent, CallerLoads, GetTokenPanics, gkeVars
<1>2. wanted' \subseteq Names /\ near' \subseteq Names
  BY GKEAssumption, EndsType DEF InitGKE, Panics, NoAPIClient, ListHub, HubFails, HubDone,
     AskRegion, RegisterProviders, SetupAgent, CallerLoads, GetTokenPanics, gkeVars, search,
     Wanted, IInv, TypeOK
<1>3. loads' \in 0..MaxLoads
  BY GKEAssumption DEF InitGKE, Panics, NoAPIClient, ListHub, HubFails, HubDone,
     AskRegion, RegisterProviders, SetupAgent, CallerLoads, GetTokenPanics, gkeVars, IInv, TypeOK
<1>4. /\ pc' = "getCluster" => pc = "initGKE"
      /\ pc' = "find" => default = Nil
  BY EndsType DEF InitGKE, Panics, NoAPIClient, ListHub, HubFails, HubDone,
     AskRegion, Undecided, RegisterProviders, SetupAgent, CallerLoads, GetTokenPanics
<1>5. TypeOK'
  BY <1>0, <1>1, <1>2, <1>3 DEF IInv, TypeOK
<1>6. NamesInv' /\ ChoosingInv'
  BY <1>0, <1>4 DEF IInv, NamesInv, ChoosingInv, Resting
<1>7. pc' \notin Set
  BY <1>0 DEF Set, Loading, Resting
<1>8. /\ LoopInv' /\ SetInv' /\ LoadedAsFound' /\ FailedKeepsLoaded'
      /\ EmulationIsLocal'
  BY <1>0, <1>1, <1>7, AfterSet
<1> QED
  BY <1>5, <1>6, <1>8 DEF IInv

\* GKECluster fails, up to five times, or initGKE makes its result the Default.
LEMMA GetClusterIInv ==
    ASSUME IInv, GetCluster
    PROVE  IInv'
<1> DEFINE explicit == Cluster(Explicit, "explicit", 0, "empty")
<1>0. /\ UNCHANGED <<byName, pending, env, address, access, raw, projectData, provider, loads>>
      /\ pc = "getCluster" /\ default = Nil /\ tries \in 0..4
      /\ \/ default' = explicit /\ Ends /\ tries' = tries
         \/ tries' = tries + 1 /\ tries' = 5 /\ Ends /\ default' = default
         \/ tries' = tries + 1 /\ tries' # 5 /\ default' = default
            /\ UNCHANGED <<pc, task, wanted, near>>
  BY DEF GetCluster, TriesAfterFailure, sources, search, IInv, TypeOK, ChoosingInv
<1>1. explicit \in Clusters
  BY ClusterType, GKEAssumption, 0 \in Nat DEF Origins
<1> HIDE DEF explicit
<1>2. /\ tries' \in 0..5 /\ default' \in Clusters \cup {Nil}
      /\ pc' \in {"getCluster", "registering", "gcpReady"}
      /\ pc' = "getCluster" => tries' < 5 /\ default' = Nil
      /\ task' \in {task, "none"} /\ wanted' \subseteq Names /\ near' \subseteq Names
  BY <1>0, <1>1, EndsType DEF IInv, TypeOK
<1>3. TypeOK'
  BY <1>0, <1>2 DEF IInv, TypeOK, Resting
<1>4. NamesInv' /\ ChoosingInv'
  BY <1>0, <1>2 DEF IInv, NamesInv, ChoosingInv
<1>5. pc' \notin Set
  BY <1>2 DEF Set, Loading
<1>6. /\ LoopInv' /\ SetInv' /\ LoadedAsFound' /\ FailedKeepsLoaded'
      /\ EmulationIsLocal'
  BY <1>0, <1>5, AfterSet
<1> QED
  BY <1>3, <1>4, <1>6 DEF IInv

\* GKE's list and the hub's memberships go to ByName under their names, and leave
\* the Default alone.
LEMMA ListsIInv ==
    ASSUME IInv, ListGKE \/ NextHub
    PROVE  IInv'
<1>0. /\ UNCHANGED <<default, env, address, access, raw, provider, tries, loads>>
      /\ pc' \in {"nextHub", "listHub", "registering", "gcpReady"}
      /\ task' \in {task, "none"} /\ wanted' \subseteq Names /\ near' \subseteq Names
      /\ projectData' \in BOOLEAN /\ pending' \subseteq Names
  <2>1. projectData' \in BOOLEAN
    <3>1. projectData \in BOOLEAN
      BY DEF IInv, TypeOK
    <3>2. \A number \in ProjectNumber : number.data \in BOOLEAN
      <4>1. ProjectNumber \subseteq [numbered : BOOLEAN, data : BOOLEAN]
        <5>1. /\ [numbered |-> TRUE, data |-> TRUE] \in [numbered : BOOLEAN, data : BOOLEAN]
              /\ [numbered |-> TRUE, data |-> FALSE] \in [numbered : BOOLEAN, data : BOOLEAN]
              /\ [numbered |-> FALSE, data |-> FALSE] \in [numbered : BOOLEAN, data : BOOLEAN]
          OBVIOUS
        <5> QED
          BY <5>1, Zenon DEF ProjectNumber
      <4> QED
        BY <4>1
    <3> QED
      BY <3>1, <3>2 DEF ListGKE, NextHub
  <2>2. pending' \subseteq Names
    BY DEF ListGKE, NextHub, IInv, TypeOK
  <2>3. CASE ListGKE
    BY <2>1, <2>2, <2>3, EndsType DEF ListGKE, sources, search, IInv, TypeOK
  <2>4. CASE NextHub
    BY <2>1, <2>2, <2>4 DEF NextHub, sources, search, IInv, TypeOK
  <2> QED
    BY <2>3, <2>4
<1>1. byName' \in [Names -> Clusters \cup {Nil}] /\ NamesInv'
  <2>1. /\ byName \in [Names -> Clusters \cup {Nil}] /\ NamesInv /\ loads \in Nat
        /\ pending \subseteq Names
    BY GKEAssumption DEF IInv, TypeOK
  <2>2. CASE ListGKE
    <3>1. CASE byName' = byName
      BY <2>1, <3>1 DEF NamesInv
    <3>2. CASE byName' # byName
      <4>1. PICK listed \in SUBSET GKENames :
              byName' = [n \in Names |->
                   IF n \in listed
                   THEN ListedEntry(byName[n], Cluster(n, "gke", loads, "given"))
                   ELSE byName[n]]
        BY <2>2, <3>2 DEF ListGKE
      <4>2. \A n \in Names : /\ Cluster(n, "gke", loads, "given") \in Clusters
                             /\ Cluster(n, "gke", loads, "given").name = n
        BY <2>1, ClusterType DEF Origins
      <4>3. \A n \in Names : \/ byName'[n] = byName[n]
                             \/ byName'[n] = Cluster(n, "gke", loads, "given")
        BY <4>1 DEF ListedEntry
      <4> QED
        BY <2>1, <4>1, <4>2, <4>3 DEF NamesInv
    <3> QED
      BY <3>1, <3>2
  <2>3. CASE NextHub
    <3>1. PICK m \in pending, from \in {"hub", "unnumbered"} :
            byName' = [byName EXCEPT ![m] = Cluster(m, from, loads, "empty")]
      BY <2>3 DEF NextHub
    <3>2. /\ Cluster(m, from, loads, "empty") \in Clusters
          /\ Cluster(m, from, loads, "empty").name = m
      BY <2>1, ClusterType DEF Origins
    <3> QED
      BY <2>1, <3>1, <3>2 DEF NamesInv
  <2> QED
    BY <2>2, <2>3
<1>2. TypeOK'
  BY <1>0, <1>1 DEF IInv, TypeOK, Resting
<1>3. ChoosingInv'
  BY <1>0 DEF ChoosingInv
<1>4. pc' \notin Set
  BY <1>0 DEF Set, Loading
<1>5. /\ LoopInv' /\ SetInv' /\ LoadedAsFound' /\ FailedKeepsLoaded'
      /\ EmulationIsLocal'
  BY <1>0, <1>4, AfterSet
<1> QED
  BY <1>1, <1>2, <1>3, <1>5 DEF IInv

\* FindCluster returns a name that is near and named, else named, else near, else
\* any; it fails only if there is none at all.
LEMMA FindClusterReturns ==
    /\ FindCluster \subseteq Available(byName)
    /\ FindCluster = {} => Available(byName) = {}
    /\ Near \cup Named # {} => FindCluster \subseteq Near \cup Named
    /\ Named # {} => FindCluster \subseteq Named
<1> DEFINE passes == <<Near \cap Named, Named, Near, Available(byName)>>
           found == {i \in DOMAIN passes : passes[i] # {}}
           first == CHOOSE i \in found : \A j \in found : i <= j
<1>1. /\ DOMAIN passes = 1..4 /\ passes[1] = Near \cap Named /\ passes[2] = Named
      /\ passes[3] = Near /\ passes[4] = Available(byName)
  OBVIOUS
<1>2. FindCluster = IF found = {} THEN {} ELSE passes[first]
  BY DEF FindCluster, FirstNonEmpty
<1>3. found \subseteq 1..4 /\ \A i \in 1..4 : i \in found <=> passes[i] # {}
  BY <1>1
<1>4. Near \subseteq Available(byName) /\ Named \subseteq Available(byName)
  BY DEF Near, Named
<1>5. found # {} => first \in found /\ \A j \in found : first <= j
  <2> SUFFICES ASSUME found # {} PROVE \E i \in found : \A j \in found : i <= j
    OBVIOUS
  <2> HIDE DEF found, passes
  <2>1. CASE 1 \in found
    BY <1>3, <2>1
  <2>2. CASE 1 \notin found /\ 2 \in found
    BY <1>3, <2>2
  <2>3. CASE 1 \notin found /\ 2 \notin found /\ 3 \in found
    BY <1>3, <2>3
  <2>4. CASE 1 \notin found /\ 2 \notin found /\ 3 \notin found
    <3>1. \A j \in found : j = 4
      BY <1>3, <2>4
    <3> QED
      BY <3>1
  <2> QED
    BY <2>1, <2>2, <2>3, <2>4
<1> HIDE DEF passes, found, first
<1>6. CASE found = {}
  BY <1>1, <1>2, <1>3, <1>6
<1>7. CASE found # {}
  <2>1. first \in 1..4 /\ passes[first] # {} /\ FindCluster = passes[first]
    BY <1>2, <1>3, <1>5, <1>7
  <2>2. \A j \in 1..4 : passes[j] # {} => first <= j
    BY <1>3, <1>5, <1>7
  <2>3. first \in {1, 2, 3, 4}
    BY <2>1
  <2> QED
    BY <1>1, <1>4, <2>1, <2>2, <2>3
<1> QED
  BY <1>6, <1>7

\* FindCluster takes an entry of ByName for the Default.
LEMMA FindIInv ==
    ASSUME IInv, Find
    PROVE  IInv'
<1>0. /\ UNCHANGED <<byName, pending, env, address, access, raw, projectData, provider, tries,
                     loads>>
      /\ default = Nil /\ Ends
      /\ byName \in [Names -> Clusters \cup {Nil}]
  BY DEF Find, sources, IInv, TypeOK, ChoosingInv
<1>1. default' \in Clusters \cup {Nil}
  BY <1>0, FindClusterReturns DEF Find, Available
<1>2. TypeOK'
  BY <1>0, <1>1, EndsType DEF IInv, TypeOK, Resting
<1>3. NamesInv' /\ ChoosingInv'
  BY <1>0, EndsType DEF IInv, NamesInv, ChoosingInv
<1>4. pc' \notin Set
  BY <1>0, EndsType DEF Set, Loading
<1>5. /\ LoopInv' /\ SetInv' /\ LoadedAsFound' /\ FailedKeepsLoaded'
      /\ EmulationIsLocal'
  BY <1>0, <1>4, AfterSet
<1> QED
  BY <1>2, <1>3, <1>5 DEF IInv

-----------------------------------------------------------------------------
(* Theorems.                                                               *)

\* Every step keeps the invariant.
LEMMA StepIInv == IInv /\ [Next]_vars => IInv'
<1> SUFFICES ASSUME IInv, [Next]_vars PROVE IInv'
  OBVIOUS
<1>1. CASE UNCHANGED vars
  BY <1>1 DEF vars, setVars, gkeVars, sources, search, IInv, TypeOK, LoopInv, LoadedOf, Usable,
     Available, NamesInv, SetInv, ChoosingInv, LoadedAsFound, FailedKeepsLoaded,
     EmulationIsLocal
<1>2. CASE Next
  BY <1>2, ReadKubeConfigIInv, LoadContextIInv, ContextsLoadedIInv, NotInClusterIInv,
     LoadInClusterIInv, NewIInv, MovesIInv, GetClusterIInv, ListsIInv, FindIInv
  DEF Next, Running, InitSet, SetNext
<1> QED
  BY <1>1, <1>2

\* The invariant is inductive.
THEOREM Invariance == Spec => []IInv
BY InitIInv, StepIInv, PTL DEF Spec

\* Every variable has its type: GKECluster tries five times at most, and whatever is
\* found becomes an entry or the Default with all its parts.
THEOREM TypeCorrect == Spec => []TypeOK
<1>1. IInv => TypeOK
  BY DEF IInv
<1> QED
  BY <1>1, Invariance, PTL

\* In whatever order Go ranges over the contexts, New loads each usable one, and out
\* of a cluster a usable current context is the Default.
THEOREM LoadingSafe == Spec => []LoadedAsFound
<1>1. IInv => LoadedAsFound
  BY DEF IInv
<1> QED
  BY <1>1, Invariance, PTL

\* A New of the set that fails keeps what it has loaded, and a Default that any
\* return of New leaves has a namespace.
THEOREM FailingSafe == Spec => []FailedKeepsLoaded
<1>1. IInv => FailedKeepsLoaded
  BY DEF IInv
<1> QED
  BY <1>1, Invariance, PTL

\* The cluster behind the emulated metadata server is never one that GKE or the hub
\* has listed.
THEOREM EmulationSafe == Spec => []EmulationIsLocal
<1>1. IInv => EmulationIsLocal
  BY DEF IInv
<1> QED
  BY <1>1, Invariance, PTL
-----------------------------------------------------------------------------
(* Theorems about steps.                                                   *)

\* What a step may do to a Default that there is: nothing, but for its namespace.
LEMMA DefaultKept ==
    ASSUME IInv, Next, default # Nil
    PROVE  SameCluster(default, default')
<1>0. /\ default \in Clusters /\ byName \in [Names -> Clusters \cup {Nil}]
      /\ ChoosingInv
  BY DEF IInv, TypeOK
<1>1. ASSUME default' = default PROVE SameCluster(default, default')
  BY <1>1 DEF SameCluster
<1>2. ASSUME NEW result, Return(result, byName, default) PROVE SameCluster(default, default')
  BY <1>0, <1>2, ReturnLeaves
<1>3. CASE LoadInCluster
  <2> DEFINE ic == Cluster(InCluster, "incluster", 0, IF env.podNS THEN "given" ELSE "empty")
             set == [byName EXCEPT ![InCluster] = ic]
  <2>1. Return("ready", set, default)
    BY <1>3 DEF LoadInCluster
  <2>2. ic \in Clusters
    BY ClusterType, NamesAssumption, 0 \in Nat DEF Origins
  <2>3. set \in [Names -> Clusters \cup {Nil}]
    <3> HIDE DEF ic
    <3> QED
      BY <1>0, <2>2
  <2> HIDE DEF set, ic
  <2> QED
    BY <1>0, <2>1, <2>3, ReturnLeaves
<1>4. CASE ReadKubeConfig \/ NotInCluster
  BY <1>1, <1>2, <1>4 DEF ReadKubeConfig, NotInCluster
<1>5. CASE LoadContext \/ ContextsLoaded
  BY <1>1, <1>5 DEF LoadContext, ContextsLoaded, BecomesDefault
<1>6. CASE GetCluster \/ Find
  BY <1>0, <1>6 DEF GetCluster, Find, ChoosingInv
<1>7. CASE \/ New \/ InitGKE \/ Panics \/ NoAPIClient \/ ListGKE \/ ListHub \/ HubFails
           \/ NextHub \/ HubDone \/ AskRegion \/ RegisterProviders \/ SetupAgent
           \/ CallerLoads \/ GetTokenPanics
  BY <1>1, <1>7 DEF New, InitGKE, Panics, NoAPIClient, ListGKE, ListHub, HubFails, NextHub,
     HubDone, AskRegion, RegisterProviders, SetupAgent, CallerLoads, GetTokenPanics
<1> QED
  BY <1>3, <1>4, <1>5, <1>6, <1>7 DEF Next, Running, InitSet, SetNext

\* Once there is a Default no load, listing or autodetection makes it another
\* cluster.
THEOREM DefaultSafe == Spec => DefaultStays
<1>1. IInv /\ [Next]_vars => [default # Nil => SameCluster(default, default')]_vars
  BY DefaultKept
<1> QED
  BY <1>1, Invariance, PTL DEF Spec, DefaultStays

\* What a step may make of an entry of ByName: the same but for the namespace, the
\* in-cluster cluster, a listed one where there was none, or a membership.
EntryStep(n) ==
    \/ byName'[n] = byName[n]
    \/ /\ byName[n] # Nil /\ byName'[n] # Nil /\ byName'[n].from = byName[n].from
       /\ ~projectData
    \/ byName'[n] # Nil /\ byName'[n].from \in Local
    \/ byName[n] = Nil /\ byName'[n] # Nil /\ byName'[n].from = "gke"
    \/ byName'[n] # Nil /\ byName'[n].from = "hub"
    \/ byName'[n] # Nil /\ byName'[n].from = "unnumbered" /\ ~projectData

\* Every step of New, of the loads and of the autodetection is such a step of
\* every entry.
LEMMA EntrySteps ==
    ASSUME IInv, Next, NEW n \in Names
    PROVE  EntryStep(n)
<1>0. /\ default \in Clusters \cup {Nil} /\ byName \in [Names -> Clusters \cup {Nil}]
      /\ loads \in Nat /\ pending \subseteq Names
  BY GKEAssumption DEF IInv, TypeOK
<1>a. pc \in Set => ~projectData
  BY DEF IInv, SetInv
<1>1. ASSUME byName' = byName PROVE EntryStep(n)
  BY <1>1 DEF EntryStep
<1>2. ASSUME NEW result, Return(result, byName, default), pc \in Set PROVE EntryStep(n)
  BY <1>0, <1>a, <1>2, ReturnLeaves DEF EntryStep, Available
<1>3. CASE LoadInCluster
  <2> DEFINE ic == Cluster(InCluster, "incluster", 0, IF env.podNS THEN "given" ELSE "empty")
             set == [byName EXCEPT ![InCluster] = ic]
             d == IF default = Nil THEN ic ELSE default
  <2>1. Return("ready", set, d)
    BY <1>3 DEF LoadInCluster
  <2>2. ic \in Clusters /\ ic # Nil /\ ic.from = "incluster"
    BY ClusterType, NamesAssumption, 0 \in Nat DEF Origins
  <2> HIDE DEF ic
  <2>3. set \in [Names -> Clusters \cup {Nil}] /\ d \in Clusters \cup {Nil}
    BY <1>0, <2>2
  <2>4. set[n] = byName[n] \/ (set[n] # Nil /\ set[n].from = "incluster")
    BY <1>0, <2>2
  <2> HIDE DEF set, d
  <2>5. /\ Available(byName') = Available(set)
        /\ set[n] # Nil => byName'[n] # Nil /\ byName'[n].from = set[n].from
    BY <2>1, <2>3, ReturnLeaves
  <2>6. ~projectData
    BY <1>3, <1>a DEF LoadInCluster, Set, Loading
  <2> QED
    BY <2>4, <2>5, <2>6 DEF EntryStep, Available, Local
<1>4. CASE ReadKubeConfig \/ NotInCluster
  BY <1>1, <1>2, <1>4 DEF ReadKubeConfig, NotInCluster, Set, Loading
<1>5. CASE LoadContext
  <2>1. \A k \in Names : ContextCluster(k) # Nil /\ ContextCluster(k).from = "kubeconfig"
    BY ClusterType, 0 \in Nat DEF ContextCluster, Origins
  <2> QED
    BY <1>0, <1>1, <1>5, <2>1 DEF LoadContext, EntryStep, Local
<1>6. CASE ListGKE
  <2>1. /\ Cluster(n, "gke", loads, "given") # Nil
        /\ Cluster(n, "gke", loads, "given").from = "gke"
    BY <1>0, ClusterType DEF Origins
  <2> QED
    BY <1>0, <1>1, <1>6, <2>1 DEF ListGKE, ListedEntry, EntryStep
<1>7. CASE NextHub
  <2>1. PICK m \in pending, number \in ProjectNumber :
          byName' = [byName EXCEPT ![m] =
                Cluster(m, IF number.numbered THEN "hub" ELSE "unnumbered", loads, "empty")]
    BY <1>7 DEF NextHub
  <2>2. projectData => number.numbered
    BY DEF ProjectNumber
  <2>3. \A from \in {"hub", "unnumbered"} :
          Cluster(m, from, loads, "empty") # Nil /\ Cluster(m, from, loads, "empty").from = from
    BY <1>0, ClusterType DEF Origins
  <2> QED
    BY <1>0, <2>1, <2>2, <2>3 DEF EntryStep
<1>8. CASE \/ ContextsLoaded \/ GetCluster \/ Find
           \/ New \/ InitGKE \/ Panics \/ NoAPIClient \/ ListHub \/ HubFails
           \/ HubDone \/ AskRegion \/ RegisterProviders \/ SetupAgent
           \/ CallerLoads \/ GetTokenPanics
  BY <1>1, <1>8 DEF ContextsLoaded, GetCluster, Find, New, InitGKE, Panics, NoAPIClient, ListHub,
     HubFails, HubDone, AskRegion, RegisterProviders, SetupAgent, CallerLoads, GetTokenPanics
<1> QED
  BY <1>3, <1>4, <1>5, <1>6, <1>7, <1>8 DEF Next, Running, InitSet, SetNext

\* No load takes a name away from ByName, and GKE's list replaces no entry that a
\* kubeconfig made.
THEOREM EntriesSafe == Spec => EntriesKept
<1>1. IInv /\ [Next]_vars =>
        [\A n \in Names : byName[n] # Nil =>
           /\ byName'[n] # Nil
           /\ byName[n].from = "kubeconfig" => byName'[n].from # "gke"]_vars
  BY EntrySteps DEF EntryStep, Local
<1> QED
  BY <1>1, Invariance, PTL DEF Spec, EntriesKept

\* Entries are written without the project's number only as long as the resource
\* manager has not told it.
THEOREM NumberSafe == Spec => NumberKept
<1>1. IInv /\ [Next]_vars =>
        [projectData => \A n \in Names :
           byName'[n] # byName[n] => byName'[n].from # "unnumbered"]_vars
  BY EntrySteps DEF EntryStep, Local
<1> QED
  BY <1>1, Invariance, PTL DEF Spec, NumberKept

\* What Find makes the Default, when nothing else can run.
LEMMA FindFinds ==
    ASSUME IInv, Next, pc = "find"
    PROVE  /\ FindCluster = {} => default' = Nil
           /\ FindCluster # {} => default' # Nil /\ default'.name \in FindCluster
<1>1. Find /\ default = Nil /\ NamesInv
  BY DEF IInv, ChoosingInv, Next, Running, InitSet, SetNext, ReadKubeConfig, LoadContext,
     ContextsLoaded, NotInCluster, LoadInCluster, New, InitGKE, Panics, GetCluster, NoAPIClient,
     ListGKE, ListHub, HubFails, NextHub, HubDone, AskRegion, RegisterProviders, SetupAgent,
     CallerLoads, GetTokenPanics
<1>2. \A n \in FindCluster : n \in Names /\ byName[n] # Nil
  BY FindClusterReturns DEF Available
<1> QED
  BY <1>1, <1>2 DEF Find, NamesInv

\* Autodetect finds a Default whenever any cluster is known, and one that is near
\* or has the wanted name if there is one.
THEOREM AutodetectSafe == Spec => AutodetectFinds
<1>1. IInv /\ [Next]_vars =>
        [Finding => /\ default' # Nil <=> Available(byName) # {}
                    /\ Near \cup Named # {} => default'.name \in Near \cup Named]_vars
  <2> SUFFICES ASSUME IInv, Next, pc = "find"
               PROVE  /\ default' # Nil <=> Available(byName) # {}
                      /\ Near \cup Named # {} => default'.name \in Near \cup Named
    BY DEF Finding
  <2>1. Near \cup Named \subseteq Available(byName)
    BY DEF Near, Named
  <2> QED
    BY <2>1, FindFinds, FindClusterReturns
<1> QED
  BY <1>1, Invariance, PTL DEF Spec, AutodetectFinds
=============================================================================
