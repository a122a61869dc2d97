--------------------------- MODULE ClusterClient ---------------------------
(***************************************************************************)
(* One K8SCluster (kube_cluster.go) used by several goroutines at once, as *)
(* the Default of a cluster set is: its clientset, made on first use; the  *)
(* service account it asks tokens for; the labels it takes from its name;  *)
(* and the clones RunAs makes of it.  None of its fields has a lock.       *)
(*                                                                         *)
(* client is one word.  ksa, project, location and name are Go strings of  *)
(* two words, written one at a time in either order: between the two a     *)
(* string has its length but not its bytes, or its bytes but no length.    *)
(* Fields are written in the order of the source.  (So do builds for       *)
(* amd64; whoever sees a clientset there sees all of it.)                  *)
(*                                                                         *)
(* The cluster's API server, and what NewForConfig reads, are external.  A *)
(* panic ends the call: servers recover it, or the next call is another    *)
(* process's.                                                              *)
(***************************************************************************)
EXTENDS Naturals, Sequences

CONSTANTS
    Callers,     \* goroutines
    Cloners,     \* those of them that make clones for themselves
    Shared,      \* the cluster they share; a caller's name is that of its clone
    MaxFailures  \* bound: calls of NewForConfig that fail

ASSUME ClusterAssumption ==
    Shared \notin Callers /\ Cloners \subseteq Callers /\ MaxFailures \in Nat

VARIABLES
    client,      \* whether each cluster object has its clientset
    ns,          \* K8SCluster.Namespace: "empty" or "given"
    ksa,         \* K8SCluster.KSA: "empty", "length", "bytes", "default" or "given"
    kind,        \* what the shared cluster's name looks like
    gcp,         \* its project, location and name: "empty", "length", "bytes" or "set"
    pc,          \* where each caller is
    call,        \* which call of which object that is
    todo,        \* the strings it has still to write
    sa,          \* the service account it will ask a token for
    answer,      \* of the call that returned last, until another begins
    failures,    \* failed calls of NewForConfig so far
    overlapped   \* two calls were ever under way at once

cluster == <<client, ns, ksa, kind, gcp>>
caller == <<pc, call, todo, sa>>
vars == <<cluster, caller, answer, failures, overlapped>>

Objects == {Shared} \cup Cloners

\* Names as the gcp module makes them, with a part or two missing, or any other
Malformed == {"gke_project", "gke_project_location"}
Kinds == {"gke", "connectgateway", "other"} \cup Malformed
Labels == {"project", "location", "name"}

\* What len() of a string in that state is not
NonEmpty(s) == s \notin {"empty", "bytes"}

Init ==
    /\ client = [o \in Objects |-> FALSE]
    /\ ns \in [Objects -> {"empty", "given"}]
    /\ \A c \in Cloners : ns[c] = "empty"
    /\ ksa = [o \in Objects |-> "empty"]
    /\ kind \in Kinds /\ gcp = [l \in Labels |-> "empty"]
    /\ pc = [c \in Callers |-> "idle"]
    /\ call = [c \in Callers |-> [op |-> "none", of |-> Shared]]
    /\ todo = [c \in Callers |-> <<>>] /\ sa = [c \in Callers |-> "empty"]
    /\ answer = [is |-> "none"]
    /\ failures = 0 /\ overlapped = FALSE

-----------------------------------------------------------------------------
(* A call begins and ends.                                                 *)

Begin(c, op, o, at) ==
    /\ pc[c] = "idle"
    /\ pc' = [pc EXCEPT ![c] = at]
    /\ call' = [call EXCEPT ![c] = [op |-> op, of |-> o]]
    /\ answer' = [is |-> "none"]
    /\ overlapped' = (overlapped \/ \E d \in Callers : pc[d] # "idle")
    /\ UNCHANGED <<cluster, todo, sa, failures>>

\* The local variables go
Return(c, result) ==
    /\ pc' = [pc EXCEPT ![c] = "idle"]
    /\ call' = [call EXCEPT ![c] = [op |-> "none", of |-> Shared]]
    /\ todo' = [todo EXCEPT ![c] = <<>>] /\ sa' = [sa EXCEPT ![c] = "empty"]
    /\ answer' = result

Panic(why) == [is |-> "panic", why |-> why]

\* Any object of the caller's: the shared one, or the clone once RunAs made it
Mine(c) == {Shared} \cup {o \in Cloners \cap {c} : ns[o] = "given"}

\* GetCM and GetSecret: they ask for a clientset first
CallGet(c) == \E o \in Mine(c) : Begin(c, "get", o, "client")

CallRunAs(c) == c \in Cloners /\ Begin(c, "runas", Shared, "client")

\* K8SCluster.GetToken fills in the KSA, K8S.GetToken takes it as it is
CallClusterGetToken(c) == \E o \in Mine(c) : Begin(c, "token", o, "fillKSA")

CallSetGetToken(c) == Begin(c, "token", Shared, "readKSA")

\* Label, and Location through it
CallLabel(c) == \E l \in Labels : Begin(c, l, Shared, "gcpInfo")

-----------------------------------------------------------------------------
(* The clientset.                                                          *)

\* Fault: every call makes a clientset
NeedsClientAlways(o) == TRUE

\* Fault: a first attempt that failed is the only one
NeedsClientOnce(o) == ~client[o] /\ failures = 0

NeedsClient(o) == ~client[o]

\* Client: kr.client == nil
CheckClient(c) ==
    /\ pc[c] = "client"
    /\ pc' = [pc EXCEPT ![c] = IF NeedsClient(call[c].of) THEN "build" ELSE "return"]
    /\ UNCHANGED <<cluster, call, todo, sa, answer, failures, overlapped>>

\* Fault: := declares a variable of the if in place of the field
BuiltClientShadowed(o) == client[o]

\* kr.client, err = ...
BuiltClient(o) == TRUE

\* NewForConfig succeeds: a clientset another caller has stored is replaced
BuildClient(c) ==
    /\ pc[c] = "build"
    /\ client' = [client EXCEPT ![call[c].of] = BuiltClient(call[c].of)]
    /\ pc' = [pc EXCEPT ![c] = "return"]
    /\ UNCHANGED <<ns, ksa, kind, gcp, call, todo, sa, answer, failures, overlapped>>

\* NewForConfig fails: its nil is stored all the same
BuildFails(c) ==
    /\ pc[c] = "build" /\ failures < MaxFailures
    /\ failures' = failures + 1
    /\ client' = [client EXCEPT ![call[c].of] = FALSE]
    /\ pc' = [pc EXCEPT ![c] = "return"]
    /\ UNCHANGED <<ns, ksa, kind, gcp, call, todo, sa, answer, overlapped>>

\* RunAs: the clone takes the clientset, or nil, and its own names; its labels
\* start empty
RunAs(c) ==
    /\ pc[c] = "return" /\ call[c].op = "runas"
    /\ client' = [client EXCEPT ![c] = client[Shared]]
    /\ ns' = [ns EXCEPT ![c] = "given"]
    /\ \E given \in {"empty", "given"} : ksa' = [ksa EXCEPT ![c] = given]
    /\ Return(c, [is |-> "done"])
    /\ UNCHANGED <<kind, gcp, failures, overlapped>>

\* GetCM, GetSecret: a nil clientset is used
Get(c) ==
    /\ pc[c] = "return" /\ call[c].op = "get"
    /\ Return(c, IF client[call[c].of] THEN [is |-> "done"] ELSE Panic("nil"))
    /\ UNCHANGED <<cluster, failures, overlapped>>

-----------------------------------------------------------------------------
(* Tokens.                                                                 *)

\* GetToken: k.KSA == ""
FillKSA(c) ==
    /\ pc[c] = "fillKSA"
    /\ IF NonEmpty(ksa[call[c].of])
       THEN pc' = [pc EXCEPT ![c] = "readKSA"] /\ UNCHANGED todo
       ELSE pc' = [pc EXCEPT ![c] = "writeKSA"] /\ todo' = [todo EXCEPT ![c] = <<"ksa">>]
    /\ UNCHANGED <<cluster, call, sa, answer, failures, overlapped>>

\* The states a string goes through when a caller writes it, one word at a time
Written(old, new) == IF old = "empty" THEN {"length", "bytes"} ELSE {new}

\* k.KSA = "default"
WriteKSA(c) ==
    /\ pc[c] = "writeKSA"
    /\ \E s \in Written(ksa[call[c].of], "default") :
          /\ ksa' = [ksa EXCEPT ![call[c].of] = s]
          /\ IF s = "default"
             THEN pc' = [pc EXCEPT ![c] = "readKSA"] /\ todo' = [todo EXCEPT ![c] = <<>>]
             ELSE UNCHANGED <<pc, todo>>
    /\ UNCHANGED <<client, ns, kind, gcp, call, sa, answer, failures, overlapped>>

\* Fault: an empty account is sent as it is
DefaultedNever(s) == s

\* GetTokenRaw: an empty namespace or account is "default"
Defaulted(s) == IF NonEmpty(s) THEN s ELSE "default"

\* The KSA becomes an argument of GetTokenRaw
ReadKSA(c) ==
    /\ pc[c] = "readKSA"
    /\ sa' = [sa EXCEPT ![c] = Defaulted(ksa[call[c].of])]
    /\ pc' = [pc EXCEPT ![c] = "client"]
    /\ UNCHANGED <<cluster, call, todo, answer, failures, overlapped>>

\* CreateToken: a nil clientset or a length without bytes is used, else the API
\* server gives a token or an error
CreateToken(c) ==
    /\ pc[c] = "return" /\ call[c].op = "token"
    /\ LET o == call[c].of
       IN \/ Return(c, CASE ~client[o]         -> Panic("nil")
                         [] sa[c] = "length"   -> Panic("race")
                         [] OTHER -> [is |-> "token", of |-> o, ksa |-> sa[c],
                                      ns |-> Defaulted(ns[o])])
          \/ client[o] /\ sa[c] # "length" /\ Return(c, [is |-> "error"])
    /\ UNCHANGED <<cluster, failures, overlapped>>

-----------------------------------------------------------------------------
(* Labels.                                                                 *)

\* Fault: only what Location() is about is kept
LabelsWrittenLocation ==
    CASE kind = "gke" -> <<"location">> [] OTHER -> <<>>

\* What GcpInfo writes, in order; a "gke_" name of too few parts ends it
LabelsWritten ==
    CASE kind = "gke" -> <<"project", "location", "name">>
      [] kind = "gke_project_location" -> <<"project", "location">>
      [] kind \in {"gke_project", "connectgateway"} -> <<"project">>
      [] kind = "other" -> <<>>

\* GcpInfo: k.location != ""
GcpInfo(c) ==
    /\ pc[c] = "gcpInfo"
    /\ IF NonEmpty(gcp["location"])
       THEN pc' = [pc EXCEPT ![c] = "label"] /\ UNCHANGED todo
       ELSE pc' = [pc EXCEPT ![c] = "writeInfo"] /\ todo' = [todo EXCEPT ![c] = LabelsWritten]
    /\ UNCHANGED <<cluster, call, sa, answer, failures, overlapped>>

WriteInfo(c) ==
    /\ pc[c] = "writeInfo" /\ todo[c] # <<>>
    /\ \E s \in Written(gcp[Head(todo[c])], "set") :
          /\ gcp' = [gcp EXCEPT ![Head(todo[c])] = s]
          /\ todo' = [todo EXCEPT ![c] = IF s = "set" THEN Tail(@) ELSE @]
    /\ UNCHANGED <<client, ns, ksa, kind, pc, call, sa, answer, failures, overlapped>>

\* parts[2] or parts[3] of a malformed name is out of range; a location that
\* was written before stays, and the next call returns it
InfoWritten(c) ==
    /\ pc[c] = "writeInfo" /\ todo[c] = <<>>
    /\ IF kind \in Malformed
       THEN Return(c, Panic("name"))
       ELSE pc' = [pc EXCEPT ![c] = "label"] /\ UNCHANGED <<call, todo, sa, answer>>
    /\ UNCHANGED <<cluster, failures, overlapped>>

\* The field is read, and the string used
Label(c) ==
    /\ pc[c] = "label"
    /\ LET s == gcp[call[c].op]
       IN Return(c, IF s = "length" THEN Panic("race")
                    ELSE [is |-> "label", of |-> call[c].op, empty |-> ~NonEmpty(s)])
    /\ UNCHANGED <<cluster, failures, overlapped>>

-----------------------------------------------------------------------------
Starts(c) == \/ CallGet(c) \/ CallRunAs(c) \/ CallClusterGetToken(c)
             \/ CallSetGetToken(c) \/ CallLabel(c)

Runs(c) == \/ CheckClient(c) \/ BuildClient(c) \/ RunAs(c) \/ Get(c)
           \/ FillKSA(c) \/ WriteKSA(c) \/ ReadKSA(c) \/ CreateToken(c)
           \/ GcpInfo(c) \/ WriteInfo(c) \/ InfoWritten(c) \/ Label(c)

Next == \E c \in Callers : Starts(c) \/ Runs(c) \/ BuildFails(c)

\* A goroutine that is in a call runs, and calls of others return
Spec == Init /\ [][Next]_vars /\ \A c \in Callers : WF_vars(Runs(c))

-----------------------------------------------------------------------------
(* Properties.                                                             *)

Words == {"empty", "length", "bytes"}

\* Every variable has its type.
TypeOK ==
    /\ client \in [Objects -> BOOLEAN]
    /\ ns \in [Objects -> {"empty", "given"}]
    /\ ksa \in [Objects -> Words \cup {"default", "given"}]
    /\ kind \in Kinds /\ gcp \in [Labels -> Words \cup {"set"}]
    /\ pc \in [Callers -> {"idle", "client", "build", "return", "fillKSA", "writeKSA",
                           "readKSA", "gcpInfo", "writeInfo", "label"}]
    /\ \A c \in Callers : pc[c] # "idle" => call[c].of \in Mine(c)
    /\ sa \in [Callers -> {"empty", "length", "default", "given"}]
    /\ failures \in 0..MaxFailures /\ overlapped \in BOOLEAN

\* A call panics for one of three reasons only: for want of a clientset if some
\* NewForConfig has failed, however calls interleave; on a half-written string
\* if calls have overlapped; on the cluster's name if that is malformed.
PanicsExplained ==
    answer.is = "panic" =>
        \/ answer.why = "nil" /\ failures > 0
        \/ answer.why = "race" /\ overlapped
        \/ answer.why = "name" /\ kind \in Malformed

\* Every token is for the account of the object it was asked of: the same
\* through the set and through the cluster, before and after GetToken has
\* filled in the KSA, and for a clone the one RunAs was given.
TokensAgree ==
    answer.is = "token" =>
        LET o == answer.of IN
           /\ answer.ns = IF ns[o] = "given" THEN "given" ELSE "default"
           /\ answer.ksa = IF o # Shared /\ ksa[o] = "given" THEN "given" ELSE "default"

\* A GKE cluster's location is never answered as empty, and as long as no two
\* calls overlap nor are its project and name (a second caller may see the
\* location, take the others for written, and read them too early).
LabelsAnswered ==
    answer.is = "label" /\ kind = "gke" =>
        ~answer.empty \/ (overlapped /\ answer.of # "location")

\* The shared cluster's clientset, once made, is lost only to a NewForConfig that
\* fails, and only if calls have overlapped before: callers that take turns
\* never make one anew, and no clone takes it away.
ClientKept ==
    [][client[Shared] /\ ~client'[Shared] => overlapped /\ failures' > failures]_vars

\* When calls keep needing the shared cluster's clientset and NewForConfig
\* fails no more, there is one in the end, and no call that was under way when
\* it failed takes it away again.
ClientRecovers ==
    []<>(\E c \in Callers : pc[c] = "client" /\ call[c].of = Shared)
        => <>[](client[Shared])
=============================================================================
