------------------------ MODULE ClusterClientProofs ------------------------
(***************************************************************************)
(* Proofs about ClusterClient, for any callers, cloners and failures.      *)
(*                                                                         *)
(* The argument is about who can be blamed for what a caller finds.  A     *)
(* string is half written only while some caller is writing it; so a       *)
(* caller that reads one is not alone.  A caller that has been through     *)
(* Client finds a clientset unless NewForConfig has failed.  And only the  *)
(* caller that owns a clone writes the clone's account.                    *)
(***************************************************************************)
EXTENDS ClusterClient, TLAPS

Gets == {"get", "runas"}
Locals == {"client", "build", "return"}
Filling == {"fillKSA", "writeKSA", "readKSA"}
Labelling == {"gcpInfo", "writeInfo", "label"}
Calls == [op : Gets \cup {"none", "token"} \cup Labels, of : Objects]

\* The type of the variables, one by one
TypeInv ==
    /\ client \in [Objects -> BOOLEAN]
    /\ ns \in [Objects -> {"empty", "given"}]
    /\ ksa \in [Objects -> Words \cup {"default", "given"}]
    /\ kind \in Kinds /\ gcp \in [Labels -> Words \cup {"set"}]
    /\ pc \in [Callers -> {"idle"} \cup Locals \cup Filling \cup Labelling]
    /\ call \in [Callers -> Calls]
    /\ todo \in [Callers -> Seq(Labels \cup {"ksa"})]
    /\ sa \in [Callers -> {"empty", "length", "default", "given"}]
    /\ failures \in 0..MaxFailures /\ overlapped \in BOOLEAN

\* A caller is where its call can be, with an object of its own
InCall(c) ==
    /\ pc[c] # "idle" => call[c].of \in Mine(c)
    /\ pc[c] \in Locals => call[c].op \in Gets \cup {"token"}
    /\ pc[c] \in Filling => call[c].op = "token"
    /\ pc[c] \in Labelling => call[c].op \in Labels
    /\ call[c].op = "runas" => c \in Cloners /\ call[c].of = Shared

\* Two callers are in calls only if calls have overlapped
Alone == ~overlapped => \A c, d \in Callers : pc[c] # "idle" /\ pc[d] # "idle" => c = d

\* After Client there is a clientset, unless NewForConfig has failed
Served == failures = 0 => \A c \in Callers : pc[c] = "return" => client[call[c].of]

HalfWritten(s) == s \in {"length", "bytes"}

Writes(c, l) == pc[c] = "writeInfo" /\ todo[c] # <<>> /\ Head(todo[c]) = l

\* A half-written string has a writer
Halves ==
    /\ \A o \in Objects : HalfWritten(ksa[o]) =>
          \E c \in Callers : pc[c] = "writeKSA" /\ call[c].of = o
    /\ \A l \in Labels : HalfWritten(gcp[l]) => \E c \in Callers : Writes(c, l)

\* The account a token is asked for is that of the object
Accounts ==
    /\ ksa[Shared] # "given"
    /\ \A c \in Callers : sa[c] = "length" => overlapped
    /\ \A c \in Callers : pc[c] \in Locals /\ call[c].op = "token" =>
          /\ sa[c] # "empty"
          /\ sa[c] = "given" <=> call[c].of # Shared /\ ksa[call[c].of] = "given"

\* The strings a writer of a GKE cluster's labels has still to write
ToWrite == {<<"project", "location", "name">>, <<"location", "name">>, <<"name">>, <<>>}

\* What a GKE cluster's labels are while they are written
Writing ==
    /\ \A c \in Callers : pc[c] = "writeInfo" => todo[c] \in ToWrite
    /\ \A c \in Callers : pc[c] = "writeInfo" =>
          /\ todo[c] # <<"project", "location", "name">> => gcp["project"] = "set"
          /\ todo[c] \in {<<"name">>, <<>>} => gcp["location"] = "set"
          /\ todo[c] = <<>> => gcp["name"] = "set"
    /\ \A c \in Callers : pc[c] = "label" => NonEmpty(gcp["location"])
    /\ gcp["location"] # "empty" => gcp["project"] = "set"
    /\ gcp["location"] # "empty" /\ gcp["name"] # "set" =>
          \E c \in Callers : pc[c] = "writeInfo" /\ todo[c] # <<>>

\* The owner of a clone whose token has been answered has not begun a new call
Answered ==
    answer.is = "token" =>
        /\ answer.of \in Objects
        /\ answer.of # Shared => pc[answer.of] = "idle"

IInv ==
    /\ TypeInv /\ Alone /\ Served /\ Halves /\ Accounts
    /\ \A c \in Callers : InCall(c)
    /\ kind = "gke" => Writing
    /\ Answered
    /\ PanicsExplained /\ TokensAgree /\ LabelsAnswered

\* A caller alone makes a clientset only for an object that has none
BuildsFirst ==
    ~overlapped => \A c \in Callers : pc[c] = "build" => ~client[call[c].of]

-----------------------------------------------------------------------------
(* Lemmas about strings and objects.                                       *)

\* An object that a caller may use is the shared one or its own.
LEMMA MineOwn ==
    ASSUME NEW c \in Callers, NEW o \in Mine(c)
    PROVE  /\ o \in Objects
           /\ o # Shared => o = c /\ c \in Cloners /\ ns[o] = "given"
BY DEF Mine, Objects

\* A string that is written is half written, if it was empty, or finished; it
\* does not become empty, and one that is finished stays so.
LEMMA WrittenStates ==
    ASSUME NEW old, NEW new, NEW s \in Written(old, new)
    PROVE  /\ HalfWritten(s) \/ s = new
           /\ HalfWritten(s) /\ ~HalfWritten(new) => old = "empty"
           /\ s \in {"length", "bytes", new}
BY DEF Written, HalfWritten

-----------------------------------------------------------------------------
(* A lemma for each kind of step.                                          *)

\* Initially nothing is written and nobody is in a call.
LEMMA InitIInv == Init => IInv
<1> SUFFICES ASSUME Init PROVE IInv
  OBVIOUS
<1>1. TypeInv
  <2>1. [op |-> "none", of |-> Shared] \in Calls
    BY DEF Calls, Objects
  <2>2. <<>> \in Seq(Labels \cup {"ksa"})
    OBVIOUS
  <2>3. failures \in 0..MaxFailures
    BY ClusterAssumption DEF Init
  <2> QED
    BY <2>1, <2>2, <2>3 DEF Init, TypeInv, Words
<1>2. Alone /\ Served /\ Halves /\ Accounts /\ Writing
  BY <1>1 DEF Init, Alone, Served, Halves, HalfWritten, Accounts, Locals, Writing,
     TypeInv, Objects, Labels
<1>3. \A c \in Callers : InCall(c)
  BY DEF Init, InCall, Locals, Filling, Labelling
<1>4. Answered /\ PanicsExplained /\ TokensAgree /\ LabelsAnswered
  BY DEF Init, Answered, PanicsExplained, TokensAgree, LabelsAnswered
<1> QED
  BY <1>1, <1>2, <1>3, <1>4 DEF IInv

\* Calls begin: what the call is of is the caller's to use.
LEMMA StartsIInv ==
    ASSUME IInv, NEW c \in Callers, Starts(c)
    PROVE  IInv'
<1>1. PICK op \in Gets \cup {"token"} \cup Labels, o \in Mine(c),
           at \in {"client", "fillKSA", "readKSA", "gcpInfo"} :
         /\ Begin(c, op, o, at)
         /\ op = "runas" => c \in Cloners /\ o = Shared
         /\ at = "client" => op \in Gets
         /\ at \in Filling => op = "token"
         /\ at = "gcpInfo" => op \in Labels
  <2>1. Shared \in Mine(c)
    BY DEF Mine
  <2>2. CASE CallGet(c)
    BY <2>2 DEF CallGet, Gets, Filling
  <2>3. CASE CallRunAs(c)
    BY <2>1, <2>3 DEF CallRunAs, Gets, Filling
  <2>4. CASE CallClusterGetToken(c)
    BY <2>4 DEF CallClusterGetToken, Filling
  <2>5. CASE CallSetGetToken(c)
    BY <2>1, <2>5 DEF CallSetGetToken, Filling
  <2>6. CASE CallLabel(c)
    BY <2>1, <2>6 DEF CallLabel, Labels, Filling
  <2> QED
    BY <2>2, <2>3, <2>4, <2>5, <2>6 DEF Starts
<1>2. o \in Objects
  BY MineOwn
<1>3. TypeInv'
  BY <1>1, <1>2 DEF IInv, TypeInv, Begin, cluster, Calls, Locals, Filling, Labelling
<1>4. Alone'
  BY <1>1 DEF IInv, TypeInv, Alone, Begin
<1>5. Served' /\ Halves'
  BY <1>1 DEF IInv, TypeInv, Served, Halves, Writes, Begin, cluster
<1>6. Accounts'
  BY <1>1 DEF IInv, TypeInv, Accounts, Locals, Gets, Begin, cluster, Labels
<1>7. (\A d \in Callers : InCall(d))'
  BY <1>1 DEF IInv, TypeInv, InCall, Mine, Locals, Filling, Labelling, Gets, Begin,
     cluster
<1>8. (kind = "gke" => Writing)'
  BY <1>1 DEF IInv, TypeInv, Writing, Begin, cluster
<1>9. (Answered /\ PanicsExplained /\ TokensAgree /\ LabelsAnswered)'
  BY <1>1 DEF Begin, Answered, PanicsExplained, TokensAgree, LabelsAnswered
<1> QED
  BY <1>3, <1>4, <1>5, <1>6, <1>7, <1>8, <1>9 DEF IInv

\* While nobody takes away what a caller has answered, the answers stay true:
\* the clones the last token was asked of are their owners' to change.
LEMMA AnswersStay ==
    ASSUME IInv, NEW c \in Callers, pc[c] # "idle",
           UNCHANGED <<ns, kind, answer, overlapped>>,
           failures' \in Nat, failures' >= failures,
           \A d \in Callers \ {c} : pc'[d] = pc[d],
           \A o \in Objects : o # Shared /\ o # c => ksa'[o] = ksa[o]
    PROVE  (Answered /\ PanicsExplained /\ TokensAgree /\ LabelsAnswered)'
<1>1. answer.is = "token" /\ answer.of # Shared => pc[answer.of] = "idle" /\ answer.of # c
  BY DEF IInv, Answered
<1>2. Answered'
  BY <1>1, ClusterAssumption DEF IInv, Answered, Objects
<1>3. PanicsExplained'
  BY DEF IInv, TypeInv, PanicsExplained
<1>4. TokensAgree'
  BY <1>1 DEF IInv, Answered, TokensAgree
<1>5. LabelsAnswered'
  BY DEF IInv, LabelsAnswered
<1> QED
  BY <1>2, <1>3, <1>4, <1>5

\* What GcpInfo has to write, by what the name looks like.
LEMMA LabelsWrittenBy ==
    ASSUME kind \in Kinds
    PROVE  /\ kind = "gke" => LabelsWritten = <<"project", "location", "name">>
           /\ LabelsWritten \in Seq(Labels)
<1>1. LabelsWritten \in {<<"project", "location", "name">>, <<"project", "location">>,
                         <<"project">>, <<>>}
  BY Zenon DEF LabelsWritten, Kinds, Malformed
<1>2. kind = "gke" => LabelsWritten = <<"project", "location", "name">>
  BY Zenon DEF LabelsWritten
<1>3. /\ <<"project", "location", "name">> \in Seq(Labels) /\ <<"project", "location">> \in Seq(Labels)
      /\ <<"project">> \in Seq(Labels) /\ <<>> \in Seq(Labels)
  BY DEF Labels
<1> QED
  BY <1>1, <1>2, <1>3

\* A caller looks at a field, or takes it as an argument, and moves on.
LEMMA ReadsIInv ==
    ASSUME IInv, NEW c \in Callers,
           CheckClient(c) \/ FillKSA(c) \/ ReadKSA(c) \/ GcpInfo(c)
    PROVE  IInv'
<1>0. /\ UNCHANGED <<cluster, call, answer, failures, overlapped>>
      /\ pc[c] # "idle"
      /\ pc' \in [Callers -> {"idle"} \cup Locals \cup Filling \cup Labelling]
      /\ \A d \in Callers \ {c} : pc'[d] = pc[d] /\ todo'[d] = todo[d] /\ sa'[d] = sa[d]
      /\ pc'[c] # "idle"
      /\ pc[c] \in Locals => pc'[c] \in Locals
      /\ pc[c] = "readKSA" => pc'[c] = "client"
      /\ pc[c] = "fillKSA" => pc'[c] \in Filling
      /\ pc[c] = "gcpInfo" => pc'[c] \in Labelling
      /\ pc[c] \in {"client", "fillKSA", "readKSA", "gcpInfo"}
  <2>1. CASE CheckClient(c)
    BY <2>1 DEF IInv, TypeInv, CheckClient, Locals, Filling, Labelling
  <2>2. CASE FillKSA(c)
    BY <2>2 DEF IInv, TypeInv, FillKSA, Locals, Filling, Labelling
  <2>3. CASE ReadKSA(c)
    BY <2>3 DEF IInv, TypeInv, ReadKSA, Locals, Filling, Labelling
  <2>4. CASE GcpInfo(c)
    BY <2>4 DEF IInv, TypeInv, GcpInfo, Locals, Filling, Labelling
  <2> QED
    BY <2>1, <2>2, <2>3, <2>4
<1>1. TypeInv'
  <2>1. LabelsWritten \in Seq(Labels)
    BY LabelsWrittenBy DEF IInv, TypeInv
  <2>2. <<"ksa">> \in Seq(Labels \cup {"ksa"}) /\ LabelsWritten \in Seq(Labels \cup {"ksa"})
    BY <2>1
  <2>3. \A o \in Objects : Defaulted(ksa[o]) \in {"length", "default", "given"}
    BY DEF Defaulted, NonEmpty, IInv, TypeInv, Words
  <2>4. todo' \in [Callers -> Seq(Labels \cup {"ksa"})]
    BY <2>2 DEF IInv, TypeInv, CheckClient, FillKSA, ReadKSA, GcpInfo
  <2>5. sa' \in [Callers -> {"empty", "length", "default", "given"}]
    <3>1. call[c].of \in Objects
      BY DEF IInv, TypeInv, Calls
    <3> QED
      BY <2>3, <3>1 DEF IInv, TypeInv, CheckClient, FillKSA, ReadKSA, GcpInfo
  <2> QED
    BY <1>0, <2>4, <2>5 DEF IInv, TypeInv, cluster
<1>2. Alone'
  BY <1>0 DEF IInv, Alone
<1>3. Served'
  BY <1>0 DEF IInv, TypeInv, Served, CheckClient, NeedsClient, FillKSA, ReadKSA, GcpInfo,
     cluster
<1>4. Halves'
  BY <1>0 DEF IInv, Halves, HalfWritten, Writes, cluster
<1>5. Accounts'
  <2>1. CASE ReadKSA(c)
    <3>1. call[c].of # Shared => call[c].of = c
      BY <1>0, MineOwn DEF IInv, InCall
    <3>2. ksa[call[c].of] = "length" => overlapped
      BY <1>0, <2>1 DEF ReadKSA, IInv, TypeInv, Calls, Halves, HalfWritten, Alone
    <3> QED
      BY <1>0, <2>1, <3>1, <3>2 DEF ReadKSA, IInv, TypeInv, Calls, Accounts, Defaulted,
         NonEmpty, Words, cluster
  <2>2. CASE ~ReadKSA(c)
    BY <1>0, <2>2 DEF IInv, InCall, Accounts, CheckClient, FillKSA, GcpInfo, cluster,
       Locals, Filling, Labelling, Labels, Gets
  <2> QED
    BY <2>1, <2>2
<1>6. (\A d \in Callers : InCall(d))'
  BY <1>0 DEF IInv, TypeInv, InCall, Mine, cluster, Locals, Filling, Labelling
<1>7. (kind = "gke" => Writing)'
  <2> SUFFICES ASSUME kind = "gke" PROVE Writing'
    BY <1>0 DEF cluster
  <2>1. Writing /\ gcp' = gcp
    BY <1>0 DEF IInv, cluster
  <2>2. pc'[c] = "writeInfo" => GcpInfo(c)
    BY DEF IInv, TypeInv, CheckClient, FillKSA, ReadKSA
  <2>3. GcpInfo(c) =>
          \/ pc'[c] = "label" /\ NonEmpty(gcp["location"])
          \/ pc'[c] = "writeInfo" /\ todo'[c] = <<"project", "location", "name">>
    BY LabelsWrittenBy DEF GcpInfo, IInv, TypeInv
  <2>4. pc'[c] = "label" => GcpInfo(c)
    BY DEF IInv, TypeInv, CheckClient, FillKSA, ReadKSA
  <2>5. \A d \in Callers : pc'[d] = "writeInfo" =>
           \/ pc[d] = "writeInfo" /\ todo'[d] = todo[d]
           \/ todo'[d] = <<"project", "location", "name">>
    BY <1>0, <2>2, <2>3
  <2>6. \A d \in Callers : pc[d] = "writeInfo" => pc'[d] = "writeInfo" /\ todo'[d] = todo[d]
    BY <1>0
  <2>7. (\A d \in Callers : pc[d] = "label" => NonEmpty(gcp["location"]))'
    BY <1>0, <2>1, <2>3, <2>4 DEF Writing, NonEmpty
  <2>8. /\ <<"project", "location", "name">> \notin {<<"name">>, <<>>}
        /\ <<"project", "location", "name">> \in ToWrite
    BY DEF ToWrite
  <2> QED
    BY <2>1, <2>5, <2>6, <2>7, <2>8 DEF Writing
<1>8. (Answered /\ PanicsExplained /\ TokensAgree /\ LabelsAnswered)'
  <2>1. UNCHANGED <<ns, ksa, kind>>
    BY <1>0 DEF cluster
  <2>2. failures' \in Nat /\ failures' >= failures
    BY <1>0, ClusterAssumption DEF IInv, TypeInv
  <2> QED
    BY <1>0, <2>1, <2>2, AnswersStay
<1> QED
  BY <1>1, <1>2, <1>3, <1>4, <1>5, <1>6, <1>7, <1>8 DEF IInv

\* NewForConfig has succeeded or failed: whoever is in "return" is served, or has
\* a failure to explain that it is not.
LEMMA BuildsIInv ==
    ASSUME IInv, NEW c \in Callers, BuildClient(c) \/ BuildFails(c)
    PROVE  IInv'
<1>0. /\ UNCHANGED <<ns, ksa, kind, gcp, call, todo, sa, answer, overlapped>>
      /\ pc[c] = "build" /\ pc' = [pc EXCEPT ![c] = "return"]
      /\ \/ client' = [client EXCEPT ![call[c].of] = TRUE] /\ failures' = failures
         \/ client' = [client EXCEPT ![call[c].of] = FALSE] /\ failures' = failures + 1
            /\ failures < MaxFailures
  BY DEF BuildClient, BuildFails, BuiltClient
<1>1. TypeInv'
  <2>1. client' \in [Objects -> BOOLEAN]
    BY <1>0 DEF IInv, TypeInv
  <2>2. failures' \in 0..MaxFailures
    BY <1>0, ClusterAssumption DEF IInv, TypeInv
  <2>3. pc' \in [Callers -> {"idle"} \cup Locals \cup Filling \cup Labelling]
    BY <1>0 DEF IInv, TypeInv, Locals
  <2> QED
    BY <1>0, <2>1, <2>2, <2>3 DEF IInv, TypeInv
<1>2. Alone'
  BY <1>0 DEF IInv, TypeInv, Alone
<1>3. Served'
  BY <1>0, ClusterAssumption DEF IInv, TypeInv, Served, Calls
<1>4. Halves'
  BY <1>0 DEF IInv, TypeInv, Halves, Writes
<1>5. Accounts'
  BY <1>0 DEF IInv, TypeInv, Accounts, Locals
<1>6. (\A d \in Callers : InCall(d))'
  BY <1>0 DEF IInv, TypeInv, InCall, Mine, Locals, Filling, Labelling
<1>7. (kind = "gke" => Writing)'
  BY <1>0 DEF IInv, TypeInv, Writing
<1>8. (Answered /\ PanicsExplained /\ TokensAgree /\ LabelsAnswered)'
  <2>1. failures' \in Nat /\ failures' >= failures
    BY <1>0, ClusterAssumption DEF IInv, TypeInv
  <2> QED
    BY <1>0, <2>1, AnswersStay DEF IInv, TypeInv
<1> QED
  BY <1>1, <1>2, <1>3, <1>4, <1>5, <1>6, <1>7, <1>8 DEF IInv

\* A caller that is writing nothing returns: nothing that others rely on goes.
LEMMA ReturnsKeep ==
    ASSUME IInv, NEW c \in Callers, NEW result, Return(c, result),
           pc[c] \notin {"idle", "writeKSA"}, pc[c] = "writeInfo" => todo[c] = <<>>,
           UNCHANGED <<cluster, failures, overlapped>>
    PROVE  /\ TypeInv' /\ Alone' /\ Served' /\ Halves' /\ Accounts'
           /\ (\A d \in Callers : InCall(d))' /\ (kind = "gke" => Writing)'
<1>0. /\ pc' = [pc EXCEPT ![c] = "idle"]
      /\ call' = [call EXCEPT ![c] = [op |-> "none", of |-> Shared]]
      /\ todo' = [todo EXCEPT ![c] = <<>>] /\ sa' = [sa EXCEPT ![c] = "empty"]
      /\ UNCHANGED <<client, ns, ksa, kind, gcp, failures, overlapped>>
  BY DEF Return, cluster
<1>1. TypeInv'
  <2>1. [op |-> "none", of |-> Shared] \in Calls
    BY DEF Calls, Objects
  <2>2. <<>> \in Seq(Labels \cup {"ksa"})
    OBVIOUS
  <2> QED
    BY <1>0, <2>1, <2>2 DEF IInv, TypeInv
<1>2. Alone' /\ Served' /\ Halves'
  BY <1>0 DEF IInv, TypeInv, Alone, Served, Halves, Writes
<1>3. Accounts'
  BY <1>0 DEF IInv, TypeInv, Accounts, Locals
<1>4. (\A d \in Callers : InCall(d))'
  BY <1>0 DEF IInv, TypeInv, InCall, Mine, Locals, Filling, Labelling
<1>5. (kind = "gke" => Writing)'
  BY <1>0 DEF IInv, TypeInv, Writing
<1> QED
  BY <1>1, <1>2, <1>3, <1>4, <1>5

\* GetCM and GetSecret return, or panic for want of a clientset.
LEMMA GetIInv ==
    ASSUME IInv, NEW c \in Callers, Get(c)
    PROVE  IInv'
<1>1. /\ TypeInv' /\ Alone' /\ Served' /\ Halves' /\ Accounts'
      /\ (\A d \in Callers : InCall(d))' /\ (kind = "gke" => Writing)'
  BY ReturnsKeep DEF Get
<1>2. failures = 0 => client[call[c].of]
  BY DEF Get, IInv, Served
<1>3. (Answered /\ PanicsExplained /\ TokensAgree /\ LabelsAnswered)'
  BY <1>2 DEF Get, Return, Panic, IInv, TypeInv, Answered, PanicsExplained, TokensAgree,
     LabelsAnswered
<1> QED
  BY <1>1, <1>3 DEF IInv

\* CreateToken answers for the object's account, fails, or panics.
LEMMA CreateTokenIInv ==
    ASSUME IInv, NEW c \in Callers, CreateToken(c)
    PROVE  IInv'
<1> DEFINE o == call[c].of
<1>0. pc[c] = "return" /\ call[c].op = "token" /\ UNCHANGED <<cluster, failures, overlapped>>
  BY DEF CreateToken
<1>1. \/ ~client[o] /\ Return(c, Panic("nil"))
      \/ sa[c] = "length" /\ Return(c, Panic("race"))
      \/ sa[c] # "length"
         /\ Return(c, [is |-> "token", of |-> o, ksa |-> sa[c], ns |-> Defaulted(ns[o])])
      \/ Return(c, [is |-> "error"])
  BY Zenon DEF CreateToken
<1>2. /\ TypeInv' /\ Alone' /\ Served' /\ Halves' /\ Accounts'
      /\ (\A d \in Callers : InCall(d))' /\ (kind = "gke" => Writing)'
  BY <1>0, <1>1, ReturnsKeep
<1>3. o \in Objects /\ (o # Shared => o = c)
  BY <1>0, MineOwn DEF IInv, InCall
<1>4. CASE ~client[o] /\ Return(c, Panic("nil"))
  <2>1. failures > 0
    BY <1>0, <1>4, ClusterAssumption DEF IInv, TypeInv, Served
  <2>2. answer' = [is |-> "panic", why |-> "nil"] /\ failures' > 0
    BY <1>0, <1>4, <2>1 DEF Return, Panic
  <2>3. (Answered /\ PanicsExplained /\ TokensAgree /\ LabelsAnswered)'
    BY <2>2 DEF Answered, PanicsExplained, TokensAgree, LabelsAnswered
  <2> QED
    BY <1>2, <2>3 DEF IInv
<1>5. CASE sa[c] = "length" /\ Return(c, Panic("race"))
  BY <1>0, <1>2, <1>5 DEF Return, Panic, IInv, Accounts, Answered,
     PanicsExplained, TokensAgree, LabelsAnswered
<1>6. CASE sa[c] # "length"
         /\ Return(c, [is |-> "token", of |-> o, ksa |-> sa[c], ns |-> Defaulted(ns[o])])
  <2>1. sa[c] = IF o # Shared /\ ksa[o] = "given" THEN "given" ELSE "default"
    BY <1>0, <1>6 DEF IInv, TypeInv, Accounts, Locals
  <2>2. Defaulted(ns[o]) = IF ns[o] = "given" THEN "given" ELSE "default"
    BY <1>3 DEF IInv, TypeInv, Defaulted, NonEmpty
  <2> QED
    BY <1>0, <1>2, <1>3, <1>6, <2>1, <2>2 DEF Return, IInv, TypeInv, Answered,
       PanicsExplained, TokensAgree, LabelsAnswered, cluster
<1>7. CASE Return(c, [is |-> "error"])
  BY <1>2, <1>7 DEF Return, IInv, Answered, PanicsExplained, TokensAgree, LabelsAnswered
<1> QED
  BY <1>1, <1>2, <1>4, <1>5, <1>6, <1>7 DEF IInv

\* RunAs changes the clone of the caller that is in it, and of nobody else.
LEMMA RunAsIInv ==
    ASSUME IInv, NEW c \in Callers, RunAs(c)
    PROVE  IInv'
<1>0. /\ pc[c] = "return" /\ c \in Cloners /\ call[c].of = Shared
      /\ c # Shared /\ c \in Objects /\ Shared \in Objects
  BY ClusterAssumption DEF RunAs, IInv, InCall, Objects
<1>1. /\ client' = [client EXCEPT ![c] = client[Shared]] /\ ns' = [ns EXCEPT ![c] = "given"]
      /\ \E given \in {"empty", "given"} : ksa' = [ksa EXCEPT ![c] = given]
      /\ pc' = [pc EXCEPT ![c] = "idle"]
      /\ call' = [call EXCEPT ![c] = [op |-> "none", of |-> Shared]]
      /\ todo' = [todo EXCEPT ![c] = <<>>] /\ sa' = [sa EXCEPT ![c] = "empty"]
      /\ answer' = [is |-> "done"] /\ UNCHANGED <<kind, gcp, failures, overlapped>>
  BY DEF RunAs, Return
<1>2. \A d \in Callers \ {c} : pc[d] # "idle" => call[d].of # c
  BY <1>0, MineOwn DEF IInv, InCall
<1>3. TypeInv'
  <2>1. [op |-> "none", of |-> Shared] \in Calls /\ <<>> \in Seq(Labels \cup {"ksa"})
    BY DEF Calls, Objects
  <2> QED
    BY <1>0, <1>1, <2>1 DEF IInv, TypeInv, Words
<1>4. Alone' /\ Served'
  BY <1>0, <1>1 DEF IInv, TypeInv, Alone, Served, Calls
<1>5. Halves'
  BY <1>0, <1>1 DEF IInv, TypeInv, Halves, HalfWritten, Writes
<1>6. Accounts'
  BY <1>0, <1>1, <1>2 DEF IInv, TypeInv, Accounts, Locals, Calls
<1>7. (\A d \in Callers : InCall(d))'
  BY <1>0, <1>1 DEF IInv, TypeInv, InCall, Mine, Locals, Filling, Labelling
<1>8. (kind = "gke" => Writing)'
  BY <1>0, <1>1 DEF IInv, TypeInv, Writing
<1>9. (Answered /\ PanicsExplained /\ TokensAgree /\ LabelsAnswered)'
  BY <1>1 DEF Answered, PanicsExplained, TokensAgree, LabelsAnswered
<1> QED
  BY <1>3, <1>4, <1>5, <1>6, <1>7, <1>8, <1>9 DEF IInv

\* GetToken fills in the account of an object that only this caller asks tokens
\* for, or of the shared one, whose account is never given.
LEMMA WriteKSAIInv ==
    ASSUME IInv, NEW c \in Callers, WriteKSA(c)
    PROVE  IInv'
<1> DEFINE o == call[c].of
<1>0. PICK s \in {"length", "bytes", "default"} :
         /\ pc[c] = "writeKSA" /\ ksa' = [ksa EXCEPT ![o] = s]
         /\ IF s = "default"
            THEN pc' = [pc EXCEPT ![c] = "readKSA"] /\ todo' = [todo EXCEPT ![c] = <<>>]
            ELSE UNCHANGED <<pc, todo>>
         /\ UNCHANGED <<client, ns, kind, gcp, call, sa, answer, failures, overlapped>>
  <2>1. PICK s \in Written(ksa[o], "default") :
           /\ pc[c] = "writeKSA" /\ ksa' = [ksa EXCEPT ![o] = s]
           /\ IF s = "default"
              THEN pc' = [pc EXCEPT ![c] = "readKSA"] /\ todo' = [todo EXCEPT ![c] = <<>>]
              ELSE UNCHANGED <<pc, todo>>
           /\ UNCHANGED <<client, ns, kind, gcp, call, sa, answer, failures, overlapped>>
    BY DEF WriteKSA
  <2>2. s \in {"length", "bytes", "default"}
    BY DEF Written
  <2> QED
    BY <2>1, <2>2
<1>1. o \in Objects /\ (o # Shared => o = c)
  BY <1>0, MineOwn DEF IInv, InCall
<1>a. /\ \A d \in Callers \ {c} : pc'[d] = pc[d] /\ todo'[d] = todo[d]
      /\ pc'[c] \in {"writeKSA", "readKSA"}
      /\ s # "default" => pc' = pc
  BY <1>0 DEF IInv, TypeInv
<1>2. TypeInv'
  <2>1. <<>> \in Seq(Labels \cup {"ksa"})
    OBVIOUS
  <2> QED
    BY <1>0, <1>1, <2>1 DEF IInv, TypeInv, Words, Filling
<1>3. Alone' /\ Served'
  BY <1>0, <1>a DEF IInv, Alone, Served
<1>4. Halves'
  <2>1. (\A x \in Objects : HalfWritten(ksa[x]) =>
           \E d \in Callers : pc[d] = "writeKSA" /\ call[d].of = x)'
    <3> SUFFICES ASSUME NEW x \in Objects, HalfWritten(ksa'[x])
                 PROVE  \E d \in Callers : pc'[d] = "writeKSA" /\ call'[d].of = x
      BY DEF HalfWritten
    <3>1. CASE x = o
      BY <1>0, <1>1, <1>a, <3>1 DEF IInv, TypeInv, HalfWritten
    <3>2. CASE x # o
      BY <1>0, <1>a, <3>2 DEF IInv, TypeInv, Halves, HalfWritten
    <3> QED
      BY <3>1, <3>2
  <2>2. (\A l \in Labels : HalfWritten(gcp[l]) => \E d \in Callers : Writes(d, l))'
    BY <1>0, <1>a DEF IInv, Halves, HalfWritten, Writes
  <2> QED
    BY <2>1, <2>2 DEF Halves
<1>5. Accounts'
  <2>1. \A d \in Callers : pc'[d] \in Locals => d # c /\ pc[d] = pc'[d]
    BY <1>0 DEF IInv, TypeInv, Locals
  <2>2. \A d \in Callers : pc[d] \in Locals /\ call[d].of = o /\ d # c => o = Shared
    BY <1>1, MineOwn DEF IInv, InCall, Locals
  <2> QED
    BY <1>0, <1>1, <2>1, <2>2 DEF IInv, TypeInv, Accounts, Calls
<1>6. (\A d \in Callers : InCall(d))'
  BY <1>0 DEF IInv, TypeInv, InCall, Mine, Locals, Filling, Labelling
<1>7. (kind = "gke" => Writing)'
  BY <1>0, <1>a DEF IInv, Writing
<1>8. (Answered /\ PanicsExplained /\ TokensAgree /\ LabelsAnswered)'
  <2>1. failures' \in Nat /\ failures' >= failures
    BY <1>0, ClusterAssumption DEF IInv, TypeInv
  <2> QED
    BY <1>0, <1>1, <2>1, AnswersStay DEF IInv, TypeInv
<1> QED
  BY <1>2, <1>3, <1>4, <1>5, <1>6, <1>7, <1>8 DEF IInv

\* GcpInfo writes the next word of a label: the labels before it are set.
LEMMA WriteInfoIInv ==
    ASSUME IInv, NEW c \in Callers, WriteInfo(c)
    PROVE  IInv'
<1> DEFINE l == Head(todo[c])
<1>0. PICK s \in Written(gcp[l], "set") :
         /\ pc[c] = "writeInfo" /\ todo[c] # <<>>
         /\ gcp' = [gcp EXCEPT ![l] = s]
         /\ todo' = [todo EXCEPT ![c] = IF s = "set" THEN Tail(@) ELSE @]
         /\ UNCHANGED <<client, ns, ksa, kind, pc, call, sa, answer, failures, overlapped>>
  BY DEF WriteInfo
<1>1. /\ s \in {"length", "bytes", "set"}
      /\ s # "set" => gcp[l] = "empty" /\ todo' = todo
  BY <1>0, WrittenStates DEF HalfWritten, IInv, TypeInv
<1>2. TypeInv'
  <2>1. Tail(todo[c]) \in Seq(Labels \cup {"ksa"})
    BY <1>0 DEF IInv, TypeInv
  <2> QED
    BY <1>0, <1>1, <2>1 DEF IInv, TypeInv, Words
<1>3. Alone' /\ Served' /\ Accounts'
  BY <1>0 DEF IInv, TypeInv, Alone, Served, Accounts
<1>4. Halves'
  BY <1>0, <1>1 DEF IInv, TypeInv, Halves, HalfWritten, Writes
<1>5. (\A d \in Callers : InCall(d))'
  BY <1>0 DEF IInv, TypeInv, InCall, Mine
<1>6. (kind = "gke" => Writing)'
  <2> SUFFICES ASSUME kind = "gke" PROVE Writing'
    BY <1>0
  <2>1. Writing
    BY <1>0 DEF IInv
  <2>2. todo[c] \in ToWrite
    BY <1>0, <2>1 DEF Writing
  <2>3. CASE todo[c] = <<"project", "location", "name">>
    <3>1. l = "project" /\ Tail(todo[c]) = <<"location", "name">>
      BY <2>3
    <3>2. (\A d \in Callers : pc[d] = "writeInfo" => todo[d] \in ToWrite)'
      BY <1>0, <2>1, <2>3, <3>1 DEF IInv, TypeInv, Writing, ToWrite
    <3>3. (\A d \in Callers : pc[d] = "writeInfo" =>
             /\ todo[d] # <<"project", "location", "name">> => gcp["project"] = "set"
             /\ todo[d] \in {<<"name">>, <<>>} => gcp["location"] = "set"
             /\ todo[d] = <<>> => gcp["name"] = "set")'
      BY <1>0, <1>1, <2>1, <2>3, <3>1 DEF IInv, TypeInv, Writing, Labels
    <3>4. (\A d \in Callers : pc[d] = "label" => NonEmpty(gcp["location"]))'
      BY <1>0, <1>1, <2>1, <3>1 DEF IInv, TypeInv, Writing, Labels, NonEmpty
    <3>5. (gcp["location"] # "empty" => gcp["project"] = "set")'
      BY <1>0, <1>1, <2>1, <2>3, <3>1 DEF IInv, TypeInv, Writing, Labels
    <3>6. (gcp["location"] # "empty" /\ gcp["name"] # "set" =>
             \E d \in Callers : pc[d] = "writeInfo" /\ todo[d] # <<>>)'
      BY <1>0, <1>1, <2>1, <2>3, <3>1 DEF IInv, TypeInv, Writing, Labels
    <3> QED
      BY <3>2, <3>3, <3>4, <3>5, <3>6 DEF Writing
  <2>4. CASE todo[c] = <<"location", "name">>
    <3>1. l = "location" /\ Tail(todo[c]) = <<"name">>
      BY <2>4
    <3>2. (\A d \in Callers : pc[d] = "writeInfo" => todo[d] \in ToWrite)'
      BY <1>0, <2>1, <2>4, <3>1 DEF IInv, TypeInv, Writing, ToWrite
    <3>3. (\A d \in Callers : pc[d] = "writeInfo" =>
             /\ todo[d] # <<"project", "location", "name">> => gcp["project"] = "set"
             /\ todo[d] \in {<<"name">>, <<>>} => gcp["location"] = "set"
             /\ todo[d] = <<>> => gcp["name"] = "set")'
      BY <1>0, <1>1, <2>1, <2>4, <3>1 DEF IInv, TypeInv, Writing, Labels
    <3>4. (\A d \in Callers : pc[d] = "label" => NonEmpty(gcp["location"]))'
      BY <1>0, <1>1, <2>1, <3>1 DEF IInv, TypeInv, Writing, Labels, NonEmpty
    <3>5. (gcp["location"] # "empty" => gcp["project"] = "set")'
      BY <1>0, <1>1, <2>1, <2>4, <3>1 DEF IInv, TypeInv, Writing, Labels
    <3>6. (gcp["location"] # "empty" /\ gcp["name"] # "set" =>
             \E d \in Callers : pc[d] = "writeInfo" /\ todo[d] # <<>>)'
      BY <1>0, <1>1, <2>1, <2>4, <3>1 DEF IInv, TypeInv, Writing, Labels
    <3> QED
      BY <3>2, <3>3, <3>4, <3>5, <3>6 DEF Writing
  <2>5. CASE todo[c] = <<"name">>
    <3>1. l = "name" /\ Tail(todo[c]) = <<>>
      BY <2>5
    <3> QED
      BY <1>0, <1>1, <2>1, <3>1 DEF IInv, TypeInv, Writing, ToWrite, Labels, NonEmpty
  <2> QED
    BY <1>0, <2>2, <2>3, <2>4, <2>5 DEF ToWrite
<1>7. (Answered /\ PanicsExplained /\ TokensAgree /\ LabelsAnswered)'
  <2>1. failures' \in Nat /\ failures' >= failures
    BY <1>0, ClusterAssumption DEF IInv, TypeInv
  <2> QED
    BY <1>0, <2>1, AnswersStay
<1> QED
  BY <1>2, <1>3, <1>4, <1>5, <1>6, <1>7 DEF IInv

\* GcpInfo has written all it has to, or panics on a malformed name.
LEMMA InfoWrittenIInv ==
    ASSUME IInv, NEW c \in Callers, InfoWritten(c)
    PROVE  IInv'
<1>0. pc[c] = "writeInfo" /\ todo[c] = <<>> /\ UNCHANGED <<cluster, failures, overlapped>>
  BY DEF InfoWritten
<1>1. CASE kind \in Malformed
  <2>1. Return(c, Panic("name"))
    BY <1>1 DEF InfoWritten
  <2>2. /\ TypeInv' /\ Alone' /\ Served' /\ Halves' /\ Accounts'
        /\ (\A d \in Callers : InCall(d))' /\ (kind = "gke" => Writing)'
    BY <1>0, <2>1, ReturnsKeep
  <2>3. answer' = [is |-> "panic", why |-> "name"] /\ kind' \in Malformed
    BY <1>0, <1>1, <2>1 DEF Return, Panic, cluster
  <2>4. (Answered /\ PanicsExplained /\ TokensAgree /\ LabelsAnswered)'
    BY <2>3 DEF Answered, PanicsExplained, TokensAgree, LabelsAnswered
  <2> QED
    BY <2>2, <2>4 DEF IInv
<1>2. CASE kind \notin Malformed
  <2>0. pc' = [pc EXCEPT ![c] = "label"] /\ UNCHANGED <<call, todo, sa, answer>>
    BY <1>2 DEF InfoWritten
  <2>1. TypeInv'
    BY <1>0, <2>0 DEF IInv, TypeInv, cluster, Labelling
  <2>2. Alone' /\ Served' /\ Halves' /\ Accounts'
    BY <1>0, <2>0 DEF IInv, TypeInv, Alone, Served, Halves, Writes, Accounts, Locals, cluster
  <2>3. (\A d \in Callers : InCall(d))'
    BY <1>0, <2>0 DEF IInv, TypeInv, InCall, Mine, Locals, Filling, Labelling, cluster
  <2>4. (kind = "gke" => Writing)'
    BY <1>0, <2>0 DEF IInv, TypeInv, Writing, NonEmpty, cluster
  <2>5. (Answered /\ PanicsExplained /\ TokensAgree /\ LabelsAnswered)'
    <3>1. failures' \in Nat /\ failures' >= failures /\ UNCHANGED <<ns, ksa, kind>>
      BY <1>0, ClusterAssumption DEF IInv, TypeInv, cluster
    <3> QED
      BY <1>0, <2>0, <3>1, AnswersStay DEF IInv, TypeInv
  <2> QED
    BY <2>1, <2>2, <2>3, <2>4, <2>5 DEF IInv
<1> QED
  BY <1>1, <1>2

\* Label answers with the field, which is set unless another caller is at it.
LEMMA LabelIInv ==
    ASSUME IInv, NEW c \in Callers, Label(c)
    PROVE  IInv'
<1> DEFINE s == gcp[call[c].op]
<1>0. pc[c] = "label" /\ UNCHANGED <<cluster, failures, overlapped>>
  BY DEF Label
<1>1. /\ TypeInv' /\ Alone' /\ Served' /\ Halves' /\ Accounts'
      /\ (\A d \in Callers : InCall(d))' /\ (kind = "gke" => Writing)'
  BY <1>0, ReturnsKeep DEF Label
<1>2. call[c].op \in Labels
  BY <1>0 DEF IInv, InCall, Labelling
<1>3. HalfWritten(s) => overlapped
  BY <1>0, <1>2 DEF IInv, Halves, Writes, Alone
<1>4. kind = "gke" => NonEmpty(s) \/ (overlapped /\ call[c].op # "location")
  <2> SUFFICES ASSUME kind = "gke", call[c].op # "location", ~overlapped
               PROVE  NonEmpty(s)
    BY <1>0 DEF IInv, Writing
  <2>1. gcp["location"] # "empty" /\ \A d \in Callers : pc[d] # "writeInfo"
    BY <1>0 DEF IInv, Writing, NonEmpty, Alone
  <2> QED
    BY <1>2, <2>1 DEF IInv, Writing, NonEmpty, Labels
<1>5. CASE s = "length"
  <2>1. answer' = [is |-> "panic", why |-> "race"] /\ overlapped'
    BY <1>0, <1>3, <1>5 DEF Label, Return, Panic, HalfWritten
  <2> QED
    BY <1>1, <2>1 DEF IInv, Answered, PanicsExplained, TokensAgree, LabelsAnswered
<1>6. CASE s # "length"
  <2>1. answer' = [is |-> "label", of |-> call[c].op, empty |-> ~NonEmpty(s)]
    BY <1>6 DEF Label, Return
  <2> QED
    BY <1>0, <1>1, <1>4, <2>1 DEF IInv, Answered, PanicsExplained, TokensAgree, LabelsAnswered,
       cluster
<1> QED
  BY <1>5, <1>6

-----------------------------------------------------------------------------
(* Theorems.                                                               *)

\* Every step of every caller keeps the invariant.
LEMMA StepIInv == IInv /\ [Next]_vars => IInv'
<1> SUFFICES ASSUME IInv, [Next]_vars PROVE IInv'
  OBVIOUS
<1>1. CASE UNCHANGED vars
  BY <1>1 DEF vars, cluster, caller, IInv, TypeInv, Alone, Served, Halves, Writes, Accounts,
     InCall, Mine, Writing, Answered, PanicsExplained, TokensAgree, LabelsAnswered
<1>2. CASE Next
  <2>1. PICK c \in Callers : Starts(c) \/ Runs(c) \/ BuildFails(c)
    BY <1>2 DEF Next
  <2>2. CASE Starts(c)
    BY <2>2, StartsIInv
  <2>3. CASE CheckClient(c) \/ FillKSA(c) \/ ReadKSA(c) \/ GcpInfo(c)
    BY <2>3, ReadsIInv
  <2>4. CASE BuildClient(c) \/ BuildFails(c)
    BY <2>4, BuildsIInv
  <2> QED
    BY <2>1, <2>2, <2>3, <2>4, RunAsIInv, GetIInv, WriteKSAIInv, CreateTokenIInv,
       WriteInfoIInv, InfoWrittenIInv, LabelIInv DEF Runs
<1> QED
  BY <1>1, <1>2

\* The invariant is inductive.
THEOREM Invariance == Spec => []IInv
BY InitIInv, StepIInv, PTL DEF Spec

\* Every variable has its type, and no caller ever uses another's clone.
THEOREM TypeCorrect == Spec => []TypeOK
<1>1. IInv => TypeOK
  BY DEF IInv, TypeInv, InCall, TypeOK, Locals, Filling, Labelling
<1> QED
  BY <1>1, Invariance, PTL

\* However Client, GetToken, RunAs and the labels' methods interleave, a nil
\* clientset is used only after NewForConfig has failed, a half-written string
\* only after calls have overlapped, and names panic only if malformed.
THEOREM PanicsSafe == Spec => []PanicsExplained
<1>1. IInv => PanicsExplained
  BY DEF IInv
<1> QED
  BY <1>1, Invariance, PTL

\* A token that GetToken answers is for the account of the object it was asked
\* of, whichever way it was asked and whoever else fills in the account.
THEOREM TokensSafe == Spec => []TokensAgree
<1>1. IInv => TokensAgree
  BY DEF IInv
<1> QED
  BY <1>1, Invariance, PTL

\* Location never answers a GKE cluster's location as empty, and Label none of
\* its labels as long as calls do not overlap.
THEOREM LabelsSafe == Spec => []LabelsAnswered
<1>1. IInv => LabelsAnswered
  BY DEF IInv
<1> QED
  BY <1>1, Invariance, PTL

-----------------------------------------------------------------------------
(* Clientsets are kept.                                                    *)

\* Others are in no call while a caller is alone in its own.
LEMMA OthersIdle ==
    ASSUME IInv, NEW c \in Callers, pc[c] # "idle", ~overlapped
    PROVE  \A d \in Callers \ {c} : pc[d] = "idle"
BY DEF IInv, Alone

\* A call that begins next to one that builds has overlapped it.
LEMMA StartsBuildsFirst ==
    ASSUME IInv, BuildsFirst, NEW c \in Callers, Starts(c)
    PROVE  BuildsFirst' /\ client' = client
<1>1. PICK at \in {"client", "fillKSA", "readKSA", "gcpInfo"} : pc' = [pc EXCEPT ![c] = at]
  BY DEF Starts, CallGet, CallRunAs, CallClusterGetToken, CallSetGetToken, CallLabel, Begin
<1>2. /\ client' = client
      /\ overlapped' = (overlapped \/ \E d \in Callers : pc[d] # "idle")
  BY DEF Starts, CallGet, CallRunAs, CallClusterGetToken, CallSetGetToken, CallLabel, Begin, cluster
<1>3. ASSUME ~overlapped', NEW d \in Callers PROVE pc'[d] # "build"
  <2>1. pc[d] = "idle" /\ at # "build"
    BY <1>1, <1>2, <1>3
  <2> QED
    BY <1>1, <2>1 DEF IInv, TypeInv
<1> QED
  BY <1>2, <1>3 DEF BuildsFirst

\* A caller looks for a clientset before it builds one.
LEMMA CheckBuildsFirst ==
    ASSUME IInv, BuildsFirst, NEW c \in Callers, CheckClient(c)
    PROVE  BuildsFirst' /\ client' = client
<1>1. /\ client' = client /\ overlapped' = overlapped /\ call' = call
      /\ pc[c] = "client" /\ \A d \in Callers \ {c} : pc'[d] = pc[d]
      /\ pc'[c] = "build" => ~client[call[c].of]
  BY DEF CheckClient, NeedsClient, cluster, IInv, TypeInv
<1>2. ASSUME ~overlapped, NEW d \in Callers, pc'[d] = "build" PROVE ~client[call[d].of]
  BY <1>1, <1>2, OthersIdle
<1> QED
  BY <1>1, <1>2 DEF BuildsFirst

\* What is built is there; what fails is gone, and if nobody else was in a call
\* it was not there before.
LEMMA BuildBuildsFirst ==
    ASSUME IInv, BuildsFirst, NEW c \in Callers, BuildClient(c) \/ BuildFails(c)
    PROVE  /\ BuildsFirst'
           /\ client[Shared] /\ ~client'[Shared] => overlapped /\ failures' > failures
<1>1. /\ overlapped' = overlapped /\ call' = call
      /\ pc[c] = "build" /\ pc' = [pc EXCEPT ![c] = "return"]
      /\ \/ client' = [client EXCEPT ![call[c].of] = TRUE] /\ failures' = failures
         \/ client' = [client EXCEPT ![call[c].of] = FALSE] /\ failures' = failures + 1
  BY DEF BuildClient, BuildFails, BuiltClient
<1>2. ASSUME ~overlapped, NEW d \in Callers PROVE pc'[d] # "build"
  <2>1. CASE d = c
    BY <1>1, <2>1 DEF IInv, TypeInv
  <2>2. CASE d # c
    BY <1>1, <1>2, <2>2, OthersIdle DEF IInv, TypeInv
  <2> QED
    BY <2>1, <2>2
<1>3. ASSUME client[Shared], ~client'[Shared] PROVE overlapped /\ failures' > failures
  <2>1. /\ client' = [client EXCEPT ![call[c].of] = FALSE] /\ failures' = failures + 1
        /\ call[c].of = Shared
    BY <1>1, <1>3 DEF IInv, TypeInv, Objects
  <2>2. failures \in Nat
    BY ClusterAssumption DEF IInv, TypeInv
  <2>3. overlapped
    BY <1>1, <1>3, <2>1 DEF BuildsFirst
  <2> QED
    BY <2>1, <2>2, <2>3
<1> QED
  BY <1>1, <1>2, <1>3 DEF BuildsFirst

\* A clone takes the clientset over, and leaves it to the shared cluster.
LEMMA RunAsBuildsFirst ==
    ASSUME IInv, BuildsFirst, NEW c \in Callers, RunAs(c)
    PROVE  BuildsFirst' /\ client'[Shared] = client[Shared]
<1>1. /\ overlapped' = overlapped /\ pc[c] = "return" /\ pc' = [pc EXCEPT ![c] = "idle"]
      /\ client' = [client EXCEPT ![c] = client[Shared]]
  BY DEF RunAs, Return
<1>2. client'[Shared] = client[Shared]
  BY <1>1, ClusterAssumption DEF IInv, TypeInv, Objects
<1>3. ASSUME ~overlapped, NEW d \in Callers PROVE pc'[d] # "build"
  <2>1. CASE d = c
    BY <1>1, <2>1 DEF IInv, TypeInv
  <2>2. CASE d # c
    BY <1>1, <1>3, <2>2, OthersIdle DEF IInv, TypeInv
  <2> QED
    BY <2>1, <2>2
<1> QED
  BY <1>1, <1>2, <1>3 DEF BuildsFirst

\* No other step builds, or touches a clientset.
LEMMA OtherBuildsFirst ==
    ASSUME IInv, BuildsFirst, NEW c \in Callers,
           \/ Get(c) \/ FillKSA(c) \/ WriteKSA(c) \/ ReadKSA(c) \/ CreateToken(c)
           \/ GcpInfo(c) \/ WriteInfo(c) \/ InfoWritten(c) \/ Label(c)
    PROVE  BuildsFirst' /\ client' = client
<1>1. client' = client /\ overlapped' = overlapped
  BY DEF Get, FillKSA, WriteKSA, ReadKSA, CreateToken, GcpInfo, WriteInfo, InfoWritten, Label, cluster
<1>2. \A d \in Callers : pc'[d] = "build" => pc[d] = "build" /\ call'[d] = call[d]
  <2>1. CASE Get(c) \/ CreateToken(c) \/ Label(c)
    BY <2>1 DEF Get, CreateToken, Label, Return, IInv, TypeInv
  <2>2. CASE FillKSA(c) \/ ReadKSA(c) \/ WriteKSA(c)
    BY <2>2 DEF FillKSA, ReadKSA, WriteKSA, IInv, TypeInv
  <2>3. CASE GcpInfo(c) \/ WriteInfo(c) \/ InfoWritten(c)
    BY <2>3 DEF GcpInfo, WriteInfo, InfoWritten, Return, IInv, TypeInv
  <2> QED
    BY <2>1, <2>2, <2>3
<1> QED
  BY <1>1, <1>2 DEF BuildsFirst

\* Client, GetCM and RunAs keep the shared cluster's clientset, but for a
\* NewForConfig that fails after calls have overlapped.
THEOREM KeptSafe == Spec => ClientKept
<1>1. Init => BuildsFirst
  BY DEF Init, BuildsFirst
<1>2. IInv /\ BuildsFirst /\ [Next]_vars =>
        /\ BuildsFirst'
        /\ client[Shared] /\ ~client'[Shared] => overlapped /\ failures' > failures
  <2> SUFFICES ASSUME IInv, BuildsFirst, [Next]_vars
               PROVE  /\ BuildsFirst'
                      /\ client[Shared] /\ ~client'[Shared] => overlapped /\ failures' > failures
    OBVIOUS
  <2>1. CASE UNCHANGED vars
    BY <2>1 DEF vars, cluster, caller, BuildsFirst
  <2>2. CASE Next
    <3>1. PICK c \in Callers : Starts(c) \/ Runs(c) \/ BuildFails(c)
      BY <2>2 DEF Next
    <3> QED
      BY <3>1, StartsBuildsFirst, CheckBuildsFirst, BuildBuildsFirst, RunAsBuildsFirst,
         OtherBuildsFirst DEF Runs
  <2> QED
    BY <2>1, <2>2
<1> QED
  BY <1>1, <1>2, Invariance, PTL DEF Spec, ClientKept
=============================================================================
