------------------------ MODULE TokenTransportProofs ------------------------
(***************************************************************************)
(* Proofs about TokenTransport, for any callers, tokens and failures.      *)
(*                                                                         *)
(* Without overlaps one caller at most is in RoundTrip.  It fetches only a *)
(* token that is old, so what a failure leaves of it is old as well; and   *)
(* what it has stored, or has found fresh, stays until it has read it.     *)
(* With overlaps and a source that does not fail, a word that exp is ahead *)
(* of is still to be stored by some caller.                                *)
(***************************************************************************)
EXTENDS TokenTransport, TLAPS

\* Without overlaps, each caller in RoundTrip knows what token holds
Knows(c) ==
    /\ pc[c] \in {"fetch", "storeFailed"} => ~fresh
    /\ pc[c] = "store" =>
          FromSource(local[c]) /\ \A w \in Words \ words[c] : token[w] = local[c][w]
    /\ pc[c] = "read" =>
          FromSource(token) /\ \A w \in Words \ words[c] : local[c][w] = token[w]

OneAtATime == \A c, d \in Callers : pc[c] # "idle" /\ pc[d] # "idle" => c = d

\* A fresh token is one of the source, unless it is being replaced
FreshFromSource == fresh /\ (\A c \in Callers : pc[c] # "store") => FromSource(token)

IInv ==
    /\ TypeOK
    /\ ~overlapped => OneAtATime /\ FreshFromSource /\ \A c \in Callers : Knows(c)
    /\ BearerIfAlone

\* While no GetToken has failed, who stores stores a token, and each word that
\* is missing under a fresh exp has a caller that will store it
Storing(c, w) == pc[c] = "store" /\ w \in words[c]

WorkingSource ==
    /\ \A c \in Callers : pc[c] # "storeFailed"
    /\ \A c \in Callers, w \in Words :
          pc[c] = "store" => local[c][w] # Empty /\ (Storing(c, w) \/ token[w] # Empty)
    /\ \A w \in Words : fresh => token[w] # Empty \/ \E c \in Callers : Storing(c, w)

SInv == TypeOK /\ (failures = 0 => WorkingSource)

\* A string is the source's if it agrees with one of the source's in each word.
LEMMA SameWords ==
    ASSUME NEW s \in [Words -> Tokens \cup {Empty}], NEW r \in [Words -> Tokens \cup {Empty}],
           FromSource(s), \A w \in Words : r[w] = s[w]
    PROVE  FromSource(r)
<1>1. r = s
  OBVIOUS
<1> QED
  BY <1>1

-----------------------------------------------------------------------------
(* A lemma for each kind of step.                                          *)

\* Initially there is no token, and it is old.
LEMMA InitIInv == Init => IInv
<1> SUFFICES ASSUME Init PROVE IInv
  OBVIOUS
<1>1. TypeOK
  <2>1. String(Empty) \in [Words -> Tokens \cup {Empty}]
    BY DEF String
  <2>2. failures \in 0..MaxFailures
    BY TransportAssumption DEF Init
  <2> QED
    BY <2>1, <2>2 DEF Init, TypeOK
<1>2. OneAtATime /\ FreshFromSource /\ (\A c \in Callers : Knows(c)) /\ BearerIfAlone
  BY DEF Init, OneAtATime, FreshFromSource, Knows, BearerIfAlone
<1> QED
  BY <1>1, <1>2 DEF IInv

\* A request that meets no other finds a fresh token or goes to fetch one.
LEMMA EnterIInv ==
    ASSUME IInv, NEW c \in Callers, Enter(c)
    PROVE  IInv'
<1> USE DEF ExpOnEntry
<1>1. TypeOK'
  <2>1. pc' \in [Callers -> {"idle", "fetch", "store", "storeFailed", "read"}]
    BY DEF IInv, TypeOK, Enter
  <2>2. words' \in [Callers -> SUBSET (Words \cup {"exp"})]
    BY DEF IInv, TypeOK, Enter
  <2>3. \A d \in Callers : "exp" \in words'[d] => pc'[d] = "store"
    <3> SUFFICES ASSUME NEW d \in Callers, "exp" \in words'[d] PROVE pc'[d] = "store"
      OBVIOUS
    <3>1. d # c
      BY DEF IInv, TypeOK, Enter, Words
    <3> QED
      BY <3>1 DEF IInv, TypeOK, Enter
  <2>4. overlapped' \in BOOLEAN /\ UNCHANGED <<token, fresh, local, bearer, failures>>
    BY DEF IInv, TypeOK, Enter
  <2> QED
    BY <2>1, <2>2, <2>3, <2>4 DEF IInv, TypeOK
<1>2. ASSUME ~overlapped' PROVE (OneAtATime /\ FreshFromSource /\ \A d \in Callers : Knows(d))'
  <2>1. ~overlapped /\ \A d \in Callers : pc[d] = "idle"
    BY <1>2 DEF Enter, IInv, TypeOK
  <2>2. OneAtATime'
    BY <2>1 DEF Enter, IInv, TypeOK, OneAtATime
  <2>3. FreshFromSource'
    BY <2>1 DEF Enter, IInv, TypeOK, FreshFromSource, NeedsToken, FromSource
  <2>4. (\A d \in Callers : Knows(d))'
    BY <2>1 DEF Enter, IInv, TypeOK, FreshFromSource, Knows, NeedsToken, FromSource
  <2> QED
    BY <2>2, <2>3, <2>4
<1>3. BearerIfAlone'
  BY DEF IInv, TypeOK, BearerIfAlone, Enter, FromSource
<1> QED
  BY <1>1, <1>2, <1>3 DEF IInv

\* The source answers, or fails: the token was old and stays so for now.
LEMMA FetchIInv ==
    ASSUME IInv, NEW c \in Callers, Fetched(c) \/ FetchFails(c)
    PROVE  IInv'
<1>1. TypeOK'
  <2>1. \A t \in Tokens \cup {Empty} : String(t) \in [Words -> Tokens \cup {Empty}]
    BY DEF String
  <2>2. failures' \in 0..MaxFailures
    BY TransportAssumption DEF IInv, TypeOK, Fetched, FetchFails
  <2>3. local' \in [Callers -> [Words -> Tokens \cup {Empty}]]
    <3>1. \E r \in [Words -> Tokens \cup {Empty}] : local' = [local EXCEPT ![c] = r]
      BY <2>1 DEF Fetched, FetchFails
    <3> QED
      BY <3>1 DEF IInv, TypeOK
  <2>4. /\ words' \in [Callers -> SUBSET (Words \cup {"exp"})]
        /\ \A d \in Callers : "exp" \in words'[d] => pc'[d] = "store"
    BY DEF IInv, TypeOK, Fetched, FetchFails, WrittenOnFailure, Words
  <2> QED
    BY <2>2, <2>3, <2>4 DEF IInv, TypeOK, Fetched, FetchFails
<1>2. ASSUME ~overlapped' PROVE (OneAtATime /\ FreshFromSource /\ \A d \in Callers : Knows(d))'
  <2>1. ~overlapped /\ \A d \in Callers \ {c} : pc[d] = "idle"
    BY <1>2 DEF Fetched, FetchFails, IInv, TypeOK, OneAtATime
  <2>2. ~fresh /\ ~fresh'
    BY <2>1 DEF Fetched, FetchFails, IInv, Knows
  <2>3. OneAtATime'
    BY <2>1 DEF Fetched, FetchFails, IInv, TypeOK, OneAtATime
  <2>4. FreshFromSource'
    BY <2>2 DEF FreshFromSource
  <2>5. (\A d \in Callers : Knows(d))'
    BY <2>1, <2>2 DEF Fetched, FetchFails, IInv, TypeOK, Knows, FromSource
  <2> QED
    BY <2>3, <2>4, <2>5
<1>3. BearerIfAlone'
  BY DEF IInv, TypeOK, BearerIfAlone, Fetched, FetchFails, FromSource
<1> QED
  BY <1>1, <1>2, <1>3 DEF IInv

\* A word of the token, or exp, is written by the only caller there is.
LEMMA StoreIInv ==
    ASSUME IInv, NEW c \in Callers, Store(c)
    PROVE  IInv'
<1>0. PICK w \in words[c] :
         /\ words' = [words EXCEPT ![c] = @ \ {w}]
         /\ IF w = "exp" THEN fresh' = TRUE /\ UNCHANGED token
            ELSE token' = [token EXCEPT ![w] = local[c][w]] /\ UNCHANGED fresh
         /\ pc[c] \in {"store", "storeFailed"}
         /\ UNCHANGED <<pc, local, bearer, failures, overlapped>>
  BY DEF Store
<1>1. TypeOK'
  <2>1. w = "exp" \/ w \in Words
    BY DEF IInv, TypeOK
  <2>2. token' \in [Words -> Tokens \cup {Empty}] /\ fresh' \in BOOLEAN
    <3>1. local[c] \in [Words -> Tokens \cup {Empty}] /\ fresh \in BOOLEAN
      BY DEF IInv, TypeOK
    <3>2. CASE w = "exp"
      BY <1>0, <3>1, <3>2 DEF IInv, TypeOK
    <3>3. CASE w # "exp"
      BY <1>0, <2>1, <3>1, <3>3 DEF IInv, TypeOK
    <3> QED
      BY <3>2, <3>3
  <2>3. /\ words' \in [Callers -> SUBSET (Words \cup {"exp"})]
        /\ \A d \in Callers : "exp" \in words'[d] => pc'[d] = "store"
    BY <1>0 DEF IInv, TypeOK
  <2> QED
    BY <1>0, <2>2, <2>3 DEF IInv, TypeOK
<1>2. ASSUME ~overlapped' PROVE (OneAtATime /\ FreshFromSource /\ \A d \in Callers : Knows(d))'
  <2>1. ~overlapped /\ \A d \in Callers \ {c} : pc[d] = "idle"
    BY <1>2 DEF Store, IInv, TypeOK, OneAtATime
  <2>2. OneAtATime'
    BY <2>1 DEF Store, IInv, TypeOK, OneAtATime
  <2>3. pc[c] = "storeFailed" => ~fresh'
    BY <2>1 DEF Store, IInv, TypeOK, Knows
  <2>4. FreshFromSource'
    BY <2>3 DEF Store, FreshFromSource
  <2>5. (\A d \in Callers : Knows(d))'
    <3>1. Knows(c)'
      <4>1. w = "exp" => w \notin Words
        BY DEF Words
      <4>2. pc[c] = "store" =>
              FromSource(local[c]) /\ \A v \in Words \ words[c] : token[v] = local[c][v]
        BY <2>1 DEF IInv, Knows
      <4>3. pc[c] = "store" => \A v \in Words \ words'[c] : token'[v] = local[c][v]
        BY <1>0, <4>1, <4>2 DEF IInv, TypeOK
      <4> QED
        BY <1>0, <2>3, <4>2, <4>3 DEF Knows, FromSource
    <3>2. \A d \in Callers \ {c} : Knows(d)'
      BY <1>0, <2>1 DEF Knows
    <3> QED
      BY <3>1, <3>2
  <2> QED
    BY <2>2, <2>4, <2>5
<1>3. BearerIfAlone'
  BY DEF IInv, TypeOK, BearerIfAlone, Store, FromSource
<1> QED
  BY <1>1, <1>2, <1>3 DEF IInv

\* A caller that has stored a token of the source will read that one.
LEMMA StoredIInv ==
    ASSUME IInv, NEW c \in Callers, Stored(c)
    PROVE  IInv'
<1>1. TypeOK'
  <2>1. /\ words' \in [Callers -> SUBSET (Words \cup {"exp"})]
        /\ pc' \in [Callers -> {"idle", "fetch", "store", "storeFailed", "read"}]
    BY DEF IInv, TypeOK, Stored
  <2>2. \A d \in Callers : "exp" \in words'[d] => pc'[d] = "store"
    <3>1. "exp" \notin words'[c]
      BY DEF IInv, TypeOK, Stored, Words
    <3>2. \A d \in Callers \ {c} : words'[d] = words[d] /\ pc'[d] = pc[d]
      BY DEF IInv, TypeOK, Stored
    <3> QED
      BY <3>1, <3>2 DEF IInv, TypeOK
  <2> QED
    BY <2>1, <2>2 DEF IInv, TypeOK, Stored
<1>2. ASSUME ~overlapped' PROVE (OneAtATime /\ FreshFromSource /\ \A d \in Callers : Knows(d))'
  <2>1. ~overlapped /\ \A d \in Callers \ {c} : pc[d] = "idle"
    BY <1>2 DEF Stored, IInv, TypeOK, OneAtATime
  <2>2. OneAtATime'
    BY <2>1 DEF Stored, IInv, TypeOK, OneAtATime
  <2>3. pc[c] = "storeFailed" => ~fresh'
    BY <2>1 DEF Stored, IInv, TypeOK, Knows
  <2>4. pc[c] = "store" => FromSource(token)
    BY <2>1, SameWords DEF Stored, IInv, TypeOK, Knows
  <2>5. FreshFromSource'
    BY <2>3, <2>4 DEF Stored, FreshFromSource, FromSource
  <2>6. (\A d \in Callers : Knows(d))'
    BY <2>1, <2>3, <2>4 DEF Stored, IInv, TypeOK, Knows, FromSource
  <2> QED
    BY <2>2, <2>5, <2>6
<1>3. BearerIfAlone'
  BY DEF IInv, TypeOK, BearerIfAlone, Stored, FromSource
<1> QED
  BY <1>1, <1>2, <1>3 DEF IInv

\* A caller alone reads the same token in each word.
LEMMA ReadIInv ==
    ASSUME IInv, NEW c \in Callers, Read(c)
    PROVE  IInv'
<1>1. TypeOK'
  BY DEF IInv, TypeOK, Read, Words
<1>2. ASSUME ~overlapped' PROVE (OneAtATime /\ FreshFromSource /\ \A d \in Callers : Knows(d))'
  <2>1. ~overlapped /\ \A d \in Callers \ {c} : pc[d] = "idle"
    BY <1>2 DEF Read, IInv, TypeOK, OneAtATime
  <2>2. OneAtATime'
    BY <2>1 DEF Read, IInv, TypeOK, OneAtATime
  <2>3. FreshFromSource'
    BY <2>1 DEF Read, IInv, TypeOK, FreshFromSource, FromSource
  <2>4. (\A d \in Callers : Knows(d))'
    BY <2>1 DEF Read, IInv, TypeOK, Knows, FromSource
  <2> QED
    BY <2>2, <2>3, <2>4
<1>3. BearerIfAlone'
  BY DEF IInv, TypeOK, BearerIfAlone, Read, FromSource
<1> QED
  BY <1>1, <1>2, <1>3 DEF IInv

\* A caller alone sends what it has read, which is what token still holds.
LEMMA SendIInv ==
    ASSUME IInv, NEW c \in Callers, Send(c)
    PROVE  IInv'
<1>1. TypeOK'
  BY DEF IInv, TypeOK, Send, String
<1>2. ASSUME ~overlapped' PROVE (OneAtATime /\ FreshFromSource /\ \A d \in Callers : Knows(d))'
  <2>1. ~overlapped /\ \A d \in Callers \ {c} : pc[d] = "idle"
    BY <1>2 DEF Send, IInv, TypeOK, OneAtATime
  <2>2. OneAtATime'
    BY <2>1 DEF Send, IInv, TypeOK, OneAtATime
  <2>3. FreshFromSource'
    BY <2>1 DEF Send, IInv, TypeOK, Knows, FreshFromSource, FromSource
  <2>4. (\A d \in Callers : Knows(d))'
    BY <2>1 DEF Send, IInv, TypeOK, Knows, FromSource
  <2> QED
    BY <2>2, <2>3, <2>4
<1>3. ASSUME ~overlapped' PROVE \A d \in Callers : bearer'[d] = NoBearer \/ FromSource(bearer'[d])
  <2>1. ~overlapped
    BY <1>3 DEF Send
  <2>2. FromSource(local[c])
    BY <2>1, SameWords DEF Send, IInv, TypeOK, Knows
  <2> QED
    BY <2>1, <2>2 DEF Send, IInv, TypeOK, BearerIfAlone
<1> QED
  BY <1>1, <1>2, <1>3 DEF IInv, BearerIfAlone, FromSource

\* A token grows old: nobody relies on its being fresh.
LEMMA AgeIInv == IInv /\ Age => IInv'
<1> SUFFICES ASSUME IInv, Age PROVE IInv'
  OBVIOUS
<1>1. TypeOK'
  BY DEF Age, IInv, TypeOK
<1>2. (~overlapped => OneAtATime /\ FreshFromSource /\ \A c \in Callers : Knows(c))'
  BY DEF Age, IInv, OneAtATime, FreshFromSource, Knows, FromSource
<1>3. BearerIfAlone'
  BY DEF Age, IInv, BearerIfAlone, FromSource
<1> QED
  BY <1>1, <1>2, <1>3 DEF IInv

\* Every step of every caller keeps the invariant.
LEMMA StepIInv == IInv /\ [Next]_vars => IInv'
<1> SUFFICES ASSUME IInv, [Next]_vars PROVE IInv'
  OBVIOUS
<1>1. CASE UNCHANGED vars
  BY <1>1 DEF vars, IInv, TypeOK, OneAtATime, FreshFromSource, Knows, BearerIfAlone, FromSource
<1>2. CASE Next
  BY <1>2, EnterIInv, FetchIInv, StoreIInv, StoredIInv, ReadIInv, SendIInv, AgeIInv
  DEF Next, RoundTrip
<1> QED
  BY <1>1, <1>2

-----------------------------------------------------------------------------
(* The steps of a source that has not failed.                              *)

\* A caller that stores no word, and is not storing afterwards either or was
\* before, leaves what is promised of the others.
LEMMA ElsewhereWorking ==
    ASSUME SInv, TypeOK', NEW c \in Callers, failures' = 0, failures = 0,
           token' = token, fresh' => fresh,
           \A d \in Callers \ {c} : pc'[d] = pc[d] /\ words'[d] = words[d] /\ local'[d] = local[d],
           pc'[c] \notin {"store", "storeFailed"},
           pc[c] = "store" => words[c] = {}
    PROVE  WorkingSource'
<1>1. WorkingSource
  BY DEF SInv
<1>2. \A d \in Callers, w \in Words : Storing(d, w) => d # c /\ Storing(d, w)'
  BY DEF Storing
<1>3. (\A d \in Callers : pc[d] # "storeFailed")'
  BY <1>1 DEF WorkingSource
<1>4. ASSUME NEW d \in Callers, NEW w \in Words, pc'[d] = "store"
      PROVE  local'[d][w] # Empty /\ (Storing(d, w)' \/ token'[w] # Empty)
  <2>1. d # c /\ pc[d] = "store" /\ local'[d] = local[d]
    BY <1>4
  <2> QED
    BY <1>1, <1>2, <1>4, <2>1 DEF WorkingSource
<1>5. ASSUME NEW w \in Words, fresh'
      PROVE  token'[w] # Empty \/ \E d \in Callers : Storing(d, w)'
  BY <1>1, <1>2, <1>5 DEF WorkingSource
<1> QED
  BY <1>3, <1>4, <1>5 DEF WorkingSource, Storing

\* A token of the source has both words, and both are still to be stored.
LEMMA FetchedWorking ==
    ASSUME SInv, NEW c \in Callers, Fetched(c), failures = 0
    PROVE  WorkingSource'
<1>1. WorkingSource /\ TypeOK
  BY DEF SInv
<1>2. PICK t \in Tokens : local' = [local EXCEPT ![c] = String(t)]
  BY DEF Fetched
<1>3. /\ \A d \in Callers \ {c} : pc'[d] = pc[d] /\ words'[d] = words[d] /\ local'[d] = local[d]
      /\ pc'[c] = "store" /\ pc[c] = "fetch" /\ words'[c] = Words \cup {"exp"}
      /\ \A w \in Words : local'[c][w] = t
      /\ token' = token /\ fresh' = fresh
  BY <1>1, <1>2 DEF TypeOK, Fetched, String
<1>4. \A d \in Callers, w \in Words : Storing(d, w) => Storing(d, w)'
  BY <1>3 DEF Storing
<1>5. (\A d \in Callers : pc[d] # "storeFailed")'
  BY <1>1, <1>3 DEF WorkingSource
<1>6. ASSUME NEW d \in Callers, NEW w \in Words, pc'[d] = "store"
      PROVE  local'[d][w] # Empty /\ (Storing(d, w)' \/ token'[w] # Empty)
  <2>1. CASE d = c
    BY <1>3, <2>1, TransportAssumption DEF Storing
  <2>2. CASE d # c
    BY <1>1, <1>3, <1>4, <1>6, <2>2 DEF WorkingSource
  <2> QED
    BY <2>1, <2>2
<1>7. ASSUME NEW w \in Words, fresh'
      PROVE  token'[w] # Empty \/ \E d \in Callers : Storing(d, w)'
  BY <1>1, <1>3, <1>4, <1>7 DEF WorkingSource
<1> QED
  BY <1>5, <1>6, <1>7 DEF WorkingSource, Storing

\* A word that is stored is there; exp is only stored by a caller whose other
\* words are there or still to come.
LEMMA StoreWorking ==
    ASSUME SInv, NEW c \in Callers, Store(c), failures = 0
    PROVE  WorkingSource'
<1>1. WorkingSource /\ TypeOK /\ pc[c] = "store"
  BY DEF SInv, Store, WorkingSource
<1>2. PICK v \in words[c] :
         /\ words' = [words EXCEPT ![c] = @ \ {v}]
         /\ IF v = "exp" THEN fresh' = TRUE /\ UNCHANGED token
            ELSE token' = [token EXCEPT ![v] = local[c][v]] /\ UNCHANGED fresh
         /\ UNCHANGED <<pc, local>>
  BY DEF Store
<1>3. /\ \A d \in Callers, w \in Words :
             Storing(d, w) => Storing(d, w)' \/ (d = c /\ w = v)
      /\ \A w \in Words : token[w] # Empty => token'[w] # Empty
      /\ v \in Words => token'[v] # Empty
  <2>1. \A d \in Callers, w \in Words : Storing(d, w) => Storing(d, w)' \/ (d = c /\ w = v)
    BY <1>1, <1>2 DEF TypeOK, Storing
  <2>2. CASE v = "exp"
    BY <1>2, <2>1, <2>2 DEF Words
  <2>3. CASE v # "exp"
    <3>1. v \in Words /\ local[c][v] # Empty
      BY <1>1, <2>3 DEF TypeOK, WorkingSource
    <3>2. token' = [token EXCEPT ![v] = local[c][v]] /\ token \in [Words -> Tokens \cup {Empty}]
      BY <1>1, <1>2, <2>3 DEF TypeOK
    <3> QED
      BY <2>1, <3>1, <3>2
  <2> QED
    BY <2>2, <2>3
<1>4. (\A d \in Callers : pc[d] # "storeFailed")'
  BY <1>1, <1>2 DEF WorkingSource
<1>5. ASSUME NEW d \in Callers, NEW w \in Words, pc'[d] = "store"
      PROVE  local'[d][w] # Empty /\ (Storing(d, w)' \/ token'[w] # Empty)
  <2>1. local[d][w] # Empty /\ (Storing(d, w) \/ token[w] # Empty)
    BY <1>1, <1>2, <1>5 DEF WorkingSource
  <2> QED
    BY <1>2, <1>3, <2>1
<1>6. ASSUME NEW w \in Words, fresh'
      PROVE  token'[w] # Empty \/ \E d \in Callers : Storing(d, w)'
  <2>1. token[w] # Empty \/ \E d \in Callers : Storing(d, w)
    <3>1. CASE v = "exp"
      BY <1>1 DEF WorkingSource
    <3>2. CASE v # "exp"
      BY <1>1, <1>2, <1>6, <3>2 DEF WorkingSource
    <3> QED
      BY <3>1, <3>2
  <2> QED
    BY <1>3, <2>1
<1> QED
  BY <1>4, <1>5, <1>6 DEF WorkingSource, Storing

\* Every step keeps it: a source that has failed once promises nothing.
LEMMA StepSInv == SInv /\ IInv /\ [Next]_vars => SInv'
<1> SUFFICES ASSUME SInv, IInv, [Next]_vars PROVE SInv'
  OBVIOUS
<1>1. TypeOK'
  BY StepIInv DEF IInv
<1>2. SUFFICES ASSUME failures' = 0 PROVE WorkingSource'
  BY <1>1 DEF SInv
<1>3. CASE UNCHANGED vars
  BY <1>2, <1>3 DEF SInv, WorkingSource, Storing, vars
<1>4. CASE Age
  BY <1>2, <1>4 DEF SInv, WorkingSource, Storing, Age
<1>5. ASSUME NEW c \in Callers, Enter(c) \/ Read(c) \/ Send(c) \/ Stored(c)
      PROVE  WorkingSource'
  <2>1. failures = 0 /\ TypeOK /\ WorkingSource
    BY <1>2, <1>5 DEF SInv, Enter, Read, Send, Stored
  <2>2. /\ token' = token /\ fresh' = fresh
        /\ \A d \in Callers \ {c} :
              pc'[d] = pc[d] /\ words'[d] = words[d] /\ local'[d] = local[d]
    BY <1>5, <2>1 DEF TypeOK, Enter, ExpOnEntry, Read, Send, Stored
  <2>3. /\ pc'[c] \notin {"store", "storeFailed"}
        /\ pc[c] = "store" => words[c] = {}
    BY <1>5, <2>1 DEF TypeOK, WorkingSource, Enter, Read, Send, Stored
  <2> QED
    BY <1>1, <1>2, <2>1, <2>2, <2>3, ElsewhereWorking
<1>6. ASSUME NEW c \in Callers, Fetched(c) \/ Store(c)
      PROVE  WorkingSource'
  <2>1. failures = 0
    BY <1>2, <1>6 DEF Fetched, Store
  <2> QED
    BY <1>6, <2>1, FetchedWorking, StoreWorking
<1>7. ASSUME NEW c \in Callers, FetchFails(c)
      PROVE  WorkingSource'
  <2>1. failures \in Nat /\ failures' = failures + 1
    BY <1>7, TransportAssumption DEF SInv, TypeOK, FetchFails
  <2> QED
    BY <1>2, <2>1
<1> QED
  BY <1>3, <1>4, <1>5, <1>6, <1>7 DEF Next, RoundTrip

-----------------------------------------------------------------------------
(* Theorems.                                                               *)

\* Every variable has its type, and exp is written only by a caller whose
\* GetToken has succeeded.
THEOREM TypeCorrect == Spec => []TypeOK
<1>1. IInv => TypeOK
  BY DEF IInv
<1> QED
  BY <1>1, InitIInv, StepIInv, PTL DEF Spec

\* Requests that do not overlap are all sent with a token of the source, even
\* after refreshes that failed and left the token empty.
THEOREM BearersSafe == Spec => []BearerIfAlone
<1>1. IInv => BearerIfAlone
  BY DEF IInv
<1> QED
  BY <1>1, InitIInv, StepIInv, PTL DEF Spec

\* While GetToken does not fail, requests that overlap leave in a fresh token
\* nothing unset that nobody is storing.
THEOREM StoredSafe == Spec => []StoredTokenStays
<1>1. Init => SInv
  BY InitIInv DEF IInv, SInv, Init, WorkingSource
<1>2. SInv => StoredTokenStays
  BY DEF SInv, WorkingSource, Storing, StoredTokenStays
<1> QED
  BY <1>1, <1>2, InitIInv, StepIInv, StepSInv, PTL DEF Spec
=============================================================================
