--------------------------- MODULE TokenTransport ---------------------------
(***************************************************************************)
(* AuthRoundTripper (gcp/k8s_auth_provider.go): one cached token for all   *)
(* the requests of a client, fetched again when it is 30 minutes old.  A   *)
(* round tripper is used by many goroutines at once; token and exp have no *)
(* lock, so their accesses are data races.                                 *)
(*                                                                         *)
(* token is a Go string, two words in memory: the address of its bytes and *)
(* their number.  Words are read and written one at a time, and another    *)
(* goroutine may see the writes of RoundTrip in any order.  A word of exp  *)
(* that is new while the others are old reads like the old exp or like the *)
(* new one, so exp counts as one word here.                                *)
(*                                                                         *)
(* The token source is external.                                           *)
(***************************************************************************)
EXTENDS Naturals, FiniteSets

CONSTANTS
    Callers,     \* goroutines that send requests
    Tokens,      \* what the token source gives, all of different lengths
    Empty,       \* the empty string: no bytes, length zero
    NoBearer,    \* no request of that caller was sent yet
    MaxFailures  \* bound: calls of the token source that fail

ASSUME TransportAssumption ==
    /\ Empty \notin Tokens /\ NoBearer \notin [{"ptr", "len"} -> Tokens \cup {Empty}]
    /\ MaxFailures \in Nat

VARIABLES
    token,       \* AuthRoundTripper.token, by whose word each of its words is
    fresh,       \* exp is at most 30 minutes ago
    pc,          \* where each caller is in RoundTrip
    words,       \* the words it has still to write, or to read
    local,       \* the string it writes or has read so far
    bearer,      \* the token its last request was sent with
    failures,    \* failed calls of the source so far
    overlapped   \* two requests have ever been in RoundTrip at once

vars == <<token, fresh, pc, words, local, bearer, failures, overlapped>>

Words == {"ptr", "len"}
String(t) == [w \in Words |-> t]

Init ==
    /\ token = String(Empty) /\ fresh = FALSE
    /\ pc = [c \in Callers |-> "idle"]
    /\ words = [c \in Callers |-> {}]
    /\ local = [c \in Callers |-> String(Empty)]
    /\ bearer = [c \in Callers |-> NoBearer]
    /\ failures = 0 /\ overlapped = FALSE

-----------------------------------------------------------------------------
\* Fault: the token's presence is looked at, not its age
NeedsTokenOnce == token["ptr"] = Empty

\* time.Since(m.exp) > 30*time.Minute
NeedsToken == ~fresh

\* Fault: exp is set on the way in, so that nobody else asks the source too
ExpOnEntryStamped == TRUE

ExpOnEntry == fresh

\* RoundTrip is entered
Enter(c) ==
    /\ pc[c] = "idle"
    /\ IF NeedsToken
       THEN pc' = [pc EXCEPT ![c] = "fetch"] /\ UNCHANGED words
       ELSE pc' = [pc EXCEPT ![c] = "read"] /\ words' = [words EXCEPT ![c] = Words]
    /\ fresh' = ExpOnEntry
    /\ overlapped' = (overlapped \/ \E d \in Callers : pc[d] # "idle")
    /\ UNCHANGED <<token, local, bearer, failures>>

\* GetToken returns a token
Fetched(c) ==
    /\ pc[c] = "fetch"
    /\ \E t \in Tokens : local' = [local EXCEPT ![c] = String(t)]
    /\ pc' = [pc EXCEPT ![c] = "store"]
    /\ words' = [words EXCEPT ![c] = Words \cup {"exp"}]
    /\ UNCHANGED <<token, fresh, bearer, failures, overlapped>>

\* Fault: exp is set before the error is looked at
WrittenOnFailureStamped == Words \cup {"exp"}

\* m.token is assigned whether or not there is an error, exp is not
WrittenOnFailure == Words

\* GetToken fails: the source is down, or the request was cancelled
FetchFails(c) ==
    /\ pc[c] = "fetch" /\ failures < MaxFailures
    /\ failures' = failures + 1
    /\ local' = [local EXCEPT ![c] = String(Empty)]
    /\ pc' = [pc EXCEPT ![c] = "storeFailed"]
    /\ words' = [words EXCEPT ![c] = WrittenOnFailure]
    /\ UNCHANGED <<token, fresh, bearer, overlapped>>

\* One word of token, or exp, becomes visible
Store(c) ==
    /\ pc[c] \in {"store", "storeFailed"}
    /\ \E w \in words[c] :
          /\ words' = [words EXCEPT ![c] = @ \ {w}]
          /\ IF w = "exp" THEN fresh' = TRUE /\ UNCHANGED token
             ELSE token' = [token EXCEPT ![w] = local[c][w]] /\ UNCHANGED fresh
    /\ UNCHANGED <<pc, local, bearer, failures, overlapped>>

\* The request goes on with the token, or ends with the error
Stored(c) ==
    /\ pc[c] \in {"store", "storeFailed"} /\ words[c] = {}
    /\ IF pc[c] = "store"
       THEN pc' = [pc EXCEPT ![c] = "read"] /\ words' = [words EXCEPT ![c] = Words]
       ELSE pc' = [pc EXCEPT ![c] = "idle"] /\ UNCHANGED words
    /\ UNCHANGED <<token, fresh, local, bearer, failures, overlapped>>

Read(c) ==
    /\ pc[c] = "read"
    /\ \E w \in words[c] :
          /\ local' = [local EXCEPT ![c][w] = token[w]]
          /\ words' = [words EXCEPT ![c] = @ \ {w}]
    /\ UNCHANGED <<token, fresh, pc, bearer, failures, overlapped>>

\* A length without an address: the string cannot be copied
Unreadable(s) == s["ptr"] = Empty /\ s["len"] # Empty

\* The request is sent, or its goroutine panics
Send(c) ==
    /\ pc[c] = "read" /\ words[c] = {}
    /\ bearer' = [bearer EXCEPT ![c] = IF Unreadable(local[c]) THEN @ ELSE local[c]]
    /\ local' = [local EXCEPT ![c] = String(Empty)]
    /\ pc' = [pc EXCEPT ![c] = "idle"]
    /\ UNCHANGED <<token, fresh, words, failures, overlapped>>

\* 30 minutes pass
Age ==
    /\ fresh /\ fresh' = FALSE
    /\ UNCHANGED <<token, pc, words, local, bearer, failures, overlapped>>

RoundTrip(c) == \/ Enter(c) \/ Fetched(c) \/ Store(c) \/ Stored(c)
                \/ Read(c) \/ Send(c)

Next == Age \/ \E c \in Callers : RoundTrip(c) \/ FetchFails(c)

\* Time passes, each caller keeps sending requests, and the source answers in
\* the end
Spec == Init /\ [][Next]_vars /\ WF_vars(Age) /\ \A c \in Callers : WF_vars(RoundTrip(c))

-----------------------------------------------------------------------------
(* Properties.                                                             *)

\* Every variable has its type, and exp is only written after a GetToken that
\* succeeded.
TypeOK ==
    /\ token \in [Words -> Tokens \cup {Empty}]
    /\ fresh \in BOOLEAN
    /\ pc \in [Callers -> {"idle", "fetch", "store", "storeFailed", "read"}]
    /\ words \in [Callers -> SUBSET (Words \cup {"exp"})]
    /\ \A c \in Callers : "exp" \in words[c] => pc[c] = "store"
    /\ local \in [Callers -> [Words -> Tokens \cup {Empty}]]
    /\ bearer \in [Callers -> [Words -> Tokens \cup {Empty}] \cup {NoBearer}]
    /\ failures \in 0..MaxFailures
    /\ overlapped \in BOOLEAN

FromSource(s) == s \in {String(t) : t \in Tokens}

\* As long as no two requests overlap, each is sent with a token of the source,
\* failed refreshes in between included: they empty the token but leave it old.
BearerIfAlone ==
    ~overlapped => \A c \in Callers : bearer[c] = NoBearer \/ FromSource(bearer[c])

\* However requests overlap, as long as no GetToken has failed a fresh token that
\* nobody is storing has an address and a length, be they of two tokens: exp may
\* be seen before them, but only until the caller that sets it has stored them,
\* and no other that stores takes them away.
StoredTokenStays ==
    failures = 0 /\ fresh /\ (\A c \in Callers : pc[c] # "store") =>
        \A w \in Words : token[w] # Empty

\* A token that a failed refresh has emptied under a fresh exp does not last:
\* once the source works again, all requests carry some token again.
Recovers == <>[](\A c \in Callers : bearer[c] # NoBearer /\ bearer[c]["len"] # Empty)

\* "AuthRoundTripper add tokens from a token source", from a "Cached token"
\* (gcp/k8s_auth_provider.go:59-65): when no request is in RoundTrip, the token
\* that the next ones will be sent with, unasked, is one of the source.
CachedFromSource ==
    fresh /\ (\A c \in Callers : pc[c] = "idle") => FromSource(token)
=============================================================================
