-------------------------- MODULE TelemetryProofs --------------------------
(***************************************************************************)
(* Proofs about Telemetry, for any calls and bounds.                       *)
(*                                                                         *)
(* A tool holds all its clients from NewStackdriver until it ends, and it  *)
(* ends once.  LogTail's goroutine starts in such a tool, and no Close     *)
(* takes its client; it receives only as long as Recv has not failed,      *)
(* whatever the callback was called with, which is what LogFeed asks for.  *)
(***************************************************************************)
EXTENDS Telemetry, TLAPS

Running == {"working", "looping", "waiting", "polling"}

\* A call that is running has the client of its log stream
Holds(c) == at[c] \in Running => "loggingv2" \in open[c]

\* Where the call of a goroutine is, and how its last Recv went
Tails(c) ==
    /\ reader[c] # "none" =>
          \/ fn[c] = "watch" /\ at[c] = "waiting"
          \/ fn[c] = "user" /\ at[c] \in {"waiting", "polling", "returned"}
    /\ fn[c] = "user" => at[c] \notin {"looping", "panicked"}
    /\ fn[c] = "user" /\ at[c] = "returned" => "loggingv2" \in open[c]
    /\ reader[c] = "none" => seen[c] = << >>
    /\ reader[c] \in {"none", "receiving"} => ~failed[c]

IInv == TypeOK /\ \A c \in Calls : Holds(c) /\ Tails(c)

-----------------------------------------------------------------------------
(* Lemmas about the clients.                                               *)

\* The first n clients are all of them, or do not have the client of LogTail.
LEMMA ClientsMade ==
    ASSUME NEW n \in 0..Len(ClientOrder)
    PROVE  /\ {ClientOrder[i] : i \in 1..n} \subseteq Clients
           /\ n = Len(ClientOrder) => {ClientOrder[i] : i \in 1..n} = Clients
           /\ n # Len(ClientOrder) => "loggingv2" \notin {ClientOrder[i] : i \in 1..n}
<1>1. Len(ClientOrder) = 4 /\ DOMAIN ClientOrder = 1..4
  BY DEF ClientOrder
<1>2. /\ ClientOrder[1] = "metric" /\ ClientOrder[2] = "logging"
      /\ ClientOrder[3] = "logadmin" /\ ClientOrder[4] = "loggingv2"
  BY DEF ClientOrder
<1>3. \A i \in 1..n : i \in 1..4
  BY <1>1
<1>4. n # 4 => \A i \in 1..n : i \in {1, 2, 3}
  BY <1>1
<1> QED
  BY <1>1, <1>2, <1>3, <1>4 DEF Clients

\* Close takes the first two.
LEMMA ClientsLeft ==
    /\ LeftByClose(Clients) = {"logadmin", "loggingv2"}
    /\ \A clients : /\ LeftByClose(clients) \subseteq clients
                    /\ "loggingv2" \in clients <=> "loggingv2" \in LeftByClose(clients)
<1>1. Clients = {"metric", "logging", "logadmin", "loggingv2"}
  <2>1. Len(ClientOrder) = 4 /\ DOMAIN ClientOrder = {1, 2, 3, 4}
    BY DEF ClientOrder
  <2> QED
    BY <2>1 DEF Clients, ClientOrder
<1> QED
  BY <1>1 DEF LeftByClose

-----------------------------------------------------------------------------
(* A lemma for each kind of step.                                          *)

\* Initially no call has its Stackdriver.
LEMMA InitIInv == Init => IInv
<1> SUFFICES ASSUME Init PROVE IInv
  OBVIOUS
<1>1. << >> \in Seq(1..MaxBatches \cup {Nil}) /\ {} \in SUBSET Clients
  OBVIOUS
<1>2. 0 \in 0..(MaxItems + LogLimit) /\ 0 \in 0..MaxBatches
  BY TelemetryAssumption
<1>3. TypeOK
  BY <1>1, <1>2 DEF Init, TypeOK
<1>4. \A c \in Calls : Holds(c) /\ Tails(c)
  BY DEF Init, Holds, Tails, Running, Ended
<1> QED
  BY <1>3, <1>4 DEF IInv

\* NewStackdriver makes all the clients, or the call ends.
LEMMA NewIInv ==
    ASSUME IInv, NEW c \in Calls, NewStackdriver(c)
    PROVE  IInv'
<1>0. PICK n \in 0..Len(ClientOrder) :
         /\ at[c] = "new"
         /\ open' = [open EXCEPT ![c] = {ClientOrder[i] : i \in 1..n}]
         /\ at' = [at EXCEPT ![c] = IF n = Len(ClientOrder) THEN "working"
                                    ELSE IF fn[c] = "resources" THEN "panicked"
                                    ELSE "failed"]
         /\ UNCHANGED <<fn, items, stream, sent, reader, failed, seen, exited>>
  BY DEF NewStackdriver, tail
<1> DEFINE made == {ClientOrder[i] : i \in 1..n}
<1>1. /\ made \subseteq Clients
      /\ n = Len(ClientOrder) => made = Clients
      /\ n # Len(ClientOrder) => "loggingv2" \notin made
  BY ClientsMade
<1>2. "loggingv2" \in Clients
  BY ClientsLeft
<1> HIDE DEF made
<1>3. TypeOK'
  BY <1>0, <1>1 DEF IInv, TypeOK, Ended, made
<1>4. (\A d \in Calls : Holds(d))'
  BY <1>0, <1>1, <1>2 DEF IInv, TypeOK, Holds, Running, Ended, made
<1>5. (\A d \in Calls : Tails(d))'
  BY <1>0 DEF IInv, TypeOK, Tails
<1> QED
  BY <1>3, <1>4, <1>5 DEF IInv

\* A goroutine that ends keeps the types.
LEMMA EndsType ==
    ASSUME TypeOK, NEW c \in Calls, NEW how \in Ended, Ends(c, how)
    PROVE  /\ at' \in [Calls -> Ended \cup {"new", "working", "looping", "waiting", "polling"}]
           /\ open' \in [Calls -> SUBSET Clients]
<1>1. LeftByClose(open[c]) \in SUBSET Clients
  BY ClientsLeft DEF TypeOK
<1> QED
  BY <1>1 DEF Ends, TypeOK

\* One request of a tool other than LogTail: the tool goes on with all its
\* clients, or ends and closes them.
LEMMA RequestIInv ==
    ASSUME IInv, NEW c \in Calls,
           \/ MetricUpdate(c) \/ ListLogs(c) \/ ListEntries(c) \/ ListMetrics(c)
           \/ ListSeries(c) \/ ListResources(c)
    PROVE  IInv'
<1>0. /\ UNCHANGED <<fn, stream, sent, reader, failed, seen>>
      /\ fn[c] \notin {"watch", "user"} /\ at[c] \in Running
      /\ exited' \in BOOLEAN
      /\ \/ open' = open /\ \E a \in Running : at' = [at EXCEPT ![c] = a]
         \/ UNCHANGED <<open, at>>
         \/ \E how \in Ended : Ends(c, how)
  BY DEF MetricUpdate, ListLogs, ListEntries, ListMetrics, ListSeries, ListResources,
     Running, Ended, Fatal, tail, IInv, TypeOK
<1>1. items' \in [Calls -> 0..(MaxItems + LogLimit)]
  <2>1. MaxItems \in Nat /\ LogLimit \in Nat /\ items[c] \in 0..(MaxItems + LogLimit)
    BY TelemetryAssumption DEF IInv, TypeOK
  <2>2. \/ items' = items
        \/ \E n \in 0..(MaxItems + LogLimit) : items' = [items EXCEPT ![c] = n]
    BY <2>1 DEF MetricUpdate, ListLogs, ListEntries, ListMetrics, ListSeries, ListResources,
       MoreEntries, Fetched, IInv, TypeOK
  <2> QED
    BY <2>2 DEF IInv, TypeOK
<1>2. TypeOK'
  <2>1. /\ at' \in [Calls -> Ended \cup {"new", "working", "looping", "waiting", "polling"}]
        /\ open' \in [Calls -> SUBSET Clients]
    BY <1>0, EndsType DEF IInv, TypeOK, Running
  <2> QED
    BY <1>0, <1>1, <2>1 DEF IInv, TypeOK
<1>3. (\A d \in Calls : Holds(d))'
  BY <1>0, ClientsLeft DEF IInv, TypeOK, Ends, Holds, Running, Ended
<1>4. (\A d \in Calls : Tails(d))'
  BY <1>0 DEF IInv, TypeOK, Ends, Tails
<1> QED
  BY <1>2, <1>3, <1>4 DEF IInv

\* LogTail starts its goroutine, or fails.
LEMMA LogTailIInv ==
    ASSUME IInv, NEW c \in Calls, LogTail(c)
    PROVE  IInv'
<1>0. /\ UNCHANGED <<fn, items, sent, failed, seen, exited>>
      /\ fn[c] \in {"watch", "user"} /\ at[c] = "working"
      /\ \/ /\ reader' = [reader EXCEPT ![c] = "receiving"]
            /\ stream' = [stream EXCEPT ![c] = "open"]
            /\ at' = [at EXCEPT ![c] = "waiting"] /\ open' = open
         \/ UNCHANGED <<stream, reader>> /\ fn[c] = "watch" /\ Ends(c, "failed")
         \/ UNCHANGED <<stream, reader, open>> /\ fn[c] = "user" /\ at' = [at EXCEPT ![c] = "waiting"]
  BY DEF LogTail
<1>1. TypeOK'
  <2>1. /\ at' \in [Calls -> Ended \cup {"new", "working", "looping", "waiting", "polling"}]
        /\ open' \in [Calls -> SUBSET Clients]
    BY <1>0, EndsType DEF IInv, TypeOK, Ended
  <2>2. /\ stream' \in [Calls -> {"none", "open", "closed", "broken"}]
        /\ reader' \in [Calls -> {"none", "receiving", "calling", "sending", "done"}]
    BY <1>0 DEF IInv, TypeOK
  <2> QED
    BY <1>0, <2>1, <2>2 DEF IInv, TypeOK
<1>2. (\A d \in Calls : Holds(d))'
  <2>1. Holds(c)'
    BY <1>0, ClientsLeft DEF IInv, TypeOK, Ends, Holds, Running, Ended, Closing, Functions
  <2>2. \A d \in Calls \ {c} : Holds(d)'
    BY <1>0 DEF IInv, TypeOK, Ends, Holds
  <2> QED
    BY <2>1, <2>2
<1>3. (\A d \in Calls : Tails(d))'
  BY <1>0 DEF IInv, TypeOK, Ends, Tails
<1> QED
  BY <1>1, <1>2, <1>3 DEF IInv

\* The service sends, ends the stream or breaks it: nothing of the process moves.
LEMMA ServiceIInv ==
    ASSUME IInv, NEW c \in Calls, ServiceSends(c) \/ StreamEnds(c)
    PROVE  IInv'
<1>1. sent' \in [Calls -> 0..MaxBatches]
  <2>1. sent[c] \in 0..MaxBatches /\ (sent[c] < MaxBatches => sent[c] + 1 \in 0..MaxBatches)
    BY TelemetryAssumption DEF IInv, TypeOK
  <2> QED
    BY <2>1 DEF IInv, TypeOK, ServiceSends, StreamEnds
<1>2. stream' \in [Calls -> {"none", "open", "closed", "broken"}]
  BY DEF IInv, TypeOK, ServiceSends, StreamEnds
<1>3. UNCHANGED <<fn, at, open, items, reader, failed, seen, exited>>
  BY DEF ServiceSends, StreamEnds
<1> QED
  BY <1>1, <1>2, <1>3 DEF IInv, TypeOK, Holds, Tails

\* LogTail's goroutine receives, calls the callback, or stops: it receives again
\* only if Recv has not failed.
LEMMA ReaderIInv ==
    ASSUME IInv, NEW c \in Calls, Reader(c)
    PROVE  IInv'
<1>0. /\ UNCHANGED <<fn, at, open, items, stream, sent, exited>>
      /\ reader[c] \notin {"none", "done"}
      /\ \E r \in {"receiving", "calling", "sending", "done"} : reader' = [reader EXCEPT ![c] = r]
      /\ failed' = failed \/ failed' = [failed EXCEPT ![c] = TRUE]
      /\ \/ seen' = seen
         \/ \E b \in 1..MaxBatches \cup {Nil} : seen' = [seen EXCEPT ![c] = Append(@, b)]
      /\ reader'[c] = "receiving" => ~failed[c] /\ failed' = failed
  <2>0. /\ seen[c] \in Seq(1..MaxBatches \cup {Nil}) /\ sent[c] \in 0..MaxBatches
        /\ MaxBatches \in Nat /\ Len(seen[c]) \in Nat
        /\ Tails(c) /\ seen \in [Calls -> Seq(1..MaxBatches \cup {Nil})]
        /\ reader \in [Calls -> {"none", "receiving", "calling", "sending", "done"}]
    BY TelemetryAssumption DEF IInv, TypeOK
  <2>1. CASE Recv(c)
    <3>1. Len(seen[c]) + 1 \in 1..MaxBatches
      BY <2>0, <2>1 DEF Recv
    <3>2. \E b \in 1..MaxBatches \cup {Nil} : seen' = [seen EXCEPT ![c] = Append(@, b)]
      BY <2>1, <3>1 DEF Recv
    <3> QED
      BY <2>0, <2>1, <3>2 DEF Recv
  <2>2. CASE RecvEOF(c)
    BY <2>0, <2>2 DEF RecvEOF
  <2>3. CASE RecvError(c)
    BY <2>0, <2>3 DEF RecvError
  <2>4. CASE CallbackReturns(c)
    BY <2>0, <2>4 DEF CallbackReturns, AfterCallback
  <2>5. CASE CallbackSends(c)
    BY <2>0, <2>5 DEF CallbackSends
  <2> QED
    BY <2>1, <2>2, <2>3, <2>4, <2>5 DEF Reader
<1>1. \A s \in Seq(1..MaxBatches \cup {Nil}), b \in 1..MaxBatches \cup {Nil} :
         Append(s, b) \in Seq(1..MaxBatches \cup {Nil})
  OBVIOUS
<1>2. TypeOK'
  <2>1. seen' \in [Calls -> Seq(1..MaxBatches \cup {Nil})]
    <3>1. seen' = seen \/ \E s \in Seq(1..MaxBatches \cup {Nil}) : seen' = [seen EXCEPT ![c] = s]
      BY <1>0, <1>1 DEF IInv, TypeOK
    <3> QED
      BY <3>1 DEF IInv, TypeOK
  <2>2. reader' \in [Calls -> {"none", "receiving", "calling", "sending", "done"}]
    BY <1>0 DEF IInv, TypeOK
  <2>3. failed' \in [Calls -> BOOLEAN]
    <3>1. CASE failed' = failed
      BY <3>1 DEF IInv, TypeOK
    <3>2. CASE failed' = [failed EXCEPT ![c] = TRUE]
      BY <3>2, Zenon DEF IInv, TypeOK
    <3> QED
      BY <1>0, <3>1, <3>2
  <2> QED
    BY <1>0, <2>1, <2>2, <2>3 DEF IInv, TypeOK
<1>3. (\A d \in Calls : Holds(d))'
  BY <1>0 DEF IInv, Holds
<1>4. (\A d \in Calls : Tails(d))'
  <2>1. Tails(c)'
    BY <1>0 DEF IInv, TypeOK, Tails
  <2>2. \A d \in Calls \ {c} : /\ seen'[d] = seen[d] /\ reader'[d] = reader[d]
                               /\ failed'[d] = failed[d]
    BY <1>0 DEF IInv, TypeOK
  <2>3. \A d \in Calls \ {c} : Tails(d)'
    BY <1>0, <2>2 DEF IInv, Tails
  <2> QED
    BY <2>1, <2>3
<1> QED
  BY <1>2, <1>3, <1>4 DEF IInv

\* TestSD takes a value or gives up, cancels, polls and returns; it may close its
\* Stackdriver at any time.
LEMMA UserIInv ==
    ASSUME IInv, NEW c \in Calls,
           UserTakes(c) \/ UserTimesOut(c) \/ UserPolls(c) \/ UserCloses(c)
    PROVE  IInv'
<1>0. /\ fn[c] = "user" /\ at[c] # "new"
      /\ UNCHANGED <<fn, sent, failed, seen, exited>>
      /\ \/ open' = open
         \/ open' = [open EXCEPT ![c] = LeftByClose(@)]
      /\ \/ at' = at
         \/ at[c] = "waiting" /\ at' = [at EXCEPT ![c] = "polling"] /\ open' = open
         \/ at[c] = "polling" /\ at' = [at EXCEPT ![c] = "returned"] /\ open' = open
      /\ \/ reader' = reader
         \/ /\ reader[c] = "sending" /\ reader' = [reader EXCEPT ![c] = AfterCallback(c)]
            /\ open' = open
  BY DEF UserTakes, UserTimesOut, UserPolls, UserCloses, tail
<1>1. stream' \in [Calls -> {"none", "open", "closed", "broken"}]
  <2>1. \A s \in {"none", "open", "closed", "broken"} :
           Cancelled(s) \subseteq {"none", "open", "closed", "broken"}
    BY Zenon DEF Cancelled
  <2>2. stream' = stream \/ \E s \in {"none", "open", "closed", "broken"} :
                                stream' = [stream EXCEPT ![c] = s]
    BY <2>1 DEF UserTakes, UserTimesOut, UserPolls, UserCloses, tail, IInv, TypeOK
  <2> QED
    BY <2>2 DEF IInv, TypeOK
<1>2. items' \in [Calls -> 0..(MaxItems + LogLimit)]
  <2>1. items[c] \in Nat /\ (items[c] < MaxItems => items[c] + 1 \in 0..(MaxItems + LogLimit))
    BY TelemetryAssumption DEF IInv, TypeOK
  <2> QED
    BY <2>1 DEF UserTakes, UserTimesOut, UserPolls, UserCloses, IInv, TypeOK
<1>3. LeftByClose(open[c]) \in SUBSET Clients
  BY ClientsLeft DEF IInv, TypeOK
<1>4. TypeOK'
  BY <1>0, <1>1, <1>2, <1>3 DEF IInv, TypeOK, AfterCallback, Ended
<1>5. \A d \in Calls \ {c} : /\ open'[d] = open[d] /\ at'[d] = at[d]
                               /\ reader'[d] = reader[d]
  BY <1>0 DEF IInv, TypeOK
<1>6. "loggingv2" \in open[c] => "loggingv2" \in open'[c]
  BY <1>0, ClientsLeft DEF IInv, TypeOK
<1>7. at'[c] = at[c] \/ (at[c] \in {"waiting", "polling"} /\ at'[c] \in {"polling", "returned"})
  BY <1>0 DEF IInv, TypeOK
<1>8. reader'[c] = reader[c] \/ (reader[c] = "sending" /\ reader'[c] = AfterCallback(c))
  BY <1>0 DEF IInv, TypeOK
<1>9. (\A d \in Calls : Holds(d))'
  BY <1>0, <1>5, <1>6, <1>7 DEF IInv, Holds, Running, Closing
<1>10. (\A d \in Calls : Tails(d))'
  <2>1. Tails(c)'
    BY <1>0, <1>6, <1>7, <1>8 DEF IInv, Holds, Tails, AfterCallback, Running
  <2>2. \A d \in Calls \ {c} : Tails(d)'
    BY <1>0, <1>5 DEF IInv, Holds, Tails
  <2> QED
    BY <2>1, <2>2
<1> QED
  BY <1>4, <1>9, <1>10 DEF IInv

-----------------------------------------------------------------------------
(* Lemmas about what a step does to what the callback is given.            *)

\* One of: a response, the nil of an error, the end without a word, or nothing
FeedStep(c) ==
    \/ /\ ~Over(c) /\ overOfCalls' = overOfCalls
       /\ \E entries \in {Len(seen[c]) + 1, Nil} : seen' = [seen EXCEPT ![c] = Append(@, entries)]
    \/ /\ ~Over(c) /\ seen' = [seen EXCEPT ![c] = Append(@, Nil)]
       /\ overOfCalls' = [overOfCalls EXCEPT ![c] = TRUE]
    \/ /\ ~Over(c) /\ overOfCalls' = [overOfCalls EXCEPT ![c] = TRUE]
       /\ seen' = seen
    \/ UNCHANGED <<seen, overOfCalls>>

\* What becomes of overOfCalls when one call's changes to over, or stays.
LEMMA OverChanges ==
    ASSUME NEW c \in Calls, NEW over \in BOOLEAN, Over(c)' = over,
           \A d \in Calls \ {c} : Over(d)' = Over(d)
    PROVE  overOfCalls' = [overOfCalls EXCEPT ![c] = over]
BY DEF overOfCalls

\* LogTail's goroutine is over once Recv has failed or has ended.
LEMMA FeedSteps ==
    ASSUME IInv, NEW c \in Calls,
           Caller(c) \/ Reader(c) \/ UserCloses(c) \/ ServiceSends(c) \/ StreamEnds(c)
    PROVE  FeedStep(c)
<1>0. /\ Tails(c) /\ failed \in [Calls -> BOOLEAN]
      /\ reader \in [Calls -> {"none", "receiving", "calling", "sending", "done"}]
  BY DEF IInv, TypeOK
<1>1. ASSUME UNCHANGED <<seen, reader, failed>> PROVE FeedStep(c)
  BY <1>1 DEF FeedStep, overOfCalls, Over
<1>2. ASSUME UNCHANGED <<seen, failed>>, reader[c] \notin {"none", "receiving", "done"},
             reader' = [reader EXCEPT ![c] = AfterCallback(c)]
      PROVE  FeedStep(c)
  <2>1. \A d \in Calls : Over(d)' = Over(d)
    BY <1>0, <1>2 DEF Over, AfterCallback, Tails
  <2> QED
    BY <1>2, <2>1 DEF FeedStep, overOfCalls
<1>3. CASE Recv(c)
  <2>1. ~Over(c)
    BY <1>0, <1>3 DEF Recv, Over, Tails
  <2>2. \A d \in Calls : Over(d)' = Over(d)
    BY <1>0, <1>3 DEF Recv, Over
  <2> QED
    BY <1>3, <2>1, <2>2 DEF Recv, FeedStep, overOfCalls
<1>4. CASE RecvEOF(c)
  <2>1. ~Over(c) /\ Over(c)' /\ seen' = seen
    BY <1>0, <1>4 DEF RecvEOF, Over, Tails
  <2>2. \A d \in Calls \ {c} : Over(d)' = Over(d)
    BY <1>0, <1>4 DEF RecvEOF, Over
  <2>3. overOfCalls' = [overOfCalls EXCEPT ![c] = TRUE]
    BY <2>1, <2>2, OverChanges
  <2> QED
    BY <2>1, <2>3 DEF FeedStep
<1>5. CASE RecvError(c)
  <2>1. ~Over(c) /\ Over(c)'
    BY <1>0, <1>5 DEF RecvError, Over, Tails
  <2>2. \A d \in Calls \ {c} : Over(d)' = Over(d)
    BY <1>0, <1>5 DEF RecvError, Over
  <2>3. overOfCalls' = [overOfCalls EXCEPT ![c] = TRUE]
    BY <2>1, <2>2, OverChanges
  <2> QED
    BY <1>5, <2>1, <2>3 DEF RecvError, FeedStep
<1>6. CASE CallbackReturns(c) \/ UserTakes(c)
  BY <1>2, <1>6 DEF CallbackReturns, UserTakes
<1>7. CASE CallbackSends(c)
  <2>1. \A d \in Calls : Over(d)' = Over(d)
    BY <1>0, <1>7 DEF CallbackSends, Over
  <2> QED
    BY <1>7, <2>1 DEF CallbackSends, FeedStep, overOfCalls
<1>8. CASE LogTail(c)
  <2>1. \A d \in Calls : Over(d)' = Over(d)
    BY <1>0, <1>8 DEF LogTail, Over, Tails
  <2> QED
    BY <1>8, <2>1 DEF LogTail, FeedStep, overOfCalls
<1>9. CASE \/ NewStackdriver(c) \/ MetricUpdate(c) \/ ListLogs(c) \/ ListEntries(c)
           \/ ListMetrics(c) \/ ListSeries(c) \/ ListResources(c)
           \/ UserTimesOut(c) \/ UserPolls(c)
           \/ UserCloses(c) \/ ServiceSends(c) \/ StreamEnds(c)
  BY <1>1, <1>9 DEF NewStackdriver, MetricUpdate, ListLogs, ListEntries, ListMetrics, ListSeries,
     ListResources, UserTimesOut, UserPolls, UserCloses, ServiceSends, StreamEnds, tail
<1> QED
  BY <1>3, <1>4, <1>5, <1>6, <1>7, <1>8, <1>9 DEF Caller, Reader

\* Each of them is a step of LogFeed, or none.
LEMMA FeedStepImplements ==
    ASSUME NEW c \in Calls, FeedStep(c)
    PROVE  Feed!Next \/ UNCHANGED <<seen, overOfCalls>>
<1>1. overOfCalls[c] = Over(c)
  BY DEF overOfCalls
<1> QED
  BY <1>1 DEF FeedStep, Feed!Next, Feed!Give, Feed!Tell, Feed!EndSilently

-----------------------------------------------------------------------------
(* Theorems.                                                               *)

\* Every step keeps the invariant.
LEMMA StepIInv == IInv /\ [Next]_vars => IInv'
<1> SUFFICES ASSUME IInv, [Next]_vars PROVE IInv'
  OBVIOUS
<1>1. CASE UNCHANGED vars
  BY <1>1 DEF vars, IInv, TypeOK, Holds, Tails
<1>2. CASE Next
  <2>1. PICK c \in Calls : \/ Caller(c) \/ Reader(c) \/ UserCloses(c)
                           \/ ServiceSends(c) \/ StreamEnds(c)
    BY <1>2 DEF Next
  <2> QED
    BY <2>1, NewIInv, RequestIInv, LogTailIInv, ServiceIInv, ReaderIInv, UserIInv DEF Caller
<1> QED
  BY <1>1, <1>2

\* The invariant is inductive.
THEOREM Invariance == Spec => []IInv
BY InitIInv, StepIInv, PTL DEF Spec

\* Every variable has its type: loops with a limit stay within it, and a callback
\* is called with responses the service has sent, or nil.
THEOREM TypeCorrect == Spec => []TypeOK
<1>1. IInv => TypeOK
  BY DEF IInv
<1> QED
  BY <1>1, Invariance, PTL

\* The goroutine of LogTail has its client for as long as it runs.
THEOREM FeedsSafe == Spec => []FeedKeepsItsClient
<1>1. IInv => FeedKeepsItsClient
  BY DEF IInv, TypeOK, Holds, Tails, FeedKeepsItsClient, Running
<1> QED
  BY <1>1, Invariance, PTL

\* LogTail implements LogFeed: whatever the stream, the service and the callback
\* do, the callback is given the responses in order, with nil for one without
\* entries, and nothing after the nil of an error.
THEOREM FeedRefinement == Spec => ImplementsFeed
<1>1. Init => Feed!Init
  BY DEF Init, Feed!Init, overOfCalls, Over
<1>2. IInv /\ [Next]_vars => [Feed!Next]_<<seen, overOfCalls>>
  <2> SUFFICES ASSUME IInv, [Next]_vars
               PROVE  Feed!Next \/ UNCHANGED <<seen, overOfCalls>>
    OBVIOUS
  <2>1. CASE UNCHANGED vars
    BY <2>1 DEF vars, overOfCalls, Over
  <2>2. CASE Next
    <3>1. PICK c \in Calls : \/ Caller(c) \/ Reader(c) \/ UserCloses(c)
                             \/ ServiceSends(c) \/ StreamEnds(c)
      BY <2>2 DEF Next
    <3>2. FeedStep(c)
      BY <3>1, FeedSteps
    <3> QED
      BY <3>2, FeedStepImplements
  <2> QED
    BY <2>1, <2>2
<1> QED
  BY <1>1, <1>2, InitIInv, StepIInv, PTL DEF Spec, ImplementsFeed, Feed!Spec
=============================================================================
