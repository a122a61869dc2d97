----------------------------- MODULE Telemetry -----------------------------
(***************************************************************************)
(* gcp/telemetry.go: NewStackdriver opens the clients of Google's          *)
(* monitoring and logging services, the tool functions MetricUpdate,       *)
(* LogList, MetricList and MetricListRequest.Run use one Stackdriver each, *)
(* and LogTail feeds a callback from a goroutine of its own that outlives  *)
(* the call.  The only caller of LogTail besides LogList is TestSD in      *)
(* telemetry_test.go, which hands what it is given over to a channel.      *)
(*                                                                         *)
(* Several calls may run at once in one process.  The services are         *)
(* external: any request may fail, lists end when the service says so, and *)
(* a stream may break or be closed at any time.                            *)
(***************************************************************************)
EXTENDS Naturals, Sequences, FiniteSets

CONSTANTS
    Calls,       \* calls of the functions below, each made once
    Nil,         \* the nil slice a callback gets when its stream fails, or for a
                 \* response without entries
    LogLimit,    \* entries Logs fetches at most (20 in the code)
    MaxItems,    \* bound: metrics the service answers with
    MaxBatches   \* bound: responses the service sends on one stream

ASSUME TelemetryAssumption ==
    /\ IsFiniteSet(Calls)
    /\ LogLimit \in Nat \ {0} /\ MaxItems \in Nat /\ MaxBatches \in Nat
    /\ Nil \notin 1..MaxBatches

VARIABLES
    fn,          \* fn[c]: the function call c is of, see Functions
    at,          \* where its goroutine is
    open,        \* clients of its Stackdriver that are open
    items,       \* items its loop has seen, or has still to visit
    stream,      \* its log stream, as the service and the connection leave it
    sent,        \* responses the service has sent on it
    reader,      \* LogTail's goroutine
    failed,      \* its Recv has returned an error other than io.EOF
    seen,        \* what the callback was called with so far
    exited       \* the process has exited

vars == <<fn, at, open, items, stream, sent, reader, failed, seen, exited>>
tail == <<stream, sent, reader, failed, seen>>

(***************************************************************************)
(* "update" is MetricUpdate; "watch", "logs" and "entries" are LogList     *)
(* with Watch, without a Name and with one; "metrics" and "series" are     *)
(* MetricList without a Name and with one; "resources" is                  *)
(* MetricListRequest.Run; "user" is TestSD.                                *)
(***************************************************************************)
Functions == {"update", "watch", "logs", "entries", "metrics", "series",
              "resources", "user"}

\* Those that defer sd.Close()
Closing == Functions \ {"resources", "user"}

\* The clients in the order NewStackdriver makes them; the monitoring service
\* it makes first and the project it checks for leave nothing open
ClientOrder == <<"metric", "logging", "logadmin", "loggingv2">>

Clients == {ClientOrder[i] : i \in DOMAIN ClientOrder}

Ended == {"returned", "failed", "panicked"}

Init ==
    /\ fn \in [Calls -> Functions]
    /\ at = [c \in Calls |-> "new"]
    /\ open = [c \in Calls |-> {}]
    /\ items = [c \in Calls |-> 0]
    /\ stream = [c \in Calls |-> "none"] /\ sent = [c \in Calls |-> 0]
    /\ reader = [c \in Calls |-> "none"] /\ failed = [c \in Calls |-> FALSE]
    /\ seen = [c \in Calls |-> << >>]
    /\ exited = FALSE

-----------------------------------------------------------------------------
(* NewStackdriver and Close.                                               *)

\* Fault: Close closes everything
LeftByCloseNone(clients) == {}

\* What Close leaves open
LeftByClose(clients) == clients \ {"metric", "logging"}

\* The goroutine of c leaves its function: a deferred Close runs, on a panic too
Ends(c, how) ==
    /\ at' = [at EXCEPT ![c] = how]
    /\ open' = [open EXCEPT ![c] =
          IF fn[c] \in Closing THEN LeftByClose(@) ELSE @]

\* log.Fatal exits the process on the spot, without deferred calls
Fatal == exited' = TRUE /\ UNCHANGED <<at, open>>

\* The first n clients could be made.  With fewer than all of them the error
\* is returned before Close is deferred, and Run panics with it.
NewStackdriver(c) ==
    /\ at[c] = "new"
    /\ \E n \in 0..Len(ClientOrder) :
          /\ open' = [open EXCEPT ![c] = {ClientOrder[i] : i \in 1..n}]
          /\ at' = [at EXCEPT ![c] = IF n = Len(ClientOrder) THEN "working"
                                     ELSE IF fn[c] = "resources" THEN "panicked"
                                     ELSE "failed"]
    /\ UNCHANGED <<fn, items, tail, exited>>

\* A program that made its own Stackdriver closes it when it likes
UserCloses(c) ==
    /\ fn[c] = "user" /\ at[c] # "new" /\ open[c] # LeftByClose(open[c])
    /\ open' = [open EXCEPT ![c] = LeftByClose(@)]
    /\ UNCHANGED <<fn, at, items, tail, exited>>

-----------------------------------------------------------------------------
(* One request to the services, and what the tools do with the answer.     *)

\* CreateOrAddVal: one CreateTimeSeries request
MetricUpdate(c) ==
    /\ fn[c] = "update" /\ at[c] = "working"
    /\ Ends(c, "returned") \/ Ends(c, "failed")
    /\ UNCHANGED <<fn, items, tail, exited>>

\* Stackdriver.LogList: the iterator has another log, which is appended before
\* the next is asked for, without a limit; or it is done, or fails
ListLogs(c) ==
    /\ fn[c] = "logs"
    /\ \/ /\ at[c] = "working"
          /\ \/ at' = [at EXCEPT ![c] = "looping"] /\ UNCHANGED <<open, exited>>
             \/ Ends(c, "returned") /\ UNCHANGED exited
             \/ Fatal
       \/ /\ at[c] = "looping"
          /\ at' = [at EXCEPT ![c] = "working"] /\ UNCHANGED <<open, exited>>
    /\ UNCHANGED <<fn, items, tail>>

MoreEntries(n) == n < LogLimit

\* Fault: a full page is dropped before the limit is looked at
FetchedByPage(n) == (n + 1) % LogLimit

Fetched(n) == n + 1

\* Stackdriver.Logs: the newest entries, up to the limit; an error panics
ListEntries(c) ==
    /\ fn[c] = "entries" /\ at[c] = "working"
    /\ \/ /\ MoreEntries(items[c])
          /\ items' = [items EXCEPT ![c] = Fetched(@)]
          /\ UNCHANGED <<at, open>>
       \/ MoreEntries(items[c]) /\ Ends(c, "panicked") /\ UNCHANGED items
       \/ Ends(c, "returned") /\ UNCHANGED items
    /\ UNCHANGED <<fn, tail, exited>>

\* MetricList: ListMetrics answers, and unless Verbose is set one ListTimeSeries
\* follows for each metric; its error is of no consequence
ListMetrics(c) ==
    /\ fn[c] = "metrics"
    /\ \/ /\ at[c] = "working"
          /\ \/ /\ items' \in {[items EXCEPT ![c] = n] : n \in 0..MaxItems}
                /\ at' = [at EXCEPT ![c] = "looping"]
                /\ UNCHANGED open
             \/ Ends(c, "panicked") /\ UNCHANGED items
       \/ /\ at[c] = "looping" /\ items[c] > 0
          /\ items' = [items EXCEPT ![c] = @ - 1]
          /\ UNCHANGED <<at, open>>
       \/ /\ at[c] = "looping" /\ items[c] = 0
          /\ Ends(c, "returned") /\ UNCHANGED items
    /\ UNCHANGED <<fn, tail, exited>>

\* MetricList with a name: one ListTimeSeries request; its error panics, and so
\* do values that are no doubles
ListSeries(c) ==
    /\ fn[c] = "series" /\ at[c] = "working"
    /\ Ends(c, "returned") \/ Ends(c, "panicked")
    /\ UNCHANGED <<fn, items, tail, exited>>

\* Run: whatever ListResources answers is logged, then ListTimeSeries counts; a
\* series without points, or with values that are no doubles, panics
ListResources(c) ==
    /\ fn[c] = "resources"
    /\ \/ /\ at[c] = "working"
          /\ at' = [at EXCEPT ![c] = "looping"]
          /\ UNCHANGED <<open, exited>>
       \/ /\ at[c] = "looping"
          /\ Ends(c, "returned") \/ Ends(c, "panicked")
          /\ UNCHANGED exited
       \/ at[c] = "looping" /\ Fatal
    /\ UNCHANGED <<fn, items, tail>>

-----------------------------------------------------------------------------
(* LogTail.                                                                *)

\* TailLogEntries and the first Send; the goroutine starts, and LogList blocks
\* for good.  An error ends LogList; TestSD does not look at it.
LogTail(c) ==
    /\ fn[c] \in {"watch", "user"} /\ at[c] = "working"
    /\ \/ /\ stream' = [stream EXCEPT ![c] = "open"]
          /\ reader' = [reader EXCEPT ![c] = "receiving"]
          /\ at' = [at EXCEPT ![c] = "waiting"]
          /\ UNCHANGED open
       \/ /\ IF fn[c] = "watch" THEN Ends(c, "failed")
             ELSE at' = [at EXCEPT ![c] = "waiting"] /\ UNCHANGED open
          /\ UNCHANGED <<stream, reader>>
    /\ UNCHANGED <<fn, items, sent, failed, seen, exited>>

ServiceSends(c) ==
    /\ stream[c] = "open" /\ sent[c] < MaxBatches
    /\ sent' = [sent EXCEPT ![c] = @ + 1]
    /\ UNCHANGED <<fn, at, open, items, stream, reader, failed, seen, exited>>

\* The service closes the stream, or the stream fails
StreamEnds(c) ==
    /\ stream[c] = "open"
    /\ stream' \in {[stream EXCEPT ![c] = end] : end \in {"closed", "broken"}}
    /\ UNCHANGED <<fn, at, open, items, sent, reader, failed, seen, exited>>

\* Recv returns the next response and the callback is called with its entries,
\* nil if it only tells of entries the service left out.  Of a stream that
\* broke, responses that had arrived may still be read.
Recv(c) ==
    /\ reader[c] = "receiving" /\ Len(seen[c]) < sent[c]
    /\ \E entries \in {Len(seen[c]) + 1, Nil} :
          seen' = [seen EXCEPT ![c] = Append(@, entries)]
    /\ reader' = [reader EXCEPT ![c] = "calling"]
    /\ UNCHANGED <<fn, at, open, items, stream, sent, failed, exited>>

\* io.EOF comes after the last response: the loop ends, nobody is told
RecvEOF(c) ==
    /\ reader[c] = "receiving"
    /\ stream[c] = "closed" /\ Len(seen[c]) = sent[c]
    /\ reader' = [reader EXCEPT ![c] = "done"]
    /\ UNCHANGED <<fn, at, open, items, stream, sent, failed, seen, exited>>

\* Any other error: the callback is called with nil
RecvError(c) ==
    /\ reader[c] = "receiving" /\ stream[c] = "broken"
    /\ failed' = [failed EXCEPT ![c] = TRUE]
    /\ seen' = [seen EXCEPT ![c] = Append(@, Nil)]
    /\ reader' = [reader EXCEPT ![c] = "calling"]
    /\ UNCHANGED <<fn, at, open, items, stream, sent, exited>>

LastCall(c) == seen[c][Len(seen[c])]

\* Fault: the loop goes on after an error
AfterCallbackContinues(c) == "receiving"

\* Fault: the goroutine waits for more after the callback of an error
AfterCallbackStuck(c) == IF failed[c] THEN "stuck" ELSE "receiving"

\* After the cb(nil) of an error the goroutine returns, after any other call, one
\* with nil included, it receives the next response
AfterCallback(c) == IF failed[c] THEN "done" ELSE "receiving"

\* LogList's callback prints; TestSD's lets entries without its marker pass
CallbackReturns(c) ==
    /\ reader[c] = "calling"
    /\ fn[c] = "watch" \/ LastCall(c) # Nil
    /\ reader' = [reader EXCEPT ![c] = AfterCallback(c)]
    /\ UNCHANGED <<fn, at, open, items, stream, sent, failed, seen, exited>>

\* Otherwise TestSD's sends on a channel without a buffer
CallbackSends(c) ==
    /\ reader[c] = "calling" /\ fn[c] = "user"
    /\ reader' = [reader EXCEPT ![c] = "sending"]
    /\ UNCHANGED <<fn, at, open, items, stream, sent, failed, seen, exited>>

\* cf() cancels the context, and with it a stream the service has not closed;
\* of one it has, either end may be what Recv reports
Cancelled(s) == CASE s = "open" -> {"broken"}
                  [] s = "closed" -> {"closed", "broken"}
                  [] OTHER -> {s}

\* TestSD takes one value from the channel, or has waited ten seconds, and
\* cancels.  It then polls the log (see UserPolls).
UserTakes(c) ==
    /\ fn[c] = "user" /\ at[c] = "waiting" /\ reader[c] = "sending"
    /\ reader' = [reader EXCEPT ![c] = AfterCallback(c)]
    /\ at' = [at EXCEPT ![c] = "polling"]
    /\ \E end \in Cancelled(stream[c]) : stream' = [stream EXCEPT ![c] = end]
    /\ UNCHANGED <<fn, open, items, sent, failed, seen, exited>>

UserTimesOut(c) ==
    /\ fn[c] = "user" /\ at[c] = "waiting"
    /\ at' = [at EXCEPT ![c] = "polling"]
    /\ \E end \in Cancelled(stream[c]) : stream' = [stream EXCEPT ![c] = end]
    /\ UNCHANGED <<fn, open, items, sent, reader, failed, seen, exited>>

\* The marker, the end of the list, an error or the 1000th entry ends the poll,
\* which changes nothing else
UserPolls(c) ==
    /\ fn[c] = "user" /\ at[c] = "polling"
    /\ at' = [at EXCEPT ![c] = "returned"]
    /\ UNCHANGED <<fn, open, items, tail, exited>>

-----------------------------------------------------------------------------
\* The goroutine of the call
Caller(c) ==
    \/ NewStackdriver(c) \/ MetricUpdate(c) \/ ListLogs(c) \/ ListEntries(c)
    \/ ListMetrics(c) \/ ListSeries(c) \/ ListResources(c)
    \/ LogTail(c) \/ UserTakes(c) \/ UserTimesOut(c) \/ UserPolls(c)

\* The goroutine LogTail starts
Reader(c) == \/ Recv(c) \/ RecvEOF(c) \/ RecvError(c)
             \/ CallbackReturns(c) \/ CallbackSends(c)

Next == /\ ~exited
        /\ \E c \in Calls : \/ Caller(c) \/ Reader(c) \/ UserCloses(c)
                            \/ ServiceSends(c) \/ StreamEnds(c)

\* Every request is answered and every goroutine that can run does; what the
\* service sends, and when a stream ends, is its own business
Spec == /\ Init /\ [][Next]_vars
        /\ \A c \in Calls : WF_vars(~exited /\ Caller(c)) /\ WF_vars(~exited /\ Reader(c))

-----------------------------------------------------------------------------
(* Properties.                                                             *)

\* Every variable has its type.
TypeOK ==
    /\ fn \in [Calls -> Functions]
    /\ at \in [Calls -> Ended \cup {"new", "working", "looping", "waiting", "polling"}]
    /\ open \in [Calls -> SUBSET Clients]
    /\ items \in [Calls -> 0..(MaxItems + LogLimit)]
    /\ stream \in [Calls -> {"none", "open", "closed", "broken"}]
    /\ sent \in [Calls -> 0..MaxBatches]
    /\ reader \in [Calls -> {"none", "receiving", "calling", "sending", "done"}]
    /\ failed \in [Calls -> BOOLEAN]
    /\ seen \in [Calls -> Seq(1..MaxBatches \cup {Nil})]
    /\ exited \in BOOLEAN

\* Closing a Stackdriver never takes the connection away from a feed that is
\* still running on it: the goroutine of LogTail outlives the call, and Close
\* leaves the client it reads from open.
FeedKeepsItsClient ==
    \A c \in Calls : reader[c] \notin {"none", "done"} => "loggingv2" \in open[c]

\* No call of the callback of c will follow the one for an error, or io.EOF
Over(c) == failed[c] \/ reader[c] = "done"

overOfCalls == [c \in Calls |-> Over(c)]

\* LogTail keeps its promise to the callback.
Feed == INSTANCE LogFeed WITH Feeds <- Calls, given <- seen, over <- overOfCalls

ImplementsFeed == Feed!Spec

\* A feed whose stream fails is told and its goroutine ends, once its callback
\* returns and unless the process is gone.  (A callback whose receiver has left,
\* as TestSD's has after it cancels, keeps the goroutine for good.)
FeedTold ==
    \A c \in Calls :
       stream[c] = "broken" /\ reader[c] # "none" ~>
          \/ reader[c] = "done" /\ (failed[c] \/ Len(seen[c]) = sent[c])
          \/ exited
          \/ reader[c] = "sending" /\ at[c] \in {"polling", "returned"}

\* Every tool comes to an end but a watch, which blocks for good, and the list of
\* logs, which goes on for as long as the service does: Logs stops at its limit
\* however many entries there are.
ToolsEnd ==
    \A c \in Calls : fn[c] \notin {"watch", "logs"} => <>(at[c] \in Ended \/ exited)
=============================================================================
