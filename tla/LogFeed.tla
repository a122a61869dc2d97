------------------------------ MODULE LogFeed ------------------------------
(***************************************************************************)
(* What LogTail promises to its callback, whatever the stream, the service *)
(* and the caller do underneath: the responses one by one in the order the *)
(* service sent them, none skipped and none twice, and if the stream fails *)
(* one call with nil, after which nothing comes any more.  A nil alone     *)
(* does not tell that the feed is over: a response without entries is a    *)
(* nil too, and others may follow.  A feed may also end without a word     *)
(* (the service closed the stream).                                        *)
(***************************************************************************)
EXTENDS Naturals, Sequences

CONSTANTS
    Feeds,       \* the calls of LogTail
    Nil          \* no entries: cb(nil)

VARIABLES
    given,       \* given[f]: what the callback of f was called with, in order
    over         \* over[f]: no call of it will follow

Init == /\ given = [f \in Feeds |-> << >>]
        /\ over = [f \in Feeds |-> FALSE]

\* The entries of the next response, if it has any
Give(f) == /\ ~over[f]
           /\ \E entries \in {Len(given[f]) + 1, Nil} :
                 given' = [given EXCEPT ![f] = Append(@, entries)]
           /\ UNCHANGED over

Tell(f) == /\ ~over[f]
           /\ given' = [given EXCEPT ![f] = Append(@, Nil)]
           /\ over' = [over EXCEPT ![f] = TRUE]

EndSilently(f) == /\ ~over[f]
                  /\ over' = [over EXCEPT ![f] = TRUE]
                  /\ UNCHANGED given

Next == \E f \in Feeds : Give(f) \/ Tell(f) \/ EndSilently(f)

Spec == Init /\ [][Next]_<<given, over>>
=============================================================================
