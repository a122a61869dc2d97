----------------------------- MODULE PodIndex -----------------------------
(***************************************************************************)
(* What K8SData promises to those who look addresses up: the index is the  *)
(* one that is had by applying each change of the known pods at once.  The *)
(* notifications on their way and when they are handled make no difference *)
(* to it.  An address leads to the pod that was last told to have it; it   *)
(* keeps leading to a pod that has left it until another takes it, or any  *)
(* pod is seen to be deleted at it; neither index nor count learn of pods  *)
(* that a list finds gone.                                                 *)
(***************************************************************************)
EXTENDS Integers, FiniteSets

CONSTANTS
    Pods,        \* pod names
    IPs,         \* pod addresses
    NoIP,        \* a pod without address
    NoPod        \* no pod of that name, or at that address

VARIABLES
    known,       \* known[p]: the address of p as far as the informer knows
    index,       \* index[ip]: the pod found at ip
    count        \* the number of pods told

Addresses == IPs \cup {NoIP}

Init == /\ known = [p \in Pods |-> NoPod]
        /\ index = [ip \in IPs |-> NoPod]
        /\ count = 0

Leading(ip, p) == IF ip \in IPs THEN [index EXCEPT ![ip] = p] ELSE index

Appears(p, ip) ==
    /\ known[p] = NoPod
    /\ known' = [known EXCEPT ![p] = ip]
    /\ index' = Leading(ip, p)
    /\ count' = count + 1

\* To another address, or told again at the same
Moves(p, ip) ==
    /\ known[p] # NoPod
    /\ known' = [known EXCEPT ![p] = ip]
    /\ index' = Leading(ip, p)
    /\ UNCHANGED count

Disappears(p) ==
    /\ known[p] # NoPod
    /\ known' = [known EXCEPT ![p] = NoPod]
    /\ index' = Leading(known[p], NoPod)
    /\ count' = count - 1

Missed(p) ==
    /\ known[p] # NoPod
    /\ known' = [known EXCEPT ![p] = NoPod]
    /\ UNCHANGED <<index, count>>

Next ==
    \/ \E p \in Pods, ip \in Addresses : Appears(p, ip) \/ Moves(p, ip)
    \/ \E p \in Pods : Disappears(p) \/ Missed(p)

Spec == Init /\ [][Next]_<<known, index, count>>
=============================================================================
