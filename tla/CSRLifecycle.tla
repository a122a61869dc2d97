---------------------------- MODULE CSRLifecycle ----------------------------
(***************************************************************************)
(* What a signing controller promises to the users of the API server,      *)
(* whatever informers, replicas and lost calls do underneath: each         *)
(* CertificateSigningRequest that exists is issued at most one             *)
(* certificate, and only a request the signer is entitled to answer gets   *)
(* one.  A deleted name may be created again, as any kind, and starts over. *)
(***************************************************************************)
CONSTANTS
    CSRs,        \* names of CertificateSigningRequest objects
    Kinds,       \* what a request may be like
    Answerable,  \* the kinds the signer may answer at all
    Certs,       \* the certificates that can be issued
    NoCert,      \* no certificate yet
    Absent       \* no object of that name

VARIABLE life    \* life[c]: Absent, or the kind of c and the certificate it was issued

Init == life = [c \in CSRs |-> Absent]

Create(c) ==
    /\ life[c] = Absent
    /\ \E k \in Kinds : life' = [life EXCEPT ![c] = [kind |-> k, cert |-> NoCert]]

Issue(c) ==
    /\ life[c] # Absent /\ life[c].kind \in Answerable
    /\ life[c].cert = NoCert
    /\ \E cert \in Certs :
          life' = [life EXCEPT ![c] = [kind |-> life[c].kind, cert |-> cert]]

Remove(c) == life[c] # Absent /\ life' = [life EXCEPT ![c] = Absent]

Next == \E c \in CSRs : Create(c) \/ Issue(c) \/ Remove(c)

Spec == Init /\ [][Next]_life
=============================================================================
