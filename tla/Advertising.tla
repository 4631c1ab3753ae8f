---------------------------- MODULE Advertising -----------------------------
(***************************************************************************)
(* What dumbarpd promises of the addresses it hands out by GET /leases: an *)
(* interface answers ARP for an address or for none, and what is           *)
(* advertised for it only ever changes to what it answers for at that      *)
(* moment.  The table may lag behind, but it does not lag for good.        *)
(***************************************************************************)
CONSTANTS
    Ifaces, Ips,
    None        \* no address

VARIABLES
    answered,   \* interface -> the address it answers for, or None
    advertised  \* interface -> the address GET /leases names for it, or None

vars == <<answered, advertised>>

Init ==
    /\ answered = [i \in Ifaces |-> None]
    /\ advertised = [i \in Ifaces |-> None]

Answer(i, ip) ==
    /\ answered' = [answered EXCEPT ![i] = ip]
    /\ UNCHANGED advertised

Publish(i) ==
    /\ advertised' = [advertised EXCEPT ![i] = answered[i]]
    /\ UNCHANGED answered

\* The daemon is started again.
Reset == answered' = [i \in Ifaces |-> None] /\ advertised' = answered'

Next ==
    \/ \E i \in Ifaces : Publish(i) \/ \E ip \in Ips \cup {None} : Answer(i, ip)
    \/ Reset

Spec == Init /\ [][Next]_vars

FairSpec == Spec /\ \A i \in Ifaces : WF_vars(Publish(i))
=============================================================================
