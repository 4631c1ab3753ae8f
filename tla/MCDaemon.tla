------------------------------ MODULE MCDaemon ------------------------------
(* Small instances of Daemon for TLC. *)
EXTENDS Daemon, TLC

\* Interfaces, addresses and (without a MAC to tell them apart) gateways are
\* interchangeable.
Symmetry ==
    Permutations(Ifaces) \cup Permutations(Ips) \cup Permutations(Gateways)
=============================================================================
