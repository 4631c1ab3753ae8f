----------------------------- MODULE MCRouterd ------------------------------
(* Routerd with two daemons; ids 1 and 2 are in range, 3 is not.           *)
EXTENDS Routerd

MCDaemons == <<"a", "b">>

MCLeases ==
    {[id |-> 1, ips |-> {"x"}], [id |-> None, ips |-> {"x"}],
     [id |-> 2, ips |-> {"x", "y"}], [id |-> 3, ips |-> {"y"}]}
=============================================================================
