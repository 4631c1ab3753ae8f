-------------------------- MODULE MCGatewayRouterd --------------------------
(* A gateway with two daemons and one routerd. *)
EXTENDS GatewayRouterd

MCDaemons == <<"a", "b">>

MCLeases ==
    {[id |-> 1, ips |-> {"x"}], [id |-> None, ips |-> {"x"}]}
=============================================================================
