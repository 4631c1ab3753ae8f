------------------------ MODULE MCRouterdLifecycle --------------------------
(* RouterdLifecycle on a small instance: one table, three goals, a sound   *)
(* file and one with a period of zero.                                     *)
EXTENDS RouterdLifecycle

LifeGoals ==
    {<<>>,
     <<[src |-> 5, gateway |-> "g1", iface |-> "i1", fwmark |-> 1]>>,
     <<[src |-> 5, gateway |-> "g2", iface |-> "i1", fwmark |-> 2]>>}

Listed(n) == [name |-> n, device |-> "i1", token |-> "t"]
File(gw, ds, refresh) ==
    [gateway |-> gw, daemons |-> ds, refresh |-> refresh, stale |-> 1,
     ifaces |-> {"i1"}]

LifeConfigs ==
    {File(None, <<Listed("a"), Listed("b")>>, 1),
     File([token |-> "t"], <<>>, 0)}
=============================================================================
