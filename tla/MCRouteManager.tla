--------------------------- MODULE MCRouteManager ---------------------------
(* RouteManager on small instances.                                        *)
EXTENDS RouteManager

\* 0.0.0.254 is moved to table 65790, which is also 0.1.0.254's own table.
MCAddrs == {254, 65790, 5}

Entry(src, gw, i, m) ==
    [src |-> src, gateway |-> gw, iface |-> i, fwmark |-> m]

\* Lists that change a table's mark, its gateway and interface, its mark and
\* gateway, that give one table to two addresses, and that drop it.
MCGoals ==
    {<<>>,
     <<Entry(5, "g1", "i1", 1)>>,
     <<Entry(5, "g1", "i1", 2), Entry(65790, "g2", "i2", 1)>>,
     <<Entry(5, "g2", "i2", 2)>>,
     <<Entry(65790, "g1", "i1", 0), Entry(254, "g1", "i2", 0)>>}
=============================================================================
