--------------------------- MODULE MCDaemonRoutes ---------------------------
(* DaemonRoutes on a small instance: two interfaces that may be given the  *)
(* same address, over a kernel that was not left clean.                    *)
EXTENDS DaemonRoutes

MCLeases == {[ip |-> 5, gateway |-> g] : g \in Gateways}

MCIfaceOrder == <<"i1", "i2">>

\* A routerd's list for the same address.
MCRivalGoals ==
    {<<[src |-> 5, gateway |-> "g1", iface |-> "i1", fwmark |-> 1]>>}

Rule(src, m, mask) == [src |-> src, fwmark |-> m, fwmask |-> mask]

File(refresh, manage) ==
    [token |-> "t", ifaces |-> Ifaces, refresh |-> refresh, manage |-> manage,
     id |-> 0]
MCFiles == {File(1, TRUE), File(1, FALSE), File(0, TRUE)}

DriftRules ==
    {<<>>,
     <<Rule(5, 1, "exact"), Rule(5, 0, "none")>>,
     <<Rule(5, 2, "narrow"), Rule(5, 0, "none")>>,
     <<Rule(5, 0, "none"), Rule(254, 2, "exact")>>}

DriftRoutes ==
    {None, [gateway |-> "g1", oif |-> <<"i1", 1>>, onlink |-> FALSE]}

\* The kernel as an earlier version, another tool or an operator left it.
DriftInit ==
    /\ \E rs \in DriftRules, rt \in DriftRoutes :
          /\ rules = [t \in Tables |-> IF t = 5 THEN rs ELSE <<>>]
          /\ routes = [t \in Tables |-> IF t = 5 THEN rt ELSE None]
    /\ AnyKernel
    /\ DrInit
    /\ Managing

DriftSpec == DriftInit /\ [][DrNext]_drVars /\ Fairness
=============================================================================
