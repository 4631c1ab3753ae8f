--------------------------- MODULE RouterdConfig ----------------------------
(***************************************************************************)
(* What a routerd configuration file must satisfy for the process to start *)
(* (dumbarp-routerd/src/config.rs, validate).  A file that was read and    *)
(* parsed is a record; "" stands for an empty string.                      *)
(*   gateway   [token] or None                                             *)
(*   daemons   sequence of [name, device, token]                           *)
(*   refresh, stale   in seconds                                           *)
(*   ifaces    the interfaces the classifier is attached to                *)
(***************************************************************************)
EXTENDS Integers, Sequences

CONSTANT None

OneSource(c) == (c.gateway = None) # (c.daemons = <<>>)

TokenSet(gw) == gw # None => gw.token # ""

DaemonsNamed(ds) ==
    /\ \A k \in DOMAIN ds : "" \notin {ds[k].name, ds[k].device, ds[k].token}
    /\ \A j, k \in DOMAIN ds : ds[j].name = ds[k].name => j = k

\* Seeded fault: the order of the two periods is checked, zero is not.
ValidateZero(c) ==
    /\ OneSource(c)
    /\ TokenSet(c.gateway)
    /\ c.stale >= c.refresh
    /\ c.ifaces # {}
    /\ DaemonsNamed(c.daemons)

Validate(c) ==
    /\ OneSource(c)
    /\ TokenSet(c.gateway)
    /\ c.refresh > 0
    /\ c.stale >= c.refresh
    /\ c.ifaces # {}
    /\ DaemonsNamed(c.daemons)
=============================================================================
