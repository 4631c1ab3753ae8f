---------------------------- MODULE DaemonConfig ----------------------------
(***************************************************************************)
(* What a dumbarpd configuration file must satisfy for the process to      *)
(* start (dumbarp-daemon/src/config.rs, load).  A file that was read and   *)
(* parsed is a record with the fields token, ifaces, refresh (in seconds), *)
(* manage and id; "" stands for an empty string.                           *)
(***************************************************************************)
EXTENDS Integers

DscpIdMax == 63

\* Seeded fault: a period of zero is let through.
AcceptsZero(c) ==
    /\ c.token # ""
    /\ c.ifaces # {}
    /\ c.id <= DscpIdMax

Accepts(c) ==
    /\ c.token # ""
    /\ c.ifaces # {}
    /\ c.refresh > 0
    /\ c.id <= DscpIdMax
=============================================================================
