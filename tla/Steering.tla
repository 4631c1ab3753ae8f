------------------------------ MODULE Steering ------------------------------
(***************************************************************************)
(* What the routing state promises to traffic, independent of how it is    *)
(* written: every table steers by at most one (rule, route) pair, the pair *)
(* is always one that somebody asked for, and a table changes from one     *)
(* pair to another only through a moment in which it steers nothing.       *)
(***************************************************************************)
CONSTANTS
    Tables,         \* the tables
    Allowed(_),     \* the pairs that have been asked for, per table
    None            \* a table that steers nothing

VARIABLE steers     \* table -> the pair in force, or None

Init == steers = [t \in Tables |-> None]

\* A table that steers nothing takes up a pair that was asked for.
Install(t) ==
    /\ steers[t] = None
    /\ \E p \in Allowed(t) : steers' = [steers EXCEPT ![t] = p]

\* Some tables stop steering (an interface takes several down at once).
Withdraw ==
    \E T \in SUBSET Tables :
        steers' = [t \in Tables |-> IF t \in T THEN None ELSE steers[t]]

Next == Withdraw \/ \E t \in Tables : Install(t)

Spec == Init /\ [][Next]_steers
=============================================================================
