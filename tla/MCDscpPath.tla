----------------------------- MODULE MCDscpPath -----------------------------
(* A small instance of DscpPath for TLC. *)
EXTENDS DscpPath, TLC

CONSTANT f

HomeOne == f :> 1

\* With this much in the other words, the sum of a header whose tos is 4 (the
\* tag of daemon 1) is at the point where the carry is carried again.
SumAtEdge == f :> 47867
=============================================================================
