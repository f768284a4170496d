--------------------------- MODULE MCDistribution ---------------------------
(* Distribution on one user, whose keys all belong to them. *)
EXTENDS Distribution

CONSTANTS u1

OneOwner == [k \in Keys |-> u1]
=============================================================================
