--------------------------- MODULE MCEdgeCatalog ---------------------------
(* EdgeCatalog with model values for its constants, given by the cfg files. *)
EXTENDS EdgeCatalog, TLC

(* Calls are interchangeable; used where no temporal property is checked. *)
CallSymmetry == Permutations(Calls)
=============================================================================
