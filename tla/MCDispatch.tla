---------------------------- MODULE MCDispatch ----------------------------
(* Dispatch with model values for its constants, given by the cfg files. *)
EXTENDS Dispatch
=============================================================================
