--------------------------- MODULE MCBackendPool ---------------------------
(* BackendPool with two goroutines, each in a call or a probe at any time. *)
EXTENDS BackendPool
=============================================================================
