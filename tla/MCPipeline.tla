---------------------------- MODULE MCPipeline ----------------------------
(* Two plugins: the first enforced and failing closed, the second a canary. *)
EXTENDS Pipeline, TLC

CONSTANTS w1, w2, p1, p2, args, tool, old, new

(* One goroutine in a hook of both plugins, one in a hook of the first; a view  *)
(* lists what its snapshot declares.                                            *)
Hooks == w1 :> <<p1, p2>> @@ w2 :> <<p1>>
OneEnforces == p1 :> "enforce" @@ p2 :> "canary"
WriteArguments == p1 :> {args} @@ p2 :> {args}

(* A publish deploys other code for the first plugin and drops the second, or *)
(* goes back.                                                                 *)
SomeSnapshots == {p1 :> old @@ p2 :> old, p1 :> new @@ p2 :> None}

TwoHooks ==
    [w \in Workers |-> [s \in SomeSnapshots |-> SelectSeq(Hooks[w], LAMBDA p : s[p] # None)]]
=============================================================================
