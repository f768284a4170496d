------------------------------ MODULE MCHealth ------------------------------
(* One server, bound by one tenant. *)
EXTENDS Health, TLC

CONSTANTS acme, lookup, search, renamed

Old == [schema |-> 1, prose |-> 1]
Reworded == [schema |-> 1, prose |-> 2]
New == [schema |-> 2, prose |-> 2]
AllDefinitions == {Old, Reworded, New}

(* Backends publish the old definition, reworded or not, or the new one, or no *)
(* longer the tool; a second tool comes and goes.                              *)
AllCatalogs == {c \in [Tools -> AllDefinitions \cup {None}] : c[search] \in {None, Old}}

Named == [x \in Tools |-> x]
Renamed == [Named EXCEPT ![lookup] = renamed]
AllNames == Tools \cup {renamed}

Admits(mode, d, names) ==
    [mode |-> mode, admitted |-> lookup :> d @@ search :> None, names |-> names]
Both == [mode |-> "strict", admitted |-> [x \in Tools |-> Old], names |-> Named]

(* What publishes go back and forth between: for every binding the first       *)
(* admission, the new definition under another name, the first one advisory,   *)
(* both tools, and no binding.                                                 *)
SomeSnapshots ==
    [Targets -> {Admits("strict", Old, Named), Admits("strict", New, Renamed),
                 Admits("advisory", Old, Named), Both, None}]
=============================================================================
