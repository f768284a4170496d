---------------------------- MODULE PluginHosts ----------------------------
(***************************************************************************)
(* The plugins of a serving snapshot and the code that runs for them:      *)
(* wiring.HostRegistry, which follows the snapshot after it was swapped    *)
(* in, and plugins.WASMHost, which compiles artifacts and keeps the last   *)
(* one compiled for a plugin. A piece of code stands for its digest; a     *)
(* guest's instances and memory are left out.                              *)
(***************************************************************************)
EXTENDS Naturals

CONSTANTS
    Plugins,
    Codes,       \* what an artifact may hash to
    None,
    Snapshots    \* the manifests a snapshot may carry: [Plugins -> Codes \cup {None}]

ASSUME SnapshotsAssumption == Snapshots \subseteq [Plugins -> Codes \cup {None}]
ASSUME NoneAssumption == None \notin Codes

VARIABLES
    declared,   \* the serving snapshot's manifests
    served,     \* history: the snapshots activated so far, each view of which may be in use
    syncing,    \* an observer is following it: HostRegistry.Sync
    todo,       \* the plugins it has yet to load
    ready,      \* the ones it has loaded
    loaded,     \* HostRegistry.loaded
    compiled    \* WASMHost.compiled

hostVars == <<declared, served, syncing, todo, ready, loaded, compiled>>

HostsTyped ==
    /\ served \subseteq Snapshots /\ declared \in served
    /\ syncing \in BOOLEAN
    /\ todo \subseteq Plugins /\ ready \subseteq Plugins /\ loaded \subseteq Plugins
    /\ compiled \in [Plugins -> Codes \cup {None}]

Declared == {p \in Plugins : declared[p] # None}

(* The first snapshot is activated, and observed, before the gateway listens. *)
HostsInit ==
    /\ declared \in Snapshots /\ served = {declared}
    /\ loaded \in SUBSET Declared
    /\ compiled = [p \in Plugins |-> IF p \in loaded THEN declared[p] ELSE None]
    /\ syncing = FALSE /\ todo = {} /\ ready = {}

(* Store.Activate stores the view, then calls its observers. *)
Activate ==
    /\ ~syncing
    /\ declared' \in Snapshots /\ served' = served \cup {declared'}
    /\ syncing' = TRUE
    /\ todo' = {p \in Plugins : declared'[p] # None} /\ ready' = {}
    /\ UNCHANGED <<loaded, compiled>>

(* The file a manifest refers to, if it can be read, compiles and has the ABI. *)
Artifacts == Codes \cup {None}

Load_ByName(p, artifact) ==
    \/ /\ compiled[p] # None
       /\ ready' = ready \cup {p} /\ UNCHANGED compiled
    \/ /\ compiled[p] = None /\ artifact = declared[p]
       /\ compiled' = [compiled EXCEPT ![p] = artifact]
       /\ ready' = ready \cup {p}
    \/ /\ compiled[p] = None /\ artifact # declared[p]
       /\ UNCHANGED <<ready, compiled>>

(* The digest a manifest declares is compiled already, or the artifact found  *)
(* has it and replaces what was compiled, or the plugin does not load: what   *)
(* was compiled for it before stays, and is not reached.                      *)
Load(p, artifact) ==
    \/ /\ compiled[p] = declared[p]
       /\ ready' = ready \cup {p} /\ UNCHANGED compiled
    \/ /\ compiled[p] # declared[p] /\ artifact = declared[p]
       /\ compiled' = [compiled EXCEPT ![p] = artifact]
       /\ ready' = ready \cup {p}
    \/ /\ compiled[p] # declared[p] /\ artifact # declared[p]
       /\ UNCHANGED <<ready, compiled>>

LoadNext ==
    /\ \E p \in todo :
         /\ \E artifact \in Artifacts : Load(p, artifact)
         /\ todo' = todo \ {p}
    /\ UNCHANGED <<declared, served, syncing, loaded>>

(* The registry's map is replaced as a whole. *)
Replace ==
    /\ syncing /\ todo = {}
    /\ loaded' = ready
    /\ ready' = {} /\ syncing' = FALSE
    /\ UNCHANGED <<declared, served, todo, compiled>>

Sync == LoadNext \/ Replace

HasHost(p) == p \in loaded

(* WASMHost.Invoke looks the plugin up by its id. *)
CodeOf(p) == compiled[p]
=============================================================================
