------------------------------ MODULE Publisher ------------------------------
(***************************************************************************)
(* The control plane's publishing half (internal/controlplane/apiserver):  *)
(* admin handlers and timed jobs, each a goroutine executing one statement *)
(* or one file operation at a time, interleaved with every other one.      *)
(*                                                                         *)
(* A worker runs a plan, the sequence of steps its handler's body makes.   *)
(* Between two steps any other worker may move; a plan may end early on an *)
(* error return, a crash of the process or a build that changed nothing.   *)
(***************************************************************************)
EXTENDS CredentialStore, Sequences

CONSTANTS
    Handlers,              \* API request goroutines
    Timers,                \* one scheduler loop per control-plane replica
    FirstSnapshot,         \* version on disk at the start, 0 = none built yet
    MaxAdminOps,           \* bound: admin requests served
    MaxSnapshots,          \* bound: snapshots built, the first one included
    MaxPrincipalVersion,   \* bound: principal heartbeats stop starting here
    MaxFaults              \* bound: failures, crashes and restarts

ASSUME FirstSnapshotAssumption == FirstSnapshot \in {0, 1}

Workers == Handlers \cup Timers

VARIABLES
    plan,        \* [Workers -> Seq(Step)], what the worker has left to do
    todo,        \* the key ids RevokeUser has still to record
    set,         \* the principal set a worker is building
    list,        \* the revocation list a worker is building
    build,       \* [version, readAt] of the snapshot a worker is building
    snapshotFile, principalFile, listFile,   \* the artifacts on disk
    rewritten,   \* files whose stat differs from what the gateway last saw
    adminOps, snapshots, faults              \* counters for the bounds

workerVars == <<plan, todo, set, list, build>>
fileVars == <<snapshotFile, principalFile, listFile, rewritten>>
budgetVars == <<adminOps, snapshots, faults>>
cpVars == <<dbVars, workerVars, fileVars, budgetVars>>

Artifacts == {"snapshot", "principals", "revocations"}

(* Version 0 is "no such file". *)
PrincipalSets == [version : Nat, keys : SUBSET Keys]
RevocationLists == [version : Nat, ids : SUBSET Keys, prunedThrough : Nat]
NoPrincipals == [version |-> 0, keys |-> {}]
NoRevocations == [version |-> 0, ids |-> {}, prunedThrough |-> 0]
NoBuild == [version |-> 0, readAt |-> 0]

-----------------------------------------------------------------------------
(* Plans: the bodies of the handlers and of the scheduled jobs. *)

StepNames == {"InsertKey", "MarkKeyRevoked", "Disable", "Enable", "DeleteUserRow",
              "ListKeys", "AddRevocations", "AddRevocation", "BumpList",
              "BumpPrincipals", "ReadOwners", "ReadKeys", "WritePrincipals",
              "ReadListState", "ReadListEntries", "WriteList",
              "ReadTenancy", "WriteSnapshot", "Supersede", "SetPruned"}

Step == [op : StepNames, on : SUBSET (Keys \cup Users)]

Do(name) == [op |-> name, on |-> {}]

DoOn(name, x) == [op |-> name, on |-> {x}]

PrincipalSteps == {"BumpPrincipals", "ReadOwners", "ReadKeys", "WritePrincipals"}
ListSteps == {"ReadListState", "ReadListEntries", "WriteList"}

PublishPrincipals_ReadFirst ==
    <<Do("ReadOwners"), Do("ReadKeys"), Do("BumpPrincipals"), Do("WritePrincipals")>>

PublishPrincipals ==
    <<Do("BumpPrincipals"), Do("ReadOwners"), Do("ReadKeys"), Do("WritePrincipals")>>

PublishRevocations_EntriesFirst ==
    <<Do("ReadListEntries"), Do("ReadListState"), Do("WriteList")>>

PublishRevocations ==
    <<Do("ReadListState"), Do("ReadListEntries"), Do("WriteList")>>

(* Store.Revoke, and Store.RevokeUser, whose key ids are read at run time. *)
Revoke(k) == <<DoOn("AddRevocation", k), Do("BumpList")>>

RevokeUser(u) == <<DoOn("ListKeys", u), Do("AddRevocations"), Do("BumpList")>>

HandleMintAPIKey(u) == <<DoOn("InsertKey", u)>> \o PublishPrincipals

HandleRevokeAPIKey(k) ==
    <<DoOn("MarkKeyRevoked", k)>> \o Revoke(k) \o PublishPrincipals \o PublishRevocations

HandleDisableUser(u) ==
    <<DoOn("Disable", u)>> \o RevokeUser(u) \o PublishRevocations \o PublishPrincipals

HandleEnableUser(u) == <<DoOn("Enable", u)>> \o PublishPrincipals

HandleDeleteUser(u) ==
    RevokeUser(u) \o PublishRevocations \o <<DoOn("DeleteUserRow", u)>> \o PublishPrincipals

(* buildAndPublish: prune only after the snapshot is on disk. *)
BuildAndPublish ==
    <<Do("ReadTenancy"), Do("WriteSnapshot"), Do("Supersede"), Do("SetPruned")>>
      \o PublishRevocations

(* Any request for a key or a user that existed once; minting needs an id to give. *)
AdminPlans ==
    {HandleMintAPIKey(Owner[k]) : k \in {x \in Keys : keyRow[x] = "unminted"}}
      \cup {HandleRevokeAPIKey(k) : k \in {x \in Keys : keyRow[x] # "unminted"}}
      \cup UNION {{HandleDisableUser(u), HandleEnableUser(u), HandleDeleteUser(u)} : u \in Users}

-----------------------------------------------------------------------------
CpTypeOK ==
    /\ DbTypeOK
    /\ plan \in [Workers -> Seq(Step)]
    /\ todo \in [Workers -> SUBSET Keys]
    /\ set \in [Workers -> PrincipalSets]
    /\ list \in [Workers -> RevocationLists]
    /\ build \in [Workers -> [version : Nat, readAt : Nat]]
    /\ snapshotFile \in Nat
    /\ principalFile \in PrincipalSets
    /\ listFile \in RevocationLists
    /\ rewritten \in SUBSET Artifacts
    /\ adminOps \in Nat /\ snapshots \in Nat /\ faults \in Nat

CpInit ==
    /\ DbInit
    /\ plan = [w \in Workers |-> <<>>]
    /\ todo = [w \in Workers |-> {}]
    /\ set = [w \in Workers |-> NoPrincipals]
    /\ list = [w \in Workers |-> NoRevocations]
    /\ build = [w \in Workers |-> NoBuild]
    /\ snapshotFile = FirstSnapshot
    /\ principalFile = NoPrincipals
    /\ listFile = NoRevocations
    /\ rewritten = IF FirstSnapshot = 0 THEN {} ELSE {"snapshot"}
    /\ adminOps = 0 /\ snapshots = FirstSnapshot /\ faults = 0

-----------------------------------------------------------------------------
(* Starting work. *)

Idle(w) == plan[w] = <<>>

Start(w, body) ==
    /\ Idle(w)
    /\ plan' = [plan EXCEPT ![w] = body]
    /\ UNCHANGED <<dbVars, todo, set, list, build, fileVars, faults>>

ServeAdmin(w) ==
    /\ w \in Handlers
    /\ adminOps < MaxAdminOps
    /\ \E body \in AdminPlans : Start(w, body)
    /\ adminOps' = adminOps + 1
    /\ UNCHANGED snapshots

(* The revocations.publish job: publishRevocations and nothing else. *)
RevocationHeartbeat(w) ==
    /\ w \in Timers
    /\ Start(w, PublishRevocations)
    /\ UNCHANGED <<adminOps, snapshots>>

PrincipalHeartbeat_Copied(w) ==
    /\ w \in Timers
    /\ Start(w, PublishRevocations)
    /\ UNCHANGED <<adminOps, snapshots>>

PrincipalHeartbeat_IfMissing(w) ==
    /\ w \in Timers /\ principalFile = NoPrincipals
    /\ Start(w, PublishPrincipals)
    /\ UNCHANGED <<adminOps, snapshots>>

PrincipalHeartbeat(w) ==
    /\ w \in Timers
    /\ Start(w, PublishPrincipals)
    /\ UNCHANGED <<adminOps, snapshots>>

(* The catalog.rebuild job, or POST /snapshots through a handler. *)
Rebuild(w) ==
    /\ snapshots < MaxSnapshots
    /\ Start(w, BuildAndPublish)
    /\ snapshots' = snapshots + 1
    /\ UNCHANGED adminOps

-----------------------------------------------------------------------------
(* Executing the next step of a plan. *)

NextIs(w, name) == ~Idle(w) /\ Head(plan[w]).op = name

On(w) == Head(plan[w]).on

Advance(w) == plan' = [plan EXCEPT ![w] = Tail(@)]

(* A statement against the database that leaves the worker's registers alone. *)
DbStep(w) ==
    /\ \/ NextIs(w, "InsertKey") /\ \E k \in Keys : Owner[k] \in On(w) /\ InsertKey(k)
       \/ NextIs(w, "MarkKeyRevoked") /\ \E k \in On(w) \cap Keys : MarkKeyRevoked(k)
       \/ NextIs(w, "Disable") /\ \E u \in On(w) \cap Users : SetUserStatus(u, "disabled")
       \/ NextIs(w, "Enable") /\ \E u \in On(w) \cap Users : SetUserStatus(u, "active")
       \/ NextIs(w, "DeleteUserRow") /\ \E u \in On(w) \cap Users : DeleteUserRow(u)
       \/ NextIs(w, "AddRevocation") /\ \E k \in On(w) \cap Keys : UpsertRevocation(k)
       \/ NextIs(w, "BumpList") /\ BumpRevocationVersion
       \/ NextIs(w, "Supersede") /\ SupersedeRevocationsBefore(build[w].version, build[w].readAt)
       \/ NextIs(w, "SetPruned") /\ SetRevocationPrunedThrough(build[w].version)
    /\ build' = [build EXCEPT ![w] = IF NextIs(w, "SetPruned") THEN NoBuild ELSE @]
    /\ Advance(w)
    /\ UNCHANGED <<todo, set, list, fileVars, budgetVars>>

(* RevokeUser reads the key ids once; a key minted afterwards is not among them. *)
ListKeys(w) ==
    /\ NextIs(w, "ListKeys")
    /\ todo' = [todo EXCEPT ![w] = UNION {KeysOf(u) : u \in On(w) \cap Users}]
    /\ Advance(w)
    /\ UNCHANGED <<dbVars, set, list, build, fileVars, budgetVars>>

(* One statement per listed key, in whatever order the listing had. *)
AddRevocations(w) ==
    /\ NextIs(w, "AddRevocations")
    /\ \/ /\ todo[w] = {}
          /\ Advance(w)
          /\ UNCHANGED <<dbVars, todo>>
       \/ \E k \in todo[w] :
            /\ UpsertRevocation(k)
            /\ todo' = [todo EXCEPT ![w] = @ \ {k}]
            /\ IF todo[w] = {k} THEN Advance(w) ELSE UNCHANGED plan
    /\ UNCHANGED <<set, list, build, fileVars, budgetVars>>

BumpPrincipals(w) ==
    /\ NextIs(w, "BumpPrincipals")
    /\ BumpPrincipalVersion
    /\ set' = [set EXCEPT ![w].version = principalVersion']
    /\ Advance(w)
    /\ UNCHANGED <<todo, list, build, fileVars, budgetVars>>

(* PrincipalSetState lists the users, then the keys: two statements. *)
ReadOwners(w) ==
    /\ NextIs(w, "ReadOwners")
    /\ set' = [set EXCEPT ![w].keys = KeysOfActiveOwners]
    /\ Advance(w)
    /\ UNCHANGED <<dbVars, todo, list, build, fileVars, budgetVars>>

ReadKeys(w) ==
    /\ NextIs(w, "ReadKeys")
    /\ set' = [set EXCEPT ![w].keys = @ \cap LiveKeys]
    /\ Advance(w)
    /\ UNCHANGED <<dbVars, todo, list, build, fileVars, budgetVars>>

WritePrincipals(w) ==
    /\ NextIs(w, "WritePrincipals")
    /\ principalFile' = set[w]
    /\ rewritten' = rewritten \cup {"principals"}
    /\ set' = [set EXCEPT ![w] = NoPrincipals]
    /\ Advance(w)
    /\ UNCHANGED <<dbVars, todo, list, build, snapshotFile, listFile, budgetVars>>

ReadListState(w) ==
    /\ NextIs(w, "ReadListState")
    /\ list' = [list EXCEPT ![w].version = StampedVersion, ![w].prunedThrough = prunedThrough]
    /\ Advance(w)
    /\ UNCHANGED <<dbVars, todo, set, build, fileVars, budgetVars>>

ReadListEntries(w) ==
    /\ NextIs(w, "ReadListEntries")
    /\ list' = [list EXCEPT ![w].ids = ActiveRevocations]
    /\ Advance(w)
    /\ UNCHANGED <<dbVars, todo, set, build, fileVars, budgetVars>>

WriteList(w) ==
    /\ NextIs(w, "WriteList")
    /\ listFile' = list[w]
    /\ rewritten' = rewritten \cup {"revocations"}
    /\ list' = [list EXCEPT ![w] = NoRevocations]
    /\ Advance(w)
    /\ UNCHANGED <<dbVars, todo, set, build, snapshotFile, principalFile, budgetVars>>

(* readAt is taken before the tenancy read; the version is the build's own clock. *)
ReadTenancy(w) ==
    /\ NextIs(w, "ReadTenancy")
    /\ build' = [build EXCEPT ![w] = [version |-> snapshots, readAt |-> dbNow]]
    /\ Advance(w)
    /\ UNCHANGED <<dbVars, todo, set, list, fileVars, budgetVars>>

WriteSnapshot(w) ==
    /\ NextIs(w, "WriteSnapshot")
    /\ snapshotFile' = build[w].version
    /\ rewritten' = rewritten \cup {"snapshot"}
    /\ Advance(w)
    /\ UNCHANGED <<dbVars, todo, set, list, build, principalFile, listFile, budgetVars>>

(* publishedIsIdentical: nothing is written and nothing is pruned. *)
BuildUnchanged(w) ==
    /\ NextIs(w, "WriteSnapshot")
    /\ snapshotFile # 0
    /\ plan' = [plan EXCEPT ![w] = <<>>]
    /\ build' = [build EXCEPT ![w] = NoBuild]
    /\ UNCHANGED <<dbVars, todo, set, list, fileVars, budgetVars>>

-----------------------------------------------------------------------------
(* Failures. *)

(* Another handler deleted the user first: the store error ends the request. *)
RowMissing(w) ==
    /\ \/ NextIs(w, "InsertKey") /\ \A k \in Keys : Owner[k] \in On(w) => ~Mintable(k)
       \/ /\ NextIs(w, "Disable") \/ NextIs(w, "Enable")
          /\ \A u \in On(w) \cap Users : userStatus[u] = "deleted"
    /\ plan' = [plan EXCEPT ![w] = <<>>]
    /\ UNCHANGED <<dbVars, todo, set, list, build, fileVars, budgetVars>>

(* A publish that fails is a problem string: its remaining steps are skipped *)
(* and the handler goes on.                                                  *)
PublishFails(w) ==
    /\ faults < MaxFaults
    /\ \E steps \in {PrincipalSteps, ListSteps} : \E n \in 1..Len(plan[w]) :
         /\ \A i \in 1..Len(plan[w]) : /\ i <= n => plan[w][i].op \in steps
                                       /\ i = n + 1 => plan[w][i].op \notin steps
         /\ plan' = [plan EXCEPT ![w] = SubSeq(@, n + 1, Len(@))]
    /\ set' = [set EXCEPT ![w] = NoPrincipals]
    /\ list' = [list EXCEPT ![w] = NoRevocations]
    /\ faults' = faults + 1
    /\ UNCHANGED <<dbVars, todo, build, fileVars, adminOps, snapshots>>

(* A database error answers 500 and a crash answers nothing: the rest of the *)
(* plan never runs.                                                          *)
Abandon(w) ==
    /\ faults < MaxFaults
    /\ ~Idle(w)
    /\ plan' = [plan EXCEPT ![w] = <<>>]
    /\ todo' = [todo EXCEPT ![w] = {}]
    /\ set' = [set EXCEPT ![w] = NoPrincipals]
    /\ list' = [list EXCEPT ![w] = NoRevocations]
    /\ build' = [build EXCEPT ![w] = NoBuild]
    /\ faults' = faults + 1
    /\ UNCHANGED <<dbVars, fileVars, adminOps, snapshots>>

Work(w) ==
    \/ DbStep(w)
    \/ ListKeys(w) \/ AddRevocations(w)
    \/ BumpPrincipals(w) \/ ReadOwners(w) \/ ReadKeys(w) \/ WritePrincipals(w)
    \/ ReadListState(w) \/ ReadListEntries(w) \/ WriteList(w)
    \/ ReadTenancy(w) \/ WriteSnapshot(w) \/ BuildUnchanged(w)
    \/ RowMissing(w)

-----------------------------------------------------------------------------
(* What a published artifact says. *)

(* PublishPrincipalSet bumps and then reads "so the version always describes *)
(* the bytes": a set stamped later than a key's retirement omits the key.    *)
DescribesItsVersion(s) ==
    \A k \in Keys : Retired(k) /\ s.version > retiredAt[k] => k \notin s.keys

(* A list stamped after the bump that followed a revocation names the key,   *)
(* until a snapshot supersedes it. Version 1 is set aside: RevocationList    *)
(* also stamps it on a list read at version 0.                               *)
CarriesRevocations(l) ==
    \A k \in Keys :
        revokedAt[k] > 0 /\ supersededBy[k] = 0 /\ l.version > addedAt[k] /\ l.version > 1
          => k \in l.ids
=============================================================================
