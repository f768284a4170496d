---------------------------- MODULE Distribution ----------------------------
(***************************************************************************)
(* The whole path of a credential decision: control-plane workers write    *)
(* three artifact files (Publisher), and one gateway process boots from    *)
(* the files and then polls each of them (internal/dataplane/snapshot's    *)
(* sources feeding its Store). Gateways share nothing but the files, so    *)
(* one stands for all of them.                                             *)
(***************************************************************************)
EXTENDS Publisher

VARIABLES
    phase,        \* which artifact the gateway loads next at boot, or "up"
    serving,      \* Store.current: version of the serving snapshot, 0 = nil
    principals,   \* Store.principals
    revocations   \* Store.revocations

dpVars == <<phase, serving, principals, revocations>>
vars == <<cpVars, dpVars>>

Phases == {"snapshot", "principals", "revocations", "up"}

TypeOK ==
    /\ CpTypeOK
    /\ phase \in Phases
    /\ serving \in Nat
    /\ principals \in PrincipalSets
    /\ revocations \in RevocationLists

Init ==
    /\ CpInit
    /\ phase = "snapshot"
    /\ serving = 0
    /\ principals = NoPrincipals
    /\ revocations = NoRevocations

-----------------------------------------------------------------------------
(* Store *)

Activate(version) == serving' = IF version > serving THEN version ELSE serving

ApplyPrincipals(next) ==
    principals' = IF next.version > principals.version THEN next ELSE principals

Acceptable(next) ==
    /\ next.version > revocations.version
    /\ next.prunedThrough <= serving

ApplyRevocations(next) ==
    revocations' = IF Acceptable(next) THEN next ELSE revocations

(* APIKeyIdentityResolver.Resolve, then serveMCP's revocation check. *)
Authenticates(k) ==
    phase = "up" /\ k \in principals.keys /\ k \notin revocations.ids

-----------------------------------------------------------------------------
(* Boot: LoadOnce of each source in turn, then listen.                      *)

Saw(file) == rewritten' = rewritten \ {file}

Unchanged(file) == file \notin rewritten

(* Without a snapshot the process exits and is started again. *)
LoadSnapshot ==
    /\ phase = "snapshot" /\ snapshotFile # 0
    /\ Activate(snapshotFile)
    /\ Saw("snapshot")
    /\ phase' = "principals"
    /\ UNCHANGED <<principals, revocations>>

(* A missing file, or one that cannot be read (a fault), is logged and boot  *)
(* goes on; the stat is recorded only after a successful load.               *)
LoadPrincipals ==
    /\ phase = "principals"
    /\ phase' = "revocations"
    /\ IF principalFile = NoPrincipals
         THEN UNCHANGED <<principals, rewritten>>
         ELSE ApplyPrincipals(principalFile) /\ Saw("principals")
    /\ UNCHANGED <<serving, revocations>>

LoadRevocations ==
    /\ phase = "revocations"
    /\ phase' = "up"
    /\ IF listFile = NoRevocations \/ ~Acceptable(listFile)
         THEN UNCHANGED <<revocations, rewritten>>
         ELSE ApplyRevocations(listFile) /\ Saw("revocations")
    /\ UNCHANGED <<serving, principals>>

-----------------------------------------------------------------------------
(* Polling: checkOnce of each source, each on its own ticker.               *)

PollSnapshot ==
    /\ phase = "up" /\ ~Unchanged("snapshot")
    /\ Activate(snapshotFile)
    /\ Saw("snapshot")
    /\ UNCHANGED <<phase, principals, revocations>>

PollPrincipals ==
    /\ phase = "up" /\ ~Unchanged("principals")
    /\ ApplyPrincipals(principalFile)
    /\ Saw("principals")
    /\ UNCHANGED <<phase, serving, revocations>>

PollRevocations ==
    /\ phase = "up" /\ ~Unchanged("revocations")
    /\ ApplyRevocations(listFile)
    /\ Saw("revocations")
    /\ UNCHANGED <<phase, serving, principals>>

Load == LoadSnapshot \/ LoadPrincipals \/ LoadRevocations

Poll == PollSnapshot \/ PollPrincipals \/ PollRevocations

(* The list and the set are marked as seen before they are read: a read that *)
(* fails then is not repeated until the file is rewritten. A boot load that  *)
(* fails marks nothing. A failed read of the snapshot is simply repeated.    *)
ReadFails ==
    /\ faults < MaxFaults
    /\ faults' = faults + 1
    /\ \/ /\ phase = "up"
          /\ \E file \in rewritten \cap {"principals", "revocations"} : Saw(file)
          /\ UNCHANGED phase
       \/ /\ phase = "principals" /\ phase' = "revocations"
          /\ UNCHANGED rewritten
       \/ /\ phase = "revocations" /\ phase' = "up"
          /\ UNCHANGED rewritten
    /\ UNCHANGED <<serving, principals, revocations>>

(* To sources just built every file there is is new. *)
Unseen ==
    {f \in Artifacts : \/ f = "snapshot" /\ snapshotFile # 0
                       \/ f = "principals" /\ principalFile # NoPrincipals
                       \/ f = "revocations" /\ listFile # NoRevocations}

(* A new process remembers neither the artifacts nor the stats. *)
Restart ==
    /\ faults < MaxFaults
    /\ phase # "snapshot"
    /\ faults' = faults + 1
    /\ phase' = "snapshot"
    /\ serving' = 0
    /\ principals' = NoPrincipals
    /\ revocations' = NoRevocations
    /\ rewritten' = Unseen

Gateway ==
    /\ \/ (Load \/ Poll) /\ UNCHANGED faults
       \/ ReadFails
       \/ Restart
    /\ UNCHANGED <<dbVars, workerVars, snapshotFile, principalFile, listFile,
                   adminOps, snapshots>>

-----------------------------------------------------------------------------
(* Past its bound a principal heartbeat starts only when the file is not     *)
(* what the database says or the gateway let the file go by: any other one   *)
(* would change nothing but the version.                                     *)
RepublishNeeded ==
    \/ principalFile # [version |-> principalVersion, keys |-> PublishableKeys]
    \/ phase = "up" /\ Unchanged("principals") /\ principals # principalFile

BoundedPrincipalHeartbeat(w) ==
    /\ principalVersion < MaxPrincipalVersion \/ RepublishNeeded
    /\ PrincipalHeartbeat(w)

Begin(w) ==
    \/ ServeAdmin(w) \/ RevocationHeartbeat(w) \/ BoundedPrincipalHeartbeat(w) \/ Rebuild(w)

ControlPlane ==
    /\ \E w \in Workers : Begin(w) \/ Work(w) \/ PublishFails(w) \/ Abandon(w)
    /\ UNCHANGED <<phase, serving, principals, revocations>>

Next == ControlPlane \/ Gateway

Spec == Init /\ [][Next]_vars

(* Handlers and timers are goroutines that run to completion; the scheduler  *)
(* goes through every due job on every tick, so a timer that is free again   *)
(* and again starts each of its jobs again and again; the gateway's three    *)
(* sources poll on tickers, and a process that is down is started again.     *)
Fairness ==
    /\ \A w \in Workers : WF_vars(Work(w) /\ UNCHANGED dpVars)
    /\ \A t \in Timers : SF_vars(BoundedPrincipalHeartbeat(t) /\ UNCHANGED dpVars)
    /\ WF_vars(Gateway /\ Load)
    /\ WF_vars(Gateway /\ PollSnapshot)
    /\ WF_vars(Gateway /\ PollPrincipals)
    /\ WF_vars(Gateway /\ PollRevocations)

FairSpec == Spec /\ Fairness

-----------------------------------------------------------------------------
(* Properties *)

(* A published principal set or list never claims a version newer than the   *)
(* retirements and revocations it reflects, in a worker's hands, on disk or  *)
(* in the gateway (store/snapshotstate.go:188-191).                          *)
ArtifactsDescribeTheirVersions ==
    /\ \A w \in Workers :
         /\ NextIs(w, "WritePrincipals") => DescribesItsVersion(set[w])
         /\ NextIs(w, "WriteList") => CarriesRevocations(list[w])
    /\ DescribesItsVersion(principalFile) /\ DescribesItsVersion(principals)
    /\ CarriesRevocations(listFile) /\ CarriesRevocations(revocations)

(* A gateway that took up a list stamped after a key's revocation refuses the *)
(* key until it serves a snapshot that absorbed the revocation: the list that *)
(* dropped the entry is not taken up before (dataplane/snapshot/store.go:     *)
(* 249-251, revocation.go:33-39, ADR 0023). Version 1 is set aside as in      *)
(* CarriesRevocations.                                                        *)
DenialsKeptUntilAbsorbed ==
    \A k \in Keys :
        revokedAt[k] > 0 /\ revocations.version > addedAt[k] /\ revocations.version > 1
          => k \in revocations.ids \/ (supersededBy[k] # 0 /\ supersededBy[k] <= serving)

(* A key that is out of the principal state for good is eventually refused   *)
(* for good, whatever was lost on the way: nothing but the principal         *)
(* heartbeat is relied on (ADR 0024).                                        *)
WithdrawnEventuallyRefused ==
    \A k \in Keys : <>[](k \notin PublishableKeys) => <>[]~Authenticates(k)

(* A key that stays publishable and was never revoked eventually works at a  *)
(* gateway with a snapshot to boot from.                                     *)
PublishedEventuallyWorks ==
    \A k \in Keys :
        <>[](k \in PublishableKeys /\ revokedAt[k] = 0 /\ snapshotFile # 0)
          => <>[]Authenticates(k)
=============================================================================
