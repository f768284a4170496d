-------------------------- MODULE CredentialStore --------------------------
(***************************************************************************)
(* The control-plane tables that decide which API keys the data plane      *)
(* accepts: api_keys, users, revocations and the one-row revocation_state. *)
(* One operator per statement of internal/controlplane/store; each is one  *)
(* autocommitted SQL statement, so each is one atomic step.                *)
(***************************************************************************)
EXTENDS Naturals, FiniteSets

CONSTANTS
    Keys,    \* API key ids; a principal id is a key id
    Users,
    Owner    \* [Keys -> Users], api_keys.user_id

ASSUME OwnerAssumption == Owner \in [Keys -> Users]

VARIABLES
    keyRow,            \* "unminted", "live", "revoked" (revoked_at set), "deleted"
    userStatus,        \* users.status, "deleted" once the row is gone
    revokedAt,         \* revocations.revoked_at as a count of upserts, 0 = no row
    supersededBy,      \* revocations.superseded_by, 0 = NULL
    dbNow,             \* the database clock, ticking once per upsert
    listVersion,       \* revocation_state.version
    prunedThrough,     \* revocation_state.pruned_through
    principalVersion,  \* revocation_state.principal_version
    retiredAt,         \* history: principalVersion when the key stopped being live for good
    addedAt,           \* history: listVersion when the key's row was last upserted
    prunedBefore       \* history: the latest readAt any pruning used

dbVars == <<keyRow, userStatus, revokedAt, supersededBy, dbNow, listVersion,
            prunedThrough, principalVersion, retiredAt, addedAt, prunedBefore>>

DbTypeOK ==
    /\ keyRow \in [Keys -> {"unminted", "live", "revoked", "deleted"}]
    /\ userStatus \in [Users -> {"active", "disabled", "deleted"}]
    /\ revokedAt \in [Keys -> Nat]
    /\ supersededBy \in [Keys -> Nat]
    /\ dbNow \in Nat
    /\ listVersion \in Nat
    /\ prunedThrough \in Nat
    /\ principalVersion \in Nat
    /\ retiredAt \in [Keys -> Nat]
    /\ addedAt \in [Keys -> Nat]
    /\ prunedBefore \in Nat

(* The schema's defaults: version 0, nothing pruned, nothing published. *)
DbInit ==
    /\ keyRow \in [Keys -> {"unminted", "live"}]
    /\ userStatus = [u \in Users |-> "active"]
    /\ revokedAt = [k \in Keys |-> 0]
    /\ supersededBy = [k \in Keys |-> 0]
    /\ dbNow = 0
    /\ listVersion = 0
    /\ prunedThrough = 0
    /\ principalVersion = 0
    /\ retiredAt = [k \in Keys |-> 0]
    /\ addedAt = [k \in Keys |-> 0]
    /\ prunedBefore = 0

-----------------------------------------------------------------------------
(* Reads *)

Retired(k) == keyRow[k] \in {"revoked", "deleted"}

HasRow(k) == keyRow[k] \in {"live", "revoked"}

KeysOf(u) == {k \in Keys : Owner[k] = u /\ HasRow(k)}

(* The foreign key to users refuses a key for a user who is gone. *)
Mintable(k) == keyRow[k] = "unminted" /\ userStatus[Owner[k]] # "deleted"

LiveKeys == {k \in Keys : keyRow[k] = "live"}

KeysOfActiveOwners == {k \in Keys : userStatus[Owner[k]] = "active"}

(* PrincipalSetState: a key is published while its row is live and its *)
(* owner is active.                                                    *)
PublishableKeys == LiveKeys \cap KeysOfActiveOwners

(* ListActiveRevocations: a row not yet superseded by a snapshot. *)
ActiveRevocations == {k \in Keys : revokedAt[k] > 0 /\ supersededBy[k] = 0}

StampedVersion_OffByOne == listVersion - 1

(* RevocationList never stamps version 0. *)
StampedVersion == IF listVersion = 0 THEN 1 ELSE listVersion

-----------------------------------------------------------------------------
(* Writes *)

InsertKey(k) ==
    /\ Mintable(k)
    /\ keyRow' = [keyRow EXCEPT ![k] = "live"]
    /\ UNCHANGED <<userStatus, revokedAt, supersededBy, dbNow, listVersion,
                   prunedThrough, principalVersion, retiredAt, addedAt, prunedBefore>>

MarkKeyRevoked(k) ==
    /\ keyRow' = [keyRow EXCEPT ![k] = IF HasRow(k) THEN "revoked" ELSE @]
    /\ retiredAt' = [retiredAt EXCEPT ![k] = IF keyRow[k] = "live" THEN principalVersion ELSE @]
    /\ UNCHANGED <<userStatus, revokedAt, supersededBy, dbNow, listVersion,
                   prunedThrough, principalVersion, addedAt, prunedBefore>>

SetUserStatus(u, status) ==
    /\ userStatus[u] # "deleted"
    /\ userStatus' = [userStatus EXCEPT ![u] = status]
    /\ UNCHANGED <<keyRow, revokedAt, supersededBy, dbNow, listVersion,
                   prunedThrough, principalVersion, retiredAt, addedAt, prunedBefore>>

(* ON DELETE CASCADE takes the user's keys; revocations have no foreign key. *)
DeleteUserRow(u) ==
    /\ userStatus' = [userStatus EXCEPT ![u] = "deleted"]
    /\ keyRow' = [k \in Keys |-> IF k \in KeysOf(u) THEN "deleted" ELSE keyRow[k]]
    /\ retiredAt' = [k \in Keys |-> IF k \in KeysOf(u) /\ keyRow[k] = "live"
                                      THEN principalVersion ELSE retiredAt[k]]
    /\ UNCHANGED <<revokedAt, supersededBy, dbNow, listVersion, prunedThrough,
                   principalVersion, addedAt, prunedBefore>>

(* INSERT ... ON CONFLICT (principal_id) DO UPDATE SET revoked_at, reason: *)
(* superseded_by of an existing row stays as it is.                        *)
UpsertRevocation(k) ==
    /\ dbNow' = dbNow + 1
    /\ revokedAt' = [revokedAt EXCEPT ![k] = dbNow + 1]
    /\ addedAt' = [addedAt EXCEPT ![k] = listVersion]
    /\ UNCHANGED <<keyRow, userStatus, supersededBy, listVersion, prunedThrough,
                   principalVersion, retiredAt, prunedBefore>>

BumpRevocationVersion ==
    /\ listVersion' = listVersion + 1
    /\ UNCHANGED <<keyRow, userStatus, revokedAt, supersededBy, dbNow,
                   prunedThrough, principalVersion, retiredAt, addedAt, prunedBefore>>

BumpPrincipalVersion ==
    /\ principalVersion' = principalVersion + 1
    /\ UNCHANGED <<keyRow, userStatus, revokedAt, supersededBy, dbNow, listVersion,
                   prunedThrough, retiredAt, addedAt, prunedBefore>>

(* Rows revoked before the build read the database are marked with it. *)
SupersedeRevocationsBefore(snapshot, readAt) ==
    /\ supersededBy' = [k \in Keys |-> IF k \in ActiveRevocations /\ revokedAt[k] <= readAt
                                         THEN snapshot ELSE supersededBy[k]]
    /\ prunedBefore' = IF readAt > prunedBefore THEN readAt ELSE prunedBefore
    /\ UNCHANGED <<keyRow, userStatus, revokedAt, dbNow, listVersion, prunedThrough,
                   principalVersion, retiredAt, addedAt>>

SetRevocationPrunedThrough(snapshot) ==
    /\ listVersion' = listVersion + 1
    /\ prunedThrough' = snapshot
    /\ UNCHANGED <<keyRow, userStatus, revokedAt, supersededBy, dbNow,
                   principalVersion, retiredAt, addedAt, prunedBefore>>
=============================================================================
