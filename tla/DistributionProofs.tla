------------------------- MODULE DistributionProofs -------------------------
(***************************************************************************)
(* Theorems about Distribution, for any sets of keys, users, handlers and  *)
(* timers and any bounds: what the published artifacts say is true, and    *)
(* withdrawals and publications last.                                      *)
(***************************************************************************)
EXTENDS Distribution, TLAPS

(* Every statement the workers execute, seen from the database. *)
DbChange ==
    \/ \E k \in Keys : InsertKey(k) \/ MarkKeyRevoked(k) \/ UpsertRevocation(k)
    \/ \E u \in Users : \/ SetUserStatus(u, "disabled") \/ SetUserStatus(u, "active")
                        \/ DeleteUserRow(u)
    \/ BumpRevocationVersion \/ BumpPrincipalVersion
    \/ \E v, r \in Nat : SupersedeRevocationsBefore(v, r) \/ SetRevocationPrunedThrough(v)
    \/ UNCHANGED dbVars

-----------------------------------------------------------------------------
(* The database. *)

(* Every statement keeps the tables well typed. *)
LEMMA DbTyped ==
    ASSUME DbTypeOK, DbChange
    PROVE  DbTypeOK'
<1>1. CASE \E k \in Keys : InsertKey(k)
  BY <1>1 DEF DbTypeOK, InsertKey
<1>2. CASE \E k \in Keys : MarkKeyRevoked(k)
  BY <1>2 DEF DbTypeOK, MarkKeyRevoked
<1>3. CASE \E k \in Keys : UpsertRevocation(k)
  BY <1>3 DEF DbTypeOK, UpsertRevocation
<1>4. CASE \E u \in Users : SetUserStatus(u, "disabled") \/ SetUserStatus(u, "active")
  BY <1>4 DEF DbTypeOK, SetUserStatus
<1>5. CASE \E u \in Users : DeleteUserRow(u)
  BY <1>5 DEF DbTypeOK, DeleteUserRow
<1>6. CASE BumpRevocationVersion \/ BumpPrincipalVersion
  BY <1>6 DEF DbTypeOK, BumpRevocationVersion, BumpPrincipalVersion
<1>7. CASE \E v, r \in Nat : SupersedeRevocationsBefore(v, r)
  BY <1>7 DEF DbTypeOK, SupersedeRevocationsBefore
<1>8. CASE \E v \in Nat : SetRevocationPrunedThrough(v)
  BY <1>8 DEF DbTypeOK, SetRevocationPrunedThrough
<1>9. CASE UNCHANGED dbVars
  BY <1>9 DEF DbTypeOK, dbVars
<1> QED
  BY <1>1, <1>2, <1>3, <1>4, <1>5, <1>6, <1>7, <1>8, <1>9 DEF DbChange

(* A principal set no newer than the counter stays true to its version: a key *)
(* that retires now retires at the counter.                                   *)
LEMMA SetStaysTrue ==
    ASSUME DbTypeOK, DbChange, NEW s \in PrincipalSets,
           s.version <= principalVersion, DescribesItsVersion(s)
    PROVE  s.version <= principalVersion' /\ DescribesItsVersion(s)'
<1> USE DEF DbTypeOK, PrincipalSets, DescribesItsVersion, Retired
<1>1. CASE \E k \in Keys : InsertKey(k)
  BY <1>1 DEF InsertKey, Mintable
<1>2. CASE \E k \in Keys : MarkKeyRevoked(k)
  BY <1>2 DEF MarkKeyRevoked, HasRow
<1>3. CASE \E k \in Keys : UpsertRevocation(k)
  BY <1>3 DEF UpsertRevocation
<1>4. CASE \E u \in Users : SetUserStatus(u, "disabled") \/ SetUserStatus(u, "active")
  BY <1>4 DEF SetUserStatus
<1>5. CASE \E u \in Users : DeleteUserRow(u)
  BY <1>5 DEF DeleteUserRow, KeysOf, HasRow
<1>6. CASE BumpRevocationVersion \/ BumpPrincipalVersion
  BY <1>6 DEF BumpRevocationVersion, BumpPrincipalVersion
<1>7. CASE \E v, r \in Nat : SupersedeRevocationsBefore(v, r)
  BY <1>7 DEF SupersedeRevocationsBefore
<1>8. CASE \E v \in Nat : SetRevocationPrunedThrough(v)
  BY <1>8 DEF SetRevocationPrunedThrough
<1>9. CASE UNCHANGED dbVars
  BY <1>9 DEF dbVars
<1> QED
  BY <1>1, <1>2, <1>3, <1>4, <1>5, <1>6, <1>7, <1>8, <1>9 DEF DbChange

(* A list no newer than the stamp in force stays complete for its version: a  *)
(* row upserted now is stamped with the counter, which the list does not pass. *)
LEMMA ListStaysTrue ==
    ASSUME DbTypeOK, DbChange, NEW l \in RevocationLists,
           l.version <= StampedVersion, CarriesRevocations(l)
    PROVE  l.version <= StampedVersion' /\ CarriesRevocations(l)'
<1> USE DEF DbTypeOK, RevocationLists, CarriesRevocations, StampedVersion
<1>1. CASE \E k \in Keys : InsertKey(k)
  BY <1>1 DEF InsertKey
<1>2. CASE \E k \in Keys : MarkKeyRevoked(k)
  BY <1>2 DEF MarkKeyRevoked
<1>3. CASE \E k \in Keys : UpsertRevocation(k)
  BY <1>3 DEF UpsertRevocation
<1>4. CASE \E u \in Users : SetUserStatus(u, "disabled") \/ SetUserStatus(u, "active")
  BY <1>4 DEF SetUserStatus
<1>5. CASE \E u \in Users : DeleteUserRow(u)
  BY <1>5 DEF DeleteUserRow
<1>6. CASE BumpRevocationVersion \/ BumpPrincipalVersion
  BY <1>6 DEF BumpRevocationVersion, BumpPrincipalVersion
<1>7. CASE \E v, r \in Nat : SupersedeRevocationsBefore(v, r)
  BY <1>7 DEF SupersedeRevocationsBefore, ActiveRevocations
<1>8. CASE \E v \in Nat : SetRevocationPrunedThrough(v)
  BY <1>8 DEF SetRevocationPrunedThrough
<1>9. CASE UNCHANGED dbVars
  BY <1>9 DEF dbVars
<1> QED
  BY <1>1, <1>2, <1>3, <1>4, <1>5, <1>6, <1>7, <1>8, <1>9 DEF DbChange

-----------------------------------------------------------------------------
(* Plans. *)

Sequels == {"ReadKeys", "WritePrincipals", "WriteList"}

(* Keys are read straight after their owners were, a set is written straight *)
(* after its keys were read, a list straight after its entries were.         *)
WellFormed(p) ==
    \A i \in 1..(Len(p) - 1) :
        /\ p[i + 1].op = "ReadKeys" => p[i].op = "ReadOwners"
        /\ p[i + 1].op = "WritePrincipals" => p[i].op = "ReadKeys"
        /\ p[i + 1].op = "WriteList" => p[i].op = "ReadListEntries"

(* A whole body of a handler or a job, or a part of one between publishes. *)
Bodies == {p \in Seq(Step) : WellFormed(p) /\ (p # <<>> => Head(p).op \notin Sequels)}

(* What is left of a plan is as well formed as the plan was. *)
LEMMA SuffixWellFormed ==
    ASSUME NEW p \in Seq(Step), WellFormed(p), NEW n \in 1..Len(p)
    PROVE  /\ SubSeq(p, n + 1, Len(p)) \in Seq(Step)
           /\ WellFormed(SubSeq(p, n + 1, Len(p)))
<1> DEFINE r == SubSeq(p, n + 1, Len(p))
<1>1. r \in Seq(Step) /\ Len(r) = Len(p) - n /\ \A i \in 1..Len(r) : r[i] = p[n + i]
  OBVIOUS
<1>2. ASSUME NEW i \in 1..(Len(r) - 1)
      PROVE  /\ n + i \in 1..(Len(p) - 1)
             /\ r[i] = p[n + i] /\ r[i + 1] = p[(n + i) + 1]
  BY <1>1, <1>2
<1> HIDE DEF r
<1>3. WellFormed(r)
  BY <1>2 DEF WellFormed
<1> QED
  BY <1>1, <1>3 DEF r

(* So is what is left after one step of it. *)
LEMMA TailWellFormed ==
    ASSUME NEW p \in Seq(Step), WellFormed(p), p # <<>>
    PROVE  Tail(p) \in Seq(Step) /\ WellFormed(Tail(p))
  BY DEF WellFormed

(* Bodies compose: none of them starts with a sequel. *)
LEMMA ConcatBodies ==
    ASSUME NEW p \in Bodies, NEW q \in Bodies
    PROVE  p \o q \in Bodies
<1> DEFINE r == p \o q
<1>1. /\ p \in Seq(Step) /\ q \in Seq(Step) /\ r \in Seq(Step)
      /\ Len(r) = Len(p) + Len(q)
      /\ \A i \in 1..Len(r) : r[i] = IF i <= Len(p) THEN p[i] ELSE q[i - Len(p)]
  BY DEF Bodies
<1>2. WellFormed(r)
  <2> SUFFICES ASSUME NEW i \in 1..(Len(r) - 1)
               PROVE  /\ r[i + 1].op = "ReadKeys" => r[i].op = "ReadOwners"
                      /\ r[i + 1].op = "WritePrincipals" => r[i].op = "ReadKeys"
                      /\ r[i + 1].op = "WriteList" => r[i].op = "ReadListEntries"
    BY DEF WellFormed
  <2>1. CASE i + 1 <= Len(p)
    BY <1>1, <2>1 DEF Bodies, WellFormed
  <2>2. CASE i = Len(p)
    <3>1. r[i + 1] = q[1] /\ q # <<>>
      BY <1>1, <2>2
    <3> QED
      BY <3>1, <1>1 DEF Bodies, Sequels
  <2>3. CASE i > Len(p)
    <3>1. /\ i - Len(p) \in 1..(Len(q) - 1)
          /\ r[i] = q[i - Len(p)] /\ r[i + 1] = q[(i - Len(p)) + 1]
      BY <1>1, <2>3
    <3> QED
      BY <3>1 DEF Bodies, WellFormed
  <2> QED
    BY <2>1, <2>2, <2>3, <1>1
<1>3. r # <<>> => Head(r).op \notin Sequels
  <2>1. CASE p = <<>>
    <3>1. r = q
      BY <2>1, <1>1
    <3> QED
      BY <3>1 DEF Bodies
  <2>2. CASE p # <<>>
    BY <2>2, <1>1 DEF Bodies
  <2> QED
    BY <2>1, <2>2
<1> QED
  BY <1>1, <1>2, <1>3 DEF Bodies

(* A step that is no sequel is a body of its own. *)
LEMMA OneStepBody ==
    ASSUME NEW s \in Step, s.op \notin Sequels
    PROVE  <<s>> \in Bodies
  BY DEF Bodies, WellFormed

(* The two publishes. *)
LEMMA PublishBodies ==
    PublishPrincipals \in Bodies /\ PublishRevocations \in Bodies
  BY DEF Bodies, WellFormed, Sequels, PublishPrincipals, PublishRevocations, Do, Step, StepNames

(* Every request's plan is a body. *)
LEMMA AdminBodies ==
    AdminPlans \subseteq Bodies
<1>1. \A x \in Keys \cup Users : \A name \in StepNames \ Sequels :
        <<Do(name)>> \in Bodies /\ <<DoOn(name, x)>> \in Bodies
  <2> SUFFICES ASSUME NEW x \in Keys \cup Users, NEW name \in StepNames \ Sequels
               PROVE  <<Do(name)>> \in Bodies /\ <<DoOn(name, x)>> \in Bodies
    OBVIOUS
  <2>1. Do(name) \in Step /\ Do(name).op = name
    BY DEF Do, Step
  <2>2. DoOn(name, x) \in Step /\ DoOn(name, x).op = name
    BY DEF DoOn, Step
  <2> QED
    BY <2>1, <2>2, OneStepBody
<1>2. \A k \in Keys : Revoke(k) \in Bodies
  <2> SUFFICES ASSUME NEW k \in Keys
               PROVE  Revoke(k) \in Bodies
    OBVIOUS
  <2>1. Revoke(k) = <<DoOn("AddRevocation", k)>> \o <<Do("BumpList")>>
    BY DEF Revoke
  <2>2. <<DoOn("AddRevocation", k)>> \in Bodies /\ <<Do("BumpList")>> \in Bodies
    BY <1>1 DEF StepNames, Sequels
  <2> QED
    BY <2>1, <2>2, ConcatBodies
<1>3. \A u \in Users : RevokeUser(u) \in Bodies
  <2> SUFFICES ASSUME NEW u \in Users
               PROVE  RevokeUser(u) \in Bodies
    OBVIOUS
  <2>1. RevokeUser(u) = (<<DoOn("ListKeys", u)>> \o <<Do("AddRevocations")>>) \o <<Do("BumpList")>>
    BY DEF RevokeUser
  <2>2. /\ <<DoOn("ListKeys", u)>> \in Bodies /\ <<Do("AddRevocations")>> \in Bodies
        /\ <<Do("BumpList")>> \in Bodies
    BY <1>1 DEF StepNames, Sequels
  <2> QED
    BY <2>1, <2>2, ConcatBodies
<1>4. \A u \in Users : HandleMintAPIKey(u) \in Bodies /\ HandleEnableUser(u) \in Bodies
  <2> SUFFICES ASSUME NEW u \in Users
               PROVE  HandleMintAPIKey(u) \in Bodies /\ HandleEnableUser(u) \in Bodies
    OBVIOUS
  <2>1. <<DoOn("InsertKey", u)>> \in Bodies /\ <<DoOn("Enable", u)>> \in Bodies
    BY <1>1 DEF StepNames, Sequels
  <2> QED
    BY <2>1, PublishBodies, ConcatBodies DEF HandleMintAPIKey, HandleEnableUser
<1>5. \A k \in Keys : HandleRevokeAPIKey(k) \in Bodies
  <2> SUFFICES ASSUME NEW k \in Keys
               PROVE  HandleRevokeAPIKey(k) \in Bodies
    OBVIOUS
  <2>1. <<DoOn("MarkKeyRevoked", k)>> \in Bodies
    BY <1>1 DEF StepNames, Sequels
  <2>2. <<DoOn("MarkKeyRevoked", k)>> \o Revoke(k) \in Bodies
    BY <2>1, <1>2, ConcatBodies
  <2>3. (<<DoOn("MarkKeyRevoked", k)>> \o Revoke(k)) \o PublishPrincipals \in Bodies
    BY <2>2, PublishBodies, ConcatBodies
  <2> QED
    BY <2>3, PublishBodies, ConcatBodies DEF HandleRevokeAPIKey
<1>6. \A u \in Users : HandleDisableUser(u) \in Bodies
  <2> SUFFICES ASSUME NEW u \in Users
               PROVE  HandleDisableUser(u) \in Bodies
    OBVIOUS
  <2>1. <<DoOn("Disable", u)>> \in Bodies
    BY <1>1 DEF StepNames, Sequels
  <2>2. <<DoOn("Disable", u)>> \o RevokeUser(u) \in Bodies
    BY <2>1, <1>3, ConcatBodies
  <2>3. (<<DoOn("Disable", u)>> \o RevokeUser(u)) \o PublishRevocations \in Bodies
    BY <2>2, PublishBodies, ConcatBodies
  <2> QED
    BY <2>3, PublishBodies, ConcatBodies DEF HandleDisableUser
<1>7. \A u \in Users : HandleDeleteUser(u) \in Bodies
  <2> SUFFICES ASSUME NEW u \in Users
               PROVE  HandleDeleteUser(u) \in Bodies
    OBVIOUS
  <2>1. <<DoOn("DeleteUserRow", u)>> \in Bodies
    BY <1>1 DEF StepNames, Sequels
  <2>2. RevokeUser(u) \o PublishRevocations \in Bodies
    BY <1>3, PublishBodies, ConcatBodies
  <2>3. (RevokeUser(u) \o PublishRevocations) \o <<DoOn("DeleteUserRow", u)>> \in Bodies
    BY <2>1, <2>2, ConcatBodies
  <2> QED
    BY <2>3, PublishBodies, ConcatBodies DEF HandleDeleteUser
<1>8. \A k \in Keys : Owner[k] \in Users
  BY OwnerAssumption
<1> QED
  BY <1>4, <1>5, <1>6, <1>7, <1>8 DEF AdminPlans

(* The build's plan is a body. *)
LEMMA BuildBody ==
    BuildAndPublish \in Bodies
<1> DEFINE build1 == <<Do("ReadTenancy"), Do("WriteSnapshot"), Do("Supersede"), Do("SetPruned")>>
<1>1. build1 \in Bodies
  BY DEF Bodies, WellFormed, Sequels, Do, Step, StepNames
<1> QED
  BY <1>1, PublishBodies, ConcatBodies DEF BuildAndPublish

PlansOK ==
    /\ plan \in [Workers -> Seq(Step)]
    /\ \A w \in Workers : WellFormed(plan[w])

(* A worker that starts a body, makes a step or drops one keeps its plan well *)
(* formed.                                                                    *)
LEMMA StartKeepsPlans ==
    ASSUME PlansOK, NEW w \in Workers, NEW body \in Bodies, Start(w, body)
    PROVE  PlansOK'
  BY DEF PlansOK, Start, Bodies

(* Executing the next step of a plan keeps the plans well formed. *)
LEMMA AdvanceKeepsPlans ==
    ASSUME PlansOK, NEW w \in Workers, ~Idle(w), Advance(w)
    PROVE  PlansOK'
<1>1. Tail(plan[w]) \in Seq(Step) /\ WellFormed(Tail(plan[w]))
  BY TailWellFormed DEF PlansOK, Idle
<1> QED
  BY <1>1 DEF PlansOK, Advance

(* So does dropping the rest of one. *)
LEMMA StopKeepsPlans ==
    ASSUME PlansOK, NEW w \in Workers, plan' = [plan EXCEPT ![w] = <<>>]
    PROVE  PlansOK'
<1>1. <<>> \in Seq(Step) /\ WellFormed(<<>>)
  BY DEF WellFormed
<1> QED
  BY <1>1 DEF PlansOK

-----------------------------------------------------------------------------
(* The inductive invariant: whoever holds a set or a list that is finished,  *)
(* worker, file or gateway, holds one that is true to its version, and no    *)
(* version in circulation is ahead of the database's counter.                *)

TrueSet(s) == s.version <= principalVersion /\ DescribesItsVersion(s)
TrueList(l) == l.version <= StampedVersion /\ CarriesRevocations(l)

RegisterOK(w) ==
    /\ set[w].version <= principalVersion
    /\ list[w].version <= StampedVersion
    /\ NextIs(w, "WritePrincipals") => TrueSet(set[w])
    /\ NextIs(w, "WriteList") => TrueList(list[w])

Inv ==
    /\ TypeOK /\ PlansOK
    /\ \A w \in Workers : RegisterOK(w)
    /\ TrueSet(principalFile) /\ TrueSet(principals)
    /\ TrueList(listFile) /\ TrueList(revocations)

(* Nothing published is true to version 0. *)
LEMMA NothingIsTrue ==
    ASSUME DbTypeOK
    PROVE  /\ NoPrincipals \in PrincipalSets /\ TrueSet(NoPrincipals)
           /\ NoRevocations \in RevocationLists /\ TrueList(NoRevocations)
  BY DEF DbTypeOK, NoPrincipals, NoRevocations, PrincipalSets, RevocationLists, TrueSet, TrueList,
         DescribesItsVersion, CarriesRevocations, StampedVersion

(* The invariant holds before anything is published. *)
LEMMA InitInv ==
    ASSUME Init
    PROVE  Inv
<1>1. DbTypeOK
  BY DEF Init, CpInit, DbInit, DbTypeOK
<1>2. PlansOK
  <2>1. <<>> \in Seq(Step) /\ WellFormed(<<>>)
    BY DEF WellFormed
  <2> QED
    BY <2>1 DEF Init, CpInit, PlansOK
<1>3. TypeOK
  <2>1. /\ todo \in [Workers -> SUBSET Keys]
        /\ set \in [Workers -> PrincipalSets]
        /\ list \in [Workers -> RevocationLists]
        /\ build \in [Workers -> [version : Nat, readAt : Nat]]
    BY <1>1, NothingIsTrue DEF Init, CpInit, NoBuild
  <2>2. /\ snapshotFile \in Nat /\ snapshots \in Nat
        /\ rewritten \in SUBSET Artifacts
    BY FirstSnapshotAssumption DEF Init, CpInit, Artifacts
  <2>3. /\ principalFile \in PrincipalSets /\ principals \in PrincipalSets
        /\ listFile \in RevocationLists /\ revocations \in RevocationLists
    BY <1>1, NothingIsTrue DEF Init, CpInit
  <2>4. /\ adminOps \in Nat /\ faults \in Nat /\ serving \in Nat
        /\ phase \in Phases
    BY DEF Init, CpInit, Phases
  <2> QED
    BY <1>1, <1>2, <2>1, <2>2, <2>3, <2>4 DEF TypeOK, CpTypeOK, PlansOK
<1>4. ASSUME NEW w \in Workers
      PROVE  RegisterOK(w)
  <2>1. set[w] = NoPrincipals /\ list[w] = NoRevocations
    BY DEF Init, CpInit
  <2> QED
    BY <1>1, <2>1, NothingIsTrue DEF RegisterOK, TrueSet, TrueList
<1>5. /\ principalFile = NoPrincipals /\ principals = NoPrincipals
      /\ listFile = NoRevocations /\ revocations = NoRevocations
  BY DEF Init, CpInit
<1> QED
  BY <1>1, <1>2, <1>3, <1>4, <1>5, NothingIsTrue DEF Inv

(* What is true stays true under every statement, and the counters only grow. *)
LEMMA TruthLasts ==
    ASSUME DbTypeOK, DbChange
    PROVE  /\ principalVersion <= principalVersion'
           /\ StampedVersion <= StampedVersion'
           /\ \A s \in PrincipalSets : TrueSet(s) => TrueSet(s)'
           /\ \A l \in RevocationLists : TrueList(l) => TrueList(l)'
<1>1. \A s \in PrincipalSets : TrueSet(s) => TrueSet(s)'
  BY SetStaysTrue DEF TrueSet
<1>2. \A l \in RevocationLists : TrueList(l) => TrueList(l)'
  BY ListStaysTrue DEF TrueList
<1>3. principalVersion <= principalVersion'
  <2> DEFINE s == [version |-> principalVersion, keys |-> {}]
  <2>1. s \in PrincipalSets /\ s.version = principalVersion /\ s.keys = {}
    BY DEF DbTypeOK, PrincipalSets
  <2>2. PICK z \in PrincipalSets : z.version = principalVersion /\ z.keys = {}
    BY <2>1
  <2>3. TrueSet(z)
    BY <2>2 DEF TrueSet, DescribesItsVersion, DbTypeOK
  <2> QED
    BY <1>1, <2>2, <2>3 DEF TrueSet
<1>4. StampedVersion <= StampedVersion'
  <2>1. listVersion <= listVersion' /\ listVersion \in Nat /\ listVersion' \in Nat
    BY DbTyped DEF DbChange, DbTypeOK, dbVars, InsertKey, MarkKeyRevoked, UpsertRevocation, SetUserStatus,
           DeleteUserRow, BumpRevocationVersion, BumpPrincipalVersion,
           SupersedeRevocationsBefore, SetRevocationPrunedThrough
  <2> QED
    BY <2>1 DEF StampedVersion
<1> QED
  BY <1>1, <1>2, <1>3, <1>4

(* Versions held in a worker's registers are never ahead of the counters. *)
LEMMA VersionsStayBehind ==
    ASSUME Inv, DbChange, NEW w \in Workers
    PROVE  set[w].version <= principalVersion' /\ list[w].version <= StampedVersion'
<1>1. DbTypeOK /\ DbTypeOK' /\ set[w] \in PrincipalSets /\ list[w] \in RevocationLists
  BY DbTyped DEF Inv, TypeOK, CpTypeOK
<1>2. /\ principalVersion <= principalVersion' /\ set[w].version <= principalVersion
      /\ StampedVersion <= StampedVersion' /\ list[w].version <= StampedVersion
  BY <1>1, TruthLasts DEF Inv, RegisterOK
<1>3. set[w].version \in Nat /\ list[w].version \in Nat
  BY <1>1 DEF PrincipalSets, RevocationLists
<1>4. /\ principalVersion \in Nat /\ principalVersion' \in Nat
      /\ StampedVersion \in Nat /\ StampedVersion' \in Nat
  BY <1>1 DEF DbTypeOK, StampedVersion
<1> QED
  BY <1>2, <1>3, <1>4

(* A worker whose registers and plan stay is as good as before. *)
LEMMA RegisterStays ==
    ASSUME Inv, DbChange, NEW w \in Workers,
           plan'[w] = plan[w], set'[w] = set[w], list'[w] = list[w]
    PROVE  RegisterOK(w)'
<1>1. DbTypeOK /\ DbTypeOK' /\ set[w] \in PrincipalSets /\ list[w] \in RevocationLists
  BY DbTyped DEF Inv, TypeOK, CpTypeOK
<1>2. set[w].version <= principalVersion' /\ list[w].version <= StampedVersion'
  BY VersionsStayBehind
<1>3. PICK s \in PrincipalSets, l \in RevocationLists : s = set[w] /\ l = list[w]
  BY <1>1
<1>4. /\ NextIs(w, "WritePrincipals")' => TrueSet(s)'
      /\ NextIs(w, "WriteList")' => TrueList(l)'
  BY <1>1, <1>3, TruthLasts DEF Inv, RegisterOK, NextIs, Idle
<1>5. /\ NextIs(w, "WritePrincipals")' => TrueSet(set[w])'
      /\ NextIs(w, "WriteList")' => TrueList(list[w])'
  BY <1>3, <1>4 DEF TrueSet, TrueList, DescribesItsVersion, CarriesRevocations
<1> QED
  BY <1>2, <1>5 DEF RegisterOK

-----------------------------------------------------------------------------
(* The workers' steps. *)

(* What a step of worker w preserves, and where the files' contents come from. *)
StepKeeps(w) ==
    /\ DbChange /\ CpTypeOK' /\ PlansOK'
    /\ \A x \in Workers \ {w} : plan'[x] = plan[x] /\ set'[x] = set[x] /\ list'[x] = list[x]
    /\ RegisterOK(w)'
    /\ \/ principalFile' = principalFile
       \/ NextIs(w, "WritePrincipals") /\ principalFile' = set[w]
    /\ \/ listFile' = listFile
       \/ NextIs(w, "WriteList") /\ listFile' = list[w]

(* Where a worker stands after a step: at a sequel only if it was at what that follows. *)
LEMMA AfterStep ==
    ASSUME PlansOK, NEW w \in Workers, ~Idle(w), Advance(w)
    PROVE  /\ PlansOK'
           /\ \A x \in Workers \ {w} : plan'[x] = plan[x]
           /\ NextIs(w, "ReadKeys")' => NextIs(w, "ReadOwners")
           /\ NextIs(w, "WritePrincipals")' => NextIs(w, "ReadKeys")
           /\ NextIs(w, "WriteList")' => NextIs(w, "ReadListEntries")
<1>1. plan \in [Workers -> Seq(Step)] /\ plan[w] \in Seq(Step) /\ WellFormed(plan[w]) /\ plan[w] # <<>>
  BY DEF PlansOK, Idle
<1>2. plan'[w] = Tail(plan[w]) /\ \A x \in Workers \ {w} : plan'[x] = plan[x]
  BY <1>1 DEF Advance
<1>3. ASSUME Tail(plan[w]) # <<>>
      PROVE  Head(Tail(plan[w])) = plan[w][2] /\ Head(plan[w]) = plan[w][1] /\ 1 \in 1..(Len(plan[w]) - 1)
  BY <1>1, <1>3
<1> QED
  BY <1>1, <1>2, <1>3, AdvanceKeepsPlans DEF NextIs, Idle, WellFormed

(* A goroutine that takes up a body holds nothing yet. *)
LEMMA StartKeeps ==
    ASSUME Inv, NEW w \in Workers, NEW body \in Bodies, Start(w, body),
           adminOps' \in Nat, snapshots' \in Nat
    PROVE  StepKeeps(w)
<1>1. DbChange
  BY DEF Start, DbChange
<1>2. PlansOK' /\ \A x \in Workers \ {w} : plan'[x] = plan[x]
  BY StartKeepsPlans DEF Inv, Start, PlansOK
<1>3. CpTypeOK'
  BY <1>1, <1>2, DbTyped DEF Inv, TypeOK, CpTypeOK, PlansOK, Start, fileVars
<1>4. RegisterOK(w)'
  <2>1. plan'[w] = body /\ set' = set /\ list' = list
    BY DEF Start, Inv, PlansOK
  <2>2. ~NextIs(w, "WritePrincipals")' /\ ~NextIs(w, "WriteList")'
    BY <2>1 DEF NextIs, Idle, Bodies, Sequels
  <2> QED
    BY <1>1, <2>1, <2>2, VersionsStayBehind DEF RegisterOK
<1> QED
  BY <1>1, <1>2, <1>3, <1>4 DEF StepKeeps, Start, fileVars

(* Requests, heartbeats and builds start with bodies. *)
LEMMA BeginKeeps ==
    ASSUME Inv, NEW w \in Workers, Begin(w)
    PROVE  StepKeeps(w)
<1>1. adminOps \in Nat /\ snapshots \in Nat
  BY DEF Inv, TypeOK, CpTypeOK
<1>2. CASE ServeAdmin(w)
  <2>1. PICK body \in AdminPlans : Start(w, body)
    BY <1>2 DEF ServeAdmin
  <2> QED
    BY <1>1, <1>2, <2>1, AdminBodies, StartKeeps DEF ServeAdmin
<1>3. CASE RevocationHeartbeat(w)
  BY <1>1, <1>3, PublishBodies, StartKeeps DEF RevocationHeartbeat
<1>4. CASE BoundedPrincipalHeartbeat(w)
  BY <1>1, <1>4, PublishBodies, StartKeeps DEF BoundedPrincipalHeartbeat, PrincipalHeartbeat
<1>5. CASE Rebuild(w)
  BY <1>1, <1>5, BuildBody, StartKeeps DEF Rebuild
<1> QED
  BY <1>2, <1>3, <1>4, <1>5 DEF Begin

(* A step that leaves the registers and the files alone. *)
LEMMA PlainStepKeeps ==
    ASSUME Inv, NEW w \in Workers, DbChange, ~Idle(w), Advance(w),
           ~NextIs(w, "ReadKeys"), ~NextIs(w, "ReadListEntries"),
           todo' \in [Workers -> SUBSET Keys],
           build' \in [Workers -> [version : Nat, readAt : Nat]],
           UNCHANGED <<set, list, fileVars, budgetVars>>
    PROVE  StepKeeps(w)
<1>1. /\ PlansOK' /\ \A x \in Workers \ {w} : plan'[x] = plan[x]
      /\ ~NextIs(w, "WritePrincipals")' /\ ~NextIs(w, "WriteList")'
  BY AfterStep DEF Inv
<1>2. CpTypeOK'
  BY <1>1, DbTyped DEF Inv, TypeOK, CpTypeOK, PlansOK, fileVars, budgetVars
<1>3. RegisterOK(w)'
  BY <1>1, VersionsStayBehind DEF RegisterOK
<1> QED
  BY <1>1, <1>2, <1>3 DEF StepKeeps, fileVars

(* A statement on the tables writes no register and no file. *)
LEMMA DbStepKeeps ==
    ASSUME Inv, NEW w \in Workers, DbStep(w)
    PROVE  StepKeeps(w)
<1>1. build \in [Workers -> [version : Nat, readAt : Nat]] /\ todo \in [Workers -> SUBSET Keys]
  BY DEF Inv, TypeOK, CpTypeOK
<1>2. build' \in [Workers -> [version : Nat, readAt : Nat]]
  BY <1>1 DEF DbStep, NoBuild
<1>3. ~Idle(w) /\ ~NextIs(w, "ReadKeys") /\ ~NextIs(w, "ReadListEntries")
  BY DEF DbStep, NextIs
<1>4. build[w].version \in Nat /\ build[w].readAt \in Nat
  BY <1>1
<1>5. DbChange
  BY <1>4 DEF DbStep, DbChange
<1> QED
  BY <1>1, <1>2, <1>3, <1>5, PlainStepKeeps DEF DbStep

(* RevokeUser's listing fills todo only. *)
LEMMA ListKeysKeeps ==
    ASSUME Inv, NEW w \in Workers, ListKeys(w)
    PROVE  StepKeeps(w)
<1>1. build \in [Workers -> [version : Nat, readAt : Nat]] /\ todo \in [Workers -> SUBSET Keys]
  BY DEF Inv, TypeOK, CpTypeOK
<1>2. todo' \in [Workers -> SUBSET Keys]
  BY <1>1 DEF ListKeys, KeysOf
<1> QED
  BY <1>1, <1>2, PlainStepKeeps DEF ListKeys, NextIs, DbChange

(* An upsert is stamped with the counter, which no list has passed. *)
LEMMA AddRevocationsKeeps ==
    ASSUME Inv, NEW w \in Workers, AddRevocations(w)
    PROVE  StepKeeps(w)
<1>1. build \in [Workers -> [version : Nat, readAt : Nat]] /\ todo \in [Workers -> SUBSET Keys]
  BY DEF Inv, TypeOK, CpTypeOK
<1>2. todo' \in [Workers -> SUBSET Keys]
  BY <1>1 DEF AddRevocations
<1>3. DbChange
  BY <1>1 DEF AddRevocations, DbChange
<1>4. ~Idle(w) /\ ~NextIs(w, "ReadKeys") /\ ~NextIs(w, "ReadListEntries")
      /\ UNCHANGED <<set, list, build, fileVars, budgetVars>>
  BY DEF AddRevocations, NextIs
<1>5. CASE Advance(w)
  BY <1>1, <1>2, <1>3, <1>4, <1>5, PlainStepKeeps
<1>6. CASE UNCHANGED plan
  <2>1. PlansOK'
    BY <1>6 DEF Inv, PlansOK
  <2>2. CpTypeOK'
    BY <1>2, <1>3, <1>4, <2>1, DbTyped DEF Inv, TypeOK, CpTypeOK, PlansOK, fileVars, budgetVars
  <2>3. RegisterOK(w)'
    BY <1>3, <1>4, <1>6, RegisterStays
  <2> QED
    BY <1>3, <1>4, <1>6, <2>1, <2>2, <2>3 DEF StepKeeps, fileVars
<1> QED
  BY <1>5, <1>6 DEF AddRevocations

(* The build's reading of the tables and its writing of the snapshot file. *)
LEMMA BuildStepsKeep ==
    ASSUME Inv, NEW w \in Workers, ReadTenancy(w) \/ WriteSnapshot(w)
    PROVE  StepKeeps(w)
<1>1. /\ build \in [Workers -> [version : Nat, readAt : Nat]] /\ todo \in [Workers -> SUBSET Keys]
      /\ snapshots \in Nat /\ dbNow \in Nat /\ rewritten \in SUBSET Artifacts /\ snapshotFile \in Nat
  BY DEF Inv, TypeOK, CpTypeOK, DbTypeOK
<1>2. CASE ReadTenancy(w)
  <2>1. build' \in [Workers -> [version : Nat, readAt : Nat]]
    BY <1>1, <1>2 DEF ReadTenancy
  <2> QED
    BY <1>1, <1>2, <2>1, PlainStepKeeps DEF ReadTenancy, NextIs, DbChange
<1>3. CASE WriteSnapshot(w)
  <2>1. DbChange /\ ~Idle(w) /\ Advance(w) /\ ~NextIs(w, "ReadKeys") /\ ~NextIs(w, "ReadListEntries")
    BY <1>3 DEF WriteSnapshot, NextIs, DbChange
  <2>2. /\ PlansOK' /\ \A x \in Workers \ {w} : plan'[x] = plan[x]
        /\ ~NextIs(w, "WritePrincipals")' /\ ~NextIs(w, "WriteList")'
    BY <2>1, AfterStep DEF Inv
  <2>3. snapshotFile' \in Nat /\ rewritten' \in SUBSET Artifacts
    BY <1>1, <1>3 DEF WriteSnapshot, Artifacts
  <2>4. CpTypeOK'
    BY <1>3, <2>1, <2>2, <2>3, DbTyped DEF WriteSnapshot, Inv, TypeOK, CpTypeOK, PlansOK, budgetVars
  <2>5. RegisterOK(w)'
    BY <1>3, <2>1, <2>2, VersionsStayBehind DEF RegisterOK, WriteSnapshot
  <2> QED
    BY <1>3, <2>1, <2>2, <2>4, <2>5 DEF StepKeeps, WriteSnapshot
<1> QED
  BY <1>2, <1>3

(* The registers and the files, typed. *)
LEMMA RegistersTyped ==
    ASSUME Inv
    PROVE  /\ set \in [Workers -> PrincipalSets] /\ list \in [Workers -> RevocationLists]
           /\ principalFile \in PrincipalSets /\ listFile \in RevocationLists
           /\ principalVersion \in Nat /\ StampedVersion \in Nat /\ prunedThrough \in Nat
           /\ rewritten \in SUBSET Artifacts
  BY DEF Inv, TypeOK, CpTypeOK, DbTypeOK, StampedVersion

(* A step on one of the two registers that moves on to no write, or to a write *)
(* of what has just become true.                                               *)
LEMMA RegisterStepKeeps ==
    ASSUME Inv, NEW w \in Workers, DbChange, ~Idle(w), Advance(w),
           set' \in [Workers -> PrincipalSets], list' \in [Workers -> RevocationLists],
           \A x \in Workers \ {w} : set'[x] = set[x] /\ list'[x] = list[x],
           set'[w].version <= principalVersion', list'[w].version <= StampedVersion',
           NextIs(w, "ReadKeys") => TrueSet(set[w])',
           NextIs(w, "ReadListEntries") => TrueList(list[w])',
           UNCHANGED <<todo, build, fileVars, budgetVars>>
    PROVE  StepKeeps(w)
<1>1. /\ PlansOK' /\ \A x \in Workers \ {w} : plan'[x] = plan[x]
      /\ NextIs(w, "WritePrincipals")' => NextIs(w, "ReadKeys")
      /\ NextIs(w, "WriteList")' => NextIs(w, "ReadListEntries")
  BY AfterStep DEF Inv
<1>2. CpTypeOK'
  BY <1>1, DbTyped DEF Inv, TypeOK, CpTypeOK, PlansOK, fileVars, budgetVars
<1>3. RegisterOK(w)'
  BY <1>1 DEF RegisterOK
<1> QED
  BY <1>1, <1>2, <1>3 DEF StepKeeps, fileVars

(* The bump hands the worker the counter's new value, and reads follow. *)
LEMMA BumpPrincipalsKeeps ==
    ASSUME Inv, NEW w \in Workers, BumpPrincipals(w)
    PROVE  StepKeeps(w)
<1>1. DbChange /\ ~Idle(w) /\ ~NextIs(w, "ReadKeys") /\ ~NextIs(w, "ReadListEntries")
  BY DEF BumpPrincipals, NextIs, DbChange
<1>2. principalVersion' \in Nat
  BY <1>1, DbTyped DEF Inv, TypeOK, CpTypeOK, DbTypeOK
<1>3. /\ set' \in [Workers -> PrincipalSets]
      /\ set'[w].version = principalVersion'
      /\ \A x \in Workers \ {w} : set'[x] = set[x]
  BY <1>2, RegistersTyped DEF BumpPrincipals, PrincipalSets
<1>4. list' \in [Workers -> RevocationLists] /\ \A x \in Workers : list'[x] = list[x]
  BY RegistersTyped DEF BumpPrincipals
<1>5. list'[w].version <= StampedVersion' /\ set'[w].version <= principalVersion'
  BY <1>1, <1>2, <1>3, <1>4, VersionsStayBehind
<1> QED
  BY <1>1, <1>3, <1>4, <1>5, RegisterStepKeeps DEF BumpPrincipals

(* Once ReadKeys has run, the set holds live keys only, and a live key has not *)
(* retired at any version.                                                     *)
LEMMA ReadPrincipalsKeeps ==
    ASSUME Inv, NEW w \in Workers, ReadOwners(w) \/ ReadKeys(w)
    PROVE  StepKeeps(w)
<1>1. DbChange /\ ~Idle(w) /\ ~NextIs(w, "ReadListEntries")
  BY DEF ReadOwners, ReadKeys, NextIs, DbChange
<1>2. /\ set' \in [Workers -> PrincipalSets]
      /\ set'[w].version = set[w].version
      /\ NextIs(w, "ReadKeys") => set'[w].keys \subseteq LiveKeys
      /\ \A x \in Workers \ {w} : set'[x] = set[x]
  BY RegistersTyped DEF ReadOwners, ReadKeys, PrincipalSets, LiveKeys, KeysOfActiveOwners, NextIs
<1>3. list' \in [Workers -> RevocationLists] /\ \A x \in Workers : list'[x] = list[x]
  BY RegistersTyped DEF ReadOwners, ReadKeys
<1>4. list'[w].version <= StampedVersion' /\ set'[w].version <= principalVersion'
  BY <1>1, <1>2, <1>3, VersionsStayBehind
<1>5. NextIs(w, "ReadKeys") => TrueSet(set[w])'
  <2>1. UNCHANGED dbVars
    BY DEF ReadOwners, ReadKeys
  <2> QED
    BY <1>2, <1>4, <2>1 DEF TrueSet, DescribesItsVersion, Retired, LiveKeys, dbVars
<1> QED
  BY <1>1, <1>2, <1>3, <1>4, <1>5, RegisterStepKeeps DEF ReadOwners, ReadKeys

(* The version is read first, so the entries are no older than it. *)
LEMMA ReadListKeeps ==
    ASSUME Inv, NEW w \in Workers, ReadListState(w) \/ ReadListEntries(w)
    PROVE  StepKeeps(w)
<1>1. DbChange /\ ~Idle(w) /\ ~NextIs(w, "ReadKeys") /\ UNCHANGED dbVars
  BY DEF ReadListState, ReadListEntries, NextIs, DbChange
<1>2. /\ list' \in [Workers -> RevocationLists]
      /\ list'[w].version = list[w].version \/ list'[w].version = StampedVersion
      /\ NextIs(w, "ReadListEntries") => list'[w].ids = ActiveRevocations
      /\ \A x \in Workers \ {w} : list'[x] = list[x]
  BY RegistersTyped DEF ReadListState, ReadListEntries, RevocationLists, ActiveRevocations, NextIs
<1>3. set' \in [Workers -> PrincipalSets] /\ \A x \in Workers : set'[x] = set[x]
  BY RegistersTyped DEF ReadListState, ReadListEntries
<1>4. StampedVersion' = StampedVersion
  BY <1>1 DEF StampedVersion, dbVars
<1>5. list'[w].version <= StampedVersion' /\ set'[w].version <= principalVersion'
  BY <1>1, <1>2, <1>3, <1>4, VersionsStayBehind, RegistersTyped
<1>6. NextIs(w, "ReadListEntries") => TrueList(list[w])'
  BY <1>1, <1>2, <1>5 DEF TrueList, CarriesRevocations, ActiveRevocations, dbVars
<1> QED
  BY <1>1, <1>2, <1>3, <1>5, <1>6, RegisterStepKeeps DEF ReadListState, ReadListEntries

(* What is written is what the worker held, and that was true. *)
LEMMA WritePrincipalsKeeps ==
    ASSUME Inv, NEW w \in Workers, WritePrincipals(w)
    PROVE  StepKeeps(w)
<1>1. DbChange /\ ~Idle(w) /\ ~NextIs(w, "ReadKeys") /\ ~NextIs(w, "ReadListEntries") /\ Advance(w)
      /\ UNCHANGED <<dbVars, todo, list, build, snapshotFile, listFile, budgetVars>>
  BY DEF WritePrincipals, NextIs, DbChange
<1>2. /\ PlansOK' /\ \A x \in Workers \ {w} : plan'[x] = plan[x]
      /\ ~NextIs(w, "WritePrincipals")' /\ ~NextIs(w, "WriteList")'
  BY <1>1, AfterStep DEF Inv
<1>3. /\ set' \in [Workers -> PrincipalSets] /\ set'[w] = NoPrincipals
      /\ \A x \in Workers \ {w} : set'[x] = set[x]
      /\ principalFile' \in PrincipalSets /\ rewritten' \in SUBSET Artifacts
  BY RegistersTyped DEF WritePrincipals, PrincipalSets, NoPrincipals, Artifacts
<1>4. CpTypeOK'
  BY <1>1, <1>2, <1>3, DbTyped DEF Inv, TypeOK, CpTypeOK, PlansOK, budgetVars
<1>5. principalVersion' \in Nat
  BY <1>4 DEF CpTypeOK, DbTypeOK
<1>6. RegisterOK(w)'
  BY <1>1, <1>2, <1>3, <1>5, VersionsStayBehind DEF RegisterOK, NoPrincipals
<1> QED
  BY <1>1, <1>2, <1>3, <1>4, <1>6 DEF StepKeeps, WritePrincipals

(* The same for the list. *)
LEMMA WriteListKeeps ==
    ASSUME Inv, NEW w \in Workers, WriteList(w)
    PROVE  StepKeeps(w)
<1>1. DbChange /\ ~Idle(w) /\ ~NextIs(w, "ReadKeys") /\ ~NextIs(w, "ReadListEntries") /\ Advance(w)
      /\ UNCHANGED <<dbVars, todo, set, build, snapshotFile, principalFile, budgetVars>>
  BY DEF WriteList, NextIs, DbChange
<1>2. /\ PlansOK' /\ \A x \in Workers \ {w} : plan'[x] = plan[x]
      /\ ~NextIs(w, "WritePrincipals")' /\ ~NextIs(w, "WriteList")'
  BY <1>1, AfterStep DEF Inv
<1>3. /\ list' \in [Workers -> RevocationLists] /\ list'[w] = NoRevocations
      /\ \A x \in Workers \ {w} : list'[x] = list[x]
      /\ listFile' \in RevocationLists /\ rewritten' \in SUBSET Artifacts
  BY RegistersTyped DEF WriteList, RevocationLists, NoRevocations, Artifacts
<1>4. CpTypeOK'
  BY <1>1, <1>2, <1>3, DbTyped DEF Inv, TypeOK, CpTypeOK, PlansOK, budgetVars
<1>5. StampedVersion' \in Nat
  BY <1>4 DEF CpTypeOK, DbTypeOK, StampedVersion
<1>6. RegisterOK(w)'
  BY <1>1, <1>2, <1>3, <1>5, VersionsStayBehind DEF RegisterOK, NoRevocations
<1> QED
  BY <1>1, <1>2, <1>3, <1>4, <1>6 DEF StepKeeps, WriteList

(* A worker that stops, whatever it lets go of. *)
LEMMA StopKeeps ==
    ASSUME Inv, NEW w \in Workers, plan' = [plan EXCEPT ![w] = <<>>],
           todo' \in [Workers -> SUBSET Keys],
           set' = set \/ set' = [set EXCEPT ![w] = NoPrincipals],
           list' = list \/ list' = [list EXCEPT ![w] = NoRevocations],
           build' \in [Workers -> [version : Nat, readAt : Nat]],
           faults' \in Nat,
           UNCHANGED <<dbVars, fileVars, adminOps, snapshots>>
    PROVE  StepKeeps(w)
<1>1. DbChange
  BY DEF DbChange
<1>2. PlansOK' /\ plan'[w] = <<>> /\ \A x \in Workers \ {w} : plan'[x] = plan[x]
  BY StopKeepsPlans DEF Inv, PlansOK
<1>3. /\ set' \in [Workers -> PrincipalSets] /\ list' \in [Workers -> RevocationLists]
      /\ set'[w] = set[w] \/ set'[w] = NoPrincipals
      /\ list'[w] = list[w] \/ list'[w] = NoRevocations
      /\ \A x \in Workers \ {w} : set'[x] = set[x] /\ list'[x] = list[x]
  <2>1. NoPrincipals \in PrincipalSets /\ NoRevocations \in RevocationLists
    BY DEF PrincipalSets, RevocationLists, NoPrincipals, NoRevocations
  <2>2. /\ set' \in [Workers -> PrincipalSets]
        /\ set'[w] = set[w] \/ set'[w] = NoPrincipals
        /\ \A x \in Workers \ {w} : set'[x] = set[x]
    BY <2>1, RegistersTyped
  <2>3. /\ list' \in [Workers -> RevocationLists]
        /\ list'[w] = list[w] \/ list'[w] = NoRevocations
        /\ \A x \in Workers \ {w} : list'[x] = list[x]
    BY <2>1, RegistersTyped
  <2> QED
    BY <2>2, <2>3
<1>4. CpTypeOK'
  BY <1>1, <1>2, <1>3, DbTyped DEF Inv, TypeOK, CpTypeOK, PlansOK, fileVars
<1>5. principalVersion' \in Nat /\ StampedVersion' \in Nat
  BY <1>4 DEF CpTypeOK, DbTypeOK, StampedVersion
<1>6. RegisterOK(w)'
  <2>1. set'[w].version <= principalVersion' /\ list'[w].version <= StampedVersion'
    BY <1>1, <1>3, <1>5, VersionsStayBehind DEF NoPrincipals, NoRevocations
  <2> QED
    BY <1>2, <2>1 DEF RegisterOK, NextIs, Idle
<1> QED
  BY <1>1, <1>2, <1>3, <1>4, <1>6 DEF StepKeeps, fileVars

(* An error return, a build with nothing new and a crash stop a worker. *)
LEMMA EarlyEndsKeep ==
    ASSUME Inv, NEW w \in Workers, BuildUnchanged(w) \/ RowMissing(w) \/ Abandon(w)
    PROVE  StepKeeps(w)
<1>1. /\ build \in [Workers -> [version : Nat, readAt : Nat]] /\ todo \in [Workers -> SUBSET Keys]
      /\ faults \in Nat
  BY DEF Inv, TypeOK, CpTypeOK
<1>2. /\ build' \in [Workers -> [version : Nat, readAt : Nat]] /\ todo' \in [Workers -> SUBSET Keys]
      /\ faults' \in Nat
  <2>1. build' = build \/ build' = [build EXCEPT ![w] = NoBuild]
    BY DEF BuildUnchanged, RowMissing, Abandon
  <2>2. todo' = todo \/ todo' = [todo EXCEPT ![w] = {}]
    BY DEF BuildUnchanged, RowMissing, Abandon
  <2>3. faults' = faults \/ faults' = faults + 1
    BY DEF BuildUnchanged, RowMissing, Abandon, budgetVars
  <2> QED
    BY <1>1, <2>1, <2>2, <2>3 DEF NoBuild
<1> QED
  BY <1>2, StopKeeps DEF BuildUnchanged, RowMissing, Abandon, budgetVars

(* A publish that fails forgets its registers; what is left starts with no write, *)
(* or writes what was just forgotten.                                            *)
LEMMA PublishFailsKeeps ==
    ASSUME Inv, NEW w \in Workers, PublishFails(w)
    PROVE  StepKeeps(w)
<1>1. DbChange
  BY DEF DbChange, PublishFails
<1>2. PlansOK' /\ \A x \in Workers \ {w} : plan'[x] = plan[x]
  <2>1. PICK n \in 1..Len(plan[w]) : plan' = [plan EXCEPT ![w] = SubSeq(@, n + 1, Len(@))]
    BY DEF PublishFails
  <2>2. plan \in [Workers -> Seq(Step)] /\ plan[w] \in Seq(Step) /\ WellFormed(plan[w])
    BY DEF Inv, PlansOK
  <2>3. /\ SubSeq(plan[w], n + 1, Len(plan[w])) \in Seq(Step)
        /\ WellFormed(SubSeq(plan[w], n + 1, Len(plan[w])))
    BY <2>2, SuffixWellFormed
  <2> QED
    BY <2>1, <2>2, <2>3 DEF Inv, PlansOK
<1>3. /\ set' \in [Workers -> PrincipalSets] /\ list' \in [Workers -> RevocationLists]
      /\ set'[w] = NoPrincipals /\ list'[w] = NoRevocations
      /\ \A x \in Workers \ {w} : set'[x] = set[x] /\ list'[x] = list[x]
  BY RegistersTyped DEF PublishFails, PrincipalSets, RevocationLists, NoPrincipals, NoRevocations
<1>4. CpTypeOK'
  BY <1>1, <1>2, <1>3, DbTyped DEF PublishFails, Inv, TypeOK, CpTypeOK, PlansOK, fileVars
<1>5. RegisterOK(w)'
  BY <1>3, <1>4
     DEF CpTypeOK, DbTypeOK, RegisterOK, TrueSet, TrueList, DescribesItsVersion, CarriesRevocations,
         StampedVersion, NoPrincipals, NoRevocations
<1> QED
  BY <1>1, <1>2, <1>3, <1>4, <1>5 DEF StepKeeps, PublishFails, fileVars

(* Every step of a worker. *)
LEMMA WorkerKeeps ==
    ASSUME Inv, NEW w \in Workers, Begin(w) \/ Work(w) \/ PublishFails(w) \/ Abandon(w)
    PROVE  StepKeeps(w)
  BY BeginKeeps, DbStepKeeps, ListKeysKeeps, AddRevocationsKeeps, BumpPrincipalsKeeps,
     ReadPrincipalsKeeps, ReadListKeeps, WritePrincipalsKeeps, WriteListKeeps, BuildStepsKeep,
     EarlyEndsKeep, PublishFailsKeeps
     DEF Work

-----------------------------------------------------------------------------
(* The inductive step. *)

(* Every step of the control plane preserves the invariant. *)
LEMMA ControlPlaneStep ==
    ASSUME Inv, ControlPlane
    PROVE  Inv'
<1>1. PICK w \in Workers : StepKeeps(w)
  BY WorkerKeeps DEF ControlPlane
<1>2. TypeOK'
  BY <1>1 DEF StepKeeps, ControlPlane, Inv, TypeOK, PrincipalSets, RevocationLists
<1>3. \A x \in Workers : RegisterOK(x)'
  BY <1>1, RegisterStays DEF StepKeeps
<1>4. /\ \A s \in PrincipalSets : TrueSet(s) => TrueSet(s)'
      /\ \A l \in RevocationLists : TrueList(l) => TrueList(l)'
  BY <1>1, TruthLasts DEF StepKeeps, Inv, TypeOK, CpTypeOK
<1>5. TrueSet(principalFile)'
  <2>1. TrueSet(principalFile) /\ (NextIs(w, "WritePrincipals") => TrueSet(set[w]))
    BY DEF Inv, RegisterOK
  <2>2. PICK s \in PrincipalSets : s = principalFile' /\ TrueSet(s)
    BY <1>1, <2>1, RegistersTyped DEF StepKeeps
  <2> QED
    BY <1>4, <2>2 DEF TrueSet, DescribesItsVersion
<1>6. TrueList(listFile)'
  <2>1. TrueList(listFile) /\ (NextIs(w, "WriteList") => TrueList(list[w]))
    BY DEF Inv, RegisterOK
  <2>2. PICK l \in RevocationLists : l = listFile' /\ TrueList(l)
    BY <1>1, <2>1, RegistersTyped DEF StepKeeps
  <2> QED
    BY <1>4, <2>2 DEF TrueList, CarriesRevocations
<1>7. TrueSet(principals)' /\ TrueList(revocations)'
  <2>1. PICK s \in PrincipalSets : s = principals' /\ TrueSet(s)
    BY DEF ControlPlane, Inv, TypeOK
  <2>2. PICK l \in RevocationLists : l = revocations' /\ TrueList(l)
    BY DEF ControlPlane, Inv, TypeOK
  <2> QED
    BY <1>4, <2>1, <2>2 DEF TrueSet, DescribesItsVersion, TrueList, CarriesRevocations
<1> QED
  BY <1>1, <1>2, <1>3, <1>5, <1>6, <1>7 DEF Inv, StepKeeps

(* What the gateway may hold after one of its own steps. *)
LEMMA GatewayHolds ==
    ASSUME Inv, Gateway
    PROVE  /\ phase' \in Phases /\ faults' \in Nat
           /\ rewritten' \in SUBSET Artifacts
           /\ serving' \in {serving, snapshotFile, 0}
           /\ principals' \in {principals, principalFile, NoPrincipals}
           /\ revocations' \in {revocations, listFile, NoRevocations}
<1>1. phase \in Phases /\ faults \in Nat /\ rewritten \in SUBSET Artifacts
  BY DEF Inv, TypeOK, CpTypeOK
<1>2. CASE LoadSnapshot /\ UNCHANGED faults
  BY <1>1, <1>2 DEF LoadSnapshot, Activate, Saw, Phases
<1>3. CASE LoadPrincipals /\ UNCHANGED faults
  BY <1>1, <1>3 DEF LoadPrincipals, ApplyPrincipals, Saw, Phases
<1>4. CASE LoadRevocations /\ UNCHANGED faults
  BY <1>1, <1>4 DEF LoadRevocations, ApplyRevocations, Acceptable, Saw, Phases
<1>5. CASE PollSnapshot /\ UNCHANGED faults
  BY <1>1, <1>5 DEF PollSnapshot, Activate, Saw, Phases
<1>6. CASE PollPrincipals /\ UNCHANGED faults
  BY <1>1, <1>6 DEF PollPrincipals, ApplyPrincipals, Saw, Phases
<1>7. CASE PollRevocations /\ UNCHANGED faults
  BY <1>1, <1>7 DEF PollRevocations, ApplyRevocations, Acceptable, Saw, Phases
<1>8. CASE ReadFails
  BY <1>1, <1>8 DEF ReadFails, Saw, Phases
<1>9. CASE Restart
  <2>1. rewritten' \in SUBSET Artifacts
    BY <1>9 DEF Restart, Unseen
  <2>2. faults' \in Nat /\ phase' \in Phases
    <3>1. faults' \in Nat
      BY <1>1, <1>9 DEF Restart, Unseen
    <3>2. phase' \in Phases
      BY <1>9 DEF Restart, Unseen, Phases
    <3> QED
      BY <3>1, <3>2
  <2> QED
    BY <1>9, <2>1, <2>2 DEF Restart, Unseen
<1> QED
  BY <1>2, <1>3, <1>4, <1>5, <1>6, <1>7, <1>8, <1>9 DEF Gateway, Load, Poll

(* Every step of the gateway preserves the invariant. *)
LEMMA GatewayStep ==
    ASSUME Inv, Gateway
    PROVE  Inv'
<1>1. UNCHANGED <<dbVars, workerVars, snapshotFile, principalFile, listFile, adminOps, snapshots>>
  BY DEF Gateway
<1>2. DbChange
  BY <1>1 DEF DbChange
<1>3. /\ TrueSet(NoPrincipals) /\ NoPrincipals \in PrincipalSets
      /\ TrueList(NoRevocations) /\ NoRevocations \in RevocationLists
      /\ DbTypeOK
  BY NothingIsTrue DEF Inv, TypeOK, CpTypeOK
<1>4. CpTypeOK' /\ PlansOK'
  BY <1>1, <1>2, DbTyped, GatewayHolds DEF Inv, TypeOK, CpTypeOK, PlansOK, workerVars
<1>5. TypeOK'
  <2>1. /\ serving \in Nat /\ snapshotFile \in Nat
        /\ principals \in PrincipalSets /\ principalFile \in PrincipalSets
        /\ revocations \in RevocationLists /\ listFile \in RevocationLists
    BY DEF Inv, TypeOK, CpTypeOK
  <2>2. serving' \in Nat /\ principals' \in PrincipalSets /\ revocations' \in RevocationLists
    BY <1>3, <2>1, GatewayHolds
  <2> QED
    BY <1>4, <2>2, GatewayHolds DEF TypeOK
<1>6. \A x \in Workers : RegisterOK(x)'
  BY <1>1, <1>2, RegisterStays DEF workerVars
<1>7. /\ \A s \in PrincipalSets : TrueSet(s) => TrueSet(s)'
      /\ \A l \in RevocationLists : TrueList(l) => TrueList(l)'
  BY <1>2, <1>3, TruthLasts
<1>8. TrueSet(principalFile)' /\ TrueSet(principals)'
  <2>1. PICK s \in PrincipalSets, z \in PrincipalSets :
          s = principalFile' /\ z = principals' /\ TrueSet(s) /\ TrueSet(z)
    BY <1>1, <1>3, <1>5, GatewayHolds DEF Inv, TypeOK, CpTypeOK
  <2> QED
    BY <1>7, <2>1 DEF TrueSet, DescribesItsVersion
<1>9. TrueList(listFile)' /\ TrueList(revocations)'
  <2>1. PICK l \in RevocationLists, z \in RevocationLists :
          l = listFile' /\ z = revocations' /\ TrueList(l) /\ TrueList(z)
    BY <1>1, <1>3, <1>5, GatewayHolds DEF Inv, TypeOK, CpTypeOK
  <2> QED
    BY <1>7, <2>1 DEF TrueList, CarriesRevocations
<1> QED
  BY <1>4, <1>5, <1>6, <1>8, <1>9 DEF Inv

(* A step that changes nothing preserves the invariant. *)
LEMMA Stutter ==
    ASSUME Inv, UNCHANGED vars
    PROVE  Inv'
<1>1. UNCHANGED <<cpVars, dpVars>> /\ UNCHANGED <<dbVars, workerVars, fileVars, budgetVars>>
  BY DEF vars, cpVars
<1>2. PlansOK'
  BY <1>1 DEF Inv, PlansOK, workerVars
<1>3. TypeOK'
  BY <1>1 DEF Inv, TypeOK, CpTypeOK, DbTypeOK, dbVars, workerVars, fileVars, budgetVars, dpVars
<1>4. \A x \in Workers : RegisterOK(x)'
  <2>1. DbChange /\ UNCHANGED <<plan, set, list>>
    BY <1>1 DEF DbChange, workerVars
  <2> QED
    BY <2>1, RegisterStays
<1>5. /\ TrueSet(principalFile)' /\ TrueSet(principals)'
      /\ TrueList(listFile)' /\ TrueList(revocations)'
  BY <1>1 DEF Inv, TrueSet, TrueList, DescribesItsVersion, CarriesRevocations, Retired,
              StampedVersion, dbVars, fileVars, dpVars
<1> QED
  BY <1>2, <1>3, <1>4, <1>5 DEF Inv

(* The invariant holds in every reachable state. *)
LEMMA InvHolds ==
    Spec => []Inv
<1>1. Init => Inv
  BY InitInv
<1>2. Inv /\ [Next]_vars => Inv'
  BY ControlPlaneStep, GatewayStep, Stutter DEF Next
<1> QED
  BY <1>1, <1>2, PTL DEF Spec

-----------------------------------------------------------------------------
(* Theorems. *)

(* Every table, register, file and held artifact keeps its type, the versions  *)
(* RevocationList and PublishPrincipalSet stamp included.                      *)
THEOREM TypeCorrect == Spec => []TypeOK
<1>1. Inv => TypeOK
  BY DEF Inv
<1> QED
  BY <1>1, InvHolds, PTL

(* For any number of handlers, replicas, keys and users, in any interleaving  *)
(* and with any failures: whatever a publisher is about to write, whatever is *)
(* on disk and whatever the gateway holds is as recent as its version says    *)
(* (PublishPrincipalSet bumps before it reads, publishRevocations reads the   *)
(* version before the entries).                                               *)
THEOREM ArtifactsAreTrue == Spec => []ArtifactsDescribeTheirVersions
<1>1. Inv => ArtifactsDescribeTheirVersions
  BY DEF Inv, RegisterOK, TrueSet, TrueList, ArtifactsDescribeTheirVersions
<1> QED
  BY <1>1, InvHolds, PTL

-----------------------------------------------------------------------------
(* Withdrawals. *)

(* No principal set in use, on disk or about to be written has the key, and no *)
(* reader of the owners would still find it live.                              *)
Withdrawn(k) ==
    /\ k \notin principalFile.keys /\ k \notin principals.keys
    /\ \A w \in Workers :
         /\ k \notin set[w].keys \cap LiveKeys
         /\ NextIs(w, "WritePrincipals") => k \notin set[w].keys

(* A key that exists does not come to life again. *)
LEMMA LiveOnlyOnce ==
    ASSUME DbTypeOK, DbChange, NEW k \in Keys, keyRow[k] # "unminted", k \in LiveKeys'
    PROVE  k \in LiveKeys
<1> USE DEF DbTypeOK, LiveKeys
<1>1. CASE \E x \in Keys : InsertKey(x)
  BY <1>1 DEF InsertKey, Mintable
<1>2. CASE \E x \in Keys : MarkKeyRevoked(x)
  BY <1>2 DEF MarkKeyRevoked, HasRow
<1>3. CASE \E u \in Users : DeleteUserRow(u)
  BY <1>3 DEF DeleteUserRow
<1>4. CASE UNCHANGED keyRow
  BY <1>4
<1> QED
  BY <1>1, <1>2, <1>3, <1>4 DEF DbChange, UpsertRevocation, SetUserStatus, BumpRevocationVersion,
     BumpPrincipalVersion, SupersedeRevocationsBefore, SetRevocationPrunedThrough, dbVars

(* What a step of worker w puts into its principal set, and what of it is left *)
(* when it is about to be written.                                             *)
Narrows(w) ==
    /\ \/ set'[w].keys \subseteq set[w].keys
       \/ set'[w].keys \subseteq KeysOfActiveOwners /\ UNCHANGED dbVars
    /\ NextIs(w, "WritePrincipals")' => set'[w].keys \subseteq set[w].keys \cap LiveKeys

(* Only the read of the owners adds to a set, and what was read of the keys is *)
(* all that is written.                                                        *)
LEMMA StepNarrows ==
    ASSUME Inv, NEW w \in Workers, Begin(w) \/ Work(w) \/ PublishFails(w) \/ Abandon(w)
    PROVE  Narrows(w)
<1>1. set \in [Workers -> PrincipalSets] /\ plan \in [Workers -> Seq(Step)] /\ PlansOK
  BY DEF Inv, TypeOK, CpTypeOK
<1>2. CASE Begin(w)
  <2>1. PICK body \in Bodies : Start(w, body)
    BY <1>2, AdminBodies, PublishBodies, BuildBody
       DEF Begin, ServeAdmin, RevocationHeartbeat, BoundedPrincipalHeartbeat, PrincipalHeartbeat, Rebuild
  <2>2. plan'[w] = body /\ set' = set
    BY <1>1, <2>1 DEF Start
  <2>3. ~NextIs(w, "WritePrincipals")'
    BY <2>2 DEF NextIs, Idle, Bodies, Sequels
  <2> QED
    BY <2>2, <2>3 DEF Narrows
<1>3. CASE ReadKeys(w)
  BY <1>1, <1>3 DEF ReadKeys, Narrows, PrincipalSets
<1>4. CASE ReadOwners(w)
  <2>1. ~Idle(w) /\ Advance(w) /\ ~NextIs(w, "ReadKeys") /\ UNCHANGED dbVars
    BY <1>4 DEF ReadOwners, NextIs
  <2>2. ~NextIs(w, "WritePrincipals")'
    BY <1>1, <2>1, AfterStep
  <2>3. set'[w].keys = KeysOfActiveOwners
    BY <1>1, <1>4 DEF ReadOwners, PrincipalSets
  <2> QED
    BY <2>1, <2>2, <2>3 DEF Narrows
<1>5. ASSUME ~Idle(w), Advance(w), ~NextIs(w, "ReadKeys"), set'[w].keys \subseteq set[w].keys
      PROVE  Narrows(w)
  <2>1. ~NextIs(w, "WritePrincipals")'
    BY <1>1, <1>5, AfterStep
  <2> QED
    BY <1>5, <2>1 DEF Narrows
<1>6. CASE DbStep(w) \/ ListKeys(w) \/ ReadListState(w) \/ ReadListEntries(w) \/ WriteList(w)
           \/ ReadTenancy(w) \/ WriteSnapshot(w)
  BY <1>5, <1>6 DEF DbStep, ListKeys, ReadListState, ReadListEntries, WriteList, ReadTenancy,
                    WriteSnapshot, NextIs
<1>7. CASE BumpPrincipals(w)
  <2>1. ~Idle(w) /\ Advance(w) /\ ~NextIs(w, "ReadKeys")
    BY <1>7 DEF BumpPrincipals, NextIs
  <2>2. set'[w].keys = set[w].keys
    BY <1>1, <1>7 DEF BumpPrincipals, PrincipalSets
  <2> QED
    BY <1>5, <2>1, <2>2
<1>8. CASE WritePrincipals(w)
  <2>1. ~Idle(w) /\ Advance(w) /\ ~NextIs(w, "ReadKeys")
    BY <1>8 DEF WritePrincipals, NextIs
  <2>2. set'[w].keys = {}
    BY <1>1, <1>8 DEF WritePrincipals, NoPrincipals
  <2> QED
    BY <1>5, <2>1, <2>2
<1>9. CASE AddRevocations(w)
  <2>1. ~Idle(w) /\ ~NextIs(w, "ReadKeys") /\ ~NextIs(w, "WritePrincipals") /\ set' = set
    BY <1>9 DEF AddRevocations, NextIs
  <2>2. CASE Advance(w)
    BY <1>5, <2>1, <2>2
  <2>3. CASE plan' = plan
    BY <2>1, <2>3 DEF Narrows, NextIs, Idle
  <2> QED
    BY <1>9, <2>2, <2>3 DEF AddRevocations
<1>10. CASE BuildUnchanged(w) \/ RowMissing(w)
  <2>1. plan'[w] = <<>> /\ set' = set
    BY <1>1, <1>10 DEF BuildUnchanged, RowMissing
  <2> QED
    BY <2>1 DEF Narrows, NextIs, Idle
<1>11. CASE PublishFails(w) \/ Abandon(w)
  <2>1. set'[w].keys = {}
    BY <1>1, <1>11 DEF PublishFails, Abandon, NoPrincipals
  <2> QED
    BY <2>1 DEF Narrows
<1> QED
  BY <1>2, <1>3, <1>4, <1>6, <1>7, <1>8, <1>9, <1>10, <1>11 DEF Work

LEMMA StaysWithdrawn ==
    ASSUME Inv, [Next]_vars, NEW k \in Keys, keyRow[k] # "unminted", Withdrawn(k),
           k \notin PublishableKeys'
    PROVE  Withdrawn(k)'
<1>1. CASE ControlPlane
  <2>1. PICK w \in Workers : StepKeeps(w) /\ Narrows(w)
    BY <1>1, WorkerKeeps, StepNarrows DEF ControlPlane
  <2>2. k \in LiveKeys' => k \in LiveKeys
    BY <2>1, LiveOnlyOnce DEF StepKeeps, Inv, TypeOK, CpTypeOK
  <2>3. k \notin principalFile'.keys /\ k \notin principals'.keys
    BY <1>1, <2>1 DEF StepKeeps, Withdrawn, ControlPlane
  <2>4. ASSUME NEW x \in Workers \ {w}
        PROVE  /\ k \notin set'[x].keys \cap LiveKeys'
               /\ NextIs(x, "WritePrincipals")' => k \notin set'[x].keys
    <3>1. plan'[x] = plan[x] /\ set'[x] = set[x]
      BY <2>1, <2>4 DEF StepKeeps
    <3> QED
      BY <2>2, <3>1 DEF Withdrawn, NextIs, Idle
  <2>5. k \notin set'[w].keys \cap LiveKeys'
    <3>1. CASE set'[w].keys \subseteq set[w].keys
      BY <2>2, <3>1 DEF Withdrawn
    <3>2. CASE set'[w].keys \subseteq KeysOfActiveOwners /\ UNCHANGED dbVars
      BY <3>2 DEF PublishableKeys, LiveKeys, KeysOfActiveOwners, dbVars
    <3> QED
      BY <2>1, <3>1, <3>2 DEF Narrows
  <2>6. NextIs(w, "WritePrincipals")' => k \notin set'[w].keys
    BY <2>1 DEF Narrows, Withdrawn
  <2> QED
    BY <2>3, <2>4, <2>5, <2>6 DEF Withdrawn
<1>2. CASE Gateway
  <2>1. UNCHANGED <<dbVars, workerVars, principalFile>>
    BY <1>2 DEF Gateway
  <2>2. k \notin principals'.keys
    BY <1>2, GatewayHolds DEF Withdrawn, NoPrincipals
  <2> QED
    BY <2>1, <2>2 DEF Withdrawn, NextIs, Idle, LiveKeys, dbVars, workerVars
<1>3. CASE UNCHANGED vars
  BY <1>3 DEF vars, cpVars, dbVars, workerVars, fileVars, dpVars, Withdrawn, NextIs, Idle, LiveKeys
<1> QED
  BY <1>1, <1>2, <1>3 DEF Next

(* A withdrawal lasts: once no set in use, on disk or under way has a key that *)
(* was minted, no request, heartbeat, failure or restart brings it back to a   *)
(* gateway, until the store would publish it again, as when its owner is       *)
(* enabled: the safety half of WithdrawnEventuallyRefused.                     *)
THEOREM WithdrawalsLast ==
    Spec => [][\A k \in Keys :
                 keyRow[k] # "unminted" /\ Withdrawn(k) /\ k \notin PublishableKeys'
                   => Withdrawn(k)']_vars
<1>1. Inv /\ [Next]_vars =>
        [\A k \in Keys : keyRow[k] # "unminted" /\ Withdrawn(k) /\ k \notin PublishableKeys'
                           => Withdrawn(k)']_vars
  BY StaysWithdrawn
<1> QED
  BY <1>1, InvHolds, PTL DEF Spec

-----------------------------------------------------------------------------
(* Publications. *)

(* A worker's registers let the key in wherever they are what will be written. *)
Carries(w, k) ==
    /\ NextIs(w, "ReadKeys") \/ NextIs(w, "WritePrincipals") => k \in set[w].keys
    /\ NextIs(w, "WriteList") => k \notin list[w].ids

(* The gateway and both files let the key in, and so does whatever is under way. *)
Delivered(k) ==
    /\ phase = "up"
    /\ k \in principalFile.keys \cap principals.keys
    /\ k \notin listFile.ids \cup revocations.ids
    /\ \A w \in Workers : Carries(w, k)

(* A publish that fails is dropped whole: what is left of the plan starts with *)
(* none of the steps that rely on an earlier one.                              *)
LEMMA FailureSkipsToAStart ==
    ASSUME PlansOK, NEW w \in Workers, PublishFails(w)
    PROVE  \A name \in Sequels : ~NextIs(w, name)'
<1> SUFFICES ASSUME NEW name \in Sequels, NextIs(w, name)'
             PROVE  FALSE
  OBVIOUS
<1> DEFINE p == plan[w]
<1>1. plan \in [Workers -> Seq(Step)] /\ p \in Seq(Step) /\ WellFormed(p)
  BY DEF PlansOK
<1>2. PICK steps \in {PrincipalSteps, ListSteps}, n \in 1..Len(p) :
        /\ \A i \in 1..Len(p) : /\ i <= n => p[i].op \in steps
                                /\ i = n + 1 => p[i].op \notin steps
        /\ plan' = [plan EXCEPT ![w] = SubSeq(@, n + 1, Len(@))]
  BY DEF PublishFails
<1>3. plan'[w] = SubSeq(p, n + 1, Len(p))
  BY <1>1, <1>2
<1>4. plan'[w] # <<>> /\ Head(plan'[w]).op = name
  BY DEF NextIs, Idle
<1>5. n + 1 \in 1..Len(p) /\ Head(plan'[w]) = p[n + 1]
  BY <1>1, <1>3, <1>4
<1>6. p[n].op \in steps /\ p[n + 1].op \notin steps /\ p[n + 1].op = name
  BY <1>2, <1>4, <1>5
<1>7. n \in 1..(Len(p) - 1)
  BY <1>1, <1>5
<1> QED
  BY <1>1, <1>6, <1>7 DEF WellFormed, Sequels, PrincipalSteps, ListSteps

(* A read of a table that has the key finds it, and one of the entries that do *)
(* not name it does not.                                                       *)
LEMMA StepCarries ==
    ASSUME Inv, NEW w \in Workers, Begin(w) \/ Work(w) \/ PublishFails(w) \/ Abandon(w),
           NEW k \in Keys, k \in PublishableKeys, revokedAt[k] = 0, Carries(w, k)
    PROVE  Carries(w, k)'
<1>1. /\ set \in [Workers -> PrincipalSets] /\ list \in [Workers -> RevocationLists]
      /\ plan \in [Workers -> Seq(Step)] /\ PlansOK
  BY DEF Inv, TypeOK, CpTypeOK
<1>2. ASSUME \A name \in Sequels : ~NextIs(w, name)'
      PROVE  Carries(w, k)'
  BY <1>2 DEF Carries, Sequels
<1>3. ASSUME plan'[w] = <<>>
      PROVE  Carries(w, k)'
  BY <1>3 DEF Carries, NextIs, Idle
<1>4. CASE Begin(w)
  <2>1. PICK body \in Bodies : Start(w, body)
    BY <1>4, AdminBodies, PublishBodies, BuildBody
       DEF Begin, ServeAdmin, RevocationHeartbeat, BoundedPrincipalHeartbeat, PrincipalHeartbeat, Rebuild
  <2>2. plan'[w] = body
    BY <1>1, <2>1 DEF Start
  <2> QED
    BY <1>2, <2>2 DEF NextIs, Idle, Bodies
<1>5. CASE ReadOwners(w)
  <2>1. ~Idle(w) /\ Advance(w) /\ ~NextIs(w, "ReadKeys") /\ ~NextIs(w, "ReadListEntries")
    BY <1>5 DEF ReadOwners, NextIs
  <2>2. k \in set'[w].keys
    BY <1>1, <1>5 DEF ReadOwners, PrincipalSets, PublishableKeys
  <2> QED
    BY <1>1, <2>1, <2>2, AfterStep DEF Carries
<1>6. CASE ReadKeys(w)
  <2>1. ~Idle(w) /\ Advance(w) /\ ~NextIs(w, "ReadOwners") /\ ~NextIs(w, "ReadListEntries")
    BY <1>6 DEF ReadKeys, NextIs
  <2>2. k \in set'[w].keys
    BY <1>1, <1>6 DEF ReadKeys, PrincipalSets, PublishableKeys, Carries
  <2> QED
    BY <1>1, <2>1, <2>2, AfterStep DEF Carries
<1>7. CASE ReadListEntries(w)
  <2>1. /\ ~Idle(w) /\ Advance(w) /\ ~NextIs(w, "ReadOwners") /\ ~NextIs(w, "ReadKeys")
    BY <1>7 DEF ReadListEntries, NextIs
  <2>2. k \notin list'[w].ids
    BY <1>1, <1>7 DEF ReadListEntries, RevocationLists, ActiveRevocations
  <2> QED
    BY <1>1, <2>1, <2>2, AfterStep DEF Carries
<1>8. ASSUME ~Idle(w), Advance(w), ~NextIs(w, "ReadOwners"), ~NextIs(w, "ReadKeys"),
             ~NextIs(w, "ReadListEntries")
      PROVE  Carries(w, k)'
  BY <1>1, <1>8, AfterStep DEF Carries
<1>9. CASE DbStep(w) \/ ListKeys(w) \/ BumpPrincipals(w) \/ WritePrincipals(w) \/ ReadListState(w)
           \/ WriteList(w) \/ ReadTenancy(w) \/ WriteSnapshot(w)
  BY <1>8, <1>9 DEF DbStep, ListKeys, BumpPrincipals, WritePrincipals, ReadListState, WriteList,
                    ReadTenancy, WriteSnapshot, NextIs
<1>10. CASE AddRevocations(w)
  <2>1. /\ ~Idle(w) /\ ~NextIs(w, "ReadOwners") /\ ~NextIs(w, "ReadKeys")
        /\ ~NextIs(w, "ReadListEntries") /\ ~NextIs(w, "WritePrincipals") /\ ~NextIs(w, "WriteList")
    BY <1>10 DEF AddRevocations, NextIs
  <2>2. CASE Advance(w)
    BY <1>8, <2>1, <2>2
  <2>3. CASE plan' = plan
    BY <2>1, <2>3 DEF Carries, NextIs, Idle
  <2> QED
    BY <1>10, <2>2, <2>3 DEF AddRevocations
<1>11. CASE BuildUnchanged(w) \/ RowMissing(w) \/ Abandon(w)
  <2>1. plan'[w] = <<>>
    BY <1>1, <1>11 DEF BuildUnchanged, RowMissing, Abandon
  <2> QED
    BY <1>3, <2>1
<1>12. CASE PublishFails(w)
  BY <1>1, <1>2, <1>12, FailureSkipsToAStart
<1> QED
  BY <1>4, <1>5, <1>6, <1>7, <1>9, <1>10, <1>11, <1>12 DEF Work

LEMMA StaysDelivered ==
    ASSUME Inv, [Next]_vars, NEW k \in Keys, Delivered(k), k \in PublishableKeys,
           revokedAt[k] = 0, phase' = "up"
    PROVE  Delivered(k)' /\ Authenticates(k)'
<1>1. \A x \in Workers : Carries(x, k)
  BY DEF Delivered, Carries
<1>2. ASSUME k \in principalFile'.keys, k \in principals'.keys, k \notin listFile'.ids,
             k \notin revocations'.ids, \A x \in Workers : Carries(x, k)'
      PROVE  Delivered(k)' /\ Authenticates(k)'
  BY <1>2 DEF Delivered, Carries, Authenticates
<1>3. CASE ControlPlane
  <2>1. PICK w \in Workers : StepKeeps(w) /\ Carries(w, k)'
    BY <1>1, <1>3, WorkerKeeps, StepCarries DEF ControlPlane
  <2>2. k \in principalFile'.keys /\ k \notin listFile'.ids
    BY <1>1, <2>1 DEF StepKeeps, Delivered, Carries
  <2>3. k \in principals'.keys /\ k \notin revocations'.ids
    BY <1>3 DEF ControlPlane, Delivered
  <2>4. ASSUME NEW x \in Workers
        PROVE  Carries(x, k)'
    <3>1. CASE x = w
      BY <2>1, <3>1
    <3>2. CASE x # w
      <4>1. plan'[x] = plan[x] /\ set'[x] = set[x] /\ list'[x] = list[x]
        BY <2>1, <3>2 DEF StepKeeps
      <4> QED
        BY <1>1, <4>1 DEF Carries, NextIs, Idle
    <3> QED
      BY <3>1, <3>2
  <2> QED
    BY <1>2, <2>2, <2>3, <2>4
<1>4. CASE Gateway
  <2>1. UNCHANGED <<workerVars, principalFile, listFile>>
    BY <1>4 DEF Gateway
  <2>2. /\ principals' \in {principals, principalFile}
        /\ revocations' \in {revocations, listFile}
    BY <1>4 DEF Gateway, Load, Poll, LoadSnapshot, LoadPrincipals, LoadRevocations, PollSnapshot,
                PollPrincipals, PollRevocations, ReadFails, Restart, ApplyPrincipals, ApplyRevocations
  <2>3. \A x \in Workers : Carries(x, k)'
    BY <1>1, <2>1 DEF Carries, NextIs, Idle, workerVars
  <2> QED
    BY <1>2, <2>1, <2>2, <2>3 DEF Delivered
<1>5. CASE UNCHANGED vars
  <2>1. UNCHANGED <<workerVars, principalFile, listFile, principals, revocations>>
    BY <1>5 DEF vars, cpVars, fileVars, dpVars
  <2>2. \A x \in Workers : Carries(x, k)'
    BY <1>1, <2>1 DEF Carries, NextIs, Idle, workerVars
  <2> QED
    BY <1>2, <2>1, <2>2 DEF Delivered
<1> QED
  BY <1>3, <1>4, <1>5 DEF Next

(* A delivery lasts: once gateway, files and publications under way let in a   *)
(* key that is good and was never revoked, no request for another key, no      *)
(* heartbeat, build, failed publish or failed read shuts it out while the      *)
(* process runs: the safety half of PublishedEventuallyWorks.                  *)
THEOREM PublicationsLast ==
    Spec => [][\A k \in Keys :
                 Delivered(k) /\ k \in PublishableKeys /\ revokedAt[k] = 0 /\ phase' = "up"
                   => Delivered(k)' /\ Authenticates(k)']_vars
<1>1. Inv /\ [Next]_vars =>
        [\A k \in Keys :
           Delivered(k) /\ k \in PublishableKeys /\ revokedAt[k] = 0 /\ phase' = "up"
             => Delivered(k)' /\ Authenticates(k)']_vars
  BY StaysDelivered
<1> QED
  BY <1>1, InvHolds, PTL DEF Spec
=============================================================================
