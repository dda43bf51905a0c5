--------------------------- MODULE MigrateStorage ---------------------------
(***************************************************************************)
(* MigrateStorageAction.Execute (src/operator/pkg/action/                  *)
(* migrate_storage.go) on one deployment, called again by every pass of    *)
(* the reconciler that finds one of its pods saturated.                    *)
(*                                                                         *)
(* Execute reads the deployment from the informer cache, then goes through *)
(* its claim volumes in order: a claim of the target class is left alone,  *)
(* a volume that is not read-only ends the call with an error, any other   *)
(* claim gets a new, empty claim of the target class that is created at    *)
(* once.  In the end one patch points the deployment to the new claims.    *)
(* Nothing deletes a claim: when a call ends early what it created stays.  *)
(*                                                                         *)
(* A claim nobody refers to any more is dropped from the state, its name   *)
(* standing for another one later (the code's names hold a time stamp and  *)
(* are never used again).                                                  *)
(***************************************************************************)
EXTENDS Naturals, FiniteSets, Functions

CONSTANTS
  NumVolumes,   \* claim volumes of the pod template, in order
  OldClaims,    \* claims that exist before the operator starts
  NewClaims,    \* names of claims it may create
  None,
  MaxFaults     \* bound: failing calls and restarts

Volumes == 1 .. NumVolumes
ClaimIds == OldClaims \cup NewClaims

(* accessModes; ReadWriteOnce, ReadWriteMany and ReadWriteOncePod are one. *)
Modes == SUBSET {"ReadOnly", "ReadWrite"} \ {{}}
Claims == [onTarget : BOOLEAN, modes : Modes]

ASSUME ConstantsAssumption ==
  /\ NumVolumes \in Nat \ {0} /\ MaxFaults \in Nat
  /\ OldClaims \cap NewClaims = {} /\ IsFiniteSet(ClaimIds)
  /\ None \notin ClaimIds \cup Claims

VARIABLES
  mounts,      \* readOnly of the mounts of each volume in the main containers
  vols,        \* API server: the claim of each volume of the deployment
  claims,      \* API server: the claims, or None
  volsCache,   \* informer cache of the deployment
  claimCache,  \* informer cache: names of the claims it holds
  next,        \* Execute: the volume it comes to, 0 when it does not run
  orig,        \* originalDeployment: the claims it read
  dep,         \* deployment: the claims it will refer to
  faults

server == <<mounts, vols, claims>>
cache == <<volsCache, claimCache>>
execute == <<next, orig, dep>>
vars == <<server, cache, execute, faults>>

----------------------------------------------------------------------------
(* Mutant: one read-only mount is enough. *)
pvcUsedReadOnlyAny(claim, readOnly) ==
  claim.modes = {"ReadOnly"} \/ TRUE \in readOnly

(* The claim admits readers only, or the main containers mount the volume, *)
(* and only read-only.                                                     *)
pvcUsedReadOnly(claim, readOnly) ==
  claim.modes = {"ReadOnly"} \/ readOnly = {TRUE}

Used == UNION {Range(vols), Range(volsCache), Range(orig), Range(dep)}

NewName == CHOOSE n \in NewClaims : n \notin Used

Init ==
  /\ mounts \in [Volumes -> SUBSET BOOLEAN]
  /\ vols \in [Volumes -> OldClaims]
  /\ \E old \in [OldClaims -> Claims] :
       claims = [c \in ClaimIds |-> IF c \in OldClaims THEN old[c] ELSE None]
  /\ volsCache = vols /\ claimCache = OldClaims
  /\ next = 0 /\ orig = vols /\ dep = vols
  /\ faults = 0

----------------------------------------------------------------------------
(* The informers *)

SyncVols ==
  /\ volsCache # vols
  /\ volsCache' = vols
  /\ UNCHANGED <<server, claimCache, execute, faults>>

SyncClaim(c) ==
  /\ claims[c] # None /\ c \notin claimCache
  /\ claimCache' = claimCache \cup {c}
  /\ UNCHANGED <<server, volsCache, execute, faults>>

----------------------------------------------------------------------------
(* Execute *)

Reading == next \in Volumes
Old == claims[orig[next]]

(* The calls up to the list of volumes.  When one of them fails, or the    *)
(* pod has no deployment, nothing happens.                                 *)
Begin ==
  /\ next = 0
  /\ next' = 1 /\ orig' = volsCache /\ dep' = volsCache
  /\ UNCHANGED <<server, cache, faults>>

(* Execute returns an error. *)
GiveUp ==
  /\ next' = 0
  /\ UNCHANGED <<server, cache, orig, dep>>

GetClaimFails ==
  /\ Reading /\ orig[next] \notin claimCache
  /\ GiveUp
  /\ UNCHANGED faults

(* Mutant: the first claim of the target class ends the loop. *)
SkipReturns ==
  /\ Reading /\ orig[next] \in claimCache /\ Old.onTarget
  /\ GiveUp
  /\ UNCHANGED faults

Skip ==
  /\ Reading /\ orig[next] \in claimCache /\ Old.onTarget
  /\ next' = next + 1
  /\ UNCHANGED <<server, cache, orig, dep, faults>>

(* Mutant: a writable volume is left out and the others are migrated. *)
RefuseContinues ==
  /\ Reading /\ orig[next] \in claimCache /\ ~Old.onTarget
  /\ ~pvcUsedReadOnly(Old, mounts[next])
  /\ next' = next + 1
  /\ UNCHANGED <<server, cache, orig, dep, faults>>

Refuse ==
  /\ Reading /\ orig[next] \in claimCache /\ ~Old.onTarget
  /\ ~pvcUsedReadOnly(Old, mounts[next])
  /\ GiveUp
  /\ UNCHANGED faults

(* The volume will be migrated.  Bound: a name is left for the new claim.  *)
Migratable ==
  /\ NewClaims \ Used # {}
  /\ Reading /\ orig[next] \in claimCache /\ ~Old.onTarget
  /\ pvcUsedReadOnly(Old, mounts[next])

(* The API server creates the claim: new in the informer too. *)
Created ==
  /\ claims' = [claims EXCEPT ![NewName] = [onTarget |-> TRUE, modes |-> Old.modes]]
  /\ claimCache' = claimCache \ {NewName}
  /\ UNCHANGED <<mounts, vols, volsCache>>

(* Mutant: only the first volume is migrated. *)
CreateFirst ==
  /\ Migratable
  /\ Created
  /\ dep' = [dep EXCEPT ![next] = NewName]
  /\ next' = NumVolumes + 1
  /\ UNCHANGED <<orig, faults>>

Create ==
  /\ Migratable
  /\ Created
  /\ dep' = [dep EXCEPT ![next] = NewName]
  /\ next' = next + 1
  /\ UNCHANGED <<orig, faults>>

(* Mutant: the error of Create is logged and the loop goes on. *)
CreateFailsLogged ==
  /\ Migratable /\ faults < MaxFaults
  /\ dep' = [dep EXCEPT ![next] = NewName]
  /\ next' = next + 1
  /\ faults' = faults + 1
  /\ UNCHANGED <<server, cache, orig>>

(* Create returns an error: before or after the claim was made.            *)
CreateFails ==
  /\ Migratable /\ faults < MaxFaults
  /\ next' = 0
  /\ faults' = faults + 1
  /\ Created \/ UNCHANGED <<server, cache>>
  /\ UNCHANGED <<orig, dep>>

(* Patch with MergeFrom(originalDeployment): a merge patch replaces the    *)
(* list of volumes as a whole, without a resource version, if it differs   *)
(* from the list that was read.                                            *)
Patch ==
  /\ next = NumVolumes + 1
  /\ vols' = IF dep = orig THEN vols ELSE dep
  /\ next' = 0
  /\ UNCHANGED <<mounts, claims, cache, orig, dep, faults>>

PatchFails ==
  /\ next = NumVolumes + 1 /\ faults < MaxFaults
  /\ faults' = faults + 1
  /\ GiveUp

(* The manager ends at any point and starts again, with new informers.     *)
Restart ==
  /\ faults < MaxFaults
  /\ faults' = faults + 1
  /\ next' = 0
  /\ volsCache' = vols
  /\ claimCache' = {c \in ClaimIds : claims[c] # None}
  /\ UNCHANGED <<server, orig, dep>>

Execute == Begin \/ GetClaimFails \/ Skip \/ Refuse \/ Create \/ Patch

Next ==
  \/ Execute \/ CreateFails \/ PatchFails \/ Restart
  \/ SyncVols
  \/ \E c \in ClaimIds : SyncClaim(c)

(* The pod stays saturated, so that every pass of the reconciler executes  *)
(* the action, and the informers keep delivering.                          *)
Spec ==
  /\ Init /\ [][Next]_vars
  /\ WF_vars(Execute)
  /\ WF_vars(SyncVols)
  /\ \A c \in ClaimIds : WF_vars(SyncClaim(c))

----------------------------------------------------------------------------
(* Types; the volumes Execute has come past will be on the target class.   *)
TypeOK ==
  /\ mounts \in [Volumes -> SUBSET BOOLEAN]
  /\ vols \in [Volumes -> ClaimIds]
  /\ volsCache \in [Volumes -> ClaimIds]
  /\ claims \in [ClaimIds -> Claims \cup {None}]
  /\ claimCache \subseteq ClaimIds
  /\ next \in 0 .. NumVolumes + 1
  /\ orig \in [Volumes -> ClaimIds]
  /\ dep \in [Volumes -> ClaimIds]
  /\ \A v \in Volumes : v < next => claims[dep[v]] # None /\ claims[dep[v]].onTarget
  /\ faults \in 0 .. MaxFaults

(***************************************************************************)
(* The deployment refers only to claims that exist, whatever call fails    *)
(* and wherever the manager stops: pods of a deployment that names a       *)
(* missing claim never start.                                              *)
(***************************************************************************)
ReferencesExist ==
  \A v \in Volumes : claims[vols[v]] # None

(***************************************************************************)
(* "we update them all rather than only the first match" (Execute): the    *)
(* deployment goes over to the target class with all its volumes at once,  *)
(* also when the patch was computed from an old copy of it.                *)
(***************************************************************************)
AllOrNothing ==
  [][vols' # vols => \A v \in Volumes : claims'[vols'[v]].onTarget]_vars

(***************************************************************************)
(* "Si el volumen es escribible, abortamos" (Execute): as long as a main   *)
(* container of the deployment may write a claim, no volume is taken away  *)
(* from that claim, not even another volume that mounts it read-only.      *)
(***************************************************************************)
Written(c) ==
  \E v \in Volumes : /\ vols[v] = c /\ FALSE \in mounts[v]
                     /\ "ReadWrite" \in claims[c].modes

WrittenClaimKept ==
  [][\A v \in Volumes : Written(vols[v]) => vols'[v] = vols[v]]_vars

AllReadOnly ==
  \A v \in Volumes : claims[vols[v]].modes = {"ReadOnly"} \/ mounts[v] = {TRUE}

(***************************************************************************)
(* A deployment whose claim volumes are all read-only ends up on the       *)
(* target class and stays there, through failing calls, restarts and       *)
(* passes that start from an old copy; and from some time on no pass       *)
(* creates a claim: the one that finds every claim on the target class     *)
(* leaves everything as it is.                                             *)
(***************************************************************************)
Migrated == \A v \in Volumes : claims[vols[v]].onTarget

CreatesNothing == [][dep' = dep \/ next = 0]_vars

Converges == AllReadOnly => <>[]Migrated /\ <>CreatesNothing

(***************************************************************************)
(* "NO debe haberse creado ningun PVC migrado" when the operator rejects a *)
(* deployment (src/tests/e2e/run_e2e.sh): none exists for a deployment     *)
(* that has a volume the action must not migrate.                          *)
(***************************************************************************)
Rejected ==
  \E v \in Volumes : ~claims[vols[v]].onTarget /\ Written(vols[v])

RejectionCreatesNothing ==
  Rejected /\ next = 0 => \A n \in NewClaims : claims[n] = None

=============================================================================
