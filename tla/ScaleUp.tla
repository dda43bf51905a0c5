------------------------------- MODULE ScaleUp -------------------------------
(***************************************************************************)
(* The action ScaleUp on one pod: ScaleUpAction.Execute reads the pod from *)
(* the informer cache, raises the CPU limit of every container below the   *)
(* maximum of the policy and patches the resize subresource; when no       *)
(* container has headroom it falls back to EvictAndTaint, whose calls are  *)
(* the subject of module EvictAndTaint and one step here.                  *)
(* (src/operator/pkg/action/scale_up.go)                                   *)
(*                                                                         *)
(* The patch is a merge patch without a resource version, and a merge      *)
(* patch replaces lists: it writes the resources of ALL containers as they *)
(* were read, with the new limits.  The cache may lag any number of        *)
(* versions behind the server, the operator's own patches included.        *)
(***************************************************************************)
EXTENDS Naturals, Sequences

CONSTANTS
  Containers,
  Policies,          \* the policies whose selector matches the pod
  CPUStepPercent,    \* [Policies -> percent], 20 unless a positive one is set
  MaxCPULimit,       \* [Policies -> milli-CPU], or None: not a quantity
  InitialResources,  \* [limit, request] a container may be created with
  None,
  MaxRestarts        \* bound: restarts of the manager

Resources == [limit : Nat \cup {None}, request : Nat \cup {None}]

ASSUME ConstantsAssumption ==
  /\ None \notin Nat \cup Policies \cup [Containers -> Resources]
  /\ CPUStepPercent \in [Policies -> Nat \ {0}]
  /\ MaxCPULimit \in [Policies -> Nat \cup {None}]
  /\ InitialResources \subseteq Resources
  /\ MaxRestarts \in Nat

VARIABLES
  versions,     \* the resources of the containers: every version so far
  seen,         \* the version the cache holds
  alive,        \* the pod is on the server ...
  cachedAlive,  \* ... and in the cache
  pc,           \* what the worker does next
  policy,       \* the policy it reconciles, or None
  wanted,       \* the resources Execute computed
  restarts

server == <<versions, alive>>
cache  == <<seen, cachedAlive>>
worker == <<pc, policy, wanted>>
vars   == <<server, cache, worker, restarts>>

----------------------------------------------------------------------------
Latest == versions[Len(versions)]

(* Mutant: the request is preferred to the limit. *)
BaselineRequest(r) == IF r.request # None THEN r.request ELSE r.limit

(* The explicit limit, or the request, or neither *)
Baseline(r) == IF r.limit # None THEN r.limit ELSE r.request

(* Mutant: a percentage that rounds to zero is no step. *)
stepMillisNoMinimum(current, p) == (current * CPUStepPercent[p]) \div 100

stepMillis(current, p) ==
  LET percent == (current * CPUStepPercent[p]) \div 100
  IN  IF percent < 10 THEN 10 ELSE percent

(* Mutant: the maximum is looked at before the step only. *)
newMillisUncapped(current, p) == current + stepMillis(current, p)

newMillis(current, p) ==
  LET new == current + stepMillis(current, p)
  IN  IF new >= MaxCPULimit[p] THEN MaxCPULimit[p] ELSE new

Headroom(r, p) == Baseline(r) # None /\ Baseline(r) < MaxCPULimit[p]

(* Mutant: the request is raised in place of the limit. *)
RaisedRequest(r, p) ==
  IF Headroom(r, p) THEN [r EXCEPT !.request = newMillis(Baseline(r), p)] ELSE r

(* One turn of the loop over the containers: no baseline, or a baseline at *)
(* the maximum, leaves the container as it is.                             *)
Raised(r, p) ==
  IF Headroom(r, p) THEN [r EXCEPT !.limit = newMillis(Baseline(r), p)] ELSE r

(* Mutant: one container without headroom is enough to give up. *)
anyHeadroomAll(spec, p) == \A c \in Containers : Headroom(spec[c], p)

(* anyHeadroom, and changed: the code sets both together *)
anyHeadroom(spec, p) == \E c \in Containers : Headroom(spec[c], p)

Init ==
  /\ \E spec \in [Containers -> InitialResources] : versions = <<spec>>
  /\ seen = 1
  /\ alive = TRUE /\ cachedAlive = TRUE
  /\ pc = "idle" /\ policy = None /\ wanted = None
  /\ restarts = 0

----------------------------------------------------------------------------
(* The pod is deleted by another client, or its node fails. *)
DeletePod ==
  /\ alive
  /\ alive' = FALSE
  /\ UNCHANGED <<versions, cache, worker, restarts>>

(* The informer receives the next version, or the deletion after the last. *)
SyncPod ==
  /\ cachedAlive
  /\ \/ /\ seen < Len(versions)
        /\ seen' = seen + 1
        /\ UNCHANGED cachedAlive
     \/ /\ seen = Len(versions) /\ ~alive
        /\ cachedAlive' = FALSE
        /\ UNCHANGED seen
  /\ UNCHANGED <<server, worker, restarts>>

----------------------------------------------------------------------------
(* Execute returns to Reconcile, with or without an error. *)
Return == pc' = "idle" /\ policy' = None /\ wanted' = None

(* Reconcile: the evaluation of p reports the pod, which the cache lists.  *)
Reconcile(p) ==
  /\ pc = "idle" /\ cachedAlive
  /\ pc' = "get" /\ policy' = p
  /\ UNCHANGED <<server, cache, wanted, restarts>>

(* Execute reads the pod and computes the new limits. *)
Get ==
  /\ pc = "get"
  /\ cachedAlive /\ MaxCPULimit[policy] # None
  /\ \/ /\ anyHeadroom(versions[seen], policy)
        /\ wanted' = [c \in Containers |-> Raised(versions[seen][c], policy)]
        /\ pc' = "patch"
     \/ /\ ~anyHeadroom(versions[seen], policy)
        /\ pc' = "fallback"
        /\ UNCHANGED wanted
  /\ UNCHANGED <<server, cache, policy, restarts>>

(* The pod has left the cache, or the maximum is not a quantity. *)
GetFails ==
  /\ pc = "get"
  /\ ~cachedAlive \/ MaxCPULimit[policy] = None
  /\ Return
  /\ UNCHANGED <<server, cache, restarts>>

(* Mutant: the resize does not return and runs on into the fallback. *)
PatchFallsThrough ==
  /\ pc = "patch" /\ alive
  /\ versions' = IF wanted = Latest THEN versions ELSE Append(versions, wanted)
  /\ pc' = "fallback"
  /\ UNCHANGED <<policy, wanted, alive, cache, restarts>>

(* The server applies the patch, whether or not its answer arrives; a      *)
(* patch that changes nothing makes no version.                            *)
Patch ==
  /\ pc = "patch" /\ alive
  /\ versions' = IF wanted = Latest THEN versions ELSE Append(versions, wanted)
  /\ Return
  /\ UNCHANGED <<alive, cache, restarts>>

(* The patch is refused or lost, or the pod is gone. *)
PatchFails ==
  /\ pc = "patch"
  /\ Return
  /\ UNCHANGED <<server, cache, restarts>>

(* EvictAndTaintAction.Execute, up to the eviction *)
Fallback ==
  /\ pc = "fallback" /\ alive
  /\ alive' = FALSE
  /\ Return
  /\ UNCHANGED <<versions, cache, restarts>>

FallbackFails ==
  /\ pc = "fallback"
  /\ Return
  /\ UNCHANGED <<server, cache, restarts>>

(* The manager ends and starts again; its new cache is filled by a server  *)
(* that does not go back behind what it has delivered.                     *)
Restart ==
  /\ restarts < MaxRestarts
  /\ restarts' = restarts + 1
  /\ Return
  /\ seen' \in seen .. Len(versions)
  /\ UNCHANGED <<server, cachedAlive>>

Execute ==
  Get \/ GetFails \/ Patch \/ PatchFails \/ Fallback \/ FallbackFails

Next ==
  \/ DeletePod \/ SyncPod
  \/ \E p \in Policies : Reconcile(p)
  \/ Execute
  \/ Restart

Spec == Init /\ [][Next]_vars

(* The informer delivers, Execute always comes to an end, and every policy *)
(* keeps being reconciled and keeps reporting the pod.  Nothing is assumed *)
(* of the outcome of a call: each may fail every time.                     *)
FairSpec ==
  /\ Spec
  /\ WF_vars(SyncPod) /\ WF_vars(Execute)
  /\ \A p \in Policies : SF_vars(Reconcile(p))

----------------------------------------------------------------------------
(* Types; Execute has its result exactly when it is about to patch. *)
TypeOK ==
  /\ versions \in Seq([Containers -> Resources]) /\ versions # <<>>
  /\ seen \in 1 .. Len(versions)
  /\ alive \in BOOLEAN /\ cachedAlive \in BOOLEAN
  /\ pc \in {"idle", "get", "patch", "fallback"}
  /\ policy \in Policies \cup {None}
  /\ pc = "idle" <=> policy = None
  /\ wanted \in [Containers -> Resources] \cup {None}
  /\ pc = "patch" <=> wanted # None
  /\ restarts \in Nat

(***************************************************************************)
(* "`ScaleUp`: el `cpu.limit` del pod aumenta" (tests/e2e/README.md): no   *)
(* patch lowers a limit that the pod has on the server or takes it away,   *)
(* although it writes all containers from a cache that may be several      *)
(* patches old, may be computed before and applied after the cache moves,  *)
(* and may be repeated after a restart.  For one policy on the pod.        *)
(***************************************************************************)
NotLowered(old, new) ==
  old.limit # None => new.limit # None /\ new.limit >= old.limit

LimitsOnlyRaised ==
  [][\A c \in Containers : NotLowered(Latest[c], Latest'[c])]_vars

(***************************************************************************)
(* MaxCPULimit: the operator takes no container beyond the maximum, and    *)
(* leaves a limit that was above it from the start.                        *)
(***************************************************************************)
WithinMax ==
  \A c \in Containers :
    \/ Latest[c] = versions[1][c]
    \/ \E p \in Policies : MaxCPULimit[p] # None /\ Latest[c].limit <= MaxCPULimit[p]

(***************************************************************************)
(* "Si llega al MaxCPULimit cae al fallback" (policy-cpu-scaleup.yaml):    *)
(* the fallback evicts a pod only when every container that has a limit or *)
(* a request is at the maximum on the server, not only in an old cache.    *)
(***************************************************************************)
EvictedOnlyAtMax ==
  [][Fallback => \A c \in Containers :
       Baseline(Latest[c]) # None => Baseline(Latest[c]) >= MaxCPULimit[policy]]_vars

(***************************************************************************)
(* ScaleUp resizes for a reason: a patch that makes a new version of the   *)
(* pod raises the limit of some container, to no more than the maximum,    *)
(* also when it was computed from an old version, or repeated.  With       *)
(* LimitsOnlyRaised a pod is resized a bounded number of times.            *)
(***************************************************************************)
BroughtUp(old, new, p) ==
  /\ new.limit # None /\ new.limit <= MaxCPULimit[p]
  /\ old.limit = None \/ new.limit > old.limit

ResizesRaise ==
  [][versions' # versions =>
       \E c \in Containers : BroughtUp(Latest[c], Latest'[c], policy)]_vars

(***************************************************************************)
(* A pod that stays saturated is not resized for ever, nor for nothing:    *)
(* the limits reach the maximum, however small they are, and the fallback  *)
(* evicts the pod.  What can keep it from that is one call that is tried   *)
(* again and again and is from some time on refused every time: the        *)
(* resize, which the manager's role does not allow (config/rbac/role.yaml  *)
(* has no pods/resize) nor the server for a Guaranteed pod, or a call of   *)
(* the fallback.  A failing resize never leads to the fallback.            *)
(***************************************************************************)
Escalates ==
  \/ <>~alive
  \/ []<>(pc = "patch") /\ <>[][~Patch]_vars
  \/ []<>(pc = "fallback") /\ <>[][~Fallback]_vars

=============================================================================
