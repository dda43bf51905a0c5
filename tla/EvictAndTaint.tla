---------------------------- MODULE EvictAndTaint ----------------------------
(***************************************************************************)
(* One pass of the operator's worker with the action EvictAndTaint:        *)
(* PrometheusEvaluator.Evaluate picks the saturated pods of the policy,    *)
(* then EvictAndTaintAction.Execute taints the node of each one and evicts *)
(* it.  (src/operator/pkg/evaluator, src/operator/pkg/action)              *)
(*                                                                         *)
(* Reads go to the informer caches of the manager's client, writes to the  *)
(* API server; other clients change pods, nodes and taints meanwhile, any  *)
(* call may fail, and the manager may be restarted at any point.           *)
(*                                                                         *)
(* Prometheus answers with pod UIDs, Evaluate turns them into pod NAMES,   *)
(* and Execute works with the name.  A name whose pod was deleted can be   *)
(* given to a new pod with another UID (a StatefulSet does so): NameReuse. *)
(***************************************************************************)
EXTENDS Naturals, Sequences, FiniteSets

CONSTANTS
  Names,          \* pods the selector matches, by name
  Uids,           \* pod UIDs, each used once
  Nodes,
  Ours,           \* the key of the operator's taint
  Foreign,        \* keys of the taints of other clients
  None,
  Duration,       \* TaintDuration
  MaxTime,        \* bound: clock
  MaxCrashes,     \* bound: restarts of the manager
  NameReuse,      \* whether a name may be used again
  AdminUntaints   \* whether an administrator removes the operator's taint

ASSUME ConstantsAssumption ==
  /\ None \notin Names \cup Uids \cup Nodes \cup Nat
  /\ Ours \notin Foreign
  /\ Duration \in Nat /\ MaxTime \in Nat /\ MaxCrashes \in Nat
  /\ NameReuse \in BOOLEAN /\ AdminUntaints \in BOOLEAN

VARIABLES
  pods, podCache,     \* [uid, node] of a name, or None: API server and cache
  taints, nodeCache,  \* node.Spec.Taints: API server and cache
  clock,
  usedUids, usedNames,
  pc,                 \* what the worker does next
  saturatedUIDs,      \* the UIDs in the answer of Prometheus
  work,               \* names of saturatedPods still to be executed
  name, pod,          \* Execute: its argument and the pod it read
  wanted,             \* Execute: the taints it wants on the node
  crashes,
  evicted             \* history: UIDs of the pods that were evicted

cluster == <<pods, taints, clock, usedUids, usedNames>>
caches  == <<podCache, nodeCache>>
worker  == <<pc, saturatedUIDs, work, name, pod, wanted>>
vars    == <<cluster, caches, worker, crashes, evicted>>

----------------------------------------------------------------------------
Taint(key, added) == [key |-> key, added |-> added]

(* What a loop over a list has appended to a new one: the elements at the  *)
(* positions keep, in order.                                               *)
Select(list, keep) ==
  LET upTo[i \in 0..Len(list)] ==
        IF i = 0 THEN <<>>
        ELSE IF i \in keep THEN Append(upTo[i - 1], list[i]) ELSE upTo[i - 1]
  IN  upTo[Len(list)]

(* The loop over node.Spec.Taints: ours go when they are old enough. *)
Pruned(list, now) ==
  Select(list, {i \in DOMAIN list : ~(list[i].key = Ours /\ now - list[i].added >= Duration)})

HasOurs(list) == \E i \in DOMAIN list : list[i].key = Ours

(* Mutant: the new taint is added without looking for one. *)
WantAlways(list, now) == Append(Pruned(list, now), Taint(Ours, now))

(* The taints Execute computes from the node it read *)
Want(list, now) ==
  IF HasOurs(Pruned(list, now)) THEN Pruned(list, now)
  ELSE Append(Pruned(list, now), Taint(Ours, now))

(* Key by key, in order; TimeAdded is not compared. *)
equalTaints(a, b) ==
  /\ Len(a) = Len(b)
  /\ \A i \in DOMAIN a : a[i].key = b[i].key

Init ==
  /\ pods = [n \in Names |-> None] /\ podCache = pods
  /\ taints = [n \in Nodes |-> <<>>] /\ nodeCache = taints
  /\ clock = 0 /\ usedUids = {} /\ usedNames = {}
  /\ pc = "idle" /\ saturatedUIDs = {} /\ work = {}
  /\ name = None /\ pod = None /\ wanted = <<>>
  /\ crashes = 0 /\ evicted = {}

----------------------------------------------------------------------------
(* The rest of the cluster *)

CreatePod(n, uid) ==
  /\ pods[n] = None /\ uid \notin usedUids
  /\ NameReuse \/ n \notin usedNames
  /\ pods' = [pods EXCEPT ![n] = [uid |-> uid, node |-> None]]
  /\ usedUids' = usedUids \cup {uid}
  /\ usedNames' = usedNames \cup {n}
  /\ UNCHANGED <<taints, clock, caches, worker, crashes, evicted>>

SchedulePod(n, node) ==
  /\ pods[n] # None /\ pods[n].node = None
  /\ pods' = [pods EXCEPT ![n].node = node]
  /\ UNCHANGED <<taints, clock, usedUids, usedNames, caches, worker, crashes, evicted>>

DeletePod(n) ==
  /\ pods[n] # None
  /\ pods' = [pods EXCEPT ![n] = None]
  /\ UNCHANGED <<taints, clock, usedUids, usedNames, caches, worker, crashes, evicted>>

ForeignTaint(node, f) ==
  /\ \A i \in DOMAIN taints[node] : taints[node][i].key # f
  /\ taints' = [taints EXCEPT ![node] = Append(@, Taint(f, clock))]
  /\ UNCHANGED <<pods, clock, usedUids, usedNames, caches, worker, crashes, evicted>>

Without(list, key) == Select(list, {i \in DOMAIN list : list[i].key # key})

Untaint(node, key) ==
  /\ key \in Foreign \/ AdminUntaints
  /\ \E i \in DOMAIN taints[node] : taints[node][i].key = key
  /\ taints' = [taints EXCEPT ![node] = Without(@, key)]
  /\ UNCHANGED <<pods, clock, usedUids, usedNames, caches, worker, crashes, evicted>>

Tick ==
  /\ clock < MaxTime
  /\ clock' = clock + 1
  /\ UNCHANGED <<pods, taints, usedUids, usedNames, caches, worker, crashes, evicted>>

(* The informers catch up with one object. *)
SyncPod(n) ==
  /\ podCache[n] # pods[n]
  /\ podCache' = [podCache EXCEPT ![n] = pods[n]]
  /\ UNCHANGED <<cluster, nodeCache, worker, crashes, evicted>>

SyncNode(node) ==
  /\ nodeCache[node] # taints[node]
  /\ nodeCache' = [nodeCache EXCEPT ![node] = taints[node]]
  /\ UNCHANGED <<cluster, podCache, worker, crashes, evicted>>

----------------------------------------------------------------------------
(* Evaluate: the answer of Prometheus, the pod_uid label of each sample *)
Query ==
  /\ pc = "idle"
  /\ saturatedUIDs' \in SUBSET usedUids
  /\ pc' = "list"
  /\ UNCHANGED <<cluster, caches, work, name, pod, wanted, crashes, evicted>>

(* Mutant: every pod the selector matches is taken. *)
ListAll ==
  /\ pc = "list"
  /\ work' = {n \in Names : podCache[n] # None}
  /\ pc' = "loop"
  /\ UNCHANGED <<cluster, caches, saturatedUIDs, name, pod, wanted, crashes, evicted>>

(* ... and the names of the listed pods that have one of these UIDs *)
List ==
  /\ pc = "list"
  /\ work' = {n \in Names : podCache[n] # None /\ podCache[n].uid \in saturatedUIDs}
  /\ pc' = "loop"
  /\ UNCHANGED <<cluster, caches, saturatedUIDs, name, pod, wanted, crashes, evicted>>

(* Execute returns, with or without an error: Reconcile goes to the next.  *)
Return ==
  /\ pc' = "loop"
  /\ work' = work \ {name}
  /\ name' = None /\ pod' = None /\ wanted' = <<>>
  /\ UNCHANGED <<caches, saturatedUIDs, crashes>>

Scheduled(p) == p # None /\ p.node # None

(* Mutant: a pod without a node is not skipped. *)
GetPodUnscheduled(n) ==
  /\ pc = "loop" /\ n \in work
  /\ podCache[n] # None
  /\ name' = n /\ pod' = podCache[n]
  /\ pc' = "node"
  /\ UNCHANGED <<cluster, caches, saturatedUIDs, work, wanted, crashes, evicted>>

(* Execute begins: it gets the pod, which may be gone or not scheduled.    *)
GetPod(n) ==
  /\ pc = "loop" /\ n \in work
  /\ \/ /\ Scheduled(podCache[n])
        /\ name' = n /\ pod' = podCache[n]
        /\ pc' = "node"
        /\ UNCHANGED work
     \/ /\ ~Scheduled(podCache[n])
        /\ work' = work \ {n}
        /\ UNCHANGED <<name, pod, pc>>
  /\ UNCHANGED <<cluster, caches, saturatedUIDs, wanted, crashes, evicted>>

(* It gets the node and computes the taints.  Equal ones are not patched.  *)
GetNode ==
  /\ pc = "node"
  /\ wanted' = Want(nodeCache[pod.node], clock)
  /\ pc' = IF equalTaints(nodeCache[pod.node], wanted') THEN "evict" ELSE "patch"
  /\ UNCHANGED <<cluster, caches, saturatedUIDs, work, name, pod, crashes, evicted>>

GetNodeFails ==
  /\ pc = "node"
  /\ Return
  /\ UNCHANGED <<cluster, evicted>>

(* A merge patch without a resource version: the list replaces the list.   *)
Patch ==
  /\ pc = "patch"
  /\ taints' = [taints EXCEPT ![pod.node] = wanted]
  /\ pc' = "evict"
  /\ UNCHANGED <<pods, clock, usedUids, usedNames, caches, saturatedUIDs, work,
                 name, pod, wanted, crashes, evicted>>

(* Mutant: the failure of the patch is only logged. *)
PatchFailsLogged ==
  /\ pc = "patch"
  /\ pc' = "evict"
  /\ UNCHANGED <<cluster, caches, saturatedUIDs, work, name, pod, wanted, crashes, evicted>>

PatchFails ==
  /\ pc = "patch"
  /\ Return
  /\ UNCHANGED <<cluster, evicted>>

(* The eviction names the pod, with no precondition on its UID. *)
Evict ==
  /\ pc = "evict" /\ pods[name] # None
  /\ pods' = [pods EXCEPT ![name] = None]
  /\ evicted' = evicted \cup {pods[name].uid}
  /\ Return
  /\ UNCHANGED <<taints, clock, usedUids, usedNames>>

(* Refused by a disruption budget, not found, or an error of the server *)
EvictFails ==
  /\ pc = "evict"
  /\ Return
  /\ UNCHANGED <<cluster, evicted>>

(* Reconcile has been through saturatedPods. *)
Done ==
  /\ pc = "loop" /\ work = {}
  /\ pc' = "idle"
  /\ UNCHANGED <<cluster, caches, saturatedUIDs, work, name, pod, wanted, crashes, evicted>>

(* The manager is restarted; its caches are filled anew. *)
Crash ==
  /\ crashes < MaxCrashes
  /\ crashes' = crashes + 1
  /\ pc' = "idle" /\ saturatedUIDs' = {} /\ work' = {}
  /\ name' = None /\ pod' = None /\ wanted' = <<>>
  /\ podCache' = pods /\ nodeCache' = taints
  /\ UNCHANGED <<cluster, evicted>>

Operator ==
  \/ Query \/ List
  \/ \E n \in Names : GetPod(n)
  \/ GetNode \/ GetNodeFails \/ Patch \/ PatchFails \/ Evict \/ EvictFails \/ Done

Sync == (\E n \in Names : SyncPod(n)) \/ (\E node \in Nodes : SyncNode(node))

Environment ==
  \/ \E n \in Names, uid \in Uids : CreatePod(n, uid)
  \/ \E n \in Names, node \in Nodes : SchedulePod(n, node)
  \/ \E n \in Names : DeletePod(n)
  \/ \E node \in Nodes, f \in Foreign : ForeignTaint(node, f)
  \/ \E node \in Nodes, key \in Foreign \cup {Ours} : Untaint(node, key)
  \/ Tick

Next == Operator \/ Crash \/ Sync \/ Environment

Spec == Init /\ [][Next]_vars

----------------------------------------------------------------------------
Pod == [uid : Uids, node : Nodes \cup {None}]
AnyTaint == [key : Foreign \cup {Ours}, added : Nat]
Taints == Seq(AnyTaint)

(* Types; while Execute works it has a pod with a node. *)
TypeOK ==
  /\ pods \in [Names -> Pod \cup {None}] /\ podCache \in [Names -> Pod \cup {None}]
  /\ taints \in [Nodes -> Taints] /\ nodeCache \in [Nodes -> Taints]
  /\ clock \in Nat /\ usedUids \subseteq Uids /\ usedNames \subseteq Names
  /\ pc \in {"idle", "list", "loop", "node", "patch", "evict"}
  /\ saturatedUIDs \subseteq Uids /\ work \subseteq Names
  /\ pc \in {"node", "patch", "evict"} => name \in work /\ pod \in Pod /\ pod.node # None
  /\ wanted \in Taints
  /\ crashes \in Nat /\ evicted \subseteq usedUids

(***************************************************************************)
(* "Evicting saturated pod": whatever the caches held and however late the *)
(* worker comes to it, a pod is evicted only if its own UID was in the     *)
(* answer of Prometheus the decision was based on.                         *)
(***************************************************************************)
OnlySaturatedEvicted == [][evicted' \ evicted \subseteq saturatedUIDs]_vars

(***************************************************************************)
(* Taint first, evict after: when a pod is evicted its node carries the    *)
(* operator's taint on the API server, so that the replacement is not      *)
(* scheduled there; also when the patch was skipped on the word of a stale *)
(* cache, or an earlier Execute was cut short.                             *)
(***************************************************************************)
TaintBeforeEvict ==
  [][\A n \in Names : pods[n] # None /\ pods[n].uid \in evicted' \ evicted =>
       HasOurs(taints[pods[n].node])]_vars

(***************************************************************************)
(* A node never carries two taints of the operator (the API server refuses *)
(* two taints with one key and effect, and then nothing is evicted).       *)
(***************************************************************************)
OursUnique ==
  \A node \in Nodes : \A i, j \in DOMAIN taints[node] :
    taints[node][i].key = Ours /\ taints[node][j].key = Ours => i = j

=============================================================================
