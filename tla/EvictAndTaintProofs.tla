------------------------ MODULE EvictAndTaintProofs ------------------------
(***************************************************************************)
(* Proofs about EvictAndTaint, for any pods, nodes, caches and restarts:   *)
(* as long as pod names are not reused, only saturated pods are evicted;   *)
(* a node never has two taints of the operator; and as long as in addition *)
(* nobody else removes its taint, a pod is evicted only from a node that   *)
(* carries it.                                                             *)
(***************************************************************************)
EXTENDS EvictAndTaint, WellFoundedInduction, TLAPS

(* The part of the types the argument needs *)
PodTypes ==
  /\ pods \in [Names -> Pod \cup {None}]
  /\ podCache \in [Names -> Pod \cup {None}]
  /\ work \subseteq Names
  /\ usedNames \subseteq Names

(* A name that the server or the cache holds, or that is to be worked on,  *)
(* was given to a pod.                                                     *)
NamesUsed ==
  /\ \A n \in Names : pods[n] # None \/ podCache[n] # None => n \in usedNames
  /\ work \subseteq usedNames

(* Server and cache agree on the UID of a name. *)
OneUidPerName ==
  \A n \in Names : pods[n] # None /\ podCache[n] # None => podCache[n].uid = pods[n].uid

(* The pods to be worked on, if they still exist, are in the answer. *)
WorkSaturated ==
  \A n \in work : pods[n] # None => pods[n].uid \in saturatedUIDs

(* There is work only inside the loop, and Execute works on some of it. *)
WorkInLoop ==
  /\ pc \in {"idle", "list"} => work = {}
  /\ pc \in {"node", "patch", "evict"} => name \in work

NInv == PodTypes /\ NamesUsed /\ OneUidPerName /\ WorkSaturated /\ WorkInLoop

(* Before the first pod there is nothing to judge. *)
LEMMA InitNInv == Init => NInv
BY ConstantsAssumption
   DEF Init, NInv, PodTypes, NamesUsed, OneUidPerName, WorkSaturated, WorkInLoop

(* The rest of the cluster: a new pod has a name nothing refers to. *)
LEMMA EnvironmentNInv ==
  ASSUME ~NameReuse, NInv, Environment
  PROVE  NInv'
<1> USE ConstantsAssumption DEF NInv
<1>1. ASSUME NEW n \in Names, NEW uid \in Uids, CreatePod(n, uid) PROVE NInv'
  <2>1. n \notin usedNames /\ n \notin work /\ podCache[n] = None
    BY <1>1 DEF CreatePod, NamesUsed
  <2>2. /\ pods' = [pods EXCEPT ![n] = [uid |-> uid, node |-> None]]
        /\ usedNames' = usedNames \cup {n}
        /\ UNCHANGED <<podCache, work, saturatedUIDs, pc, name>>
    BY <1>1 DEF CreatePod, caches, worker
  <2>3. PodTypes'
    BY <2>2 DEF PodTypes, Pod
  <2>4. NamesUsed' /\ OneUidPerName' /\ WorkSaturated' /\ WorkInLoop'
    BY <2>1, <2>2
       DEF PodTypes, NamesUsed, OneUidPerName, WorkSaturated, WorkInLoop
  <2> QED
    BY <2>3, <2>4
<1>2. ASSUME NEW n \in Names, NEW node \in Nodes, SchedulePod(n, node) PROVE NInv'
  <2>1. /\ pods[n] # None
        /\ pods' = [pods EXCEPT ![n].node = node]
        /\ UNCHANGED <<podCache, work, saturatedUIDs, pc, name, usedNames>>
    BY <1>2 DEF SchedulePod, caches, worker
  <2>2. pods[n] \in Pod
    BY <2>1 DEF PodTypes
  <2>3. /\ pods' \in [Names -> Pod \cup {None}]
        /\ \A m \in Names : pods'[m] # None =>
             pods[m] # None /\ pods'[m].uid = pods[m].uid
    <3>1. [pods[n] EXCEPT !.node = node] \in Pod
      BY <2>2 DEF Pod
    <3>2. [pods[n] EXCEPT !.node = node].uid = pods[n].uid
      BY <2>2 DEF Pod
    <3> QED
      BY <2>1, <2>2, <3>1, <3>2 DEF PodTypes
  <2> QED
    BY <2>1, <2>3
       DEF PodTypes, NamesUsed, OneUidPerName, WorkSaturated, WorkInLoop
<1>3. ASSUME NEW n \in Names, DeletePod(n) PROVE NInv'
  BY <1>3 DEF DeletePod, caches, worker, PodTypes, NamesUsed, OneUidPerName,
              WorkSaturated, WorkInLoop
<1>4. ASSUME UNCHANGED <<pods, caches, worker, usedNames>> PROVE NInv'
  BY <1>4 DEF caches, worker, PodTypes, NamesUsed, OneUidPerName, WorkSaturated, WorkInLoop
<1> QED
  BY <1>1, <1>2, <1>3, <1>4 DEF Environment, ForeignTaint, Untaint, Tick

(* The informers only bring the cache closer to the server. *)
LEMMA SyncNInv ==
  ASSUME NInv, Sync
  PROVE  NInv'
<1>1. ASSUME NEW n \in Names, SyncPod(n) PROVE NInv'
  BY <1>1 DEF SyncPod, cluster, worker, NInv, PodTypes, NamesUsed, OneUidPerName,
              WorkSaturated, WorkInLoop
<1>2. ASSUME NEW node \in Nodes, SyncNode(node) PROVE NInv'
  BY <1>2 DEF SyncNode, cluster, worker, NInv, PodTypes, NamesUsed, OneUidPerName,
              WorkSaturated, WorkInLoop
<1> QED
  BY <1>1, <1>2 DEF Sync

(* Listing the pods turns UIDs into names, and the names keep their UIDs.  *)
LEMMA ListNInv ==
  ASSUME NInv, List
  PROVE  NInv'
<1> USE DEF NInv
<1>1. /\ work' = {n \in Names : podCache[n] # None /\ podCache[n].uid \in saturatedUIDs}
      /\ pc' = "loop"
      /\ UNCHANGED <<pods, podCache, usedNames, saturatedUIDs, name>>
  BY DEF List, cluster, caches
<1>2. PodTypes' /\ NamesUsed' /\ OneUidPerName'
  BY <1>1 DEF PodTypes, NamesUsed, OneUidPerName
<1>3. WorkSaturated'
  BY <1>1 DEF WorkSaturated, OneUidPerName
<1>4. WorkInLoop'
  BY <1>1 DEF WorkInLoop
<1> QED
  BY <1>2, <1>3, <1>4

(* The other steps of the worker take names off the list and pods off the  *)
(* server; a new answer is asked for only when the list is empty.          *)
LEMMA OperatorNInv ==
  ASSUME NInv, Operator \/ Crash
  PROVE  NInv'
<1> USE DEF NInv, cluster, caches
<1>1. CASE Query
  BY <1>1 DEF Query, PodTypes, NamesUsed, OneUidPerName, WorkSaturated, WorkInLoop
<1>2. CASE List
  BY <1>2, ListNInv
<1>3. ASSUME NEW n \in Names, GetPod(n) PROVE NInv'
  BY <1>3 DEF GetPod, PodTypes, NamesUsed, OneUidPerName, WorkSaturated, WorkInLoop
<1>4. CASE GetNode
  BY <1>4 DEF GetNode, PodTypes, NamesUsed, OneUidPerName, WorkSaturated, WorkInLoop
<1>5. CASE Patch
  BY <1>5 DEF Patch, PodTypes, NamesUsed, OneUidPerName, WorkSaturated, WorkInLoop
<1>6. CASE GetNodeFails \/ PatchFails \/ EvictFails
  BY <1>6 DEF GetNodeFails, PatchFails, EvictFails, Return, PodTypes, NamesUsed,
              OneUidPerName, WorkSaturated, WorkInLoop
<1>7. CASE Evict
  <2>1. /\ pods' = [pods EXCEPT ![name] = None]
        /\ work' = work \ {name} /\ pc' = "loop"
        /\ UNCHANGED <<podCache, usedNames, saturatedUIDs>>
    BY <1>7 DEF Evict, Return
  <2> QED
    BY <2>1 DEF PodTypes, NamesUsed, OneUidPerName, WorkSaturated, WorkInLoop
<1>8. CASE Done
  BY <1>8 DEF Done, PodTypes, NamesUsed, OneUidPerName, WorkSaturated, WorkInLoop
<1>9. CASE Crash
  BY <1>9 DEF Crash, PodTypes, NamesUsed, OneUidPerName, WorkSaturated, WorkInLoop
<1> QED
  BY <1>1, <1>2, <1>3, <1>4, <1>5, <1>6, <1>7, <1>8, <1>9 DEF Operator

(* NInv is inductive when names are not reused. *)
LEMMA NextNInv == ~NameReuse /\ NInv /\ [Next]_vars => NInv'
<1> SUFFICES ASSUME ~NameReuse, NInv, [Next]_vars PROVE NInv'
  OBVIOUS
<1>1. CASE UNCHANGED vars
  BY <1>1 DEF vars, cluster, caches, worker, NInv, PodTypes, NamesUsed,
              OneUidPerName, WorkSaturated, WorkInLoop
<1> QED
  BY <1>1, EnvironmentNInv, SyncNInv, OperatorNInv DEF Next

(* Only the eviction adds to the history of evictions, and it names a pod  *)
(* of the work list.                                                       *)
LEMMA StepEvictsSaturated ==
  NInv /\ [Next]_vars => [evicted' \ evicted \subseteq saturatedUIDs]_vars
<1> SUFFICES ASSUME NInv, [Next]_vars PROVE evicted' \ evicted \subseteq saturatedUIDs
  OBVIOUS
<1>1. CASE Evict
  <2>1. name \in work /\ pods[name] # None /\ evicted' = evicted \cup {pods[name].uid}
    BY <1>1 DEF Evict, NInv, WorkInLoop
  <2> QED
    BY <2>1 DEF NInv, WorkSaturated
<1>2. CASE UNCHANGED evicted
  BY <1>2
<1>3. Evict \/ UNCHANGED evicted
  BY DEF Next, vars, Operator, Sync, Environment, Crash, Query, List, GetPod, GetNode,
         GetNodeFails, Patch, PatchFails, EvictFails, Done, SyncPod, SyncNode,
         CreatePod, SchedulePod, DeletePod, ForeignTaint, Untaint, Tick
<1> QED
  BY <1>1, <1>2, <1>3

(* With names that are not reused, EvictAndTaint evicts only pods whose    *)
(* UID was in the answer of Prometheus the pass is based on, whatever the  *)
(* caches hold and wherever the manager is restarted.                      *)
THEOREM EvictsOnlySaturated == ~NameReuse /\ Spec => OnlySaturatedEvicted
<1> SUFFICES ASSUME ~NameReuse PROVE Spec => OnlySaturatedEvicted
  OBVIOUS
<1>1. NInv /\ [Next]_vars => NInv'
  BY NextNInv
<1> QED
  BY <1>1, InitNInv, StepEvictsSaturated, PTL DEF Spec, OnlySaturatedEvicted

----------------------------------------------------------------------------
(* What the loops over a list of taints compute.  The facts about Select   *)
(* hold for lists of any length, by induction over the length.             *)

Less == {ss \in Nat \X Nat : ss[1] < ss[2]}

(* A nonempty set of natural numbers has a least element: the induction    *)
(* below is by the least counterexample.                                   *)
LEMMA Least ==
  ASSUME NEW S, S \subseteq Nat, S # {}
  PROVE  \E x \in S : \A y \in S : x <= y
<1>1. IsWellFoundedOn(Less, Nat)
  BY NatLessThanWellFounded, Zenon DEF OpToRel, Less
<1>2. \E x \in S : \A y \in S : <<y, x>> \notin Less
  <2> HIDE DEF Less
  <2> QED BY <1>1, WFMin, Zenon
<1>3. \A x, y \in S : y < x => <<y, x>> \in Less
  BY DEF Less
<1> HIDE DEF Less
<1>4. PICK x \in S : \A y \in S : <<y, x>> \notin Less
  BY <1>2
<1>5. \A y \in S : ~ (y < x) /\ y \in Nat /\ x \in Nat
  BY <1>3, <1>4
<1> QED
  BY <1>5

(* The list a loop has built after the first i elements *)
UpTo(list, keep, n, f) ==
  f = [i \in 0..n |-> IF i = 0 THEN <<>>
                      ELSE IF i \in keep THEN Append(f[i - 1], list[i]) ELSE f[i - 1]]

(* The loop can be run to its end. *)
LEMMA UpToExists ==
  ASSUME NEW list, NEW keep, NEW n \in Nat
  PROVE  \E f : UpTo(list, keep, n, f)
<1> DEFINE Bad == {k \in Nat : ~ \E f : UpTo(list, keep, k, f)}
<1> SUFFICES ASSUME Bad # {} PROVE FALSE
  OBVIOUS
<1>1. PICK k \in Bad : \A j \in Bad : k <= j
  BY Least
<1>2. k # 0
  <2> DEFINE f == [i \in 0..0 |-> <<>>]
  <2>1. UpTo(list, keep, 0, f)
    BY DEF UpTo
  <2> QED
    BY <2>1
<1>3. k - 1 \in Nat /\ k - 1 \notin Bad
  BY <1>1, <1>2
<1>4. PICK f : UpTo(list, keep, k - 1, f)
  BY <1>3
<1> DEFINE g == [i \in 0..k |-> IF i = 0 THEN <<>>
                                ELSE IF i \in keep THEN Append(f[i - 1], list[i])
                                ELSE f[i - 1]]
<1>5. ASSUME NEW i \in 0..k - 1 PROVE f[i] = g[i]
  <2>1. f[i] = IF i = 0 THEN <<>>
               ELSE IF i \in keep THEN Append(f[i - 1], list[i]) ELSE f[i - 1]
    BY <1>4 DEF UpTo
  <2>2. i \in 0..k
    BY <1>3
  <2> QED
    BY <2>1, <2>2
<1>6. g = [i \in 0..k |-> IF i = 0 THEN <<>>
                          ELSE IF i \in keep THEN Append(g[i - 1], list[i]) ELSE g[i - 1]]
  <2>1. \A i \in 0..k : i # 0 => i - 1 \in 0..k - 1
    BY <1>3
  <2> HIDE DEF g
  <2>2. \A i \in 0..k : i # 0 => f[i - 1] = g[i - 1]
    BY <2>1, <1>5
  <2> QED
    BY <2>2 DEF g
<1>7. UpTo(list, keep, k, g)
  BY <1>6 DEF UpTo
<1> QED
  BY <1>1, <1>7

(* out is list without the elements at positions that are not in K: each   *)
(* element of out comes from its own position in K, and none is lost.      *)
Copies(out, list, K) ==
  \E g \in [DOMAIN out -> K] :
    /\ \A j \in DOMAIN out : out[j] = list[g[j]]
    /\ \A j, k \in DOMAIN out : g[j] = g[k] => j = k
    /\ \A i \in K : \E j \in DOMAIN out : g[j] = i

(* One more element is appended, or not. *)
LEMMA CopiesAppend ==
  ASSUME NEW T, NEW list \in Seq(T), NEW i \in DOMAIN list, NEW K, i \notin K,
         NEW out \in Seq(T), Copies(out, list, K)
  PROVE  Copies(Append(out, list[i]), list, K \cup {i})
<1>1. PICK g \in [DOMAIN out -> K] :
        /\ \A j \in DOMAIN out : out[j] = list[g[j]]
        /\ \A j, k \in DOMAIN out : g[j] = g[k] => j = k
        /\ \A m \in K : \E j \in DOMAIN out : g[j] = m
  BY DEF Copies
<1> DEFINE n == Len(out)
           new == Append(out, list[i])
           h == [j \in 1..n + 1 |-> IF j = n + 1 THEN i ELSE g[j]]
<1>2. DOMAIN out = 1..n /\ n \in Nat /\ DOMAIN new = 1..n + 1
  OBVIOUS
<1>3. new[n + 1] = list[i] /\ \A j \in 1..n : new[j] = out[j]
  OBVIOUS
<1>4. h \in [DOMAIN new -> K \cup {i}] /\ h[n + 1] = i /\ \A j \in 1..n : h[j] = g[j] /\ g[j] \in K
  BY <1>2
<1> HIDE DEF n, new, h
<1>5. \A j \in DOMAIN new : new[j] = list[h[j]]
  BY <1>1, <1>2, <1>3, <1>4
<1>6. \A j, k \in DOMAIN new : h[j] = h[k] => j = k
  BY <1>1, <1>2, <1>4
<1>7. ASSUME NEW m \in K \cup {i} PROVE \E j \in DOMAIN new : h[j] = m
  <2>1. CASE m = i
    <3>1. n + 1 \in DOMAIN new
      BY <1>2
    <3> QED
      BY <1>4, <2>1, <3>1
  <2>2. CASE m \in K
    <3>1. PICK j \in DOMAIN out : g[j] = m
      BY <1>1, <2>2
    <3>2. j \in DOMAIN new /\ h[j] = m
      BY <1>2, <1>4, <3>1
    <3> QED
      BY <3>2
  <2> QED
    BY <2>1, <2>2
<1> QED
  BY <1>4, <1>5, <1>6, <1>7 DEF Copies, new

(* Select keeps the elements at the positions keep, each once. *)
LEMMA SelectCopies ==
  ASSUME NEW T, NEW list \in Seq(T), NEW keep \in SUBSET DOMAIN list
  PROVE  Select(list, keep) \in Seq(T) /\ Copies(Select(list, keep), list, keep)
<1> DEFINE n == Len(list)
           f == CHOOSE f : UpTo(list, keep, n, f)
           Good(k) == f[k] \in Seq(T) /\ Copies(f[k], list, keep \cap 1..k)
           Bad == {k \in 0..n : ~ Good(k)}
<1>1. n \in Nat /\ DOMAIN list = 1..n
  OBVIOUS
<1>2. UpTo(list, keep, n, f)
  BY <1>1, UpToExists
<1>3. Select(list, keep) = f[n]
  BY DEF Select, UpTo
<1> HIDE DEF f
<1>4. /\ f[0] = <<>>
      /\ \A k \in 1..n : f[k] = IF k \in keep THEN Append(f[k - 1], list[k]) ELSE f[k - 1]
  <2> HIDE DEF n
  <2>1. f = [k \in 0..n |-> IF k = 0 THEN <<>>
                            ELSE IF k \in keep THEN Append(f[k - 1], list[k]) ELSE f[k - 1]]
    BY <1>2 DEF UpTo
  <2>2. 0 \in 0..n /\ \A k \in 1..n : k \in 0..n /\ k # 0
    BY <1>1
  <2> QED
    BY <2>1, <2>2
<1> HIDE DEF n, Good
<1>5. Bad = {}
  <2> SUFFICES ASSUME Bad # {} PROVE FALSE
    OBVIOUS
  <2>0. Bad \subseteq 0..n /\ Bad \subseteq Nat
    BY <1>1
  <2>1. PICK k \in Bad : \A j \in Bad : k <= j
    <3> HIDE DEF Bad
    <3> QED
      BY <2>0, Least
  <2>2. k # 0
    <3>1. <<>> \in Seq(T) /\ DOMAIN <<>> = {}
      OBVIOUS
    <3>2. Copies(<<>>, list, {})
      <4> DEFINE g == [j \in DOMAIN <<>> |-> j]
      <4>1. g \in [DOMAIN <<>> -> {}]
        BY <3>1
      <4> QED
        BY <3>1, <4>1 DEF Copies
    <3>3. keep \cap 1..0 = {}
      OBVIOUS
    <3> QED
      BY <1>4, <2>1, <3>1, <3>2, <3>3 DEF Good
  <2>3. k \in 1..n /\ k - 1 \in 0..n
    BY <1>1, <2>0, <2>1, <2>2
  <2>4. k - 1 \notin Bad
    <3> HIDE DEF Bad
    <3> QED
      BY <1>1, <2>1, <2>3
  <2>5. f[k - 1] \in Seq(T) /\ Copies(f[k - 1], list, keep \cap 1..k - 1)
    BY <2>3, <2>4 DEF Good
  <2>6. ~ Good(k)
    BY <2>1
  <2>7. CASE k \in keep
    <3>1. keep \cap 1..k = (keep \cap 1..k - 1) \cup {k} /\ k \notin keep \cap 1..k - 1
      BY <1>1, <2>3, <2>7
    <3>2. f[k] = Append(f[k - 1], list[k])
      BY <1>4, <2>3, <2>7
    <3>3. k \in DOMAIN list /\ list[k] \in T
      <4>1. k \in DOMAIN list
        BY <1>1, <2>3
      <4> QED
        BY <4>1
    <3> DEFINE K == keep \cap 1..k - 1
    <3>4. k \notin K /\ Copies(f[k - 1], list, K) /\ keep \cap 1..k = K \cup {k}
      BY <2>5, <3>1
    <3> HIDE DEF K
    <3>5. Copies(f[k], list, keep \cap 1..k)
      <4>1. Copies(Append(f[k - 1], list[k]), list, K \cup {k})
        BY <2>5, <3>3, <3>4, CopiesAppend
      <4> QED
        BY <3>2, <3>4, <4>1, Zenon
    <3>6. f[k] \in Seq(T)
      <4>1. ASSUME NEW s \in Seq(T), NEW e \in T PROVE Append(s, e) \in Seq(T)
        OBVIOUS
      <4> QED
        BY <2>5, <3>2, <3>3, <4>1, Zenon
    <3> QED
      BY <2>6, <3>5, <3>6 DEF Good
  <2>8. CASE k \notin keep
    <3>1. keep \cap 1..k = keep \cap 1..k - 1
      BY <1>1, <2>3, <2>8
    <3>2. f[k] = f[k - 1]
      BY <1>4, <2>3, <2>8
    <3> QED
      BY <2>5, <2>6, <3>1, <3>2 DEF Good
  <2> QED
    BY <2>7, <2>8
<1>6. Good(n)
  BY <1>1, <1>5
<1>7. keep \cap 1..n = keep
  BY <1>1
<1> QED
  BY <1>3, <1>6, <1>7 DEF Good

(* At most one taint of the operator in a list *)
OneOurs(list) ==
  \A i, j \in DOMAIN list : list[i].key = Ours /\ list[j].key = Ours => i = j

(* Leaving taints out makes no second one of the operator, and one that is *)
(* not left out is still there.                                            *)
LEMMA SelectTaints ==
  ASSUME NEW list \in Taints, NEW keep \in SUBSET DOMAIN list
  PROVE  /\ Select(list, keep) \in Taints
         /\ OneOurs(list) => OneOurs(Select(list, keep))
         /\ (\E i \in keep : list[i].key = Ours) => HasOurs(Select(list, keep))
<1>1. Select(list, keep) \in Taints /\ Copies(Select(list, keep), list, keep)
  BY SelectCopies DEF Taints
<1> DEFINE out == Select(list, keep)
<1>2. PICK g \in [DOMAIN out -> keep] :
        /\ \A j \in DOMAIN out : out[j] = list[g[j]]
        /\ \A j, k \in DOMAIN out : g[j] = g[k] => j = k
        /\ \A i \in keep : \E j \in DOMAIN out : g[j] = i
  BY <1>1 DEF Copies
<1> HIDE DEF out
<1>3. ASSUME OneOurs(list), NEW j \in DOMAIN out, NEW k \in DOMAIN out,
             out[j].key = Ours, out[k].key = Ours
      PROVE  j = k
  <2>1. g[j] \in DOMAIN list /\ g[k] \in DOMAIN list
    BY <1>2
  <2>2. list[g[j]].key = Ours /\ list[g[k]].key = Ours
    BY <1>2, <1>3
  <2>3. g[j] = g[k]
    BY <1>3, <2>1, <2>2 DEF OneOurs
  <2> QED
    BY <1>2, <2>3
<1>4. ASSUME NEW i \in keep, list[i].key = Ours PROVE HasOurs(out)
  <2>1. PICK j \in DOMAIN out : g[j] = i
    BY <1>2
  <2> QED
    BY <1>2, <1>4, <2>1 DEF HasOurs
<1> QED
  BY <1>1, <1>3, <1>4 DEF OneOurs, out

(* A taint with another key, or the first of the operator, is appended. *)
LEMMA AppendTaint ==
  ASSUME NEW list \in Taints, NEW t \in AnyTaint
  PROVE  /\ Append(list, t) \in Taints
         /\ HasOurs(list) => HasOurs(Append(list, t))
         /\ t.key = Ours => HasOurs(Append(list, t))
         /\ OneOurs(list) /\ (t.key # Ours \/ ~HasOurs(list)) => OneOurs(Append(list, t))
<1> DEFINE new == Append(list, t)
           n == Len(list)
<1>1. /\ new \in Taints /\ n \in Nat
      /\ DOMAIN list = 1..n /\ DOMAIN new = 1..n + 1
      /\ new[n + 1] = t /\ \A i \in 1..n : new[i] = list[i]
  BY DEF Taints
<1> HIDE DEF new, n
<1>2. HasOurs(list) => HasOurs(new)
  BY <1>1 DEF HasOurs
<1>3. t.key = Ours => HasOurs(new)
  <2>1. n + 1 \in DOMAIN new
    BY <1>1
  <2> QED
    BY <1>1, <2>1 DEF HasOurs
<1>4. ASSUME OneOurs(list), t.key # Ours \/ ~HasOurs(list) PROVE OneOurs(new)
  BY <1>1, <1>4 DEF OneOurs, HasOurs
<1> QED
  BY <1>1, <1>2, <1>3, <1>4 DEF new

(* Execute always wants its own taint on the node, and one of it. *)
LEMMA WantTaints ==
  ASSUME NEW list \in Taints, NEW now \in Nat
  PROVE  /\ Want(list, now) \in Taints
         /\ HasOurs(Want(list, now))
         /\ OneOurs(list) => OneOurs(Want(list, now))
<1> DEFINE p == Pruned(list, now)
<1>1. p \in Taints /\ (OneOurs(list) => OneOurs(p))
  BY SelectTaints DEF Pruned
<1>2. Taint(Ours, now) \in AnyTaint /\ Taint(Ours, now).key = Ours
  BY DEF Taint, AnyTaint
<1> HIDE DEF p
<1>3. CASE HasOurs(p)
  BY <1>1, <1>3 DEF Want, p
<1>4. CASE ~HasOurs(p)
  <2>1. Want(list, now) = Append(p, Taint(Ours, now))
    BY <1>4 DEF Want, p
  <2> QED
    BY <1>1, <1>2, <1>4, <2>1, AppendTaint
<1> QED
  BY <1>3, <1>4

(* Lists that equalTaints finds equal both have it or both lack it. *)
LEMMA EqualTaintsHasOurs ==
  ASSUME NEW a \in Taints, NEW b \in Taints, equalTaints(a, b), HasOurs(b)
  PROVE  HasOurs(a)
BY DEF equalTaints, HasOurs, Taints

(* Another client takes a key off a node. *)
LEMMA WithoutTaints ==
  ASSUME NEW list \in Taints, NEW key
  PROVE  /\ Without(list, key) \in Taints
         /\ OneOurs(list) => OneOurs(Without(list, key))
         /\ key # Ours /\ HasOurs(list) => HasOurs(Without(list, key))
<1> DEFINE keep == {i \in DOMAIN list : list[i].key # key}
<1>1. keep \in SUBSET DOMAIN list /\ Without(list, key) = Select(list, keep)
  BY DEF Without
<1>2. key # Ours /\ HasOurs(list) => \E i \in keep : list[i].key = Ours
  BY DEF HasOurs
<1> HIDE DEF keep
<1> QED
  BY <1>1, <1>2, SelectTaints
----------------------------------------------------------------------------
(* Types.  They need that the UID of an existing pod was handed out.       *)
UidsUsed == \A n \in Names : pods[n] # None => pods[n].uid \in usedUids

(* The UIDs of two names differ. *)
UidsDistinct ==
  \A m, n \in Names :
    pods[m] # None /\ pods[n] # None /\ pods[m].uid = pods[n].uid => m = n

TypeInv == TypeOK /\ UidsUsed /\ UidsDistinct

LEMMA InitTypeInv == Init => TypeInv
<1> SUFFICES ASSUME Init PROVE TypeInv
  OBVIOUS
<1>1. <<>> \in Taints
  BY DEF Taints
<1> QED
  BY <1>1 DEF Init, TypeInv, TypeOK, UidsUsed, UidsDistinct

(* The rest of the cluster: UIDs are handed out once, and stay with a pod. *)
LEMMA EnvironmentTypeInv ==
  ASSUME TypeInv, Environment
  PROVE  TypeInv'
<1> USE DEF TypeInv
<1>1. ASSUME NEW n \in Names, NEW uid \in Uids, CreatePod(n, uid) PROVE TypeInv'
  <2>1. /\ pods[n] = None /\ uid \notin usedUids
        /\ pods' = [pods EXCEPT ![n] = [uid |-> uid, node |-> None]]
        /\ usedUids' = usedUids \cup {uid} /\ usedNames' = usedNames \cup {n}
        /\ UNCHANGED <<taints, clock, caches, worker, crashes, evicted>>
    BY <1>1 DEF CreatePod
  <2>2. [uid |-> uid, node |-> None] \in Pod
    BY DEF Pod
  <2>3. pods' \in [Names -> Pod \cup {None}]
    BY <2>1, <2>2 DEF TypeOK
  <2>4. TypeOK'
    BY <2>1, <2>3 DEF TypeOK, caches, worker
  <2>5. UidsUsed' /\ UidsDistinct'
    BY <2>1 DEF TypeOK, UidsUsed, UidsDistinct
  <2> QED
    BY <2>4, <2>5
<1>2. ASSUME NEW n \in Names, NEW node \in Nodes, SchedulePod(n, node) PROVE TypeInv'
  <2>1. /\ pods[n] # None
        /\ pods' = [pods EXCEPT ![n].node = node]
        /\ UNCHANGED <<taints, clock, usedUids, usedNames, caches, worker, crashes, evicted>>
    BY <1>2 DEF SchedulePod
  <2>2. pods[n] \in Pod
    BY <2>1 DEF TypeOK
  <2>3. /\ [pods[n] EXCEPT !.node = node] \in Pod
        /\ [pods[n] EXCEPT !.node = node].uid = pods[n].uid
    BY <2>2 DEF Pod
  <2>4. /\ pods' \in [Names -> Pod \cup {None}]
        /\ \A m \in Names : pods'[m] # None =>
             pods[m] # None /\ pods'[m].uid = pods[m].uid
    BY <2>1, <2>3 DEF TypeOK
  <2>5. TypeOK'
    BY <2>1, <2>4 DEF TypeOK, caches, worker
  <2> QED
    BY <2>1, <2>4, <2>5 DEF UidsUsed, UidsDistinct
<1>3. ASSUME NEW n \in Names, DeletePod(n) PROVE TypeInv'
  BY <1>3 DEF DeletePod, TypeOK, UidsUsed, UidsDistinct, caches, worker
<1>4. ASSUME NEW node \in Nodes, NEW f \in Foreign, ForeignTaint(node, f) PROVE TypeInv'
  <2>1. Taint(f, clock) \in AnyTaint
    BY DEF TypeOK, Taint, AnyTaint
  <2>2. Append(taints[node], Taint(f, clock)) \in Taints
    BY <2>1, AppendTaint DEF TypeOK
  <2>3. /\ taints' = [taints EXCEPT ![node] = Append(taints[node], Taint(f, clock))]
        /\ UNCHANGED <<pods, clock, usedUids, usedNames, caches, worker, crashes, evicted>>
    BY <1>4 DEF ForeignTaint
  <2> QED
    BY <2>2, <2>3 DEF TypeOK, UidsUsed, UidsDistinct, caches, worker
<1>5. ASSUME NEW node \in Nodes, NEW key \in Foreign \cup {Ours}, Untaint(node, key)
      PROVE  TypeInv'
  <2>1. Without(taints[node], key) \in Taints
    BY WithoutTaints DEF TypeOK
  <2>2. /\ taints' = [taints EXCEPT ![node] = Without(taints[node], key)]
        /\ UNCHANGED <<pods, clock, usedUids, usedNames, caches, worker, crashes, evicted>>
    BY <1>5 DEF Untaint
  <2> QED
    BY <2>1, <2>2 DEF TypeOK, UidsUsed, UidsDistinct, caches, worker
<1>6. CASE Tick
  BY <1>6 DEF Tick, TypeOK, UidsUsed, UidsDistinct, caches, worker
<1> QED
  BY <1>1, <1>2, <1>3, <1>4, <1>5, <1>6 DEF Environment

(* Execute returns from any of its steps. *)
LEMMA ReturnTypeInv ==
  ASSUME TypeInv, Return, UNCHANGED <<cluster, evicted>>
  PROVE  TypeInv'
<1>1. <<>> \in Taints
  BY DEF Taints
<1> QED
  BY <1>1 DEF Return, cluster, caches, TypeInv, TypeOK, UidsUsed, UidsDistinct

(* The steps of the worker, the informers and a restart *)
LEMMA OperatorTypeInv ==
  ASSUME TypeInv, Operator \/ Sync \/ Crash
  PROVE  TypeInv'
<1> USE DEF TypeInv, cluster, caches
<1>1. CASE Query
  BY <1>1 DEF Query, TypeOK, UidsUsed, UidsDistinct
<1>2. CASE List
  BY <1>2 DEF List, TypeOK, UidsUsed, UidsDistinct
<1>3. ASSUME NEW n \in Names, GetPod(n) PROVE TypeInv'
  <2>1. CASE Scheduled(podCache[n])
    <3>1. podCache[n] \in Pod /\ podCache[n].node # None
      BY <2>1 DEF Scheduled, TypeOK
    <3> QED
      BY <1>3, <2>1, <3>1 DEF GetPod, TypeOK, UidsUsed, UidsDistinct
  <2>2. CASE ~Scheduled(podCache[n])
    BY <1>3, <2>2 DEF GetPod, TypeOK, UidsUsed, UidsDistinct
  <2> QED
    BY <2>1, <2>2
<1>4. CASE GetNode
  <2>1. pod.node \in Nodes
    BY <1>4 DEF GetNode, TypeOK, Pod
  <2>2. Want(nodeCache[pod.node], clock) \in Taints
    BY <2>1, WantTaints DEF TypeOK
  <2> QED
    BY <1>4, <2>2 DEF GetNode, TypeOK, UidsUsed, UidsDistinct
<1>5. CASE Patch
  <2>1. /\ taints' = [taints EXCEPT ![pod.node] = wanted] /\ pc' = "evict" /\ pc = "patch"
        /\ UNCHANGED <<pods, clock, usedUids, usedNames, caches, saturatedUIDs, work,
                       name, pod, wanted, crashes, evicted>>
    BY <1>5 DEF Patch
  <2>2. taints' \in [Nodes -> Taints]
    BY <2>1 DEF TypeOK
  <2> QED
    BY <2>1, <2>2 DEF TypeOK, UidsUsed, UidsDistinct
<1>6. CASE GetNodeFails \/ PatchFails \/ EvictFails
  BY <1>6, ReturnTypeInv DEF GetNodeFails, PatchFails, EvictFails
<1>7. CASE Evict
  <2>1. name \in Names /\ pods[name] # None
    BY <1>7 DEF Evict, TypeOK
  <2>2. /\ pods' = [pods EXCEPT ![name] = None]
        /\ evicted' = evicted \cup {pods[name].uid}
        /\ pc' = "loop" /\ work' = work \ {name}
        /\ name' = None /\ pod' = None /\ wanted' = <<>>
        /\ UNCHANGED <<caches, saturatedUIDs, crashes, taints, clock, usedUids, usedNames>>
    BY <1>7 DEF Evict, Return
  <2>3. <<>> \in Taints /\ pods[name].uid \in usedUids
    BY <2>1 DEF Taints, UidsUsed
  <2>4. TypeOK'
    BY <2>2, <2>3 DEF TypeOK
  <2> QED
    BY <2>2, <2>4 DEF TypeOK, UidsUsed, UidsDistinct
<1>8. CASE Done
  BY <1>8 DEF Done, TypeOK, UidsUsed, UidsDistinct
<1>9. CASE Sync
  BY <1>9 DEF Sync, SyncPod, SyncNode, worker, TypeOK, UidsUsed, UidsDistinct
<1>10. CASE Crash
  <2>1. <<>> \in Taints
    BY DEF Taints
  <2> QED
    BY <1>10, <2>1 DEF Crash, TypeOK, UidsUsed, UidsDistinct
<1> QED
  BY <1>1, <1>2, <1>3, <1>4, <1>5, <1>6, <1>7, <1>8, <1>9, <1>10 DEF Operator

LEMMA NextTypeInv == TypeInv /\ [Next]_vars => TypeInv'
<1> SUFFICES ASSUME TypeInv, [Next]_vars PROVE TypeInv'
  OBVIOUS
<1>1. CASE UNCHANGED vars
  BY <1>1 DEF vars, cluster, caches, worker, TypeInv, TypeOK, UidsUsed, UidsDistinct
<1> QED
  BY <1>1, EnvironmentTypeInv, OperatorTypeInv DEF Next

(* Every list of taints is one, whatever clients and operator write, and   *)
(* while Execute works it has a pod with a node.                           *)
THEOREM TypeCorrect == Spec => []TypeOK
<1>1. TypeInv => TypeOK
  BY DEF TypeInv
<1> QED
  BY <1>1, InitTypeInv, NextTypeInv, PTL DEF Spec

----------------------------------------------------------------------------
(* No list has two taints of the operator: not the server's, not the       *)
(* cached one a pass starts from, and not the one it is about to write.    *)
ListsOneOurs ==
  /\ \A node \in Nodes : OneOurs(taints[node]) /\ OneOurs(nodeCache[node])
  /\ OneOurs(wanted)

LEMMA NextListsOneOurs == TypeInv /\ ListsOneOurs /\ [Next]_vars => ListsOneOurs'
<1> SUFFICES ASSUME TypeInv, ListsOneOurs, [Next]_vars PROVE ListsOneOurs'
  OBVIOUS
<1> USE DEF TypeInv, ListsOneOurs
<1>1. ASSUME NEW node \in Nodes, NEW f \in Foreign, ForeignTaint(node, f) PROVE ListsOneOurs'
  <2>1. Taint(f, clock) \in AnyTaint /\ Taint(f, clock).key # Ours
    BY ConstantsAssumption DEF TypeOK, Taint, AnyTaint
  <2>2. OneOurs(Append(taints[node], Taint(f, clock)))
    BY <2>1, AppendTaint DEF TypeOK
  <2>3. /\ taints' = [taints EXCEPT ![node] = Append(taints[node], Taint(f, clock))]
        /\ UNCHANGED <<nodeCache, wanted>>
    BY <1>1 DEF ForeignTaint, caches, worker
  <2> QED
    BY <2>2, <2>3 DEF TypeOK
<1>2. ASSUME NEW node \in Nodes, NEW key \in Foreign \cup {Ours}, Untaint(node, key)
      PROVE  ListsOneOurs'
  <2>1. OneOurs(Without(taints[node], key))
    BY WithoutTaints DEF TypeOK
  <2>2. /\ taints' = [taints EXCEPT ![node] = Without(taints[node], key)]
        /\ UNCHANGED <<nodeCache, wanted>>
    BY <1>2 DEF Untaint, caches, worker
  <2> QED
    BY <2>1, <2>2 DEF TypeOK
<1>3. CASE GetNode
  <2>1. pod.node \in Nodes
    BY <1>3 DEF GetNode, TypeOK, Pod
  <2>2. OneOurs(Want(nodeCache[pod.node], clock))
    BY <2>1, WantTaints DEF TypeOK
  <2> QED
    BY <1>3, <2>2 DEF GetNode, cluster, caches
<1>4. CASE Patch
  BY <1>4 DEF Patch, TypeOK, caches
<1>5. ASSUME NEW node \in Nodes, SyncNode(node) PROVE ListsOneOurs'
  BY <1>5 DEF SyncNode, TypeOK, cluster, worker
<1>6. CASE Crash
  <2>1. OneOurs(<<>>)
    BY DEF OneOurs
  <2> QED
    BY <1>6, <2>1 DEF Crash, cluster
<1>7. CASE Return /\ UNCHANGED taints
  <2>1. OneOurs(<<>>)
    BY DEF OneOurs
  <2> QED
    BY <1>7, <2>1 DEF Return, caches
<1>8. CASE UNCHANGED <<taints, nodeCache, wanted>>
  BY <1>8
<1> QED
  BY <1>1, <1>2, <1>3, <1>4, <1>5, <1>6, <1>7, <1>8
     DEF Next, vars, cluster, caches, worker, Operator, Sync, Environment, Query, List,
         GetPod, GetNodeFails, PatchFails, Evict, EvictFails, Done, SyncPod,
         CreatePod, SchedulePod, DeletePod, Tick

(* A node never carries two taints of the operator, also when Execute      *)
(* computed its list from a stale cache or other clients changed it.       *)
THEOREM NodeHasOneTaint == Spec => []OursUnique
<1>1. Init => ListsOneOurs
  <2>1. OneOurs(<<>>)
    BY DEF OneOurs
  <2> QED
    BY <2>1 DEF Init, ListsOneOurs
<1>2. ListsOneOurs => OursUnique
  BY DEF ListsOneOurs, OneOurs, OursUnique
<1> QED
  BY <1>1, <1>2, InitTypeInv, NextTypeInv, NextListsOneOurs, PTL DEF Spec

----------------------------------------------------------------------------
(* What the worker knows of the taint: a cache that has it is right, what  *)
(* is going to be written has it, and before the eviction the node has it. *)
KnownTaints ==
  /\ \A node \in Nodes : HasOurs(nodeCache[node]) => HasOurs(taints[node])
  /\ pc = "patch" => HasOurs(wanted)
  /\ pc = "evict" => HasOurs(taints[pod.node])

(* No step takes the taint of the operator off a node: other clients leave *)
(* it alone, and a patch always contains it.                               *)
LEMMA StepKeepsTaint ==
  ASSUME ~AdminUntaints, TypeInv, KnownTaints, [Next]_vars
  PROVE  \A node \in Nodes : HasOurs(taints[node]) => HasOurs(taints'[node])
<1> USE DEF TypeInv, KnownTaints
<1> DEFINE Stays == \A node \in Nodes : HasOurs(taints[node]) => HasOurs(taints'[node])
<1>1. ASSUME NEW node \in Nodes, NEW f \in Foreign, ForeignTaint(node, f) PROVE Stays
  <2>1. Taint(f, clock) \in AnyTaint
    BY DEF TypeOK, Taint, AnyTaint
  <2>2. HasOurs(taints[node]) => HasOurs(Append(taints[node], Taint(f, clock)))
    BY <2>1, AppendTaint DEF TypeOK
  <2>3. taints' = [taints EXCEPT ![node] = Append(taints[node], Taint(f, clock))]
    BY <1>1 DEF ForeignTaint
  <2> QED
    BY <2>2, <2>3 DEF TypeOK
<1>2. ASSUME NEW node \in Nodes, NEW key \in Foreign \cup {Ours}, Untaint(node, key)
      PROVE  Stays
  <2>1. key # Ours
    BY <1>2, ConstantsAssumption DEF Untaint
  <2>2. HasOurs(taints[node]) => HasOurs(Without(taints[node], key))
    BY <2>1, WithoutTaints DEF TypeOK
  <2>3. taints' = [taints EXCEPT ![node] = Without(taints[node], key)]
    BY <1>2 DEF Untaint
  <2> QED
    BY <2>2, <2>3 DEF TypeOK
<1>3. CASE Patch
  BY <1>3 DEF Patch, TypeOK
<1>4. CASE UNCHANGED taints
  BY <1>4
<1> QED
  BY <1>1, <1>2, <1>3, <1>4
     DEF Next, vars, cluster, Operator, Sync, Environment, Crash, Query, List, GetPod,
         GetNode, GetNodeFails, PatchFails, Evict, EvictFails, Done, Return, SyncPod,
         SyncNode, CreatePod, SchedulePod, DeletePod, Tick

LEMMA NextKnownTaints ==
  ASSUME ~AdminUntaints, TypeInv, KnownTaints, [Next]_vars
  PROVE  KnownTaints'
<1> USE DEF TypeInv, KnownTaints
<1>1. \A node \in Nodes : HasOurs(taints[node]) => HasOurs(taints'[node])
  BY StepKeepsTaint
<1>2. pc \in {"node", "patch", "evict"} => pod.node \in Nodes
  BY DEF TypeOK, Pod
<1>3. CASE GetNode
  <2>1. /\ wanted' = Want(nodeCache[pod.node], clock)
        /\ pc' = IF equalTaints(nodeCache[pod.node], wanted') THEN "evict" ELSE "patch"
        /\ pod.node \in Nodes
        /\ UNCHANGED <<taints, nodeCache, pod>>
    BY <1>2, <1>3 DEF GetNode, cluster, caches
  <2>2. wanted' \in Taints /\ HasOurs(wanted')
    BY <2>1, WantTaints DEF TypeOK
  <2>3. pc' = "evict" => HasOurs(taints[pod.node])
    <3> SUFFICES ASSUME pc' = "evict" PROVE HasOurs(nodeCache[pod.node])
      BY <2>1
    <3>1. equalTaints(nodeCache[pod.node], wanted') /\ nodeCache[pod.node] \in Taints
      BY <2>1 DEF TypeOK
    <3> QED
      BY <2>2, <3>1, EqualTaintsHasOurs
  <2> QED
    BY <2>1, <2>2, <2>3
<1>4. CASE Patch
  <2>1. HasOurs(wanted) /\ pod.node \in Nodes
    BY <1>2, <1>4 DEF Patch
  <2>2. /\ taints' = [taints EXCEPT ![pod.node] = wanted] /\ pc' = "evict"
        /\ UNCHANGED <<nodeCache, wanted, pod>>
    BY <1>4 DEF Patch, caches
  <2>3. HasOurs(taints'[pod.node])
    BY <2>1, <2>2 DEF TypeOK
  <2> QED
    BY <1>1, <2>2, <2>3
<1>5. ASSUME NEW node \in Nodes, SyncNode(node) PROVE KnownTaints'
  BY <1>5 DEF SyncNode, TypeOK, cluster, worker
<1>6. CASE Crash
  BY <1>6 DEF Crash, cluster
<1>7. CASE UNCHANGED nodeCache /\ pc' \in {"list", "loop", "node", "idle"}
  BY <1>1, <1>7
<1>8. CASE UNCHANGED <<nodeCache, wanted, pod, pc>>
  BY <1>1, <1>2, <1>8
<1> QED
  BY <1>3, <1>4, <1>5, <1>6, <1>7, <1>8
     DEF Next, vars, cluster, caches, worker, Operator, Sync, Environment, Query, List,
         GetPod, GetNodeFails, PatchFails, Evict, EvictFails, Done, Return, SyncPod,
         CreatePod, SchedulePod, DeletePod, ForeignTaint, Untaint, Tick

LEMMA InitKnownTaints == Init => KnownTaints
BY DEF Init, KnownTaints, HasOurs

----------------------------------------------------------------------------
(* A name means the same pod to server, cache and worker, and that pod     *)
(* stays on the node it was scheduled to.                                  *)
NodesAgree ==
  /\ \A n \in Names : pods[n] # None /\ Scheduled(podCache[n]) =>
       pods[n].node = podCache[n].node
  /\ pc \in {"node", "patch", "evict"} /\ pods[name] # None => pods[name].node = pod.node

LEMMA NextNodesAgree ==
  ASSUME ~NameReuse, TypeInv, NInv, NodesAgree, [Next]_vars
  PROVE  NodesAgree'
<1> USE DEF TypeInv, NodesAgree
<1>1. ASSUME NEW n \in Names, NEW uid \in Uids, CreatePod(n, uid) PROVE NodesAgree'
  <2>1. podCache[n] = None /\ n \notin work
    BY <1>1 DEF CreatePod, NInv, NamesUsed
  <2>2. /\ pods' = [pods EXCEPT ![n] = [uid |-> uid, node |-> None]]
        /\ UNCHANGED <<podCache, name, pod, pc, work>>
    BY <1>1 DEF CreatePod, caches, worker
  <2>3. pc \in {"node", "patch", "evict"} => name # n /\ name \in Names
    BY <2>1 DEF TypeOK
  <2> QED
    BY <2>1, <2>2, <2>3 DEF TypeOK, Scheduled
<1>2. ASSUME NEW n \in Names, NEW node \in Nodes, SchedulePod(n, node) PROVE NodesAgree'
  <2>1. /\ pods[n] # None /\ pods[n].node = None
        /\ pods' = [pods EXCEPT ![n].node = node]
        /\ UNCHANGED <<podCache, name, pod, pc, work>>
    BY <1>2 DEF SchedulePod, caches, worker
  <2>2. ~Scheduled(podCache[n])
    BY <2>1 DEF Scheduled
  <2>3. pc \in {"node", "patch", "evict"} => name # n /\ name \in Names
    BY <2>1 DEF TypeOK
  <2>4. \A m \in Names : m # n => pods'[m] = pods[m]
    BY <2>1 DEF TypeOK
  <2> QED
    BY <2>1, <2>2, <2>3, <2>4
<1>3. ASSUME NEW n \in Names, DeletePod(n) PROVE NodesAgree'
  BY <1>3 DEF DeletePod, TypeOK, caches, worker
<1>4. ASSUME NEW n \in Names, SyncPod(n) PROVE NodesAgree'
  BY <1>4 DEF SyncPod, TypeOK, cluster, worker, Scheduled
<1>5. ASSUME NEW n \in Names, GetPod(n) PROVE NodesAgree'
  BY <1>5 DEF GetPod, cluster, caches
<1>6. CASE Crash
  BY <1>6 DEF Crash, cluster
<1>7. CASE Evict
  BY <1>7 DEF Evict, Return, caches, TypeOK
<1>8. CASE UNCHANGED <<pods, podCache>> /\ pc' \in {"list", "loop", "idle"}
  BY <1>8
<1>9. CASE UNCHANGED <<pods, podCache, name, pod>> /\ (pc' = pc \/ pc \in {"node", "patch"})
  BY <1>9
<1> QED
  BY <1>1, <1>2, <1>3, <1>4, <1>5, <1>6, <1>7, <1>8, <1>9
     DEF Next, vars, cluster, caches, worker, Operator, Sync, Environment, Query, List,
         GetNode, GetNodeFails, Patch, PatchFails, EvictFails, Done, Return, SyncNode,
         ForeignTaint, Untaint, Tick

(* Only the eviction of the pod Execute holds adds to the history, and the *)
(* node of that pod has the taint.                                         *)
LEMMA StepTaintBeforeEvict ==
  ASSUME TypeInv, KnownTaints, NodesAgree, [Next]_vars,
         NEW n \in Names, pods[n] # None, pods[n].uid \in evicted' \ evicted
  PROVE  HasOurs(taints[pods[n].node])
<1>1. Evict
  BY DEF Next, vars, Operator, Sync, Environment, Crash, Query, List, GetPod, GetNode,
         GetNodeFails, Patch, PatchFails, EvictFails, Done, SyncPod, SyncNode,
         CreatePod, SchedulePod, DeletePod, ForeignTaint, Untaint, Tick
<1>2. /\ pc = "evict" /\ pods[name] # None /\ name \in Names
      /\ evicted' = evicted \cup {pods[name].uid}
  BY <1>1 DEF Evict, TypeInv, TypeOK
<1>3. pods[n].uid = pods[name].uid
  BY <1>2
<1>4. n = name
  BY <1>2, <1>3 DEF TypeInv, UidsDistinct
<1> QED
  BY <1>2, <1>4 DEF KnownTaints, NodesAgree

(* Whatever the caches hold and wherever a pass was cut short, a pod is    *)
(* evicted only while its node carries the taint on the API server, given  *)
(* that pod names are not reused and nobody else removes the taint.        *)
THEOREM TaintsBeforeEvicting ==
  ~NameReuse /\ ~AdminUntaints /\ Spec => TaintBeforeEvict
<1> SUFFICES ASSUME ~NameReuse, ~AdminUntaints PROVE Spec => TaintBeforeEvict
  OBVIOUS
<1>1. NInv /\ [Next]_vars => NInv'
  BY NextNInv
<1>2. TypeInv /\ KnownTaints /\ [Next]_vars => KnownTaints'
  BY NextKnownTaints
<1>3. TypeInv /\ NInv /\ NodesAgree /\ [Next]_vars => NodesAgree'
  BY NextNodesAgree
<1>4. Init => NodesAgree
  BY DEF Init, NodesAgree
<1>5. TypeInv /\ KnownTaints /\ NodesAgree /\ [Next]_vars =>
        [\A n \in Names : pods[n] # None /\ pods[n].uid \in evicted' \ evicted =>
           HasOurs(taints[pods[n].node])]_vars
  BY StepTaintBeforeEvict
<1> QED
  BY <1>1, <1>2, <1>3, <1>4, <1>5, InitNInv, InitTypeInv, NextTypeInv, InitKnownTaints, PTL
     DEF Spec, TaintBeforeEvict

=============================================================================
