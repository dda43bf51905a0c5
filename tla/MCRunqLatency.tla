--------------------------- MODULE MCRunqLatency ----------------------------
(* RunqLatency for TLC: the idle tasks i1, i2 of two CPUs in the settled   *)
(* root cgroup, and three tasks of a new cgroup: t1 and t2 use one pid     *)
(* after each other, t3 lives beside them, so that both CPUs can insert    *)
(* the entry of the cgroup.  The elements are interchangeable, so are t1   *)
(* and t2 and so are the CPUs with their idle tasks.                       *)
EXTENDS RunqLatency, TLC

CONSTANTS p1, p2, i1, i2, t1, t2, t3, root, pod

IdleTasks == (p1 :> i1) @@ (p2 :> i2)
Pids      == (i1 :> 0) @@ (i2 :> 0) @@ (t1 :> 1) @@ (t2 :> 1) @@ (t3 :> 2)
CgroupIds == (i1 :> root) @@ (i2 :> root) @@ (t1 :> pod) @@ (t2 :> pod) @@ (t3 :> pod)

SwapCpus  == (p1 :> p2) @@ (p2 :> p1) @@ (i1 :> i2) @@ (i2 :> i1)
SwapTasks == (t1 :> t2) @@ (t2 :> t1)
Same(f)   == [x \in DOMAIN f |-> x]

Symmetry ==
  {s @@ c @@ t : s \in Permutations(Slots), c \in {SwapCpus, Same(SwapCpus)},
                 t \in {SwapTasks, Same(SwapTasks)}}

=============================================================================
