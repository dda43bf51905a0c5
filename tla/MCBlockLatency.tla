--------------------------- MODULE MCBlockLatency ---------------------------
(* BlockLatency for TLC: requests are interchangeable, and so are the      *)
(* elements of the pool.  The settled cgroup issues two more requests, one *)
(* new cgroup two (so that two CPUs insert its entry) and another one.     *)
EXTENDS BlockLatency, TLC

CONSTANTS settled, fresh1, fresh2

Issues == [cg \in Cgroups |-> CASE cg = settled -> 3
                                [] cg = fresh1  -> 2
                                [] cg = fresh2  -> 1]

Symmetry == Permutations(Requests) \cup Permutations(Slots)

=============================================================================
