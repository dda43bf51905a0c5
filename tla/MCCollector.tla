----------------------------- MODULE MCCollector -----------------------------
(* Collector for TLC: cgroups c1, c2 of two pods, or the two containers of *)
(* one pod, alone or beside a cgroup c3 of another pod.                    *)
EXTENDS Collector, TLC

CONSTANTS c1, c2, c3, k1, k2

TwoPods    == (c1 :> k1) @@ (c2 :> k2)
OnePod     == (c1 :> k1) @@ (c2 :> k1)
Containers == (c1 :> k1) @@ (c2 :> k1) @@ (c3 :> k2)
BlockOnly  == {"block"}
BlockRunq  == {"block", "runq"}

(* How many events a cgroup has in a map *)
OneEvent    == [m \in Maps |-> [cg \in Cgroups |-> 1]]
TwoEvents   == [m \in Maps |-> [cg \in Cgroups |-> 2]]
MixedEvents == ("block" :> (c1 :> 2 @@ c2 :> 1)) @@ ("runq" :> (c1 :> 1 @@ c2 :> 0))

=============================================================================
