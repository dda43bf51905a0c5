------------------------------- MODULE BpfMap -------------------------------
(***************************************************************************)
(* What a pinned statistics map promises to the collector that reads it    *)
(* (src/collector/main.go, readStats), one word of it: an entry appears    *)
(* with zero, grows by single samples, and goes when the collector deletes *)
(* it; the entry of a cgroup that is not settled may start again from      *)
(* zero.  A settled entry is never reset and never disappears.  There are  *)
(* no elements, pointers, stamps or programs here: BlockLatency and        *)
(* RunqLatency implement this, Collector relies on it.                     *)
(***************************************************************************)
EXTENDS Naturals

CONSTANTS Cgroups, Settled, None

VARIABLE bpf   \* the word in the entry of each cgroup, or None

Init ==
  /\ bpf \in [Cgroups -> Nat \cup {None}]
  /\ \A cg \in Cgroups : bpf[cg] # None <=> cg \in Settled

Start(cg) ==
  /\ cg \notin Settled
  /\ bpf' = [bpf EXCEPT ![cg] = 0]

Count(cg) ==
  /\ bpf[cg] # None
  /\ bpf' = [bpf EXCEPT ![cg] = @ + 1]

Remove(cg) ==
  /\ cg \notin Settled
  /\ bpf' = [bpf EXCEPT ![cg] = None]

Next == \E cg \in Cgroups : Start(cg) \/ Count(cg) \/ Remove(cg)

Spec == Init /\ [][Next]_bpf

=============================================================================
