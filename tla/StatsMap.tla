------------------------------ MODULE StatsMap ------------------------------
(***************************************************************************)
(* The statistics map of an eBPF object, stats_by_cgroup of                *)
(* block_latency.c and runq_stats_by_cgroup of runq_latency.c, as the      *)
(* programs and the collector use it: a preallocated BPF hash map.         *)
(*                                                                         *)
(* bpf_map_lookup_elem returns a POINTER to the element of the map.  A     *)
(* deleted or replaced element goes back to the free list at once and may  *)
(* be given to another key while a program still holds the pointer, so     *)
(* the elements (Slots) and the table that leads to them are separate.     *)
(* One update of an existing key takes a spare element first, hence more   *)
(* Slots than StatsMax.                                                    *)
(***************************************************************************)
EXTENDS Naturals, FiniteSets

CONSTANTS
  Cgroups,     \* cgroup ids, the keys
  Settled,     \* cgroups that have an entry already and that the collector
               \* resolves, so that it never deletes the entry
  Slots,       \* the preallocated elements
  None,        \* NULL, and "no entry"
  StatsMax     \* max_entries

ASSUME StatsAssumption ==
  /\ None \notin Cgroups \cup Slots \cup Nat
  /\ Settled \subseteq Cgroups
  /\ StatsMax \in Nat

ASSUME PoolAssumption ==
  /\ IsFiniteSet(Slots) /\ IsFiniteSet(Cgroups)
  /\ Cardinality(Settled) <= StatsMax
  /\ StatsMax < Cardinality(Slots)

VARIABLES
  table,       \* the element of each cgroup, or None
  elem         \* the counters stored in each element

Entries == {cg \in Cgroups : table[cg] # None}
Free    == {s \in Slots : \A cg \in Cgroups : table[cg] # s}

(* A zero insert finds room: the key is there or the map is not full. *)
StatsRoom(cg) == table[cg] # None \/ Cardinality(Entries) < StatsMax

(* Every settled cgroup had one sample counted before the programs start.  *)
(* Settled = {} is the state right after the objects are loaded.           *)
StatsInit(Words) ==
  /\ table \in [Cgroups -> Slots \cup {None}]
  /\ \A cg \in Cgroups : table[cg] # None <=> cg \in Settled
  /\ \A c, d \in Settled : table[c] = table[d] => c = d
  /\ elem = [s \in Slots |->
               [w \in Words |-> IF s \in Free THEN 0 ELSE 1]]

(* Mutant: the recycled element keeps the counters of its last owner. *)
InsertUnzeroed(cg, zero) ==
  \/ /\ StatsRoom(cg)
     /\ \E s \in Free : table' = [table EXCEPT ![cg] = s]
     /\ UNCHANGED elem
  \/ /\ ~StatsRoom(cg)
     /\ UNCHANGED <<table, elem>>

(* bpf_map_update_elem(map, &cgroup_id, &zero, BPF_ANY): a free element is *)
(* zeroed and linked, in place of the one the key has if another CPU       *)
(* inserted it since the lookup.  The programs do not look at a failure.   *)
Insert(cg, zero) ==
  \/ /\ StatsRoom(cg)
     /\ \E s \in Free :
          /\ table' = [table EXCEPT ![cg] = s]
          /\ elem' = [elem EXCEPT ![s] = zero]
  \/ /\ ~StatsRoom(cg)
     /\ UNCHANGED <<table, elem>>

(* One __sync_fetch_and_add through a pointer, whatever it leads to now *)
FetchAndAdd(s, w) ==
  /\ elem' = [elem EXCEPT ![s][w] = @ + 1]
  /\ UNCHANGED table

(* The collector deletes the entry of a cgroup it could not resolve.       *)
Delete(cg) ==
  /\ cg \notin Settled
  /\ table[cg] # None
  /\ table' = [table EXCEPT ![cg] = None]
  /\ UNCHANGED elem

(* One word of the map, as a reader of the map sees it *)
View(w) ==
  [cg \in Cgroups |-> IF table[cg] = None THEN None ELSE elem[table[cg]][w]]

(* Two cgroups never share an element. *)
TableInjective ==
  \A c, d \in Cgroups : table[c] # None /\ table[c] = table[d] => c = d

=============================================================================
