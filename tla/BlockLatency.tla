---------------------------- MODULE BlockLatency ----------------------------
(***************************************************************************)
(* The eBPF object src/ebpf/latency/block_latency.c: two tracepoint        *)
(* programs that share two BPF hash maps.                                  *)
(*                                                                         *)
(*   block_rq_issue     stamps the request in start_map                    *)
(*   block_rq_complete  finds the stamp, finds (or creates) the statistics *)
(*                      of its cgroup in stats_by_cgroup, adds to up to    *)
(*                      four counters and removes the stamp                *)
(*                                                                         *)
(* Programs of different requests run at the same time, one per CPU; each  *)
(* map helper and each __sync_fetch_and_add is one atomic step.  User      *)
(* space (the collector) deletes statistics entries while programs run.    *)
(*                                                                         *)
(* StatsMap is the statistics map with its recycled elements.              *)
(*                                                                         *)
(* A counter word counts the samples added to it; the amounts (ns, bytes)  *)
(* are abstracted, so are the time stamps.                                 *)
(***************************************************************************)
EXTENDS StatsMap

CONSTANTS
  Requests,    \* struct request pointers, the keys of start_map
  StartMax,    \* max_entries of start_map
  NumCpus,     \* how many block_rq_complete programs run at once
  MaxIssues    \* bound: how often each cgroup issues, [Cgroups -> Nat]

ASSUME ConstantsAssumption ==
  /\ None \notin Requests /\ IsFiniteSet(Requests)
  /\ StartMax \in Nat /\ NumCpus \in Nat
  /\ MaxIssues \in [Cgroups -> Nat]

VARIABLES
  inflight,    \* [Requests -> BOOLEAN]: the device owns the request
  startMap,    \* start_map: the cgroup in the stamp, or None
  pc,          \* next step of block_rq_complete for a request
  stats,       \* its local pointer into stats_by_cgroup
  issued,      \* history: block_rq_issue runs per cgroup
  lost,        \* history: issues of a settled cgroup that are never counted
  added        \* history: samples added for a settled cgroup, per word

vars == <<inflight, startMap, table, elem, pc, stats, issued, lost, added>>

----------------------------------------------------------------------------
(* struct cgroup_io_stats_t, in the order the program adds to its words *)
Words == {"io_count", "total_latency_ns", "total_bytes", "error_count"}

Zero == [w \in Words |-> 0]

(* The step after a word was added; only a failed request adds the last. *)
After(w, error) ==
  CASE w = "io_count"         -> "total_latency_ns"
    [] w = "total_latency_ns" -> "total_bytes"
    [] w = "total_bytes"      -> IF error THEN "error_count" ELSE "delete"
    [] OTHER                  -> "delete"

Running == {r \in Requests : pc[r] # "idle"}
Stamped == {r \in Requests : startMap[r] # None}

(* bpf_map_update_elem(&start_map, ..., BPF_ANY) finds room: the key is    *)
(* there already or the map is not full.                                   *)
StartRoom(r) == startMap[r] # None \/ Cardinality(Stamped) < StartMax

(* History: one more request of cg (None for no request) is never counted. *)
Lose(cg) == [c \in Settled |-> IF c = cg THEN lost[c] + 1 ELSE lost[c]]

(* Every settled cgroup had one request, a failed one, counted before.     *)
Init ==
  /\ inflight = [r \in Requests |-> FALSE]
  /\ startMap = [r \in Requests |-> None]
  /\ StatsInit(Words)
  /\ pc = [r \in Requests |-> "idle"]
  /\ stats = [r \in Requests |-> None]
  /\ issued = [cg \in Cgroups |-> IF cg \in Settled THEN 1 ELSE 0]
  /\ lost = [cg \in Settled |-> 0]
  /\ added = [cg \in Settled |-> [w \in Words |-> 1]]

----------------------------------------------------------------------------
(* block_rq_issue.  A request that is requeued is issued again without     *)
(* having completed: its stamp is overwritten.  When start_map is full the *)
(* error is ignored and the request goes unstamped.                        *)
BlockRqIssue(r, cg) ==
  /\ pc[r] = "idle"
  /\ issued[cg] < MaxIssues[cg]
  /\ inflight' = [inflight EXCEPT ![r] = TRUE]
  /\ issued' = [issued EXCEPT ![cg] = @ + 1]
  /\ \/ /\ StartRoom(r)
        /\ startMap' = [startMap EXCEPT ![r] = cg]
        /\ lost' = Lose(startMap[r])
     \/ /\ ~StartRoom(r)
        /\ lost' = Lose(cg)
        /\ UNCHANGED startMap
  /\ UNCHANGED <<table, elem, pc, stats, added>>

(* block_rq_complete of a request without a stamp returns at once.         *)
CompleteUnstamped(r) ==
  /\ inflight[r] /\ pc[r] = "idle" /\ startMap[r] = None
  /\ inflight' = [inflight EXCEPT ![r] = FALSE]
  /\ UNCHANGED <<startMap, table, elem, pc, stats, issued, lost, added>>

(* Mutant: the statistics are created without looking whether they exist.  *)
BlockRqCompleteAlwaysInsert(r) ==
  /\ inflight[r] /\ pc[r] = "idle" /\ startMap[r] # None
  /\ Cardinality(Running) < NumCpus
  /\ \E partial \in BOOLEAN : inflight' = [inflight EXCEPT ![r] = partial]
  /\ pc' = [pc EXCEPT ![r] = "update"]
  /\ UNCHANGED <<startMap, table, elem, stats, issued, lost, added>>

(* block_rq_complete up to the first lookup of the statistics.  The kernel *)
(* fires the tracepoint for a partial completion too: then the request     *)
(* stays in flight.                                                        *)
BlockRqComplete(r) ==
  /\ inflight[r] /\ pc[r] = "idle" /\ startMap[r] # None
  /\ Cardinality(Running) < NumCpus
  /\ \E partial \in BOOLEAN : inflight' = [inflight EXCEPT ![r] = partial]
  /\ stats' = [stats EXCEPT ![r] = table[startMap[r]]]
  /\ pc' = [pc EXCEPT ![r] =
              IF table[startMap[r]] = None THEN "update" ELSE "io_count"]
  /\ UNCHANGED <<startMap, table, elem, issued, lost, added>>

(* bpf_map_update_elem(&stats_by_cgroup, &cgroup_id, &zero, BPF_ANY) *)
ZeroInsert(r) ==
  /\ pc[r] = "update"
  /\ pc' = [pc EXCEPT ![r] = "lookup"]
  /\ Insert(startMap[r], Zero)
  /\ UNCHANGED <<inflight, startMap, stats, issued, lost, added>>

(* Mutant: the second lookup is not checked for NULL. *)
RelookupUnchecked(r) ==
  /\ pc[r] = "lookup"
  /\ stats' = [stats EXCEPT ![r] = table[startMap[r]]]
  /\ pc' = [pc EXCEPT ![r] = "io_count"]
  /\ UNCHANGED <<inflight, startMap, table, elem, issued, lost, added>>

(* Mutant: the failure path returns without removing the stamp. *)
RelookupNoCleanup(r) ==
  /\ pc[r] = "lookup"
  /\ stats' = [stats EXCEPT ![r] = table[startMap[r]]]
  /\ pc' = [pc EXCEPT ![r] =
              IF table[startMap[r]] = None THEN "idle" ELSE "io_count"]
  /\ UNCHANGED <<inflight, startMap, table, elem, issued, lost, added>>

(* The second lookup.  With no entry the stamp is removed, uncounted.      *)
Relookup(r) ==
  /\ pc[r] = "lookup"
  /\ stats' = [stats EXCEPT ![r] = table[startMap[r]]]
  /\ pc' = [pc EXCEPT ![r] =
              IF table[startMap[r]] = None THEN "delete" ELSE "io_count"]
  /\ lost' = IF table[startMap[r]] = None
             THEN Lose(startMap[r]) ELSE lost
  /\ UNCHANGED <<inflight, startMap, table, elem, issued, added>>

(* One __sync_fetch_and_add *)
AddWord(r) ==
  /\ pc[r] \in Words
  /\ FetchAndAdd(stats[r], pc[r])
  /\ added' = [cg \in Settled |->
                 IF cg = startMap[r] THEN [added[cg] EXCEPT ![pc[r]] = @ + 1]
                                     ELSE added[cg]]
  /\ \E error \in BOOLEAN : pc' = [pc EXCEPT ![r] = After(pc[r], error)]
  /\ UNCHANGED <<inflight, startMap, stats, issued, lost>>

(* Mutant: the stamp stays in start_map. *)
DeleteStartNot(r) ==
  /\ pc[r] = "delete"
  /\ stats' = [stats EXCEPT ![r] = None]
  /\ pc' = [pc EXCEPT ![r] = "idle"]
  /\ UNCHANGED <<inflight, startMap, table, elem, issued, lost, added>>

(* bpf_map_delete_elem(&start_map, &key), the end of both paths *)
DeleteStart(r) ==
  /\ pc[r] = "delete"
  /\ startMap' = [startMap EXCEPT ![r] = None]
  /\ stats' = [stats EXCEPT ![r] = None]
  /\ pc' = [pc EXCEPT ![r] = "idle"]
  /\ UNCHANGED <<inflight, table, elem, issued, lost, added>>

(* The collector deletes the entry of a cgroup it could not resolve.       *)
UserDelete(cg) ==
  /\ Delete(cg)
  /\ UNCHANGED <<inflight, startMap, pc, stats, issued, lost, added>>

Complete(r) ==
  \/ CompleteUnstamped(r)
  \/ BlockRqComplete(r)
  \/ ZeroInsert(r)
  \/ Relookup(r)
  \/ AddWord(r)
  \/ DeleteStart(r)

Next ==
  \/ \E r \in Requests, cg \in Cgroups : BlockRqIssue(r, cg)
  \/ \E r \in Requests : Complete(r)
  \/ \E cg \in Cgroups : UserDelete(cg)

Spec == Init /\ [][Next]_vars

----------------------------------------------------------------------------
Counters == [Words -> Nat]

(* Types; a program that adds to a word holds a pointer that is not NULL.  *)
TypeOK ==
  /\ inflight \in [Requests -> BOOLEAN]
  /\ startMap \in [Requests -> Cgroups \cup {None}]
  /\ table \in [Cgroups -> Slots \cup {None}]
  /\ elem \in [Slots -> Counters]
  /\ pc \in [Requests -> {"idle", "update", "lookup", "delete"} \cup Words]
  /\ stats \in [Requests -> Slots \cup {None}]
  /\ \A r \in Requests : pc[r] \in Words => stats[r] # None
  /\ issued \in [Cgroups -> Nat]
  /\ lost \in [Settled -> Nat]
  /\ added \in [Settled -> Counters]

(***************************************************************************)
(* The counters user space reads for a settled cgroup hold exactly what    *)
(* the block_rq_complete programs of that cgroup added, word by word: no   *)
(* zero insert erases them and no program of another cgroup adds to them   *)
(* through a stale pointer, whatever is inserted and deleted around them.  *)
(***************************************************************************)
SettledExact ==
  \A cg \in Settled : table[cg] # None /\ elem[table[cg]] = added[cg]

(***************************************************************************)
(* Conservation of requests: every issue charged to a settled cgroup is in *)
(* io_count, or still stamped and not yet counted, or one of the losses    *)
(* the code accepts (start_map full, stamp overwritten by a re-issue).     *)
(***************************************************************************)
Uncounted(cg) ==
  {r \in Requests : startMap[r] = cg
                    /\ pc[r] \in {"idle", "update", "lookup", "io_count"}}

IssuesAccounted ==
  \A cg \in Settled :
    issued[cg] = elem[table[cg]]["io_count"] + Cardinality(Uncounted(cg)) + lost[cg]

(***************************************************************************)
(* No stamp outlives its request: once the request has left the device and *)
(* no program works on it, start_map has no entry for it, on every path    *)
(* out of block_rq_complete.  A leaked entry would fill start_map.         *)
(***************************************************************************)
NoStampLeak ==
  \A r \in Requests : ~inflight[r] /\ pc[r] = "idle" => startMap[r] = None

(***************************************************************************)
(* Refinement: whatever block_rq_complete does with pointers, elements and *)
(* zero inserts, user space sees a map that behaves as BpfMap: an insert   *)
(* shows zero although the element was used before, an addition through a  *)
(* stale pointer shows as one sample or not at all, and the settled        *)
(* entries only grow.                                                      *)
(***************************************************************************)
Map == INSTANCE BpfMap WITH bpf <- View("io_count")

ImplementsBpfMap == Map!Spec

=============================================================================
