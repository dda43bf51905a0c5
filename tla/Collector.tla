------------------------------ MODULE Collector ------------------------------
(***************************************************************************)
(* The collector process: src/collector/main.go (startCollectorLoop,       *)
(* readStats), cgroup_resolver.go and prom_metrics.go (Update).            *)
(*                                                                         *)
(* Each round the loop rebuilds its cgroup resolver if it has none, reads  *)
(* the pinned BPF maps entry by entry, deletes the entries it could not    *)
(* resolve, and adds to every Prometheus counter what its total grew since *)
(* the last round.  Meanwhile the kernel creates and removes cgroups and   *)
(* the BPF programs insert entries and add to them, between any two reads. *)
(*                                                                         *)
(* A map entry is one number, the events counted for the cgroup: io_count  *)
(* of stats_by_cgroup and count of runq_stats_by_cgroup; the other words   *)
(* go through the same code.  The label set of a cgroup (kind|pod_uid,     *)
(* from its path) is the constant KeyOf.  The order of the rows and the    *)
(* debug table do not reach the metrics and are left out.                  *)
(***************************************************************************)
EXTENDS Naturals, FiniteSets, FiniteSetsExt

CONSTANTS
  Cgroups,      \* cgroup ids (never reused by the kernel)
  Keys,         \* label sets kind|pod_uid
  KeyOf,        \* [Cgroups -> Keys]
  Maps,         \* the maps that are pinned: block, and runq unless it is nil
  None,         \* nil, "no entry", "no series"
  Faults,       \* whether directories are unreadable, iterations fail and the
                \* zero insert of the BPF programs resets an entry
  MaxTruth,     \* bound: [Maps -> [Cgroups -> Nat]], events of a cgroup in a map
  MaxRestarts   \* bound: restarts of the process

ASSUME ConstantsAssumption ==
  /\ KeyOf \in [Cgroups -> Keys]
  /\ IsFiniteSet(Cgroups)
  /\ {"block"} \subseteq Maps /\ Maps \subseteq {"block", "runq"}
  /\ Faults \in BOOLEAN /\ MaxRestarts \in Nat
  /\ MaxTruth \in [Maps -> [Cgroups -> Nat]]
  /\ None \notin Nat /\ None \notin [Maps -> Nat]
  /\ \A known \in SUBSET Cgroups : None # known

VARIABLES
  life,         \* the directory of a cgroup: "unborn", "live" or "dead"
  bpf,          \* bpf[m][cg]: the entry of map m, or None
  resolver,     \* ids the resolver knows (ByID), or None (nil)
  pc,           \* where the loop is
  todo,         \* cgroups the current walk or iteration has not come to
  row,          \* rowMap: [Maps -> Nat] per cgroup, or None
  stale,        \* staleBlock / staleRunq
  hadUnknown,
  prev,         \* pm.prev: [Maps -> Nat] per key, or None
  series,       \* the CounterVecs: [Maps -> Nat] per key, or None
  restarts,
  truth,        \* history: events the programs counted, per map and cgroup
  reset         \* history: entries that went back to zero or were deleted

kernel == <<life, bpf, truth>>
process == <<resolver, pc, todo, row, stale, hadUnknown, prev, series>>
vars == <<kernel, process, restarts, reset>>

----------------------------------------------------------------------------
(* The sum of f over a set of cgroups *)
SumOver(f, S) == MapThenSumSet(LAMBDA cg : f[cg], S)

Totals == [Maps -> Nat]
NoTotals == [m \in Maps |-> 0]

NoRows == [cg \in Cgroups |-> None]
NoSeries == [k \in Keys |-> None]

Init ==
  /\ life = [cg \in Cgroups |-> "unborn"]
  /\ bpf = [m \in Maps |-> [cg \in Cgroups |-> None]]
  /\ resolver = None /\ pc = "build" /\ todo = {}
  /\ row = NoRows /\ stale = {} /\ hadUnknown = FALSE
  /\ prev = NoSeries /\ series = NoSeries
  /\ restarts = 0
  /\ truth = [m \in Maps |-> [cg \in Cgroups |-> 0]]
  /\ reset = {}

----------------------------------------------------------------------------
(* The kernel and the BPF programs *)

CgroupCreated(cg) ==
  /\ life[cg] = "unborn"
  /\ life' = [life EXCEPT ![cg] = "live"]
  /\ UNCHANGED <<bpf, truth, process, restarts, reset>>

CgroupRemoved(cg) ==
  /\ life[cg] = "live"
  /\ life' = [life EXCEPT ![cg] = "dead"]
  /\ UNCHANGED <<bpf, truth, process, restarts, reset>>

(* The zero insert of block_rq_complete and sched_switch.  It may replace  *)
(* an entry another CPU has just inserted and counted in.  This and BpfAdd *)
(* are what BpfMap says of a word, and what both programs implement.       *)
BpfInsert(m, cg) ==
  /\ life[cg] # "unborn" /\ truth[m][cg] < MaxTruth[m][cg]
  /\ bpf[m][cg] = None \/ Faults
  /\ bpf' = [bpf EXCEPT ![m][cg] = 0]
  /\ reset' = IF bpf[m][cg] = None THEN reset ELSE reset \cup {<<m, cg>>}
  /\ UNCHANGED <<life, truth, process, restarts>>

(* One more event.  I/O issued before the cgroup went may complete after.  *)
BpfAdd(m, cg) ==
  /\ bpf[m][cg] # None /\ truth[m][cg] < MaxTruth[m][cg]
  /\ bpf' = [bpf EXCEPT ![m][cg] = @ + 1]
  /\ truth' = [truth EXCEPT ![m][cg] = @ + 1]
  /\ UNCHANGED <<life, process, restarts, reset>>

----------------------------------------------------------------------------
(* BuildCgroupResolver: the loop has no resolver and walks the directories.*)
(* It never fails: what cannot be read is left out.                        *)
BeginWalk ==
  /\ pc = "build" /\ resolver = None
  /\ pc' = "walk"
  /\ resolver' = {}
  /\ todo' = Cgroups
  /\ UNCHANGED <<kernel, row, stale, hadUnknown, prev, series, restarts, reset>>

WalkDir(cg) ==
  /\ pc = "walk" /\ cg \in todo
  /\ todo' = todo \ {cg}
  /\ \/ resolver' = IF life[cg] = "live" THEN resolver \cup {cg} ELSE resolver
     \/ Faults /\ life[cg] = "live" /\ UNCHANGED resolver
  /\ UNCHANGED <<kernel, pc, row, stale, hadUnknown, prev, series, restarts, reset>>

(* readStats begins: the resolver of an earlier round is kept. *)
BeginRead ==
  /\ \/ pc = "build" /\ resolver # None
     \/ pc = "walk" /\ todo = {}
  /\ pc' = "block"
  /\ todo' = Cgroups
  /\ row' = NoRows
  /\ stale' = {}
  /\ hadUnknown' = FALSE
  /\ UNCHANGED <<kernel, resolver, prev, series, restarts, reset>>

(* Resolve, or the row the block map made for the same id *)
Known(cg) == row[cg] # None \/ cg \in resolver

(* What readStats keeps of an entry it resolved: the row of the cgroup,    *)
(* new or made by the block map, with the entry's value.                   *)
Merge(m, cg) ==
  [row EXCEPT ![cg] = [(IF @ = None THEN NoTotals ELSE @) EXCEPT ![m] = bpf[m][cg]]]

(* Mutant: an entry that cannot be resolved is skipped and forgotten. *)
IterNextNoStale(m, cg) ==
  /\ pc = m /\ cg \in todo
  /\ todo' = todo \ {cg}
  /\ row' = IF bpf[m][cg] # None /\ Known(cg) THEN Merge(m, cg) ELSE row
  /\ UNCHANGED <<kernel, resolver, pc, stale, hadUnknown, prev, series, restarts, reset>>

(* Mutant: the resolver is dropped at the unknown id, in the middle of the *)
(* round that still needs it.                                              *)
IterNextDropsResolver(m, cg) ==
  /\ pc = m /\ cg \in todo
  /\ todo' = todo \ {cg}
  /\ IF bpf[m][cg] = None \/ Known(cg)
     THEN /\ row' = IF bpf[m][cg] = None THEN row ELSE Merge(m, cg)
          /\ UNCHANGED <<resolver, stale, hadUnknown>>
     ELSE /\ stale' = stale \cup {cg}
          /\ hadUnknown' = TRUE
          /\ resolver' = None
          /\ UNCHANGED row
  /\ UNCHANGED <<kernel, pc, prev, series, restarts, reset>>

(* iter.Next on map m comes to cg's place in it. *)
IterNext(m, cg) ==
  /\ pc = m /\ cg \in todo
  /\ todo' = todo \ {cg}
  /\ \/ /\ bpf[m][cg] = None
        /\ UNCHANGED <<row, stale, hadUnknown>>
     \/ /\ bpf[m][cg] # None /\ Known(cg)
        /\ row' = Merge(m, cg)
        /\ UNCHANGED <<stale, hadUnknown>>
     \/ /\ bpf[m][cg] # None /\ ~Known(cg)
        /\ stale' = stale \cup {cg}
        /\ hadUnknown' = TRUE
        /\ UNCHANGED row
  /\ UNCHANGED <<kernel, resolver, pc, prev, series, restarts, reset>>

(* iter.Err: readStats returns, its stale keys are dropped, Update is not  *)
(* called, and what it deleted from an earlier map stays deleted.          *)
IterErr(m) ==
  /\ Faults
  /\ pc = m
  /\ pc' = "end"
  /\ UNCHANGED <<kernel, resolver, todo, row, stale, hadUnknown, prev, series,
                 restarts, reset>>

Deleting == [m \in Maps |-> IF m = "block" THEN "deleteBlock" ELSE "deleteRunq"]

IterDone(m) ==
  /\ pc = m /\ todo = {}
  /\ pc' = Deleting[m]
  /\ UNCHANGED <<kernel, resolver, todo, row, stale, hadUnknown, prev, series,
                 restarts, reset>>

(* Map.Delete of one stale key, its error ignored *)
DeleteStale(m, cg) ==
  /\ pc = Deleting[m] /\ cg \in stale
  /\ stale' = stale \ {cg}
  /\ bpf' = [bpf EXCEPT ![m][cg] = None]
  /\ reset' = reset \cup {<<m, cg>>}
  /\ UNCHANGED <<life, truth, resolver, pc, todo, row, hadUnknown, prev, series,
                 restarts>>

(* After the block map the run-queue map, if it is loaded, then Update *)
DeleteDone(m) ==
  /\ pc = Deleting[m] /\ stale = {}
  /\ \/ /\ m = "block" /\ "runq" \in Maps
        /\ pc' = "runq" /\ todo' = Cgroups
     \/ /\ ~(m = "block" /\ "runq" \in Maps)
        /\ pc' = "update" /\ UNCHANGED todo
  /\ UNCHANGED <<kernel, resolver, row, stale, hadUnknown, prev, series, restarts, reset>>

----------------------------------------------------------------------------
(* PromMetrics.Update *)

RowsOf(k) == {cg \in Cgroups : KeyOf[cg] = k /\ row[cg] # None}

(* current[key]: the cgroups of a pod summed *)
Current(k) == [m \in Maps |-> SumOver([cg \in RowsOf(k) |-> row[cg][m]], RowsOf(k))]

(* Mutant: an unchanged total is taken for a counter reset. *)
deltaFloatEq(curr, old) == IF curr <= old THEN curr ELSE curr - old

deltaFloat(curr, old) == IF curr < old THEN curr ELSE curr - old

OrZero(t) == IF t = None THEN NoTotals ELSE t

(* Mutant: the first round that sees a key only records its total. *)
BeforeFirst(k) == IF prev[k] = None THEN Current(k) ELSE prev[k]

(* pm.prev[key], with Go's zero value for a key that is not there *)
Before(k) == OrZero(prev[k])

(* Mutant: the series of a pod without rows is kept. *)
UpdateNoDrop ==
  /\ pc = "update"
  /\ pc' = "end"
  /\ prev' = [k \in Keys |-> IF RowsOf(k) = {} THEN prev[k] ELSE Current(k)]
  /\ series' = [k \in Keys |->
       IF RowsOf(k) = {} THEN series[k]
       ELSE [m \in Maps |-> OrZero(series[k])[m]
                            + deltaFloat(Current(k)[m], Before(k)[m])]]
  /\ UNCHANGED <<kernel, resolver, todo, row, stale, hadUnknown, restarts, reset>>

(* Every key with a row gains its delta; a key that had a row before and   *)
(* has none now loses its series and its previous totals.                  *)
Update ==
  /\ pc = "update"
  /\ pc' = "end"
  /\ prev' = [k \in Keys |-> IF RowsOf(k) = {} THEN None ELSE Current(k)]
  /\ series' = [k \in Keys |->
       IF RowsOf(k) = {} THEN (IF prev[k] = None THEN series[k] ELSE None)
       ELSE [m \in Maps |-> OrZero(series[k])[m]
                            + deltaFloat(Current(k)[m], Before(k)[m])]]
  /\ UNCHANGED <<kernel, resolver, todo, row, stale, hadUnknown, restarts, reset>>

(* The end of the round, and the wait for the ticker *)
EndRound ==
  /\ pc = "end"
  /\ pc' = "build"
  /\ resolver' = IF hadUnknown THEN None ELSE resolver
  /\ UNCHANGED <<kernel, todo, row, stale, hadUnknown, prev, series, restarts, reset>>

(* The process ends, at any point, and is started again by start_system:   *)
(* the pinned maps stay, everything else is gone.                          *)
Restart ==
  /\ restarts < MaxRestarts
  /\ restarts' = restarts + 1
  /\ resolver' = None /\ pc' = "build" /\ todo' = {}
  /\ row' = NoRows /\ stale' = {} /\ hadUnknown' = FALSE
  /\ prev' = NoSeries /\ series' = NoSeries
  /\ UNCHANGED <<kernel, reset>>

Loop ==
  \/ BeginWalk
  \/ \E cg \in Cgroups : WalkDir(cg)
  \/ BeginRead
  \/ \E m \in Maps, cg \in Cgroups : IterNext(m, cg)
  \/ \E m \in Maps : IterErr(m)
  \/ \E m \in Maps : IterDone(m)
  \/ \E m \in Maps, cg \in Cgroups : DeleteStale(m, cg)
  \/ \E m \in Maps : DeleteDone(m)
  \/ Update
  \/ EndRound

Environment ==
  \/ \E cg \in Cgroups : CgroupCreated(cg) \/ CgroupRemoved(cg)
  \/ \E m \in Maps, cg \in Cgroups : BpfInsert(m, cg) \/ BpfAdd(m, cg)

Next == Loop \/ Environment \/ Restart

Spec == Init /\ [][Next]_vars

(* The goroutine of the loop keeps being scheduled and its ticker ticks.   *)
FairSpec == Spec /\ WF_vars(Loop)

----------------------------------------------------------------------------
(* Types; a key has a series exactly when it has previous totals. *)
TypeOK ==
  /\ life \in [Cgroups -> {"unborn", "live", "dead"}]
  /\ bpf \in [Maps -> [Cgroups -> Nat \cup {None}]]
  /\ resolver = None \/ resolver \subseteq Cgroups
  /\ pc \in {"build", "walk", "block", "runq", "deleteBlock", "deleteRunq",
             "update", "end"}
  /\ pc \notin {"build", "end"} => resolver # None
  /\ todo \subseteq Cgroups
  /\ row \in [Cgroups -> Totals \cup {None}]
  /\ stale \subseteq Cgroups
  /\ hadUnknown \in BOOLEAN
  /\ prev \in [Keys -> Totals \cup {None}]
  /\ series \in [Keys -> Totals \cup {None}]
  /\ \A k \in Keys : series[k] = None <=> prev[k] = None
  /\ restarts \in Nat
  /\ truth \in [Maps -> [Cgroups -> Nat]]
  /\ reset \subseteq Maps \X Cgroups

(***************************************************************************)
(* "Total block I/O operations per pod." (help text of                     *)
(* ebpf_block_io_count_total): a counter never exceeds the events that     *)
(* happened in the cgroups of its pod, through entries deleted under the   *)
(* loop, failed iterations, unreadable directories and restarts.           *)
(***************************************************************************)
CgroupsOf(k) == {cg \in Cgroups : KeyOf[cg] = k}

Exceeds(k, m) ==
  series[k] # None /\ series[k][m] > SumOver(truth[m], CgroupsOf(k))

NoOvercount == \A k \in Keys, m \in Maps : ~Exceeds(k, m)

(***************************************************************************)
(* What the code keeps of that: only the counter of a pod with several     *)
(* cgroups ever exceeds what happened, and only after one of their entries *)
(* was deleted or went back to zero (Update takes the smaller sum for a    *)
(* counter reset and adds the whole of it).                                *)
(***************************************************************************)
Undisturbed(k, m) == \A cg \in CgroupsOf(k) : <<m, cg>> \notin reset

OvercountExplained ==
  \A k \in Keys, m \in Maps :
    Exceeds(k, m) => Cardinality(CgroupsOf(k)) > 1 /\ ~Undisturbed(k, m)

(***************************************************************************)
(* The deltas add up.  As long as the entries of a pod were neither        *)
(* deleted nor reset, its counter is exactly the total last read, however  *)
(* many cgroups it sums, whatever rounds failed in between and however     *)
(* often the process restarted, and that total is never ahead of the map.  *)
(***************************************************************************)
Entry(m, cg) == IF bpf[m][cg] = None THEN 0 ELSE bpf[m][cg]

DeltasTelescope ==
  \A k \in Keys, m \in Maps :
    series[k] # None /\ Undisturbed(k, m) =>
      /\ series[k][m] = prev[k][m]
      /\ prev[k][m] <= SumOver([cg \in CgroupsOf(k) |-> Entry(m, cg)], CgroupsOf(k))

(***************************************************************************)
(* An entry that stays in a map for a live cgroup is exported, in full,    *)
(* however old the resolver was when the cgroup appeared: the round that   *)
(* meets an unknown id makes the next one rebuild the resolver.            *)
(***************************************************************************)
EntryExported ==
  \A m \in Maps, cg \in Cgroups :
    <>[](life[cg] = "live" /\ bpf[m][cg] # None)
      => <>[](series[KeyOf[cg]] # None /\ prev[KeyOf[cg]][m] = bpf[m][cg])

(***************************************************************************)
(* "Drop series whose pods disappeared this cycle." (Update), and          *)
(* TestPromSeriesCleanup: once the cgroups of a pod are gone, the next     *)
(* unknown id the loop meets is enough for its series to be dropped, with  *)
(* its entries still in the pinned maps or inserted again by late events.  *)
(***************************************************************************)
GoneSeriesDropped ==
  \A k \in Keys :
    (/\ hadUnknown /\ pc # "walk"
     /\ \A cg \in CgroupsOf(k) : life[cg] = "dead") ~> series[k] = None

=============================================================================
