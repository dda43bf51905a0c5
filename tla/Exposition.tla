----------------------------- MODULE Exposition -----------------------------
(***************************************************************************)
(* From the words of one map entry to what Prometheus makes of them: the   *)
(* copy readStats takes of an entry, PromMetrics.Update call by call, and  *)
(* the scrapes of /metrics, which do not take pm.mu.                       *)
(*                                                                         *)
(* Collector takes an entry for one number and Update for one step.  Here  *)
(* there is one pod with one cgroup, and its entry has the two words that  *)
(* the evaluator divides: a program adds to the count first and to the     *)
(* latency later, readStats copies one word after the other, Update adds   *)
(* to one counter after the other (each Add after a With, which publishes  *)
(* a new series with the value zero), a scrape reads the two CounterVecs   *)
(* in any order, and Prometheus takes a smaller sample for a counter reset.*)
(* The latency word counts samples, as in BlockLatency.                    *)
(***************************************************************************)
EXTENDS Naturals

CONSTANTS
  None,
  NumCpus,       \* programs that may be between their two additions
  MaxEvents,     \* bound: events
  MaxResets,     \* bound: entries replaced by a zero insert or deleted
  MaxRestarts    \* bound: restarts of the collector

Words == {"count", "latency"}

ASSUME ConstantsAssumption ==
  /\ None \notin Nat \cup [Words -> Nat]
  /\ NumCpus \in Nat /\ MaxEvents \in Nat
  /\ MaxResets \in Nat /\ MaxRestarts \in Nat

VARIABLES
  entry,      \* the entry of the cgroup, or None
  open,       \* programs that have added to count and not to latency
  pc,         \* where the loop is
  row,        \* the row of the round, or None
  prev,       \* pm.prev of the pod, or None
  counter,    \* the series of the pod in each CounterVec, or None
  toScrape,   \* CounterVecs the scrape in progress has not come to
  sample,     \* Prometheus: the last sample of each series, or None
  increase,   \* Prometheus: the growth of each series, resets handled
  resets, restarts,
  truth       \* history: additions to each word

kernel == <<entry, open, truth>>
process == <<pc, row, prev, counter>>
prometheus == <<toScrape, sample, increase>>
vars == <<kernel, process, prometheus, resets, restarts>>

----------------------------------------------------------------------------
Zero == [w \in Words |-> 0]
NoSeries == [w \in Words |-> None]

Init ==
  /\ entry = None /\ open = 0
  /\ pc = "read" /\ row = None /\ prev = None /\ counter = NoSeries
  /\ toScrape = {} /\ sample = NoSeries /\ increase = Zero
  /\ resets = 0 /\ restarts = 0
  /\ truth = Zero

----------------------------------------------------------------------------
(* The programs, see BlockLatency and RunqLatency *)

BpfInsert ==
  /\ entry = None /\ truth["count"] < MaxEvents
  /\ entry' = Zero
  /\ UNCHANGED <<open, truth, process, prometheus, resets, restarts>>

Added(w) ==
  /\ entry' = [entry EXCEPT ![w] = @ + 1]
  /\ truth' = [truth EXCEPT ![w] = @ + 1]

AddCount ==
  /\ entry # None /\ truth["count"] < MaxEvents /\ open < NumCpus
  /\ Added("count")
  /\ open' = open + 1
  /\ UNCHANGED <<process, prometheus, resets, restarts>>

AddLatency ==
  /\ entry # None /\ open > 0
  /\ Added("latency")
  /\ open' = open - 1
  /\ UNCHANGED <<process, prometheus, resets, restarts>>

(* Another CPU's zero insert replaces the entry.  A program that holds a   *)
(* pointer adds to the old element, which may become the new one.          *)
ZeroInsert ==
  /\ entry # None /\ resets < MaxResets
  /\ entry' = Zero
  /\ open' \in 0 .. open
  /\ resets' = resets + 1
  /\ UNCHANGED <<truth, process, prometheus, restarts>>

----------------------------------------------------------------------------
(* readStats *)

ReadNothing ==
  /\ pc = "read" /\ entry = None
  /\ row' = None
  /\ pc' = "drop"
  /\ UNCHANGED <<kernel, prev, counter, prometheus, resets, restarts>>

(* The id is unknown to the resolver: no row, and the entry is deleted.    *)
(* When the iteration then fails Update is not called.                     *)
ReadUnknown ==
  /\ pc = "read" /\ entry # None /\ resets < MaxResets
  /\ row' = None
  /\ pc' \in {"drop", "read"}
  /\ entry' = None
  /\ open' \in 0 .. open
  /\ resets' = resets + 1
  /\ UNCHANGED <<truth, prev, counter, prometheus, restarts>>

ReadCount ==
  /\ pc = "read" /\ entry # None
  /\ row' = entry
  /\ pc' = "copy"
  /\ UNCHANGED <<kernel, prev, counter, prometheus, resets, restarts>>

(* The latency is copied together with the count or some time after it;    *)
(* when the entry has gone its element may be zeroed already.              *)
ReadLatency ==
  /\ pc = "copy"
  /\ LET later == IF entry = None THEN 0 ELSE entry["latency"]
     IN  \E l \in {row["latency"], later} : row' = [row EXCEPT !["latency"] = l]
  /\ pc' = "count"
  /\ UNCHANGED <<kernel, prev, counter, prometheus, resets, restarts>>

----------------------------------------------------------------------------
(* PromMetrics.Update *)

(* Mutant: the total is added where its growth should be. *)
deltaFloatTotal(curr, old) == curr

deltaFloat(curr, old) == IF curr < old THEN curr ELSE curr - old

OrZero(x, zero) == IF x = None THEN zero ELSE x

(* CounterVec.With publishes a series that does not exist yet, at zero,    *)
(* where a scrape can read it, and only looks up one that does.            *)
With(w) ==
  /\ pc = w /\ counter[w] = None
  /\ counter' = [counter EXCEPT ![w] = 0]
  /\ UNCHANGED <<kernel, pc, row, prev, prometheus, resets, restarts>>

(* Add, on the series With returned *)
AddTo(w) ==
  /\ pc = w /\ counter[w] # None
  /\ counter' = [counter EXCEPT ![w] = @ + deltaFloat(row[w], OrZero(prev, Zero)[w])]

UpdateCount ==
  /\ AddTo("count")
  /\ pc' = "latency"
  /\ UNCHANGED <<kernel, row, prev, prometheus, resets, restarts>>

(* Mutant: the previous totals of a new series are not stored. *)
UpdateLatencyNoPrev ==
  /\ AddTo("latency")
  /\ prev' = IF prev = None THEN Zero ELSE row
  /\ pc' = "read"
  /\ UNCHANGED <<kernel, row, prometheus, resets, restarts>>

(* Mutant: the totals are remembered as they are when Update ends.         *)
UpdateLatencyRereads ==
  /\ AddTo("latency")
  /\ prev' = OrZero(entry, row)
  /\ pc' = "read"
  /\ UNCHANGED <<kernel, row, prometheus, resets, restarts>>

(* The latency, and pm.prev[key] = a *)
UpdateLatency ==
  /\ AddTo("latency")
  /\ prev' = row
  /\ pc' = "read"
  /\ UNCHANGED <<kernel, row, prometheus, resets, restarts>>

(* The pod has no row: its series are deleted, one after the other, if it  *)
(* had one in an earlier round.                                            *)
DropCount ==
  /\ pc = "drop" /\ prev # None
  /\ counter' = [counter EXCEPT !["count"] = None]
  /\ pc' = "dropLatency"
  /\ UNCHANGED <<kernel, row, prev, prometheus, resets, restarts>>

DropLatency ==
  /\ pc = "dropLatency"
  /\ counter' = [counter EXCEPT !["latency"] = None]
  /\ prev' = None
  /\ pc' = "read"
  /\ UNCHANGED <<kernel, row, prometheus, resets, restarts>>

NothingToDrop ==
  /\ pc = "drop" /\ prev = None
  /\ pc' = "read"
  /\ UNCHANGED <<kernel, row, prev, counter, prometheus, resets, restarts>>

(* Mutant: the restart forgets the series in the registry only. *)
RestartKeepsPrev ==
  /\ restarts < MaxRestarts
  /\ restarts' = restarts + 1
  /\ pc' = "read" /\ row' = None /\ counter' = NoSeries
  /\ toScrape' = {}
  /\ UNCHANGED <<kernel, prev, sample, increase, resets>>

(* The process ends at any point, a scrape in progress with it.            *)
Restart ==
  /\ restarts < MaxRestarts
  /\ restarts' = restarts + 1
  /\ pc' = "read" /\ row' = None /\ prev' = None /\ counter' = NoSeries
  /\ toScrape' = {}
  /\ UNCHANGED <<kernel, sample, increase, resets>>

----------------------------------------------------------------------------
(* GET /metrics: Registry.Gather asks the collectors in any order.         *)
BeginScrape ==
  /\ toScrape = {}
  /\ toScrape' = Words
  /\ UNCHANGED <<kernel, process, sample, increase, resets, restarts>>

(* Prometheus stores the sample.  increase() adds up the differences; it   *)
(* takes a smaller sample for a counter that started again from zero.      *)
Scrape(w) ==
  /\ w \in toScrape
  /\ toScrape' = toScrape \ {w}
  /\ \/ /\ counter[w] = None
        /\ UNCHANGED <<sample, increase>>
     \/ /\ counter[w] # None
        /\ sample' = [sample EXCEPT ![w] = counter[w]]
        /\ increase' = [increase EXCEPT ![w] = @ +
             IF sample[w] = None THEN 0
             ELSE IF counter[w] < sample[w] THEN counter[w]
             ELSE counter[w] - sample[w]]
  /\ UNCHANGED <<kernel, process, resets, restarts>>

Loop ==
  \/ ReadNothing \/ ReadCount \/ ReadLatency
  \/ (\E w \in Words : With(w)) \/ UpdateCount \/ UpdateLatency
  \/ DropCount \/ DropLatency \/ NothingToDrop

Next ==
  \/ BpfInsert \/ AddCount \/ AddLatency \/ ZeroInsert
  \/ Loop \/ ReadUnknown \/ Restart
  \/ BeginScrape
  \/ \E w \in Words : Scrape(w)

(* The loop ticks, programs end, and Prometheus keeps scraping.            *)
Spec ==
  /\ Init /\ [][Next]_vars
  /\ WF_vars(Loop) /\ WF_vars(AddLatency)
  /\ WF_vars(BeginScrape) /\ \A w \in Words : WF_vars(Scrape(w))

----------------------------------------------------------------------------
(* Types; the two series come and go together, but for the steps between,  *)
(* and those of a pod that has previous totals are there.                  *)
TypeOK ==
  /\ entry \in [Words -> Nat] \cup {None}
  /\ open \in 0 .. NumCpus
  /\ pc \in {"read", "copy", "count", "latency", "drop", "dropLatency"}
  /\ row \in [Words -> Nat] \cup {None}
  /\ pc \in {"copy", "count", "latency"} => row # None
  /\ prev \in [Words -> Nat] \cup {None}
  /\ counter \in [Words -> Nat \cup {None}]
  /\ pc \in {"read", "copy", "drop"} =>
       \A w \in Words : counter[w] = None <=> prev = None
  /\ pc \in {"count", "latency"} /\ prev # None =>
       \A w \in Words : counter[w] # None
  /\ toScrape \subseteq Words
  /\ sample \in [Words -> Nat \cup {None}]
  /\ increase \in [Words -> Nat]
  /\ truth \in [Words -> Nat]
  /\ resets \in Nat /\ restarts \in Nat

(***************************************************************************)
(* "On counter reset (cgroup recreated, collector restart) (...)           *)
(* Prometheus handles that via the standard counter-reset logic" (comment  *)
(* of PromMetrics).  That is so of a recreated cgroup: without a restart   *)
(* the growth Prometheus computes never exceeds what was added to the map. *)
(* A restart may count once more all that happened so far: With publishes  *)
(* the series again at zero, or the total has become smaller, and the      *)
(* whole map is added.  It never does worse, whatever is reset, torn or    *)
(* scraped in between.                                                     *)
(***************************************************************************)
IncreaseBounded ==
  \A w \in Words : increase[w] <= (restarts + 1) * truth[w]

(***************************************************************************)
(* While no entry is reset, a sample is smaller than the one before only   *)
(* when it is the zero of a series that With has just published again      *)
(* after a restart, read before Add: a counter that has been added to      *)
(* starts from the totals of the pinned map.                               *)
(***************************************************************************)
OnlyFreshSeriesDrop ==
  [][resets' = 0 => \A w \in Words :
       \/ sample[w] = None \/ sample'[w] >= sample[w]
       \/ sample'[w] = 0 /\ prev = None /\ pc = w]_vars

(***************************************************************************)
(* A copy torn by the programs or a scrape that falls between two Add      *)
(* calls sees a count and a latency that do not belong together, but not   *)
(* for good: when the events end both samples are what the map holds.      *)
(***************************************************************************)
SkewHeals ==
  <>[](resets = 0 /\ entry # None => \A w \in Words : sample[w] = entry[w])

=============================================================================
