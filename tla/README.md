# A TLA+ model of the eBPF saturation monitor and its Kubernetes operator

The repository measures block-I/O and run-queue latency per cgroup with eBPF
programs, exports the measurements per pod to Prometheus, and lets a Kubernetes
operator act on the pods that Prometheus reports as saturated. This directory
holds TLA+ modules of its parts, TLC configurations that check them on small
instances, and TLAPS proofs. `PROJECT.json` lists components, runs, hazards,
findings and theorems, and maps every definition to the lines it models.

## 1. Inventory

| Part | State | Operations | Talks to |
|---|---|---|---|
| `ebpf/latency/block_latency.c` | `start_map` (request -> stamp), `stats_by_cgroup` (cgroup -> four counters) | `block_rq_issue`, `block_rq_complete`, on every CPU at once | maps shared between CPUs and, pinned, with the collector |
| `ebpf/latency/runq_latency.c` | `start_map` ((pid, start time) -> stamp), `runq_stats_by_cgroup` | `sched_wakeup`, `sched_wakeup_new`, `sched_switch` | the same |
| `collector/cgroup_resolver.go` | `ByID` (id -> path) | `BuildCgroupResolver`, `Resolve` | the cgroup file system |
| `collector/cgroup_classifier.go`, `kube_path_parser.go` | none | path -> kind, path -> pod UID | |
| `collector/main.go` | cached resolver, rows of the round | `startCollectorLoop`, `readStats` (reads the maps and deletes unknown entries) | BPF maps, resolver, `PromMetrics` |
| `collector/prom_metrics.go` | `prev` totals, counters per `kind\|pod_uid` | `Update` | scraped over HTTP |
| `operator/pkg/evaluator` | none | `Evaluate`: PromQL -> UIDs -> pod names | Prometheus, informer cache |
| `operator/internal/controller` | conditions of the policy, work queue | `Reconcile`, `setCondition` | API server, evaluator, actions |
| `operator/pkg/action/evict_and_taint.go` | node taints, pods | `Execute`: read pod and node, patch taints, evict | API server through a cached client |
| `operator/pkg/action/scale_up.go` | CPU limits | `Execute`: resize, or fall back to EvictAndTaint | the same |
| `operator/pkg/action/migrate_storage.go` | claims, deployment volumes | `Execute`: create claims, patch deployment | the same |
| `operator/cmd/main.go`, `start_system` | none | wiring, start and restart | |

Behaviours that are hard to test: completions on several CPUs that create the
same statistics entry, and pointers into recycled map elements; the collector
deleting entries while programs add to them, with a resolver from an earlier
round; iterations that fail half-way; reads from informer caches followed by
writes without a resource version; a decision by UID carried out by name; status
updates that are refused and never retried; restarts between any two calls.

What makes each part correct: counters neither lose nor invent samples (programs);
a pod's exported counter never exceeds what happened and follows the map
(collector); the increase Prometheus computes is real (exposition); only
saturated pods are acted on, taint before eviction (EvictAndTaint), limits that
only rise (ScaleUp), volumes that go over as a whole and never away from a
writer (MigrateStorage); the policy keeps being evaluated and its status tells
what happened (reconciler).

## 2. Modules

* **StatsMap**: the statistics map both eBPF objects share: `table` leads from a
  cgroup to an element and `elem` holds the counters, because
  `bpf_map_lookup_elem` returns a pointer and the elements of these preallocated
  maps are recycled at once. `Insert`, `FetchAndAdd` and `Delete` are the map
  operations; `View(w)` is a word as user space reads it. A cgroup is *settled*
  when its entry exists and the collector resolves it.
* **BlockLatency** (`MCBlockLatency`) EXTENDS StatsMap: `block_latency.c`. A
  completion is the sequence `BlockRqComplete` (both first lookups),
  `ZeroInsert`, `Relookup`, `AddWord` (one atomic addition each) and
  `DeleteStart`; `pc[r]` names the step, or the word, that comes next.
  `UserDelete` is the collector's deletion. `issued`, `lost` and `added` are
  history variables.
* **RunqLatency** (`MCRunqLatency`) EXTENDS StatsMap: `runq_latency.c`. Tasks go
  through the phases the scheduler gives them; `SetState` and `Exit` are what a
  task does on its CPU, `SchedWakeup`, `SchedWakeupNew` and `SchedSwitch` the
  three tracepoints, and a switch goes on with `Restamp`, `TakeStamp` (or
  `NotStamped`), `LookupStats`, `ZeroInsert`, `Relookup`, `AddCount` and
  `AddLatency`. Tasks of a switch in progress are `Locked`, as the kernel holds
  the lock of the run queue. A stamp says whose it is and whether it was set
  while the task waited, while it ran, or before it last ran.
* **BpfMap**: the abstract specification of a pinned map, one word of it: entries
  appear with zero, grow by one, and go; a settled entry only grows. BlockLatency
  and RunqLatency are shown to implement it (`ImplementsBpfMap`, with
  `bpf <- View(...)`), Collector's environment (`BpfInsert`, `BpfAdd`) behaves
  like it.
* **Collector** (`MCCollector`): `startCollectorLoop`, `readStats`,
  `BuildCgroupResolver`, `Update`. The loop walks one directory, reads one
  entry or deletes one key per step; cgroups come and go and the programs insert
  and add between any two steps. `KeyOf` gives the label set of each cgroup, and
  `SumOver` the sums `Update` makes over the cgroups of one label set. `truth` is
  the history of the events that happened, up to `MaxTruth`, and `reset` of the
  entries that were deleted or zeroed.
* **Exposition**: one pod's entry on its way to Prometheus, where Collector is
  too coarse: programs add to the count and later to the latency, `ReadCount` and
  `ReadLatency` copy the words one after the other. `Update` calls
  `With(labels).Add(delta)`: `With(w)` publishes a series that is not there yet
  with the value zero (of one that is, it is only a lookup), `UpdateCount` and
  `UpdateLatency` are the `Add` calls, and `BeginScrape` and
  `Scrape(w)` a scrape, which does not take `pm.mu`. `increase` is what
  Prometheus makes of the samples, counter resets included, and so what the
  evaluator's `rate()` divides.
* **EvictAndTaint**: `Evaluate` (`Query`, `List`) and `Execute` (`GetPod`,
  `GetNode`, `Patch`, `Evict` and their failures) over `pods` and `taints` at the
  API server and `podCache`, `nodeCache` in the informers. Taint lists are
  sequences, since `equalTaints` compares by position. Other clients create,
  schedule and delete pods and set and remove taints.
* **Reconciler**: `Reconcile` for one policy: `GetPolicy` (cached read),
  `Evaluate`, `Execute`, then `StatusUpdate`, `StatusConflict` or `StatusError`;
  the work queue is `queued` and `timer`. A resource version is modelled by
  whether a copy is the latest one. A condition has its reason, its message and the
  generation it was observed for, since each of them decides whether a status update
  is a change. A message whose wording the reason does not fix (`err.Error()`, the
  numbers of pods) is any of `Texts`, chosen anew in every round.
* **ScaleUp** (`MCScaleUp`): `Execute` of the ScaleUp action on one pod: `Get`
  (read and compute), `Patch` or `Fallback`, and their failures. `versions` is
  every version of the containers' resources on the server and `seen` the one the
  cache holds, so the cache can be any number of the operator's own patches
  behind. `PatchFails` and `FallbackFails` may happen every time. Amounts are
  milli-CPU and the arithmetic is the code's.
* **MigrateStorage**: `Execute` of the MigrateStorageClass action on one
  deployment, volume by volume: `Begin` (the cached read), then per volume
  `Skip`, `Refuse`, `Create` or one of the failures, and `Patch`. `vols` and
  `claims` are the API server's, `volsCache` and `claimCache` the informers', and
  `orig`, `dep`, `next` the locals of Execute. What a claim and its mounts are is
  chosen at the start.
* **BlockLatencyProofs**, **RunqLatencyProofs**, **CollectorProofs**,
  **ExpositionProofs**, **EvictAndTaintProofs**, **ReconcilerProofs**,
  **ScaleUpProofs**, **MigrateStorageProofs**: theorems, see section 5.

Definitions named in a comment as *Mutant* are wrong variants of the definition
that follows them. No specification uses them; they show that the properties
notice such a mistake.

## 3. Runs

| Run | Checks | Bounds |
|---|---|---|
| `block_latency` | settled counters exact; issues accounted for; no stamp leaks; implements BpfMap | 3 requests, 2 CPUs, `start_map` of 2; 3 cgroups for 2 entries and 3 elements; issues 2 (settled), 2 and 1 |
| `runq_latency` | own wait measured; waiting tasks stamped; leaks only from running tasks; settled counters exact; implements BpfMap | 2 CPUs and their idle tasks, 3 tasks of a new cgroup, two with one pid, `start_map` of 3, 2 cgroups and 3 elements, 3 switches, both kinds of kernel |
| `collector_faults` | a counter above the truth only for two containers of which one lost its entry; series and previous totals together; deltas add up | 2 containers of one pod, both maps, 2 and 1 block events, 1 and no wait, 1 restart, all faults |
| `collector_export` | a lasting entry is exported in full; dead pods' series go | 2 pods, block map, 2 events each, 1 restart, no faults |
| `collector_pod_total` (violation) | counter of a pod with two containers | 3 cgroups, 1 event each |
| `exposition` | growth exact or less without a restart, bounded with one; only a series published anew drops; skew heals | 3 events, 1 program between its two additions, 1 reset of the entry, 1 restart |
| `evict_deployment` | only saturated pods evicted; taint before eviction; taint never doubled | 2 pods, 1 node, 1 foreign taint, clock to 2 with duration 1, 1 restart, names not reused |
| `evict_statefulset` (violation) | the same with a reused name | 1 name, 2 UIDs |
| `reconciler_loop` | never lets go of a policy that has to be looked at; keeps evaluating; status catches up; no hot loop once messages repeat | 1 change of the situation, 2 edits or a deletion, 1 lost update, 1 restart, 2 wordings of a message |
| `scale_up` | limits only rise and stay within the maximum; eviction only at the maximum; every resize raises a limit; a saturated pod gets there or a call is refused for ever | 2 containers with 5 kinds of resources, maximum 40m in steps of 50 %, a second policy with an invalid maximum, 2 restarts |
| `migrate_storage` | references exist; all or nothing; written claims kept; converges, and creates no more claims | 2 volumes over 2 old claims (shared or not), every mode, class and mount, 6 names for new claims, 1 failure or restart |
| `migrate_rejected` (violation) | "no claim created" on rejection | the same without failures |

**Why the bounds are enough.** Two programs are enough for every race on one
entry, a third request finds `start_map` full, and the third cgroup finds
`stats_by_cgroup` full and reuses the element another one released. In `runq_latency` the idle tasks make every
switch possible; two tasks are enough for a reused pid, and with a third one both CPUs insert the
entry of the new cgroup at once; three switches let a task run, sleep or be
preempted and run again, or die and leave its pid to another that runs, and
`start_map` is full when three of the five tasks are stamped. Longer histories
are left to the proofs, which have all the properties of this run. In the
collector a sum is miscounted when one container's entry goes while the other's
stays: two containers with one event each are enough for that, and a second block
event in one of them lets a total move after it was exported. A second map makes
rounds that read one map and not the other. The proofs have longer histories, more
containers and more pods; pods with label sets of their own meet only in the
decision to rebuild the resolver, which `collector_export` exercises. Two pods on one node give a first Execute that
taints and a second one that finds the taint, or a cache without it; a clock of 2
with a duration of 1 lets a taint expire and its replacement expire too. In
Exposition three events suffice for an entry that is replaced to grow past its
old total, with one of them torn (more programs only widen the gap between the words, which no property
bounds); one reset and one restart, in either order and at any step, are enough for
each way of counting twice, and the proofs have any number of them. In Reconciler one
change leads from any situation to any other, two wordings let an update differ
from the last one or not, and two edits let a policy become invalid and valid again
while an old copy is being worked on. In MigrateStorage two volumes make the cases of an
early exit with something created already and of two volumes on one claim; six
names are as many claims as the server, the cache and the two copies of Execute
can tell apart, and with one failure any call fails once and any pass is repeated. In
`block_latency` and `runq_latency` deadlock is not checked, because a machine may stop issuing I/O and, with
the bound on switches, scheduling;
in the reconciler's run because a deleted policy is never reconciled again; in
ScaleUp's because the pod may be gone. ScaleUp's limits of 1m and 21m take the
minimum step, the percentage and the cap in turn and make up to five versions, any
of which the cache may hold; 50m starts above the maximum.

**Fairness.** `Collector`: weak fairness of the loop (a goroutine with a ticker);
nothing is assumed of the kernel. `Exposition`: weak fairness of the loop, of the
second addition of a program (tracepoint programs end), and of Prometheus, which
scrapes periodically. `MigrateStorage`: weak fairness of Execute (the pod stays
saturated, so every pass of the reconciler executes the action) and of the
informers. `Reconciler`: weak fairness of the worker, of the
watch and of the delaying queue. `ScaleUp`: weak fairness of the informer and of
Execute, which always returns, and strong fairness of `Reconcile` (each policy is
evaluated periodically and reports the pod, which stays saturated). Nothing is
assumed of the outcome of a call. `Escalates` names the alternatives instead: the pod
is evicted, or the resize is tried again and again and from some time on is refused
every time, or a call of the fallback is. The
bounded environment actions get none.

## 4. What the runs found

Each violation run states what a comment, a help text, a test or a manifest of
the repository says and shows a behaviour of the code that contradicts it:

1. `Update` sums the cgroups of a pod and reads a smaller sum as a counter reset:
   when a container goes, the others' totals are added again.
2. A pod is judged by UID and evicted by name without a UID precondition.
3. MigrateStorage creates the claim of one volume before it has looked at the
   next: with a read-only volume before a writable one every pass creates a claim
   and then refuses.

Other behaviours are visible in the modules although no run is devoted to them.

* The zero insert uses `BPF_ANY`: two CPUs that come first for a cgroup both
  insert, and the second erases what the first counted. Hence `SettledExact`
  speaks of settled cgroups, and `BpfMap` lets other entries start again.
* `sched_switch` counts the time from a wakeup that found the task still on its
  CPU, so on a preemptive kernel some running time is reported as waiting
  (`MeasuresOwnWait`), and when such a task dies without being switched in again
  its stamp stays in `start_map` for ever (`LeakOnlyFromRunning`). A task that is
  preempted after announcing a sleep waits without a stamp:
  `NonPreemptiveStamped` fails without its hypothesis. An idle task that leaves
  its CPU is stamped like any runnable task, so the busy time of a CPU is counted
  as run-queue latency of the idle task's cgroup, the root.
* A pod that is gone keeps its series as long as the cached resolver knows its
  cgroup and no unknown id appears, since only that rebuilds the resolver.
  `GoneSeriesDropped` is about what follows such a round. The entry of a live cgroup younger than
  the resolver is deleted with what it had counted (`DeleteStale`);
  `EntryExported` shows that this heals, `OvercountExplained` that it inflates a
  counter only in a pod of several cgroups, as in 1.
* `prom_metrics.go:13-17` leaves collector restarts to Prometheus' reset logic,
  but after a restart everything that happened so far can be counted a second time.
  `With` publishes a series at zero before `Add` adds the whole map, and a scrape does
  not take `pm.mu`: the samples N, 0, N are possible, of which Prometheus makes a
  growth of N. The same follows without such a scrape when the entry was reset
  around the restart, since the total is then smaller than before. Hence
  `IncreaseBounded` allows one more time the truth for every restart, and none without
  one, whatever is reset; `OnlyFreshSeriesDrop` says that, without a reset, the
  scrape between `With` and `Add` is the only way a sample becomes smaller.
* The repository says of the taint that it ends by itself:
  `tests/e2e/policy-cpu-evict.yaml:1-2`, "taint al nodo durante 3 minutos (expira solo
  para no quedar pegado)", and `ioremediationpolicy_types.go:67-68`, which calls it
  permanent only without a duration. **The code contradicts this.** No step of the
  operator leaves a node without a taint it has set: expiry is looked at only
  when a pod of the node is saturated again, and Execute then drops the expired taint
  and appends a new one (`Want`). Until somebody removes it by hand the node stays
  tainted. `equalTaints` ignores `TimeAdded`, so an expired taint at the end of the
  list is not even renewed. No run asks for the end of the taint, since no action of
  the model could bring it about.
* The patch replaces the node's whole taint list, computed from a cache, so a taint
  another client set in between is lost. When the operator's taint is removed by hand
  while the cache still shows it, the patch is skipped and the pod is evicted from
  an untainted node: `TaintBeforeEvict` holds, and is checked and proved, only as long
  as nobody else removes the taint.
* The watch has no predicate, so a status update that changes something queues the
  policy at once. `Quiesces` shows that this ends when the messages read the same from
  some time on. It need not end otherwise: "EvaluationFailed" carries `err.Error()`
  (controller line 73), and an error that names, say, a local port or a time is another
  text every round. Then every update is a change, every change an event, and
  Reconcile runs without a pause instead of every `evaluationWindow`.
* ScaleUp is not escalated when the resize is refused: a failing resize returns an
  error and never leads to the fallback. Under the manifests of the repository
  it always is, since neither `config/rbac/role.yaml` nor the markers at
  `ioremediationpolicy_controller.go:50-51` grant `pods/resize`; and the server
  refuses it of a Guaranteed pod, whose limits must equal its requests. The second
  alternative of `Escalates` is this case. `tests/e2e/README.md` ("el `cpu.limit` del
  pod aumenta") presupposes the permission.
* Conditions are only ever set to True, so Degraded outlives a recovery. A policy
  with an unknown action is not queued again, and its status update is not
  retried: when that update fails, the policy is let go and its status says
  nothing (`NeverForgotten` excepts this case, through `SaysInvalid`).
* ScaleUp takes a pod with neither CPU limits nor requests for one that has
  reached the maximum, and evicts it. It gives a container that has only a
  request, and is not capped, a limit. Two working policies with different steps
  on one pod can lower each other's limits through a lagging cache, which is why
  the theorems about ScaleUp assume one.
* MigrateStorage started from an old copy of the deployment migrates it a second
  time, to another new claim; `Converges` shows that this ends.
  It looks at the mounts of this deployment only: another workload that writes a
  shared claim is not seen.

## 5. Proofs

`BlockLatencyProofs` proves, for any finite sets and limits that satisfy
`ConstantsAssumption`, that `TypeOK`, `SettledExact` and `NoStampLeak` are
invariants of `BlockLatency`. `SettledExact` is not inductive: an addition
through a pointer is right only if the pointer is. The inductive invariant `IInv`
adds that no two cgroups share an element (`TableInjective`), that a running
program has its stamp (`RunningStamped`), that only programs of unsettled cgroups
are on the insert path (`InsertersUnsettled`), and that a program's pointer leads
to a settled cgroup's element exactly when its request is charged to that cgroup
(`PointersRight`). It survives because the entry of a settled cgroup is never
moved and an insert takes a free element. One lemma per action. What only
concerns the map is in lemmas of its own: an insert links a zeroed
element no other cgroup has, an addition changes one word of one element, and each
of them, seen through `View`, is a step of BpfMap. From these and `IInv`,
`MapRefinement` proves that BlockLatency implements BpfMap.
`IssuesAccounted` needs one conjunct more (`Accounted`), which speaks of the
history `added` where the property speaks of the map, so that no step on an
element has to be looked at again: by `SettledExact` the two are the same. What
remains is that a step moves at most its own request into or out of the
uncounted ones (`UncountedMoves`), and that a program adds to `io_count` once
(`CountedOnce`).

`RunqLatencyProofs` does the same for RunqLatency, with the statistics part of the
invariant (`StatsInv`) as above. The other part, `StampInv`, is about stamps. The
tasks of two switches in progress are different (`SwitchesDisjoint`, what the run
queue lock gives), a task that announced a sleep or exits is alive
(`SleepersAlive`), and every stamp fits the phase of its task (`StampsFit`): it is
its own, one set during the wait belongs to a task that is still queued or is just
coming to its CPU, and on a non-preemptive kernel a queued task has it unless the map
refused it. `TakenFits` carries this to the stamp a program has taken.
`MeasuresOwnWait`, `NonPreemptiveStamped` and `LeakOnlyFromRunning` follow.

`MigrateStorageProofs` proves that whatever refers to a claim, the server's
deployment, the informer's copy and both copies of Execute, refers to one that
exists (`AllInUse`), and that volumes Execute has not come to are as it read them
(`Untouched`); with these `TypeOK`, whose last conjunct says that the volumes
behind it will be on the target class, is inductive. `ReferencesExist` and
`AllOrNothing` follow. For `WrittenClaimKept` a second invariant `WInv` is needed:
being written is a fact that never changes (`SameModes`), a written volume has the
same claim in every copy (`WritersFixed`), and so have the volumes that share the
claim, except in the copy Execute is changing (`SharersFixed`). When Execute
gets past the written volume its claim must be on the target class, so that the
volumes that share it were skipped (`OnTargetKept`, `WrittenShared`).
`MigrationStays` is the safety half of `Converges`: a deployment on the target class
stays there, since a patch from an old copy refers to target claims as well, and
from the moment the informer's copy and the pass in progress have seen it there
(`Settled`) no claim is created again. That this moment comes is left to TLC.

`CollectorProofs` is about any number of cgroups, spread over any label sets. It
first proves what `SumOver` does: it is a number, grows with its summands, is the
single summand of a set of one, and does not see summands that are zero. The sum is a recursive function over sets, so these are proved by the least counterexample
(below). Then there are two invariants. `CInv` speaks of each map and cgroup: a row
of the round belongs to a resolved cgroup and has zero where no map was read yet
(`RowsResolved`), an entry is never ahead of the events (`EntryBehind`), and for a
cgroup that is alone in its label set what is exported plus what the map and the row
will still add is not ahead of them either (`NeverAhead` between rounds,
`NeverAheadInRound` inside one). `AllAdd` speaks of each label set and map, through
the sums, while no entry of the label set was deleted or reset: the counter is the
previous total, and neither the map nor what this round will give `Update` is below
it. The latter is a sum over cgroups that were read and cgroups that were not yet,
for which it takes the map (`AsRead`), so that the round can be left after any
entry. `DeltasTelescope` follows from `AllAdd`; `OvercountExplained`
from `CInv` for label sets of one cgroup and from `AllAdd` for those that nothing
disturbed; `NoOvercount`, when no two cgroups share a label set, is a corollary.
With two of them in one it is false, which `collector_pod_total` shows.
`DeletesUnknown` is the promise of the loop to the eBPF side: it deletes only
entries of cgroups the round's resolver did not know and that have no row, which is
what the guard of `StatsMap!Delete` (the cgroup is not settled) assumes.

`ExpositionProofs` proves `TypeOK`, `IncreaseBounded` and `OnlyFreshSeriesDrop` by two
invariants. The first (`NeverAhead`): the growth Prometheus has computed, what the
next sample would add to it, and what the round in progress and the map will still
add to the counter are together covered by what happened, taken once and once
more for every restart (`Bound`). The sum survives every reset of the entry because
`deltaFloat` loses at a reset and never gains (`Deltas`), a scrape moves part of it
from one term to another, and a restart, after which both the sample and the map may
be counted again, adds no more than the bound grows by. The second, without a reset
(`InOrder`): sample, counter, `pm.prev`, row and map follow each other, each behind
the next, and the map is exact, except that a counter `With` has just published
(`Fresh`) is zero and behind everything. A process that ends loses the middle ones,
and a counter that starts again starts from a whole row, which no sample is ahead of.

`EvictAndTaintProofs` proves that, when names are not reused, only pods in the
answer of Prometheus are evicted, for any number of pods and nodes, any lag of the
caches and any restart. The invariant `NInv` says that a name stands for one UID
for ever: what the cache and the server hold under a name has the same UID, every
name of the work list was used, and the pod under it, if there is one, was in the
answer. `evict_statefulset` shows that the hypothesis is needed. About the taints,
it first proves what the loop over a list returns (`Select` exists, keeps types,
and keeps of the operator's taints at most those that were there), by the least
counterexample over the positions. Then `OursUnique` holds with its likes for the
cached list and the wanted one. For `TaintBeforeEvict` the invariants are that what the
operator knows a node to carry, in its cache or from its own patch, the server
carries (`KnownTaints`), and that the pod in the cache
and the pod at the server are on the same node (`NodesAgree`). It is assumed that nobody
but the operator removes its taint (`~AdminUntaints`): Execute cannot keep a taint
that another client takes off between its patch and its eviction.

`ScaleUpProofs` proves `TypeOK` and `WithinMax` without a hypothesis: every version
of a container, and a patch that waits, is what it was at the start or within the
maximum of some policy (`AllWithin`). It proves, when one policy with a valid maximum selects
the pod, `LimitsOnlyRaised` and `EvictedOnlyAtMax`, for any step, maximum and
number of containers. A patch computed from an old version could lower a limit
unless the server is never more than one resize ahead of the cache: that is
`OneAhead`, the heart of the invariant `IInv`. It is preserved because a resize
is monotone (`RaisedMonotone`, from the arithmetic of the step) and the versions
grow (`Ordered`); `Pending` says the same of a patch in flight, and `GivenUp`
that a decision to fall back stays right until it is carried out. From the same
invariant, `ResizesRaise` is the safety half of `Escalates`: a patch that
changes anything raises the limit of some container, to no more than the maximum.
As none is lowered, a pod is resized a bounded number of times, whatever is
repeated or computed from an old version.

`ReconcilerProofs` proves `TypeOK` and `NeverForgotten`: whenever the policy is not in
the queue, has no timer and is not being reconciled, and no event of it is on the
way, it is deleted, or its action is unknown and its status says so of the current
generation, or the update
that should have said so has failed. It is the safety half of `KeepsEvaluating`. Not
inductive by itself: that a run which ends without queueing the policy looked at
the current one needs `OutdatedIsQueued` (what Reconcile read is old only when the
news is on its way), and that it had a reason to, `InvalidRejected`.

**Induction over data.** The induction theorems of the library take an operator as
a parameter and cannot be instantiated here. CollectorProofs and
EvictAndTaintProofs do without them: a nonempty set of natural numbers has a
least element (lemma `Least`, from the library's well-foundedness of `<` on Nat),
so a claim about all sizes or positions is proved by looking at the least one for
which it fails. That a recursive function exists and has its type is proved this
way.

**Assumptions and hypotheses.** The assumptions are the named ones of the modules:
what kind of value each constant is, that `None` is not one of the values it is
told apart from, and finiteness of what is counted. Six theorems have a
hypothesis, each in its statement: `NeverOvercounts` (no two cgroups in one label
set) and `EvictsOnlySaturated` (names not reused), which the violation runs show to be
needed; `TaintsBeforeEvicting` (nobody else removes the taint and names are not reused); `NeverScaledDown`, `FallbackJustified` and `ResizesAreRaises` (one
working policy per pod).

**Only model-checked.** Liveness under fairness, which is out of the prover's reach:
`EntryExported`, `GoneSeriesDropped`, `SkewHeals`, `KeepsEvaluating`,
`StatusCatchesUp`, `Quiesces`, `Escalates` and `Converges`. For three of them the
safety half is proved (`PolicyNeverForgotten`, `ResizesAreRaises`, `MigrationStays`).
Every other property of a passing run, all invariants and all action properties, is
stated by a theorem.

## 6. Not modelled

**Share of the sources.** `src/ebpf/vmlinux.h` is 127662 of the 127865 lines of C
in the repository. It is generated by `bpftool` from a kernel and holds type
declarations only: there is no behaviour in it, and no line of it is mapped. Any
share computed over it is therefore close to zero. Of the 203 lines that are
written by hand, both eBPF programs, every statement is modelled; the
Go sources modelled come on top of that.

**Details left out.** Amounts of latency and bytes and 64-bit overflow of the
counters (centuries away); tracepoints the kernel skips because the program
already runs on that CPU; time stamps as numbers; an informer that delivers an
intermediate version after the server moved on (in EvictAndTaint, MigrateStorage
and Reconciler a cache jumps to the current version; ScaleUp delivers every
version); the server's own checks of a resize (a refusal is a failing patch);
users editing a deployment while MigrateStorage runs, and the deletion of claims;
StatefulSets and bare pods, which MigrateStorage refuses before it does anything;
windows, thresholds and the division of PromQL, which need real time.

**Parts left out.** The classifier and the path parser are pure string functions,
for which `KeyOf` stands; HTTP, flags, shell scripts, manifests, dashboards and
generated code have no logic of their own.

## 7. What could come next

1. An abstract specification of "a saturated pod is acted on" that Evaluate,
   Reconcile and the actions implement together.
2. For pods of several cgroups, a bound on the excess of a counter: at most the
   totals of the cgroups that remained, once per cgroup that went.
3. Of the safety behind the other liveness properties, the one of `EntryExported`:
   a live cgroup with an entry that the resolver does not know has been, or will be
   in this round, reported as unknown.
