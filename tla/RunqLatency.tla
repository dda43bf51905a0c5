---------------------------- MODULE RunqLatency -----------------------------
(***************************************************************************)
(* The eBPF object src/ebpf/latency/runq_latency.c: tracepoint programs    *)
(* that measure how long a task waits in a run queue.                      *)
(*                                                                         *)
(*   sched_wakeup, sched_wakeup_new   stamp the task in start_map          *)
(*   sched_switch    stamps the task that leaves the CPU if it is still    *)
(*                   runnable, takes the stamp of the task that comes and  *)
(*                   counts the wait in the statistics of its cgroup       *)
(*                                                                         *)
(* sched_switch runs on every CPU at once, each map helper and each        *)
(* __sync_fetch_and_add being one atomic step.  The scheduler holds the    *)
(* lock of the run queue meanwhile: no other event concerns the two tasks  *)
(* of a switch until its program is over.                                  *)
(*                                                                         *)
(* A time stamp is abstracted to whose it is and when it was set: while    *)
(* the task waited ("wait"), while it was running ("run"), or before the   *)
(* task was last on a CPU ("old").                                         *)
(***************************************************************************)
EXTENDS StatsMap

CONSTANTS
  Cpus,
  Tasks,        \* task_structs, the idle tasks of the CPUs included
  IdleOf,       \* [Cpus -> Tasks]
  Pid,          \* [Tasks -> pids]: a pid is used again after its task exits
  CgroupOf,     \* [Tasks -> Cgroups]
  StartMax,     \* max_entries of start_map
  MaxSwitches   \* bound: sched_switch events

Idle == {IdleOf[c] : c \in Cpus}

ASSUME ConstantsAssumption ==
  /\ None \notin Tasks \cup [task : Tasks, set : {"wait", "run", "old"}]
  /\ IsFiniteSet(Tasks) /\ IsFiniteSet(Cpus)
  /\ IdleOf \in [Cpus -> Tasks]
  /\ \A c, d \in Cpus : IdleOf[c] = IdleOf[d] => c = d
  /\ CgroupOf \in [Tasks -> Cgroups]
  /\ StartMax \in Nat /\ MaxSwitches \in Nat

VARIABLES
  preemptive,   \* kernel built with CONFIG_PREEMPT: a task may be preempted
                \* between setting its state and calling schedule()
  phase,        \* of a task: "unborn", "queued", "running", "blocked", "dead"
  asleep,       \* tasks whose __state is not 0 (TASK_RUNNING)
  exiting,      \* tasks that gave up their pid and run to their last schedule()
  cur,          \* the task each CPU runs
  startMap,     \* start_map: the stamp of each key, or None
  pc,           \* next step of sched_switch on each CPU
  prev,         \* its argument prev
  tsp,          \* the stamp it took, of which it computes delta
  stats,        \* its local pointer into runq_stats_by_cgroup
  switches,
  refused,      \* history: tasks whose last stamp found no room
  added         \* history: samples added for a settled cgroup, per word

sched == <<preemptive, phase, asleep, exiting, cur, switches>>
program == <<pc, prev, tsp, stats>>
vars == <<sched, program, startMap, table, elem, refused, added>>

----------------------------------------------------------------------------
(* struct cgroup_runq_stats_t *)
Words == {"count", "total_latency_ns"}

Zero == [w \in Words |-> 0]

(* Mutant: the task is known by its pid only. *)
KeyPid(t) == <<Pid[t], 0>>

(* fill_key: pid and start_time, which no two tasks share *)
Key(t) == <<Pid[t], t>>

Keys == {Key(t) : t \in Tasks}

Stamped == {k \in Keys : startMap[k] # None}

StartRoom(k) == startMap[k] # None \/ Cardinality(Stamped) < StartMax

(* bpf_map_update_elem(&start_map, ..., BPF_ANY), its failure ignored *)
Stamp(t, when) ==
  \/ /\ StartRoom(Key(t))
     /\ startMap' = [startMap EXCEPT ![Key(t)] = [task |-> t, set |-> when]]
     /\ refused' = refused \ {t}
  \/ /\ ~StartRoom(Key(t))
     /\ refused' = refused \cup {t}
     /\ UNCHANGED startMap

(* Tasks whose run queue is locked by a switch in progress *)
Locked == UNION {{cur[c], prev[c]} : c \in {d \in Cpus : pc[d] # "none"}}

Init ==
  /\ preemptive \in BOOLEAN
  /\ phase = [t \in Tasks |-> IF t \in Idle THEN "running" ELSE "unborn"]
  /\ asleep = {} /\ exiting = {}
  /\ cur = IdleOf
  /\ startMap = [k \in Keys |-> None]
  /\ StatsInit(Words)
  /\ pc = [c \in Cpus |-> "none"]
  /\ prev = [c \in Cpus |-> None]
  /\ tsp = [c \in Cpus |-> None]
  /\ stats = [c \in Cpus |-> None]
  /\ switches = 0 /\ refused = {}
  /\ added = [cg \in Settled |-> [w \in Words |-> 1]]

----------------------------------------------------------------------------
(* What a task does on its CPU *)

(* set_current_state: it announces a sleep, or finds it need not sleep.    *)
SetState(t) ==
  /\ phase[t] = "running" /\ t \notin Idle \cup exiting \cup Locked
  /\ asleep' = IF t \in asleep THEN asleep \ {t} ELSE asleep \cup {t}
  /\ UNCHANGED <<preemptive, phase, exiting, cur, switches, program, startMap,
                 table, elem, refused, added>>

(* do_exit releases the pid; the task still has to leave the CPU.          *)
Exit(t) ==
  /\ phase[t] = "running" /\ t \notin Idle \cup exiting \cup asleep \cup Locked
  /\ exiting' = exiting \cup {t}
  /\ UNCHANGED <<preemptive, phase, asleep, cur, switches, program, startMap,
                 table, elem, refused, added>>

(* handle_wakeup by sched_wakeup: a blocked task is queued.  A task that   *)
(* announced its sleep but is still on its CPU, or in a run queue since it *)
(* was preempted, is woken too: only its state changes.                    *)
SchedWakeup(t) ==
  /\ t \in asleep \ Locked
  /\ asleep' = asleep \ {t}
  /\ phase' = [phase EXCEPT ![t] = IF @ = "blocked" THEN "queued" ELSE @]
  /\ Stamp(t, IF phase[t] = "running" THEN "run" ELSE "wait")
  /\ UNCHANGED <<preemptive, exiting, cur, switches, program, table, elem, added>>

(* handle_wakeup by sched_wakeup_new: fork gives a pid that is free *)
SchedWakeupNew(t) ==
  /\ phase[t] = "unborn"
  /\ \A u \in Tasks \ {t} : Pid[u] = Pid[t] =>
       phase[u] \in {"unborn", "dead"} \/ u \in exiting
  /\ phase' = [phase EXCEPT ![t] = "queued"]
  /\ Stamp(t, "wait")
  /\ UNCHANGED <<preemptive, asleep, exiting, cur, switches, program, table, elem,
                 added>>

(* The stamps of a task that leaves its CPU: one that a wait left behind   *)
(* is old from now on.                                                     *)
Aged(t) ==
  [k \in Keys |-> IF startMap[k] = [task |-> t, set |-> "wait"]
                  THEN [task |-> t, set |-> "old"] ELSE startMap[k]]

(* What becomes of the task that leaves the CPU.  __schedule takes it off  *)
(* the run queue if its state is not 0 and it was not preempted.           *)
Leaves(p, preempt) ==
  IF preempt \/ p \notin exiting \cup asleep THEN "queued"
  ELSE IF p \in exiting THEN "dead" ELSE "blocked"

(* Mutant: whatever leaves the CPU is taken for preempted. *)
AfterAlways(p, preempt) == "restamp"

(* Mutant: a preempted task is not stamped. *)
AfterNever(p, preempt) == "lookup"

(* prev_state == 0.  The state of a task at its last schedule is TASK_DEAD.*)
After(p, preempt) ==
  IF p \in asleep \/ Leaves(p, preempt) = "dead" THEN "lookup" ELSE "restamp"

(* The scheduler switches CPU c to task n and calls sched_switch, which    *)
(* looks at the state of prev.                                             *)
SchedSwitch(c, n) ==
  LET p == cur[c]
  IN  /\ pc[c] = "none" /\ switches < MaxSwitches
      /\ phase[n] = "queued" /\ n \notin Locked
      /\ n \in Idle => n = IdleOf[c]
      /\ \E preempt \in BOOLEAN :
           /\ p \in asleep /\ preempt => preemptive
           /\ phase' = [phase EXCEPT ![p] = Leaves(p, preempt), ![n] = "running"]
           /\ pc' = [pc EXCEPT ![c] = After(p, preempt)]
      /\ cur' = [cur EXCEPT ![c] = n]
      /\ prev' = [prev EXCEPT ![c] = p]
      /\ startMap' = Aged(p)
      /\ switches' = switches + 1
      /\ UNCHANGED <<preemptive, asleep, exiting, tsp, stats, table, elem, refused,
                     added>>

(* prev starts to wait again. *)
Restamp(c) ==
  /\ pc[c] = "restamp"
  /\ pc' = [pc EXCEPT ![c] = "lookup"]
  /\ Stamp(prev[c], "wait")
  /\ UNCHANGED <<sched, prev, tsp, stats, table, elem, added>>

(* The program returns. *)
Return(c) ==
  /\ pc' = [pc EXCEPT ![c] = "none"]
  /\ prev' = [prev EXCEPT ![c] = None]
  /\ tsp' = [tsp EXCEPT ![c] = None]
  /\ stats' = [stats EXCEPT ![c] = None]

NotStamped(c) ==
  /\ pc[c] = "lookup" /\ startMap[Key(cur[c])] = None
  /\ Return(c)
  /\ UNCHANGED <<sched, startMap, table, elem, refused, added>>

(* The stamp of next is looked up, read and deleted.  Nobody else touches  *)
(* the key of a task whose run queue is locked: one step.                  *)
TakeStamp(c) ==
  /\ pc[c] = "lookup" /\ startMap[Key(cur[c])] # None
  /\ tsp' = [tsp EXCEPT ![c] = startMap[Key(cur[c])]]
  /\ startMap' = [startMap EXCEPT ![Key(cur[c])] = None]
  /\ pc' = [pc EXCEPT ![c] = "stats"]
  /\ UNCHANGED <<sched, prev, stats, table, elem, refused, added>>

(* Mutant: the statistics are created without looking whether they exist.  *)
LookupStatsAlwaysInsert(c) ==
  /\ pc[c] = "stats"
  /\ pc' = [pc EXCEPT ![c] = "update"]
  /\ UNCHANGED <<sched, prev, tsp, stats, startMap, table, elem, refused, added>>

(* get_task_cgroup_id and the first lookup of the statistics *)
LookupStats(c) ==
  /\ pc[c] = "stats"
  /\ stats' = [stats EXCEPT ![c] = table[CgroupOf[cur[c]]]]
  /\ pc' = [pc EXCEPT ![c] =
              IF table[CgroupOf[cur[c]]] = None THEN "update" ELSE "count"]
  /\ UNCHANGED <<sched, prev, tsp, startMap, table, elem, refused, added>>

(* bpf_map_update_elem(&runq_stats_by_cgroup, &cgroup_id, &zero, BPF_ANY)  *)
ZeroInsert(c) ==
  /\ pc[c] = "update"
  /\ pc' = [pc EXCEPT ![c] = "relookup"]
  /\ Insert(CgroupOf[cur[c]], Zero)
  /\ UNCHANGED <<sched, prev, tsp, stats, startMap, refused, added>>

(* Mutant: the second lookup is not checked for NULL. *)
RelookupUnchecked(c) ==
  /\ pc[c] = "relookup"
  /\ stats' = [stats EXCEPT ![c] = table[CgroupOf[cur[c]]]]
  /\ pc' = [pc EXCEPT ![c] = "count"]
  /\ UNCHANGED <<sched, prev, tsp, startMap, table, elem, refused, added>>

(* The second lookup; with no entry the program returns.                   *)
Relookup(c) ==
  /\ pc[c] = "relookup"
  /\ \/ /\ table[CgroupOf[cur[c]]] # None
        /\ stats' = [stats EXCEPT ![c] = table[CgroupOf[cur[c]]]]
        /\ pc' = [pc EXCEPT ![c] = "count"]
        /\ UNCHANGED <<prev, tsp>>
     \/ /\ table[CgroupOf[cur[c]]] = None
        /\ Return(c)
  /\ UNCHANGED <<sched, startMap, table, elem, refused, added>>

(* One __sync_fetch_and_add, of 1 or of delta *)
Add(c) ==
  /\ FetchAndAdd(stats[c], pc[c])
  /\ added' = [cg \in Settled |->
                 IF cg = CgroupOf[cur[c]]
                 THEN [added[cg] EXCEPT ![pc[c]] = @ + 1] ELSE added[cg]]

AddCount(c) ==
  /\ pc[c] = "count"
  /\ Add(c)
  /\ pc' = [pc EXCEPT ![c] = "total_latency_ns"]
  /\ UNCHANGED <<sched, prev, tsp, stats, startMap, refused>>

AddLatency(c) ==
  /\ pc[c] = "total_latency_ns"
  /\ Add(c)
  /\ Return(c)
  /\ UNCHANGED <<sched, startMap, refused>>

(* The collector deletes the entry of a cgroup it could not resolve.       *)
UserDelete(cg) ==
  /\ Delete(cg)
  /\ UNCHANGED <<sched, program, startMap, refused, added>>

Program(c) ==
  \/ Restamp(c)
  \/ NotStamped(c)
  \/ TakeStamp(c)
  \/ LookupStats(c)
  \/ ZeroInsert(c)
  \/ Relookup(c)
  \/ AddCount(c)
  \/ AddLatency(c)

Next ==
  \/ \E t \in Tasks : SetState(t) \/ Exit(t) \/ SchedWakeup(t) \/ SchedWakeupNew(t)
  \/ \E c \in Cpus, n \in Tasks : SchedSwitch(c, n)
  \/ \E c \in Cpus : Program(c)
  \/ \E cg \in Cgroups : UserDelete(cg)

Spec == Init /\ [][Next]_vars

----------------------------------------------------------------------------
Counters == [Words -> Nat]
Stamps == [task : Tasks, set : {"wait", "run", "old"}]

(* Types; a program that adds to a word holds a pointer that is not NULL,  *)
(* and measures a stamp it found.                                          *)
TypeOK ==
  /\ preemptive \in BOOLEAN
  /\ phase \in [Tasks -> {"unborn", "queued", "running", "blocked", "dead"}]
  /\ asleep \subseteq Tasks /\ exiting \subseteq Tasks /\ refused \subseteq Tasks
  /\ cur \in [Cpus -> Tasks]
  /\ startMap \in [Keys -> Stamps \cup {None}]
  /\ table \in [Cgroups -> Slots \cup {None}]
  /\ elem \in [Slots -> Counters]
  /\ pc \in [Cpus -> {"none", "restamp", "lookup", "stats", "update", "relookup"}
                     \cup Words]
  /\ prev \in [Cpus -> Tasks \cup {None}]
  /\ tsp \in [Cpus -> Stamps \cup {None}]
  /\ stats \in [Cpus -> Slots \cup {None}]
  /\ \A c \in Cpus : pc[c] \in Words => stats[c] # None /\ tsp[c] # None
  /\ switches \in Nat
  /\ added \in [Settled -> Counters]

(***************************************************************************)
(* "Composite key (pid, start_time) - protege contra reuso de PID"         *)
(* (comment of runq_key_t), and more: a wait is measured from a stamp of   *)
(* the very task that comes to the CPU, set since it last ran.  Only on a  *)
(* preemptive kernel may the stamp be older than the wait itself, set by a *)
(* wakeup that found the task still running: then CPU time is counted as   *)
(* waiting.                                                                *)
(***************************************************************************)
MeasuresOwnWait ==
  \A c \in Cpus : tsp[c] # None =>
    /\ tsp[c].task = cur[c]
    /\ tsp[c].set = "wait" \/ (tsp[c].set = "run" /\ preemptive)

(***************************************************************************)
(* "Si prev sigue runnable (...) re-encola y empieza a contar tiempo en    *)
(* runqueue para el tambien" (sched_switch): a task in a run queue has a   *)
(* stamp of this wait, unless start_map had no room for it.                *)
(***************************************************************************)
Waiting == {t \in Tasks \ (refused \cup Locked) : phase[t] = "queued"}

RunnableStamped ==
  \A t \in Waiting : startMap[Key(t)] = [task |-> t, set |-> "wait"]

(* RunnableStamped on a kernel that does not preempt a task with a state   *)
(* other than 0: there prev_state == 0 tells runnable from blocked.        *)
NonPreemptiveStamped == ~preemptive => RunnableStamped

(***************************************************************************)
(* start_map has no eviction: what a task leaves behind when it dies is    *)
(* never removed.  The only stamp that outlives its task is one set by a   *)
(* wakeup that came while the task was still running; neither its last     *)
(* switch nor an earlier wait leaves one.                                  *)
(***************************************************************************)
LeakOnlyFromRunning ==
  \A t \in Tasks : phase[t] = "dead" /\ t \notin Locked /\ startMap[Key(t)] # None
                   => startMap[Key(t)] = [task |-> t, set |-> "run"]

(***************************************************************************)
(* The statistics of a settled cgroup are what the sched_switch programs   *)
(* that brought its tasks to a CPU added, and nothing else, whatever the   *)
(* programs of other cgroups insert, replace and recycle.                  *)
(***************************************************************************)
SettledExact ==
  \A cg \in Settled : table[cg] # None /\ elem[table[cg]] = added[cg]

(***************************************************************************)
(* Refinement: to user space runq_stats_by_cgroup is a BpfMap too, however *)
(* many CPUs switch at once to the first tasks of a cgroup.                *)
(***************************************************************************)
Map == INSTANCE BpfMap WITH bpf <- View("count")

ImplementsBpfMap == Map!Spec

=============================================================================
