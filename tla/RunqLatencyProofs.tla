-------------------------- MODULE RunqLatencyProofs --------------------------
(***************************************************************************)
(* Proofs about RunqLatency, for any number of CPUs, tasks, cgroups and    *)
(* map elements and any reuse of pids: every wait is measured from a stamp *)
(* of the task itself, a waiting task is stamped, the statistics of a      *)
(* settled cgroup are exact, and the statistics map implements BpfMap.     *)
(***************************************************************************)
EXTENDS RunqLatency, TLAPS

----------------------------------------------------------------------------
(* What the operations of StatsMap do to the map, and to a word of it as a *)
(* reader sees it, as long as no two cgroups share an element              *)

(* The types of the two variables, for elements with the words W *)
StatsTypeOK(W) ==
  /\ table \in [Cgroups -> Slots \cup {None}]
  /\ elem \in [Slots -> [W -> Nat]]

(* The initial table leads every settled cgroup to an element of its own,  *)
(* and shows an entry exactly for them.                                    *)
LEMMA StatsInitView ==
  ASSUME NEW W, NEW w \in W, StatsInit(W)
  PROVE  /\ StatsTypeOK(W) /\ TableInjective
         /\ View(w) \in [Cgroups -> Nat \cup {None}]
         /\ \A cg \in Cgroups : View(w)[cg] # None <=> cg \in Settled
<1> USE StatsAssumption DEF StatsInit
<1>1. StatsTypeOK(W)
  BY DEF StatsTypeOK, Free
<1>2. TableInjective
  BY DEF TableInjective
<1>3. \A cg \in Cgroups : View(w)[cg] = IF table[cg] = None THEN None ELSE elem[table[cg]][w]
  BY DEF View
<1>4. \A cg \in Cgroups : table[cg] # None => elem[table[cg]][w] \in Nat
  BY <1>1 DEF StatsTypeOK
<1>5. View(w) \in [Cgroups -> Nat \cup {None}]
  BY <1>4 DEF View
<1> QED
  BY <1>1, <1>2, <1>3, <1>4, <1>5

(* A zero insert moves one entry to an element that belonged to nobody: it *)
(* shows as zero there, and no other cgroup's entry changes.               *)
LEMMA InsertView ==
  ASSUME NEW W, NEW w \in W, StatsTypeOK(W), TableInjective,
         NEW cg \in Cgroups, NEW zero \in [W -> Nat], zero[w] = 0,
         Insert(cg, zero)
  PROVE  /\ StatsTypeOK(W)' /\ TableInjective'
         /\ \A c \in Cgroups : c # cg =>
              /\ table'[c] = table[c]
              /\ table[c] # None => elem'[table[c]] = elem[table[c]]
         /\ \/ View(w)' = View(w)
            \/ View(w)' = [View(w) EXCEPT ![cg] = 0]
<1> USE StatsAssumption DEF Insert
<1>1. CASE UNCHANGED <<table, elem>>
  BY <1>1 DEF StatsTypeOK, TableInjective, View
<1>2. ASSUME NEW s \in Free,
             table' = [table EXCEPT ![cg] = s],
             elem' = [elem EXCEPT ![s] = zero]
      PROVE  /\ StatsTypeOK(W)' /\ TableInjective'
             /\ \A c \in Cgroups : c # cg =>
                  /\ table'[c] = table[c]
                  /\ table[c] # None => elem'[table[c]] = elem[table[c]]
             /\ View(w)' = [View(w) EXCEPT ![cg] = 0]
  <2> USE <1>2
  <2>1. s \in Slots /\ \A c \in Cgroups : table[c] # s
    BY DEF Free
  <2>2. \A c \in Cgroups : table'[c] = IF c = cg THEN s ELSE table[c]
    BY DEF StatsTypeOK
  <2>3. \A q \in Slots : elem'[q] = IF q = s THEN zero ELSE elem[q]
    BY DEF StatsTypeOK
  <2>4. StatsTypeOK(W)'
    BY <2>1 DEF StatsTypeOK
  <2>5. TableInjective'
    BY <2>1, <2>2 DEF TableInjective
  <2>6. \A c \in Cgroups : table[c] # None => elem'[table[c]] = elem[table[c]]
    BY <2>1, <2>3 DEF StatsTypeOK
  <2>7. s # None
    BY <2>1
  <2> HIDE DEF Insert
  <2> HIDE <1>2
  <2>8. View(w)' = [c \in Cgroups |-> IF table'[c] = None THEN None ELSE elem'[table'[c]][w]]
    BY DEF View
  <2>9. \A c \in Cgroups : (IF table'[c] = None THEN None ELSE elem'[table'[c]][w])
                           = [View(w) EXCEPT ![cg] = 0][c]
    BY <2>1, <2>2, <2>3, <2>6, <2>7 DEF View
  <2>10. View(w)' = [View(w) EXCEPT ![cg] = 0]
    BY <2>8, <2>9 DEF View
  <2> QED
    BY <2>2, <2>4, <2>5, <2>6, <2>10
<1> QED
  BY <1>1, <1>2

(* An addition through any pointer shows as one sample more of the word it *)
(* adds to, in the entry of at most one cgroup.                            *)
LEMMA AddView ==
  ASSUME NEW W, NEW w \in W, StatsTypeOK(W), TableInjective,
         NEW s \in Slots, NEW x \in W, FetchAndAdd(s, x)
  PROVE  /\ StatsTypeOK(W)' /\ TableInjective'
         /\ \/ View(w)' = View(w)
            \/ \E cg \in Cgroups : /\ View(w)[cg] # None
                                   /\ View(w)' = [View(w) EXCEPT ![cg] = @ + 1]
<1> USE StatsAssumption
<1>1. /\ table' = table
      /\ elem' = [elem EXCEPT ![s] = [elem[s] EXCEPT ![x] = elem[s][x] + 1]]
  BY DEF FetchAndAdd
<1>2. [elem[s] EXCEPT ![x] = elem[s][x] + 1] \in [W -> Nat]
  BY DEF StatsTypeOK
<1>3. StatsTypeOK(W)'
  BY <1>1, <1>2 DEF StatsTypeOK
<1>4. TableInjective'
  BY <1>1 DEF TableInjective
<1>5. \A q \in Slots : elem'[q][w] = IF q = s /\ w = x THEN elem[q][w] + 1 ELSE elem[q][w]
  BY <1>1 DEF StatsTypeOK
<1>6. View(w)' = [c \in Cgroups |-> IF table[c] = None THEN None ELSE elem'[table[c]][w]]
  BY <1>1 DEF View
<1>7. CASE w # x \/ \A c \in Cgroups : table[c] # s
  <2>1. \A c \in Cgroups : table[c] # None => elem'[table[c]][w] = elem[table[c]][w]
    BY <1>5, <1>7 DEF StatsTypeOK
  <2>2. View(w)' = View(w)
    BY <1>6, <2>1 DEF View
  <2> QED
    BY <1>3, <1>4, <2>2
<1>8. ASSUME w = x, NEW cg \in Cgroups, table[cg] = s
      PROVE  /\ View(w)[cg] # None
             /\ View(w)' = [View(w) EXCEPT ![cg] = @ + 1]
  <2>1. table[cg] # None /\ elem[table[cg]][w] \in Nat
    BY <1>8 DEF StatsTypeOK
  <2>2. \A c \in Cgroups : table[c] # None =>
           elem'[table[c]][w] = IF c = cg THEN elem[table[c]][w] + 1 ELSE elem[table[c]][w]
    BY <1>5, <1>8, <2>1 DEF StatsTypeOK, TableInjective
  <2>3. View(w)[cg] = elem[table[cg]][w]
    BY <2>1 DEF View
  <2>4. \A c \in Cgroups : (IF table[c] = None THEN None ELSE elem'[table[c]][w])
                           = [View(w) EXCEPT ![cg] = @ + 1][c]
    BY <2>1, <2>2, <2>3 DEF View
  <2>5. View(w)' = [View(w) EXCEPT ![cg] = @ + 1]
    BY <1>6, <2>4 DEF View
  <2> QED
    BY <2>1, <2>3, <2>5
<1> QED
  BY <1>3, <1>4, <1>7, <1>8

(* A deletion takes away one entry. *)
LEMMA DeleteView ==
  ASSUME NEW W, NEW w \in W, StatsTypeOK(W), TableInjective,
         NEW cg \in Cgroups, Delete(cg)
  PROVE  /\ StatsTypeOK(W)' /\ TableInjective'
         /\ \A c \in Cgroups : c # cg => table'[c] = table[c]
         /\ View(w)' = [View(w) EXCEPT ![cg] = None]
<1> USE StatsAssumption DEF Delete
<1>1. \A c \in Cgroups : table'[c] = IF c = cg THEN None ELSE table[c]
  BY DEF StatsTypeOK
<1>2. StatsTypeOK(W)'
  BY DEF StatsTypeOK
<1>3. TableInjective'
  BY <1>1 DEF TableInjective
<1>4. View(w)' = [c \in Cgroups |-> IF table'[c] = None THEN None ELSE elem'[table'[c]][w]]
  BY DEF View
<1>5. \A c \in Cgroups : (IF table'[c] = None THEN None ELSE elem'[table'[c]][w])
                         = [View(w) EXCEPT ![cg] = None][c]
  BY <1>1 DEF View
<1> HIDE DEF Delete
<1>6. View(w)' = [View(w) EXCEPT ![cg] = None]
  BY <1>4, <1>5 DEF View
<1> QED
  BY <1>1, <1>2, <1>3, <1>6

----------------------------------------------------------------------------
(* The inductive invariant *)

(* A stamp as the programs leave it in start_map *)
St(t, when) == [task |-> t, set |-> when]

(* The task has come to a CPU whose sched_switch has not looked for its    *)
(* stamp yet; it has left a CPU whose sched_switch is about to stamp it.   *)
Came(t) == \E c \in Cpus : cur[c] = t /\ pc[c] \in {"restamp", "lookup"}
Left(t) == \E c \in Cpus : prev[c] = t /\ pc[c] = "restamp"

(* Each CPU runs a task of its own, and no task is the prev of a switch on *)
(* two CPUs or running somewhere meanwhile.                                *)
SwitchesDisjoint ==
  /\ \A c \in Cpus : phase[cur[c]] = "running"
  /\ \A c, d \in Cpus : cur[c] = cur[d] => c = d
  /\ \A c \in Cpus : pc[c] # "none" =>
       prev[c] \in Tasks /\ phase[prev[c]] \in {"queued", "blocked", "dead"}
  /\ \A c \in Cpus : pc[c] = "restamp" => phase[prev[c]] = "queued"
  /\ \A c, d \in Cpus : pc[c] # "none" /\ pc[d] # "none" /\ prev[c] = prev[d] => c = d

(* A task with a state other than 0 is neither exiting nor dead. *)
SleepersAlive ==
  \A t \in asleep : t \notin exiting /\ phase[t] \in {"running", "queued", "blocked"}

(* The stamp of a task that waits, or has just come to a CPU *)
FromWait(t, s) == s = None \/ s = St(t, "wait") \/ (preemptive /\ s = St(t, "run"))

(* What the stamp of a task can be, by where the task is *)
StampFits(t, s) ==
  /\ s = None \/ s = St(t, "wait") \/ s = St(t, "run")
  /\ \/ phase[t] = "running" /\ ~Came(t)
     \/ phase[t] \in {"blocked", "dead"}
     \/ Left(t)
     => s = None \/ s = St(t, "run")
  /\ Came(t) \/ (phase[t] = "queued" /\ ~Left(t)) => FromWait(t, s)
  /\ phase[t] = "queued" /\ ~Left(t) /\ ~preemptive => t \in refused \/ s = St(t, "wait")

StampsFit == \A t \in Tasks : StampFits(t, startMap[Key(t)])

(* The stamp a sched_switch has taken fits the task it measures. *)
TakenFits ==
  \A c \in Cpus :
    /\ pc[c] \in {"none", "restamp", "lookup"} => tsp[c] = None
    /\ pc[c] \notin {"none", "restamp", "lookup"} =>
         tsp[c] # None /\ FromWait(cur[c], tsp[c])

(* Only a task of a cgroup that is not settled is on the insert path. *)
InsertersUnsettled ==
  \A c \in Cpus : pc[c] \in {"update", "relookup"} => CgroupOf[cur[c]] \notin Settled

(* The pointer of a program that adds leads to the element of a settled    *)
(* cgroup exactly when the task that came is in that cgroup.               *)
PointersRight ==
  \A c \in Cpus : pc[c] \in Words =>
    \A cg \in Settled : stats[c] = table[cg] <=> CgroupOf[cur[c]] = cg

(* The invariant has two halves that need nothing from each other but the  *)
(* types: who is where with which stamp, and the statistics.               *)
StampInv == SwitchesDisjoint /\ SleepersAlive /\ StampsFit /\ TakenFits
StatsInv == TableInjective /\ InsertersUnsettled /\ PointersRight /\ SettledExact

IInv == TypeOK /\ StampInv /\ StatsInv

----------------------------------------------------------------------------
(* fill_key: no two tasks share a key. *)
LEMMA KeyUnique ==
  \A t, u \in Tasks : Key(t) \in Keys /\ (Key(t) = Key(u) => t = u)
BY DEF Key, Keys

(* A stamp tells whose it is and when it was set, and is not NULL. *)
LEMMA StampsDiffer ==
  ASSUME NEW t \in Tasks, NEW when \in {"wait", "run", "old"}
  PROVE  /\ St(t, when) # None /\ St(t, when) \in Stamps
         /\ \A u, w : St(u, w) = St(t, when) => u = t /\ w = when
<1>1. St(t, when) \in [task : Tasks, set : {"wait", "run", "old"}]
  BY DEF St
<1>2. St(t, when) # None /\ St(t, when) \in Stamps
  BY <1>1, ConstantsAssumption DEF Stamps
<1>3. \A u, w : St(u, w).task = u /\ St(u, w).set = w
  BY DEF St
<1> QED
  BY <1>2, <1>3

(* The tasks whose run queue is locked are those of a switch in progress.  *)
LEMMA LockedMeans ==
  \A t : t \in Locked <=> \E c \in Cpus : pc[c] # "none" /\ (t = cur[c] \/ t = prev[c])
BY DEF Locked

(* A stamp replaces the stamp of its task and no other; when it finds no   *)
(* room the task had none before.                                          *)
LEMMA StampEffect ==
  ASSUME TypeOK, NEW t \in Tasks, NEW when \in {"wait", "run", "old"}, Stamp(t, when)
  PROVE  /\ startMap' \in [Keys -> Stamps \cup {None}]
         /\ refused' \subseteq Tasks
         /\ \A u \in Tasks : u # t => /\ startMap'[Key(u)] = startMap[Key(u)]
                                      /\ u \in refused' <=> u \in refused
         /\ \/ startMap'[Key(t)] = St(t, when)
            \/ startMap'[Key(t)] = None /\ t \in refused'
<1>1. Key(t) \in Keys /\ St(t, when) \in Stamps
  BY KeyUnique DEF St, Stamps
<1>2. \A u \in Tasks : u # t => Key(u) \in Keys /\ Key(u) # Key(t)
  BY KeyUnique
<1>3. CASE /\ startMap' = [startMap EXCEPT ![Key(t)] = St(t, when)]
           /\ refused' = refused \ {t}
  <2> HIDE DEF Key, Keys, St, Stamps
  <2> QED
    BY <1>1, <1>2, <1>3 DEF TypeOK
<1>4. CASE /\ ~StartRoom(Key(t)) /\ refused' = refused \cup {t}
           /\ UNCHANGED startMap
  <2>1. startMap[Key(t)] = None
    BY <1>4 DEF StartRoom
  <2> QED
    BY <1>4, <2>1 DEF TypeOK
<1> QED
  BY <1>3, <1>4 DEF Stamp, St

----------------------------------------------------------------------------
(* The initial state satisfies the invariant. *)
LEMMA InitIInv == Init => IInv
<1> SUFFICES ASSUME Init PROVE IInv
  OBVIOUS
<1> USE ConstantsAssumption
<1>1. StatsTypeOK(Words) /\ TableInjective
  BY StatsInitView DEF Init, Words
<1>2. TypeOK
  BY <1>1 DEF Init, TypeOK, StatsTypeOK, Counters, Words
<1>3. StampInv
  <2>1. SwitchesDisjoint /\ SleepersAlive
    BY DEF Init, SwitchesDisjoint, SleepersAlive, Idle
  <2>2. StampsFit
    BY KeyUnique DEF Init, StampsFit, StampFits, FromWait, Came, Left
  <2>3. TakenFits
    BY DEF Init, TakenFits
  <2> QED
    BY <2>1, <2>2, <2>3 DEF StampInv
<1>4. StatsInv
  <2>1. InsertersUnsettled /\ PointersRight
    BY DEF Init, InsertersUnsettled, PointersRight, Words
  <2>2. SettledExact
    <3>1. SUFFICES ASSUME NEW cg \in Settled
                   PROVE  table[cg] # None /\ elem[table[cg]] = added[cg]
      BY DEF SettledExact
    <3>2. cg \in Cgroups /\ table[cg] # None
      BY StatsAssumption DEF Init, StatsInit
    <3>3. table[cg] \in Slots /\ table[cg] \notin Free
      BY <3>2, <1>1 DEF Free, StatsTypeOK
    <3> QED
      BY <3>2, <3>3 DEF Init, StatsInit
  <2> QED
    BY <1>1, <2>1, <2>2 DEF StatsInv
<1> QED
  BY <1>2, <1>3, <1>4 DEF IInv

----------------------------------------------------------------------------
(* Types.  What a task does on its CPU and the wakeups: *)
LEMMA TaskTypes ==
  ASSUME IInv, NEW t \in Tasks, SetState(t) \/ Exit(t) \/ SchedWakeup(t) \/ SchedWakeupNew(t)
  PROVE  TypeOK'
<1> USE DEF IInv
<1>1. CASE SetState(t) \/ Exit(t)
  BY <1>1 DEF TypeOK, SetState, Exit, program
<1>2. CASE SchedWakeup(t)
  <2>1. startMap' \in [Keys -> Stamps \cup {None}] /\ refused' \subseteq Tasks
    BY <1>2, StampEffect DEF SchedWakeup
  <2>2. phase' \in [Tasks -> {"unborn", "queued", "running", "blocked", "dead"}]
    BY <1>2 DEF SchedWakeup, TypeOK
  <2> QED
    BY <1>2, <2>1, <2>2 DEF TypeOK, SchedWakeup, program
<1>3. CASE SchedWakeupNew(t)
  <2>1. startMap' \in [Keys -> Stamps \cup {None}] /\ refused' \subseteq Tasks
    BY <1>3, StampEffect DEF SchedWakeupNew
  <2> QED
    BY <1>3, <2>1 DEF TypeOK, SchedWakeupNew, program
<1> QED
  BY <1>1, <1>2, <1>3

(* A switch: *)
LEMMA SwitchTypes ==
  ASSUME IInv, NEW c \in Cpus, NEW n \in Tasks, SchedSwitch(c, n)
  PROVE  TypeOK'
<1> USE DEF IInv
<1>1. PICK preempt \in BOOLEAN :
        /\ phase' = [phase EXCEPT ![cur[c]] = Leaves(cur[c], preempt), ![n] = "running"]
        /\ pc' = [pc EXCEPT ![c] = After(cur[c], preempt)]
  BY DEF SchedSwitch
<1>2. /\ Leaves(cur[c], preempt) \in {"dead", "blocked", "queued"}
      /\ After(cur[c], preempt) \in {"lookup", "restamp"}
  BY DEF Leaves, After
<1>3. phase' \in [Tasks -> {"unborn", "queued", "running", "blocked", "dead"}]
  BY <1>1, <1>2 DEF TypeOK
<1>4. /\ pc' \in [Cpus -> {"none", "restamp", "lookup", "stats", "update", "relookup"}
                         \cup Words]
      /\ \A d \in Cpus : pc'[d] \in Words => pc[d] \in Words
  BY <1>1, <1>2 DEF TypeOK, Words
<1>5. startMap' \in [Keys -> Stamps \cup {None}]
  <2>1. cur[c] \in Tasks
    BY DEF TypeOK
  <2>2. \A k \in Keys : startMap[k] \in Stamps \cup {None}
    BY DEF TypeOK
  <2>3. [task |-> cur[c], set |-> "old"] \in Stamps
    BY <2>1 DEF Stamps
  <2>4. startMap' = Aged(cur[c])
    BY DEF SchedSwitch
  <2> QED
    BY <2>2, <2>3, <2>4 DEF Aged
<1>6. /\ cur' \in [Cpus -> Tasks] /\ prev' \in [Cpus -> Tasks \cup {None}]
      /\ switches' \in Nat
  BY DEF SchedSwitch, TypeOK
<1>7. UNCHANGED <<preemptive, asleep, exiting, tsp, stats, table, elem, refused, added>>
  BY DEF SchedSwitch
<1> QED
  BY <1>3, <1>4, <1>5, <1>6, <1>7 DEF TypeOK

(* Its program: *)
LEMMA ProgramTypes ==
  ASSUME IInv, NEW c \in Cpus, Program(c)
  PROVE  TypeOK'
<1> USE DEF IInv
<1>1. cur[c] \in Tasks /\ Key(cur[c]) \in Keys /\ CgroupOf[cur[c]] \in Cgroups
  BY KeyUnique, ConstantsAssumption DEF TypeOK
<1>2. CASE Restamp(c)
  <2>1. prev[c] \in Tasks
    BY <1>2 DEF Restamp, StampInv, SwitchesDisjoint
  <2>2. startMap' \in [Keys -> Stamps \cup {None}] /\ refused' \subseteq Tasks
    BY <1>2, <2>1, StampEffect DEF Restamp
  <2> QED
    BY <1>2, <2>2 DEF TypeOK, Restamp, sched, Words
<1>3. CASE NotStamped(c)
  BY <1>3 DEF TypeOK, NotStamped, Return, sched, Words
<1>4. CASE TakeStamp(c)
  <2>1. startMap[Key(cur[c])] \in Stamps \cup {None}
    BY <1>1 DEF TypeOK
  <2> QED
    BY <1>1, <1>4, <2>1 DEF TypeOK, TakeStamp, sched, Words
<1>5. CASE LookupStats(c)
  <2>1. table[CgroupOf[cur[c]]] \in Slots \cup {None}
    BY <1>1 DEF TypeOK
  <2>2. tsp[c] # None
    BY <1>5 DEF LookupStats, StampInv, TakenFits
  <2> QED
    BY <1>5, <2>1, <2>2 DEF TypeOK, LookupStats, sched, Words
<1>6. CASE ZeroInsert(c)
  <2>1. Zero \in Counters /\ \A w \in Words : Zero[w] = 0
    BY DEF Zero, Counters
  <2>2. StatsTypeOK(Words) /\ TableInjective
    BY DEF StatsTypeOK, TypeOK, Counters, StatsInv
  <2>3. "count" \in Words
    BY DEF Words
  <2>4. StatsTypeOK(Words)'
    BY <1>1, <1>6, <2>1, <2>2, <2>3, InsertView DEF ZeroInsert, Counters
  <2> QED
    BY <1>6, <2>4 DEF TypeOK, StatsTypeOK, Counters, ZeroInsert, sched, Words
<1>7. CASE Relookup(c)
  <2>1. table[CgroupOf[cur[c]]] \in Slots \cup {None}
    BY <1>1 DEF TypeOK
  <2>2. tsp[c] # None
    BY <1>7 DEF Relookup, StampInv, TakenFits, Words
  <2> QED
    BY <1>7, <2>1, <2>2 DEF TypeOK, Relookup, Return, sched, Words
<1>8. CASE AddCount(c) \/ AddLatency(c)
  <2>1. pc[c] \in Words /\ stats[c] \in Slots /\ tsp[c] # None
    BY <1>8 DEF AddCount, AddLatency, TypeOK, Words
  <2>2. Add(c)
    BY <1>8 DEF AddCount, AddLatency
  <2>3. StatsTypeOK(Words)'
    BY <2>1, <2>2, AddView DEF Add, StatsTypeOK, TypeOK, Counters, StatsInv
  <2>4. added' \in [Settled -> Counters]
    BY <2>1, <2>2 DEF Add, TypeOK, Counters
  <2>5. /\ pc' \in [Cpus -> {"none", "restamp", "lookup", "stats", "update", "relookup"}
                          \cup Words]
        /\ prev' \in [Cpus -> Tasks \cup {None}]
        /\ tsp' \in [Cpus -> Stamps \cup {None}]
        /\ stats' \in [Cpus -> Slots \cup {None}]
        /\ \A d \in Cpus : pc'[d] \in Words => stats'[d] # None /\ tsp'[d] # None
    BY <1>8, <2>1 DEF AddCount, AddLatency, Return, TypeOK, Words
  <2>6. UNCHANGED <<sched, startMap, refused>>
    BY <1>8 DEF AddCount, AddLatency
  <2> QED
    BY <2>3, <2>4, <2>5, <2>6 DEF TypeOK, StatsTypeOK, Counters, sched
<1> QED
  BY <1>2, <1>3, <1>4, <1>5, <1>6, <1>7, <1>8 DEF Program

----------------------------------------------------------------------------
(* Stamps.  What a task does on its CPU changes none: *)
LEMMA RunningStamps ==
  ASSUME IInv, NEW t \in Tasks, SetState(t) \/ Exit(t)
  PROVE  StampInv'
<1>1. /\ UNCHANGED <<preemptive, phase, cur, startMap, refused, pc, prev, tsp>>
      /\ SwitchesDisjoint /\ SleepersAlive /\ StampsFit /\ TakenFits
  BY DEF IInv, StampInv, SetState, Exit, program
<1>2. SwitchesDisjoint' /\ StampsFit' /\ TakenFits'
  BY <1>1 DEF SwitchesDisjoint, StampsFit, StampFits, TakenFits, FromWait, Came, Left
<1>3. SleepersAlive'
  BY <1>1 DEF SleepersAlive, SetState, Exit
<1> QED
  BY <1>2, <1>3 DEF StampInv

(* A wakeup concerns no task of a switch in progress. *)
LEMMA WakeupStamps ==
  ASSUME IInv, NEW t \in Tasks, SchedWakeup(t) \/ SchedWakeupNew(t)
  PROVE  StampInv'
<1> DEFINE when == IF phase[t] = "running" THEN "run" ELSE "wait"
<1>1. /\ TypeOK /\ SwitchesDisjoint /\ SleepersAlive /\ StampsFit /\ TakenFits
      /\ UNCHANGED <<preemptive, exiting, cur, pc, prev, tsp>>
      /\ asleep' \subseteq asleep
  BY DEF IInv, StampInv, SchedWakeup, SchedWakeupNew, program
<1>2. /\ \A c \in Cpus : pc[c] # "none" => t # cur[c] /\ t # prev[c]
      /\ phase[t] = "running" => phase'[t] = "running"
      /\ phase[t] # "running" => phase'[t] = "queued"
      /\ \A u \in Tasks : u # t => phase'[u] = phase[u]
      /\ Stamp(t, when)
  <2>1. CASE SchedWakeup(t)
    BY <2>1, <1>1, LockedMeans DEF SchedWakeup, TypeOK, SleepersAlive
  <2>2. CASE SchedWakeupNew(t)
    BY <2>2, <1>1 DEF SchedWakeupNew, TypeOK, SwitchesDisjoint
  <2> QED
    BY <2>1, <2>2
<1>3. /\ \A u \in Tasks : u # t => /\ startMap'[Key(u)] = startMap[Key(u)]
                                   /\ u \in refused' <=> u \in refused
      /\ \/ startMap'[Key(t)] = St(t, when)
         \/ startMap'[Key(t)] = None /\ t \in refused'
  BY <1>1, <1>2, StampEffect
<1>4. SwitchesDisjoint'
  BY <1>1, <1>2 DEF SwitchesDisjoint, TypeOK
<1>5. SleepersAlive'
  BY <1>1, <1>2 DEF SleepersAlive, TypeOK
<1>6. StampsFit'
  <2> SUFFICES ASSUME NEW u \in Tasks PROVE StampFits(u, startMap[Key(u)])'
    BY DEF StampsFit
  <2>1. Came(u)' = Came(u) /\ Left(u)' = Left(u)
    BY <1>1 DEF Came, Left
  <2>2. CASE u # t
    <3>1. StampFits(u, startMap[Key(u)])
      BY <1>1 DEF StampsFit
    <3> QED
      BY <1>1, <1>2, <1>3, <2>1, <2>2, <3>1 DEF StampFits, FromWait, Key
  <2>3. CASE u = t
    <3>1. ~Came(t) /\ ~Left(t)
      BY <1>2 DEF Came, Left
    <3> QED
      BY <1>1, <1>2, <1>3, <2>1, <2>3, <3>1 DEF StampFits, FromWait, Key
  <2> QED
    BY <2>2, <2>3
<1>7. TakenFits'
  BY <1>1 DEF TakenFits, FromWait
<1> QED
  BY <1>4, <1>5, <1>6, <1>7 DEF StampInv

(* A switch.  The task that comes brings the stamp of its wait; the task   *)
(* that goes has at most one set by a wakeup while it ran, so that no      *)
(* stamp grows old.                                                        *)
LEMMA SwitchStamps ==
  ASSUME IInv, NEW c \in Cpus, NEW n \in Tasks, SchedSwitch(c, n)
  PROVE  StampInv'
<1> PICK p \in Tasks : p = cur[c]
  BY DEF IInv, TypeOK
<1>1. /\ TypeOK /\ SwitchesDisjoint /\ SleepersAlive /\ StampsFit /\ TakenFits
      /\ UNCHANGED <<preemptive, asleep, exiting, refused, tsp>>
      /\ cur' = [cur EXCEPT ![c] = n] /\ prev' = [prev EXCEPT ![c] = p]
      /\ pc[c] = "none" /\ phase[n] = "queued" /\ n \notin Locked
      /\ startMap' = Aged(p)
  BY DEF IInv, StampInv, SchedSwitch
<1>2. PICK preempt \in BOOLEAN :
        /\ p \in asleep /\ preempt => preemptive
        /\ phase' = [phase EXCEPT ![p] = Leaves(p, preempt), ![n] = "running"]
        /\ pc' = [pc EXCEPT ![c] = After(p, preempt)]
  BY DEF SchedSwitch
<1>3. /\ p \in Tasks /\ phase[p] = "running" /\ p # n
      /\ \A d \in Cpus : pc[d] # "none" => n # cur[d] /\ n # prev[d] /\ p # cur[d] /\ p # prev[d]
      /\ \A d \in Cpus : cur[d] = p => d = c
      /\ \A d \in Cpus : cur[d] # n
  BY <1>1, LockedMeans DEF TypeOK, SwitchesDisjoint
<1>4. /\ phase'[p] \in {"queued", "blocked", "dead"}
      /\ phase'[n] = "running"
      /\ \A u \in Tasks : u # p /\ u # n => phase'[u] = phase[u]
      /\ pc'[c] \in {"restamp", "lookup"}
      /\ \A d \in Cpus : d # c => pc'[d] = pc[d]
      /\ pc'[c] = "restamp" => phase'[p] = "queued"
      /\ pc'[c] = "lookup" /\ phase'[p] = "queued" => preemptive
      /\ p \in asleep => phase'[p] # "dead"
  <2>1. Leaves(p, preempt) \in {"queued", "blocked", "dead"}
    BY DEF Leaves
  <2>2. After(p, preempt) \in {"restamp", "lookup"}
    BY DEF After
  <2>3. After(p, preempt) = "restamp" => Leaves(p, preempt) = "queued"
    BY DEF After, Leaves
  <2>4. After(p, preempt) = "lookup" /\ Leaves(p, preempt) = "queued" => preemptive
    BY <1>2 DEF After, Leaves
  <2>5. p \in asleep => Leaves(p, preempt) # "dead"
    BY <1>1 DEF SleepersAlive, Leaves
  <2>6. phase'[p] = Leaves(p, preempt) /\ phase'[n] = "running" /\ pc'[c] = After(p, preempt)
    BY <1>1, <1>2, <1>3 DEF TypeOK
  <2>7. /\ \A u \in Tasks : u # p /\ u # n => phase'[u] = phase[u]
        /\ \A d \in Cpus : d # c => pc'[d] = pc[d]
    BY <1>1, <1>2 DEF TypeOK
  <2> QED
    BY <2>1, <2>2, <2>3, <2>4, <2>5, <2>6, <2>7
<1>5. \A d \in Cpus : /\ cur'[d] = IF d = c THEN n ELSE cur[d]
                      /\ prev'[d] = IF d = c THEN p ELSE prev[d]
  BY <1>1 DEF TypeOK
<1>6. SwitchesDisjoint'
  BY <1>1, <1>3, <1>4, <1>5 DEF SwitchesDisjoint, TypeOK
<1>7. SleepersAlive'
  BY <1>1, <1>3, <1>4 DEF SleepersAlive, TypeOK
<1>8. /\ ~Came(p) /\ ~Left(p) /\ ~Came(n) /\ ~Left(n)
      /\ Came(n)' /\ ~Left(n)' /\ ~Came(p)'
      /\ Left(p)' <=> pc'[c] = "restamp"
      /\ \A u \in Tasks : u # p /\ u # n => Came(u)' = Came(u) /\ Left(u)' = Left(u)
  <2>1. ~Came(p) /\ ~Left(p) /\ ~Came(n) /\ ~Left(n)
    BY <1>1, <1>3 DEF Came, Left
  <2>2. Came(n)'
    BY <1>4, <1>5 DEF Came
  <2>3. ~Left(n)' /\ ~Came(p)'
    BY <1>3, <1>4, <1>5 DEF Came, Left
  <2>4. Left(p)' <=> pc'[c] = "restamp"
    BY <1>3, <1>4, <1>5 DEF Left
  <2>5. ASSUME NEW u \in Tasks, u # p, u # n
        PROVE  Came(u)' = Came(u) /\ Left(u)' = Left(u)
    BY <2>5, <1>1, <1>3, <1>4, <1>5 DEF Came, Left
  <2> QED
    BY <2>1, <2>2, <2>3, <2>4, <2>5
<1>9. startMap' = startMap
  <2>1. startMap[Key(p)] # St(p, "wait")
    BY <1>1, <1>3, <1>8, StampsDiffer DEF StampsFit, StampFits
  <2>2. ASSUME NEW t \in Tasks, t # p PROVE startMap[Key(t)] # St(p, "wait")
    <3>1. \/ startMap[Key(t)] = None \/ startMap[Key(t)] = St(t, "wait")
          \/ startMap[Key(t)] = St(t, "run")
      BY <1>1 DEF StampsFit, StampFits
    <3> QED
      BY <2>2, <3>1, StampsDiffer
  <2>3. \A k \in Keys : startMap[k] # St(p, "wait")
    BY <2>1, <2>2 DEF Keys
  <2> QED
    BY <1>1, <2>3 DEF Aged, St, TypeOK
<1>10. StampsFit'
  <2> SUFFICES ASSUME NEW u \in Tasks PROVE StampFits(u, startMap[Key(u)])'
    BY DEF StampsFit
  <2>1. StampFits(u, startMap[Key(u)]) /\ startMap'[Key(u)] = startMap[Key(u)]
    BY <1>1, <1>9 DEF StampsFit
  <2>2. CASE u = p
    BY <2>1, <2>2, <1>1, <1>3, <1>4, <1>8 DEF StampFits, FromWait, Key
  <2>3. CASE u = n
    BY <2>1, <2>3, <1>1, <1>3, <1>4, <1>8 DEF StampFits, FromWait, Key
  <2>4. CASE u # p /\ u # n
    BY <2>1, <2>4, <1>1, <1>4, <1>8 DEF StampFits, FromWait, Key
  <2> QED
    BY <2>2, <2>3, <2>4
<1>11. TakenFits'
  BY <1>1, <1>4, <1>5 DEF TakenFits, FromWait
<1> QED
  BY <1>6, <1>7, <1>10, <1>11 DEF StampInv

(* The program of a switch stamps prev and takes the stamp of next; the    *)
(* rest of it leaves start_map alone.                                      *)
LEMMA ProgramStamps ==
  ASSUME IInv, NEW c \in Cpus, Program(c)
  PROVE  StampInv'
<1> PICK n \in Tasks : n = cur[c]
  BY DEF IInv, TypeOK
<1>1. /\ TypeOK /\ SwitchesDisjoint /\ SleepersAlive /\ StampsFit /\ TakenFits
      /\ UNCHANGED <<preemptive, phase, asleep, exiting, cur>>
  BY DEF IInv, StampInv, Program, Restamp, NotStamped, TakeStamp, LookupStats, ZeroInsert,
         Relookup, AddCount, AddLatency, sched
<1>2. SleepersAlive'
  BY <1>1 DEF SleepersAlive
<1>3. CASE Restamp(c)
  <2> PICK p \in Tasks : p = prev[c]
    BY <1>1, <1>3 DEF SwitchesDisjoint, Restamp
  <2>1. /\ pc[c] = "restamp" /\ pc' = [pc EXCEPT ![c] = "lookup"]
        /\ Stamp(p, "wait") /\ UNCHANGED <<prev, tsp>>
    BY <1>3 DEF Restamp
  <2>2. /\ \A u \in Tasks : u # p => /\ startMap'[Key(u)] = startMap[Key(u)]
                                     /\ u \in refused' <=> u \in refused
        /\ \/ startMap'[Key(p)] = St(p, "wait")
           \/ startMap'[Key(p)] = None /\ p \in refused'
    BY <1>1, <2>1, StampEffect
  <2>3. /\ pc'[c] = "lookup" /\ \A d \in Cpus : d # c => pc'[d] = pc[d]
    BY <1>1, <2>1 DEF TypeOK
  <2>4. SwitchesDisjoint' /\ TakenFits'
    BY <1>1, <2>1, <2>3 DEF SwitchesDisjoint, TakenFits, FromWait
  <2>5. /\ \A u \in Tasks : Came(u)' <=> Came(u)
        /\ \A u \in Tasks : u # p => (Left(u)' <=> Left(u))
        /\ ~Left(p)' /\ ~Came(p) /\ phase[p] = "queued"
    BY <1>1, <2>1, <2>3 DEF Came, Left, SwitchesDisjoint
  <2>6. StampsFit'
    <3> SUFFICES ASSUME NEW u \in Tasks PROVE StampFits(u, startMap[Key(u)])'
      BY DEF StampsFit
    <3>1. CASE u # p
      <4>1. StampFits(u, startMap[Key(u)])
        BY <1>1 DEF StampsFit
      <4> QED
        BY <4>1, <3>1, <1>1, <2>2, <2>5 DEF StampFits, FromWait, Key
    <3>2. CASE u = p
      BY <3>2, <1>1, <2>2, <2>5 DEF StampFits, FromWait, Key
    <3> QED
      BY <3>1, <3>2
  <2> QED
    BY <1>2, <2>4, <2>6 DEF StampInv
<1>4. CASE NotStamped(c) \/ TakeStamp(c)
  <2>1. /\ pc[c] = "lookup" /\ refused' = refused
        /\ \A d \in Cpus : d # c => pc'[d] = pc[d] /\ prev'[d] = prev[d] /\ tsp'[d] = tsp[d]
        /\ startMap'[Key(n)] = None
        /\ \A u \in Tasks : u # n => startMap'[Key(u)] = startMap[Key(u)]
    BY <1>1, <1>4, KeyUnique DEF NotStamped, TakeStamp, Return, TypeOK
  <2>2. \/ pc'[c] = "none" /\ tsp'[c] = None
        \/ /\ pc'[c] = "stats" /\ prev'[c] = prev[c]
           /\ tsp'[c] = startMap[Key(n)] /\ tsp'[c] # None
    BY <1>1, <1>4 DEF NotStamped, TakeStamp, Return, TypeOK
  <2>3. Came(n) /\ phase[n] = "running" /\ \A d \in Cpus : d # c => cur[d] # n
    BY <1>1, <2>1 DEF Came, SwitchesDisjoint
  <2>4. SwitchesDisjoint'
    BY <1>1, <2>1, <2>2 DEF SwitchesDisjoint
  <2>5. TakenFits'
    <3>1. FromWait(n, startMap[Key(n)])
      BY <1>1, <2>3 DEF StampsFit, StampFits
    <3> QED
      BY <1>1, <2>1, <2>2, <3>1 DEF TakenFits, FromWait
  <2>6. /\ \A u \in Tasks : u # n => (Came(u)' <=> Came(u))
        /\ \A u \in Tasks : Left(u)' <=> Left(u)
        /\ ~Came(n)'
    <3>1. pc'[c] \notin {"restamp", "lookup"} /\ \A u : u # n => u # cur[c]
      BY <2>2
    <3> QED
      BY <3>1, <1>1, <2>1, <2>3 DEF Came, Left
  <2>7. StampsFit'
    <3> SUFFICES ASSUME NEW u \in Tasks PROVE StampFits(u, startMap[Key(u)])'
      BY DEF StampsFit
    <3>1. CASE u # n
      <4>1. StampFits(u, startMap[Key(u)])
        BY <1>1 DEF StampsFit
      <4> QED
        BY <4>1, <3>1, <1>1, <2>1, <2>6 DEF StampFits, FromWait, Key
    <3>2. CASE u = n
      BY <3>2, <1>1, <2>1, <2>3, <2>6 DEF StampFits, FromWait, Key
    <3> QED
      BY <3>1, <3>2
  <2> QED
    BY <1>2, <2>4, <2>5, <2>7 DEF StampInv
<1>5. CASE \/ LookupStats(c) \/ ZeroInsert(c) \/ Relookup(c)
           \/ AddCount(c) \/ AddLatency(c)
  <2>1. /\ UNCHANGED <<startMap, refused>>
        /\ \A d \in Cpus : d # c => pc'[d] = pc[d] /\ prev'[d] = prev[d] /\ tsp'[d] = tsp[d]
        /\ pc[c] \notin {"none", "restamp", "lookup"}
        /\ \/ pc'[c] = "none" /\ tsp'[c] = None
           \/ /\ pc'[c] \notin {"none", "restamp", "lookup"}
              /\ prev'[c] = prev[c] /\ tsp'[c] = tsp[c]
    <3>1. CASE LookupStats(c) \/ ZeroInsert(c)
      BY <3>1, <1>1 DEF LookupStats, ZeroInsert, TypeOK
    <3>2. CASE Relookup(c)
      BY <3>2, <1>1 DEF Relookup, Return, TypeOK
    <3>3. CASE AddCount(c) \/ AddLatency(c)
      BY <3>3, <1>1 DEF AddCount, AddLatency, Return, TypeOK
    <3> QED
      BY <1>5, <3>1, <3>2, <3>3
  <2>2. SwitchesDisjoint' /\ TakenFits'
    BY <1>1, <2>1 DEF SwitchesDisjoint, TakenFits, FromWait
  <2>3. \A u : (Came(u)' <=> Came(u)) /\ (Left(u)' <=> Left(u))
    BY <1>1, <2>1 DEF Came, Left
  <2>4. StampsFit'
    BY <1>1, <2>1, <2>3 DEF StampsFit, StampFits, FromWait, Key
  <2> QED
    BY <1>2, <2>2, <2>4 DEF StampInv
<1> QED
  BY <1>3, <1>4, <1>5 DEF Program

----------------------------------------------------------------------------
(* Statistics.  Wakeups and what a task does on its CPU leave them alone.  *)
LEMMA TaskStats ==
  ASSUME IInv, NEW t \in Tasks, SetState(t) \/ Exit(t) \/ SchedWakeup(t) \/ SchedWakeupNew(t)
  PROVE  StatsInv'
<1>1. UNCHANGED <<cur, pc, stats, table, elem, added>>
  BY DEF SetState, Exit, SchedWakeup, SchedWakeupNew, program
<1> QED
  BY <1>1 DEF IInv, StatsInv, TableInjective, InsertersUnsettled, PointersRight, SettledExact

(* A switch begins before the program looks at the statistics. *)
LEMMA SwitchStats ==
  ASSUME IInv, NEW c \in Cpus, NEW n \in Tasks, SchedSwitch(c, n)
  PROVE  StatsInv'
<1>1. /\ TypeOK /\ TableInjective /\ InsertersUnsettled /\ PointersRight /\ SettledExact
      /\ UNCHANGED <<stats, table, elem, added>>
      /\ \A d \in Cpus : d # c => pc'[d] = pc[d] /\ cur'[d] = cur[d]
  BY DEF IInv, StatsInv, SchedSwitch, TypeOK
<1>2. pc'[c] \in {"lookup", "restamp"}
  BY <1>1 DEF SchedSwitch, After, TypeOK
<1>3. InsertersUnsettled'
  BY <1>1, <1>2 DEF InsertersUnsettled
<1>4. PointersRight'
  BY <1>1, <1>2 DEF PointersRight, Words
<1>5. TableInjective' /\ SettledExact'
  BY <1>1 DEF TableInjective, SettledExact
<1> QED
  BY <1>3, <1>4, <1>5 DEF StatsInv

(* The two lookups find the entry of the task's own cgroup; that of a      *)
(* settled cgroup is always there.                                         *)
LEMMA LookupStatsInv ==
  ASSUME IInv, NEW c \in Cpus, LookupStats(c) \/ Relookup(c)
  PROVE  StatsInv'
<1> DEFINE own == CgroupOf[cur[c]]
<1>1. /\ TypeOK /\ TableInjective /\ InsertersUnsettled /\ PointersRight /\ SettledExact
      /\ UNCHANGED <<cur, table, elem, added>>
      /\ own \in Cgroups
  BY ConstantsAssumption DEF IInv, StatsInv, LookupStats, Relookup, sched, TypeOK
<1>2. /\ \A d \in Cpus : d # c => pc'[d] = pc[d] /\ stats'[d] = stats[d]
      /\ \/ pc'[c] = "none"
         \/ pc'[c] = "update" /\ table[own] = None
         \/ pc'[c] = "count" /\ table[own] # None /\ stats'[c] = table[own]
  BY <1>1 DEF LookupStats, Relookup, Return, TypeOK
<1>3. InsertersUnsettled'
  BY <1>1, <1>2 DEF InsertersUnsettled, SettledExact
<1>4. PointersRight'
  <2> SUFFICES ASSUME NEW d \in Cpus, pc'[d] \in Words, NEW cg \in Settled
               PROVE  stats'[d] = table[cg] <=> CgroupOf[cur[d]] = cg
    BY <1>1 DEF PointersRight
  <2>1. CASE d = c
    BY <2>1, <1>1, <1>2, StatsAssumption DEF TableInjective, Words
  <2>2. CASE d # c
    BY <2>2, <1>1, <1>2 DEF PointersRight
  <2> QED
    BY <2>1, <2>2
<1>5. TableInjective' /\ SettledExact'
  BY <1>1 DEF TableInjective, SettledExact
<1> QED
  BY <1>3, <1>4, <1>5 DEF StatsInv

(* The zero insert moves the entry of a cgroup that is not settled to an   *)
(* element that belonged to nobody.                                        *)
LEMMA InsertStatsInv ==
  ASSUME IInv, NEW c \in Cpus, ZeroInsert(c)
  PROVE  /\ StatsInv' /\ CgroupOf[cur[c]] \notin Settled
         /\ \/ View("count")' = View("count")
            \/ View("count")' = [View("count") EXCEPT ![CgroupOf[cur[c]]] = 0]
<1> DEFINE own == CgroupOf[cur[c]]
<1>1. /\ TypeOK /\ TableInjective /\ InsertersUnsettled /\ PointersRight /\ SettledExact
      /\ UNCHANGED <<cur, stats, added>>
      /\ own \in Cgroups /\ own \notin Settled
      /\ pc[c] = "update" /\ pc' = [pc EXCEPT ![c] = "relookup"] /\ Insert(own, Zero)
  BY ConstantsAssumption DEF IInv, StatsInv, ZeroInsert, sched, TypeOK, InsertersUnsettled
<1>2. /\ StatsTypeOK(Words) /\ Zero \in [Words -> Nat] /\ Zero["count"] = 0
      /\ "count" \in Words
  BY <1>1 DEF StatsTypeOK, TypeOK, Counters, Zero, Words
<1>3. /\ TableInjective'
      /\ \A cg \in Cgroups : cg # own =>
           /\ table'[cg] = table[cg]
           /\ table[cg] # None => elem'[table[cg]] = elem[table[cg]]
      /\ View("count")' = View("count") \/ View("count")' = [View("count") EXCEPT ![own] = 0]
  <2> HIDE DEF own
  <2> QED
    BY <1>1, <1>2, InsertView
<1>4. \A cg \in Settled : table'[cg] = table[cg] /\ elem'[table[cg]] = elem[table[cg]]
  BY <1>1, <1>3, StatsAssumption DEF SettledExact
<1>5. /\ \A d \in Cpus : d # c => pc'[d] = pc[d]
      /\ pc'[c] = "relookup"
  BY <1>1 DEF TypeOK
<1>6. InsertersUnsettled' /\ PointersRight'
  BY <1>1, <1>4, <1>5 DEF InsertersUnsettled, PointersRight, Words
<1>7. SettledExact'
  BY <1>1, <1>4 DEF SettledExact
<1> QED
  BY <1>1, <1>3, <1>6, <1>7 DEF StatsInv

(* An addition reaches the element of a settled cgroup when, and only      *)
(* when, the task that came is in it.                                      *)
LEMMA AddStatsInv ==
  ASSUME IInv, NEW c \in Cpus, AddCount(c) \/ AddLatency(c)
  PROVE  StatsInv'
<1> DEFINE w == pc[c]
<1>1. /\ TypeOK /\ TableInjective /\ InsertersUnsettled /\ PointersRight /\ SettledExact
      /\ Add(c) /\ cur' = cur /\ table' = table
      /\ w \in Words /\ stats[c] \in Slots
  BY DEF IInv, StatsInv, AddCount, AddLatency, Add, FetchAndAdd, sched, TypeOK, Words
<1>2. /\ \A d \in Cpus : d # c => pc'[d] = pc[d] /\ stats'[d] = stats[d]
      /\ \/ pc'[c] = "none"
         \/ pc'[c] = "total_latency_ns" /\ stats'[c] = stats[c]
  BY <1>1 DEF AddCount, AddLatency, Return, TypeOK
<1>3. \A s \in Slots : elem'[s] = IF s = stats[c] THEN [elem[s] EXCEPT ![w] = @ + 1]
                                 ELSE elem[s]
  BY <1>1 DEF Add, FetchAndAdd, TypeOK
<1>4. \A cg \in Settled : added'[cg] = IF cg = CgroupOf[cur[c]]
                                      THEN [added[cg] EXCEPT ![w] = @ + 1] ELSE added[cg]
  BY <1>1 DEF Add
<1>5. SettledExact'
  <2> SUFFICES ASSUME NEW cg \in Settled
               PROVE  table[cg] # None /\ elem'[table[cg]] = added'[cg]
    BY <1>1 DEF SettledExact
  <2>1. table[cg] # None /\ table[cg] \in Slots /\ elem[table[cg]] = added[cg]
    BY <1>1, StatsAssumption DEF SettledExact, TypeOK
  <2>2. stats[c] = table[cg] <=> CgroupOf[cur[c]] = cg
    BY <1>1 DEF PointersRight
  <2>3. CASE stats[c] = table[cg]
    <3>1. elem'[table[cg]] = [elem[table[cg]] EXCEPT ![w] = @ + 1]
      BY <1>3, <2>1, <2>3
    <3>2. added'[cg] = [added[cg] EXCEPT ![w] = @ + 1]
      BY <1>4, <2>2, <2>3
    <3> QED
      BY <2>1, <3>1, <3>2
  <2>4. CASE stats[c] # table[cg]
    BY <1>3, <1>4, <2>1, <2>2, <2>4
  <2> HIDE DEF w
  <2> QED
    BY <2>1, <2>3, <2>4
<1>6. InsertersUnsettled'
  BY <1>1, <1>2 DEF InsertersUnsettled
<1>7. PointersRight'
  BY <1>1, <1>2 DEF PointersRight, Words
<1>8. TableInjective'
  BY <1>1 DEF TableInjective
<1> QED
  BY <1>5, <1>6, <1>7, <1>8 DEF StatsInv

(* The rest of the program holds no pointer yet. *)
LEMMA QuietStatsInv ==
  ASSUME IInv, NEW c \in Cpus, Restamp(c) \/ NotStamped(c) \/ TakeStamp(c)
  PROVE  StatsInv'
<1>1. /\ TypeOK /\ TableInjective /\ InsertersUnsettled /\ PointersRight /\ SettledExact
      /\ UNCHANGED <<cur, table, elem, added>>
      /\ \A d \in Cpus : d # c => pc'[d] = pc[d] /\ stats'[d] = stats[d]
      /\ pc'[c] \in {"lookup", "none", "stats"}
  BY DEF IInv, StatsInv, Restamp, NotStamped, TakeStamp, Return, sched, TypeOK
<1> QED
  BY <1>1 DEF StatsInv, TableInjective, InsertersUnsettled, PointersRight, SettledExact, Words

(* The collector deletes no entry of a settled cgroup. *)
LEMMA UserDeleteIInv ==
  ASSUME IInv, NEW cg \in Cgroups, UserDelete(cg)
  PROVE  IInv'
<1>1. /\ TypeOK /\ TableInjective /\ InsertersUnsettled /\ PointersRight /\ SettledExact
      /\ UNCHANGED <<sched, program, startMap, refused, added, elem>>
      /\ cg \notin Settled /\ table' = [table EXCEPT ![cg] = None]
  BY DEF IInv, StatsInv, UserDelete, Delete
<1>2. \A d \in Cgroups : table'[d] = IF d = cg THEN None ELSE table[d]
  BY <1>1 DEF TypeOK
<1>3. TypeOK'
  BY <1>1 DEF TypeOK, sched, program
<1>4. StampInv'
  BY <1>1 DEF IInv, StampInv, SwitchesDisjoint, SleepersAlive, StampsFit, StampFits, TakenFits,
              FromWait, Came, Left, sched, program
<1>5. StatsInv'
  <2>1. TableInjective'
    BY <1>1, <1>2 DEF TableInjective
  <2>2. \A d \in Settled : table'[d] = table[d]
    BY <1>1, <1>2, StatsAssumption
  <2>3. InsertersUnsettled' /\ PointersRight' /\ SettledExact'
    BY <1>1, <2>2 DEF InsertersUnsettled, PointersRight, SettledExact, sched, program
  <2> QED
    BY <2>1, <2>3 DEF StatsInv
<1> QED
  BY <1>3, <1>4, <1>5 DEF IInv

----------------------------------------------------------------------------
(* Every step of the scheduler, the programs and the collector preserves   *)
(* the invariant.                                                          *)
LEMMA NextIInv == IInv /\ [Next]_vars => IInv'
<1> SUFFICES ASSUME IInv, [Next]_vars PROVE IInv'
  OBVIOUS
<1>1. ASSUME NEW t \in Tasks, SetState(t) \/ Exit(t) \/ SchedWakeup(t) \/ SchedWakeupNew(t)
      PROVE  IInv'
  BY <1>1, TaskTypes, RunningStamps, WakeupStamps, TaskStats DEF IInv
<1>2. ASSUME NEW c \in Cpus, NEW n \in Tasks, SchedSwitch(c, n) PROVE IInv'
  BY <1>2, SwitchTypes, SwitchStamps, SwitchStats DEF IInv
<1>3. ASSUME NEW c \in Cpus, Program(c) PROVE IInv'
  <2>1. StatsInv'
    BY <1>3, LookupStatsInv, InsertStatsInv, AddStatsInv, QuietStatsInv DEF Program
  <2> QED
    BY <1>3, <2>1, ProgramTypes, ProgramStamps DEF IInv
<1>4. ASSUME NEW cg \in Cgroups, UserDelete(cg) PROVE IInv'
  BY <1>4, UserDeleteIInv
<1>5. CASE UNCHANGED vars
  <2>1. TypeOK'
    BY <1>5 DEF IInv, vars, sched, program, TypeOK
  <2>2. StampInv'
    BY <1>5 DEF IInv, vars, sched, program, StampInv, SwitchesDisjoint, SleepersAlive,
                StampsFit, StampFits, TakenFits, FromWait, Came, Left
  <2>3. StatsInv'
    BY <1>5 DEF IInv, vars, sched, program, StatsInv, TableInjective, InsertersUnsettled,
                PointersRight, SettledExact
  <2> QED
    BY <2>1, <2>2, <2>3 DEF IInv
<1> QED
  BY <1>1, <1>2, <1>3, <1>4, <1>5 DEF Next

(* IInv is an invariant of the programs, the scheduler and the collector.  *)
LEMMA Invariance == Spec => []IInv
BY InitIInv, NextIInv, PTL DEF Spec

(* sched_switch never adds through a NULL pointer nor measures a stamp it  *)
(* did not find, and every map and program variable keeps its type.        *)
THEOREM TypeCorrect == Spec => []TypeOK
<1>1. IInv => TypeOK
  BY DEF IInv
<1> QED
  BY <1>1, Invariance, PTL

(* "protege contra reuso de PID": the wait is measured from a stamp of the *)
(* task that comes to the CPU, set since it last ran or, on a preemptive   *)
(* kernel, by a wakeup while it ran; for any reuse of pids.                *)
THEOREM OwnWaitMeasured == Spec => []MeasuresOwnWait
<1>1. IInv => MeasuresOwnWait
  <2> SUFFICES ASSUME IInv, NEW c \in Cpus, tsp[c] # None
               PROVE  /\ tsp[c].task = cur[c]
                      /\ tsp[c].set = "wait" \/ (tsp[c].set = "run" /\ preemptive)
    BY DEF MeasuresOwnWait
  <2>1. FromWait(cur[c], tsp[c])
    BY DEF IInv, StampInv, TakenFits
  <2> QED
    BY <2>1 DEF FromWait, St
<1> QED
  BY <1>1, Invariance, PTL

(* A task in a run queue has a stamp of this wait, unless start_map was    *)
(* full, on a kernel that preempts no task on its way to sleep.            *)
THEOREM WaitingStamped == Spec => []NonPreemptiveStamped
<1>1. IInv => NonPreemptiveStamped
  <2> SUFFICES ASSUME IInv, ~preemptive, NEW t \in Tasks, t \notin refused, t \notin Locked,
                      phase[t] = "queued"
               PROVE  startMap[Key(t)] = [task |-> t, set |-> "wait"]
    BY DEF NonPreemptiveStamped, RunnableStamped, Waiting
  <2>1. ~Left(t)
    BY LockedMeans DEF Left
  <2> QED
    BY <2>1 DEF IInv, StampInv, StampsFit, StampFits, St
<1> QED
  BY <1>1, Invariance, PTL

(* The only stamp that outlives its task was set by a wakeup that found    *)
(* the task running.                                                       *)
THEOREM LeaksBounded == Spec => []LeakOnlyFromRunning
<1>1. IInv => LeakOnlyFromRunning
  BY DEF IInv, StampInv, StampsFit, StampFits, St, LeakOnlyFromRunning
<1> QED
  BY <1>1, Invariance, PTL

(* The statistics of a settled cgroup are exactly what the switches to its *)
(* own tasks added.                                                        *)
THEOREM SettledExactness == Spec => []SettledExact
<1>1. IInv => SettledExact
  BY DEF IInv, StatsInv
<1> QED
  BY <1>1, Invariance, PTL

(* Every step is, for a reader of count, a step of the abstract map or no  *)
(* step at all.                                                            *)
LEMMA NextMap == IInv /\ [Next]_vars => [Map!Next]_(View("count"))
<1> SUFFICES ASSUME IInv, [Next]_vars PROVE [Map!Next]_(View("count"))
  OBVIOUS
<1> DEFINE w == "count"
<1> DEFINE Goal == \/ View(w)' = View(w)
                   \/ \E cg \in Cgroups :
                        \/ cg \notin Settled /\ View(w)' = [View(w) EXCEPT ![cg] = 0]
                        \/ View(w)[cg] # None /\ View(w)' = [View(w) EXCEPT ![cg] = @ + 1]
                        \/ cg \notin Settled /\ View(w)' = [View(w) EXCEPT ![cg] = None]
<1> SUFFICES Goal
  BY DEF Map!Next, Map!Start, Map!Count, Map!Remove
<1>0. w \in Words /\ StatsTypeOK(Words) /\ TableInjective
  BY DEF IInv, StatsInv, TypeOK, StatsTypeOK, Counters, Words
<1>1. CASE UNCHANGED <<table, elem>>
  BY <1>1 DEF View
<1>2. ASSUME NEW c \in Cpus, ZeroInsert(c) PROVE Goal
  <2>1. CgroupOf[cur[c]] \in Cgroups
    BY ConstantsAssumption DEF IInv, TypeOK
  <2>2. /\ CgroupOf[cur[c]] \notin Settled
        /\ View(w)' = View(w) \/ View(w)' = [View(w) EXCEPT ![CgroupOf[cur[c]]] = 0]
    BY <1>2, InsertStatsInv
  <2> HIDE DEF w
  <2> QED
    BY <2>1, <2>2
<1>3. ASSUME NEW c \in Cpus, AddCount(c) \/ AddLatency(c) PROVE Goal
  <2>1. pc[c] \in Words /\ stats[c] \in Slots /\ FetchAndAdd(stats[c], pc[c])
    BY <1>3 DEF AddCount, AddLatency, Add, IInv, TypeOK, Words
  <2> HIDE DEF w
  <2>2. \/ View(w)' = View(w)
        \/ \E cg \in Cgroups : /\ View(w)[cg] # None
                               /\ View(w)' = [View(w) EXCEPT ![cg] = @ + 1]
    BY <1>0, <2>1, AddView
  <2> QED
    BY <2>2
<1>4. ASSUME NEW cg \in Cgroups, UserDelete(cg) PROVE Goal
  <2>1. cg \notin Settled /\ Delete(cg)
    BY <1>4 DEF UserDelete, Delete
  <2> HIDE DEF w
  <2> QED
    BY <1>0, <2>1, DeleteView
<1>5. \/ UNCHANGED <<table, elem>>
      \/ \E c \in Cpus : ZeroInsert(c) \/ AddCount(c) \/ AddLatency(c)
      \/ \E cg \in Cgroups : UserDelete(cg)
  BY DEF Next, vars, Program, SetState, Exit, SchedWakeup, SchedWakeupNew, SchedSwitch,
         Restamp, NotStamped, TakeStamp, LookupStats, Relookup
<1> QED
  BY <1>1, <1>2, <1>3, <1>4, <1>5

(* runq_stats_by_cgroup behaves as BpfMap says, for any number of CPUs,    *)
(* tasks, cgroups and elements.                                            *)
THEOREM MapRefinement == Spec => ImplementsBpfMap
<1>1. Init => Map!Init
  <2> SUFFICES ASSUME Init PROVE Map!Init
    OBVIOUS
  <2>1. StatsInit(Words) /\ "count" \in Words
    BY DEF Init, Words
  <2>2. /\ View("count") \in [Cgroups -> Nat \cup {None}]
        /\ \A cg \in Cgroups : View("count")[cg] # None <=> cg \in Settled
    BY <2>1, StatsInitView
  <2> QED
    BY <2>2 DEF Map!Init
<1> QED
  BY <1>1, NextMap, Invariance, PTL DEF Spec, ImplementsBpfMap, Map!Spec

=============================================================================
