------------------------- MODULE BlockLatencyProofs -------------------------
(***************************************************************************)
(* Proofs about BlockLatency, for any number of requests, cgroups, CPUs    *)
(* and map elements: the counters of a settled cgroup are exact, no stamp  *)
(* leaks, every issue is accounted for, and the statistics map implements  *)
(* BpfMap.                                                                 *)
(***************************************************************************)
EXTENDS BlockLatency, FiniteSetTheorems, TLAPS

(* A running block_rq_complete still has its stamp. *)
RunningStamped ==
  \A r \in Requests : pc[r] # "idle" => startMap[r] \in Cgroups

(* Only a request of a cgroup that is not settled is on the insert path. *)
InsertersUnsettled ==
  \A r \in Requests : pc[r] \in {"update", "lookup"} => startMap[r] \notin Settled

(* The pointer of a program that adds leads to the element of a settled    *)
(* cgroup exactly when the request is charged to that cgroup.              *)
PointersRight ==
  \A r \in Requests : pc[r] \in Words =>
    \A cg \in Settled : stats[r] = table[cg] <=> startMap[r] = cg

IInv ==
  /\ TypeOK
  /\ TableInjective
  /\ RunningStamped
  /\ InsertersUnsettled
  /\ PointersRight
  /\ SettledExact
  /\ NoStampLeak

----------------------------------------------------------------------------
(* The step that follows a word is another word or the removal of the      *)
(* stamp: block_rq_complete goes forward through its additions.            *)
LEMMA AfterType ==
  \A w \in Words, error \in BOOLEAN : After(w, error) \in Words \cup {"delete"}
BY DEF After, Words

(* The initial state satisfies the inductive invariant. *)
LEMMA InitIInv == Init => IInv
<1> SUFFICES ASSUME Init PROVE IInv
  OBVIOUS
<1> USE ConstantsAssumption, StatsAssumption DEF Init, StatsInit
<1>1. TypeOK
  BY DEF TypeOK, Counters, Words, Free
<1>2. TableInjective
  BY DEF TableInjective
<1>3. RunningStamped /\ InsertersUnsettled /\ NoStampLeak
  BY DEF RunningStamped, InsertersUnsettled, NoStampLeak
<1>4. PointersRight
  BY DEF PointersRight, Words
<1>5. SettledExact
  <2>1. SUFFICES ASSUME NEW cg \in Settled
                 PROVE  table[cg] # None /\ elem[table[cg]] = added[cg]
    BY DEF SettledExact
  <2>2. table[cg] \in Slots /\ table[cg] \notin Free
    BY DEF Free
  <2> QED
    BY <2>2
<1> QED
  BY <1>1, <1>2, <1>3, <1>4, <1>5 DEF IInv

(* Issuing a request disturbs only the stamp of an idle request. *)
LEMMA IssueIInv ==
  ASSUME IInv, NEW r \in Requests, NEW cg \in Cgroups, BlockRqIssue(r, cg)
  PROVE  IInv'
<1> USE ConstantsAssumption, StatsAssumption DEF IInv, BlockRqIssue
<1>1. /\ startMap' \in [Requests -> Cgroups \cup {None}]
      /\ \A q \in Requests : pc[q] # "idle" => startMap'[q] = startMap[q]
      /\ \A q \in Requests : q # r => startMap'[q] = startMap[q]
  BY DEF TypeOK
<1>2. lost' \in [Settled -> Nat] /\ issued' \in [Cgroups -> Nat]
  BY DEF TypeOK, Lose
<1>3. TypeOK'
  <2>1. inflight' \in [Requests -> BOOLEAN]
    BY DEF TypeOK
  <2> QED
    BY <1>1, <1>2, <2>1 DEF TypeOK
<1>4. TableInjective' /\ SettledExact'
  BY DEF TableInjective, SettledExact
<1>5. RunningStamped' /\ InsertersUnsettled'
  BY <1>1 DEF RunningStamped, InsertersUnsettled
<1>6. PointersRight'
  BY <1>1 DEF PointersRight, Words
<1>7. NoStampLeak'
  BY <1>1 DEF NoStampLeak, TypeOK
<1> QED
  BY <1>3, <1>4, <1>5, <1>6, <1>7

(* A completion without a stamp only releases the request. *)
LEMMA UnstampedIInv ==
  ASSUME IInv, NEW r \in Requests, CompleteUnstamped(r)
  PROVE  IInv'
<1> USE DEF IInv, CompleteUnstamped
<1>1. TypeOK'
  BY DEF TypeOK
<1>2. TableInjective' /\ SettledExact'
  BY DEF TableInjective, SettledExact
<1>3. RunningStamped' /\ InsertersUnsettled' /\ PointersRight'
  BY DEF RunningStamped, InsertersUnsettled, PointersRight
<1>4. NoStampLeak'
  BY DEF NoStampLeak, TypeOK
<1> QED
  BY <1>1, <1>2, <1>3, <1>4

(* The first lookup leads a settled cgroup's program to its own element,   *)
(* and any other program to an element no settled cgroup has.              *)
LEMMA LookupIInv ==
  ASSUME IInv, NEW r \in Requests, BlockRqComplete(r)
  PROVE  IInv'
<1> USE ConstantsAssumption, StatsAssumption DEF IInv, BlockRqComplete
<1>1. startMap[r] \in Cgroups /\ table[startMap[r]] \in Slots \cup {None}
  BY DEF TypeOK
<1>2. /\ pc' = [pc EXCEPT ![r] = pc'[r]]
      /\ pc'[r] \in {"update", "io_count"}
      /\ pc'[r] = "update" <=> table[startMap[r]] = None
      /\ stats' = [stats EXCEPT ![r] = table[startMap[r]]]
  BY DEF TypeOK
<1>3. TypeOK'
  BY <1>1, <1>2 DEF TypeOK, Words
<1>4. TableInjective' /\ SettledExact'
  BY DEF TableInjective, SettledExact
<1>5. RunningStamped'
  BY <1>1, <1>2 DEF RunningStamped, TypeOK
<1>6. InsertersUnsettled'
  BY <1>1, <1>2 DEF InsertersUnsettled, TypeOK, SettledExact
<1>7. PointersRight'
  <2> SUFFICES ASSUME NEW q \in Requests, pc'[q] \in Words, NEW cg \in Settled
               PROVE  stats'[q] = table[cg] <=> startMap[q] = cg
    BY DEF PointersRight
  <2>1. CASE q = r
    <3>1. stats'[q] = table[startMap[r]] /\ table[startMap[r]] # None
      BY <2>1, <1>2 DEF TypeOK, Words
    <3> QED
      BY <2>1, <3>1, <1>1 DEF TableInjective
  <2>2. CASE q # r
    BY <2>2, <1>2 DEF PointersRight, TypeOK
  <2> QED
    BY <2>1, <2>2
<1>8. NoStampLeak'
  BY <1>2 DEF NoStampLeak, TypeOK
<1> QED
  BY <1>3, <1>4, <1>5, <1>6, <1>7, <1>8

(* The zero insert moves the entry of a cgroup that is not settled to an   *)
(* element that belonged to nobody.                                        *)
LEMMA InsertIInv ==
  ASSUME IInv, NEW r \in Requests, ZeroInsert(r)
  PROVE  IInv'
<1> USE ConstantsAssumption, StatsAssumption DEF IInv, ZeroInsert, Insert
<1>1. startMap[r] \in Cgroups /\ startMap[r] \notin Settled
  BY DEF RunningStamped, InsertersUnsettled
<1>2. pc' = [pc EXCEPT ![r] = "lookup"] /\ "lookup" \notin Words
  BY DEF Words
<1> DEFINE Moved ==
       /\ table' \in [Cgroups -> Slots \cup {None}]
       /\ elem' \in [Slots -> Counters]
       /\ \A cg \in Cgroups : cg # startMap[r] => table'[cg] = table[cg]
       /\ \A cg \in Settled : table'[cg] = table[cg]
       /\ \A cg \in Settled : elem'[table[cg]] = elem[table[cg]]
       /\ TableInjective'
<1>3. Moved
  <2>1. CASE UNCHANGED <<table, elem>>
    BY <2>1 DEF TypeOK, TableInjective
  <2>2. ASSUME NEW s \in Free,
               table' = [table EXCEPT ![startMap[r]] = s],
               elem' = [elem EXCEPT ![s] = Zero]
        PROVE  Moved
    <3>1. s \in Slots /\ \A cg \in Cgroups : table[cg] # s
      BY DEF Free
    <3>2. Zero \in Counters
      BY DEF Zero, Counters
    <3>3. \A cg \in Cgroups : table'[cg] = IF cg = startMap[r] THEN s ELSE table[cg]
      BY <2>2 DEF TypeOK
    <3>4. TableInjective'
      BY <3>1, <3>3 DEF TableInjective
    <3>5. /\ table' \in [Cgroups -> Slots \cup {None}]
          /\ elem' \in [Slots -> Counters]
      BY <2>2, <3>1, <3>2, <1>1 DEF TypeOK
    <3>6. \A cg \in Settled : elem'[table[cg]] = elem[table[cg]]
      BY <2>2, <3>1 DEF TypeOK, SettledExact
    <3> QED
      BY <1>1, <3>3, <3>4, <3>5, <3>6
  <2> QED
    BY <2>1, <2>2
<1>4. TypeOK'
  BY <1>2, <1>3 DEF TypeOK
<1>5. RunningStamped' /\ InsertersUnsettled' /\ NoStampLeak'
  BY <1>1, <1>2 DEF RunningStamped, InsertersUnsettled, NoStampLeak, TypeOK
<1>6. PointersRight'
  BY <1>2, <1>3 DEF PointersRight, TypeOK
<1>7. SettledExact'
  BY <1>3 DEF SettledExact
<1> QED
  BY <1>3, <1>4, <1>5, <1>6, <1>7

(* The second lookup is made only for a cgroup that is not settled. *)
LEMMA RelookupIInv ==
  ASSUME IInv, NEW r \in Requests, Relookup(r)
  PROVE  IInv'
<1> USE ConstantsAssumption, StatsAssumption DEF IInv, Relookup
<1>1. /\ startMap[r] \in Cgroups /\ startMap[r] \notin Settled
      /\ table[startMap[r]] \in Slots \cup {None}
  BY DEF RunningStamped, InsertersUnsettled, TypeOK
<1>2. /\ pc' = [pc EXCEPT ![r] = pc'[r]]
      /\ pc'[r] \in {"delete", "io_count"}
      /\ pc'[r] = "delete" <=> table[startMap[r]] = None
  BY DEF TypeOK
<1>3. lost' \in [Settled -> Nat]
  BY DEF TypeOK, Lose
<1>4. TypeOK'
  BY <1>1, <1>2, <1>3 DEF TypeOK, Words
<1>5. TableInjective' /\ SettledExact'
  BY DEF TableInjective, SettledExact
<1>6. RunningStamped' /\ InsertersUnsettled' /\ NoStampLeak'
  BY <1>1, <1>2 DEF RunningStamped, InsertersUnsettled, NoStampLeak, TypeOK
<1>7. PointersRight'
  <2> SUFFICES ASSUME NEW q \in Requests, pc'[q] \in Words, NEW cg \in Settled
               PROVE  stats'[q] = table[cg] <=> startMap[q] = cg
    BY DEF PointersRight
  <2>1. CASE q = r
    <3>1. stats'[q] = table[startMap[r]] /\ table[startMap[r]] # None
      BY <2>1, <1>2 DEF TypeOK, Words
    <3> QED
      BY <2>1, <3>1, <1>1 DEF TableInjective
  <2>2. CASE q # r
    BY <2>2, <1>2 DEF PointersRight, TypeOK
  <2> QED
    BY <2>1, <2>2
<1> QED
  BY <1>4, <1>5, <1>6, <1>7

(* An addition reaches the element of a settled cgroup when, and only      *)
(* when, the request is charged to it.                                     *)
LEMMA AddIInv ==
  ASSUME IInv, NEW r \in Requests, AddWord(r)
  PROVE  IInv'
<1> USE ConstantsAssumption, StatsAssumption DEF IInv, AddWord, FetchAndAdd
<1>1. /\ startMap[r] \in Cgroups
      /\ pc[r] # "idle"
      /\ stats[r] \in Slots
  BY DEF RunningStamped, TypeOK, Words
<1>2. /\ pc' = [pc EXCEPT ![r] = pc'[r]]
      /\ pc'[r] \in Words \cup {"delete"}
  BY AfterType DEF TypeOK
<1>3. /\ elem' \in [Slots -> Counters]
      /\ \A s \in Slots : elem'[s] = IF s = stats[r]
                                     THEN [elem[s] EXCEPT ![pc[r]] = @ + 1]
                                     ELSE elem[s]
  <2>1. elem' = [elem EXCEPT ![stats[r]] = [elem[stats[r]] EXCEPT ![pc[r]] = @ + 1]]
    OBVIOUS
  <2>2. [elem[stats[r]] EXCEPT ![pc[r]] = @ + 1] \in Counters
    BY <1>1 DEF TypeOK, Counters
  <2> HIDE DEF AddWord, FetchAndAdd
  <2> QED
    BY <1>1, <2>1, <2>2 DEF TypeOK
<1>4. added' \in [Settled -> Counters]
  BY DEF TypeOK, Counters
<1>5. TypeOK'
  <2>1. pc' \in [Requests -> {"idle", "update", "lookup", "delete"} \cup Words]
    BY <1>2 DEF TypeOK
  <2>2. \A q \in Requests : pc'[q] \in Words => stats'[q] # None
    BY <1>1, <1>2 DEF TypeOK
  <2> QED
    BY <1>3, <1>4, <2>1, <2>2 DEF TypeOK
<1>6. TableInjective'
  BY DEF TableInjective
<1>7. RunningStamped' /\ InsertersUnsettled' /\ NoStampLeak'
  BY <1>1, <1>2 DEF RunningStamped, InsertersUnsettled, NoStampLeak, TypeOK, Words
<1>8. PointersRight'
  BY <1>2 DEF PointersRight, TypeOK
<1>9. SettledExact'
  <2> SUFFICES ASSUME NEW cg \in Settled
               PROVE  table[cg] # None /\ elem'[table[cg]] = added'[cg]
    BY DEF SettledExact
  <2>1. table[cg] \in Slots /\ elem[table[cg]] = added[cg]
    BY DEF SettledExact, TypeOK
  <2>2. stats[r] = table[cg] <=> startMap[r] = cg
    BY DEF PointersRight
  <2> QED
    BY <1>3, <2>1, <2>2
<1> QED
  BY <1>5, <1>6, <1>7, <1>8, <1>9

(* Removing the stamp ends the program. *)
LEMMA DeleteIInv ==
  ASSUME IInv, NEW r \in Requests, DeleteStart(r)
  PROVE  IInv'
<1> USE ConstantsAssumption, StatsAssumption DEF IInv, DeleteStart
<1>1. pc' = [pc EXCEPT ![r] = "idle"] /\ "idle" \notin Words
  BY DEF Words
<1>2. TypeOK'
  BY <1>1 DEF TypeOK
<1>3. TableInjective' /\ SettledExact'
  BY DEF TableInjective, SettledExact
<1>4. RunningStamped' /\ InsertersUnsettled'
  BY DEF RunningStamped, InsertersUnsettled, TypeOK
<1>5. PointersRight'
  BY <1>1 DEF PointersRight, TypeOK
<1>6. NoStampLeak'
  BY DEF NoStampLeak, TypeOK
<1> QED
  BY <1>2, <1>3, <1>4, <1>5, <1>6

(* The collector deletes no entry of a settled cgroup. *)
LEMMA UserDeleteIInv ==
  ASSUME IInv, NEW cg \in Cgroups, UserDelete(cg)
  PROVE  IInv'
<1> USE ConstantsAssumption, StatsAssumption DEF IInv, UserDelete, Delete
<1>1. \A c \in Settled : table'[c] = table[c]
  BY DEF TypeOK
<1>2. TypeOK'
  BY DEF TypeOK
<1>3. TableInjective'
  BY DEF TableInjective, TypeOK
<1>4. RunningStamped' /\ InsertersUnsettled' /\ NoStampLeak'
  BY DEF RunningStamped, InsertersUnsettled, NoStampLeak
<1>5. PointersRight' /\ SettledExact'
  BY <1>1 DEF PointersRight, SettledExact
<1> QED
  BY <1>2, <1>3, <1>4, <1>5

(* Every step of the programs and of the collector preserves the invariant.*)
LEMMA NextIInv == IInv /\ [Next]_vars => IInv'
<1> SUFFICES ASSUME IInv, [Next]_vars PROVE IInv'
  OBVIOUS
<1>1. ASSUME NEW r \in Requests, NEW cg \in Cgroups, BlockRqIssue(r, cg) PROVE IInv'
  BY <1>1, IssueIInv
<1>2. ASSUME NEW r \in Requests, Complete(r) PROVE IInv'
  BY <1>2, UnstampedIInv, LookupIInv, InsertIInv, RelookupIInv, AddIInv, DeleteIInv
     DEF Complete
<1>3. ASSUME NEW cg \in Cgroups, UserDelete(cg) PROVE IInv'
  BY <1>3, UserDeleteIInv
<1>4. CASE UNCHANGED vars
  BY <1>4 DEF vars, IInv, TypeOK, TableInjective, RunningStamped, InsertersUnsettled,
              PointersRight, SettledExact, NoStampLeak
<1> QED
  BY <1>1, <1>2, <1>3, <1>4 DEF Next

(* IInv is an invariant of the two programs running with the collector. *)
LEMMA Invariance == Spec => []IInv
BY InitIInv, NextIInv, PTL DEF Spec

(* block_rq_complete never adds through a NULL pointer, and every map and  *)
(* program variable keeps its type.                                        *)
THEOREM TypeCorrect == Spec => []TypeOK
<1>1. IInv => TypeOK
  BY DEF IInv
<1> QED
  BY <1>1, Invariance, PTL

(* The statistics of a settled cgroup are exactly what its own completions *)
(* added, for any number of CPUs, cgroups and recycled map elements.       *)
THEOREM SettledExactness == Spec => []SettledExact
<1>1. IInv => SettledExact
  BY DEF IInv
<1> QED
  BY <1>1, Invariance, PTL

(* start_map holds no stamp of a request that has left the device. *)
THEOREM StampsReleased == Spec => []NoStampLeak
<1>1. IInv => NoStampLeak
  BY DEF IInv
<1> QED
  BY <1>1, Invariance, PTL

----------------------------------------------------------------------------
(* What the operations of StatsMap do to a word of the map as a reader     *)
(* sees it, as long as no two cgroups share an element.  The programs'     *)
(* own view of the elements, above, does not need it.                      *)

StatsTypeOK(W) ==
  /\ table \in [Cgroups -> Slots \cup {None}]
  /\ elem \in [Slots -> [W -> Nat]]

(* The initial table shows an entry exactly for the settled cgroups.       *)
LEMMA StatsInitView ==
  ASSUME NEW W, NEW w \in W, StatsInit(W)
  PROVE  /\ View(w) \in [Cgroups -> Nat \cup {None}]
         /\ \A cg \in Cgroups : View(w)[cg] # None <=> cg \in Settled
<1> USE StatsAssumption DEF StatsInit
<1>1. StatsTypeOK(W)
  BY DEF StatsTypeOK, Free
<1>2. \A cg \in Cgroups : View(w)[cg] = IF table[cg] = None THEN None ELSE elem[table[cg]][w]
  BY DEF View
<1>3. \A cg \in Cgroups : table[cg] # None => elem[table[cg]][w] \in Nat
  BY <1>1 DEF StatsTypeOK
<1>4. View(w) \in [Cgroups -> Nat \cup {None}]
  BY <1>3 DEF View
<1> QED
  BY <1>2, <1>3, <1>4

(* A zero insert shows as zero in one entry, if it shows at all.           *)
LEMMA InsertView ==
  ASSUME NEW W, NEW w \in W, StatsTypeOK(W),
         NEW cg \in Cgroups, NEW zero \in [W -> Nat], zero[w] = 0,
         Insert(cg, zero)
  PROVE  View(w)' = View(w) \/ View(w)' = [View(w) EXCEPT ![cg] = 0]
<1>1. CASE UNCHANGED <<table, elem>>
  BY <1>1 DEF View
<1>2. ASSUME NEW s \in Free,
             table' = [table EXCEPT ![cg] = s], elem' = [elem EXCEPT ![s] = zero]
      PROVE  View(w)' = [View(w) EXCEPT ![cg] = 0]
  <2>1. s \in Slots /\ s # None /\ \A c \in Cgroups : table[c] # s
    BY StatsAssumption DEF Free
  <2>2. \A c \in Cgroups : table'[c] = IF c = cg THEN s ELSE table[c]
    BY <1>2 DEF StatsTypeOK
  <2>3. /\ elem'[s] = zero
        /\ \A c \in Cgroups : table[c] # None => elem'[table[c]] = elem[table[c]]
    BY <1>2, <2>1 DEF StatsTypeOK
  <2>4. View(w)' = [c \in Cgroups |-> IF table'[c] = None THEN None ELSE elem'[table'[c]][w]]
    BY DEF View
  <2>5. \A c \in Cgroups : (IF table'[c] = None THEN None ELSE elem'[table'[c]][w])
                           = [View(w) EXCEPT ![cg] = 0][c]
    BY <2>1, <2>2, <2>3 DEF View
  <2> QED
    BY <2>4, <2>5 DEF View
<1> QED
  BY <1>1, <1>2 DEF Insert

(* An addition through any pointer shows as one sample more in the entry   *)
(* of at most one cgroup.                                                  *)
LEMMA AddView ==
  ASSUME NEW W, NEW w \in W, StatsTypeOK(W), TableInjective,
         NEW s \in Slots, NEW x \in W, FetchAndAdd(s, x)
  PROVE  \/ View(w)' = View(w)
         \/ \E cg \in Cgroups : /\ View(w)[cg] # None
                                /\ View(w)' = [View(w) EXCEPT ![cg] = @ + 1]
<1> USE StatsAssumption
<1>1. \A q \in Slots : elem'[q][w] = IF q = s /\ w = x THEN elem[q][w] + 1 ELSE elem[q][w]
  BY DEF FetchAndAdd, StatsTypeOK
<1>2. View(w)' = [c \in Cgroups |-> IF table[c] = None THEN None ELSE elem'[table[c]][w]]
  BY DEF View, FetchAndAdd
<1>3. CASE w # x \/ \A c \in Cgroups : table[c] # s
  <2>1. \A c \in Cgroups : table[c] # None => elem'[table[c]][w] = elem[table[c]][w]
    BY <1>1, <1>3 DEF StatsTypeOK
  <2> QED
    BY <1>2, <2>1 DEF View
<1>4. ASSUME w = x, NEW cg \in Cgroups, table[cg] = s
      PROVE  /\ View(w)[cg] # None
             /\ View(w)' = [View(w) EXCEPT ![cg] = @ + 1]
  <2>1. table[cg] # None /\ elem[table[cg]][w] \in Nat
    BY <1>4 DEF StatsTypeOK
  <2>2. \A c \in Cgroups : table[c] # None =>
           elem'[table[c]][w] = IF c = cg THEN elem[table[c]][w] + 1 ELSE elem[table[c]][w]
    BY <1>1, <1>4, <2>1 DEF StatsTypeOK, TableInjective
  <2>3. View(w)[cg] = elem[table[cg]][w]
    BY <2>1 DEF View
  <2>4. \A c \in Cgroups : (IF table[c] = None THEN None ELSE elem'[table[c]][w])
                           = [View(w) EXCEPT ![cg] = @ + 1][c]
    BY <2>1, <2>2, <2>3 DEF View
  <2> QED
    BY <1>2, <2>1, <2>3, <2>4 DEF View
<1> QED
  BY <1>3, <1>4

(* A deletion takes away one entry. *)
LEMMA DeleteView ==
  ASSUME NEW W, NEW w \in W, StatsTypeOK(W), NEW cg \in Cgroups, Delete(cg)
  PROVE  View(w)' = [View(w) EXCEPT ![cg] = None]
<1>1. /\ \A c \in Cgroups : table'[c] = IF c = cg THEN None ELSE table[c]
      /\ elem' = elem
  BY DEF StatsTypeOK, Delete
<1>2. View(w)' = [c \in Cgroups |-> IF table'[c] = None THEN None ELSE elem'[table'[c]][w]]
  BY DEF View
<1>3. \A c \in Cgroups : (IF table'[c] = None THEN None ELSE elem'[table'[c]][w])
                         = [View(w) EXCEPT ![cg] = None][c]
  BY <1>1 DEF View
<1> QED
  BY <1>2, <1>3 DEF View

(* Both modules' types of the map are the same. *)
LEMMA StatsTypes == IInv => StatsTypeOK(Words) /\ TableInjective
BY DEF IInv, TypeOK, StatsTypeOK, Counters

(* Every step of the programs is, for a reader of io_count, a step of the  *)
(* abstract map or no step at all.                                         *)
LEMMA NextMap == IInv /\ [Next]_vars => [Map!Next]_(View("io_count"))
<1> SUFFICES ASSUME IInv, [Next]_vars PROVE [Map!Next]_(View("io_count"))
  OBVIOUS
<1> DEFINE w == "io_count"
<1>0. w \in Words /\ StatsTypeOK(Words) /\ TableInjective
  BY StatsTypes DEF Words
<1> SUFFICES \/ View(w)' = View(w)
             \/ \E cg \in Cgroups :
                  \/ cg \notin Settled /\ View(w)' = [View(w) EXCEPT ![cg] = 0]
                  \/ View(w)[cg] # None /\ View(w)' = [View(w) EXCEPT ![cg] = @ + 1]
                  \/ cg \notin Settled /\ View(w)' = [View(w) EXCEPT ![cg] = None]
  BY DEF Map!Next, Map!Start, Map!Count, Map!Remove
<1> DEFINE Goal == \/ View(w)' = View(w)
                   \/ \E cg \in Cgroups :
                        \/ cg \notin Settled /\ View(w)' = [View(w) EXCEPT ![cg] = 0]
                        \/ View(w)[cg] # None /\ View(w)' = [View(w) EXCEPT ![cg] = @ + 1]
                        \/ cg \notin Settled /\ View(w)' = [View(w) EXCEPT ![cg] = None]
<1>1. CASE UNCHANGED <<table, elem>>
  BY <1>1 DEF View
<1>2. ASSUME NEW r \in Requests, ZeroInsert(r) PROVE Goal
  <2>1. startMap[r] \in Cgroups /\ startMap[r] \notin Settled
    BY <1>2 DEF IInv, RunningStamped, InsertersUnsettled, ZeroInsert
  <2>2. Zero \in [Words -> Nat] /\ Zero[w] = 0
    BY <1>0 DEF Zero
  <2>3. Insert(startMap[r], Zero)
    BY <1>2 DEF ZeroInsert
  <2>4. View(w)' = View(w) \/ View(w)' = [View(w) EXCEPT ![startMap[r]] = 0]
    <3> HIDE DEF w
    <3> QED
      BY <1>0, <2>1, <2>2, <2>3, InsertView
  <2> QED
    BY <2>1, <2>4
<1>3. ASSUME NEW r \in Requests, AddWord(r) PROVE Goal
  <2>1. pc[r] \in Words /\ stats[r] \in Slots /\ FetchAndAdd(stats[r], pc[r])
    BY <1>3 DEF AddWord, IInv, TypeOK
  <2> HIDE DEF w
  <2>2. \/ View(w)' = View(w)
        \/ \E cg \in Cgroups : /\ View(w)[cg] # None
                               /\ View(w)' = [View(w) EXCEPT ![cg] = @ + 1]
    BY <1>0, <2>1, AddView
  <2> QED
    BY <2>2
<1>4. ASSUME NEW cg \in Cgroups, UserDelete(cg) PROVE Goal
  <2>1. cg \notin Settled /\ Delete(cg)
    BY <1>4 DEF UserDelete, Delete
  <2> HIDE DEF w
  <2> QED
    BY <1>0, <2>1, DeleteView
<1>5. \/ UNCHANGED <<table, elem>>
      \/ \E r \in Requests : ZeroInsert(r) \/ AddWord(r)
      \/ \E cg \in Cgroups : UserDelete(cg)
  BY DEF Next, vars, Complete, BlockRqIssue, CompleteUnstamped, BlockRqComplete,
         Relookup, DeleteStart
<1> QED
  BY <1>1, <1>2, <1>3, <1>4, <1>5

(* The map the collector reads behaves as BpfMap says, for any number of   *)
(* CPUs, requests, cgroups and elements: the pointers, the recycled        *)
(* elements and the racing inserts of block_rq_complete stay hidden.       *)
THEOREM MapRefinement == Spec => ImplementsBpfMap
<1>1. Init => Map!Init
  <2> SUFFICES ASSUME Init PROVE Map!Init
    OBVIOUS
  <2>1. StatsInit(Words) /\ "io_count" \in Words
    BY DEF Init, Words
  <2>2. /\ View("io_count") \in [Cgroups -> Nat \cup {None}]
        /\ \A cg \in Cgroups : View("io_count")[cg] # None <=> cg \in Settled
    BY <2>1, StatsInitView
  <2> QED
    BY <2>2 DEF Map!Init
<1> QED
  BY <1>1, NextMap, Invariance, PTL DEF Spec, ImplementsBpfMap, Map!Spec

----------------------------------------------------------------------------
(* Conservation of requests *)

Accounted ==
  \A cg \in Settled :
    issued[cg] = added[cg]["io_count"] + Cardinality(Uncounted(cg)) + lost[cg]

(* A request enters or leaves the uncounted ones of a cgroup alone. *)
LEMMA UncountedMoves ==
  ASSUME NEW cg, NEW r \in Requests,
         \A q \in Requests : q # r => (q \in Uncounted(cg)' <=> q \in Uncounted(cg))
  PROVE  /\ Cardinality(Uncounted(cg)) \in Nat
         /\ (r \in Uncounted(cg)' <=> r \in Uncounted(cg)) =>
              Cardinality(Uncounted(cg))' = Cardinality(Uncounted(cg))
         /\ r \in Uncounted(cg)' /\ r \notin Uncounted(cg) =>
              Cardinality(Uncounted(cg))' = Cardinality(Uncounted(cg)) + 1
         /\ r \notin Uncounted(cg)' /\ r \in Uncounted(cg) =>
              Cardinality(Uncounted(cg)) = Cardinality(Uncounted(cg))' + 1
         /\ Cardinality(Uncounted(cg))' \in Nat
<1>1. IsFiniteSet(Uncounted(cg)) /\ IsFiniteSet(Uncounted(cg)')
  BY ConstantsAssumption, FS_Subset DEF Uncounted
<1>2. Uncounted(cg) \subseteq Requests /\ Uncounted(cg)' \subseteq Requests
  BY DEF Uncounted
<1>3. Cardinality(Uncounted(cg)') = Cardinality(Uncounted(cg))'
  OBVIOUS
<1>4. Cardinality(Uncounted(cg)) \in Nat /\ Cardinality(Uncounted(cg)') \in Nat
  BY <1>1, FS_CardinalityType
<1>5. ASSUME r \in Uncounted(cg)' <=> r \in Uncounted(cg)
      PROVE  Cardinality(Uncounted(cg)') = Cardinality(Uncounted(cg))
  <2>1. Uncounted(cg)' = Uncounted(cg)
    BY <1>2, <1>5
  <2> QED
    BY <2>1
<1>6. ASSUME r \in Uncounted(cg)', r \notin Uncounted(cg)
      PROVE  Cardinality(Uncounted(cg)') = Cardinality(Uncounted(cg)) + 1
  <2>1. Uncounted(cg)' = Uncounted(cg) \cup {r}
    BY <1>2, <1>6
  <2> QED
    BY <1>1, <1>6, <2>1, FS_AddElement
<1>7. ASSUME r \notin Uncounted(cg)', r \in Uncounted(cg)
      PROVE  Cardinality(Uncounted(cg)) = Cardinality(Uncounted(cg)') + 1
  <2>1. Uncounted(cg) = Uncounted(cg)' \cup {r}
    BY <1>2, <1>7
  <2> QED
    BY <1>1, <1>7, <2>1, FS_AddElement
<1> QED
  BY <1>3, <1>4, <1>5, <1>6, <1>7

(* block_rq_complete adds to io_count once. *)
LEMMA CountedOnce ==
  \A w \in Words, error \in BOOLEAN : After(w, error) # "io_count"
BY DEF After, Words

LEMMA IssueAccounted ==
  ASSUME IInv, Accounted, NEW r \in Requests, NEW cg \in Cgroups, BlockRqIssue(r, cg)
  PROVE  Accounted'
<1> SUFFICES ASSUME NEW c \in Settled
             PROVE  issued'[c] = added'[c]["io_count"] + Cardinality(Uncounted(c))' + lost'[c]
  BY DEF Accounted
<1>1. /\ pc[r] = "idle" /\ pc' = pc /\ added' = added
      /\ issued'[c] = IF c = cg THEN issued[c] + 1 ELSE issued[c]
  BY StatsAssumption DEF BlockRqIssue, IInv, TypeOK
<1>2. /\ issued[c] \in Nat /\ lost[c] \in Nat /\ added[c]["io_count"] \in Nat
      /\ issued[c] = added[c]["io_count"] + Cardinality(Uncounted(c)) + lost[c]
  BY StatsAssumption DEF IInv, TypeOK, Counters, Words, Accounted
<1>3. \A q \in Requests : q # r => (q \in Uncounted(c)' <=> q \in Uncounted(c))
  BY <1>1 DEF BlockRqIssue, Uncounted, IInv, TypeOK
<1>4. (r \in Uncounted(c) <=> startMap[r] = c) /\ (r \in Uncounted(c)' <=> startMap'[r] = c)
  BY <1>1 DEF Uncounted
<1>5. CASE StartRoom(r) /\ startMap' = [startMap EXCEPT ![r] = cg] /\ lost' = Lose(startMap[r])
  <2>1. startMap'[r] = cg
    BY <1>5 DEF IInv, TypeOK
  <2>2. lost'[c] = IF c = startMap[r] THEN lost[c] + 1 ELSE lost[c]
    BY <1>5 DEF Lose
  <2> HIDE DEF Uncounted
  <2> QED
    BY <1>1, <1>2, <1>3, <1>4, <2>1, <2>2, UncountedMoves
<1>6. CASE ~StartRoom(r) /\ lost' = Lose(cg) /\ UNCHANGED startMap
  <2>1. lost'[c] = IF c = cg THEN lost[c] + 1 ELSE lost[c]
    BY <1>6 DEF Lose
  <2>2. Cardinality(Uncounted(c))' = Cardinality(Uncounted(c)) /\ Cardinality(Uncounted(c)) \in Nat
    BY <1>3, <1>4, <1>6, UncountedMoves
  <2> QED
    BY <1>1, <1>2, <2>1, <2>2
<1> QED
  BY <1>5, <1>6 DEF BlockRqIssue

LEMMA CompleteAccounted ==
  ASSUME IInv, Accounted, NEW r \in Requests, Complete(r)
  PROVE  Accounted'
<1> SUFFICES ASSUME NEW c \in Settled
             PROVE  issued'[c] = added'[c]["io_count"] + Cardinality(Uncounted(c))' + lost'[c]
  BY DEF Accounted
<1>1. issued' = issued
  BY DEF Complete, CompleteUnstamped, BlockRqComplete, ZeroInsert, Relookup, AddWord, DeleteStart
<1>2. /\ issued[c] \in Nat /\ lost[c] \in Nat /\ added[c]["io_count"] \in Nat
      /\ issued[c] = added[c]["io_count"] + Cardinality(Uncounted(c)) + lost[c]
  BY StatsAssumption DEF IInv, TypeOK, Counters, Words, Accounted
<1>3. \A q \in Requests : q # r => (q \in Uncounted(c)' <=> q \in Uncounted(c))
  <2>1. \A q \in Requests : q # r => pc'[q] = pc[q] /\ startMap'[q] = startMap[q]
    BY DEF Complete, CompleteUnstamped, BlockRqComplete, ZeroInsert, Relookup, AddWord,
           DeleteStart, IInv, TypeOK
  <2> QED
    BY <2>1 DEF Uncounted
<1> DEFINE Same == /\ r \in Uncounted(c)' <=> r \in Uncounted(c)
                   /\ lost'[c] = lost[c]
                   /\ added'[c]["io_count"] = added[c]["io_count"]
<1>4. CASE Same
  BY <1>1, <1>2, <1>3, <1>4, UncountedMoves
<1>5. CASE CompleteUnstamped(r)
  <2>1. Same
    BY <1>5 DEF CompleteUnstamped, Uncounted
  <2> QED
    BY <1>4, <2>1
<1>6. CASE BlockRqComplete(r)
  <2>1. pc[r] = "idle" /\ pc'[r] \in {"update", "io_count"}
    BY <1>6 DEF BlockRqComplete, IInv, TypeOK
  <2>2. Same
    BY <1>6, <2>1 DEF BlockRqComplete, Uncounted
  <2> QED
    BY <1>4, <2>2
<1>7. CASE ZeroInsert(r)
  <2>1. pc[r] = "update" /\ pc'[r] = "lookup"
    BY <1>7 DEF ZeroInsert, IInv, TypeOK
  <2>2. Same
    BY <1>7, <2>1 DEF ZeroInsert, Uncounted
  <2> QED
    BY <1>4, <2>2
<1>8. CASE Relookup(r)
  <2>1. startMap[r] # c
    BY <1>8 DEF Relookup, IInv, InsertersUnsettled
  <2>2. lost'[c] = lost[c]
    BY <1>8, <2>1 DEF Relookup, Lose
  <2>3. Same
    BY <1>8, <2>1, <2>2 DEF Relookup, Uncounted
  <2> QED
    BY <1>4, <2>3
<1>9. CASE AddWord(r)
  <2>1. /\ pc[r] \in Words /\ pc'[r] \in Words \cup {"delete"} /\ pc'[r] # "io_count"
        /\ startMap' = startMap /\ lost' = lost
    <3>1. PICK error \in BOOLEAN : pc' = [pc EXCEPT ![r] = After(pc[r], error)]
      BY <1>9 DEF AddWord
    <3>2. pc'[r] = After(pc[r], error)
      BY <3>1 DEF IInv, TypeOK
    <3> QED
      BY <1>9, <3>2, AfterType, CountedOnce DEF AddWord
  <2>2. added'[c] = IF c = startMap[r] THEN [added[c] EXCEPT ![pc[r]] = @ + 1] ELSE added[c]
    BY <1>9 DEF AddWord
  <2>3. r \notin Uncounted(c)'
    BY <2>1 DEF Uncounted, Words
  <2>4. r \in Uncounted(c) <=> startMap[r] = c /\ pc[r] = "io_count"
    BY <2>1 DEF Uncounted, Words
  <2>5. added[c] \in Counters /\ "io_count" \in Words
    BY DEF IInv, TypeOK, Words
  <2>6. CASE startMap[r] = c /\ pc[r] = "io_count"
    <3>1. added'[c]["io_count"] = added[c]["io_count"] + 1
      BY <2>2, <2>5, <2>6 DEF Counters
    <3>2. Cardinality(Uncounted(c)) = Cardinality(Uncounted(c))' + 1
          /\ Cardinality(Uncounted(c))' \in Nat
      BY <1>3, <2>3, <2>4, <2>6, UncountedMoves
    <3> QED
      BY <1>1, <1>2, <2>1, <3>1, <3>2
  <2>7. CASE ~(startMap[r] = c /\ pc[r] = "io_count")
    <3>1. added'[c]["io_count"] = added[c]["io_count"]
      BY <2>1, <2>2, <2>5, <2>7 DEF Counters
    <3>2. Same
      BY <2>1, <2>3, <2>4, <2>7, <3>1
    <3> QED
      BY <1>4, <3>2
  <2> QED
    BY <2>6, <2>7
<1>10. CASE DeleteStart(r)
  <2>1. pc[r] = "delete" /\ startMap'[r] = None
    BY <1>10 DEF DeleteStart, IInv, TypeOK
  <2>2. c # None
    BY StatsAssumption
  <2>3. Same
    BY <1>10, <2>1, <2>2 DEF DeleteStart, Uncounted
  <2> QED
    BY <1>4, <2>3
<1> QED
  BY <1>5, <1>6, <1>7, <1>8, <1>9, <1>10 DEF Complete

LEMMA NextAccounted == IInv /\ Accounted /\ [Next]_vars => Accounted'
<1> SUFFICES ASSUME IInv, Accounted, [Next]_vars PROVE Accounted'
  OBVIOUS
<1>1. CASE UNCHANGED vars \/ \E cg \in Cgroups : UserDelete(cg)
  <2>1. UNCHANGED <<issued, added, lost, pc, startMap>>
    BY <1>1 DEF vars, UserDelete
  <2> QED
    BY <2>1 DEF Accounted, Uncounted
<1> QED
  BY <1>1, IssueAccounted, CompleteAccounted DEF Next

(* Every issue of a request of a settled cgroup is counted, or still to be *)
(* counted, or one of the losses block_latency.c accepts, for any number   *)
(* of requests, CPUs and cgroups, however often a request is issued again  *)
(* or completes in parts.                                                  *)
THEOREM EveryIssueAccounted == Spec => []IssuesAccounted
<1>1. Init => Accounted
  <2> SUFFICES ASSUME Init, NEW cg \in Settled
               PROVE  issued[cg] = added[cg]["io_count"] + Cardinality(Uncounted(cg)) + lost[cg]
    BY DEF Accounted
  <2>1. Uncounted(cg) = {}
    BY StatsAssumption DEF Init, Uncounted
  <2>2. issued[cg] = 1 /\ added[cg]["io_count"] = 1 /\ lost[cg] = 0
    BY StatsAssumption DEF Init, Words
  <2> QED
    BY <2>1, <2>2, FS_EmptySet
<1>2. IInv /\ Accounted => IssuesAccounted
  BY DEF IInv, SettledExact, Accounted, IssuesAccounted
<1> QED
  BY <1>1, <1>2, NextAccounted, Invariance, PTL DEF Spec

=============================================================================
