-------------------------- MODULE ExpositionProofs --------------------------
(***************************************************************************)
(* Proofs about Exposition, for any number of programs, events, resets and *)
(* restarts: the growth Prometheus computes is never more than what was    *)
(* added to the map, counted once more for each restart, and while no      *)
(* entry is reset only a series published at zero makes a sample smaller.  *)
(***************************************************************************)
EXTENDS Exposition, TLAPS

(* In the middle of Update and of the deletions, the count is the word     *)
(* that is already done.                                                   *)
CountFirst ==
  /\ pc = "latency" => counter["count"] # None
  /\ pc = "dropLatency" => counter["count"] = None

TInv == TypeOK /\ CountFirst

Totals == [Words -> Nat]

LEMMA ZeroType == Zero \in Totals /\ \A w \in Words : Zero[w] = 0
BY DEF Zero, Totals

LEMMA NoneApart == None \notin Nat /\ None \notin Totals
BY ConstantsAssumption DEF Totals

LEMMA InitTInv == Init => TInv
<1> SUFFICES ASSUME Init PROVE TInv
  OBVIOUS
<1>1. counter \in [Words -> Nat \cup {None}] /\ sample \in [Words -> Nat \cup {None}]
      /\ \A w \in Words : counter[w] = None
  BY DEF Init, NoSeries
<1>2. increase \in [Words -> Nat] /\ truth \in [Words -> Nat]
  BY DEF Init, Zero
<1> QED
  BY <1>1, <1>2, ConstantsAssumption DEF Init, TInv, TypeOK, CountFirst

(* One addition to a word of an entry *)
LEMMA AddedType ==
  ASSUME TypeOK, entry # None, NEW w \in Words, Added(w)
  PROVE  /\ entry' \in Totals /\ truth' \in Totals
         /\ entry'[w] = entry[w] + 1 /\ truth'[w] = truth[w] + 1
         /\ \A v \in Words : v # w => entry'[v] = entry[v] /\ truth'[v] = truth[v]
<1>1. entry \in Totals /\ truth \in Totals
  BY DEF TypeOK, Totals
<1>2. entry' = [entry EXCEPT ![w] = entry[w] + 1] /\ truth' = [truth EXCEPT ![w] = truth[w] + 1]
  BY DEF Added
<1> QED
  BY <1>1, <1>2 DEF Totals

(* With: a new series is at zero. *)
LEMMA WithType ==
  ASSUME TypeOK, NEW w \in Words, With(w)
  PROVE  /\ counter' \in [Words -> Nat \cup {None}]
         /\ counter[w] = None /\ counter'[w] = 0 /\ counter'[w] # None
         /\ \A v \in Words : v # w => counter'[v] = counter[v]
BY NoneApart DEF With, TypeOK

(* Add on a counter: the row's growth since the previous round *)
LEMMA AddToType ==
  ASSUME TypeOK, row # None, NEW w \in Words, AddTo(w)
  PROVE  /\ counter' \in [Words -> Nat \cup {None}]
         /\ counter'[w] = OrZero(counter[w], 0) + deltaFloat(row[w], OrZero(prev, Zero)[w])
         /\ counter'[w] \in Nat /\ counter'[w] # None
         /\ \A v \in Words : v # w => counter'[v] = counter[v]
<1> DEFINE new == OrZero(counter[w], 0) + deltaFloat(row[w], OrZero(prev, Zero)[w])
<1>1. row[w] \in Nat
  BY DEF TypeOK
<1>2. OrZero(prev, Zero)[w] \in Nat
  BY ZeroType DEF TypeOK, OrZero
<1>3. OrZero(counter[w], 0) \in Nat
  BY DEF TypeOK, OrZero
<1>4. deltaFloat(row[w], OrZero(prev, Zero)[w]) \in Nat
  BY <1>1, <1>2 DEF deltaFloat
<1>5. new \in Nat /\ new # None
  BY <1>3, <1>4, NoneApart
<1>6. counter' = [counter EXCEPT ![w] = new]
  BY DEF AddTo, OrZero
<1> HIDE DEF new
<1>7. counter' \in [Words -> Nat \cup {None}] /\ counter'[w] = new
      /\ \A v \in Words : v # w => counter'[v] = counter[v]
  BY <1>5, <1>6 DEF TypeOK
<1> QED
  BY <1>5, <1>7 DEF new

LEMMA KernelTInv ==
  ASSUME TInv, BpfInsert \/ AddCount \/ AddLatency \/ ZeroInsert
  PROVE  TInv'
<1> USE DEF TInv, process, prometheus
<1>1. CASE BpfInsert
  BY <1>1, ZeroType DEF BpfInsert, TypeOK, CountFirst, Totals
<1>2. CASE AddCount
  <2>1. entry' \in Totals /\ truth' \in Totals
    BY <1>2, AddedType DEF AddCount, Words
  <2>2. open' \in 0 .. NumCpus
    BY <1>2, ConstantsAssumption DEF AddCount, TypeOK
  <2> QED
    BY <1>2, <2>1, <2>2 DEF AddCount, TypeOK, CountFirst, Totals
<1>3. CASE AddLatency
  <2>1. entry' \in Totals /\ truth' \in Totals
    BY <1>3, AddedType DEF AddLatency, Words
  <2>2. open' \in 0 .. NumCpus
    BY <1>3, ConstantsAssumption DEF AddLatency, TypeOK
  <2> QED
    BY <1>3, <2>1, <2>2 DEF AddLatency, TypeOK, CountFirst, Totals
<1>4. CASE ZeroInsert
  <2>1. open' \in 0 .. NumCpus
    BY <1>4, ConstantsAssumption DEF ZeroInsert, TypeOK
  <2> QED
    BY <1>4, <2>1, ZeroType DEF ZeroInsert, TypeOK, CountFirst, Totals
<1> QED
  BY <1>1, <1>2, <1>3, <1>4

LEMMA LoopTInv ==
  ASSUME TInv, Loop \/ ReadUnknown \/ Restart
  PROVE  TInv'
<1> USE DEF TInv, kernel, prometheus
<1>1. CASE ReadNothing
  BY <1>1 DEF ReadNothing, TypeOK, CountFirst
<1>2. CASE ReadUnknown
  <2>1. open' \in 0 .. NumCpus
    BY <1>2, ConstantsAssumption DEF ReadUnknown, TypeOK
  <2> QED
    BY <1>2, <2>1 DEF ReadUnknown, TypeOK, CountFirst
<1>3. CASE ReadCount
  BY <1>3 DEF ReadCount, TypeOK, CountFirst
<1>4. CASE ReadLatency
  <2>1. PICK l \in {row["latency"], IF entry = None THEN 0 ELSE entry["latency"]} :
          row' = [row EXCEPT !["latency"] = l]
    BY <1>4 DEF ReadLatency
  <2>2. row \in Totals /\ l \in Nat
    BY <1>4 DEF ReadLatency, TypeOK, Totals, Words
  <2>3. row' \in Totals /\ row' # None
    BY <2>1, <2>2, NoneApart DEF Totals
  <2> QED
    BY <1>4, <2>3 DEF ReadLatency, TypeOK, CountFirst, Totals
<1>5. CASE UpdateCount
  <2>1. row # None /\ "count" \in Words
    BY <1>5 DEF UpdateCount, AddTo, TypeOK, Words
  <2>2. counter' \in [Words -> Nat \cup {None}] /\ counter'["count"] # None
    BY <1>5, <2>1, AddToType DEF UpdateCount
  <2> QED
    BY <1>5, <2>1, <2>2, AddToType DEF UpdateCount, AddTo, TypeOK, CountFirst, Words
<1>6. ASSUME NEW w \in Words, With(w) PROVE TInv'
  <2>1. prev = None
    <3>1. pc \in {"count", "latency"} /\ counter[w] = None
      BY <1>6 DEF With, Words
    <3> QED
      BY <3>1 DEF TypeOK
  <2>2. CountFirst'
    BY <1>6, WithType DEF With, CountFirst, Words
  <2> QED
    BY <1>6, <2>1, <2>2, WithType DEF With, TypeOK, Words
<1>7. CASE UpdateLatency
  <2>1. row # None /\ "latency" \in Words /\ "count" \in Words
    BY <1>7 DEF UpdateLatency, AddTo, TypeOK, Words
  <2>2. /\ counter' \in [Words -> Nat \cup {None}] /\ counter'["latency"] # None
        /\ counter'["count"] = counter["count"]
    BY <1>7, <2>1, AddToType DEF UpdateLatency
  <2>3. \A w \in Words : counter'[w] # None
    BY <1>7, <2>2 DEF UpdateLatency, AddTo, CountFirst, Words
  <2> QED
    BY <1>7, <2>1, <2>2, <2>3 DEF UpdateLatency, TypeOK, CountFirst
<1>8. CASE DropCount
  <2>1. counter' \in [Words -> Nat \cup {None}] /\ counter'["count"] = None
    BY <1>8 DEF DropCount, TypeOK, Words
  <2> QED
    BY <1>8, <2>1 DEF DropCount, TypeOK, CountFirst
<1>9. CASE DropLatency
  <2>1. counter' \in [Words -> Nat \cup {None}] /\ \A w \in Words : counter'[w] = None
    BY <1>9 DEF DropLatency, TypeOK, CountFirst, Words
  <2> QED
    BY <1>9, <2>1 DEF DropLatency, TypeOK, CountFirst
<1>10. CASE NothingToDrop
  BY <1>10 DEF NothingToDrop, TypeOK, CountFirst
<1>11. CASE Restart
  <2>1. counter' \in [Words -> Nat \cup {None}] /\ \A w \in Words : counter'[w] = None
    BY <1>11 DEF Restart, NoSeries
  <2> QED
    BY <1>11, <2>1 DEF Restart, TypeOK, CountFirst
<1> QED
  BY <1>1, <1>2, <1>3, <1>4, <1>5, <1>7, <1>8, <1>9, <1>10, <1>11, <1>6 DEF Loop

(* What Prometheus adds for a sample *)
LEMMA ScrapeType ==
  ASSUME TypeOK, NEW w \in Words, Scrape(w), counter[w] # None
  PROVE  /\ sample' \in [Words -> Nat \cup {None}] /\ increase' \in [Words -> Nat]
         /\ sample'[w] = counter[w] /\ counter[w] \in Nat
         /\ increase'[w] = increase[w] +
              (IF sample[w] = None THEN 0 ELSE deltaFloat(counter[w], sample[w]))
         /\ \A v \in Words : v # w => sample'[v] = sample[v] /\ increase'[v] = increase[v]
<1> DEFINE d == IF sample[w] = None THEN 0 ELSE deltaFloat(counter[w], sample[w])
<1>1. counter[w] \in Nat /\ sample[w] \in Nat \cup {None} /\ increase[w] \in Nat
  BY DEF TypeOK
<1>2. d \in Nat
  BY <1>1 DEF deltaFloat
<1>3. /\ sample' = [sample EXCEPT ![w] = counter[w]]
      /\ increase' = [increase EXCEPT ![w] = increase[w] + d]
  BY DEF Scrape, deltaFloat
<1> HIDE DEF d
<1>4. /\ sample' \in [Words -> Nat \cup {None}] /\ sample'[w] = counter[w]
      /\ \A v \in Words : v # w => sample'[v] = sample[v]
  BY <1>1, <1>3 DEF TypeOK
<1>5. /\ increase' \in [Words -> Nat] /\ increase'[w] = increase[w] + d
      /\ \A v \in Words : v # w => increase'[v] = increase[v]
  BY <1>1, <1>2, <1>3 DEF TypeOK
<1> QED
  BY <1>1, <1>4, <1>5 DEF d

LEMMA ScrapeTInv ==
  ASSUME TInv, BeginScrape \/ \E w \in Words : Scrape(w)
  PROVE  TInv'
<1> USE DEF TInv, kernel, process
<1>1. CASE BeginScrape
  BY <1>1 DEF BeginScrape, TypeOK, CountFirst
<1>2. ASSUME NEW w \in Words, Scrape(w) PROVE TInv'
  <2>1. sample' \in [Words -> Nat \cup {None}] /\ increase' \in [Words -> Nat]
    <3>1. CASE counter[w] = None
      BY <1>2, <3>1 DEF Scrape, TypeOK
    <3>2. CASE counter[w] # None
      BY <1>2, <3>2, ScrapeType
    <3> QED
      BY <3>1, <3>2
  <2> QED
    BY <1>2, <2>1 DEF Scrape, TypeOK, CountFirst
<1> QED
  BY <1>1, <1>2

LEMMA NextTInv == TInv /\ [Next]_vars => TInv'
<1> SUFFICES ASSUME TInv, [Next]_vars PROVE TInv'
  OBVIOUS
<1>1. CASE UNCHANGED vars
  BY <1>1 DEF vars, kernel, process, prometheus, TInv, TypeOK, CountFirst
<1> QED
  BY <1>1, KernelTInv, LoopTInv, ScrapeTInv DEF Next

(* The words, rows, counters and samples are numbers, and the two series   *)
(* come and go together.                                                   *)
THEOREM TypeCorrect == Spec => []TypeOK
<1>1. TInv => TypeOK
  BY DEF TInv
<1> QED
  BY <1>1, InitTInv, NextTInv, PTL DEF Spec

----------------------------------------------------------------------------
(* The four places of a word: in the map, in the row, in pm.prev, and what *)
(* the next sample would add to its growth                                 *)
InMap(w) == OrZero(entry, Zero)[w]
InRow(w) == OrZero(row, Zero)[w]
Before(w) == OrZero(prev, Zero)[w]
Grown(w) == IF sample[w] = None THEN 0
            ELSE deltaFloat(OrZero(counter[w], 0), sample[w])

(* What the growth may come to: all that happened, and once more for each  *)
(* restart                                                                 *)
Bound(w) == (restarts + 1) * truth[w]

(* The count is done and the latency is not. *)
Half(w) == pc = "latency" /\ w = "count"

LEMMA Numbers ==
  ASSUME TypeOK, NEW w \in Words
  PROVE  /\ InMap(w) \in Nat /\ InRow(w) \in Nat /\ Before(w) \in Nat
         /\ Grown(w) \in Nat /\ increase[w] \in Nat /\ truth[w] \in Nat
         /\ OrZero(counter[w], 0) \in Nat /\ OrZero(sample[w], 0) \in Nat
         /\ Bound(w) \in Nat
<1>1. \A x \in Totals \cup {None} : OrZero(x, Zero)[w] \in Nat
  BY ZeroType DEF OrZero, Totals
<1>2. InMap(w) \in Nat /\ InRow(w) \in Nat /\ Before(w) \in Nat
  BY <1>1 DEF InMap, InRow, Before, TypeOK, Totals
<1>3. counter[w] \in Nat \cup {None} /\ sample[w] \in Nat \cup {None}
      /\ increase[w] \in Nat /\ truth[w] \in Nat
  BY DEF TypeOK
<1>4. OrZero(counter[w], 0) \in Nat /\ OrZero(sample[w], 0) \in Nat
  BY <1>3 DEF OrZero
<1>5. Grown(w) \in Nat
  BY <1>3, <1>4 DEF Grown, deltaFloat
<1>6. Bound(w) \in Nat
  BY <1>3 DEF Bound, TypeOK
<1> QED
  BY <1>2, <1>3, <1>4, <1>5, <1>6

(* The bound grows by one or more with every addition, and by all that     *)
(* happened with every restart.                                            *)
LEMMA BoundGrows ==
  ASSUME TypeOK, NEW w \in Words
  PROVE  /\ UNCHANGED restarts /\ truth'[w] = truth[w] => Bound(w)' = Bound(w)
         /\ UNCHANGED restarts /\ truth'[w] = truth[w] + 1 =>
              Bound(w)' \in Nat /\ Bound(w) + 1 <= Bound(w)'
         /\ restarts' = restarts + 1 /\ truth'[w] = truth[w] =>
              Bound(w)' = Bound(w) + truth[w]
<1>1. \A n, t \in Nat : /\ (n + 1) * (t + 1) \in Nat /\ (n + 1) * t \in Nat
                       /\ (n + 1) * (t + 1) = (n + 1) * t + n + 1
                       /\ (n + 1 + 1) * t = (n + 1) * t + t
  OBVIOUS
<1>2. restarts \in Nat /\ truth[w] \in Nat
  BY DEF TypeOK
<1>3. /\ (restarts + 1) * truth[w] \in Nat
      /\ (restarts + 1) * (truth[w] + 1) = (restarts + 1) * truth[w] + restarts + 1
      /\ (restarts + 1 + 1) * truth[w] = (restarts + 1) * truth[w] + truth[w]
  BY <1>1, <1>2
<1>4. ASSUME UNCHANGED restarts, truth'[w] = truth[w] + 1
      PROVE  Bound(w)' \in Nat /\ Bound(w) + 1 <= Bound(w)'
  <2>1. Bound(w)' = Bound(w) + restarts + 1 /\ Bound(w) \in Nat
    BY <1>3, <1>4 DEF Bound
  <2> QED
    BY <1>2, <2>1
<1> QED
  BY <1>3, <1>4 DEF Bound

(* The bound covers the growth Prometheus has seen, what the next sample   *)
(* adds to it, and what the round in progress and the map will still add   *)
(* to the counter.  What happened covers the map, so that a new process    *)
(* has no more to add than the bound grows by.                             *)
NeverAhead(w) ==
  /\ InMap(w) <= truth[w]
  /\ pc = "read" =>
       increase[w] + Grown(w) + deltaFloat(InMap(w), Before(w)) <= Bound(w)
  /\ pc \in {"copy", "count", "latency"} /\ ~Half(w) =>
       increase[w] + Grown(w) + deltaFloat(InRow(w), Before(w))
         + deltaFloat(InMap(w), InRow(w)) <= Bound(w)
  /\ Half(w) => increase[w] + Grown(w) + deltaFloat(InMap(w), InRow(w)) <= Bound(w)
  /\ pc \in {"drop", "dropLatency"} => increase[w] + Grown(w) + InMap(w) <= Bound(w)

AllNeverAhead == \A w \in Words : NeverAhead(w)

(* The numbers behave as the differences of totals do. *)
LEMMA Deltas ==
  ASSUME NEW a \in Nat, NEW b \in Nat, NEW c \in Nat
  PROVE  /\ deltaFloat(a, b) \in Nat
         /\ deltaFloat(a, a) = 0 /\ deltaFloat(0, a) = 0 /\ deltaFloat(a, 0) = a
         /\ deltaFloat(a + c, b) <= deltaFloat(a, b) + c
         /\ deltaFloat(a, b) <= deltaFloat(c, b) + deltaFloat(a, c)
         /\ deltaFloat(a, b) <= a
BY DEF deltaFloat

(* The programs add to map and truth, or put the entry back to zero. *)
LEMMA KernelNeverAhead ==
  ASSUME TInv, TInv', BpfInsert \/ AddCount \/ AddLatency \/ ZeroInsert,
         NEW w \in Words, NeverAhead(w)
  PROVE  NeverAhead(w)'
<1>1. /\ InRow(w)' = InRow(w) /\ Before(w)' = Before(w) /\ Grown(w)' = Grown(w)
      /\ increase'[w] = increase[w] /\ pc' = pc /\ UNCHANGED restarts
  BY DEF BpfInsert, AddCount, AddLatency, ZeroInsert, process, prometheus, InRow, Before, Grown
<1>2. /\ InMap(w) \in Nat /\ InRow(w) \in Nat /\ Before(w) \in Nat
      /\ Grown(w) \in Nat /\ increase[w] \in Nat /\ truth[w] \in Nat
  BY Numbers DEF TInv
<1>3. \/ InMap(w)' = 0 /\ truth'[w] = truth[w]
      \/ InMap(w)' = InMap(w) + 1 /\ truth'[w] = truth[w] + 1
      \/ InMap(w)' = InMap(w) /\ truth'[w] = truth[w]
  <2>1. CASE BpfInsert \/ ZeroInsert
    BY <2>1, ZeroType, NoneApart DEF BpfInsert, ZeroInsert, InMap, OrZero
  <2>2. ASSUME NEW v \in Words, entry # None, Added(v)
        PROVE  \/ InMap(w)' = InMap(w) + 1 /\ truth'[w] = truth[w] + 1
               \/ InMap(w)' = InMap(w) /\ truth'[w] = truth[w]
    <3>1. /\ entry' # None
          /\ entry'[v] = entry[v] + 1 /\ truth'[v] = truth[v] + 1
          /\ \A u \in Words : u # v => entry'[u] = entry[u] /\ truth'[u] = truth[u]
      BY <2>2, AddedType, NoneApart DEF TInv
    <3>2. InMap(w)' = entry'[w] /\ InMap(w) = entry[w]
      BY <2>2, <3>1 DEF InMap, OrZero
    <3> QED
      BY <3>1, <3>2
  <2>3. "count" \in Words /\ "latency" \in Words
    BY DEF Words
  <2> QED
    BY <2>1, <2>2, <2>3 DEF AddCount, AddLatency
<1>4. /\ deltaFloat(0, Before(w)) = 0 /\ deltaFloat(0, InRow(w)) = 0
      /\ deltaFloat(InMap(w) + 1, Before(w)) <= deltaFloat(InMap(w), Before(w)) + 1
      /\ deltaFloat(InMap(w) + 1, InRow(w)) <= deltaFloat(InMap(w), InRow(w)) + 1
  BY <1>2, Deltas
<1>5. /\ deltaFloat(InMap(w), Before(w)) \in Nat /\ deltaFloat(InMap(w), InRow(w)) \in Nat
      /\ deltaFloat(InMap(w) + 1, Before(w)) \in Nat
      /\ deltaFloat(InMap(w) + 1, InRow(w)) \in Nat
      /\ deltaFloat(InRow(w), Before(w)) \in Nat
  <2>1. InMap(w) + 1 \in Nat
    BY <1>2
  <2>2. deltaFloat(InMap(w) + 1, Before(w)) \in Nat
    BY <1>2, <2>1, Deltas
  <2>3. deltaFloat(InMap(w) + 1, InRow(w)) \in Nat
    BY <1>2, <2>1, Deltas
  <2> QED
    BY <1>2, <2>2, <2>3, Deltas
<1>6. Half(w)' <=> Half(w)
  BY <1>1 DEF Half
<1>7. CASE InMap(w)' = 0 /\ truth'[w] = truth[w]
  <2>1. Bound(w)' = Bound(w) /\ Bound(w) \in Nat
    BY <1>1, <1>7, BoundGrows, Numbers DEF TInv
  <2> QED
    BY <1>1, <1>2, <1>4, <1>5, <1>6, <1>7, <2>1 DEF NeverAhead
<1>8. CASE InMap(w)' = InMap(w) + 1 /\ truth'[w] = truth[w] + 1
  <2>1. Bound(w)' \in Nat /\ Bound(w) \in Nat /\ Bound(w) + 1 <= Bound(w)'
    BY <1>1, <1>8, BoundGrows, Numbers DEF TInv
  <2> QED
    BY <1>1, <1>2, <1>4, <1>5, <1>6, <1>8, <2>1 DEF NeverAhead
<1>9. CASE InMap(w)' = InMap(w) /\ truth'[w] = truth[w]
  <2>1. Bound(w)' = Bound(w)
    BY <1>1, <1>9, BoundGrows DEF TInv
  <2> QED
    BY <1>1, <1>2, <1>6, <1>9, <2>1 DEF NeverAhead
<1> QED
  BY <1>3, <1>7, <1>8, <1>9

(* readStats copies the entry, word by word, or deletes it. *)
LEMMA ReadNeverAhead ==
  ASSUME TInv, TInv', ReadNothing \/ ReadUnknown \/ ReadCount \/ ReadLatency,
         NEW w \in Words, NeverAhead(w)
  PROVE  NeverAhead(w)'
<1>1. /\ Before(w)' = Before(w) /\ Grown(w)' = Grown(w)
      /\ increase'[w] = increase[w] /\ truth'[w] = truth[w] /\ UNCHANGED restarts
  BY DEF ReadNothing, ReadUnknown, ReadCount, ReadLatency, kernel, prometheus, Before, Grown
<1>2. Bound(w)' = Bound(w) /\ Bound(w) \in Nat
  BY <1>1, BoundGrows, Numbers DEF TInv
<1>3. /\ InMap(w) \in Nat /\ InRow(w) \in Nat /\ Before(w) \in Nat
      /\ Grown(w) \in Nat /\ increase[w] \in Nat /\ truth[w] \in Nat
      /\ deltaFloat(InMap(w), Before(w)) \in Nat /\ deltaFloat(InMap(w), InRow(w)) \in Nat
      /\ deltaFloat(InRow(w), Before(w)) \in Nat
  BY Numbers, Deltas DEF TInv
<1>4. CASE ReadNothing \/ ReadUnknown
  <2>1. /\ pc = "read" /\ pc' \in {"read", "drop"} /\ InMap(w)' = 0
    BY <1>4, ZeroType DEF ReadNothing, ReadUnknown, InMap, OrZero, kernel
  <2>2. ~ Half(w)' /\ deltaFloat(0, Before(w)) = 0
    BY <1>3, <2>1, Deltas DEF Half
  <2> QED
    BY <1>1, <1>3, <1>2, <2>1, <2>2 DEF NeverAhead
<1>5. CASE ReadCount
  <2>1. /\ pc = "read" /\ pc' = "copy" /\ InMap(w)' = InMap(w) /\ InRow(w)' = InMap(w)
    BY <1>5 DEF ReadCount, InMap, InRow, OrZero, kernel
  <2>2. ~ Half(w)' /\ deltaFloat(InMap(w), InMap(w)) = 0
    BY <1>3, <2>1, Deltas DEF Half
  <2> QED
    BY <1>1, <1>3, <1>2, <2>1, <2>2 DEF NeverAhead
<1>6. CASE ReadLatency
  <2>1. /\ pc = "copy" /\ pc' = "count" /\ InMap(w)' = InMap(w) /\ row # None
    BY <1>6 DEF ReadLatency, InMap, kernel, TInv, TypeOK
  <2>2. InRow(w)' = InRow(w) \/ InRow(w)' = InMap(w)
    <3>1. PICK l \in {row["latency"], IF entry = None THEN 0 ELSE entry["latency"]} :
            row' = [row EXCEPT !["latency"] = l]
      BY <1>6 DEF ReadLatency
    <3>2. row \in Totals /\ row' # None
      BY <1>6, <2>1 DEF ReadLatency, TInv, TypeOK, Totals
    <3>3. row'[w] = row[w] \/ (w = "latency" /\ row'[w] = l)
      BY <3>1, <3>2 DEF Totals
    <3>4. w = "latency" => l \in {InRow(w), InMap(w)}
      BY <2>1, <3>1, ZeroType DEF InRow, InMap, OrZero
    <3> QED
      BY <2>1, <3>2, <3>3, <3>4 DEF InRow, OrZero
  <2>3. ~ Half(w) /\ ~ Half(w)'
    BY <2>1 DEF Half
  <2>4. /\ deltaFloat(InMap(w), InMap(w)) = 0
        /\ deltaFloat(InMap(w), Before(w))
             <= deltaFloat(InRow(w), Before(w)) + deltaFloat(InMap(w), InRow(w))
    BY <1>3, Deltas
  <2>5. increase[w] + Grown(w) + deltaFloat(InRow(w), Before(w))
          + deltaFloat(InMap(w), InRow(w)) <= Bound(w)
    BY <2>1, <2>3 DEF NeverAhead
  <2>6. CASE InRow(w)' = InRow(w)
    BY <1>1, <1>2, <2>1, <2>3, <2>5, <2>6 DEF NeverAhead
  <2>7. CASE InRow(w)' = InMap(w)
    <3>1. increase[w] + Grown(w) + deltaFloat(InMap(w), Before(w)) + 0 <= Bound(w)
      BY <1>3, <1>2, <2>4, <2>5
    <3> QED
      BY <1>1, <1>2, <2>1, <2>3, <2>4, <2>7, <3>1 DEF NeverAhead
  <2> QED
    BY <2>2, <2>6, <2>7
<1> QED
  BY <1>4, <1>5, <1>6

(* The counter of a word gains what its row grew: it may be sampled now.   *)
LEMMA AddToGrown ==
  ASSUME TInv, row # None, NEW w \in Words, AddTo(w), UNCHANGED sample
  PROVE  /\ Grown(w)' <= Grown(w) + deltaFloat(InRow(w), Before(w))
         /\ Grown(w)' \in Nat
         /\ \A v \in Words : v # w => Grown(v)' = Grown(v)
<1>1. /\ counter'[w] = OrZero(counter[w], 0) + deltaFloat(InRow(w), Before(w))
      /\ counter'[w] \in Nat /\ counter'[w] # None
      /\ \A v \in Words : v # w => counter'[v] = counter[v]
  BY AddToType DEF TInv, InRow, Before, OrZero
<1>2. OrZero(counter'[w], 0) = counter'[w]
  BY <1>1 DEF OrZero
<1>3. /\ OrZero(counter[w], 0) \in Nat /\ InRow(w) \in Nat /\ Before(w) \in Nat
      /\ deltaFloat(InRow(w), Before(w)) \in Nat
      /\ sample[w] \in Nat \cup {None}
  BY Numbers, Deltas DEF TInv, TypeOK
<1>4. \A v \in Words : v # w => Grown(v)' = Grown(v)
  BY <1>1 DEF Grown
<1>5. CASE sample[w] = None
  <2>1. Grown(w) = 0 /\ Grown(w)' = 0
    BY <1>5 DEF Grown
  <2> QED
    BY <1>3, <1>4, <2>1
<1>6. CASE sample[w] # None
  <2>1. Grown(w)' = deltaFloat(OrZero(counter[w], 0) + deltaFloat(InRow(w), Before(w)), sample[w])
    BY <1>1, <1>2, <1>6 DEF Grown
  <2>2. Grown(w) = deltaFloat(OrZero(counter[w], 0), sample[w]) /\ sample[w] \in Nat
    BY <1>3, <1>6 DEF Grown
  <2>3. OrZero(counter[w], 0) + deltaFloat(InRow(w), Before(w)) \in Nat
    BY <1>3
  <2>4. \A a, b, c \in Nat : deltaFloat(a + c, b) <= deltaFloat(a, b) + c
    BY Deltas
  <2>5. deltaFloat(OrZero(counter[w], 0) + deltaFloat(InRow(w), Before(w)), sample[w])
          <= deltaFloat(OrZero(counter[w], 0), sample[w]) + deltaFloat(InRow(w), Before(w))
    BY <1>3, <2>2, <2>4
  <2>6. Grown(w)' <= Grown(w) + deltaFloat(InRow(w), Before(w))
    BY <2>1, <2>2, <2>5
  <2>7. Grown(w)' \in Nat
    BY <2>1, <2>2, <2>3, Deltas
  <2> QED
    BY <1>4, <2>6, <2>7
<1> QED
  BY <1>5, <1>6

LEMMA UpdateNeverAhead ==
  ASSUME TInv, TInv', UpdateCount \/ UpdateLatency, NEW w \in Words, NeverAhead(w)
  PROVE  NeverAhead(w)'
<1>1. /\ row # None /\ InRow(w)' = InRow(w) /\ InMap(w)' = InMap(w)
      /\ increase'[w] = increase[w] /\ truth'[w] = truth[w] /\ UNCHANGED <<sample, restarts>>
  BY DEF UpdateCount, UpdateLatency, AddTo, kernel, prometheus, InRow, InMap, TInv, TypeOK
<1>2. Bound(w)' = Bound(w) /\ Bound(w) \in Nat /\ InMap(w) <= truth[w]
  BY <1>1, BoundGrows, Numbers DEF TInv, NeverAhead
<1>3. /\ InMap(w) \in Nat /\ InRow(w) \in Nat /\ Before(w) \in Nat
      /\ Grown(w) \in Nat /\ increase[w] \in Nat /\ truth[w] \in Nat
      /\ deltaFloat(InMap(w), Before(w)) \in Nat /\ deltaFloat(InMap(w), InRow(w)) \in Nat
      /\ deltaFloat(InRow(w), Before(w)) \in Nat
  BY Numbers, Deltas DEF TInv
<1>4. Grown(w)' \in Nat
  <2>1. counter'[w] \in Nat \cup {None} /\ sample'[w] \in Nat \cup {None}
    BY DEF TInv, TypeOK
  <2>2. OrZero(counter'[w], 0) \in Nat
    BY <2>1 DEF OrZero
  <2> QED
    BY <2>1, <2>2, Deltas DEF Grown
<1>5. "count" \in Words /\ "latency" \in Words /\ w \in {"count", "latency"}
  BY DEF Words
<1>6. CASE UpdateCount
  <2>1. pc = "count" /\ pc' = "latency" /\ AddTo("count") /\ Before(w)' = Before(w)
    BY <1>6 DEF UpdateCount, AddTo, Before
  <2>2. increase[w] + Grown(w) + deltaFloat(InRow(w), Before(w))
          + deltaFloat(InMap(w), InRow(w)) <= Bound(w)
    BY <2>1 DEF NeverAhead, Half
  <2>3. CASE w = "count"
    <3>1. Grown(w)' <= Grown(w) + deltaFloat(InRow(w), Before(w)) /\ Half(w)'
      BY <1>1, <1>5, <2>1, <2>3, AddToGrown DEF Half
    <3>2. increase[w] + Grown(w)' + deltaFloat(InMap(w), InRow(w)) <= Bound(w)
      BY <1>3, <1>4, <1>2, <2>2, <3>1
    <3> QED
      BY <1>1, <1>2, <2>1, <3>1, <3>2 DEF NeverAhead
  <2>4. CASE w = "latency"
    <3>1. Grown(w)' = Grown(w) /\ ~ Half(w)'
      BY <1>1, <1>5, <2>1, <2>4, AddToGrown DEF Half
    <3> QED
      BY <1>1, <1>2, <2>1, <2>2, <3>1 DEF NeverAhead
  <2> QED
    BY <1>5, <2>3, <2>4
<1>7. CASE UpdateLatency
  <2>1. pc = "latency" /\ pc' = "read" /\ AddTo("latency") /\ Before(w)' = InRow(w)
    BY <1>1, <1>7 DEF UpdateLatency, AddTo, Before, InRow, OrZero
  <2>2. ~ Half(w)'
    BY <2>1 DEF Half
  <2>3. CASE w = "count"
    <3>1. Grown(w)' = Grown(w) /\ Half(w)
      BY <1>1, <1>5, <2>1, <2>3, AddToGrown DEF Half
    <3> QED
      BY <1>1, <1>2, <2>1, <2>2, <3>1 DEF NeverAhead
  <2>4. CASE w = "latency"
    <3>1. Grown(w)' <= Grown(w) + deltaFloat(InRow(w), Before(w)) /\ ~ Half(w)
      BY <1>1, <1>5, <2>1, <2>4, AddToGrown DEF Half
    <3>2. increase[w] + Grown(w) + deltaFloat(InRow(w), Before(w))
            + deltaFloat(InMap(w), InRow(w)) <= Bound(w)
      BY <2>1, <3>1 DEF NeverAhead
    <3>3. increase[w] + Grown(w)' + deltaFloat(InMap(w), InRow(w)) <= Bound(w)
      BY <1>3, <1>4, <1>2, <3>1, <3>2
    <3> QED
      BY <1>1, <1>2, <2>1, <2>2, <3>3 DEF NeverAhead
  <2> QED
    BY <1>5, <2>3, <2>4
<1> QED
  BY <1>6, <1>7

(* A series published at zero counts as one that does not exist. *)
LEMMA WithNeverAhead ==
  ASSUME TInv, NEW v \in Words, With(v), NEW w \in Words, NeverAhead(w)
  PROVE  NeverAhead(w)'
<1>1. /\ InMap(w)' = InMap(w) /\ InRow(w)' = InRow(w) /\ Before(w)' = Before(w)
      /\ increase'[w] = increase[w] /\ truth'[w] = truth[w]
      /\ UNCHANGED <<pc, sample, restarts>>
      /\ Half(w)' <=> Half(w)
  BY DEF With, kernel, prometheus, InMap, InRow, Before, Half
<1>2. OrZero(counter'[w], 0) = OrZero(counter[w], 0)
  BY WithType DEF TInv, OrZero
<1>3. Grown(w)' = Grown(w)
  BY <1>1, <1>2 DEF Grown
<1>4. Bound(w)' = Bound(w)
  BY <1>1, BoundGrows DEF TInv
<1> QED
  BY <1>1, <1>3, <1>4 DEF NeverAhead

(* A series that is deleted starts again from zero. *)
LEMMA DropNeverAhead ==
  ASSUME TInv, TInv', DropCount \/ DropLatency \/ NothingToDrop,
         NEW w \in Words, NeverAhead(w)
  PROVE  NeverAhead(w)'
<1>1. /\ InMap(w)' = InMap(w) /\ UNCHANGED sample
      /\ increase'[w] = increase[w] /\ truth'[w] = truth[w] /\ UNCHANGED restarts
      /\ pc \in {"drop", "dropLatency"} /\ pc' \in {"read", "dropLatency"}
  BY DEF DropCount, DropLatency, NothingToDrop, kernel, prometheus, InMap
<1>2. /\ InMap(w) \in Nat /\ Grown(w) \in Nat /\ increase[w] \in Nat /\ truth[w] \in Nat
  BY Numbers DEF TInv
<1>3. Grown(w)' = 0 \/ Grown(w)' = Grown(w)
  <2>1. counter'[w] = None \/ counter'[w] = counter[w]
    BY DEF DropCount, DropLatency, NothingToDrop, TInv, TypeOK
  <2>2. CASE counter'[w] = counter[w]
    BY <1>1, <2>2 DEF Grown
  <2>3. CASE counter'[w] = None
    <3>1. sample[w] \in Nat \cup {None}
      BY DEF TInv, TypeOK
    <3> QED
      BY <1>1, <2>3, <3>1, Deltas DEF Grown, OrZero
  <2> QED
    BY <2>1, <2>2, <2>3
<1>4. pc' = "read" => Before(w)' = 0
  BY ZeroType DEF DropCount, DropLatency, NothingToDrop, Before, OrZero
<1>5. deltaFloat(InMap(w), 0) = InMap(w) /\ ~ Half(w)'
  BY <1>1, <1>2, Deltas DEF Half
<1>6. increase[w] + Grown(w) + InMap(w) <= Bound(w)
  BY <1>1 DEF NeverAhead
<1>7. Bound(w)' = Bound(w) /\ Bound(w) \in Nat
  BY <1>1, BoundGrows, Numbers DEF TInv
<1>8. increase[w] + Grown(w)' + InMap(w) <= Bound(w)
  BY <1>2, <1>3, <1>6, <1>7
<1> QED
  BY <1>1, <1>4, <1>5, <1>8, <1>7 DEF NeverAhead

(* A sample only moves what was outstanding into the growth. *)
LEMMA ScrapeNeverAhead ==
  ASSUME TInv, TInv', NEW v \in Words, Scrape(v), NEW w \in Words, NeverAhead(w)
  PROVE  NeverAhead(w)'
<1>1. /\ InMap(w)' = InMap(w) /\ InRow(w)' = InRow(w) /\ Before(w)' = Before(w)
      /\ truth'[w] = truth[w] /\ UNCHANGED <<pc, counter, restarts>>
      /\ Half(w)' <=> Half(w)
  BY DEF Scrape, kernel, process, InMap, InRow, Before, Half
<1>2. Bound(w)' = Bound(w)
  BY <1>1, BoundGrows DEF TInv
<1>3. increase'[w] + Grown(w)' = increase[w] + Grown(w)
  <2>1. CASE sample'[w] = sample[w] /\ increase'[w] = increase[w]
    BY <1>1, <2>1 DEF Grown
  <2>2. CASE w = v /\ counter[v] # None
    <3>1. /\ sample'[w] = counter[w] /\ counter[w] \in Nat /\ increase[w] \in Nat
          /\ increase'[w] = increase[w] +
               (IF sample[w] = None THEN 0 ELSE deltaFloat(counter[w], sample[w]))
      BY <2>2, ScrapeType DEF TInv, TypeOK
    <3>2. OrZero(counter[w], 0) = counter[w]
      BY <2>2 DEF OrZero
    <3>3. Grown(w)' = 0
      BY <1>1, <2>2, <3>1, <3>2, Deltas DEF Grown
    <3>4. increase'[w] = increase[w] + Grown(w)
      BY <3>1, <3>2 DEF Grown
    <3>5. Grown(w) \in Nat
      BY Numbers DEF TInv
    <3> QED
      BY <3>1, <3>3, <3>4, <3>5
  <2>3. w # v /\ counter[v] # None => sample'[w] = sample[w] /\ increase'[w] = increase[w]
    BY ScrapeType DEF TInv
  <2> QED
    BY <2>1, <2>2, <2>3 DEF Scrape
<1> QED
  BY <1>1, <1>3, <1>2 DEF NeverAhead

(* A new process adds the whole map once more, and the bound has grown by  *)
(* at least that.                                                          *)
LEMMA RestartNeverAhead ==
  ASSUME TInv, Restart, NEW w \in Words, NeverAhead(w)
  PROVE  NeverAhead(w)'
<1>1. /\ InMap(w)' = InMap(w) /\ truth'[w] = truth[w] /\ increase'[w] = increase[w]
      /\ sample' = sample /\ restarts' = restarts + 1 /\ pc' = "read" /\ ~ Half(w)'
  BY DEF Restart, kernel, InMap, Half
<1>2. /\ InMap(w) \in Nat /\ InRow(w) \in Nat /\ Before(w) \in Nat
      /\ Grown(w) \in Nat /\ increase[w] \in Nat /\ truth[w] \in Nat /\ Bound(w) \in Nat
      /\ deltaFloat(InMap(w), Before(w)) \in Nat /\ deltaFloat(InMap(w), InRow(w)) \in Nat
      /\ deltaFloat(InRow(w), Before(w)) \in Nat
      /\ deltaFloat(InMap(w), 0) = InMap(w)
  BY Numbers, Deltas DEF TInv
<1>3. Before(w)' = 0 /\ counter'[w] = None
  BY ZeroType DEF Restart, Before, OrZero, NoSeries
<1>4. Grown(w)' = 0
  <2>1. sample[w] \in Nat \cup {None}
    BY DEF TInv, TypeOK
  <2> QED
    BY <1>1, <1>3, <2>1, Deltas DEF Grown, OrZero
<1>5. pc \in {"read", "copy", "count", "latency", "drop", "dropLatency"}
  BY DEF TInv, TypeOK
<1>6. increase[w] <= Bound(w) /\ InMap(w) <= truth[w]
  BY <1>2, <1>5 DEF NeverAhead
<1>7. Bound(w)' = Bound(w) + truth[w]
  BY <1>1, BoundGrows DEF TInv
<1>8. increase[w] + 0 + InMap(w) <= Bound(w) + truth[w]
  BY <1>2, <1>6
<1> QED
  BY <1>1, <1>2, <1>3, <1>4, <1>6, <1>7, <1>8 DEF NeverAhead

LEMMA NextNeverAhead ==
  ASSUME TInv, TInv', AllNeverAhead, [Next]_vars
  PROVE  AllNeverAhead'
<1> SUFFICES ASSUME NEW w \in Words PROVE NeverAhead(w)'
  BY DEF AllNeverAhead
<1>1. NeverAhead(w)
  BY DEF AllNeverAhead
<1>2. CASE BeginScrape \/ UNCHANGED vars
  BY <1>1, <1>2 DEF BeginScrape, vars, kernel, process, prometheus, NeverAhead, Half,
     InMap, InRow, Before, Grown, Bound
<1> QED
  BY <1>1, <1>2, KernelNeverAhead, ReadNeverAhead, WithNeverAhead, UpdateNeverAhead,
     DropNeverAhead, RestartNeverAhead, ScrapeNeverAhead DEF Next, Loop

----------------------------------------------------------------------------
(* Update is at a word of a pod without previous totals: the series, if    *)
(* With has published it already, is not yet filled.                       *)
Fresh(w) == pc = w /\ prev = None

(* An entry that was never reset holds all that was added to it, and each  *)
(* place a word is copied to is behind the place it is copied from:        *)
(* sample, counter, pm.prev, row, map.  The counter is at the totals of    *)
(* pm.prev, or already at those of the row.  A series that is new starts   *)
(* at zero, behind its sample, and then from the whole row, which no       *)
(* sample is ahead of.                                                     *)
InOrder(w) ==
  /\ InMap(w) = truth[w]
  /\ Before(w) <= InMap(w)
  /\ OrZero(sample[w], 0) <= InMap(w)
  /\ counter[w] # None =>
       /\ Fresh(w) \/ OrZero(sample[w], 0) <= counter[w]
       /\ counter[w] = IF Half(w) THEN InRow(w) ELSE Before(w)
  /\ pc \in {"copy", "count", "latency"} =>
       /\ Before(w) <= InRow(w) /\ InRow(w) <= InMap(w)
       /\ OrZero(sample[w], 0) <= InRow(w)
       /\ counter[w] = None => Before(w) = 0

AllInOrder == \A w \in Words : InOrder(w)

LEMMA InitInOrder == Init => AllInOrder /\ AllNeverAhead
<1> SUFFICES ASSUME Init, NEW w \in Words PROVE InOrder(w) /\ NeverAhead(w)
  BY DEF AllInOrder, AllNeverAhead
<1>1. /\ InMap(w) = 0 /\ InRow(w) = 0 /\ Before(w) = 0 /\ truth[w] = 0 /\ increase[w] = 0
      /\ counter[w] = None /\ sample[w] = None /\ pc = "read"
  BY ZeroType DEF Init, InMap, InRow, Before, OrZero, NoSeries
<1>2. OrZero(sample[w], 0) = 0 /\ Grown(w) = 0 /\ ~ Half(w) /\ deltaFloat(0, 0) = 0
  BY <1>1 DEF OrZero, Grown, Half, deltaFloat
<1>3. Bound(w) \in Nat
  BY InitTInv, Numbers DEF TInv
<1> QED
  BY <1>1, <1>2, <1>3 DEF InOrder, NeverAhead

LEMMA KernelInOrder ==
  ASSUME TInv, BpfInsert \/ AddCount \/ AddLatency, NEW w \in Words, InOrder(w)
  PROVE  InOrder(w)'
<1>1. /\ InRow(w)' = InRow(w) /\ Before(w)' = Before(w)
      /\ Half(w)' <=> Half(w)
      /\ Fresh(w)' <=> Fresh(w)
      /\ UNCHANGED <<counter, sample, pc>>
  BY DEF BpfInsert, AddCount, AddLatency, process, prometheus, InRow, Before, Half, Fresh
<1>2. /\ InMap(w) \in Nat /\ InRow(w) \in Nat /\ Before(w) \in Nat
      /\ OrZero(sample[w], 0) \in Nat /\ truth[w] \in Nat
  BY Numbers DEF TInv
<1>3. \/ InMap(w)' = InMap(w) + 1 /\ truth'[w] = truth[w] + 1
      \/ InMap(w)' = InMap(w) /\ truth'[w] = truth[w]
  <2>1. CASE BpfInsert
    BY <2>1, ZeroType, NoneApart DEF BpfInsert, InMap, OrZero
  <2>2. ASSUME NEW v \in Words, entry # None, Added(v)
        PROVE  \/ InMap(w)' = InMap(w) + 1 /\ truth'[w] = truth[w] + 1
               \/ InMap(w)' = InMap(w) /\ truth'[w] = truth[w]
    <3>1. /\ entry' # None
          /\ entry'[v] = entry[v] + 1 /\ truth'[v] = truth[v] + 1
          /\ \A u \in Words : u # v => entry'[u] = entry[u] /\ truth'[u] = truth[u]
      BY <2>2, AddedType, NoneApart DEF TInv
    <3>2. InMap(w)' = entry'[w] /\ InMap(w) = entry[w]
      BY <2>2, <3>1 DEF InMap, OrZero
    <3> QED
      BY <3>1, <3>2
  <2>3. "count" \in Words /\ "latency" \in Words
    BY DEF Words
  <2> QED
    BY <2>1, <2>2, <2>3 DEF AddCount, AddLatency
<1>4. InMap(w) <= InMap(w)' /\ InMap(w)' = truth'[w]
  BY <1>2, <1>3 DEF InOrder
<1>5. InMap(w)' \in Nat
  BY <1>2, <1>3
<1>6. Before(w) <= InMap(w)' /\ OrZero(sample[w], 0) <= InMap(w)'
  BY <1>2, <1>4, <1>5 DEF InOrder
<1>7. counter'[w] # None =>
        /\ Fresh(w) \/ OrZero(sample[w], 0) <= counter'[w]
        /\ counter'[w] = IF Half(w) THEN InRow(w) ELSE Before(w)
  BY <1>1 DEF InOrder
<1>8. pc' \in {"copy", "count", "latency"} =>
        /\ Before(w) <= InRow(w) /\ InRow(w) <= InMap(w)'
        /\ OrZero(sample[w], 0) <= InRow(w)
        /\ counter'[w] = None => Before(w) = 0
  BY <1>1, <1>2, <1>4, <1>5 DEF InOrder
<1> QED
  BY <1>1, <1>4, <1>6, <1>7, <1>8 DEF InOrder

LEMMA ReadInOrder ==
  ASSUME TInv, TInv', ReadNothing \/ ReadCount \/ ReadLatency, NEW w \in Words, InOrder(w)
  PROVE  InOrder(w)'
<1>1. /\ InMap(w)' = InMap(w) /\ Before(w)' = Before(w) /\ ~ Half(w) /\ ~ Half(w)'
      /\ ~ Fresh(w)
      /\ UNCHANGED <<counter, sample, truth>>
  BY DEF ReadNothing, ReadCount, ReadLatency, kernel, prometheus, InMap, Before, Half,
     Fresh, Words
<1>2. CASE ReadNothing
  <2>1. pc' = "drop"
    BY <1>2 DEF ReadNothing
  <2> QED
    BY <1>1, <2>1 DEF InOrder
<1>3. CASE ReadCount
  <2>1. pc' = "copy" /\ InRow(w)' = InMap(w)
    BY <1>3 DEF ReadCount, InRow, InMap, OrZero
  <2>2. counter[w] = None => Before(w) = 0
    BY <1>3, ZeroType DEF ReadCount, TInv, TypeOK, Before, OrZero
  <2>3. InMap(w) \in Nat /\ InMap(w) <= InMap(w)
    BY Numbers DEF TInv
  <2> QED
    BY <1>1, <2>1, <2>2, <2>3 DEF InOrder
<1>4. CASE ReadLatency
  <2>1. /\ pc = "copy" /\ pc' = "count" /\ row # None
    BY <1>4 DEF ReadLatency, TInv, TypeOK
  <2>2. InRow(w)' = InRow(w) \/ InRow(w)' = InMap(w)
    <3>1. PICK l \in {row["latency"], IF entry = None THEN 0 ELSE entry["latency"]} :
            row' = [row EXCEPT !["latency"] = l]
      BY <1>4 DEF ReadLatency
    <3>2. row \in Totals /\ row' # None
      BY <1>4, <2>1 DEF ReadLatency, TInv, TypeOK, Totals
    <3>3. row'[w] = row[w] \/ (w = "latency" /\ row'[w] = l)
      BY <3>1, <3>2 DEF Totals
    <3>4. w = "latency" => l \in {InRow(w), InMap(w)}
      BY <2>1, <3>1, ZeroType DEF InRow, InMap, OrZero
    <3> QED
      BY <2>1, <3>2, <3>3, <3>4 DEF InRow, OrZero
  <2>3. InMap(w) \in Nat /\ InRow(w) \in Nat
    BY Numbers DEF TInv
  <2> QED
    BY <1>1, <2>1, <2>2, <2>3 DEF InOrder
<1> QED
  BY <1>2, <1>3, <1>4

(* The counter of a word comes to what its row holds. *)
LEMMA AddToRow ==
  ASSUME TInv, NEW w \in Words, AddTo(w), InOrder(w)
  PROVE  counter'[w] = InRow(w)
<1>1. row # None /\ pc \in {"count", "latency"} /\ ~ Half(w) /\ counter[w] # None
  BY DEF AddTo, TInv, TypeOK, Words, Half
<1>2. counter'[w] = OrZero(counter[w], 0) + deltaFloat(InRow(w), Before(w))
  BY <1>1, AddToType DEF TInv, InRow, Before, OrZero
<1>3. Before(w) <= InRow(w) /\ InRow(w) \in Nat /\ Before(w) \in Nat
  BY <1>1, Numbers DEF TInv, InOrder
<1>4. deltaFloat(InRow(w), Before(w)) = InRow(w) - Before(w)
  BY <1>3 DEF deltaFloat
<1>5. OrZero(counter[w], 0) = Before(w)
  BY <1>1 DEF InOrder, OrZero
<1> QED
  BY <1>2, <1>3, <1>4, <1>5

(* A new series is at zero, and so were its previous totals. *)
LEMMA WithInOrder ==
  ASSUME TInv, NEW v \in Words, With(v), NEW w \in Words, InOrder(w)
  PROVE  InOrder(w)'
<1>1. /\ InMap(w)' = InMap(w) /\ InRow(w)' = InRow(w) /\ Before(w)' = Before(w)
      /\ UNCHANGED <<pc, prev, sample, truth>>
      /\ Half(w)' <=> Half(w)
      /\ Fresh(w)' <=> Fresh(w)
  BY DEF With, kernel, prometheus, InMap, InRow, Before, Half, Fresh
<1>2. CASE w # v
  <2>1. counter'[w] = counter[w]
    BY <1>2, WithType DEF TInv
  <2> QED
    BY <1>1, <2>1 DEF InOrder
<1>3. CASE w = v
  <2>1. /\ pc = w /\ pc \in {"count", "latency"} /\ counter[w] = None
        /\ counter'[w] = 0 /\ counter'[w] # None
    BY <1>3, WithType DEF With, TInv, Words
  <2>2. prev = None
    BY <2>1 DEF TInv, TypeOK
  <2>3. Before(w) = 0 /\ ~ Half(w) /\ Fresh(w)
    BY <2>1, <2>2, ZeroType DEF Before, OrZero, Half, Fresh, TInv, CountFirst
  <2> QED
    BY <1>1, <2>1, <2>3 DEF InOrder
<1> QED
  BY <1>2, <1>3

LEMMA UpdateInOrder ==
  ASSUME TInv, UpdateCount \/ UpdateLatency, NEW w \in Words, InOrder(w)
  PROVE  InOrder(w)'
<1>1. /\ row # None /\ InRow(w)' = InRow(w) /\ InMap(w)' = InMap(w)
      /\ UNCHANGED <<sample, truth>>
  BY DEF UpdateCount, UpdateLatency, AddTo, kernel, prometheus, InRow, InMap, TInv, TypeOK
<1>2. /\ InMap(w) \in Nat /\ InRow(w) \in Nat /\ Before(w) \in Nat
      /\ OrZero(sample[w], 0) \in Nat
  BY Numbers DEF TInv
<1>3. "count" \in Words /\ "latency" \in Words /\ w \in {"count", "latency"}
  BY DEF Words
<1>4. /\ Before(w) <= InRow(w) /\ InRow(w) <= InMap(w) /\ OrZero(sample[w], 0) <= InRow(w)
      /\ counter[w] = None => Before(w) = 0
  BY DEF UpdateCount, UpdateLatency, AddTo, InOrder
<1>5. CASE UpdateCount
  <2>1. /\ pc = "count" /\ pc' = "latency" /\ AddTo("count") /\ Before(w)' = Before(w)
        /\ UNCHANGED prev
    BY <1>5 DEF UpdateCount, AddTo, Before
  <2>2. CASE w = "count"
    <3>1. counter'[w] = InRow(w) /\ Half(w)' /\ counter'[w] # None
      BY <1>1, <1>3, <2>1, <2>2, AddToRow, AddToType DEF Half, TInv
    <3> QED
      BY <1>1, <1>2, <1>4, <2>1, <3>1 DEF InOrder
  <2>3. CASE w = "latency"
    <3>1. counter'[w] = counter[w] /\ ~ Half(w) /\ ~ Half(w)' /\ ~ Fresh(w)
      BY <1>1, <1>3, <2>1, <2>3, AddToType DEF Half, Fresh, TInv
    <3> QED
      BY <1>1, <2>1, <3>1 DEF InOrder
  <2> QED
    BY <1>3, <2>2, <2>3
<1>6. CASE UpdateLatency
  <2>1. /\ pc = "latency" /\ pc' = "read" /\ AddTo("latency") /\ Before(w)' = InRow(w)
        /\ ~ Half(w)'
    BY <1>1, <1>6 DEF UpdateLatency, AddTo, Before, InRow, OrZero, Half
  <2>2. counter'[w] = InRow(w)
    <3>1. CASE w = "count"
      <4>1. counter'[w] = counter[w] /\ counter[w] # None /\ Half(w)
        BY <1>1, <1>3, <2>1, <3>1, AddToType DEF Half, TInv, CountFirst
      <4> QED
        BY <4>1 DEF InOrder
    <3>2. CASE w = "latency"
      BY <1>3, <2>1, <3>2, AddToRow DEF Half
    <3> QED
      BY <1>3, <3>1, <3>2
  <2> QED
    BY <1>1, <1>2, <1>4, <2>1, <2>2 DEF InOrder
<1> QED
  BY <1>5, <1>6

(* A series that goes leaves its samples behind. *)
LEMMA DropInOrder ==
  ASSUME TInv, DropCount \/ DropLatency \/ NothingToDrop \/ Restart,
         NEW w \in Words, InOrder(w)
  PROVE  InOrder(w)'
<1>1. /\ InMap(w)' = InMap(w) /\ UNCHANGED <<sample, truth>>
      /\ pc' \in {"read", "dropLatency"} /\ ~ Half(w)'
  BY DEF DropCount, DropLatency, NothingToDrop, Restart, kernel, prometheus, InMap, Half
<1>2. InMap(w) \in Nat /\ Before(w) \in Nat
  BY Numbers DEF TInv
<1>3. CASE DropCount \/ NothingToDrop
  <2>1. Before(w)' = Before(w) /\ ~ Half(w) /\ ~ Fresh(w)
    BY <1>3 DEF DropCount, NothingToDrop, Before, Half, Fresh, Words
  <2>2. counter'[w] = None \/ counter'[w] = counter[w]
    BY <1>3 DEF DropCount, NothingToDrop, TInv, TypeOK
  <2> QED
    BY <1>1, <2>1, <2>2 DEF InOrder
<1>4. CASE DropLatency \/ Restart
  <2>1. Before(w)' = 0
    BY <1>4, ZeroType DEF DropLatency, Restart, Before, OrZero
  <2>2. counter'[w] = None
    BY <1>4 DEF DropLatency, Restart, NoSeries, TInv, TypeOK, CountFirst, Words
  <2>3. pc' = "read"
    BY <1>4 DEF DropLatency, Restart
  <2> QED
    BY <1>1, <1>2, <2>1, <2>2, <2>3 DEF InOrder
<1> QED
  BY <1>3, <1>4

LEMMA ScrapeInOrder ==
  ASSUME TInv, NEW v \in Words, Scrape(v), NEW w \in Words, InOrder(w)
  PROVE  /\ InOrder(w)'
         /\ \/ OrZero(sample[w], 0) <= OrZero(sample'[w], 0)
            \/ Fresh(w) /\ sample'[w] = 0
<1>1. /\ InMap(w)' = InMap(w) /\ InRow(w)' = InRow(w) /\ Before(w)' = Before(w)
      /\ UNCHANGED <<pc, counter, truth>>
      /\ Half(w)' <=> Half(w)
      /\ Fresh(w)' <=> Fresh(w)
  BY DEF Scrape, kernel, process, InMap, InRow, Before, Half, Fresh
<1>2. /\ InMap(w) \in Nat /\ InRow(w) \in Nat /\ Before(w) \in Nat
      /\ OrZero(sample[w], 0) \in Nat
  BY Numbers DEF TInv
<1>3. CASE sample'[w] = sample[w]
  BY <1>1, <1>2, <1>3 DEF InOrder
<1>4. CASE w = v /\ counter[v] # None
  <2>1. sample'[w] = counter[w] /\ counter[w] \in Nat
    BY <1>4, ScrapeType DEF TInv
  <2>2. OrZero(sample'[w], 0) = counter[w]
    BY <1>4, <2>1 DEF OrZero
  <2>3. /\ Fresh(w) \/ OrZero(sample[w], 0) <= counter[w]
        /\ counter[w] = IF Half(w) THEN InRow(w) ELSE Before(w)
    BY <1>4 DEF InOrder
  <2>4. Fresh(w) => counter[w] = 0
    <3>1. prev = None /\ pc = w => Before(w) = 0 /\ ~ Half(w)
      BY ZeroType DEF Before, OrZero, Half
    <3> QED
      BY <2>3, <3>1 DEF Fresh
  <2>5. Half(w) => pc = "latency"
    BY DEF Half
  <2>6. counter[w] <= InMap(w)
    BY <1>2, <2>3, <2>5 DEF InOrder
  <2>7. pc \in {"copy", "count", "latency"} => counter[w] <= InRow(w)
    BY <1>2, <2>3 DEF InOrder
  <2>8. counter[w] <= counter[w]
    BY <2>1
  <2>9. InOrder(w)'
    BY <1>1, <1>4, <2>2, <2>3, <2>6, <2>7, <2>8 DEF InOrder
  <2> QED
    BY <2>1, <2>2, <2>3, <2>4, <2>9
<1>5. w # v /\ counter[v] # None => sample'[w] = sample[w]
  BY ScrapeType DEF TInv
<1> QED
  BY <1>3, <1>4, <1>5 DEF Scrape

LEMMA NextInOrder ==
  ASSUME TInv, TInv', resets = 0 => AllInOrder, [Next]_vars
  PROVE  (resets = 0 => AllInOrder)'
<1> SUFFICES ASSUME resets' = 0, NEW w \in Words PROVE InOrder(w)'
  BY DEF AllInOrder
<1>1. ~ ZeroInsert /\ ~ ReadUnknown
  BY DEF ZeroInsert, ReadUnknown, TInv, TypeOK
<1>2. UNCHANGED resets
  BY <1>1 DEF Next, vars, Loop, BpfInsert, AddCount, AddLatency, ReadNothing,
     ReadCount, ReadLatency, UpdateCount, UpdateLatency, DropCount, DropLatency,
     NothingToDrop, Restart, BeginScrape, Scrape, With
<1>3. InOrder(w)
  BY <1>2 DEF AllInOrder
<1>4. CASE BeginScrape \/ UNCHANGED vars
  BY <1>3, <1>4 DEF BeginScrape, vars, kernel, process, prometheus, InOrder, Half,
     Fresh, InMap, InRow, Before
<1> QED
  BY <1>1, <1>3, <1>4, KernelInOrder, ReadInOrder, WithInOrder, UpdateInOrder, DropInOrder,
     ScrapeInOrder DEF Next, Loop

(* What increase() returns is never more than what was added to the map,   *)
(* counted once more for each restart of the collector: With and Add of    *)
(* PromMetrics.Update, deltaFloat and Prometheus' own resets together add  *)
(* no word of the map a second time but after a restart.                   *)
THEOREM IncreaseIsBounded == Spec => []IncreaseBounded
<1> DEFINE Inv == TInv /\ AllNeverAhead
<1>1. Init => Inv
  BY InitTInv, InitInOrder
<1>2. Inv /\ [Next]_vars => Inv'
  BY NextTInv, NextNeverAhead
<1>3. Inv => IncreaseBounded
  <2> SUFFICES ASSUME Inv, NEW w \in Words PROVE increase[w] <= Bound(w)
    BY DEF IncreaseBounded, Bound
  <2>1. /\ Grown(w) \in Nat /\ increase[w] \in Nat /\ Bound(w) \in Nat
        /\ InMap(w) \in Nat /\ InRow(w) \in Nat /\ Before(w) \in Nat
    BY Numbers DEF TInv
  <2>2. NeverAhead(w) /\ pc \in {"read", "copy", "count", "latency", "drop", "dropLatency"}
    BY DEF AllNeverAhead, TInv, TypeOK
  <2>3. /\ deltaFloat(InMap(w), Before(w)) \in Nat /\ deltaFloat(InMap(w), InRow(w)) \in Nat
        /\ deltaFloat(InRow(w), Before(w)) \in Nat
    BY <2>1, Deltas
  <2> QED
    BY <2>1, <2>2, <2>3 DEF NeverAhead
<1> QED
  BY <1>1, <1>2, <1>3, PTL DEF Spec

(* Without a reset, the zero of a series that With has just published is   *)
(* the only sample that is smaller than the one before, however often and  *)
(* wherever in its round the collector restarted.                          *)
THEOREM OnlyFreshSeriesDrops == Spec => OnlyFreshSeriesDrop
<1> DEFINE Inv == TInv /\ (resets = 0 => AllInOrder)
           Step == resets' = 0 => \A w \in Words :
                     \/ sample[w] = None \/ sample'[w] >= sample[w]
                     \/ sample'[w] = 0 /\ prev = None /\ pc = w
<1>1. Init => Inv
  BY InitTInv, InitInOrder
<1>2. Inv /\ [Next]_vars => Inv'
  BY NextTInv, NextInOrder
<1>3. Inv /\ [Next]_vars => [Step]_vars
  <2> SUFFICES ASSUME Inv, [Next]_vars, resets' = 0, NEW w \in Words, sample[w] # None
               PROVE  sample'[w] >= sample[w] \/ (sample'[w] = 0 /\ prev = None /\ pc = w)
    OBVIOUS
  <2>1. sample[w] \in Nat
    BY DEF TInv, TypeOK
  <2>2. CASE sample' = sample
    BY <2>1, <2>2
  <2>3. ASSUME NEW v \in Words, Scrape(v), ~ (sample'[w] = 0 /\ prev = None /\ pc = w)
        PROVE  sample'[w] >= sample[w]
    <3>1. resets = 0
      BY <2>3 DEF Scrape
    <3>2. OrZero(sample[w], 0) <= OrZero(sample'[w], 0)
      BY <2>3, <3>1, ScrapeInOrder DEF AllInOrder, Fresh
    <3>3. sample'[w] # None /\ sample'[w] \in Nat \cup {None}
      <4>1. sample'[w] = sample[w] \/ (v = w /\ counter[v] # None)
        BY <2>3, ScrapeType DEF Scrape, TInv
      <4>2. CASE v = w /\ counter[v] # None
        BY <2>3, <4>2, ScrapeType, NoneApart DEF TInv
      <4> QED
        BY <2>1, <4>1, <4>2
    <3> QED
      BY <2>1, <3>2, <3>3 DEF OrZero
  <2> QED
    BY <2>2, <2>3 DEF Next, vars, Loop, BpfInsert, AddCount, AddLatency, ZeroInsert,
       ReadNothing, ReadCount, ReadLatency, With, UpdateCount, UpdateLatency, DropCount,
       DropLatency, NothingToDrop, ReadUnknown, Restart, BeginScrape, prometheus
<1> QED
  BY <1>1, <1>2, <1>3, PTL DEF Spec, OnlyFreshSeriesDrop

=============================================================================
