-------------------------- MODULE CollectorProofs --------------------------
(***************************************************************************)
(* Proofs about Collector, for any cgroups, pods, maps and restarts: the   *)
(* types, that the deltas of a pod add up to what the maps hold as long as *)
(* nothing of it was deleted or reset, that only the counter of a pod with *)
(* several cgroups and such a loss exceeds what happened, and that the     *)
(* loop deletes only what it cannot resolve.                               *)
(***************************************************************************)
EXTENDS Collector, FiniteSetTheorems, WellFoundedInduction, TLAPS

Less == {ss \in Nat \X Nat : ss[1] < ss[2]}

(* A nonempty set of natural numbers has a least element: the inductions   *)
(* below are by the least counterexample.                                  *)
LEMMA Least ==
  ASSUME NEW S, S \subseteq Nat, S # {}
  PROVE  \E x \in S : \A y \in S : x <= y
<1>1. IsWellFoundedOn(Less, Nat)
  BY NatLessThanWellFounded, Zenon DEF OpToRel, Less
<1>2. \E x \in S : \A y \in S : <<y, x>> \notin Less
  <2> HIDE DEF Less
  <2> QED BY <1>1, WFMin, Zenon
<1>3. \A x, y \in S : y < x => <<y, x>> \in Less
  BY DEF Less
<1> HIDE DEF Less
<1>4. PICK x \in S : \A y \in S : <<y, x>> \notin Less
  BY <1>2
<1>5. \A y \in S : ~ (y < x) /\ y \in Nat /\ x \in Nat
  BY <1>3, <1>4
<1> QED
  BY <1>5

----------------------------------------------------------------------------
(* The sums of MapThenSumSet: sum is a function that adds up f over each   *)
(* of the sets in Dom, the way MapThenSumSet does.                         *)
Pick(s) == CHOOSE x \in s : TRUE

Sums(f, Dom, sum) ==
  sum = [s \in Dom |-> IF s = {} THEN 0 ELSE f[Pick(s)] + sum[s \ {Pick(s)}]]

Small(S, n) == {s \in SUBSET S : Cardinality(s) <= n}

LEMMA SmallerSet ==
  ASSUME NEW S, IsFiniteSet(S), NEW n \in Nat, NEW s \in Small(S, n), s # {}
  PROVE  n # 0 /\ Pick(s) \in s /\ s \ {Pick(s)} \in Small(S, n - 1)
<1>1. s \subseteq S /\ Cardinality(s) <= n
  BY DEF Small
<1>2. IsFiniteSet(s)
  BY <1>1, FS_Subset
<1>3. Pick(s) \in s
  BY DEF Pick
<1>4. /\ Cardinality(s) \in Nat
      /\ Cardinality(s \ {Pick(s)}) = Cardinality(s) - 1
  BY <1>2, <1>3, FS_CardinalityType, FS_RemoveElement
<1>5. Cardinality(s) # 0
  BY <1>2, <1>3, FS_EmptySet
<1> QED
  BY <1>1, <1>3, <1>4, <1>5 DEF Small

LEMMA SmallSumsExist ==
  ASSUME NEW f, NEW S, IsFiniteSet(S), NEW n \in Nat
  PROVE  \E sum : Sums(f, Small(S, n), sum)
<1> DEFINE Bad == {k \in Nat : ~ \E sum : Sums(f, Small(S, k), sum)}
<1> SUFFICES ASSUME Bad # {} PROVE FALSE
  OBVIOUS
<1>1. PICK k \in Bad : \A j \in Bad : k <= j
  BY Least
<1>2. k # 0
  <2> DEFINE sum == [s \in Small(S, 0) |-> 0]
  <2>1. \A s \in Small(S, 0) : s = {}
    BY SmallerSet
  <2>2. Sums(f, Small(S, 0), sum)
    BY <2>1 DEF Sums
  <2> QED
    BY <2>2
<1>3. k - 1 \in Nat /\ k - 1 \notin Bad
  BY <1>1, <1>2
<1>4. PICK sum : Sums(f, Small(S, k - 1), sum)
  BY <1>3
<1> DEFINE next == [s \in Small(S, k) |->
                      IF s = {} THEN 0 ELSE f[Pick(s)] + sum[s \ {Pick(s)}]]
<1>5. ASSUME NEW s \in Small(S, k - 1) PROVE next[s] = sum[s]
  <2>1. sum[s] = IF s = {} THEN 0 ELSE f[Pick(s)] + sum[s \ {Pick(s)}]
    BY <1>4 DEF Sums
  <2>2. s \in Small(S, k)
    <3>1. s \in SUBSET S /\ Cardinality(s) \in Nat /\ Cardinality(s) <= k - 1
      BY FS_Subset, FS_CardinalityType DEF Small
    <3> QED
      BY <1>3, <3>1 DEF Small
  <2> QED
    BY <2>1, <2>2
<1>6. \A s \in Small(S, k) : s # {} => s \ {Pick(s)} \in Small(S, k - 1)
  BY <1>1, SmallerSet
<1> HIDE DEF next
<1>7. \A s \in Small(S, k) : s # {} => sum[s \ {Pick(s)}] = next[s \ {Pick(s)}]
  BY <1>5, <1>6
<1>8. Sums(f, Small(S, k), next)
  BY <1>7 DEF Sums, next
<1> QED
  BY <1>1, <1>8

LEMMA SumsExist ==
  ASSUME NEW f, NEW S, IsFiniteSet(S)
  PROVE  \E sum : Sums(f, SUBSET S, sum)
<1>1. Cardinality(S) \in Nat
  BY FS_CardinalityType
<1>2. SUBSET S = Small(S, Cardinality(S))
  BY FS_Subset DEF Small
<1>3. \E sum : Sums(f, Small(S, Cardinality(S)), sum)
  BY <1>1, SmallSumsExist
<1> QED
  BY <1>2, <1>3, Zenon

(* A smallest counterexample among the subsets of a finite set *)
LEMMA SmallestSet ==
  ASSUME NEW S, IsFiniteSet(S), NEW Bad, Bad \subseteq SUBSET S, Bad # {}
  PROVE  \E s \in Bad : \A x \in s : s \ {x} \notin Bad
<1> DEFINE Sizes == {Cardinality(s) : s \in Bad}
<1>1. ASSUME NEW s \in Bad
      PROVE  /\ IsFiniteSet(s) /\ Cardinality(s) \in Nat
             /\ \A x \in s : Cardinality(s \ {x}) = Cardinality(s) - 1
  BY FS_Subset, FS_CardinalityType, FS_RemoveElement
<1>2. Sizes \subseteq Nat /\ Sizes # {}
  BY <1>1
<1>3. PICK n \in Sizes : \A j \in Sizes : n <= j
  <2> HIDE DEF Sizes
  <2> QED BY <1>2, Least
<1>4. PICK s \in Bad : n = Cardinality(s)
  BY <1>3
<1>5. ASSUME NEW x \in s, s \ {x} \in Bad PROVE FALSE
  <2>1. Cardinality(s \ {x}) \in Sizes /\ Cardinality(s \ {x}) = n - 1 /\ n \in Nat
    BY <1>1, <1>4, <1>5
  <2> QED
    BY <1>3, <2>1
<1> QED
  BY <1>5

LEMMA PickInSet ==
  ASSUME NEW s, s # {}
  PROVE  Pick(s) \in s
BY DEF Pick

(* Sums of natural numbers are natural numbers. *)
LEMMA SumsType ==
  ASSUME NEW f, NEW S, IsFiniteSet(S), \A x \in S : f[x] \in Nat,
         NEW sum, Sums(f, SUBSET S, sum)
  PROVE  \A s \in SUBSET S : sum[s] \in Nat
<1> DEFINE Bad == {s \in SUBSET S : sum[s] \notin Nat}
<1> SUFFICES ASSUME Bad # {} PROVE FALSE
  OBVIOUS
<1>1. PICK s \in Bad : \A x \in s : s \ {x} \notin Bad
  BY SmallestSet
<1>2. s # {}
  BY DEF Sums
<1>3. /\ Pick(s) \in s /\ s \ {Pick(s)} \in SUBSET S
      /\ sum[s] = f[Pick(s)] + sum[s \ {Pick(s)}]
  BY <1>2, PickInSet DEF Sums
<1>4. f[Pick(s)] \in Nat /\ sum[s \ {Pick(s)}] \in Nat
  BY <1>1, <1>3
<1> QED
  BY <1>3, <1>4

(* Larger numbers have a larger sum. *)
LEMMA SumsGrow ==
  ASSUME NEW f, NEW g, NEW S, IsFiniteSet(S),
         \A x \in S : f[x] \in Nat /\ g[x] \in Nat /\ f[x] <= g[x],
         NEW sum, Sums(f, SUBSET S, sum), NEW more, Sums(g, SUBSET S, more)
  PROVE  \A s \in SUBSET S : sum[s] <= more[s]
<1> DEFINE Bad == {s \in SUBSET S : ~ (sum[s] <= more[s])}
<1> SUFFICES ASSUME Bad # {} PROVE FALSE
  OBVIOUS
<1>1. PICK s \in Bad : \A x \in s : s \ {x} \notin Bad
  BY SmallestSet
<1>2. s \in SUBSET S /\ ~ (sum[s] <= more[s])
  OBVIOUS
<1> HIDE DEF Bad
<1>3. s # {}
  <2>1. s = {} => sum[s] = 0
    BY <1>2, PickInSet DEF Sums
  <2>2. s = {} => more[s] = 0
    BY <1>2, PickInSet DEF Sums
  <2> QED
    BY <1>2, <2>1, <2>2
<1>4. /\ Pick(s) \in s /\ s \ {Pick(s)} \in SUBSET S
      /\ sum[s] = f[Pick(s)] + sum[s \ {Pick(s)}]
  BY <1>2, <1>3, PickInSet DEF Sums
<1>5. more[s] = g[Pick(s)] + more[s \ {Pick(s)}]
  BY <1>2, <1>3, PickInSet DEF Sums
<1>6. sum[s \ {Pick(s)}] <= more[s \ {Pick(s)}]
  BY <1>1, <1>4 DEF Bad
<1>7. (\A t \in SUBSET S : sum[t] \in Nat) /\ (\A t \in SUBSET S : more[t] \in Nat)
  BY SumsType
<1>8. f[Pick(s)] \in Nat /\ g[Pick(s)] \in Nat /\ f[Pick(s)] <= g[Pick(s)]
  BY <1>2, <1>4
<1> QED
  BY <1>2, <1>4, <1>5, <1>6, <1>7, <1>8

(* Any element may be taken out of a sum, not only the one picked first.   *)
LEMMA SumsRemove ==
  ASSUME NEW f, NEW S, IsFiniteSet(S), \A x \in S : f[x] \in Nat,
         NEW sum, Sums(f, SUBSET S, sum)
  PROVE  \A s \in SUBSET S : \A x \in s : sum[s] = f[x] + sum[s \ {x}]
<1> DEFINE Bad == {s \in SUBSET S : ~ \A x \in s : sum[s] = f[x] + sum[s \ {x}]}
<1> SUFFICES ASSUME Bad # {} PROVE FALSE
  OBVIOUS
<1>1. PICK s \in Bad : \A x \in s : s \ {x} \notin Bad
  BY SmallestSet
<1>2. PICK x \in s : sum[s] # f[x] + sum[s \ {x}]
  BY <1>1
<1> DEFINE p == Pick(s)
           rest == (s \ {p}) \ {x}
<1>3. /\ p \in s /\ s \ {p} \in SUBSET S
      /\ sum[s] = f[p] + sum[s \ {p}]
  <2>1. s \in SUBSET S /\ s # {}
    BY <1>2
  <2> QED
    BY <2>1, PickInSet DEF Sums
<1> HIDE DEF p
<1>4. p # x
  BY <1>2, <1>3
<1>5. sum[s \ {p}] = f[x] + sum[rest]
  BY <1>1, <1>2, <1>3, <1>4
<1>6. /\ (s \ {x}) \ {p} = rest /\ s \ {x} \in SUBSET S /\ s \ {x} \notin Bad
      /\ p \in s \ {x}
  BY <1>1, <1>2, <1>3, <1>4
<1>7. sum[s \ {x}] = f[p] + sum[(s \ {x}) \ {p}]
  BY <1>6
<1>8. sum[s \ {x}] = f[p] + sum[rest]
  BY <1>6, <1>7, Zenon
<1>9. f[p] \in Nat /\ f[x] \in Nat /\ sum[rest] \in Nat
  BY <1>2, <1>3, SumsType
<1> HIDE DEF rest
<1> QED
  BY <1>2, <1>3, <1>5, <1>8, <1>9

(* Zeros do not count. *)
LEMMA SumsOfZeros ==
  ASSUME NEW f, NEW S, IsFiniteSet(S), \A x \in S : f[x] \in Nat,
         NEW sum, Sums(f, SUBSET S, sum),
         NEW T \in SUBSET S, \A x \in S \ T : f[x] = 0
  PROVE  sum[S] = sum[T]
<1> DEFINE Bad == {s \in SUBSET S : sum[s] # sum[s \cap T]}
<1>1. Bad = {}
  <2> SUFFICES ASSUME Bad # {} PROVE FALSE
    OBVIOUS
  <2>1. PICK s \in Bad : \A x \in s : s \ {x} \notin Bad
    BY SmallestSet
  <2>2. s # {}
    BY <2>1
  <2> DEFINE p == Pick(s)
  <2>3. /\ p \in s /\ s \ {p} \in SUBSET S
        /\ sum[s] = f[p] + sum[s \ {p}]
    BY <2>2, PickInSet DEF Sums
  <2> HIDE DEF p
  <2>4. sum[s \ {p}] = sum[(s \ {p}) \cap T]
    BY <2>1, <2>3
  <2>5. CASE p \in T
    <3>1. s \cap T \in SUBSET S /\ p \in s \cap T /\ (s \cap T) \ {p} = (s \ {p}) \cap T
      BY <2>3, <2>5
    <3>2. sum[s \cap T] = f[p] + sum[(s \cap T) \ {p}]
      BY <3>1, SumsRemove
    <3>3. sum[s \cap T] = f[p] + sum[(s \ {p}) \cap T]
      BY <3>1, <3>2, Zenon
    <3> QED
      BY <2>1, <2>3, <2>4, <3>3, Zenon
  <2>6. CASE p \notin T
    <3>1. (s \ {p}) \cap T = s \cap T /\ f[p] = 0
      BY <2>3, <2>6
    <3>2. sum[s \ {p}] = sum[s \cap T]
      BY <2>4, <3>1, Zenon
    <3>3. sum[s \ {p}] \in Nat
      BY <2>3, SumsType
    <3> QED
      BY <2>1, <2>3, <3>1, <3>2, <3>3
  <2> QED
    BY <2>5, <2>6
<1>2. S \cap T = T /\ S \in SUBSET S
  OBVIOUS
<1>3. sum[S] = sum[S \cap T]
  BY <1>1, <1>2
<1> QED
  BY <1>2, <1>3, Zenon

----------------------------------------------------------------------------
(* The same of SumOver, which Update and the properties use *)
LEMMA SumOverSums ==
  ASSUME NEW f, NEW S, IsFiniteSet(S)
  PROVE  \E sum : Sums(f, SUBSET S, sum) /\ SumOver(f, S) = sum[S]
<1> DEFINE Step(sum) == sum = [s \in SUBSET S |-> IF s = {} THEN 0
                                 ELSE f[Pick(s)] + sum[s \ {Pick(s)}]]
           it == CHOOSE sum : Step(sum)
<1>1. \E sum : Step(sum)
  <2>1. PICK sum : Sums(f, SUBSET S, sum)
    BY SumsExist
  <2> QED
    BY <2>1 DEF Sums
<1>2. Sums(f, SUBSET S, it)
  BY <1>1 DEF Sums
<1>3. SumOver(f, S) = it[S]
  BY DEF SumOver, MapThenSumSet, MapThenFoldSet, Pick
<1> HIDE DEF it
<1> QED
  BY <1>2, <1>3

LEMMA SumOverType ==
  ASSUME NEW f, NEW S, IsFiniteSet(S), \A x \in S : f[x] \in Nat
  PROVE  SumOver(f, S) \in Nat
<1>1. PICK sum : Sums(f, SUBSET S, sum) /\ SumOver(f, S) = sum[S]
  BY SumOverSums
<1>2. \A s \in SUBSET S : sum[s] \in Nat
  BY <1>1, SumsType
<1>3. S \in SUBSET S
  OBVIOUS
<1> QED
  BY <1>1, <1>2, <1>3

LEMMA SumOverGrows ==
  ASSUME NEW f, NEW g, NEW S, IsFiniteSet(S),
         \A x \in S : f[x] \in Nat /\ g[x] \in Nat /\ f[x] <= g[x]
  PROVE  SumOver(f, S) <= SumOver(g, S)
<1>1. PICK sum : Sums(f, SUBSET S, sum) /\ SumOver(f, S) = sum[S]
  BY SumOverSums
<1>2. PICK more : Sums(g, SUBSET S, more) /\ SumOver(g, S) = more[S]
  BY SumOverSums
<1>3. \A s \in SUBSET S : sum[s] <= more[s]
  BY <1>1, <1>2, SumsGrow
<1>4. S \in SUBSET S
  OBVIOUS
<1> QED
  BY <1>1, <1>2, <1>3, <1>4

(* A sum over fewer elements, the others being zero *)
LEMMA SumOverNonzero ==
  ASSUME NEW f, NEW S, IsFiniteSet(S), NEW g, NEW T \in SUBSET S,
         \A x \in S : f[x] \in Nat,
         \A x \in T : g[x] = f[x], \A x \in S \ T : f[x] = 0
  PROVE  SumOver(g, T) = SumOver(f, S)
<1>1. IsFiniteSet(T)
  BY FS_Subset
<1>2. PICK sum : Sums(f, SUBSET S, sum) /\ SumOver(f, S) = sum[S]
  BY SumOverSums
<1>3. PICK part : Sums(g, SUBSET T, part) /\ SumOver(g, T) = part[T]
  BY <1>1, SumOverSums
<1> DEFINE cut == [s \in SUBSET T |-> sum[s]]
<1>4. Sums(f, SUBSET T, cut)
  <2>1. ASSUME NEW s \in SUBSET T
        PROVE  cut[s] = IF s = {} THEN 0 ELSE f[Pick(s)] + cut[s \ {Pick(s)}]
    BY <1>2, PickInSet DEF Sums
  <2>2. cut = [s \in SUBSET T |-> cut[s]]
    OBVIOUS
  <2> HIDE DEF cut
  <2> QED
    BY <2>1, <2>2 DEF Sums
<1>5. T \in SUBSET T /\ cut[T] = sum[T] /\ sum[S] = sum[T]
  BY <1>2, SumsOfZeros
<1> HIDE DEF cut
<1>6. \A x \in T : f[x] \in Nat /\ g[x] \in Nat /\ f[x] <= g[x] /\ g[x] <= f[x]
  OBVIOUS
<1>7. (\A s \in SUBSET T : part[s] <= cut[s]) /\ (\A s \in SUBSET T : cut[s] <= part[s])
  BY <1>1, <1>3, <1>4, <1>6, SumsGrow
<1>8. (\A s \in SUBSET T : part[s] \in Nat) /\ (\A s \in SUBSET T : cut[s] \in Nat)
  BY <1>1, <1>3, <1>4, <1>6, SumsType
<1>9. part[T] = cut[T]
  BY <1>5, <1>7, <1>8
<1> QED
  BY <1>2, <1>3, <1>5, <1>9

(* The sum over one element *)
LEMMA SumOverOne ==
  ASSUME NEW f, NEW x, f[x] \in Nat
  PROVE  SumOver(f, {x}) = f[x]
<1>1. IsFiniteSet({x})
  BY FS_Singleton
<1>2. PICK sum : Sums(f, SUBSET {x}, sum) /\ SumOver(f, {x}) = sum[{x}]
  BY <1>1, SumOverSums
<1>3. sum[{}] = 0
  BY <1>2 DEF Sums
<1>4. Pick({x}) = x /\ {x} \ {x} = {}
  BY DEF Pick
<1>5. sum[{x}] = f[Pick({x})] + sum[{x} \ {Pick({x})}]
  BY <1>2 DEF Sums
<1>6. sum[{x}] = f[x] + sum[{}]
  BY <1>4, <1>5, Zenon
<1> QED
  BY <1>2, <1>3, <1>6

----------------------------------------------------------------------------
(* The totals of a pod *)
(* The pod of c has no other cgroup. *)
Single(c) == \A d \in Cgroups : KeyOf[d] = KeyOf[c] => d = c

(* What the rows of a round hold of a cgroup, 0 for no row *)
Read(m, c) == OrZero(row[c])[m]

LEMMA PodsFinite ==
  \A k : IsFiniteSet(CgroupsOf(k)) /\ IsFiniteSet(RowsOf(k)) /\ RowsOf(k) \subseteq CgroupsOf(k)
BY ConstantsAssumption, FS_Subset DEF CgroupsOf, RowsOf

(* current[key] of Update is the sum over the pod: no row counts as zero.  *)
LEMMA CurrentIsSum ==
  ASSUME TypeOK, NEW k, NEW m \in Maps
  PROVE  /\ Current(k)[m] = SumOver([cg \in CgroupsOf(k) |-> Read(m, cg)], CgroupsOf(k))
         /\ Current(k)[m] \in Nat
<1> DEFINE S == CgroupsOf(k)
           T == RowsOf(k)
           f == [cg \in S |-> Read(m, cg)]
           g == [cg \in T |-> row[cg][m]]
<1>1. IsFiniteSet(S) /\ T \in SUBSET S
  BY PodsFinite
<1>2. ASSUME NEW x \in S PROVE f[x] \in Nat
  <2>1. OrZero(row[x]) \in Totals
    BY DEF TypeOK, CgroupsOf, OrZero, NoTotals, Totals
  <2> QED
    BY <2>1 DEF Read, Totals
<1>3. ASSUME NEW x \in T PROVE g[x] = f[x]
  BY <1>1 DEF RowsOf, Read, OrZero
<1>4. ASSUME NEW x \in S \ T PROVE f[x] = 0
  BY DEF RowsOf, CgroupsOf, Read, OrZero, NoTotals
<1>5. Current(k)[m] = SumOver(g, T)
  BY DEF Current
<1> HIDE DEF S, T, f, g
<1>6. SumOver(g, T) = SumOver(f, S) /\ SumOver(f, S) \in Nat
  BY <1>1, <1>2, <1>3, <1>4, SumOverNonzero, SumOverType
<1> QED
  BY <1>5, <1>6 DEF f, S

(* The totals of Update are numbers; with one cgroup they are its row.     *)
LEMMA CurrentType ==
  ASSUME TypeOK, NEW k
  PROVE  Current(k) \in Totals
<1>1. ASSUME NEW m \in Maps PROVE Current(k)[m] \in Nat
  BY CurrentIsSum
<1>2. Current(k) = [m \in Maps |-> Current(k)[m]]
  BY DEF Current
<1> HIDE DEF Current
<1> QED
  BY <1>1, <1>2 DEF Totals

LEMMA CurrentOfOne ==
  ASSUME TypeOK, NEW c \in Cgroups, Single(c), NEW m \in Maps
  PROVE  Current(KeyOf[c])[m] = Read(m, c)
<1> DEFINE f == [cg \in CgroupsOf(KeyOf[c]) |-> Read(m, cg)]
<1>1. CgroupsOf(KeyOf[c]) = {c}
  BY DEF CgroupsOf, Single
<1>2. f[c] = Read(m, c) /\ Read(m, c) \in Nat
  <2>1. OrZero(row[c]) \in Totals
    BY DEF TypeOK, OrZero, NoTotals, Totals
  <2> QED
    BY <1>1, <2>1 DEF Read, Totals
<1>3. Current(KeyOf[c])[m] = SumOver(f, CgroupsOf(KeyOf[c]))
  BY CurrentIsSum
<1> HIDE DEF f
<1>4. SumOver(f, {c}) = f[c]
  BY <1>2, SumOverOne
<1> QED
  BY <1>1, <1>2, <1>3, <1>4

----------------------------------------------------------------------------
(* Types *)
LEMMA KernelTypeOK ==
  ASSUME TypeOK, Environment
  PROVE  TypeOK'
<1>1. ASSUME NEW cg \in Cgroups, CgroupCreated(cg) \/ CgroupRemoved(cg) PROVE TypeOK'
  BY <1>1 DEF CgroupCreated, CgroupRemoved, TypeOK, process
<1>2. ASSUME NEW m \in Maps, NEW cg \in Cgroups, BpfInsert(m, cg) PROVE TypeOK'
  <2>1. bpf' = [bpf EXCEPT ![m] = [bpf[m] EXCEPT ![cg] = 0]]
    BY <1>2 DEF BpfInsert
  <2>2. bpf' \in [Maps -> [Cgroups -> Nat \cup {None}]]
    BY <2>1 DEF TypeOK
  <2>3. reset' \subseteq Maps \X Cgroups
    BY <1>2 DEF BpfInsert, TypeOK
  <2> QED
    BY <1>2, <2>2, <2>3 DEF BpfInsert, TypeOK, process
<1>3. ASSUME NEW m \in Maps, NEW cg \in Cgroups, BpfAdd(m, cg) PROVE TypeOK'
  <2>1. bpf[m][cg] \in Nat /\ truth[m][cg] \in Nat
    BY <1>3 DEF BpfAdd, TypeOK
  <2>2. /\ bpf' = [bpf EXCEPT ![m] = [bpf[m] EXCEPT ![cg] = bpf[m][cg] + 1]]
        /\ truth' = [truth EXCEPT ![m] = [truth[m] EXCEPT ![cg] = truth[m][cg] + 1]]
    BY <1>3 DEF BpfAdd
  <2>3. bpf' \in [Maps -> [Cgroups -> Nat \cup {None}]]
    BY <2>1, <2>2 DEF TypeOK
  <2>4. truth' \in [Maps -> [Cgroups -> Nat]]
    BY <2>1, <2>2 DEF TypeOK
  <2> QED
    BY <1>3, <2>3, <2>4 DEF BpfAdd, TypeOK, process
<1> QED
  BY <1>1, <1>2, <1>3 DEF Environment

(* The row that readStats makes or extends *)
LEMMA MergeType ==
  ASSUME TypeOK, NEW m \in Maps, NEW cg \in Cgroups, bpf[m][cg] # None
  PROVE  /\ Merge(m, cg) \in [Cgroups -> Totals \cup {None}]
         /\ Merge(m, cg)[cg] \in Totals
         /\ Merge(m, cg)[cg][m] = bpf[m][cg]
         /\ \A mm \in Maps : mm # m => Merge(m, cg)[cg][mm] = OrZero(row[cg])[mm]
         /\ \A c \in Cgroups : c # cg => Merge(m, cg)[c] = row[c]
<1> DEFINE old == OrZero(row[cg])
           new == [old EXCEPT ![m] = bpf[m][cg]]
<1>1. old \in Totals
  BY DEF TypeOK, OrZero, NoTotals, Totals
<1>2. bpf[m][cg] \in Nat
  BY DEF TypeOK
<1>3. Merge(m, cg) = [row EXCEPT ![cg] = new]
  BY DEF Merge, OrZero
<1> HIDE DEF old
<1>4. /\ new \in Totals /\ new[m] = bpf[m][cg]
      /\ \A mm \in Maps : mm # m => new[mm] = old[mm]
  BY <1>1, <1>2 DEF Totals
<1> HIDE DEF new
<1>5. Merge(m, cg) = [c \in Cgroups |-> IF c = cg THEN new ELSE row[c]]
  BY <1>3 DEF TypeOK
<1> QED
  BY <1>4, <1>5 DEF TypeOK, old

LEMMA LoopTypeOK ==
  ASSUME TypeOK, Loop \/ Restart
  PROVE  TypeOK'
<1> USE DEF kernel
<1>0. {} # None /\ NoRows \in [Cgroups -> Totals \cup {None}]
      /\ NoSeries \in [Keys -> Totals \cup {None}]
  BY ConstantsAssumption DEF NoRows, NoSeries
<1>1. CASE BeginWalk
  BY <1>0, <1>1 DEF BeginWalk, TypeOK
<1>2. ASSUME NEW cg \in Cgroups, WalkDir(cg) PROVE TypeOK'
  <2>1. resolver' \subseteq Cgroups /\ resolver' # None
    BY <1>2, ConstantsAssumption DEF WalkDir, TypeOK
  <2> QED
    BY <1>2, <2>1 DEF WalkDir, TypeOK
<1>3. CASE BeginRead
  BY <1>0, <1>3 DEF BeginRead, TypeOK
<1>4. ASSUME NEW m \in Maps, NEW cg \in Cgroups, IterNext(m, cg) PROVE TypeOK'
  <2>1. row' \in [Cgroups -> Totals \cup {None}]
    BY <1>4, MergeType DEF IterNext, TypeOK
  <2> QED
    BY <1>4, <2>1 DEF IterNext, TypeOK
<1>5. ASSUME NEW m \in Maps, IterErr(m) PROVE TypeOK'
  BY <1>5 DEF IterErr, TypeOK
<1>6. ASSUME NEW m \in Maps, IterDone(m) PROVE TypeOK'
  <2>1. pc \in {"block", "runq"} /\ pc' \in {"deleteBlock", "deleteRunq"}
    BY <1>6, ConstantsAssumption DEF IterDone, Deleting
  <2> QED
    BY <1>6, <2>1 DEF IterDone, TypeOK
<1>7. ASSUME NEW m \in Maps, NEW cg \in Cgroups, DeleteStale(m, cg) PROVE TypeOK'
  <2>1. bpf' = [bpf EXCEPT ![m] = [bpf[m] EXCEPT ![cg] = None]]
    BY <1>7 DEF DeleteStale
  <2>2. bpf' \in [Maps -> [Cgroups -> Nat \cup {None}]]
    BY <2>1 DEF TypeOK
  <2>3. reset' \subseteq Maps \X Cgroups
    BY <1>7 DEF DeleteStale, TypeOK
  <2> QED
    BY <1>7, <2>2, <2>3 DEF DeleteStale, TypeOK
<1>8. ASSUME NEW m \in Maps, DeleteDone(m) PROVE TypeOK'
  <2>1. pc \in {"deleteBlock", "deleteRunq"}
    BY <1>8, ConstantsAssumption DEF DeleteDone, Deleting
  <2> QED
    BY <1>8, <2>1 DEF DeleteDone, TypeOK
<1>9. CASE Update
  <2>1. ASSUME NEW k \in Keys
        PROVE  /\ prev'[k] \in Totals \cup {None} /\ series'[k] \in Totals \cup {None}
               /\ series'[k] = None <=> prev'[k] = None
    <3>1. Current(k) \in Totals
      BY CurrentType
    <3>2. Before(k) \in Totals /\ OrZero(series[k]) \in Totals
      BY DEF TypeOK, Before, OrZero, NoTotals, Totals
    <3> DEFINE grown == [m \in Maps |-> OrZero(series[k])[m]
                                        + deltaFloat(Current(k)[m], Before(k)[m])]
    <3>3. grown \in Totals
      BY <3>1, <3>2 DEF Totals, deltaFloat
    <3>4. /\ prev'[k] = IF RowsOf(k) = {} THEN None ELSE Current(k)
          /\ series'[k] = IF RowsOf(k) = {} THEN (IF prev[k] = None THEN series[k] ELSE None)
                          ELSE grown
      BY <1>9 DEF Update
    <3>5. None \notin Totals
      BY ConstantsAssumption DEF Totals
    <3> HIDE DEF grown
    <3> QED
      BY <3>1, <3>3, <3>4, <3>5 DEF TypeOK
  <2>2. /\ prev' = [k \in Keys |-> prev'[k]] /\ series' = [k \in Keys |-> series'[k]]
        /\ pc' = "end"
        /\ UNCHANGED <<kernel, resolver, todo, row, stale, hadUnknown, restarts, reset>>
    BY <1>9 DEF Update
  <2>3. prev' \in [Keys -> Totals \cup {None}] /\ series' \in [Keys -> Totals \cup {None}]
    BY <2>1, <2>2
  <2> QED
    BY <2>1, <2>2, <2>3 DEF TypeOK
<1>10. CASE EndRound
  BY <1>10 DEF EndRound, TypeOK
<1>11. CASE Restart
  <2>1. /\ row' = NoRows /\ prev' = NoSeries /\ series' = NoSeries
        /\ resolver' = None /\ pc' = "build" /\ todo' = {} /\ stale' = {}
        /\ UNCHANGED <<life, bpf, truth, reset>>
    BY <1>11 DEF Restart
  <2>2. hadUnknown' \in BOOLEAN
    BY <1>11 DEF Restart
  <2>3. restarts' \in Nat
    BY <1>11 DEF Restart, TypeOK
  <2>4. \A k \in Keys : NoSeries[k] = None
    BY DEF NoSeries
  <2> HIDE DEF NoSeries
  <2> QED
    BY <1>0, <2>1, <2>2, <2>3, <2>4 DEF TypeOK
<1> QED
  BY <1>1, <1>2, <1>3, <1>4, <1>5, <1>6, <1>7, <1>8, <1>9, <1>10, <1>11 DEF Loop

LEMMA InitTypeOK == Init => TypeOK
<1> SUFFICES ASSUME Init PROVE TypeOK
  OBVIOUS
<1>1. /\ row \in [Cgroups -> Totals \cup {None}]
      /\ prev \in [Keys -> Totals \cup {None}] /\ series \in [Keys -> Totals \cup {None}]
      /\ \A k \in Keys : series[k] = None <=> prev[k] = None
  BY DEF Init, NoRows, NoSeries
<1>2. hadUnknown \in BOOLEAN
  BY DEF Init
<1> QED
  BY <1>1, <1>2 DEF Init, TypeOK

LEMMA NextTypeOK == TypeOK /\ [Next]_vars => TypeOK'
<1> SUFFICES ASSUME TypeOK, [Next]_vars PROVE TypeOK'
  OBVIOUS
<1>1. CASE UNCHANGED vars
  BY <1>1 DEF vars, kernel, process, TypeOK
<1> QED
  BY <1>1, KernelTypeOK, LoopTypeOK DEF Next

(* The totals and the counters are numbers, for any number of containers   *)
(* in a pod, and a key has a series exactly when it has previous totals.   *)
THEOREM TypeCorrect == Spec => []TypeOK
BY InitTypeOK, NextTypeOK, PTL DEF Spec

----------------------------------------------------------------------------
(* What previous total and counter of the pod of a cgroup hold, 0 for none *)
Seen(m, c) == OrZero(prev[KeyOf[c]])[m]
Shown(m, c) == OrZero(series[KeyOf[c]])[m]

InRound == pc \in {"block", "runq", "deleteBlock", "deleteRunq", "update"}

(* The round has been to the place of c in map m. *)
WasRead(m, c) ==
  \/ pc = m /\ c \notin todo
  \/ pc \in {"deleteBlock", "runq", "deleteRunq"} /\ m = "block"
  \/ pc = "deleteRunq" /\ m = "runq"
  \/ pc = "update"

(* A round resolves a cgroup in all maps or in none, and its row holds     *)
(* zero where the round has not been.                                      *)
RowsResolved ==
  InRound => \A c \in Cgroups :
    /\ row[c] # None => c \in resolver
    /\ \A m \in Maps : ~WasRead(m, c) => Read(m, c) = 0

(* The entry never runs ahead of the events. *)
EntryBehind(m, c) == Entry(m, c) <= truth[m][c]

(* What the counter would show if Update were given the map as it is now   *)
NeverAhead(m, c) ==
  Shown(m, c) + deltaFloat(Entry(m, c), Seen(m, c)) <= truth[m][c]

(* ... and if it is given the row of this round now, and the map later     *)
NeverAheadInRound(m, c) ==
  WasRead(m, c) /\ c \in resolver =>
    Shown(m, c) + deltaFloat(Read(m, c), Seen(m, c))
      + deltaFloat(Entry(m, c), Read(m, c)) <= truth[m][c]

Good(m, c) ==
  /\ EntryBehind(m, c)
  /\ Single(c) => NeverAhead(m, c) /\ NeverAheadInRound(m, c)

AllGood == \A m \in Maps, c \in Cgroups : Good(m, c)

(* Only pods that have a cgroup have a series. *)
SeriesHaveCgroup == \A k \in Keys : series[k] # None => CgroupsOf(k) # {}

CInv == TypeOK /\ RowsResolved /\ AllGood /\ SeriesHaveCgroup

LEMMA Numbers ==
  ASSUME TypeOK, NEW m \in Maps, NEW c \in Cgroups
  PROVE  /\ Entry(m, c) \in Nat /\ Read(m, c) \in Nat /\ Seen(m, c) \in Nat
         /\ Shown(m, c) \in Nat /\ truth[m][c] \in Nat /\ KeyOf[c] \in Keys
<1>1. \A t \in Totals \cup {None} : OrZero(t) \in Totals
  BY DEF OrZero, NoTotals, Totals
<1>2. KeyOf[c] \in Keys
  BY ConstantsAssumption
<1>3. \A t \in Totals : t[m] \in Nat
  BY DEF Totals
<1>4. OrZero(row[c]) \in Totals /\ OrZero(prev[KeyOf[c]]) \in Totals
      /\ OrZero(series[KeyOf[c]]) \in Totals
  BY <1>1, <1>2 DEF TypeOK
<1>5. bpf[m][c] \in Nat \cup {None} /\ truth[m][c] \in Nat
  BY DEF TypeOK
<1> QED
  BY <1>2, <1>3, <1>4, <1>5 DEF Entry, Read, Seen, Shown

(* Most steps leave the numbers of most entries alone. *)
LEMMA GoodKept ==
  ASSUME NEW m \in Maps, NEW c \in Cgroups, Good(m, c),
         Entry(m, c)' = Entry(m, c), truth'[m][c] = truth[m][c],
         UNCHANGED <<prev, series>>,
         WasRead(m, c)' /\ c \in resolver' =>
           WasRead(m, c) /\ c \in resolver /\ Read(m, c)' = Read(m, c)
  PROVE  Good(m, c)'
<1>1. Seen(m, c)' = Seen(m, c) /\ Shown(m, c)' = Shown(m, c)
  BY DEF Seen, Shown
<1>2. CASE WasRead(m, c)' /\ c \in resolver'
  BY <1>1, <1>2 DEF Good, EntryBehind, NeverAhead, NeverAheadInRound
<1>3. CASE ~ (WasRead(m, c)' /\ c \in resolver')
  BY <1>1, <1>3 DEF Good, EntryBehind, NeverAhead, NeverAheadInRound
<1> QED
  BY <1>2, <1>3

(* An entry goes back to zero: by a deletion, or by a late zero insert.    *)
LEMMA GoodReset ==
  ASSUME TypeOK, TypeOK', NEW m \in Maps, NEW c \in Cgroups, Good(m, c),
         Entry(m, c)' = 0,
         UNCHANGED <<truth, prev, series, row, resolver, pc, todo>>
  PROVE  Good(m, c)'
<1>1. /\ Seen(m, c)' = Seen(m, c) /\ Shown(m, c)' = Shown(m, c)
      /\ Read(m, c)' = Read(m, c) /\ truth'[m][c] = truth[m][c]
      /\ WasRead(m, c)' <=> WasRead(m, c)
  BY DEF Seen, Shown, Read, WasRead
<1>2. /\ Entry(m, c) \in Nat /\ Read(m, c) \in Nat /\ Seen(m, c) \in Nat
      /\ Shown(m, c) \in Nat /\ truth[m][c] \in Nat
  BY Numbers
<1>3. EntryBehind(m, c)'
  BY <1>1, <1>2 DEF EntryBehind
<1>4. NeverAhead(m, c) => NeverAhead(m, c)'
  BY <1>1, <1>2 DEF NeverAhead, deltaFloat
<1>5. NeverAheadInRound(m, c) => NeverAheadInRound(m, c)'
  <2> SUFFICES ASSUME NeverAheadInRound(m, c), WasRead(m, c), c \in resolver
               PROVE  Shown(m, c) + deltaFloat(Read(m, c), Seen(m, c))
                        + deltaFloat(0, Read(m, c)) <= truth[m][c]
    BY <1>1 DEF NeverAheadInRound
  <2>1. Shown(m, c) + deltaFloat(Read(m, c), Seen(m, c))
          + deltaFloat(Entry(m, c), Read(m, c)) <= truth[m][c]
    BY DEF NeverAheadInRound
  <2> QED
    BY <2>1, <1>2 DEF deltaFloat
<1> QED
  BY <1>3, <1>4, <1>5 DEF Good

(* One more event, in the map and in the truth *)
LEMMA GoodAdd ==
  ASSUME TypeOK, TypeOK', NEW m \in Maps, NEW c \in Cgroups, Good(m, c),
         Entry(m, c)' = Entry(m, c) + 1, truth'[m][c] = truth[m][c] + 1,
         UNCHANGED <<reset, prev, series, row, resolver, pc, todo>>
  PROVE  Good(m, c)'
<1>1. /\ Seen(m, c)' = Seen(m, c) /\ Shown(m, c)' = Shown(m, c)
      /\ Read(m, c)' = Read(m, c)
      /\ WasRead(m, c)' <=> WasRead(m, c)
  BY DEF Seen, Shown, Read, WasRead
<1>2. /\ Entry(m, c) \in Nat /\ Read(m, c) \in Nat /\ Seen(m, c) \in Nat
      /\ Shown(m, c) \in Nat /\ truth[m][c] \in Nat
  BY Numbers
<1>3. EntryBehind(m, c)'
  BY <1>1, <1>2 DEF EntryBehind, Good
<1>4. NeverAhead(m, c) => NeverAhead(m, c)'
  BY <1>1, <1>2 DEF NeverAhead, deltaFloat
<1>5. NeverAheadInRound(m, c) => NeverAheadInRound(m, c)'
  <2> SUFFICES ASSUME NeverAheadInRound(m, c), WasRead(m, c), c \in resolver
               PROVE  Shown(m, c) + deltaFloat(Read(m, c), Seen(m, c))
                        + deltaFloat(Entry(m, c) + 1, Read(m, c)) <= truth[m][c] + 1
    BY <1>1 DEF NeverAheadInRound
  <2>1. Shown(m, c) + deltaFloat(Read(m, c), Seen(m, c))
          + deltaFloat(Entry(m, c), Read(m, c)) <= truth[m][c]
    BY DEF NeverAheadInRound
  <2> QED
    BY <2>1, <1>2 DEF deltaFloat
<1> QED
  BY <1>3, <1>4, <1>5 DEF Good

(* The kernel and the BPF programs change single entries. *)
LEMMA KernelAllGood ==
  ASSUME CInv, TypeOK', Environment
  PROVE  AllGood' /\ RowsResolved' /\ SeriesHaveCgroup'
<1>1. UNCHANGED <<process>>
  BY DEF Environment, CgroupCreated, CgroupRemoved, BpfInsert, BpfAdd
<1>2. UNCHANGED <<resolver, pc, todo, row, prev, series>>
  BY <1>1 DEF process
<1>3. RowsResolved' /\ SeriesHaveCgroup'
  BY <1>2 DEF CInv, RowsResolved, SeriesHaveCgroup, InRound, WasRead, Read, CgroupsOf
<1>4. ASSUME NEW m \in Maps, NEW c \in Cgroups PROVE Good(m, c)'
  <2>1. Good(m, c)
    BY DEF CInv, AllGood
  <2>2. CASE Entry(m, c)' = Entry(m, c) /\ truth'[m][c] = truth[m][c] /\ reset \subseteq reset'
    <3>1. Read(m, c)' = Read(m, c) /\ (WasRead(m, c)' <=> WasRead(m, c))
      BY <1>2 DEF Read, WasRead
    <3> QED
      BY <1>2, <2>1, <2>2, <3>1, GoodKept
  <2>3. CASE \E cg \in Cgroups : CgroupCreated(cg) \/ CgroupRemoved(cg)
    BY <2>2, <2>3 DEF CgroupCreated, CgroupRemoved, Entry
  <2>4. ASSUME NEW mm \in Maps, NEW cg \in Cgroups, BpfInsert(mm, cg) PROVE Good(m, c)'
    <3>1. /\ bpf' = [bpf EXCEPT ![mm] = [bpf[mm] EXCEPT ![cg] = 0]]
          /\ reset' = IF bpf[mm][cg] = None THEN reset ELSE reset \cup {<<mm, cg>>}
          /\ UNCHANGED truth
      BY <2>4 DEF BpfInsert
    <3>2. bpf'[m][c] = IF m = mm /\ c = cg THEN 0 ELSE bpf[m][c]
      BY <3>1 DEF CInv, TypeOK
    <3>3. CASE m = mm /\ c = cg
      <4>1. Entry(m, c)' = 0
        BY <3>2, <3>3 DEF Entry
      <4>2. Entry(m, c) = 0 \/ <<m, c>> \in reset'
        BY <3>1, <3>3 DEF Entry
      <4>3. reset \subseteq reset'
        BY <3>1
      <4> QED
        BY <1>2, <2>1, <3>1, <4>1, <4>2, <4>3, GoodReset DEF CInv
    <3>4. CASE ~ (m = mm /\ c = cg)
      BY <2>2, <3>1, <3>2, <3>4 DEF Entry
    <3> QED
      BY <3>3, <3>4
  <2>5. ASSUME NEW mm \in Maps, NEW cg \in Cgroups, BpfAdd(mm, cg) PROVE Good(m, c)'
    <3>1. /\ bpf[mm][cg] # None
          /\ bpf' = [bpf EXCEPT ![mm] = [bpf[mm] EXCEPT ![cg] = bpf[mm][cg] + 1]]
          /\ truth' = [truth EXCEPT ![mm] = [truth[mm] EXCEPT ![cg] = truth[mm][cg] + 1]]
          /\ UNCHANGED reset
      BY <2>5 DEF BpfAdd
    <3>2. /\ bpf'[m][c] = IF m = mm /\ c = cg THEN bpf[m][c] + 1 ELSE bpf[m][c]
          /\ truth'[m][c] = IF m = mm /\ c = cg THEN truth[m][c] + 1 ELSE truth[m][c]
      BY <3>1 DEF CInv, TypeOK
    <3>3. CASE m = mm /\ c = cg
      <4>1. bpf[m][c] \in Nat /\ bpf'[m][c] \in Nat
        BY <3>1, <3>2, <3>3 DEF CInv, TypeOK
      <4>2. Entry(m, c)' = Entry(m, c) + 1
        BY <3>2, <3>3, <4>1, ConstantsAssumption DEF Entry
      <4> QED
        BY <1>2, <2>1, <3>1, <3>2, <3>3, <4>2, GoodAdd DEF CInv
    <3>4. CASE ~ (m = mm /\ c = cg)
      BY <2>2, <3>1, <3>2, <3>4 DEF Entry
    <3> QED
      BY <3>3, <3>4
  <2> QED
    BY <2>3, <2>4, <2>5 DEF Environment
<1> QED
  BY <1>3, <1>4 DEF AllGood

(* Steps of the loop that change neither map nor metrics, and after which  *)
(* at most the same places were read                                       *)
LEMMA QuietStep ==
  ASSUME CInv, UNCHANGED <<bpf, truth, prev, series, reset>>,
         InRound' =>
           /\ InRound /\ UNCHANGED <<row, resolver>>
           /\ \A m \in Maps, c \in Cgroups : WasRead(m, c)' <=> WasRead(m, c),
         ~ InRound' => \A m \in Maps, c \in Cgroups : ~ WasRead(m, c)'
  PROVE  AllGood' /\ RowsResolved' /\ SeriesHaveCgroup'
<1>1. RowsResolved'
  BY DEF CInv, RowsResolved, Read
<1>2. SeriesHaveCgroup'
  BY DEF CInv, SeriesHaveCgroup, CgroupsOf
<1>3. ASSUME NEW m \in Maps, NEW c \in Cgroups PROVE Good(m, c)'
  <2>1. Good(m, c) /\ Entry(m, c)' = Entry(m, c) /\ truth'[m][c] = truth[m][c]
    BY DEF CInv, AllGood, Entry
  <2>2. WasRead(m, c)' /\ c \in resolver' =>
          WasRead(m, c) /\ c \in resolver /\ Read(m, c)' = Read(m, c)
    BY DEF Read
  <2> QED
    BY <2>1, <2>2, GoodKept
<1> QED
  BY <1>1, <1>2, <1>3 DEF AllGood

(* The round begins: no row, and nothing read yet. *)
LEMMA BeginReadGood ==
  ASSUME CInv, BeginRead
  PROVE  AllGood' /\ RowsResolved' /\ SeriesHaveCgroup'
<1>1. /\ pc' = "block" /\ todo' = Cgroups /\ row' = NoRows
      /\ UNCHANGED <<bpf, truth, prev, series, reset, resolver>>
  BY DEF BeginRead, kernel
<1>2. \A m \in Maps, c \in Cgroups : ~ WasRead(m, c)' /\ Read(m, c)' = 0
  BY <1>1 DEF WasRead, Read, NoRows, OrZero, NoTotals
<1>3. RowsResolved'
  <2>1. ASSUME NEW c \in Cgroups PROVE row'[c] = None
    BY <1>1 DEF NoRows
  <2> QED
    BY <1>2, <2>1 DEF RowsResolved
<1>4. SeriesHaveCgroup'
  BY <1>1 DEF CInv, SeriesHaveCgroup, CgroupsOf
<1>5. ASSUME NEW m \in Maps, NEW c \in Cgroups PROVE Good(m, c)'
  <2>1. Good(m, c) /\ Entry(m, c)' = Entry(m, c) /\ truth'[m][c] = truth[m][c]
    BY <1>1 DEF CInv, AllGood, Entry
  <2> QED
    BY <1>1, <1>2, <2>1, GoodKept
<1> QED
  BY <1>3, <1>4, <1>5 DEF AllGood

(* The iteration comes to an entry: the row takes over what the map holds. *)
LEMMA IterNextGood ==
  ASSUME CInv, TypeOK', NEW mm \in Maps, NEW cg \in Cgroups, IterNext(mm, cg)
  PROVE  AllGood' /\ RowsResolved' /\ SeriesHaveCgroup'
<1>1. /\ pc = mm /\ cg \in todo /\ todo' = todo \ {cg} /\ pc \in {"block", "runq"}
      /\ UNCHANGED <<bpf, truth, prev, series, reset, resolver, pc>>
  BY ConstantsAssumption DEF IterNext, kernel
<1>2. InRound /\ InRound' /\ RowsResolved
  BY <1>1 DEF InRound, CInv
<1>3. ~ WasRead(mm, cg) /\ WasRead(mm, cg)' /\ Read(mm, cg) = 0
  <2>1. ~ WasRead(mm, cg) /\ WasRead(mm, cg)'
    BY <1>1 DEF WasRead
  <2> QED
    BY <1>2, <2>1 DEF RowsResolved
<1>4. ASSUME NEW m \in Maps, NEW c \in Cgroups, ~ (m = mm /\ c = cg)
      PROVE  /\ WasRead(m, c)' <=> WasRead(m, c)
             /\ Read(m, c)' = Read(m, c)
             /\ c # cg => row'[c] = row[c]
  <2>1. WasRead(m, c)' <=> WasRead(m, c)
    BY <1>1, <1>4 DEF WasRead
  <2>2. CASE UNCHANGED row
    BY <2>1, <2>2 DEF Read
  <2>3. CASE bpf[mm][cg] # None /\ row' = Merge(mm, cg)
    <3>1. CASE c # cg
      <4>1. row'[c] = row[c]
        BY <2>3, <3>1, MergeType DEF CInv
      <4> QED
        BY <2>1, <4>1 DEF Read
    <3>2. CASE c = cg
      <4>1. row'[c] \in Totals /\ row'[c][m] = OrZero(row[c])[m]
        BY <1>4, <2>3, <3>2, MergeType DEF CInv
      <4>2. row'[c] # None
        BY <4>1, ConstantsAssumption DEF Totals
      <4> QED
        BY <2>1, <3>2, <4>1, <4>2 DEF Read, OrZero
    <3> QED
      BY <3>1, <3>2
  <2> QED
    BY <2>2, <2>3 DEF IterNext
<1>5. row'[cg] # None => cg \in resolver
  BY <1>2 DEF IterNext, Known, RowsResolved
<1>6. RowsResolved'
  <2>1. ASSUME NEW c \in Cgroups PROVE row'[c] # None => c \in resolver'
    BY <1>1, <1>2, <1>4, <1>5 DEF RowsResolved
  <2>2. ASSUME NEW c \in Cgroups, NEW m \in Maps PROVE ~WasRead(m, c)' => Read(m, c)' = 0
    BY <1>2, <1>3, <1>4 DEF RowsResolved
  <2> QED
    BY <2>1, <2>2 DEF RowsResolved
<1>7. SeriesHaveCgroup'
  BY <1>1 DEF CInv, SeriesHaveCgroup, CgroupsOf
<1>8. ASSUME NEW m \in Maps, NEW c \in Cgroups, ~ (m = mm /\ c = cg) PROVE Good(m, c)'
  <2>1. Good(m, c) /\ Entry(m, c)' = Entry(m, c) /\ truth'[m][c] = truth[m][c]
    BY <1>1 DEF CInv, AllGood, Entry
  <2> QED
    BY <1>1, <1>4, <1>8, <2>1, GoodKept
<1>9. Good(mm, cg)'
  <2>1. /\ Good(mm, cg) /\ Entry(mm, cg)' = Entry(mm, cg) /\ truth'[mm][cg] = truth[mm][cg]
        /\ Seen(mm, cg)' = Seen(mm, cg) /\ Shown(mm, cg)' = Shown(mm, cg)
    BY <1>1 DEF CInv, AllGood, Entry, Seen, Shown
  <2>2. cg \in resolver => Read(mm, cg)' = Entry(mm, cg)
    <3>1. CASE bpf[mm][cg] = None /\ UNCHANGED row
      BY <1>3, <3>1 DEF Read, Entry
    <3>2. CASE bpf[mm][cg] # None /\ row' = Merge(mm, cg)
      <4>1. row'[cg] \in Totals /\ row'[cg][mm] = bpf[mm][cg]
        BY <3>2, MergeType DEF CInv
      <4>2. row'[cg] # None
        BY <4>1, ConstantsAssumption DEF Totals
      <4> QED
        BY <3>2, <4>1, <4>2 DEF Read, Entry, OrZero
    <3>3. CASE ~Known(cg)
      BY <3>3 DEF Known
    <3> QED
      BY <3>1, <3>2, <3>3 DEF IterNext
  <2>3. /\ Entry(mm, cg) \in Nat /\ Read(mm, cg) \in Nat /\ Seen(mm, cg) \in Nat
        /\ Shown(mm, cg) \in Nat /\ truth[mm][cg] \in Nat
    BY Numbers DEF CInv
  <2>4. EntryBehind(mm, cg)' /\ (Single(cg) => NeverAhead(mm, cg)')
    BY <2>1 DEF Good, EntryBehind, NeverAhead
  <2>5. Single(cg) => NeverAheadInRound(mm, cg)'
    <3> SUFFICES ASSUME Single(cg), cg \in resolver
                 PROVE  Shown(mm, cg) + deltaFloat(Entry(mm, cg), Seen(mm, cg))
                          + deltaFloat(Entry(mm, cg), Entry(mm, cg)) <= truth[mm][cg]
      BY <1>1, <2>1, <2>2 DEF NeverAheadInRound
    <3>1. Shown(mm, cg) + deltaFloat(Entry(mm, cg), Seen(mm, cg)) <= truth[mm][cg]
      BY <2>1 DEF Good, NeverAhead
    <3>2. deltaFloat(Entry(mm, cg), Entry(mm, cg)) = 0
      BY <2>3 DEF deltaFloat
    <3>3. deltaFloat(Entry(mm, cg), Seen(mm, cg)) \in Nat
      BY <2>3 DEF deltaFloat
    <3> QED
      BY <2>3, <3>1, <3>2, <3>3
  <2> QED
    BY <2>4, <2>5 DEF Good
<1>10. ASSUME NEW m \in Maps, NEW c \in Cgroups PROVE Good(m, c)'
  BY <1>8, <1>9
<1> QED
  BY <1>6, <1>7, <1>10 DEF AllGood

(* A stale entry is deleted: the map holds nothing for it. *)
LEMMA DeleteStaleGood ==
  ASSUME CInv, TypeOK', NEW mm \in Maps, NEW cg \in Cgroups, DeleteStale(mm, cg)
  PROVE  AllGood' /\ RowsResolved' /\ SeriesHaveCgroup'
<1>1. /\ bpf' = [bpf EXCEPT ![mm] = [bpf[mm] EXCEPT ![cg] = None]]
      /\ reset' = reset \cup {<<mm, cg>>}
      /\ UNCHANGED <<truth, prev, series, row, resolver, pc, todo>>
  BY DEF DeleteStale
<1>2. RowsResolved' /\ SeriesHaveCgroup'
  BY <1>1 DEF CInv, RowsResolved, SeriesHaveCgroup, InRound, WasRead, Read, CgroupsOf
<1>3. ASSUME NEW m \in Maps, NEW c \in Cgroups PROVE Good(m, c)'
  <2>1. Good(m, c) /\ bpf'[m][c] = IF m = mm /\ c = cg THEN None ELSE bpf[m][c]
    BY <1>1 DEF CInv, AllGood, TypeOK
  <2>2. Read(m, c)' = Read(m, c) /\ (WasRead(m, c)' <=> WasRead(m, c))
    BY <1>1 DEF Read, WasRead
  <2>3. CASE m = mm /\ c = cg
    <3>1. Entry(m, c)' = 0 /\ <<m, c>> \in reset'
      BY <1>1, <2>1, <2>3 DEF Entry
    <3> QED
      BY <1>1, <2>1, <3>1, GoodReset DEF CInv
  <2>4. CASE ~ (m = mm /\ c = cg)
    <3>1. Entry(m, c)' = Entry(m, c)
      BY <2>1, <2>4 DEF Entry
    <3> QED
      BY <1>1, <2>1, <2>2, <3>1, GoodKept
  <2> QED
    BY <2>3, <2>4
<1> QED
  BY <1>2, <1>3 DEF AllGood

(* Update: the row becomes the previous total, and the counter gains what  *)
(* it grew.                                                                *)
LEMMA UpdateGood ==
  ASSUME CInv, TypeOK', Update
  PROVE  AllGood' /\ RowsResolved' /\ SeriesHaveCgroup'
<1>1. /\ pc = "update" /\ pc' = "end"
      /\ UNCHANGED <<bpf, truth, row, resolver, reset>>
      /\ prev' = [k \in Keys |-> IF RowsOf(k) = {} THEN None ELSE Current(k)]
      /\ series' = [k \in Keys |->
           IF RowsOf(k) = {} THEN (IF prev[k] = None THEN series[k] ELSE None)
           ELSE [m \in Maps |-> OrZero(series[k])[m]
                                + deltaFloat(Current(k)[m], Before(k)[m])]]
  BY DEF Update, kernel
<1>2. RowsResolved' /\ \A m \in Maps, c \in Cgroups : ~ WasRead(m, c)'
  BY <1>1, ConstantsAssumption DEF RowsResolved, InRound, WasRead
<1>3. SeriesHaveCgroup'
  <2>1. ASSUME NEW k \in Keys, series'[k] # None PROVE CgroupsOf(k) # {}
    <3>1. RowsOf(k) # {}
      BY <1>1, <2>1 DEF CInv, TypeOK
    <3> QED
      BY <3>1 DEF RowsOf, CgroupsOf
  <2> QED
    BY <2>1 DEF SeriesHaveCgroup, CgroupsOf
<1>4. ASSUME NEW m \in Maps, NEW c \in Cgroups PROVE Good(m, c)'
  <2>1. /\ Good(m, c) /\ Entry(m, c)' = Entry(m, c) /\ truth'[m][c] = truth[m][c]
    BY <1>1 DEF CInv, AllGood, Entry
  <2>2. /\ Entry(m, c) \in Nat /\ Read(m, c) \in Nat /\ Seen(m, c) \in Nat
        /\ Shown(m, c) \in Nat /\ truth[m][c] \in Nat /\ KeyOf[c] \in Keys
    BY Numbers DEF CInv
  <2> SUFFICES ASSUME Single(c)
               PROVE  NeverAhead(m, c)' /\ NeverAheadInRound(m, c)'
    BY <2>1 DEF Good, EntryBehind
  <2>3. NeverAheadInRound(m, c)'
    BY <1>2 DEF NeverAheadInRound
  <2>4. CASE row[c] = None
    <3>1. RowsOf(KeyOf[c]) = {}
      BY <2>4 DEF RowsOf, Single
    <3>2. prev'[KeyOf[c]] = None /\ series'[KeyOf[c]] = None
      BY <1>1, <2>2, <3>1 DEF CInv, TypeOK
    <3>3. Seen(m, c)' = 0 /\ Shown(m, c)' = 0
      BY <3>2 DEF Seen, Shown, OrZero, NoTotals
    <3>4. NeverAhead(m, c)'
      BY <2>1, <2>2, <3>3 DEF NeverAhead, Good, EntryBehind, deltaFloat
    <3> QED
      BY <2>3, <3>4
  <2>5. CASE row[c] # None
    <3>1. c \in resolver /\ WasRead(m, c)
      BY <1>1, <2>5 DEF CInv, RowsResolved, InRound, WasRead
    <3>2. RowsOf(KeyOf[c]) # {}
      BY <2>5 DEF RowsOf
    <3>3. Current(KeyOf[c])[m] = Read(m, c) /\ Current(KeyOf[c]) \in Totals
      BY CurrentOfOne, CurrentType DEF CInv
    <3>4. Before(KeyOf[c])[m] = Seen(m, c) /\ OrZero(series[KeyOf[c]])[m] = Shown(m, c)
      BY DEF Before, Seen, Shown
    <3>5. prev'[KeyOf[c]] = Current(KeyOf[c])
      BY <1>1, <2>2, <3>2
    <3>6. series'[KeyOf[c]] = [mm \in Maps |-> OrZero(series[KeyOf[c]])[mm]
                                + deltaFloat(Current(KeyOf[c])[mm], Before(KeyOf[c])[mm])]
      BY <1>1, <2>2, <3>2
    <3>7. prev'[KeyOf[c]] # None /\ series'[KeyOf[c]] # None
      BY <2>2, <3>3, <3>5, ConstantsAssumption DEF TypeOK, Totals
    <3>8. Seen(m, c)' = Read(m, c)
      BY <3>3, <3>5, <3>7 DEF Seen, OrZero
    <3>9. Shown(m, c)' = Shown(m, c) + deltaFloat(Read(m, c), Seen(m, c))
      BY <3>3, <3>4, <3>6, <3>7 DEF Shown, OrZero
    <3>10. NeverAhead(m, c)'
      BY <2>1, <3>1, <3>8, <3>9 DEF Good, NeverAhead, NeverAheadInRound
    <3> QED
      BY <2>3, <3>10
  <2> QED
    BY <2>4, <2>5
<1> QED
  BY <1>2, <1>3, <1>4 DEF AllGood

(* The other steps of the loop, and a restart, which only loses rows and   *)
(* the counters with their previous totals *)
LEMMA LoopAllGood ==
  ASSUME CInv, TypeOK', Loop \/ Restart
  PROVE  AllGood' /\ RowsResolved' /\ SeriesHaveCgroup'
<1> DEFINE Goal == AllGood' /\ RowsResolved' /\ SeriesHaveCgroup'
<1>1. CASE BeginWalk
  <2>1. pc' = "walk" /\ UNCHANGED <<bpf, truth, prev, series, reset>>
    BY <1>1 DEF BeginWalk, kernel
  <2>2. ~ InRound' /\ \A m \in Maps, c \in Cgroups : ~ WasRead(m, c)'
    BY <2>1, ConstantsAssumption DEF InRound, WasRead
  <2> QED
    BY <2>1, <2>2, QuietStep
<1>2. ASSUME NEW cg \in Cgroups, WalkDir(cg) PROVE Goal
  <2>1. pc' = "walk" /\ UNCHANGED <<bpf, truth, prev, series, reset>>
    BY <1>2 DEF WalkDir, kernel
  <2>2. ~ InRound' /\ \A m \in Maps, c \in Cgroups : ~ WasRead(m, c)'
    BY <2>1, ConstantsAssumption DEF InRound, WasRead
  <2> QED
    BY <2>1, <2>2, QuietStep
<1>3. CASE BeginRead
  BY <1>3, BeginReadGood
<1>4. ASSUME NEW m \in Maps, NEW cg \in Cgroups, IterNext(m, cg) PROVE Goal
  BY <1>4, IterNextGood
<1>5. CASE (\E m \in Maps : IterErr(m)) \/ EndRound
  <2>1. pc' \in {"end", "build"} /\ UNCHANGED <<bpf, truth, prev, series, reset>>
    BY <1>5 DEF IterErr, EndRound, kernel
  <2>2. ~ InRound' /\ \A m \in Maps, c \in Cgroups : ~ WasRead(m, c)'
    BY <2>1, ConstantsAssumption DEF InRound, WasRead
  <2> QED
    BY <2>1, <2>2, QuietStep
<1>6. ASSUME NEW mm \in Maps, IterDone(mm) PROVE Goal
  <2>1. /\ pc = mm /\ todo = {}
        /\ \/ mm = "block" /\ pc' = "deleteBlock"
           \/ mm = "runq" /\ pc' = "deleteRunq"
        /\ UNCHANGED <<bpf, truth, prev, series, reset, row, resolver>>
    BY <1>6, ConstantsAssumption DEF IterDone, Deleting, kernel
  <2>2. InRound /\ InRound'
    BY <2>1 DEF InRound
  <2>3. \A m \in Maps, c \in Cgroups : WasRead(m, c)' <=> WasRead(m, c)
    BY <2>1, ConstantsAssumption DEF WasRead
  <2> QED
    BY <2>1, <2>2, <2>3, QuietStep
<1>7. ASSUME NEW m \in Maps, NEW cg \in Cgroups, DeleteStale(m, cg) PROVE Goal
  BY <1>7, DeleteStaleGood
<1>8. ASSUME NEW mm \in Maps, DeleteDone(mm) PROVE Goal
  <2>1. /\ \/ mm = "block" /\ pc = "deleteBlock"
           \/ mm = "runq" /\ pc = "deleteRunq"
        /\ \/ mm = "block" /\ "runq" \in Maps /\ pc' = "runq" /\ todo' = Cgroups
           \/ ~(mm = "block" /\ "runq" \in Maps) /\ pc' = "update" /\ todo' = todo
        /\ UNCHANGED <<bpf, truth, prev, series, reset, row, resolver>>
    BY <1>8, ConstantsAssumption DEF DeleteDone, Deleting, kernel
  <2>2. InRound /\ InRound'
    BY <2>1 DEF InRound
  <2>3. \A m \in Maps, c \in Cgroups : WasRead(m, c)' <=> WasRead(m, c)
    BY <2>1, ConstantsAssumption DEF WasRead
  <2> QED
    BY <2>1, <2>2, <2>3, QuietStep
<1>9. CASE Update
  BY <1>9, UpdateGood
<1>10. CASE Restart
  <2>1. /\ pc' = "build" /\ series' = NoSeries /\ prev' = NoSeries
        /\ UNCHANGED <<bpf, truth, reset>>
    BY <1>10 DEF Restart, kernel
  <2>2. ~ InRound' /\ \A m \in Maps, c \in Cgroups : ~ WasRead(m, c)'
    BY <2>1, ConstantsAssumption DEF InRound, WasRead
  <2>3. SeriesHaveCgroup'
    BY <2>1 DEF SeriesHaveCgroup, NoSeries
  <2>4. ASSUME NEW m \in Maps, NEW c \in Cgroups PROVE Good(m, c)'
    <3>1. EntryBehind(m, c) /\ Entry(m, c)' = Entry(m, c) /\ truth'[m][c] = truth[m][c]
      BY <2>1 DEF CInv, AllGood, Good, Entry
    <3>2. Entry(m, c) \in Nat /\ truth[m][c] \in Nat /\ KeyOf[c] \in Keys
      BY Numbers DEF CInv
    <3>3. Seen(m, c)' = 0 /\ Shown(m, c)' = 0
      BY <2>1, <3>2 DEF Seen, Shown, NoSeries, OrZero, NoTotals
    <3> QED
      BY <2>2, <3>1, <3>2, <3>3
         DEF Good, EntryBehind, NeverAhead, NeverAheadInRound, deltaFloat
  <2> QED
    BY <2>2, <2>3, <2>4 DEF AllGood, RowsResolved
<1> QED
  BY <1>1, <1>2, <1>3, <1>4, <1>5, <1>6, <1>7, <1>8, <1>9, <1>10 DEF Loop

LEMMA NextCInv == CInv /\ [Next]_vars => CInv'
<1> SUFFICES ASSUME CInv, [Next]_vars PROVE CInv'
  OBVIOUS
<1>1. TypeOK'
  BY NextTypeOK DEF CInv
<1>2. CASE UNCHANGED vars
  <2>1. /\ UNCHANGED <<bpf, truth, prev, series, reset, row, resolver, pc, todo>>
    BY <1>2 DEF vars, kernel, process
  <2>2. (InRound' <=> InRound) /\ \A m \in Maps, c \in Cgroups : WasRead(m, c)' <=> WasRead(m, c)
    BY <2>1 DEF InRound, WasRead
  <2>3. ~ InRound => \A m \in Maps, c \in Cgroups : ~ WasRead(m, c)
    BY ConstantsAssumption DEF InRound, WasRead
  <2>4. AllGood' /\ RowsResolved' /\ SeriesHaveCgroup'
    BY <2>1, <2>2, <2>3, QuietStep
  <2> QED
    BY <1>1, <2>4 DEF CInv
<1> QED
  BY <1>1, <1>2, KernelAllGood, LoopAllGood DEF Next, CInv

LEMMA InitCInv == Init => CInv
<1> SUFFICES ASSUME Init PROVE CInv
  OBVIOUS
<1>1. TypeOK
  BY InitTypeOK
<1>2. RowsResolved /\ SeriesHaveCgroup
  BY DEF Init, RowsResolved, InRound, SeriesHaveCgroup, NoSeries
<1>3. ASSUME NEW m \in Maps, NEW c \in Cgroups PROVE Good(m, c)
  <2>1. Entry(m, c) = 0 /\ truth[m][c] = 0
    BY DEF Init, Entry
  <2>2. KeyOf[c] \in Keys
    BY ConstantsAssumption
  <2>3. Seen(m, c) = 0 /\ Shown(m, c) = 0
    BY <2>2 DEF Init, Seen, Shown, NoSeries, OrZero, NoTotals
  <2>4. ~ WasRead(m, c)
    BY ConstantsAssumption DEF Init, WasRead
  <2> QED
    BY <2>1, <2>3, <2>4
       DEF Good, EntryBehind, NeverAhead, NeverAheadInRound, deltaFloat
<1> QED
  BY <1>1, <1>2, <1>3 DEF CInv, AllGood

----------------------------------------------------------------------------
(* Pods of any number of cgroups whose entries were neither deleted nor    *)
(* reset.  What Update will be given for cgroup c at m, as far as the      *)
(* round has come: the row, or still the map.  An entry about to be        *)
(* deleted counts as the map has it until it is.                           *)
AsRead(m, c) ==
  IF WasRead(m, c) /\ ~ (c \in stale /\ pc \in {m, Deleting[m]})
    THEN Read(m, c) ELSE Entry(m, c)

EntriesOf(k, m) == [cg \in CgroupsOf(k) |-> Entry(m, cg)]
AsReadOf(k, m) == [cg \in CgroupsOf(k) |-> AsRead(m, cg)]
SeenOf(k, m) == OrZero(prev[k])[m]
ShownOf(k, m) == OrZero(series[k])[m]

(* The counter is the previous total, and neither the map nor the rows of  *)
(* this round have gone below it.                                          *)
Adds(k, m) ==
  /\ ShownOf(k, m) = SeenOf(k, m)
  /\ SeenOf(k, m) <= SumOver(EntriesOf(k, m), CgroupsOf(k))
  /\ InRound => SeenOf(k, m) <= SumOver(AsReadOf(k, m), CgroupsOf(k))
  /\ \A c \in CgroupsOf(k) : WasRead(m, c) => Read(m, c) <= Entry(m, c)

AllAdd == \A k \in Keys, m \in Maps : Undisturbed(k, m) => Adds(k, m)

LEMMA PodNumbers ==
  ASSUME TypeOK, NEW k \in Keys, NEW m \in Maps
  PROVE  /\ SeenOf(k, m) \in Nat /\ ShownOf(k, m) \in Nat
         /\ \A c \in CgroupsOf(k) :
              Entry(m, c) \in Nat /\ Read(m, c) \in Nat /\ AsRead(m, c) \in Nat
         /\ SumOver(EntriesOf(k, m), CgroupsOf(k)) \in Nat
         /\ SumOver(AsReadOf(k, m), CgroupsOf(k)) \in Nat
<1>1. \A t \in Totals \cup {None} : OrZero(t)[m] \in Nat
  BY DEF OrZero, NoTotals, Totals
<1>2. SeenOf(k, m) \in Nat /\ ShownOf(k, m) \in Nat
  BY <1>1 DEF SeenOf, ShownOf, TypeOK
<1>3. \A c \in CgroupsOf(k) :
        Entry(m, c) \in Nat /\ Read(m, c) \in Nat /\ AsRead(m, c) \in Nat
  BY Numbers DEF AsRead, CgroupsOf
<1>4. /\ \A c \in CgroupsOf(k) : EntriesOf(k, m)[c] \in Nat
      /\ \A c \in CgroupsOf(k) : AsReadOf(k, m)[c] \in Nat
  BY <1>3 DEF EntriesOf, AsReadOf
<1>5. IsFiniteSet(CgroupsOf(k))
  BY PodsFinite
<1> QED
  BY <1>2, <1>3, <1>4, <1>5, SumOverType

(* Steps that leave the metrics alone and lower nothing of the pod *)
LEMMA AddsKept ==
  ASSUME TypeOK, TypeOK', NEW k \in Keys, NEW m \in Maps, Adds(k, m),
         UNCHANGED <<prev, series>>,
         \A c \in CgroupsOf(k) :
           /\ Entry(m, c) <= Entry(m, c)'
           /\ WasRead(m, c)' => Read(m, c)' <= Entry(m, c)',
         InRound' =>
           \/ InRound /\ \A c \in CgroupsOf(k) : AsRead(m, c) <= AsRead(m, c)'
           \/ \A c \in CgroupsOf(k) : Entry(m, c) <= AsRead(m, c)'
  PROVE  Adds(k, m)'
<1> DEFINE map == [cg \in CgroupsOf(k) |-> Entry(m, cg)']
           rows == [cg \in CgroupsOf(k) |-> AsRead(m, cg)']
<1>1. IsFiniteSet(CgroupsOf(k))
  BY PodsFinite
<1>2. /\ SumOver(EntriesOf(k, m), CgroupsOf(k))' = SumOver(map, CgroupsOf(k))
      /\ SumOver(AsReadOf(k, m), CgroupsOf(k))' = SumOver(rows, CgroupsOf(k))
      /\ SeenOf(k, m)' = SeenOf(k, m) /\ ShownOf(k, m)' = ShownOf(k, m)
      /\ CgroupsOf(k)' = CgroupsOf(k)
  BY DEF EntriesOf, AsReadOf, CgroupsOf, SeenOf, ShownOf
<1>3. ASSUME NEW c \in CgroupsOf(k)
      PROVE  /\ EntriesOf(k, m)[c] = Entry(m, c) /\ AsReadOf(k, m)[c] = AsRead(m, c)
             /\ map[c] = Entry(m, c)' /\ rows[c] = AsRead(m, c)'
  BY DEF EntriesOf, AsReadOf
<1>4. ASSUME NEW c \in CgroupsOf(k)
      PROVE  Entry(m, c)' \in Nat /\ AsRead(m, c)' \in Nat
  <2>1. c \in Cgroups
    BY DEF CgroupsOf
  <2>2. Entry(m, c)' \in Nat
    BY <2>1 DEF TypeOK, Entry
  <2>3. OrZero(row'[c]) \in Totals
    BY <2>1 DEF TypeOK, OrZero, NoTotals, Totals
  <2>4. Read(m, c)' \in Nat
    BY <2>3 DEF Read, OrZero, Totals
  <2> QED
    BY <2>2, <2>4 DEF AsRead
<1>5. /\ \A c \in CgroupsOf(k) : Entry(m, c) \in Nat /\ AsRead(m, c) \in Nat
      /\ SeenOf(k, m) \in Nat
      /\ SumOver(EntriesOf(k, m), CgroupsOf(k)) \in Nat
      /\ SumOver(AsReadOf(k, m), CgroupsOf(k)) \in Nat
  BY PodNumbers
<1>6. /\ ShownOf(k, m) = SeenOf(k, m)
      /\ SeenOf(k, m) <= SumOver(EntriesOf(k, m), CgroupsOf(k))
      /\ InRound => SeenOf(k, m) <= SumOver(AsReadOf(k, m), CgroupsOf(k))
  BY DEF Adds
<1> HIDE DEF map, rows
<1>7. SumOver(map, CgroupsOf(k)) \in Nat /\ SumOver(rows, CgroupsOf(k)) \in Nat
  <2>1. (\A c \in CgroupsOf(k) : map[c] \in Nat) /\ (\A c \in CgroupsOf(k) : rows[c] \in Nat)
    BY <1>3, <1>4
  <2> QED
    BY <1>1, <2>1, SumOverType
<1>8. SumOver(EntriesOf(k, m), CgroupsOf(k)) <= SumOver(map, CgroupsOf(k))
  <2>1. \A c \in CgroupsOf(k) : /\ EntriesOf(k, m)[c] \in Nat /\ map[c] \in Nat
                                /\ EntriesOf(k, m)[c] <= map[c]
    BY <1>3, <1>4, <1>5
  <2> QED
    BY <1>1, <2>1, SumOverGrows
<1>9. InRound' => SeenOf(k, m) <= SumOver(rows, CgroupsOf(k))
  <2>1. CASE InRound /\ \A c \in CgroupsOf(k) : AsRead(m, c) <= AsRead(m, c)'
    <3>1. \A c \in CgroupsOf(k) : /\ AsReadOf(k, m)[c] \in Nat /\ rows[c] \in Nat
                                  /\ AsReadOf(k, m)[c] <= rows[c]
      BY <1>3, <1>4, <1>5, <2>1
    <3>2. SumOver(AsReadOf(k, m), CgroupsOf(k)) <= SumOver(rows, CgroupsOf(k))
      BY <1>1, <3>1, SumOverGrows
    <3> QED
      BY <1>5, <1>6, <1>7, <2>1, <3>2
  <2>2. CASE \A c \in CgroupsOf(k) : Entry(m, c) <= AsRead(m, c)'
    <3>1. \A c \in CgroupsOf(k) : /\ EntriesOf(k, m)[c] \in Nat /\ rows[c] \in Nat
                                  /\ EntriesOf(k, m)[c] <= rows[c]
      BY <1>3, <1>4, <1>5, <2>2
    <3>2. SumOver(EntriesOf(k, m), CgroupsOf(k)) <= SumOver(rows, CgroupsOf(k))
      BY <1>1, <3>1, SumOverGrows
    <3> QED
      BY <1>5, <1>6, <1>7, <3>2
  <2> QED
    BY <2>1, <2>2
<1>10. SeenOf(k, m) <= SumOver(map, CgroupsOf(k))
  BY <1>5, <1>6, <1>7, <1>8
<1> QED
  BY <1>2, <1>6, <1>9, <1>10 DEF Adds

(* History only grows: what is undisturbed now was so before. *)
LEMMA ResetGrows ==
  ASSUME Next
  PROVE  /\ reset \subseteq reset'
         /\ \A k, m : Undisturbed(k, m)' => Undisturbed(k, m)
<1>1. reset \subseteq reset'
  BY DEF Next, Loop, Environment, Restart, BeginWalk, WalkDir, BeginRead, IterNext,
         IterErr, IterDone, DeleteStale, DeleteDone, Update, EndRound,
         CgroupCreated, CgroupRemoved, BpfInsert, BpfAdd, kernel
<1> QED
  BY <1>1 DEF Undisturbed, CgroupsOf

(* The kernel and the BPF programs only raise an entry they do not reset.  *)
LEMMA KernelAdds ==
  ASSUME CInv, AllAdd, TypeOK', Environment
  PROVE  AllAdd'
<1> SUFFICES ASSUME NEW k \in Keys, NEW m \in Maps, Undisturbed(k, m)'
             PROVE  Adds(k, m)'
  BY DEF AllAdd
<1>1. UNCHANGED <<resolver, pc, todo, row, stale, prev, series>>
  BY DEF Environment, CgroupCreated, CgroupRemoved, BpfInsert, BpfAdd, process
<1>2. Adds(k, m)
  BY ResetGrows DEF AllAdd, Next
<1>3. ASSUME NEW c \in CgroupsOf(k)
      PROVE  Entry(m, c) <= Entry(m, c)' /\ Entry(m, c) \in Nat /\ Entry(m, c)' \in Nat
  <2>1. c \in Cgroups /\ <<m, c>> \notin reset'
    BY DEF CgroupsOf, Undisturbed
  <2>2. Entry(m, c) \in Nat /\ Entry(m, c)' \in Nat
    BY <2>1 DEF CInv, TypeOK, Entry
  <2>3. CASE UNCHANGED bpf
    BY <2>2, <2>3 DEF Entry
  <2>4. ASSUME NEW mm \in Maps, NEW cg \in Cgroups, BpfInsert(mm, cg)
        PROVE  Entry(m, c) <= Entry(m, c)'
    <3>1. /\ bpf' = [bpf EXCEPT ![mm] = [bpf[mm] EXCEPT ![cg] = 0]]
          /\ reset' = IF bpf[mm][cg] = None THEN reset ELSE reset \cup {<<mm, cg>>}
      BY <2>4 DEF BpfInsert
    <3>2. bpf'[m][c] = IF m = mm /\ c = cg THEN 0 ELSE bpf[m][c]
      BY <2>1, <3>1 DEF CInv, TypeOK
    <3> QED
      BY <2>1, <2>2, <3>1, <3>2 DEF Entry
  <2>5. ASSUME NEW mm \in Maps, NEW cg \in Cgroups, BpfAdd(mm, cg)
        PROVE  Entry(m, c) <= Entry(m, c)'
    <3>1. /\ bpf[mm][cg] # None
          /\ bpf' = [bpf EXCEPT ![mm] = [bpf[mm] EXCEPT ![cg] = bpf[mm][cg] + 1]]
      BY <2>5 DEF BpfAdd
    <3>2. bpf'[m][c] = IF m = mm /\ c = cg THEN bpf[m][c] + 1 ELSE bpf[m][c]
      BY <2>1, <3>1 DEF CInv, TypeOK
    <3>3. CASE m = mm /\ c = cg
      <4>1. bpf[m][c] \in Nat /\ bpf'[m][c] \in Nat
        BY <2>1, <3>1, <3>2, <3>3 DEF CInv, TypeOK
      <4> QED
        BY <3>2, <3>3, <4>1, ConstantsAssumption DEF Entry
    <3>4. CASE ~ (m = mm /\ c = cg)
      BY <2>2, <3>2, <3>4 DEF Entry
    <3> QED
      BY <3>3, <3>4
  <2>6. UNCHANGED bpf \/ \E mm \in Maps, cg \in Cgroups : BpfInsert(mm, cg) \/ BpfAdd(mm, cg)
    BY DEF Environment, CgroupCreated, CgroupRemoved
  <2> QED
    BY <2>2, <2>3, <2>4, <2>5, <2>6
<1>4. ASSUME NEW c \in CgroupsOf(k)
      PROVE  /\ WasRead(m, c)' <=> WasRead(m, c)
             /\ Read(m, c)' = Read(m, c) /\ Read(m, c) \in Nat
             /\ AsRead(m, c) <= AsRead(m, c)'
  <2>1. (WasRead(m, c)' <=> WasRead(m, c)) /\ Read(m, c)' = Read(m, c)
    BY <1>1 DEF WasRead, Read
  <2>2. Read(m, c) \in Nat
    BY PodNumbers DEF CInv
  <2> QED
    BY <1>1, <1>3, <2>1, <2>2 DEF AsRead
<1>5. InRound' <=> InRound
  BY <1>1 DEF InRound
<1>6. \A c \in CgroupsOf(k) : WasRead(m, c)' => Read(m, c)' <= Entry(m, c)'
  BY <1>2, <1>3, <1>4 DEF Adds
<1> QED
  BY <1>1, <1>2, <1>3, <1>4, <1>5, <1>6, AddsKept DEF CInv

(* Steps of the loop after which the round has read the same *)
LEMMA QuietAdds ==
  ASSUME CInv, TypeOK', NEW k \in Keys, NEW m \in Maps, Adds(k, m),
         UNCHANGED <<bpf, prev, series>>,
         InRound' => InRound /\ UNCHANGED row,
         \A c \in CgroupsOf(k) :
           InRound' => /\ WasRead(m, c)' <=> WasRead(m, c)
                       /\ (c \in stale' /\ pc' \in {m, Deleting[m]})
                            <=> (c \in stale /\ pc \in {m, Deleting[m]}),
         \A c \in CgroupsOf(k) : ~ InRound' => ~ WasRead(m, c)'
  PROVE  Adds(k, m)'
<1>1. ASSUME NEW c \in CgroupsOf(k)
      PROVE  /\ Entry(m, c)' = Entry(m, c) /\ Entry(m, c) \in Nat /\ AsRead(m, c) \in Nat
             /\ WasRead(m, c)' => Read(m, c)' <= Entry(m, c)'
             /\ InRound' => AsRead(m, c)' = AsRead(m, c)
  <2>1. Entry(m, c)' = Entry(m, c) /\ Entry(m, c) \in Nat /\ AsRead(m, c) \in Nat
    BY PodNumbers DEF CInv, Entry
  <2>2. InRound' => Read(m, c)' = Read(m, c)
    BY DEF Read
  <2>3. InRound' => AsRead(m, c)' = AsRead(m, c)
    BY <2>1, <2>2 DEF AsRead
  <2>4. WasRead(m, c)' => Read(m, c)' <= Entry(m, c)'
    BY <2>1, <2>2 DEF Adds
  <2> QED
    BY <2>1, <2>3, <2>4
<1>2. \A c \in CgroupsOf(k) :
        /\ Entry(m, c) <= Entry(m, c)'
        /\ WasRead(m, c)' => Read(m, c)' <= Entry(m, c)'
  BY <1>1
<1>3. InRound' => InRound /\ \A c \in CgroupsOf(k) : AsRead(m, c) <= AsRead(m, c)'
  BY <1>1
<1> QED
  BY <1>2, <1>3, AddsKept DEF CInv

(* An entry that is read goes into the row, or waits to be deleted.        *)
LEMMA IterNextAdds ==
  ASSUME CInv, TypeOK', NEW mm \in Maps, NEW cg \in Cgroups, IterNext(mm, cg),
         NEW k \in Keys, NEW m \in Maps, Adds(k, m)
  PROVE  Adds(k, m)'
<1>1. /\ pc = mm /\ cg \in todo /\ todo' = todo \ {cg} /\ pc \in {"block", "runq"}
      /\ UNCHANGED <<bpf, prev, series, resolver, pc>>
  BY ConstantsAssumption DEF IterNext, kernel
<1>2. InRound /\ InRound' /\ RowsResolved /\ TypeOK
  BY <1>1 DEF InRound, CInv
<1>3. ASSUME NEW c \in CgroupsOf(k)
      PROVE  /\ Entry(m, c)' = Entry(m, c) /\ Entry(m, c) \in Nat
             /\ WasRead(m, c)' => Read(m, c)' <= Entry(m, c)'
             /\ AsRead(m, c)' = AsRead(m, c) /\ AsRead(m, c) \in Nat
  <2>1. /\ Entry(m, c)' = Entry(m, c) /\ Entry(m, c) \in Nat /\ AsRead(m, c) \in Nat
        /\ Read(m, c) \in Nat /\ c \in Cgroups
    BY <1>1, PodNumbers DEF CInv, Entry, CgroupsOf
  <2>2. CASE m = mm /\ c = cg
    <3>1. ~ WasRead(m, c) /\ WasRead(m, c)'
      BY <1>1, <2>2 DEF WasRead
    <3>2. Read(m, c) = 0 /\ AsRead(m, c) = Entry(m, c)
      BY <1>2, <2>1, <3>1 DEF RowsResolved, AsRead
    <3>3. CASE bpf[m][c] = None /\ UNCHANGED row
      <4>1. Entry(m, c) = 0 /\ Read(m, c)' = 0
        BY <3>2, <3>3 DEF Entry, Read
      <4> QED
        BY <2>1, <3>1, <3>2, <4>1 DEF AsRead
    <3>4. CASE bpf[m][c] # None /\ row' = Merge(m, c)
      <4>1. row'[c] \in Totals /\ row'[c][m] = bpf[m][c]
        BY <1>2, <2>1, <3>4, MergeType
      <4>2. row'[c] # None
        BY <4>1, ConstantsAssumption DEF Totals
      <4>3. Read(m, c)' = Entry(m, c)
        BY <3>4, <4>1, <4>2 DEF Read, Entry, OrZero
      <4> QED
        BY <2>1, <3>1, <3>2, <4>3 DEF AsRead
    <3>5. CASE UNCHANGED row /\ stale' = stale \cup {cg}
      <4>1. Read(m, c)' = 0
        BY <3>2, <3>5 DEF Read
      <4>2. c \in stale' /\ pc' = m
        BY <1>1, <2>2, <3>5
      <4>3. AsRead(m, c)' = Entry(m, c)'
        BY <4>2 DEF AsRead
      <4> QED
        BY <2>1, <3>2, <4>1, <4>3
    <3> QED
      BY <2>2, <3>3, <3>4, <3>5 DEF IterNext
  <2>3. CASE ~ (m = mm /\ c = cg)
    <3>1. WasRead(m, c)' <=> WasRead(m, c)
      BY <1>1, <2>3 DEF WasRead
    <3>2. (c \in stale' /\ pc' \in {m, Deleting[m]}) <=> (c \in stale /\ pc \in {m, Deleting[m]})
      <4>1. CASE c # cg
        BY <1>1, <4>1 DEF IterNext
      <4>2. CASE m # mm
        <5>1. pc \notin {m, Deleting[m]} /\ pc' = pc
          BY <1>1, <4>2, ConstantsAssumption DEF Deleting
        <5> QED
          BY <5>1
      <4> QED
        BY <2>3, <4>1, <4>2
    <3>3. Read(m, c)' = Read(m, c)
      <4>1. CASE UNCHANGED row
        BY <4>1 DEF Read
      <4>2. CASE bpf[mm][cg] # None /\ row' = Merge(mm, cg)
        <5>1. CASE c # cg
          <6>1. row'[c] = row[c]
            BY <1>2, <2>1, <4>2, <5>1, MergeType
          <6> QED
            BY <6>1 DEF Read
        <5>2. CASE c = cg
          <6>1. row'[c] \in Totals /\ row'[c][m] = OrZero(row[c])[m]
            BY <1>2, <2>3, <4>2, <5>2, MergeType
          <6>2. row'[c] # None
            BY <6>1, ConstantsAssumption DEF Totals
          <6> QED
            BY <6>1, <6>2 DEF Read, OrZero
        <5> QED
          BY <5>1, <5>2
      <4> QED
        BY <4>1, <4>2 DEF IterNext
    <3>4. AsRead(m, c)' = AsRead(m, c)
      BY <2>1, <3>1, <3>2, <3>3 DEF AsRead
    <3>5. WasRead(m, c)' => Read(m, c)' <= Entry(m, c)'
      BY <2>1, <3>1, <3>3 DEF Adds
    <3> QED
      BY <2>1, <3>4, <3>5
  <2> QED
    BY <2>2, <2>3
<1>4. \A c \in CgroupsOf(k) :
        /\ Entry(m, c) <= Entry(m, c)'
        /\ WasRead(m, c)' => Read(m, c)' <= Entry(m, c)'
  BY <1>3
<1>5. \A c \in CgroupsOf(k) : AsRead(m, c) <= AsRead(m, c)'
  BY <1>3
<1> QED
  BY <1>1, <1>2, <1>4, <1>5, AddsKept

(* A deletion disturbs the pod of its entry, and no other. *)
LEMMA DeleteStaleAdds ==
  ASSUME CInv, TypeOK', NEW mm \in Maps, NEW cg \in Cgroups, DeleteStale(mm, cg),
         NEW k \in Keys, NEW m \in Maps, Adds(k, m), Undisturbed(k, m)'
  PROVE  Adds(k, m)'
<1>1. /\ pc = Deleting[mm] /\ pc' = pc /\ stale' = stale \ {cg}
      /\ bpf' = [bpf EXCEPT ![mm] = [bpf[mm] EXCEPT ![cg] = None]]
      /\ reset' = reset \cup {<<mm, cg>>}
      /\ UNCHANGED <<prev, series, row, todo>>
  BY DEF DeleteStale
<1>2. (InRound' <=> InRound) /\ pc \in {"deleteBlock", "deleteRunq"}
  BY <1>1, ConstantsAssumption DEF InRound, Deleting
<1>3. ASSUME NEW c \in CgroupsOf(k)
      PROVE  /\ Entry(m, c)' = Entry(m, c) /\ Entry(m, c) \in Nat
             /\ WasRead(m, c)' => Read(m, c)' <= Entry(m, c)'
             /\ AsRead(m, c)' = AsRead(m, c) /\ AsRead(m, c) \in Nat
  <2>1. Entry(m, c) \in Nat /\ AsRead(m, c) \in Nat /\ c \in Cgroups
    BY PodNumbers DEF CInv, CgroupsOf
  <2>2. ~ (m = mm /\ c = cg)
    BY <1>1 DEF Undisturbed, CgroupsOf
  <2>3. bpf'[m][c] = bpf[m][c]
    BY <1>1, <2>1, <2>2 DEF CInv, TypeOK
  <2>4. Entry(m, c)' = Entry(m, c)
    BY <2>3 DEF Entry
  <2>5. (WasRead(m, c)' <=> WasRead(m, c)) /\ Read(m, c)' = Read(m, c)
    BY <1>1 DEF WasRead, Read
  <2>6. (c \in stale' /\ pc' \in {m, Deleting[m]}) <=> (c \in stale /\ pc \in {m, Deleting[m]})
    <3>1. CASE c # cg
      BY <1>1, <3>1
    <3>2. CASE m # mm
      <4>1. pc \notin {m, Deleting[m]}
        BY <1>1, <3>2, ConstantsAssumption DEF Deleting
      <4> QED
        BY <1>1, <4>1
    <3> QED
      BY <2>2, <3>1, <3>2
  <2>7. AsRead(m, c)' = AsRead(m, c)
    BY <2>4, <2>5, <2>6 DEF AsRead
  <2>8. WasRead(m, c)' => Read(m, c)' <= Entry(m, c)'
    BY <2>4, <2>5 DEF Adds
  <2> QED
    BY <2>1, <2>4, <2>7, <2>8
<1>4. \A c \in CgroupsOf(k) :
        /\ Entry(m, c) <= Entry(m, c)'
        /\ WasRead(m, c)' => Read(m, c)' <= Entry(m, c)'
  BY <1>3
<1>5. \A c \in CgroupsOf(k) : AsRead(m, c) <= AsRead(m, c)'
  BY <1>3
<1> QED
  BY <1>1, <1>2, <1>4, <1>5, AddsKept DEF CInv

(* Outside of a round only counter, previous total and map matter.         *)
LEMMA AddsOutside ==
  ASSUME TypeOK', NEW k \in Keys, NEW m \in Maps, UNCHANGED bpf,
         ~ InRound', \A c \in CgroupsOf(k) : ~ WasRead(m, c)',
         ShownOf(k, m)' = SeenOf(k, m)',
         SeenOf(k, m)' <= SumOver(EntriesOf(k, m), CgroupsOf(k))
  PROVE  Adds(k, m)'
<1>1. /\ SumOver(EntriesOf(k, m), CgroupsOf(k))' = SumOver(EntriesOf(k, m), CgroupsOf(k))
      /\ CgroupsOf(k)' = CgroupsOf(k)
  BY DEF EntriesOf, Entry, CgroupsOf
<1> QED
  BY <1>1 DEF Adds

(* Update: of a pod that nobody disturbed the sum of the rows is not below *)
(* the previous total, and the counter becomes that sum.                   *)
LEMMA UpdateAdds ==
  ASSUME CInv, TypeOK', Update, NEW k \in Keys, NEW m \in Maps, Adds(k, m)
  PROVE  Adds(k, m)'
<1>1. /\ pc = "update" /\ pc' = "end" /\ UNCHANGED bpf
      /\ prev' = [kk \in Keys |-> IF RowsOf(kk) = {} THEN None ELSE Current(kk)]
      /\ series' = [kk \in Keys |->
           IF RowsOf(kk) = {} THEN (IF prev[kk] = None THEN series[kk] ELSE None)
           ELSE [mm \in Maps |-> OrZero(series[kk])[mm]
                                 + deltaFloat(Current(kk)[mm], Before(kk)[mm])]]
  BY DEF Update, kernel
<1>2. ~ InRound' /\ \A c \in CgroupsOf(k) : ~ WasRead(m, c)'
  BY <1>1, ConstantsAssumption DEF InRound, WasRead
<1>3. /\ SeenOf(k, m) \in Nat /\ ShownOf(k, m) \in Nat
      /\ \A c \in CgroupsOf(k) : Entry(m, c) \in Nat /\ Read(m, c) \in Nat
      /\ SumOver(EntriesOf(k, m), CgroupsOf(k)) \in Nat
  BY PodNumbers DEF CInv
<1> DEFINE reads == [cg \in CgroupsOf(k) |-> Read(m, cg)]
<1>4. Current(k)[m] = SumOver(reads, CgroupsOf(k)) /\ Current(k)[m] \in Nat
  BY CurrentIsSum DEF CInv
<1>5. AsReadOf(k, m) = reads /\ InRound /\ \A c \in CgroupsOf(k) : WasRead(m, c)
  <2>1. InRound /\ \A c \in CgroupsOf(k) : WasRead(m, c)
    BY <1>1 DEF InRound, WasRead
  <2>2. pc \notin {m, Deleting[m]}
    BY <1>1, ConstantsAssumption DEF Deleting
  <2>3. \A c \in CgroupsOf(k) : AsRead(m, c) = Read(m, c)
    BY <2>1, <2>2 DEF AsRead
  <2> QED
    BY <2>1, <2>3 DEF AsReadOf
<1>6. \A c \in CgroupsOf(k) : /\ reads[c] \in Nat /\ EntriesOf(k, m)[c] \in Nat
                              /\ reads[c] <= EntriesOf(k, m)[c]
  BY <1>3, <1>5 DEF Adds, EntriesOf
<1> HIDE DEF reads
<1>7. SeenOf(k, m) <= Current(k)[m] /\ ShownOf(k, m) = SeenOf(k, m)
  BY <1>4, <1>5 DEF Adds
<1>8. Current(k)[m] <= SumOver(EntriesOf(k, m), CgroupsOf(k))
  BY <1>4, <1>6, PodsFinite, SumOverGrows
<1>9. CASE RowsOf(k) = {}
  <2>1. prev'[k] = None /\ series'[k] = None
    BY <1>1, <1>9 DEF CInv, TypeOK
  <2>2. SeenOf(k, m)' = 0 /\ ShownOf(k, m)' = 0
    BY <2>1 DEF SeenOf, ShownOf, OrZero, NoTotals
  <2> QED
    BY <1>1, <1>2, <1>3, <2>2, AddsOutside
<1>10. CASE RowsOf(k) # {}
  <2>1. /\ prev'[k] = Current(k)
        /\ series'[k] = [mm \in Maps |-> OrZero(series[k])[mm]
                           + deltaFloat(Current(k)[mm], Before(k)[mm])]
    BY <1>1, <1>10
  <2>2. prev'[k] # None /\ series'[k] # None
    <3>1. prev'[k] # None
      BY <2>1, CurrentType, ConstantsAssumption DEF CInv, Totals
    <3> QED
      BY <3>1 DEF TypeOK
  <2>3. SeenOf(k, m)' = Current(k)[m]
    BY <2>1, <2>2 DEF SeenOf, OrZero
  <2>4. ShownOf(k, m)' = ShownOf(k, m) + deltaFloat(Current(k)[m], SeenOf(k, m))
    BY <2>1, <2>2 DEF SeenOf, ShownOf, Before, OrZero
  <2>5. ShownOf(k, m)' = Current(k)[m]
    BY <1>3, <1>4, <1>7, <2>4 DEF deltaFloat
  <2> QED
    BY <1>1, <1>2, <1>8, <2>3, <2>5, AddsOutside
<1> QED
  BY <1>9, <1>10

LEMMA LoopAdds ==
  ASSUME CInv, AllAdd, TypeOK', Loop \/ Restart
  PROVE  AllAdd'
<1> SUFFICES ASSUME NEW k \in Keys, NEW m \in Maps, Undisturbed(k, m)'
             PROVE  Adds(k, m)'
  BY DEF AllAdd
<1>1. Adds(k, m)
  BY ResetGrows DEF AllAdd, Next
<1>2. CASE BeginWalk \/ (\E cg \in Cgroups : WalkDir(cg)) \/ (\E mm \in Maps : IterErr(mm)) \/ EndRound
  <2>1. pc' \in {"walk", "end", "build"} /\ UNCHANGED <<bpf, prev, series>>
    BY <1>2 DEF BeginWalk, WalkDir, IterErr, EndRound, kernel
  <2>2. ~ InRound' /\ \A c \in CgroupsOf(k) : ~ WasRead(m, c)'
    BY <2>1, ConstantsAssumption DEF InRound, WasRead
  <2> QED
    BY <1>1, <2>1, <2>2, QuietAdds
<1>3. CASE BeginRead
  <2>1. pc' = "block" /\ todo' = Cgroups /\ UNCHANGED <<bpf, prev, series>>
    BY <1>3 DEF BeginRead, kernel
  <2>2. ASSUME NEW c \in CgroupsOf(k)
        PROVE  /\ Entry(m, c)' = Entry(m, c) /\ Entry(m, c) \in Nat
               /\ ~ WasRead(m, c)' /\ AsRead(m, c)' = Entry(m, c)
    <3>1. Entry(m, c)' = Entry(m, c) /\ Entry(m, c) \in Nat
      BY <2>1, PodNumbers DEF CInv, Entry
    <3>2. ~ WasRead(m, c)'
      BY <2>1 DEF WasRead, CgroupsOf
    <3> QED
      BY <3>1, <3>2 DEF AsRead
  <2>3. \A c \in CgroupsOf(k) :
          /\ Entry(m, c) <= Entry(m, c)'
          /\ WasRead(m, c)' => Read(m, c)' <= Entry(m, c)'
    BY <2>2
  <2>4. \A c \in CgroupsOf(k) : Entry(m, c) <= AsRead(m, c)'
    BY <2>2
  <2> QED
    BY <1>1, <2>1, <2>3, <2>4, AddsKept DEF CInv
<1>4. ASSUME NEW mm \in Maps, NEW cg \in Cgroups, IterNext(mm, cg) PROVE Adds(k, m)'
  BY <1>1, <1>4, IterNextAdds
<1>5. ASSUME NEW mm \in Maps, IterDone(mm) PROVE Adds(k, m)'
  <2>1. /\ pc = mm /\ todo = {} /\ pc' = Deleting[mm]
        /\ \/ mm = "block" /\ pc' = "deleteBlock"
           \/ mm = "runq" /\ pc' = "deleteRunq"
        /\ UNCHANGED <<bpf, prev, series, row, stale>>
    BY <1>5, ConstantsAssumption DEF IterDone, Deleting, kernel
  <2>2. InRound /\ InRound'
    BY <2>1 DEF InRound
  <2>3. \A c \in CgroupsOf(k) : WasRead(m, c)' <=> WasRead(m, c)
    BY <2>1, ConstantsAssumption DEF WasRead
  <2>4. pc' \in {m, Deleting[m]} <=> pc \in {m, Deleting[m]}
    BY <2>1, ConstantsAssumption DEF Deleting
  <2> QED
    BY <1>1, <2>1, <2>2, <2>3, <2>4, QuietAdds
<1>6. ASSUME NEW mm \in Maps, NEW cg \in Cgroups, DeleteStale(mm, cg) PROVE Adds(k, m)'
  BY <1>1, <1>6, DeleteStaleAdds
<1>7. ASSUME NEW mm \in Maps, DeleteDone(mm) PROVE Adds(k, m)'
  <2>1. /\ \/ mm = "block" /\ pc = "deleteBlock"
           \/ mm = "runq" /\ pc = "deleteRunq"
        /\ \/ mm = "block" /\ "runq" \in Maps /\ pc' = "runq" /\ todo' = Cgroups
           \/ ~(mm = "block" /\ "runq" \in Maps) /\ pc' = "update" /\ todo' = todo
        /\ stale = {} /\ stale' = {}
        /\ UNCHANGED <<bpf, prev, series, row>>
    BY <1>7, ConstantsAssumption DEF DeleteDone, Deleting, kernel
  <2>2. InRound /\ InRound'
    BY <2>1 DEF InRound
  <2>3. \A c \in CgroupsOf(k) : WasRead(m, c)' <=> WasRead(m, c)
    BY <2>1, ConstantsAssumption DEF WasRead, CgroupsOf
  <2> QED
    BY <1>1, <2>1, <2>2, <2>3, QuietAdds
<1>8. CASE Update
  BY <1>1, <1>8, UpdateAdds
<1>9. CASE Restart
  <2>1. pc' = "build" /\ series' = NoSeries /\ prev' = NoSeries /\ UNCHANGED bpf
    BY <1>9 DEF Restart, kernel
  <2>2. ~ InRound' /\ \A c \in CgroupsOf(k) : ~ WasRead(m, c)'
    BY <2>1, ConstantsAssumption DEF InRound, WasRead
  <2>3. SeenOf(k, m)' = 0 /\ ShownOf(k, m)' = 0
    BY <2>1 DEF SeenOf, ShownOf, NoSeries, OrZero, NoTotals
  <2>4. SumOver(EntriesOf(k, m), CgroupsOf(k)) \in Nat
    BY PodNumbers DEF CInv
  <2> QED
    BY <2>1, <2>2, <2>3, <2>4, AddsOutside
<1> QED
  BY <1>2, <1>3, <1>4, <1>5, <1>6, <1>7, <1>8, <1>9 DEF Loop

LEMMA NextAdds == CInv /\ AllAdd /\ [Next]_vars => (CInv /\ AllAdd)'
<1> SUFFICES ASSUME CInv, AllAdd, [Next]_vars PROVE CInv' /\ AllAdd'
  OBVIOUS
<1>1. CInv'
  BY NextCInv
<1>2. CASE Next
  BY <1>1, <1>2, KernelAdds, LoopAdds DEF Next, CInv
<1>3. CASE UNCHANGED vars
  <2> SUFFICES ASSUME NEW k \in Keys, NEW m \in Maps, Undisturbed(k, m)'
               PROVE  Adds(k, m)'
    BY <1>1 DEF AllAdd
  <2>1. UNCHANGED <<bpf, prev, series, reset, row, resolver, pc, todo, stale>>
    BY <1>3 DEF vars, kernel, process
  <2>2. Adds(k, m)
    BY <2>1 DEF AllAdd, Undisturbed, CgroupsOf
  <2>3. (InRound' <=> InRound) /\ \A c \in CgroupsOf(k) : WasRead(m, c)' <=> WasRead(m, c)
    BY <2>1 DEF InRound, WasRead
  <2>4. \A c \in CgroupsOf(k) : ~ InRound => ~ WasRead(m, c)
    BY ConstantsAssumption DEF InRound, WasRead
  <2> QED
    BY <1>1, <2>1, <2>2, <2>3, <2>4, QuietAdds DEF CInv
<1> QED
  BY <1>1, <1>2, <1>3

LEMMA InitAdds == Init => CInv /\ AllAdd
<1> SUFFICES ASSUME Init PROVE CInv /\ AllAdd
  OBVIOUS
<1>1. CInv
  BY InitCInv
<1>2. ASSUME NEW k \in Keys, NEW m \in Maps PROVE Adds(k, m)
  <2>1. SeenOf(k, m) = 0 /\ ShownOf(k, m) = 0
    BY DEF Init, SeenOf, ShownOf, NoSeries, OrZero, NoTotals
  <2>2. ~ InRound /\ \A c \in CgroupsOf(k) : ~ WasRead(m, c)
    BY ConstantsAssumption DEF Init, InRound, WasRead
  <2>3. SumOver(EntriesOf(k, m), CgroupsOf(k)) \in Nat
    BY <1>1, PodNumbers DEF CInv
  <2> QED
    BY <2>1, <2>2, <2>3 DEF Adds
<1> QED
  BY <1>1, <1>2 DEF AllAdd

(* The deltas that Update adds to the counter of a pod add up to the total *)
(* it read last, and that total is not ahead of the maps, for any number   *)
(* of cgroups in the pod, however many rounds failed and restarts there    *)
(* were: as long as no entry of the pod was deleted or reset.              *)
THEOREM DeltasAddUp == Spec => []DeltasTelescope
<1>1. CInv /\ AllAdd => DeltasTelescope
  <2> SUFFICES ASSUME CInv, AllAdd, NEW k \in Keys, NEW m \in Maps,
                      series[k] # None, Undisturbed(k, m)
               PROVE  /\ series[k][m] = prev[k][m]
                      /\ prev[k][m] <= SumOver(EntriesOf(k, m), CgroupsOf(k))
    BY DEF DeltasTelescope, EntriesOf
  <2>1. prev[k] # None
    BY DEF CInv, TypeOK
  <2>2. ShownOf(k, m) = series[k][m] /\ SeenOf(k, m) = prev[k][m]
    BY <2>1 DEF ShownOf, SeenOf, OrZero
  <2> QED
    BY <2>2 DEF AllAdd, Adds
<1> QED
  BY <1>1, InitAdds, NextAdds, PTL DEF Spec

----------------------------------------------------------------------------
(* A pod with one cgroup, and one that nobody disturbed, show no more than *)
(* what happened.                                                          *)
LEMMA NoExcessOfOne ==
  ASSUME CInv, NEW k \in Keys, NEW m \in Maps, NEW c \in Cgroups,
         KeyOf[c] = k, Single(c)
  PROVE  ~ Exceeds(k, m)
<1> SUFFICES ASSUME series[k] # None
             PROVE  series[k][m] <= SumOver(truth[m], CgroupsOf(k))
  <2>1. /\ CgroupsOf(k) = {c}
        /\ truth[m][c] \in Nat
    BY DEF CgroupsOf, Single, CInv, TypeOK
  <2>2. SumOver(truth[m], CgroupsOf(k)) \in Nat
    BY <2>1, SumOverOne
  <2>3. series[k] # None => series[k][m] \in Nat
    BY DEF CInv, TypeOK, Totals
  <2> QED
    BY <2>2, <2>3 DEF Exceeds
<1>1. CgroupsOf(k) = {c}
  BY DEF CgroupsOf, Single
<1>2. /\ Entry(m, c) \in Nat /\ Seen(m, c) \in Nat
      /\ Shown(m, c) \in Nat /\ truth[m][c] \in Nat
  BY Numbers DEF CInv
<1>3. SumOver(truth[m], CgroupsOf(k)) = truth[m][c]
  BY <1>1, <1>2, SumOverOne
<1>4. Shown(m, c) = series[k][m]
  BY DEF Shown, OrZero
<1>5. Shown(m, c) + deltaFloat(Entry(m, c), Seen(m, c)) <= truth[m][c]
  BY DEF CInv, AllGood, Good, NeverAhead
<1>6. Shown(m, c) <= truth[m][c]
  BY <1>2, <1>5 DEF deltaFloat
<1> QED
  BY <1>3, <1>4, <1>6

LEMMA NoExcessUndisturbed ==
  ASSUME CInv, AllAdd, NEW k \in Keys, NEW m \in Maps, Undisturbed(k, m)
  PROVE  ~ Exceeds(k, m)
<1>1. /\ ShownOf(k, m) = SeenOf(k, m)
      /\ SeenOf(k, m) <= SumOver(EntriesOf(k, m), CgroupsOf(k))
  BY DEF AllAdd, Adds
<1>2. \A c \in CgroupsOf(k) :
        /\ EntriesOf(k, m)[c] \in Nat /\ truth[m][c] \in Nat
        /\ EntriesOf(k, m)[c] <= truth[m][c]
  <2> TAKE c \in CgroupsOf(k)
  <2>1. c \in Cgroups /\ EntriesOf(k, m)[c] = Entry(m, c)
    BY DEF CgroupsOf, EntriesOf
  <2> QED
    BY <2>1, Numbers DEF CInv, AllGood, Good, EntryBehind
<1>3. IsFiniteSet(CgroupsOf(k))
  BY PodsFinite
<1>4. SumOver(EntriesOf(k, m), CgroupsOf(k)) <= SumOver(truth[m], CgroupsOf(k))
  BY <1>2, <1>3, SumOverGrows
<1>5. /\ SumOver(EntriesOf(k, m), CgroupsOf(k)) \in Nat
      /\ SumOver(truth[m], CgroupsOf(k)) \in Nat
  BY <1>2, <1>3, SumOverType
<1>6. SeenOf(k, m) \in Nat
  BY PodNumbers DEF CInv
<1>7. series[k] # None => series[k][m] = ShownOf(k, m)
  BY DEF ShownOf, OrZero
<1> QED
  BY <1>1, <1>4, <1>5, <1>6, <1>7 DEF Exceeds

(* A counter only ever exceeds what happened in its pod when the pod has   *)
(* several cgroups and one of their entries was deleted or went back to    *)
(* zero: one cgroup never, whatever resets, deletions, failed rounds and   *)
(* restarts there were, and several not while nobody disturbs them.        *)
THEOREM OvercountsExplained == Spec => []OvercountExplained
<1>1. CInv /\ AllAdd => OvercountExplained
  <2> SUFFICES ASSUME CInv, AllAdd, NEW k \in Keys, NEW m \in Maps, Exceeds(k, m)
               PROVE  Cardinality(CgroupsOf(k)) > 1 /\ ~ Undisturbed(k, m)
    BY DEF OvercountExplained
  <2>1. ~ Undisturbed(k, m)
    BY NoExcessUndisturbed
  <2>2. PICK c \in Cgroups : c \in CgroupsOf(k) /\ KeyOf[c] = k
    BY DEF CInv, SeriesHaveCgroup, Exceeds, CgroupsOf
  <2>3. IsFiniteSet(CgroupsOf(k))
    BY PodsFinite
  <2>4. Cardinality(CgroupsOf(k)) \in Nat /\ Cardinality(CgroupsOf(k)) # 0
    BY <2>2, <2>3, FS_CardinalityType, FS_EmptySet
  <2>5. Cardinality(CgroupsOf(k)) # 1
    <3> SUFFICES ASSUME Cardinality(CgroupsOf(k)) = 1 PROVE FALSE
      OBVIOUS
    <3>1. PICK d : CgroupsOf(k) = {d}
      BY <2>3, FS_Singleton
    <3>2. Single(c)
      BY <2>2, <3>1 DEF Single, CgroupsOf
    <3> QED
      BY <2>2, <3>2, NoExcessOfOne
  <2> QED
    BY <2>1, <2>4, <2>5
<1> QED
  BY <1>1, InitAdds, NextAdds, PTL DEF Spec

(* So when every pod has one cgroup, "Total block I/O operations per pod"  *)
(* is never too high.                                                      *)
THEOREM NeverOvercounts ==
  (\A c, d \in Cgroups : KeyOf[c] = KeyOf[d] => c = d) /\ Spec => []NoOvercount
<1> SUFFICES ASSUME \A c, d \in Cgroups : KeyOf[c] = KeyOf[d] => c = d
             PROVE  Spec => []NoOvercount
  OBVIOUS
<1>1. CInv => NoOvercount
  <2> SUFFICES ASSUME CInv, NEW k \in Keys, NEW m \in Maps, Exceeds(k, m)
               PROVE  FALSE
    BY DEF NoOvercount
  <2>1. PICK c \in Cgroups : KeyOf[c] = k
    BY DEF CInv, SeriesHaveCgroup, Exceeds, CgroupsOf
  <2>2. Single(c)
    BY DEF Single
  <2> QED
    BY <2>1, <2>2, NoExcessOfOne
<1> QED
  BY <1>1, InitCInv, NextCInv, PTL DEF Spec

----------------------------------------------------------------------------
(* The loop deletes no entry of a cgroup it could resolve or has a row     *)
(* for: what the round is about to count stays in the map.  This is what   *)
(* StatsMap!Delete takes for granted.                                      *)
DeletesOnlyUnknown ==
  [][\A m \in Maps, cg \in Cgroups :
       bpf[m][cg] # None /\ bpf'[m][cg] = None => ~ Known(cg)]_vars

StaleUnknown ==
  pc \in {"block", "runq", "deleteBlock", "deleteRunq"} => \A cg \in stale : ~ Known(cg)

LEMMA NextStaleUnknown ==
  TypeOK /\ StaleUnknown /\ [Next]_vars => StaleUnknown'
<1> SUFFICES ASSUME TypeOK, StaleUnknown, [Next]_vars PROVE StaleUnknown'
  OBVIOUS
<1>1. CASE UNCHANGED vars \/ Environment
  <2>1. UNCHANGED <<resolver, pc, row, stale>>
    BY <1>1 DEF vars, Environment, CgroupCreated, CgroupRemoved, BpfInsert, BpfAdd, process
  <2> QED
    BY <2>1 DEF StaleUnknown, Known
<1>2. CASE BeginWalk \/ (\E cg \in Cgroups : WalkDir(cg)) \/ (\E m \in Maps : IterErr(m))
           \/ Update \/ EndRound \/ Restart
  BY <1>2 DEF BeginWalk, WalkDir, IterErr, Update, EndRound, Restart, StaleUnknown
<1>3. CASE BeginRead
  BY <1>3 DEF BeginRead, StaleUnknown
<1>4. ASSUME NEW m \in Maps, NEW cg \in Cgroups, IterNext(m, cg) PROVE StaleUnknown'
  <2>1. pc \in {"block", "runq"} /\ UNCHANGED <<pc, resolver>>
    BY <1>4, ConstantsAssumption DEF IterNext
  <2>2. CASE UNCHANGED row /\ (UNCHANGED stale \/ (~ Known(cg) /\ stale' = stale \cup {cg}))
    BY <2>1, <2>2 DEF StaleUnknown, Known
  <2>3. CASE bpf[m][cg] # None /\ Known(cg) /\ row' = Merge(m, cg) /\ UNCHANGED stale
    <3>1. ASSUME NEW c \in stale PROVE ~ Known(c)'
      <4>1. c \in Cgroups /\ ~ Known(c) /\ c # cg
        BY <2>1, <2>3 DEF StaleUnknown, TypeOK
      <4>2. row'[c] = row[c]
        BY <2>3, <4>1, MergeType
      <4> QED
        BY <2>1, <4>1, <4>2 DEF Known
    <3> QED
      BY <2>3, <3>1 DEF StaleUnknown
  <2>4. \/ UNCHANGED row /\ UNCHANGED stale
        \/ UNCHANGED row /\ ~ Known(cg) /\ stale' = stale \cup {cg}
        \/ bpf[m][cg] # None /\ Known(cg) /\ row' = Merge(m, cg) /\ UNCHANGED stale
    BY <1>4 DEF IterNext
  <2> QED
    BY <2>2, <2>3, <2>4
<1>5. ASSUME NEW m \in Maps, IterDone(m) \/ DeleteDone(m) PROVE StaleUnknown'
  <2>1. /\ pc \in {"block", "runq", "deleteBlock", "deleteRunq"}
        /\ UNCHANGED <<resolver, row, stale>>
    BY <1>5, ConstantsAssumption DEF IterDone, DeleteDone, Deleting
  <2> QED
    BY <2>1 DEF StaleUnknown, Known
<1>6. ASSUME NEW m \in Maps, NEW cg \in Cgroups, DeleteStale(m, cg) PROVE StaleUnknown'
  BY <1>6 DEF DeleteStale, StaleUnknown, Known
<1> QED
  BY <1>1, <1>2, <1>3, <1>4, <1>5, <1>6 DEF Next, Loop

(* Only entries of cgroups this round could not resolve are deleted. *)
THEOREM DeletesUnknown == Spec => DeletesOnlyUnknown
<1> DEFINE Keeps == \A m \in Maps, cg \in Cgroups :
                      bpf[m][cg] # None /\ bpf'[m][cg] = None => ~ Known(cg)
<1>1. Init => TypeOK /\ StaleUnknown
  BY InitTypeOK DEF Init, StaleUnknown
<1>2. TypeOK /\ StaleUnknown /\ [Next]_vars => Keeps \/ UNCHANGED vars
  <2> SUFFICES ASSUME TypeOK, StaleUnknown, Next,
                      NEW m \in Maps, NEW cg \in Cgroups,
                      bpf[m][cg] # None, bpf'[m][cg] = None
               PROVE  ~ Known(cg)
    OBVIOUS
  <2>1. ASSUME NEW mm \in Maps, NEW c \in Cgroups, BpfInsert(mm, c) PROVE FALSE
    <3>1. bpf' = [bpf EXCEPT ![mm] = [bpf[mm] EXCEPT ![c] = 0]]
      BY <2>1 DEF BpfInsert
    <3>2. bpf'[m][cg] = 0 \/ bpf'[m][cg] = bpf[m][cg]
      BY <3>1 DEF TypeOK
    <3> QED
      BY <3>2, ConstantsAssumption
  <2>2. ASSUME NEW mm \in Maps, NEW c \in Cgroups, BpfAdd(mm, c) PROVE FALSE
    <3>1. bpf' = [bpf EXCEPT ![mm] = [bpf[mm] EXCEPT ![c] = bpf[mm][c] + 1]]
      BY <2>2 DEF BpfAdd
    <3>2. bpf'[m][cg] = bpf[m][cg] + 1 \/ bpf'[m][cg] = bpf[m][cg]
      BY <3>1 DEF TypeOK
    <3>3. bpf[m][cg] \in Nat
      BY DEF TypeOK
    <3> QED
      BY <3>2, <3>3, ConstantsAssumption
  <2>3. ASSUME NEW mm \in Maps, NEW c \in Cgroups, DeleteStale(mm, c) PROVE ~ Known(cg)
    <3>1. /\ bpf' = [bpf EXCEPT ![mm] = [bpf[mm] EXCEPT ![c] = None]]
          /\ c \in stale /\ pc \in {"deleteBlock", "deleteRunq"}
      BY <2>3, ConstantsAssumption DEF DeleteStale, Deleting
    <3>2. cg = c
      BY <3>1 DEF TypeOK
    <3> QED
      BY <3>1, <3>2 DEF StaleUnknown
  <2>4. CASE UNCHANGED bpf
    BY <2>4
  <2>5. UNCHANGED bpf \/ \E mm \in Maps, c \in Cgroups :
                           BpfInsert(mm, c) \/ BpfAdd(mm, c) \/ DeleteStale(mm, c)
    BY DEF Next, Loop, Environment, Restart, BeginWalk, WalkDir, BeginRead, IterNext,
           IterErr, IterDone, DeleteDone, Update, EndRound, CgroupCreated,
           CgroupRemoved, kernel
  <2> QED
    BY <2>1, <2>2, <2>3, <2>4, <2>5
<1> QED
  BY <1>1, <1>2, NextTypeOK, NextStaleUnknown, PTL DEF Spec, DeletesOnlyUnknown

=============================================================================
