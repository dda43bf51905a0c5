---------------------------- MODULE ScaleUpProofs ----------------------------
(***************************************************************************)
(* Proofs about ScaleUp for any containers, any resources they start with, *)
(* any step and maximum and any lag of the cache.  That limits only rise   *)
(* and that the fallback is justified is for a pod that one working policy *)
(* selects; policies whose maximum is not a quantity may select it too.    *)
(* The types and the maximum need no such hypothesis.                      *)
(***************************************************************************)
EXTENDS ScaleUp, TLAPS

(* The policies that can resize: their maximum is a quantity. *)
Working(p) == p \in Policies /\ MaxCPULimit[p] # None

OnePolicy == \A p, q \in Policies : Working(p) /\ Working(q) => p = q

(* b is a as some patches later *)
Below(a, b) ==
  /\ a.request = b.request
  /\ a.limit # None => b.limit # None
  /\ Baseline(a) # None => Baseline(b) # None /\ Baseline(a) <= Baseline(b)

----------------------------------------------------------------------------
(* The arithmetic of a step *)

LEMMA StepType ==
  ASSUME NEW p, Working(p), NEW x \in Nat
  PROVE  stepMillis(x, p) \in Nat /\ stepMillis(x, p) >= 10
<1>1. CPUStepPercent[p] \in Nat /\ p \in Policies
  BY ConstantsAssumption DEF Working
<1>2. x * CPUStepPercent[p] \in Nat
  BY <1>1
<1>3. (x * CPUStepPercent[p]) \div 100 \in Nat
  BY <1>2
<1> QED
  BY <1>3 DEF stepMillis

LEMMA StepMonotone ==
  ASSUME NEW p, Working(p), NEW x \in Nat, NEW y \in Nat, x <= y
  PROVE  stepMillis(x, p) <= stepMillis(y, p)
<1> DEFINE s == CPUStepPercent[p]
<1>1. s \in Nat
  BY ConstantsAssumption DEF Working
<1>2. x * s \in Nat /\ y * s \in Nat /\ x * s <= y * s
  <2>1. PICK d \in Nat : y = x + d
    <3>1. y - x \in Nat /\ y = x + (y - x)
      OBVIOUS
    <3> QED
      BY <3>1
  <2>2. y * s = x * s + d * s
    BY <1>1, <2>1
  <2>3. x * s \in Nat /\ d * s \in Nat
    BY <1>1, <2>1
  <2> HIDE DEF s
  <2> QED
    BY <2>2, <2>3
<1>3. ASSUME NEW a \in Nat, NEW b \in Nat, a <= b
      PROVE  a \div 100 \in Nat /\ b \div 100 \in Nat /\ a \div 100 <= b \div 100
  BY <1>3
<1>4. (x * s) \div 100 \in Nat /\ (y * s) \div 100 \in Nat
      /\ (x * s) \div 100 <= (y * s) \div 100
  BY <1>2, <1>3
<1> QED
  BY <1>4 DEF stepMillis

LEMMA NewMillis ==
  ASSUME NEW p, Working(p), NEW x \in Nat, x < MaxCPULimit[p]
  PROVE  /\ newMillis(x, p) \in Nat
         /\ x < newMillis(x, p) /\ newMillis(x, p) <= MaxCPULimit[p]
<1>1. MaxCPULimit[p] \in Nat
  BY ConstantsAssumption DEF Working
<1> QED
  BY <1>1, StepType DEF newMillis

LEMMA NewMillisMonotone ==
  ASSUME NEW p, Working(p), NEW x \in Nat, NEW y \in Nat, x <= y
  PROVE  newMillis(x, p) <= newMillis(y, p)
<1>1. MaxCPULimit[p] \in Nat
  BY ConstantsAssumption DEF Working
<1> QED
  BY <1>1, StepType, StepMonotone DEF newMillis

----------------------------------------------------------------------------
(* The order of the resources of a container *)

LEMMA BaselineType ==
  ASSUME NEW r \in Resources
  PROVE  Baseline(r) \in Nat \cup {None}
BY DEF Baseline, Resources

LEMMA BelowReflexive ==
  ASSUME NEW a \in Resources
  PROVE  Below(a, a)
BY BaselineType, ConstantsAssumption DEF Below

LEMMA BelowTransitive ==
  ASSUME NEW a \in Resources, NEW b \in Resources, NEW c \in Resources,
         Below(a, b), Below(b, c)
  PROVE  Below(a, c)
BY BaselineType, ConstantsAssumption DEF Below

LEMMA RaisedType ==
  ASSUME NEW p, Working(p), NEW r \in Resources
  PROVE  Raised(r, p) \in Resources
<1>1. CASE ~Headroom(r, p)
  BY <1>1 DEF Raised
<1>2. CASE Headroom(r, p)
  <2>1. newMillis(Baseline(r), p) \in Nat
    BY <1>2, BaselineType, NewMillis, ConstantsAssumption DEF Headroom
  <2> QED
    BY <1>2, <2>1 DEF Raised, Resources
<1> QED
  BY <1>1, <1>2

(* What Raised does to a container with headroom *)
LEMMA RaisedFields ==
  ASSUME NEW p, Working(p), NEW r \in Resources, Headroom(r, p)
  PROVE  /\ Baseline(r) \in Nat /\ Baseline(r) < MaxCPULimit[p]
         /\ newMillis(Baseline(r), p) \in Nat
         /\ Baseline(r) < newMillis(Baseline(r), p)
         /\ newMillis(Baseline(r), p) <= MaxCPULimit[p]
         /\ Raised(r, p).request = r.request
         /\ Raised(r, p).limit = newMillis(Baseline(r), p)
         /\ Raised(r, p).limit # None
         /\ Baseline(Raised(r, p)) = newMillis(Baseline(r), p)
<1>1. Baseline(r) \in Nat /\ Baseline(r) < MaxCPULimit[p]
  BY BaselineType DEF Headroom
<1>2. /\ newMillis(Baseline(r), p) \in Nat
      /\ Baseline(r) < newMillis(Baseline(r), p)
      /\ newMillis(Baseline(r), p) <= MaxCPULimit[p]
  BY <1>1, NewMillis
<1>3. Raised(r, p) = [r EXCEPT !.limit = newMillis(Baseline(r), p)]
  BY DEF Raised
<1>4. /\ Raised(r, p).request = r.request
      /\ Raised(r, p).limit = newMillis(Baseline(r), p)
  BY <1>3 DEF Resources
<1>5. Raised(r, p).limit # None
  BY <1>2, <1>4, ConstantsAssumption
<1>6. Baseline(Raised(r, p)) = newMillis(Baseline(r), p)
  BY <1>4, <1>5 DEF Baseline
<1> QED
  BY <1>1, <1>2, <1>4, <1>5, <1>6

LEMMA RaisedAbove ==
  ASSUME NEW p, Working(p), NEW r \in Resources
  PROVE  Below(r, Raised(r, p))
<1>1. CASE ~Headroom(r, p)
  BY <1>1, BelowReflexive DEF Raised
<1>2. CASE Headroom(r, p)
  BY <1>2, RaisedFields, ConstantsAssumption DEF Below
<1> QED
  BY <1>1, <1>2

(* A resize computed from an older version is not above one computed from  *)
(* a younger one.                                                          *)
LEMMA RaisedMonotone ==
  ASSUME NEW p, Working(p), NEW a \in Resources, NEW b \in Resources, Below(a, b)
  PROVE  Below(Raised(a, p), Raised(b, p))
<1>m. MaxCPULimit[p] \in Nat
  BY ConstantsAssumption DEF Working
<1>b. Baseline(a) \in Nat \cup {None} /\ Baseline(b) \in Nat \cup {None}
  BY BaselineType
<1>1. CASE ~Headroom(a, p)
  <2>1. Raised(a, p) = a
    BY <1>1 DEF Raised
  <2> QED
    BY <2>1, RaisedAbove, RaisedType, BelowTransitive
<1>2. CASE Headroom(a, p) /\ ~Headroom(b, p)
  <2>1. Raised(b, p) = b
    BY <1>2 DEF Raised
  <2>2. Baseline(b) \in Nat /\ Baseline(b) >= MaxCPULimit[p]
    BY <1>2, <1>b, <1>m, RaisedFields, ConstantsAssumption DEF Below, Headroom
  <2>3. b.limit # None
    BY <1>2, <1>m, <2>2, RaisedFields, ConstantsAssumption DEF Below, Baseline
  <2> QED
    BY <1>2, <1>m, <2>1, <2>2, <2>3, RaisedFields, ConstantsAssumption DEF Below
<1>3. CASE Headroom(a, p) /\ Headroom(b, p)
  <2>1. Baseline(a) <= Baseline(b) /\ a.request = b.request
    BY <1>3 DEF Below, Headroom
  <2>2. newMillis(Baseline(a), p) <= newMillis(Baseline(b), p)
    BY <1>3, <2>1, RaisedFields, NewMillisMonotone
  <2> QED
    BY <1>3, <2>1, <2>2, RaisedFields, ConstantsAssumption DEF Below
<1> QED
  BY <1>1, <1>2, <1>3

----------------------------------------------------------------------------
(* Types *)

LEMMA LatestType ==
  ASSUME TypeOK
  PROVE  /\ Len(versions) \in Nat /\ Len(versions) >= 1
         /\ Latest \in [Containers -> Resources]
         /\ \A i \in 1 .. Len(versions) : versions[i] \in [Containers -> Resources]
BY DEF TypeOK, Latest

LEMMA TypeInit == Init => TypeOK
BY ConstantsAssumption DEF Init, TypeOK

LEMMA TypeGet == TypeOK /\ Get => TypeOK'
<1> SUFFICES ASSUME TypeOK, Get PROVE TypeOK'
  OBVIOUS
<1>1. policy \in Policies /\ Working(policy)
  BY ConstantsAssumption DEF Get, TypeOK, Working
<1>2. versions[seen] \in [Containers -> Resources]
  BY LatestType DEF TypeOK
<1>3. CASE anyHeadroom(versions[seen], policy)
  <2>1. wanted' = [c \in Containers |-> Raised(versions[seen][c], policy)]
        /\ pc' = "patch"
    BY <1>3 DEF Get
  <2>2. wanted' \in [Containers -> Resources]
    BY <1>1, <1>2, <2>1, RaisedType
  <2>3. wanted' # None
    BY <2>2, ConstantsAssumption
  <2> QED
    BY <1>1, <2>1, <2>2, <2>3, ConstantsAssumption
    DEF Get, TypeOK, server, cache
<1>4. CASE ~anyHeadroom(versions[seen], policy)
  BY <1>4 DEF Get, TypeOK, server, cache
<1> QED
  BY <1>3, <1>4

LEMMA TypePatch == TypeOK /\ Patch => TypeOK'
<1> SUFFICES ASSUME TypeOK, Patch PROVE TypeOK'
  OBVIOUS
<1>1. wanted \in [Containers -> Resources]
  BY DEF TypeOK, Patch
<1>2. /\ versions' \in Seq([Containers -> Resources]) /\ versions' # <<>>
      /\ Len(versions') >= Len(versions)
  BY <1>1 DEF TypeOK, Patch
<1>3. seen' \in 1 .. Len(versions')
  BY <1>2 DEF TypeOK, Patch, cache
<1> QED
  BY <1>2, <1>3 DEF TypeOK, Patch, Return, cache

LEMMA SyncMoves ==
  ASSUME SyncPod
  PROVE  /\ UNCHANGED versions /\ UNCHANGED worker
         /\ (seen < Len(versions) /\ seen' = seen + 1) \/ seen' = seen
BY Zenon DEF SyncPod, server

LEMMA TypeNext == TypeOK /\ [Next]_vars => TypeOK'
<1> SUFFICES ASSUME TypeOK, [Next]_vars PROVE TypeOK'
  OBVIOUS
<1>1. CASE DeletePod
  BY <1>1 DEF DeletePod, TypeOK, cache, worker
<1>2. CASE SyncPod
  <2>1. Len(versions) \in Nat
    BY LatestType
  <2>2. seen' \in 1 .. Len(versions')
    BY <1>2, <2>1, SyncMoves DEF TypeOK
  <2>3. cachedAlive' \in BOOLEAN
    BY <1>2 DEF SyncPod, TypeOK
  <2> QED
    BY <1>2, <2>2, <2>3 DEF SyncPod, TypeOK, server, worker
<1>3. ASSUME NEW p \in Policies, Reconcile(p) PROVE TypeOK'
  BY <1>3, ConstantsAssumption DEF Reconcile, TypeOK, server, cache
<1>4. CASE Get
  BY <1>4, TypeGet
<1>5. CASE Patch
  BY <1>5, TypePatch
<1>6. CASE GetFails \/ PatchFails \/ FallbackFails
  BY <1>6 DEF GetFails, PatchFails, FallbackFails, Return, TypeOK, server, cache
<1>7. CASE Fallback
  BY <1>7 DEF Fallback, Return, TypeOK, cache
<1>8. CASE Restart
  BY <1>8 DEF Restart, Return, TypeOK, server
<1>9. CASE UNCHANGED vars
  BY <1>9 DEF vars, server, cache, worker, TypeOK
<1> QED
  BY <1>1, <1>2, <1>3, <1>4, <1>5, <1>6, <1>7, <1>8, <1>9 DEF Next, Execute

(* Every variable of the model of scale_up.go keeps its type, and Execute  *)
(* holds computed resources exactly between its read and its patch.        *)
THEOREM TypeCorrect == Spec => []TypeOK
BY TypeInit, TypeNext, PTL DEF Spec

----------------------------------------------------------------------------
(* The inductive invariant.  Along the versions the resources only grow;   *)
(* the server is at most one resize ahead of the cache, however many       *)
(* versions that is; and a resize that waits to be applied is between the  *)
(* two.                                                                    *)

Ordered ==
  \A i, j \in 1 .. Len(versions) : i <= j =>
    \A c \in Containers : Below(versions[i][c], versions[j][c])

OneAhead ==
  \A p \in Policies : Working(p) =>
    \A c \in Containers : Below(Latest[c], Raised(versions[seen][c], p))

Pending ==
  pc = "patch" =>
    /\ Working(policy)
    /\ \A c \in Containers :
         /\ Below(Latest[c], wanted[c])
         /\ Below(wanted[c], Raised(versions[seen][c], policy))

GivenUp ==
  pc = "fallback" =>
    /\ Working(policy)
    /\ \A c \in Containers : ~Headroom(Latest[c], policy)

IInv == TypeOK /\ Ordered /\ OneAhead /\ Pending /\ GivenUp

(* A step that leaves the versions alone and moves the cache only forward  *)
LEMMA CacheMoves ==
  ASSUME TypeOK, Ordered, UNCHANGED versions,
         seen' \in 1 .. Len(versions), seen <= seen',
         NEW p \in Policies, Working(p), NEW c \in Containers,
         NEW r \in Resources, Below(r, Raised(versions[seen][c], p))
  PROVE  Below(r, Raised(versions[seen'][c], p))
<1>1. seen \in 1 .. Len(versions)
  BY DEF TypeOK
<1>2. versions[seen][c] \in Resources /\ versions[seen'][c] \in Resources
  BY <1>1, LatestType
<1>3. Below(versions[seen][c], versions[seen'][c])
  BY <1>1 DEF Ordered
<1>4. Below(Raised(versions[seen][c], p), Raised(versions[seen'][c], p))
  BY <1>2, <1>3, RaisedMonotone
<1> QED
  BY <1>2, <1>4, RaisedType, BelowTransitive

(* Without headroom in the cache there is none on the server. *)
LEMMA NoHeadroomAhead ==
  ASSUME NEW p, Working(p), NEW r \in Resources, NEW v \in Resources,
         Below(v, r), Below(r, Raised(v, p)), ~Headroom(v, p)
  PROVE  ~Headroom(r, p)
<1>1. Raised(v, p) = v
  BY DEF Raised
<1>2. Below(v, r) /\ Below(r, v)
  BY <1>1
<1>3. MaxCPULimit[p] \in Nat
  BY ConstantsAssumption DEF Working
<1>4. Baseline(v) \in Nat \cup {None} /\ Baseline(r) \in Nat \cup {None}
  BY BaselineType
<1> QED
  BY <1>2, <1>3, <1>4, ConstantsAssumption DEF Below, Headroom

LEMMA InvInit == Init => IInv
<1> SUFFICES ASSUME Init PROVE IInv
  OBVIOUS
<1>1. TypeOK
  BY TypeInit
<1>2. Len(versions) = 1 /\ seen = 1 /\ Latest = versions[1]
  BY DEF Init, Latest
<1>3. \A c \in Containers : versions[1][c] \in Resources
  BY <1>1, <1>2, LatestType
<1>4. Ordered
  <2> SUFFICES ASSUME NEW i \in 1 .. Len(versions), NEW j \in 1 .. Len(versions),
                      NEW c \in Containers
               PROVE  Below(versions[i][c], versions[j][c])
    BY DEF Ordered
  <2>1. i = 1 /\ j = 1
    BY <1>2
  <2> QED
    BY <1>3, <2>1, BelowReflexive
<1>5. OneAhead
  BY <1>2, <1>3, RaisedAbove DEF OneAhead
<1>6. Pending /\ GivenUp
  BY DEF Init, Pending, GivenUp
<1> QED
  BY <1>1, <1>4, <1>5, <1>6 DEF IInv

(* The steps that write nothing to the server's copy of the resources *)
LEMMA InvQuiet ==
  ASSUME IInv, TypeOK', UNCHANGED versions, seen <= seen',
         pc' \in {"idle", "get"} \/ UNCHANGED worker
  PROVE  IInv'
<1>1. UNCHANGED Latest
  BY DEF Latest
<1>2. seen' \in 1 .. Len(versions)
  BY DEF TypeOK
<1>3. \A c \in Containers : Latest[c] \in Resources
  BY LatestType DEF IInv
<1>4. Ordered'
  BY DEF IInv, Ordered
<1>5. OneAhead'
  <2> SUFFICES ASSUME NEW p \in Policies, Working(p), NEW c \in Containers
               PROVE  Below(Latest[c], Raised(versions[seen'][c], p))
    BY <1>1 DEF OneAhead, Working
  <2>1. Below(Latest[c], Raised(versions[seen][c], p))
    BY DEF IInv, OneAhead
  <2> QED
    BY <1>2, <1>3, <2>1, CacheMoves DEF IInv
<1>6. Pending'
  <2> SUFFICES ASSUME pc' = "patch"
               PROVE  /\ Working(policy')
                      /\ \A c \in Containers :
                           /\ Below(Latest[c], wanted'[c])
                           /\ Below(wanted'[c], Raised(versions[seen'][c], policy'))
    BY <1>1 DEF Pending, Working
  <2>1. pc = "patch" /\ policy' = policy /\ wanted' = wanted
    BY DEF worker
  <2>2. Working(policy) /\ policy \in Policies
    BY <2>1 DEF IInv, Pending, Working
  <2>3. ASSUME NEW c \in Containers
        PROVE  /\ Below(Latest[c], wanted[c])
               /\ Below(wanted[c], Raised(versions[seen'][c], policy))
    <3>1. /\ Below(Latest[c], wanted[c])
          /\ Below(wanted[c], Raised(versions[seen][c], policy))
      BY <2>1 DEF IInv, Pending
    <3>2. wanted[c] \in Resources
      BY <2>1 DEF IInv, TypeOK
    <3> QED
      BY <1>2, <2>2, <3>1, <3>2, CacheMoves DEF IInv
  <2> QED
    BY <2>1, <2>2, <2>3
<1>7. GivenUp'
  <2>1. CASE pc' \in {"idle", "get"}
    BY <2>1 DEF GivenUp
  <2>2. CASE UNCHANGED worker
    BY <1>1, <2>2 DEF GivenUp, IInv, worker, Working, Headroom
  <2> QED
    BY <2>1, <2>2
<1> QED
  BY <1>4, <1>5, <1>6, <1>7 DEF IInv

LEMMA InvGet == IInv /\ Get => IInv'
<1> SUFFICES ASSUME IInv, Get PROVE IInv'
  OBVIOUS
<1>1. TypeOK'
  BY TypeGet DEF IInv
<1>2. UNCHANGED <<versions, seen, policy>> /\ UNCHANGED Latest
  BY DEF Get, server, cache, Latest
<1>3. policy \in Policies /\ Working(policy)
  BY ConstantsAssumption DEF Get, IInv, TypeOK, Working
<1>4. Ordered' /\ OneAhead'
  BY <1>2 DEF IInv, Ordered, OneAhead, Working
<1>5. \A c \in Containers :
        /\ versions[seen][c] \in Resources /\ Latest[c] \in Resources
        /\ Below(Latest[c], Raised(versions[seen][c], policy))
        /\ Below(versions[seen][c], Latest[c])
  <2>1. seen \in 1 .. Len(versions) /\ Len(versions) \in 1 .. Len(versions)
    BY LatestType DEF IInv, TypeOK
  <2> QED
    BY <1>3, <2>1, LatestType DEF IInv, OneAhead, Ordered, Latest
<1>6. CASE anyHeadroom(versions[seen], policy)
  <2>1. wanted' = [c \in Containers |-> Raised(versions[seen][c], policy)]
        /\ pc' = "patch"
    BY <1>6 DEF Get
  <2>2. \A c \in Containers :
          /\ Below(Latest[c], wanted'[c])
          /\ Below(wanted'[c], Raised(versions[seen][c], policy))
    BY <1>3, <1>5, <2>1, RaisedType, BelowReflexive
  <2>3. Pending'
    BY <1>2, <1>3, <2>2 DEF Pending, Working
  <2>4. GivenUp'
    BY <2>1 DEF GivenUp
  <2> QED
    BY <1>1, <1>4, <2>3, <2>4 DEF IInv
<1>7. CASE ~anyHeadroom(versions[seen], policy)
  <2>1. pc' = "fallback"
    BY <1>7 DEF Get
  <2>2. \A c \in Containers : ~Headroom(Latest[c], policy)
    BY <1>3, <1>5, <1>7, NoHeadroomAhead DEF anyHeadroom
  <2>3. GivenUp' /\ Pending'
    BY <1>2, <1>3, <2>1, <2>2 DEF GivenUp, Pending, Working, Headroom
  <2> QED
    BY <1>1, <1>4, <2>3 DEF IInv
<1> QED
  BY <1>6, <1>7

LEMMA InvPatch == OnePolicy /\ IInv /\ Patch => IInv'
<1> SUFFICES ASSUME OnePolicy, IInv, Patch PROVE IInv'
  OBVIOUS
<1>1. TypeOK'
  BY TypePatch DEF IInv
<1>2. CASE wanted = Latest
  <2>1. UNCHANGED <<versions, seen>> /\ pc' = "idle"
    BY <1>2 DEF Patch, Return, cache
  <2>2. seen <= seen'
    BY <2>1 DEF IInv, TypeOK
  <2> QED
    BY <1>1, <2>1, <2>2, InvQuiet
<1>3. CASE wanted # Latest
  <2> DEFINE n == Len(versions)
  <2>1. /\ n \in Nat /\ n >= 1 /\ Len(versions') = n + 1
        /\ \A i \in 1 .. n : versions'[i] = versions[i]
        /\ versions'[n + 1] = wanted /\ Latest' = wanted
    BY <1>3, LatestType DEF Patch, IInv, TypeOK, Latest
  <2>2. /\ seen' = seen /\ seen \in 1 .. n /\ pc' = "idle"
        /\ versions'[seen'] = versions[seen]
    BY <2>1 DEF Patch, Return, cache, IInv, TypeOK
  <2>3. \A c \in Containers :
          /\ wanted[c] \in Resources
          /\ Below(Latest[c], wanted[c])
          /\ Below(wanted[c], Raised(versions[seen][c], policy))
    BY DEF Patch, IInv, TypeOK, Pending
  <2>4. Ordered'
    <3> SUFFICES ASSUME NEW i \in 1 .. n + 1, NEW j \in 1 .. n + 1, i <= j,
                        NEW c \in Containers
                 PROVE  Below(versions'[i][c], versions'[j][c])
      BY <2>1 DEF Ordered
    <3>1. CASE j <= n
      BY <2>1, <3>1 DEF IInv, Ordered
    <3>2. CASE i <= n /\ j = n + 1
      <4>1. Below(versions[i][c], Latest[c])
        BY <2>1, <3>2 DEF IInv, Ordered, Latest
      <4>2. versions[i][c] \in Resources /\ Latest[c] \in Resources
        BY <2>1, <3>2, LatestType DEF IInv
      <4>3. Below(versions[i][c], wanted[c])
        BY <2>3, <4>1, <4>2, BelowTransitive
      <4> QED
        BY <2>1, <3>2, <4>3
    <3>3. CASE i = n + 1 /\ j = n + 1
      BY <2>1, <2>3, <3>3, BelowReflexive
    <3> QED
      BY <2>1, <3>1, <3>2, <3>3
  <2>5. OneAhead'
    <3>1. Working(policy) /\ policy \in Policies
      BY DEF Patch, IInv, Pending, Working
    <3>2. \A p \in Policies : Working(p) => p = policy
      BY <3>1 DEF OnePolicy
    <3> QED
      BY <2>1, <2>2, <2>3, <3>2 DEF OneAhead, Working
  <2>6. Pending' /\ GivenUp'
    BY <2>2 DEF Pending, GivenUp
  <2> QED
    BY <1>1, <2>4, <2>5, <2>6 DEF IInv
<1> QED
  BY <1>2, <1>3

LEMMA InvNext == OnePolicy /\ IInv /\ [Next]_vars => IInv'
<1> SUFFICES ASSUME OnePolicy, IInv, [Next]_vars PROVE IInv'
  OBVIOUS
<1>1. TypeOK /\ TypeOK'
  BY TypeNext DEF IInv
<1>2. seen \in Nat /\ Len(versions) \in Nat
  BY <1>1, LatestType DEF TypeOK
<1>3. CASE Get
  BY <1>3, InvGet
<1>4. CASE Patch
  BY <1>4, InvPatch
<1>5. CASE SyncPod
  <2>1. UNCHANGED versions /\ UNCHANGED worker /\ seen <= seen'
    BY <1>2, <1>5, SyncMoves
  <2> QED
    BY <1>1, <2>1, InvQuiet
<1>6. CASE Restart
  <2>1. UNCHANGED versions /\ pc' = "idle" /\ seen <= seen'
    BY <1>2, <1>6 DEF Restart, Return, server
  <2> QED
    BY <1>1, <2>1, InvQuiet
<1>7. CASE DeletePod \/ UNCHANGED vars
  <2>1. UNCHANGED versions /\ UNCHANGED worker /\ seen <= seen'
    BY <1>2, <1>7 DEF DeletePod, vars, server, cache, worker
  <2> QED
    BY <1>1, <2>1, InvQuiet
<1>8. CASE \/ \E p \in Policies : Reconcile(p)
           \/ GetFails \/ PatchFails \/ Fallback \/ FallbackFails
  <2>1. UNCHANGED versions /\ pc' \in {"idle", "get"} /\ seen <= seen'
    BY <1>2, <1>8 DEF Reconcile, GetFails, PatchFails, Fallback, FallbackFails,
                      Return, server, cache
  <2> QED
    BY <1>1, <2>1, InvQuiet
<1> QED
  BY <1>3, <1>4, <1>5, <1>6, <1>7, <1>8 DEF Next, Execute

----------------------------------------------------------------------------
LEMMA InvAlways == OnePolicy => (Spec => []IInv)
<1> SUFFICES ASSUME OnePolicy PROVE Spec => []IInv
  OBVIOUS
<1>1. IInv /\ [Next]_vars => IInv'
  BY InvNext
<1> QED
  BY InvInit, <1>1, PTL DEF Spec

LEMMA LatestOnlyGrows ==
  ASSUME IInv, IInv', [Next]_vars, NEW c \in Containers
  PROVE  NotLowered(Latest[c], Latest'[c])
<1>1. Latest[c] \in Resources /\ Latest'[c] \in Resources
  BY LatestType DEF IInv, TypeOK, Latest
<1>2. Below(Latest[c], Latest'[c])
  <2>1. CASE UNCHANGED versions
    BY <1>1, <2>1, BelowReflexive DEF Latest
  <2>2. CASE Patch /\ wanted # Latest
    BY <2>2 DEF Patch, IInv, Pending, TypeOK, Latest
  <2> QED
    BY <2>1, <2>2 DEF Next, Execute, vars, server, DeletePod, SyncPod, Reconcile, Get,
       GetFails, Patch, PatchFails, Fallback, FallbackFails, Restart
<1> QED
  BY <1>1, <1>2 DEF Below, NotLowered, Baseline, Resources

(* No patch of ScaleUp lowers a CPU limit or removes it, for any lag of    *)
(* the cache, any failing call and any restart, when one working policy    *)
(* selects the pod.                                                        *)
THEOREM NeverScaledDown == OnePolicy /\ Spec => LimitsOnlyRaised
<1> SUFFICES ASSUME OnePolicy PROVE Spec => LimitsOnlyRaised
  OBVIOUS
<1>1. IInv /\ IInv' /\ [Next]_vars
        => [\A c \in Containers : NotLowered(Latest[c], Latest'[c])]_vars
  BY LatestOnlyGrows
<1>2. Spec => []IInv
  BY InvAlways
<1> QED
  BY <1>1, <1>2, PTL DEF Spec, LimitsOnlyRaised

(* The fallback evicts the pod only when no container has headroom on the  *)
(* server, although the decision was taken from the cache.                 *)
THEOREM FallbackJustified == OnePolicy /\ Spec => EvictedOnlyAtMax
<1> SUFFICES ASSUME OnePolicy PROVE Spec => EvictedOnlyAtMax
  OBVIOUS
<1>1. IInv => [Fallback => \A c \in Containers :
        Baseline(Latest[c]) # None => Baseline(Latest[c]) >= MaxCPULimit[policy]]_vars
  <2> SUFFICES ASSUME IInv, Fallback, NEW c \in Containers, Baseline(Latest[c]) # None
               PROVE  Baseline(Latest[c]) >= MaxCPULimit[policy]
    OBVIOUS
  <2>1. Working(policy) /\ ~Headroom(Latest[c], policy)
    BY DEF Fallback, IInv, GivenUp
  <2>2. MaxCPULimit[policy] \in Nat
    BY <2>1, ConstantsAssumption DEF Working
  <2>3. Baseline(Latest[c]) \in Nat
    BY LatestType, BaselineType DEF IInv
  <2> QED
    BY <2>1, <2>2, <2>3 DEF Headroom
<1>2. Spec => []IInv
  BY InvAlways
<1> QED
  BY <1>1, <1>2, PTL DEF EvictedOnlyAtMax

----------------------------------------------------------------------------
(* The end of resizing *)

(* b comes between v and what a resize makes of v.  If its limit is not    *)
(* that of a, which comes before it, the resize raised it.                 *)
LEMMA ChangeIsRaise ==
  ASSUME NEW p, Working(p), NEW v \in Resources, NEW a \in Resources, NEW b \in Resources,
         Below(v, a), Below(a, b), Below(b, Raised(v, p)), b # a
  PROVE  BroughtUp(a, b, p)
<1>1. a.request = b.request /\ a.limit # b.limit
  BY DEF Below, Resources
<1>2. b.limit # None
  BY <1>1 DEF Below
<1>3. a.limit = None \/ b.limit > a.limit
  BY <1>1, <1>2 DEF Below, Baseline, Resources
<1>4. Headroom(v, p)
  <2> SUFFICES ASSUME ~Headroom(v, p) PROVE FALSE
    OBVIOUS
  <2>1. Below(b, v)
    BY DEF Raised
  <2>2. v.limit # None /\ a.limit # None
    BY <1>2, <2>1 DEF Below
  <2>3. a.limit \in Nat /\ b.limit \in Nat /\ v.limit \in Nat
    BY <1>2, <2>2 DEF Resources
  <2>4. b.limit <= v.limit /\ v.limit <= a.limit
    BY <1>2, <2>1, <2>2, <2>3, ConstantsAssumption DEF Below, Baseline
  <2> QED
    BY <1>3, <2>2, <2>3, <2>4
<1>5. b.limit \in Nat /\ MaxCPULimit[p] \in Nat
  BY <1>2, ConstantsAssumption DEF Resources, Working
<1>6. Baseline(b) = b.limit
  BY <1>2 DEF Baseline
<1>7. b.limit <= newMillis(Baseline(v), p)
  BY <1>4, <1>5, <1>6, RaisedFields, ConstantsAssumption DEF Below
<1>8. b.limit <= MaxCPULimit[p]
  BY <1>4, <1>5, <1>7, RaisedFields
<1> QED
  BY <1>2, <1>3, <1>8 DEF BroughtUp

(* Every resize raises a limit, when one working policy selects the pod: a *)
(* patch that repeats an earlier one or was computed before it makes no    *)
(* new version at all.                                                     *)
THEOREM ResizesAreRaises == OnePolicy /\ Spec => ResizesRaise
<1> SUFFICES ASSUME OnePolicy PROVE Spec => ResizesRaise
  OBVIOUS
<1>1. IInv /\ [Next]_vars
        => [versions' # versions =>
              \E c \in Containers : BroughtUp(Latest[c], Latest'[c], policy)]_vars
  <2> SUFFICES ASSUME IInv, [Next]_vars, versions' # versions
               PROVE  \E c \in Containers : BroughtUp(Latest[c], Latest'[c], policy)
    OBVIOUS
  <2>1. Patch /\ wanted # Latest
    BY DEF Next, Execute, vars, server, DeletePod, SyncPod, Reconcile, Get,
       GetFails, Patch, PatchFails, Fallback, FallbackFails, Restart
  <2>2. Latest' = wanted /\ wanted \in [Containers -> Resources]
        /\ Latest \in [Containers -> Resources]
    BY <2>1, LatestType, ConstantsAssumption DEF Patch, IInv, TypeOK, Latest
  <2>3. PICK c \in Containers : wanted[c] # Latest[c]
    BY <2>1, <2>2
  <2>4. Working(policy) /\ Below(Latest[c], wanted[c])
        /\ Below(wanted[c], Raised(versions[seen][c], policy))
    BY <2>1 DEF Patch, IInv, Pending
  <2>5. seen \in 1 .. Len(versions) /\ Len(versions) \in 1 .. Len(versions)
    BY LatestType DEF IInv, TypeOK
  <2>6. versions[seen][c] \in Resources /\ Below(versions[seen][c], Latest[c])
    BY <2>5, LatestType DEF IInv, Ordered, Latest
  <2> QED
    BY <2>2, <2>3, <2>4, <2>6, ChangeIsRaise
<1>2. Spec => []IInv
  BY InvAlways
<1> QED
  BY <1>1, <1>2, PTL DEF Spec, ResizesRaise

----------------------------------------------------------------------------
(* The bound of the policies.  Whatever several policies do to one pod,    *)
(* what a container has was its own from the start or was computed below   *)
(* the maximum of the policy that computed it: in every version, in every  *)
(* copy Execute may read, and in the patch that waits.                     *)

Within(r, c) ==
  \/ r = versions[1][c]
  \/ \E p \in Policies : Working(p) /\ r.limit \in Nat /\ r.limit <= MaxCPULimit[p]

AllWithin ==
  /\ \A i \in 1 .. Len(versions), c \in Containers : Within(versions[i][c], c)
  /\ pc = "patch" => \A c \in Containers : Within(wanted[c], c)

LEMMA RaisedWithin ==
  ASSUME TypeOK, NEW p, Working(p), NEW c \in Containers, NEW r \in Resources, Within(r, c)
  PROVE  Within(Raised(r, p), c)
<1>1. CASE ~Headroom(r, p)
  BY <1>1 DEF Raised
<1>2. CASE Headroom(r, p)
  BY <1>2, RaisedFields DEF Within, Working
<1> QED
  BY <1>1, <1>2

LEMMA NextWithin == TypeOK /\ AllWithin /\ [Next]_vars => AllWithin'
<1> SUFFICES ASSUME TypeOK, AllWithin, [Next]_vars PROVE AllWithin'
  OBVIOUS
<1>1. Len(versions) \in Nat /\ Len(versions) >= 1
  BY LatestType
<1>2. CASE Get /\ anyHeadroom(versions[seen], policy)
  <2>1. /\ wanted' = [c \in Containers |-> Raised(versions[seen][c], policy)]
        /\ UNCHANGED versions
    BY <1>2 DEF Get, server
  <2>2. Working(policy)
    BY <1>2, ConstantsAssumption DEF Get, TypeOK, Working
  <2>3. seen \in 1 .. Len(versions)
    BY DEF TypeOK
  <2>4. \A c \in Containers : Within(Raised(versions[seen][c], policy), c)
    <3> TAKE c \in Containers
    <3>1. versions[seen][c] \in Resources /\ Within(versions[seen][c], c)
      BY <2>3, LatestType DEF AllWithin
    <3> QED
      BY <2>2, <3>1, RaisedWithin
  <2> QED
    BY <2>1, <2>4 DEF AllWithin, Within
<1>3. CASE Patch /\ wanted # Latest
  <2>1. /\ versions' = Append(versions, wanted) /\ pc = "patch" /\ pc' # "patch"
    BY <1>3 DEF Patch, Return
  <2>2. /\ Len(versions') = Len(versions) + 1
        /\ \A i \in 1 .. Len(versions) : versions'[i] = versions[i]
        /\ versions'[Len(versions) + 1] = wanted
    BY <2>1 DEF TypeOK
  <2>3. \A c \in Containers : \A r : Within(r, c)' <=> Within(r, c)
    BY <1>1, <2>2 DEF Within, Working
  <2>4. ASSUME NEW i \in 1 .. Len(versions'), NEW c \in Containers
        PROVE  Within(versions'[i][c], c)
    <3>1. CASE i \in 1 .. Len(versions)
      BY <2>2, <3>1 DEF AllWithin
    <3>2. CASE i = Len(versions) + 1
      BY <2>1, <2>2, <3>2 DEF AllWithin
    <3> QED
      BY <1>1, <2>2, <3>1, <3>2
  <2>5. \A i \in 1 .. Len(versions'), c \in Containers :
          versions'[i][c] = versions'[1][c]
            \/ \E p \in Policies : /\ Working(p) /\ versions'[i][c].limit \in Nat
                                   /\ versions'[i][c].limit <= MaxCPULimit[p]
    BY <1>1, <2>2, <2>4 DEF Within
  <2> QED
    BY <2>1, <2>5 DEF AllWithin, Within, Working
<1>4. CASE UNCHANGED versions /\ (pc' # "patch" \/ UNCHANGED <<pc, wanted>>)
  BY <1>4 DEF AllWithin, Within, Working
<1> QED
  BY <1>2, <1>3, <1>4 DEF Next, Execute, vars, server, cache, worker, DeletePod, SyncPod,
     Reconcile, Get, GetFails, Patch, PatchFails, Fallback, FallbackFails, Restart, Return

(* No patch takes a container beyond the maximum, for any number of        *)
(* policies with different maxima on one pod: one whose limit is above it  *)
(* from the start keeps what it has.                                       *)
THEOREM StaysWithinMax == Spec => []WithinMax
<1>1. Init => AllWithin
  <2> SUFFICES ASSUME Init PROVE AllWithin
    OBVIOUS
  <2>1. Len(versions) = 1 /\ pc = "idle"
    BY DEF Init
  <2> QED
    BY <2>1 DEF AllWithin, Within
<1>2. TypeOK /\ AllWithin => WithinMax
  <2> SUFFICES ASSUME TypeOK, AllWithin, NEW c \in Containers
               PROVE  \/ Latest[c] = versions[1][c]
                      \/ \E p \in Policies : /\ MaxCPULimit[p] # None
                                             /\ Latest[c].limit <= MaxCPULimit[p]
    BY DEF WithinMax
  <2>1. Len(versions) \in 1 .. Len(versions)
    BY LatestType
  <2> QED
    BY <2>1 DEF AllWithin, Within, Latest, Working
<1> QED
  BY <1>1, <1>2, TypeInit, TypeNext, NextWithin, PTL DEF Spec

=============================================================================
