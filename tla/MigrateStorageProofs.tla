------------------------ MODULE MigrateStorageProofs ------------------------
(***************************************************************************)
(* Proofs about MigrateStorage, for any number of volumes, claims and      *)
(* faults and any access modes and mounts: the deployment never refers to  *)
(* a claim that does not exist, it goes over to the target class as a      *)
(* whole, never away from a claim its main containers may write, and once  *)
(* there it stays.                                                         *)
(***************************************************************************)
EXTENDS MigrateStorage, TLAPS

(* Whatever refers to a claim, the deployment, its copy in the informer    *)
(* and the two copies in Execute, refers to one that exists.               *)
InUse(refs) == \A v \in Volumes : claims[refs[v]] # None

AllInUse == InUse(vols) /\ InUse(volsCache) /\ InUse(orig) /\ InUse(dep)

(* The volumes Execute has not come to yet are as it read them. *)
Untouched == next # 0 => \A v \in Volumes : v >= next => dep[v] = orig[v]

IInv == TypeOK /\ AllInUse /\ Untouched

----------------------------------------------------------------------------
(* The name of a new claim is none that anything refers to. *)
LEMMA NewNameFresh ==
  ASSUME NewClaims \ Used # {}, TypeOK
  PROVE  /\ NewName \in NewClaims /\ NewName \in ClaimIds
         /\ \A v \in Volumes : /\ vols[v] # NewName /\ volsCache[v] # NewName
                               /\ orig[v] # NewName /\ dep[v] # NewName
<1>1. NewName \in NewClaims /\ NewName \notin Used
  BY DEF NewName
<1>2. \A v \in Volumes : vols[v] \in Used /\ volsCache[v] \in Used
                         /\ orig[v] \in Used /\ dep[v] \in Used
  BY DEF Used, Range, TypeOK
<1> QED
  BY <1>1, <1>2 DEF ClaimIds

(* A new claim does not change what the references mean. *)
LEMMA CreatedClaims ==
  ASSUME IInv, Migratable, Created
  PROVE  /\ NewName \in ClaimIds
         /\ claims' \in [ClaimIds -> Claims \cup {None}] /\ claimCache' \subseteq ClaimIds
         /\ claims'[NewName] # None /\ claims'[NewName].onTarget
         /\ \A v \in Volumes : /\ claims'[vols[v]] = claims[vols[v]]
                               /\ claims'[volsCache[v]] = claims[volsCache[v]]
                               /\ claims'[orig[v]] = claims[orig[v]]
                               /\ claims'[dep[v]] = claims[dep[v]]
<1> DEFINE new == [onTarget |-> TRUE, modes |-> Old.modes]
<1>1. /\ NewName \in ClaimIds
      /\ \A v \in Volumes : /\ vols[v] # NewName /\ volsCache[v] # NewName
                            /\ orig[v] # NewName /\ dep[v] # NewName
  BY NewNameFresh DEF IInv, Migratable
<1>2. Old \in Claims
  BY DEF IInv, AllInUse, InUse, TypeOK, Migratable, Reading, Old
<1>3. new \in Claims /\ new.onTarget
  BY <1>2 DEF Claims
<1>4. claims' = [claims EXCEPT ![NewName] = new]
  BY DEF Created
<1> HIDE DEF new
<1>5. \A c \in ClaimIds : claims'[c] = IF c = NewName THEN new ELSE claims[c]
  BY <1>4 DEF IInv, TypeOK
<1>6. claims' \in [ClaimIds -> Claims \cup {None}]
  BY <1>3, <1>4 DEF IInv, TypeOK
<1>7. claimCache' \subseteq ClaimIds
  BY DEF Created, IInv, TypeOK
<1>8. new # None
  BY <1>3, ConstantsAssumption
<1> QED
  BY <1>1, <1>3, <1>5, <1>6, <1>7, <1>8 DEF IInv, TypeOK

(* The deployment starts with claims that exist. *)
LEMMA InitIInv == Init => IInv
<1> SUFFICES ASSUME Init PROVE IInv
  OBVIOUS
<1> PICK old \in [OldClaims -> Claims] :
      claims = [c \in ClaimIds |-> IF c \in OldClaims THEN old[c] ELSE None]
  BY DEF Init
<1>1. \A v \in Volumes : vols[v] \in OldClaims /\ vols[v] \in ClaimIds
  BY DEF Init, ClaimIds
<1>2. \A c \in OldClaims : c \in ClaimIds /\ claims[c] = old[c] /\ claims[c] # None
  BY ConstantsAssumption DEF ClaimIds
<1>3. AllInUse
  BY <1>1, <1>2 DEF Init, AllInUse, InUse
<1>4. \A v \in Volumes : ~(v < 0)
  BY DEF Volumes
<1>5. TypeOK
  <2>1. /\ vols \in [Volumes -> ClaimIds] /\ claims \in [ClaimIds -> Claims \cup {None}]
        /\ claimCache \subseteq ClaimIds
    BY DEF Init, ClaimIds
  <2> QED
    BY <1>4, <2>1, ConstantsAssumption DEF Init, TypeOK
<1>6. Untouched
  BY DEF Init, Untouched
<1> QED
  BY <1>3, <1>5, <1>6 DEF IInv

----------------------------------------------------------------------------
(* Steps that leave the claims alone and end the call, or do not touch it. *)
LEMMA GiveUpIInv ==
  ASSUME IInv, GiveUp, faults' \in 0 .. MaxFaults
  PROVE  IInv'
<1>1. \A v \in Volumes : ~(v < 0)
  BY DEF Volumes
<1>2. 0 \in 0 .. NumVolumes + 1
  BY ConstantsAssumption
<1>3. TypeOK'
  BY <1>1, <1>2 DEF IInv, TypeOK, GiveUp, server, cache
<1>4. AllInUse'
  BY DEF IInv, AllInUse, InUse, GiveUp, server, cache
<1>5. Untouched'
  BY DEF Untouched, GiveUp
<1> QED
  BY <1>3, <1>4, <1>5 DEF IInv

LEMMA FaultCounted ==
  ASSUME TypeOK, faults < MaxFaults
  PROVE  faults + 1 \in 0 .. MaxFaults
BY ConstantsAssumption DEF TypeOK

LEMMA BeginIInv == IInv /\ Begin => IInv'
<1> SUFFICES ASSUME IInv, Begin PROVE IInv'
  OBVIOUS
<1>1. \A v \in Volumes : ~(v < 1)
  BY DEF Volumes
<1>2. 1 \in 0 .. NumVolumes + 1
  BY ConstantsAssumption
<1>3. TypeOK'
  BY <1>1, <1>2 DEF IInv, TypeOK, Begin, server, cache
<1>4. AllInUse' /\ Untouched'
  BY DEF IInv, AllInUse, InUse, Untouched, Begin, server, cache
<1> QED
  BY <1>3, <1>4 DEF IInv

(* A volume that is skipped is on the target class as it was read. *)
LEMMA SkipIInv == IInv /\ Skip => IInv'
<1> SUFFICES ASSUME IInv, Skip PROVE IInv'
  OBVIOUS
<1>1. next \in 1 .. NumVolumes /\ NumVolumes \in Nat
  BY ConstantsAssumption DEF Skip, Reading, Volumes
<1>2. next' \in 0 .. NumVolumes + 1 /\ next' = next + 1
  BY <1>1 DEF Skip
<1>3. dep[next] = orig[next]
  BY <1>1 DEF IInv, Untouched, Skip, Reading
<1>4. claims[dep[next]] # None /\ claims[dep[next]].onTarget
  BY <1>3 DEF IInv, AllInUse, InUse, Skip, Reading, Old
<1>5. ASSUME NEW v \in Volumes, v < next + 1
      PROVE  claims[dep[v]] # None /\ claims[dep[v]].onTarget
  <2>1. v = next \/ v < next
    BY <1>1, <1>5 DEF Volumes
  <2> QED
    BY <1>4, <2>1 DEF IInv, TypeOK
<1>6. TypeOK'
  BY <1>2, <1>5 DEF IInv, TypeOK, Skip, server, cache
<1>7. AllInUse'
  BY DEF IInv, AllInUse, InUse, Skip, server, cache
<1>8. Untouched'
  <2>1. \A v \in Volumes : v >= next + 1 => v >= next
    BY <1>1 DEF Volumes
  <2> QED
    BY <1>1, <1>2, <2>1 DEF IInv, Untouched, Skip
<1> QED
  BY <1>6, <1>7, <1>8 DEF IInv

LEMMA CreateIInv == IInv /\ Create => IInv'
<1> SUFFICES ASSUME IInv, Create PROVE IInv'
  OBVIOUS
<1> DEFINE n == NewName
<1>1. next \in 1 .. NumVolumes /\ NumVolumes \in Nat /\ next \in Volumes
  BY ConstantsAssumption DEF Create, Migratable, Reading, Volumes
<1>2. next' \in 0 .. NumVolumes + 1 /\ next' = next + 1
  BY <1>1 DEF Create
<1>3. /\ n \in ClaimIds
      /\ claims' \in [ClaimIds -> Claims \cup {None}] /\ claimCache' \subseteq ClaimIds
      /\ claims'[n] # None /\ claims'[n].onTarget
      /\ \A v \in Volumes : /\ claims'[vols[v]] = claims[vols[v]]
                            /\ claims'[volsCache[v]] = claims[volsCache[v]]
                            /\ claims'[orig[v]] = claims[orig[v]]
                            /\ claims'[dep[v]] = claims[dep[v]]
  BY CreatedClaims DEF Create
<1>4. dep' = [dep EXCEPT ![next] = n]
  BY DEF Create
<1>5. /\ UNCHANGED <<mounts, vols, volsCache, orig, faults>>
  BY DEF Create, Created
<1> HIDE DEF n
<1>6. dep' \in [Volumes -> ClaimIds]
      /\ \A v \in Volumes : dep'[v] = IF v = next THEN n ELSE dep[v]
  BY <1>3, <1>4 DEF IInv, TypeOK
<1>7. ASSUME NEW v \in Volumes, v < next + 1
      PROVE  claims'[dep'[v]] # None /\ claims'[dep'[v]].onTarget
  <2>1. v = next \/ (v # next /\ v < next)
    BY <1>1, <1>7 DEF Volumes
  <2> QED
    BY <1>3, <1>6, <2>1 DEF IInv, TypeOK
<1>8. TypeOK'
  BY <1>2, <1>3, <1>5, <1>6, <1>7 DEF IInv, TypeOK
<1>9. AllInUse'
  BY <1>3, <1>5, <1>6 DEF IInv, AllInUse, InUse
<1>10. Untouched'
  <2>1. \A v \in Volumes : v >= next + 1 => v >= next /\ v # next
    BY <1>1 DEF Volumes
  <2>2. next # 0
    BY <1>1
  <2>3. \A v \in Volumes : v >= next + 1 => dep'[v] = dep[v] /\ dep[v] = orig[v]
    BY <1>6, <2>1, <2>2 DEF IInv, Untouched
  <2>4. orig' = orig
    BY <1>5
  <2> QED
    BY <1>2, <2>3, <2>4 DEF Untouched
<1> QED
  BY <1>8, <1>9, <1>10 DEF IInv

LEMMA CreateFailsIInv == IInv /\ CreateFails => IInv'
<1> SUFFICES ASSUME IInv, CreateFails PROVE IInv'
  OBVIOUS
<1>1. faults' \in 0 .. MaxFaults
  BY FaultCounted DEF CreateFails, IInv
<1>2. CASE Created
  <2>1. /\ claims' \in [ClaimIds -> Claims \cup {None}] /\ claimCache' \subseteq ClaimIds
        /\ \A v \in Volumes : /\ claims'[vols[v]] = claims[vols[v]]
                              /\ claims'[volsCache[v]] = claims[volsCache[v]]
                              /\ claims'[orig[v]] = claims[orig[v]]
                              /\ claims'[dep[v]] = claims[dep[v]]
    BY <1>2, CreatedClaims DEF CreateFails
  <2>2. UNCHANGED <<mounts, vols, volsCache, orig, dep>> /\ next' = 0
    BY <1>2 DEF CreateFails, Created
  <2>3. \A v \in Volumes : ~(v < 0)
    BY DEF Volumes
  <2>4. 0 \in 0 .. NumVolumes + 1
    BY ConstantsAssumption
  <2>5. TypeOK'
    BY <1>1, <2>1, <2>2, <2>3, <2>4 DEF IInv, TypeOK
  <2>6. AllInUse' /\ Untouched'
    BY <2>1, <2>2 DEF IInv, AllInUse, InUse, Untouched
  <2> QED
    BY <2>5, <2>6 DEF IInv
<1>3. CASE UNCHANGED <<server, cache>>
  <2>1. GiveUp
    BY <1>3 DEF CreateFails, GiveUp
  <2> QED
    BY <1>1, <2>1, GiveUpIInv
<1> QED
  BY <1>2, <1>3 DEF CreateFails

LEMMA PatchIInv == IInv /\ Patch => IInv'
<1> SUFFICES ASSUME IInv, Patch PROVE IInv'
  OBVIOUS
<1>1. \A v \in Volumes : ~(v < 0)
  BY DEF Volumes
<1>2. 0 \in 0 .. NumVolumes + 1
  BY ConstantsAssumption
<1>3. vols' = vols \/ vols' = dep
  BY DEF Patch
<1>4. TypeOK'
  BY <1>1, <1>2, <1>3 DEF IInv, TypeOK, Patch, cache
<1>5. AllInUse' /\ Untouched'
  BY <1>3 DEF IInv, AllInUse, InUse, Untouched, Patch, cache
<1> QED
  BY <1>4, <1>5 DEF IInv

LEMMA RestartIInv == IInv /\ Restart => IInv'
<1> SUFFICES ASSUME IInv, Restart PROVE IInv'
  OBVIOUS
<1>1. \A v \in Volumes : ~(v < 0)
  BY DEF Volumes
<1>2. 0 \in 0 .. NumVolumes + 1
  BY ConstantsAssumption
<1>3. faults' \in 0 .. MaxFaults
  BY FaultCounted DEF Restart, IInv
<1>4. TypeOK'
  BY <1>1, <1>2, <1>3 DEF IInv, TypeOK, Restart, server
<1>5. AllInUse' /\ Untouched'
  BY DEF IInv, AllInUse, InUse, Untouched, Restart, server
<1> QED
  BY <1>4, <1>5 DEF IInv

LEMMA SyncIInv ==
  IInv /\ (SyncVols \/ \E c \in ClaimIds : SyncClaim(c)) => IInv'
<1>1. IInv /\ SyncVols => IInv'
  BY DEF IInv, TypeOK, AllInUse, InUse, Untouched, SyncVols, server, execute
<1>2. ASSUME NEW c \in ClaimIds PROVE IInv /\ SyncClaim(c) => IInv'
  BY DEF IInv, TypeOK, AllInUse, InUse, Untouched, SyncClaim, server, execute
<1> QED
  BY <1>1, <1>2

LEMMA NextIInv == IInv /\ [Next]_vars => IInv'
<1> SUFFICES ASSUME IInv, [Next]_vars PROVE IInv'
  OBVIOUS
<1>1. CASE GetClaimFails \/ Refuse
  BY <1>1, GiveUpIInv DEF GetClaimFails, Refuse, IInv, TypeOK
<1>2. CASE PatchFails
  BY <1>2, GiveUpIInv, FaultCounted DEF PatchFails, IInv
<1>3. CASE Begin \/ Skip \/ Create \/ Patch \/ CreateFails \/ Restart
  BY <1>3, BeginIInv, SkipIInv, CreateIInv, PatchIInv, CreateFailsIInv, RestartIInv
<1>4. CASE SyncVols \/ \E c \in ClaimIds : SyncClaim(c)
  BY <1>4, SyncIInv
<1>5. CASE UNCHANGED vars
  BY <1>5 DEF IInv, TypeOK, AllInUse, InUse, Untouched, vars, server, cache, execute
<1> QED
  BY <1>1, <1>2, <1>3, <1>4, <1>5 DEF Next, Execute

LEMMA Invariance == Spec => []IInv
<1> QED
  BY InitIInv, NextIInv, PTL DEF Spec

----------------------------------------------------------------------------
(***************************************************************************)
(* Every variable keeps its type, and the volumes Execute has come past    *)
(* will refer to claims of the target class.                               *)
(***************************************************************************)
THEOREM TypeCorrect == Spec => []TypeOK
<1>1. IInv => TypeOK
  BY DEF IInv
<1> QED
  BY <1>1, Invariance, PTL

(***************************************************************************)
(* The deployment never refers to a claim that does not exist, whatever    *)
(* call of Execute fails, however old the copy it started from and         *)
(* wherever the manager is restarted.                                      *)
(***************************************************************************)
THEOREM ReferencesAlwaysExist == Spec => []ReferencesExist
<1>1. IInv => ReferencesExist
  BY DEF IInv, AllInUse, InUse, ReferencesExist
<1> QED
  BY <1>1, Invariance, PTL

(***************************************************************************)
(* The only step that changes the volumes of the deployment is the patch   *)
(* at the end of Execute, and it puts all of them on the target class.     *)
(***************************************************************************)
THEOREM MigratesAsAWhole == Spec => AllOrNothing
<1>1. IInv /\ [Next]_vars
      => [vols' # vols => \A v \in Volumes : claims'[vols'[v]].onTarget]_vars
  <2> SUFFICES ASSUME IInv, Next, vols' # vols
               PROVE  \A v \in Volumes : claims'[vols'[v]].onTarget
    OBVIOUS
  <2>1. Patch
    BY DEF Next, Execute, Begin, GetClaimFails, GiveUp, Skip, Refuse, Create, CreateFails,
           Created, PatchFails, Restart, SyncVols, SyncClaim, server
  <2>2. vols' = dep /\ claims' = claims /\ next = NumVolumes + 1
    BY <2>1 DEF Patch
  <2>3. \A v \in Volumes : v < next
    BY <2>2, ConstantsAssumption DEF Volumes
  <2> QED
    BY <2>2, <2>3 DEF IInv, TypeOK
<1> QED
  BY <1>1, Invariance, PTL DEF Spec, AllOrNothing

----------------------------------------------------------------------------
(* A volume that a main container may write: a fact that never changes,    *)
(* since a new claim takes over the access modes of the old one.           *)
Writer(w) == FALSE \in mounts[w] /\ "ReadWrite" \in claims[vols[w]].modes

SameModes ==
  \A v \in Volumes : /\ claims[volsCache[v]].modes = claims[vols[v]].modes
                     /\ claims[orig[v]].modes = claims[vols[v]].modes
                     /\ claims[dep[v]].modes = claims[vols[v]].modes

(* Such a volume keeps its claim in every copy ... *)
WritersFixed ==
  \A w \in Volumes : Writer(w) => /\ volsCache[w] = vols[w]
                                  /\ orig[w] = vols[w] /\ dep[w] = vols[w]

(* ... and the volumes that share the claim are the same in every copy but *)
(* the one Execute is still changing.                                      *)
SharersFixed ==
  \A w, v \in Volumes :
    Writer(w) => /\ vols[v] = vols[w] <=> volsCache[v] = vols[w]
                 /\ vols[v] = vols[w] <=> orig[v] = vols[w]
                 /\ dep[v] = vols[w] => orig[v] = vols[w]

OnTargetKept ==
  \A v \in Volumes : next # 0 /\ claims[orig[v]].onTarget => dep[v] = orig[v]

WInv == SameModes /\ WritersFixed /\ SharersFixed /\ OnTargetKept

(* Claims do not change as long as anything refers to them. *)
Stable(refs) == \A v \in Volumes : claims'[refs[v]] = claims[refs[v]]

AllStable == Stable(vols) /\ Stable(volsCache) /\ Stable(orig) /\ Stable(dep)

LEMMA ClaimsStable ==
  ASSUME IInv, [Next]_vars
  PROVE  AllStable /\ mounts' = mounts
<1>1. CASE Create \/ (CreateFails /\ Created)
  <2>1. Migratable /\ Created
    BY <1>1 DEF Create, CreateFails
  <2> QED
    BY <2>1, CreatedClaims DEF AllStable, Stable, Created
<1>2. CASE ~(Create \/ (CreateFails /\ Created))
  <2>1. claims' = claims /\ mounts' = mounts
    BY <1>2 DEF Next, Execute, Begin, GetClaimFails, GiveUp, Skip, Refuse, CreateFails, Patch,
                PatchFails, Restart, SyncVols, SyncClaim, server, vars
  <2> QED
    BY <2>1 DEF AllStable, Stable
<1> QED
  BY <1>1, <1>2

(* Steps that leave the four copies as they are. *)
LEMMA CopiesKeptWInv ==
  ASSUME WInv, AllStable, mounts' = mounts, next' # 0 => next # 0,
         UNCHANGED <<vols, volsCache, orig, dep>>
  PROVE  WInv'
<1>1. \A w \in Volumes : Writer(w)' <=> Writer(w)
  BY DEF Writer, AllStable, Stable
<1>2. SameModes' /\ OnTargetKept'
  BY DEF WInv, SameModes, OnTargetKept, AllStable, Stable
<1>3. WritersFixed' /\ SharersFixed'
  BY <1>1 DEF WInv, WritersFixed, SharersFixed
<1> QED
  BY <1>2, <1>3 DEF WInv

LEMMA InitWInv == Init => WInv
BY DEF Init, WInv, SameModes, WritersFixed, SharersFixed, OnTargetKept

(* The informer catches up. *)
LEMMA CaughtUpWInv ==
  ASSUME WInv, claims' = claims, mounts' = mounts, next' # 0 => next # 0,
         volsCache' = vols, UNCHANGED <<vols, orig, dep>>
  PROVE  WInv'
<1>1. \A w \in Volumes : Writer(w)' <=> Writer(w)
  BY DEF Writer
<1>2. SameModes' /\ OnTargetKept'
  BY DEF WInv, SameModes, OnTargetKept
<1>3. WritersFixed' /\ SharersFixed'
  BY <1>1 DEF WInv, WritersFixed, SharersFixed
<1> QED
  BY <1>2, <1>3 DEF WInv

LEMMA BeginWInv == WInv /\ Begin => WInv'
<1> SUFFICES ASSUME WInv, Begin PROVE WInv'
  OBVIOUS
<1>1. /\ claims' = claims /\ mounts' = mounts /\ vols' = vols /\ volsCache' = volsCache
      /\ orig' = volsCache /\ dep' = volsCache
  BY DEF Begin, server, cache
<1>2. \A w \in Volumes : Writer(w)' <=> Writer(w)
  BY <1>1 DEF Writer
<1>3. SameModes' /\ OnTargetKept'
  BY <1>1 DEF WInv, SameModes, OnTargetKept
<1>4. WritersFixed' /\ SharersFixed'
  BY <1>1, <1>2 DEF WInv, WritersFixed, SharersFixed
<1> QED
  BY <1>3, <1>4 DEF WInv

(* A volume that gets a new claim has no writer. *)
LEMMA CreateWInv == IInv /\ WInv /\ AllStable /\ Create => WInv'
<1> SUFFICES ASSUME IInv, WInv, AllStable, Create PROVE WInv'
  OBVIOUS
<1> DEFINE n == NewName
<1>1. next \in Volumes /\ next # 0 /\ Migratable /\ Created
  BY ConstantsAssumption DEF Create, Migratable, Reading, Volumes
<1>2. /\ UNCHANGED <<mounts, vols, volsCache, orig>>
      /\ claims' = [claims EXCEPT ![n] = [onTarget |-> TRUE, modes |-> Old.modes]]
      /\ dep' = [dep EXCEPT ![next] = n]
  BY DEF Create, Created
<1>3. n \in ClaimIds /\ \A v \in Volumes : vols[v] # n
  BY <1>1, NewNameFresh DEF Migratable, IInv
<1> HIDE DEF n
<1>4. \A v \in Volumes : dep'[v] = IF v = next THEN n ELSE dep[v]
  BY <1>2 DEF IInv, TypeOK
<1>5. claims'[n].modes = claims[orig[next]].modes
  BY <1>2, <1>3 DEF IInv, TypeOK, Old
<1>6. \A w \in Volumes : Writer(w)' <=> Writer(w)
  BY <1>2 DEF Writer, AllStable, Stable
<1>7. ~Writer(next)
  <2>1. claims[orig[next]].modes = claims[vols[next]].modes
    BY <1>1 DEF WInv, SameModes
  <2>2. ASSUME mounts[next] = {TRUE} PROVE FALSE \notin mounts[next]
    BY <2>2, Zenon
  <2>3. CASE claims[vols[next]].modes = {"ReadOnly"}
    BY <2>3 DEF Writer
  <2>4. CASE mounts[next] = {TRUE}
    BY <2>2, <2>4, Zenon DEF Writer
  <2> QED
    BY <1>1, <2>1, <2>3, <2>4 DEF Migratable, pvcUsedReadOnly, Old
<1>8. SameModes'
  <2>1. ASSUME NEW v \in Volumes
        PROVE  claims'[dep'[v]].modes = claims'[vols[v]].modes
    <3>1. CASE v = next
      BY <1>4, <1>5, <3>1 DEF WInv, SameModes, AllStable, Stable
    <3>2. CASE v # next
      BY <1>4, <3>2 DEF WInv, SameModes, AllStable, Stable
    <3> QED
      BY <3>1, <3>2
  <2> QED
    BY <1>2, <2>1 DEF WInv, SameModes, AllStable, Stable
<1>9. WritersFixed'
  BY <1>2, <1>4, <1>6, <1>7 DEF WInv, WritersFixed
<1>10. SharersFixed'
  BY <1>2, <1>3, <1>4, <1>6 DEF WInv, SharersFixed
<1>11. OnTargetKept'
  <2>1. ~claims[orig[next]].onTarget
    BY <1>1 DEF Migratable, Old
  <2> QED
    BY <1>1, <1>2, <1>4, <2>1 DEF WInv, OnTargetKept, AllStable, Stable
<1> QED
  BY <1>8, <1>9, <1>10, <1>11 DEF WInv

(* When Execute has come past a volume with a writer, its claim is on the  *)
(* target class, so that no volume that shares it was moved.               *)
LEMMA WrittenShared ==
  ASSUME IInv, WInv, next = NumVolumes + 1,
         NEW w \in Volumes, NEW v \in Volumes, Writer(w)
  PROVE  vols[v] = vols[w] <=> dep[v] = vols[w]
<1>1. claims[vols[w]].onTarget
  <2>1. w < next
    BY ConstantsAssumption DEF Volumes
  <2>2. dep[w] = vols[w]
    BY DEF WInv, WritersFixed
  <2> QED
    BY <2>1, <2>2 DEF IInv, TypeOK
<1>2. next # 0
  BY ConstantsAssumption
<1>3. orig[v] = vols[w] => dep[v] = vols[w]
  BY <1>1, <1>2 DEF WInv, OnTargetKept
<1> QED
  BY <1>3 DEF WInv, SharersFixed

LEMMA PatchWInv == IInv /\ WInv /\ Patch => WInv'
<1> SUFFICES ASSUME IInv, WInv, Patch PROVE WInv'
  OBVIOUS
<1>1. /\ claims' = claims /\ mounts' = mounts /\ next = NumVolumes + 1 /\ next' = 0
      /\ UNCHANGED <<volsCache, orig, dep>>
  BY DEF Patch, cache
<1>2. CASE vols' = vols
  <2>1. AllStable
    BY <1>1 DEF AllStable, Stable
  <2> QED
    BY <1>1, <1>2, <2>1, CopiesKeptWInv
<1>3. CASE vols' = dep
  <2>1. \A w \in Volumes : Writer(w)' <=> Writer(w)
    BY <1>1, <1>3 DEF Writer, WInv, SameModes
  <2>2. SameModes'
    BY <1>1, <1>3 DEF WInv, SameModes
  <2>3. WritersFixed'
    BY <1>1, <1>3, <2>1 DEF WInv, WritersFixed
  <2>4. SharersFixed'
    <3>1. SUFFICES ASSUME NEW w \in Volumes, NEW v \in Volumes, Writer(w)
                   PROVE  /\ dep[v] = dep[w] <=> volsCache[v] = dep[w]
                          /\ dep[v] = dep[w] <=> orig[v] = dep[w]
      BY <1>1, <1>3, <2>1 DEF SharersFixed
    <3>2. dep[w] = vols[w]
      BY <3>1 DEF WInv, WritersFixed
    <3>3. vols[v] = vols[w] <=> dep[v] = vols[w]
      BY <1>1, <3>1, WrittenShared
    <3> QED
      BY <3>1, <3>2, <3>3 DEF WInv, SharersFixed
  <2>5. OnTargetKept'
    BY <1>1 DEF OnTargetKept
  <2> QED
    BY <2>2, <2>3, <2>4, <2>5 DEF WInv
<1> QED
  BY <1>2, <1>3 DEF Patch

LEMMA NextWInv == IInv /\ WInv /\ [Next]_vars => WInv'
<1> SUFFICES ASSUME IInv, WInv, [Next]_vars PROVE WInv'
  OBVIOUS
<1>1. AllStable /\ mounts' = mounts
  BY ClaimsStable
<1>2. CASE Create
  BY <1>1, <1>2, CreateWInv
<1>3. CASE Begin \/ Patch
  BY <1>3, BeginWInv, PatchWInv
<1>4. CASE Restart \/ SyncVols
  BY <1>4, CaughtUpWInv DEF Restart, SyncVols, server, execute
<1>5. CASE GetClaimFails \/ Skip \/ Refuse \/ CreateFails \/ PatchFails
           \/ (\E c \in ClaimIds : SyncClaim(c)) \/ UNCHANGED vars
  <2>1. UNCHANGED <<vols, volsCache, orig, dep>>
    BY <1>5 DEF GetClaimFails, GiveUp, Skip, Refuse, CreateFails, Created, PatchFails,
                SyncClaim, vars, server, cache, execute
  <2>2. next' # 0 => next # 0
    BY <1>5, ConstantsAssumption
       DEF GetClaimFails, GiveUp, Skip, Reading, Volumes, Refuse, CreateFails, PatchFails,
           SyncClaim, vars, execute
  <2> QED
    BY <1>1, <2>1, <2>2, CopiesKeptWInv
<1> QED
  BY <1>2, <1>3, <1>4, <1>5 DEF Next, Execute

(***************************************************************************)
(* "Si el volumen es escribible, abortamos": no patch takes a volume away  *)
(* from a claim a main container may write, also when another volume of    *)
(* the deployment mounts that claim read-only and comes first.             *)
(***************************************************************************)
THEOREM WrittenClaimsKept == Spec => WrittenClaimKept
<1>1. IInv /\ WInv /\ [Next]_vars
      => [\A v \in Volumes : Written(vols[v]) => vols'[v] = vols[v]]_vars
  <2> SUFFICES ASSUME IInv, WInv, Next, NEW v \in Volumes, Written(vols[v])
               PROVE  vols'[v] = vols[v]
    OBVIOUS
  <2>1. CASE vols' = vols
    BY <2>1
  <2>2. CASE vols' # vols
    <3>1. Patch
      BY <2>2 DEF Next, Execute, Begin, GetClaimFails, GiveUp, Skip, Refuse, Create,
                  CreateFails, Created, PatchFails, Restart, SyncVols, SyncClaim, server
    <3>2. vols' = dep /\ next = NumVolumes + 1
      BY <2>2, <3>1 DEF Patch
    <3>3. PICK w \in Volumes : vols[w] = vols[v] /\ Writer(w)
      BY DEF Written, Writer
    <3> QED
      BY <3>2, <3>3, WrittenShared
  <2> QED
    BY <2>1, <2>2
<1>2. Init => WInv
  BY InitWInv
<1>3. IInv /\ IInv' /\ WInv /\ [Next]_vars => WInv'
  BY NextWInv
<1> QED
  BY <1>1, <1>2, <1>3, Invariance, PTL DEF Spec, WrittenClaimKept

----------------------------------------------------------------------------
(* The deployment, its copy in the informer and the pass that may be       *)
(* running all know only claims of the target class.                       *)
OnTarget(refs) == \A v \in Volumes : claims[refs[v]].onTarget

Settled == Migrated /\ OnTarget(volsCache) /\ (next # 0 => OnTarget(orig))

(* The safety half of Converges: no step takes the deployment off the      *)
(* target class again, and once its copies have caught up no step creates  *)
(* a claim any more, nor undoes this.                                      *)
MigrationFinal ==
  [][/\ Migrated => Migrated'
     /\ Settled => Settled' /\ claims' = claims]_vars

LEMMA MigratedKept ==
  ASSUME IInv, [Next]_vars, Migrated
  PROVE  Migrated'
<1>1. AllStable
  BY ClaimsStable
<1>2. CASE UNCHANGED vols
  BY <1>1, <1>2 DEF Migrated, AllStable, Stable
<1>3. CASE vols' # vols
  <2>1. Patch
    BY <1>3 DEF Next, Execute, Begin, GetClaimFails, GiveUp, Skip, Refuse, Create, CreateFails,
                Created, PatchFails, Restart, SyncVols, SyncClaim, server, vars
  <2>2. vols' = dep /\ claims' = claims /\ next = NumVolumes + 1
    BY <1>3, <2>1 DEF Patch
  <2>3. \A v \in Volumes : v < next
    BY <2>2, ConstantsAssumption DEF Volumes
  <2> QED
    BY <2>2, <2>3 DEF IInv, TypeOK, Migrated
<1> QED
  BY <1>2, <1>3

LEMMA SettledKept ==
  ASSUME IInv, [Next]_vars, Settled
  PROVE  Settled' /\ claims' = claims
<1>1. Migrated' /\ Migrated
  BY MigratedKept DEF Settled
<1>2. ~ Migratable
  BY DEF Settled, OnTarget, Migratable, Reading, Old, Volumes
<1>3. claims' = claims
  BY <1>2 DEF Next, Execute, Begin, GetClaimFails, GiveUp, Skip, Refuse, Create, CreateFails,
              Patch, PatchFails, Restart, SyncVols, SyncClaim, server, vars
<1>4. volsCache' = volsCache \/ volsCache' = vols
  BY <1>2 DEF Next, Execute, Begin, GetClaimFails, GiveUp, Skip, Refuse, Create, CreateFails,
              Patch, PatchFails, Restart, SyncVols, SyncClaim, cache, vars
<1>5. OnTarget(volsCache)'
  BY <1>1, <1>3, <1>4 DEF Settled, OnTarget, Migrated
<1>6. next' # 0 => orig' = volsCache \/ (next # 0 /\ orig' = orig)
  <2>1. Reading => next # 0
    BY DEF Reading, Volumes
  <2> QED
    BY <1>2, <2>1 DEF Next, Execute, Begin, GetClaimFails, GiveUp, Skip, Refuse, Create, CreateFails,
                    Patch, PatchFails, Restart, SyncVols, SyncClaim, execute, vars
<1>7. next' # 0 => OnTarget(orig)'
  BY <1>3, <1>6 DEF Settled, OnTarget
<1> QED
  BY <1>1, <1>3, <1>5, <1>7 DEF Settled

(***************************************************************************)
(* A migration is final: no pass, however old the copy it started from,    *)
(* takes a deployment off the target class, and when the informer and the  *)
(* running pass have seen it there no claim is ever created again.         *)
(***************************************************************************)
THEOREM MigrationStays == Spec => MigrationFinal
<1>1. IInv /\ [Next]_vars => [/\ Migrated => Migrated'
                              /\ Settled => Settled' /\ claims' = claims]_vars
  BY MigratedKept, SettledKept
<1> QED
  BY <1>1, Invariance, PTL DEF Spec, MigrationFinal

=============================================================================
