-------------------------- MODULE ReconcilerProofs --------------------------
(***************************************************************************)
(* Proofs about Reconciler, for any number of changes, edits, failed       *)
(* status updates and restarts: the types, and that the work queue never   *)
(* forgets a policy it still has to look at.                               *)
(***************************************************************************)
EXTENDS Reconciler, TLAPS

(* What Reconcile read is old only when the news is on its way: in the     *)
(* watch, or in the queue, which takes no part in the run in progress.     *)
OutdatedIsQueued ==
  pc # "idle" /\ ~localFresh => queued \/ ~cacheFresh

(* Only a policy with an unknown action is not queued again, and the       *)
(* condition that goes with it says so.                                    *)
InvalidRejected ==
  pc = "status" /\ ~Requeues =>
    /\ local.action = "invalid"
    /\ verdict = <<"Degraded", "InvalidAction", None>>

(* A status update that failed shows in the budget ever after. *)
ErrorsShow == budget["apierrors"] <= MaxApiErrors

IInv ==
  TypeOK /\ ErrorsShow /\ OutdatedIsQueued /\ InvalidRejected /\ NeverForgotten

----------------------------------------------------------------------------
Resources == {"changes", "edits", "apierrors", "restarts"}

(* A bound that is spent stays a bound: a natural number. *)
LEMMA SpendType ==
  ASSUME budget \in [Resources -> Nat], NEW what \in Resources, Spend(what)
  PROVE  /\ budget' \in [Resources -> Nat]
         /\ budget'[what] = budget[what] - 1
         /\ \A other \in Resources : other # what => budget'[other] = budget[other]
BY DEF Spend, Resources

LEMMA InitIInv == Init => IInv
<1> SUFFICES ASSUME Init PROVE IInv
  OBVIOUS
<1>1. budget \in [Resources -> Nat]
  BY ConstantsAssumption DEF Init, Resources
<1>2. TypeOK
  <2>1. policy \in Policy
    BY DEF Init, Policy
  <2> QED
    BY <1>1, <2>1 DEF Init, TypeOK, Resources
<1>3. ErrorsShow
  BY ConstantsAssumption DEF Init, ErrorsShow
<1>4. OutdatedIsQueued /\ InvalidRejected /\ NeverForgotten
  BY DEF Init, OutdatedIsQueued, InvalidRejected, NeverForgotten, LetGo
<1> QED
  BY <1>2, <1>3, <1>4 DEF IInv

(* Nobody but Reconcile changes what it works on; a timer that fires and a *)
(* change of the situation touch neither the policy nor its copies.        *)
LEMMA WorldChangesIInv == IInv /\ WorldChanges => IInv'
<1> SUFFICES ASSUME IInv, WorldChanges PROVE IInv'
  OBVIOUS
<1>1. /\ world' \in Worlds
      /\ UNCHANGED <<server, queue, reconcile>>
      /\ budget' \in [Resources -> Nat]
      /\ budget'["apierrors"] = budget["apierrors"]
  BY SpendType DEF WorldChanges, IInv, TypeOK, Resources
<1>2. TypeOK' /\ ErrorsShow'
  BY <1>1 DEF IInv, TypeOK, ErrorsShow, server, queue, reconcile, Resources
<1>3. OutdatedIsQueued' /\ InvalidRejected' /\ NeverForgotten'
  BY <1>1 DEF IInv, OutdatedIsQueued, InvalidRejected, Requeues, NeverForgotten, LetGo,
              SaysInvalid, server, queue, reconcile
<1> QED
  BY <1>2, <1>3 DEF IInv

LEMMA TimerFiresIInv == IInv /\ TimerFires => IInv'
<1> SUFFICES ASSUME IInv, TimerFires PROVE IInv'
  OBVIOUS
<1>1. /\ UNCHANGED <<environment, server, reconcile, budget>>
      /\ timer' = FALSE /\ queued' = TRUE
  BY DEF TimerFires
<1>2. TypeOK' /\ ErrorsShow'
  BY <1>1 DEF IInv, TypeOK, ErrorsShow, environment, server, reconcile
<1>3. OutdatedIsQueued' /\ InvalidRejected' /\ NeverForgotten'
  BY <1>1 DEF IInv, OutdatedIsQueued, InvalidRejected, Requeues, NeverForgotten, LetGo,
              server, reconcile
<1> QED
  BY <1>2, <1>3 DEF IInv

(* A write by somebody else: the copies are old, and the watch knows.      *)
LEMMA EditIInv == IInv /\ (EditSpec \/ DeletePolicy) => IInv'
<1> SUFFICES ASSUME IInv, EditSpec \/ DeletePolicy PROVE IInv'
  OBVIOUS
<1>1. /\ UNCHANGED <<environment, cache, queue, pc, local, verdict>>
      /\ cacheFresh' = FALSE /\ localFresh' = FALSE
      /\ budget' \in [Resources -> Nat]
      /\ budget'["apierrors"] = budget["apierrors"]
  BY SpendType DEF EditSpec, DeletePolicy, Write, IInv, TypeOK, Resources
<1>2. policy' \in Policy \cup {None}
  <2>1. CASE DeletePolicy
    BY <2>1 DEF DeletePolicy, Write
  <2>2. CASE EditSpec
    <3>1. policy \in Policy
      BY <2>2 DEF EditSpec, IInv, TypeOK
    <3>2. PICK a \in Actions :
            policy' = [policy EXCEPT !.action = a, !.generation = policy.generation + 1]
      BY <2>2 DEF EditSpec, Write
    <3>3. policy.generation + 1 \in Nat
      BY <3>1 DEF Policy
    <3> QED
      BY <3>1, <3>2, <3>3 DEF Policy
  <2> QED
    BY <2>1, <2>2
<1>3. TypeOK' /\ ErrorsShow'
  BY <1>1, <1>2 DEF IInv, TypeOK, ErrorsShow, environment, queue, Resources
<1>4. OutdatedIsQueued' /\ InvalidRejected' /\ NeverForgotten'
  BY <1>1 DEF IInv, OutdatedIsQueued, InvalidRejected, Requeues, NeverForgotten, LetGo
<1> QED
  BY <1>3, <1>4 DEF IInv

(* The watch event puts the policy into the queue, also when a run of      *)
(* Reconcile is in progress.                                               *)
LEMMA WatchEventIInv == IInv /\ WatchEvent => IInv'
BY DEF IInv, TypeOK, ErrorsShow, OutdatedIsQueued, InvalidRejected, Requeues, NeverForgotten, LetGo,
       WatchEvent, environment, reconcile

(* A new manager finds the policy by listing, and nothing else of it.      *)
LEMMA RestartIInv == IInv /\ Restart => IInv'
<1> SUFFICES ASSUME IInv, Restart PROVE IInv'
  OBVIOUS
<1>1. /\ budget' \in [Resources -> Nat]
      /\ budget'["apierrors"] = budget["apierrors"]
  BY SpendType DEF Restart, IInv, TypeOK, Resources
<1>2. TypeOK' /\ ErrorsShow'
  BY <1>1 DEF IInv, TypeOK, ErrorsShow, Restart, environment, Resources
<1>3. OutdatedIsQueued' /\ InvalidRejected' /\ NeverForgotten'
  BY DEF OutdatedIsQueued, InvalidRejected, NeverForgotten, LetGo, Restart
<1> QED
  BY <1>2, <1>3 DEF IInv

----------------------------------------------------------------------------
(* Reconcile *)

(* The copy is as old as the cache: if that is not the latest version, the *)
(* watch has still to deliver it, and a policy that is not found in a      *)
(* fresh cache is gone.                                                    *)
LEMMA GetPolicyIInv == IInv /\ GetPolicy => IInv'
<1> SUFFICES ASSUME IInv, GetPolicy PROVE IInv'
  OBVIOUS
<1>1. TypeOK' /\ ErrorsShow'
  BY DEF IInv, TypeOK, ErrorsShow, GetPolicy, environment, server
<1>2. OutdatedIsQueued' /\ InvalidRejected'
  BY DEF OutdatedIsQueued, InvalidRejected, GetPolicy, server
<1>3. NeverForgotten'
  BY DEF IInv, TypeOK, NeverForgotten, LetGo, GetPolicy, server
<1> QED
  BY <1>1, <1>2, <1>3 DEF IInv

LEMMA EvaluateIInv == IInv /\ Evaluate => IInv'
<1> SUFFICES ASSUME IInv, Evaluate PROVE IInv'
  OBVIOUS
<1>1. /\ UNCHANGED <<environment, server, queue, local, localFresh, budget>>
      /\ pc = "evaluate" /\ pc' \in {"status", "execute"}
  BY DEF Evaluate
<1>2. pc' = "status" =>
        /\ verdict' \in Types \X Reasons \X Messages
        /\ verdict'[2] = "InvalidAction" =>
             local.action = "invalid" /\ verdict' = <<"Degraded", "InvalidAction", None>>
  <2>1. CASE world = "down"
    <3>1. PICK m \in Texts : verdict' = <<"Degraded", "EvaluationFailed", m>>
      BY <2>1 DEF Evaluate
    <3>2. verdict' \in Types \X Reasons \X Messages
      BY <3>1 DEF Types, Reasons, Messages
    <3>3. verdict'[2] # "InvalidAction"
      BY <3>1
    <3> QED
      BY <3>2, <3>3
  <2>2. CASE world # "down" /\ pc' = "status"
    <3>1. \/ /\ local.action = "invalid"
             /\ verdict' = <<"Degraded", "InvalidAction", None>>
          \/ verdict' = <<"Available", "NoSaturation", None>>
      BY <2>2 DEF Evaluate
    <3>2. verdict' \in Types \X Reasons \X Messages
      BY <3>1 DEF Types, Reasons, Messages
    <3>3. verdict' = <<"Available", "NoSaturation", None>> => verdict'[2] # "InvalidAction"
      OBVIOUS
    <3> QED
      BY <3>1, <3>2, <3>3
  <2> QED
    BY <2>1, <2>2
<1>3. TypeOK' /\ ErrorsShow'
  BY <1>1, <1>2 DEF IInv, TypeOK, ErrorsShow, environment, server, queue
<1>4. OutdatedIsQueued' /\ NeverForgotten'
  BY <1>1 DEF IInv, OutdatedIsQueued, NeverForgotten, LetGo, server, queue
<1>5. InvalidRejected'
  BY <1>1, <1>2 DEF InvalidRejected, Requeues
<1> QED
  BY <1>3, <1>4, <1>5 DEF IInv

LEMMA ExecuteIInv == IInv /\ Execute => IInv'
<1> SUFFICES ASSUME IInv, Execute PROVE IInv'
  OBVIOUS
<1>1. /\ UNCHANGED <<environment, server, queue, local, localFresh, budget>>
      /\ pc = "execute" /\ pc' = "status"
  BY DEF Execute
<1>2. verdict' \in Types \X Reasons \X Messages /\ verdict'[2] # "InvalidAction"
  <2>1. PICK m \in Texts : \/ verdict' = <<"Degraded", "PartialFailure", m>>
                           \/ verdict' = <<"Progressing", "Remediating", m>>
    BY DEF Execute
  <2>2. verdict' \in Types \X Reasons \X Messages
    BY <2>1 DEF Types, Reasons, Messages
  <2>3. verdict'[2] # "InvalidAction"
    BY <2>1
  <2> QED
    BY <2>2, <2>3
<1>3. TypeOK' /\ ErrorsShow'
  BY <1>1, <1>2 DEF IInv, TypeOK, ErrorsShow, environment, server, queue
<1>4. OutdatedIsQueued' /\ NeverForgotten'
  BY <1>1 DEF IInv, OutdatedIsQueued, NeverForgotten, LetGo, server, queue
<1>5. InvalidRejected'
  BY <1>2 DEF InvalidRejected, Requeues
<1> QED
  BY <1>3, <1>4, <1>5 DEF IInv

(* One condition of the copy is set, to a known reason and a message. *)
LEMMA NewConditionsType ==
  ASSUME TypeOK, pc = "status"
  PROVE  NewConditions \in [Types -> Condition \cup {None}]
<1>1. local \in Policy /\ verdict \in Types \X Reasons \X Messages
  BY DEF TypeOK
<1>2. local.conditions \in [Types -> Condition \cup {None}] /\ local.generation \in Nat
  BY <1>1 DEF Policy
<1>3. [reason |-> verdict[2], message |-> verdict[3], observedGeneration |-> local.generation]
        \in Condition
  BY <1>1, <1>2 DEF Condition
<1> QED
  BY <1>2, <1>3 DEF NewConditions

(* What the end of a run needs, however the status update ended, to be a   *)
(* step that forgets nothing.                                              *)
LEMMA ReturnIInv ==
  ASSUME IInv, pc = "status", Return,
         policy' \in Policy \cup {None}, localFresh' \in BOOLEAN,
         cacheFresh' \in BOOLEAN, cacheFresh' => cacheFresh /\ policy' = policy,
         budget' \in [Resources -> Nat], ErrorsShow',
         ~Requeues /\ localFresh /\ cacheFresh' => SaysInvalid'
  PROVE  IInv'
<1>1. TypeOK'
  BY DEF IInv, TypeOK, Return, environment, Resources
<1>2. OutdatedIsQueued' /\ InvalidRejected'
  BY DEF OutdatedIsQueued, InvalidRejected, Return
<1>3. ASSUME LetGo', policy' # None
      PROVE  policy'.action = "invalid" /\ SaysInvalid'
  <2>1. ~Requeues /\ ~queued /\ cacheFresh /\ cacheFresh' /\ policy' = policy
    BY <1>3 DEF LetGo, Return, IInv, TypeOK
  <2>2. localFresh
    BY <2>1 DEF IInv, OutdatedIsQueued
  <2>3. local = policy /\ local.action = "invalid"
    BY <2>1, <2>2 DEF IInv, TypeOK, InvalidRejected
  <2> QED
    BY <2>1, <2>2, <2>3
<1> QED
  BY <1>1, <1>2, <1>3 DEF IInv, NeverForgotten

(* The update that went through, or that had nothing to change *)
LEMMA StatusUpdateIInv == IInv /\ StatusUpdate => IInv'
<1> SUFFICES ASSUME IInv, StatusUpdate PROVE IInv'
  OBVIOUS
<1>1. pc = "status" /\ localFresh /\ Return /\ budget' = budget
  BY DEF StatusUpdate
<1>2. policy = local /\ policy \in Policy
  BY <1>1 DEF IInv, TypeOK
<1>3. CASE Write([policy EXCEPT !.conditions = NewConditions])
  <2>1. policy' \in Policy
    BY <1>1, <1>2, <1>3, NewConditionsType DEF IInv, Write, Policy
  <2>2. cacheFresh' = FALSE /\ localFresh' = FALSE
    BY <1>3 DEF Write
  <2> QED
    BY <1>1, <2>1, <2>2, ReturnIInv DEF IInv, TypeOK, ErrorsShow, Resources
<1>4. CASE /\ NewConditions = policy.conditions
           /\ localFresh' = FALSE
           /\ UNCHANGED <<policy, cacheFresh>>
  <2>1. ASSUME ~Requeues PROVE SaysInvalid'
    <3>1. verdict = <<"Degraded", "InvalidAction", None>>
      BY <1>1, <2>1 DEF IInv, InvalidRejected
    <3>2. "Degraded" \in DOMAIN local.conditions
      BY <1>2 DEF Policy, Types
    <3>3. NewConditions["Degraded"] =
            [reason |-> "InvalidAction", message |-> None,
             observedGeneration |-> policy.generation]
      BY <1>2, <3>1, <3>2 DEF NewConditions
    <3> QED
      BY <1>4, <3>3 DEF SaysInvalid
  <2> QED
    BY <1>1, <1>4, <2>1, ReturnIInv DEF IInv, TypeOK, ErrorsShow, Resources
<1> QED
  BY <1>3, <1>4 DEF StatusUpdate

(* The update that was refused or lost: nothing is written.                *)
LEMMA StatusConflictIInv == IInv /\ StatusConflict => IInv'
BY ReturnIInv DEF StatusConflict, IInv, TypeOK, ErrorsShow, Resources

LEMMA StatusErrorIInv == IInv /\ StatusError => IInv'
<1> SUFFICES ASSUME IInv, StatusError PROVE IInv'
  OBVIOUS
<1>1. /\ budget' \in [Resources -> Nat]
      /\ budget'["apierrors"] = budget["apierrors"] - 1
      /\ budget["apierrors"] \in Nat
  BY SpendType DEF StatusError, IInv, TypeOK, Resources
<1>2. ErrorsShow' /\ ~(budget'["apierrors"] = MaxApiErrors)
  BY <1>1, ConstantsAssumption DEF IInv, ErrorsShow
<1> QED
  BY <1>1, <1>2, ReturnIInv DEF StatusError, IInv, TypeOK, SaysInvalid

LEMMA NextIInv == IInv /\ [Next]_vars => IInv'
<1> SUFFICES ASSUME IInv, [Next]_vars PROVE IInv'
  OBVIOUS
<1>1. CASE UNCHANGED vars
  BY <1>1 DEF IInv, TypeOK, ErrorsShow, OutdatedIsQueued, InvalidRejected, Requeues,
              NeverForgotten, LetGo, SaysInvalid, vars, environment, server, queue,
              reconcile
<1>2. CASE Reconcile
  BY <1>2, GetPolicyIInv, EvaluateIInv, ExecuteIInv, StatusUpdateIInv, StatusConflictIInv,
     StatusErrorIInv DEF Reconcile
<1>3. CASE \/ WorldChanges \/ EditSpec \/ DeletePolicy
           \/ WatchEvent \/ TimerFires \/ Restart
  BY <1>3, WorldChangesIInv, EditIInv, WatchEventIInv, TimerFiresIInv, RestartIInv
<1> QED
  BY <1>1, <1>2, <1>3 DEF Next

LEMMA Invariance == Spec => []IInv
BY InitIInv, NextIInv, PTL DEF Spec

----------------------------------------------------------------------------
(* Every variable keeps its type, a fresh copy is the policy, and          *)
(* Reconcile writes only a status it has decided on.                       *)
THEOREM TypeCorrect == Spec => []TypeOK
<1>1. IInv => TypeOK
  BY DEF IInv
<1> QED
  BY <1>1, Invariance, PTL

(***************************************************************************)
(* No order of edits, events, timers, lost updates, conflicts and restarts *)
(* makes the queue let go of a policy with a known action, and one with an *)
(* unknown action is let go only after its status says so, unless a status *)
(* update failed: the safety behind KeepsEvaluating.                       *)
(***************************************************************************)
THEOREM PolicyNeverForgotten == Spec => []NeverForgotten
<1>1. IInv => NeverForgotten
  BY DEF IInv
<1> QED
  BY <1>1, Invariance, PTL

=============================================================================
