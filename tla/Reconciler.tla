------------------------------ MODULE Reconciler ------------------------------
(***************************************************************************)
(* IORemediationPolicyReconciler.Reconcile for one policy, with the work   *)
(* queue of controller-runtime that calls it and the status it writes      *)
(* (src/operator/internal/controller/ioremediationpolicy_controller.go).   *)
(*                                                                         *)
(* Reconcile reads the policy from the informer cache, evaluates it, runs  *)
(* the action for the saturated pods and sets ONE condition on the copy it *)
(* read.  The status update carries the resource version of that copy: if  *)
(* the policy was written meanwhile the server refuses it, and the error   *)
(* is only logged.  The watch has no predicate: every write of the policy, *)
(* the status updates of Reconcile itself included, queues it again.       *)
(*                                                                         *)
(* Resource versions are compared only with the current one, so a copy is  *)
(* just fresh or not.  What Evaluate and the action meet is the variable   *)
(* world: Prometheus is down, no pod is saturated, the action works for    *)
(* every saturated pod, or it fails for one.                               *)
(*                                                                         *)
(* A condition carries a message.  Where its wording is not fixed by the   *)
(* reason (the error Evaluate returns, the numbers of pods) it is any of   *)
(* Texts, and can be another one each time: two errors of one situation    *)
(* need not read the same.                                                 *)
(***************************************************************************)
EXTENDS Naturals

CONSTANTS
  None,
  Texts,         \* wordings of a message that is not fixed
  MaxChanges,    \* bound: changes of world
  MaxEdits,      \* bound: edits of the spec
  MaxApiErrors,  \* bound: status updates lost to an error of the API server
  MaxRestarts    \* bound: restarts of the manager

ASSUME ConstantsAssumption ==
  /\ Texts # {} /\ None \notin Texts
  /\ MaxChanges \in Nat /\ MaxEdits \in Nat
  /\ MaxApiErrors \in Nat /\ MaxRestarts \in Nat

VARIABLES
  world,
  policy,        \* the policy on the API server, or None once it is deleted
  cache,         \* the informer's copy
  cacheFresh,    \* whether the informer's copy is the latest
  queued,        \* the work queue holds the policy
  timer,         \* the queue will hold it after a delay
  pc,            \* where Reconcile is
  local,         \* the copy Reconcile works on
  localFresh,    \* whether it still has the latest resource version
  verdict,       \* the condition to be set: <<type, reason, message>>
  budget         \* what is left of each bound

environment == <<world>>
server      == <<policy, cache, cacheFresh>>
queue       == <<queued, timer>>
reconcile   == <<pc, local, localFresh, verdict>>
vars        == <<environment, server, queue, reconcile, budget>>

----------------------------------------------------------------------------
Worlds  == {"down", "calm", "saturated", "failing"}
Actions == {"valid", "invalid"}
Types   == {"Available", "Progressing", "Degraded"}
Reasons == {"NoSaturation", "Remediating", "EvaluationFailed", "InvalidAction",
            "PartialFailure"}

(* A message that the reason fixes is left out: None.                      *)
Messages == Texts \cup {None}

Condition == [reason : Reasons, message : Messages, observedGeneration : Nat]

Policy == [action : Actions, generation : Nat,
           conditions : [Types -> Condition \cup {None}]]

Spend(what) == budget[what] > 0 /\ budget' = [budget EXCEPT ![what] = @ - 1]

(* A policy that was just applied; its ADDED event is in the queue. *)
Init ==
  /\ world \in Worlds
  /\ policy \in [action : Actions, generation : {1}, conditions : {[t \in Types |-> None]}]
  /\ cache = policy /\ cacheFresh = TRUE
  /\ queued = TRUE /\ timer = FALSE
  /\ pc = "idle" /\ local = None /\ localFresh = FALSE /\ verdict = None
  /\ budget = [changes  |-> MaxChanges, edits |-> MaxEdits,
               apierrors |-> MaxApiErrors, restarts |-> MaxRestarts]

----------------------------------------------------------------------------
(* The user, the cluster, the informer and the queue *)

WorldChanges ==
  /\ Spend("changes")
  /\ world' \in Worlds \ {world}
  /\ UNCHANGED <<server, queue, reconcile>>

(* Any write makes the copies old. *)
Write(p) ==
  /\ policy' = p
  /\ cacheFresh' = FALSE
  /\ localFresh' = FALSE

EditSpec ==
  /\ policy # None
  /\ Spend("edits")
  /\ \E a \in Actions \ {policy.action} :
       Write([policy EXCEPT !.action = a, !.generation = @ + 1])
  /\ UNCHANGED <<environment, cache, queue, pc, local, verdict>>

DeletePolicy ==
  /\ policy # None
  /\ Spend("edits")
  /\ Write(None)
  /\ UNCHANGED <<environment, cache, queue, pc, local, verdict>>

(* The watch delivers the latest version and queues the policy. *)
WatchEvent ==
  /\ ~cacheFresh
  /\ cache' = policy
  /\ cacheFresh' = TRUE
  /\ queued' = TRUE
  /\ UNCHANGED <<environment, policy, timer, reconcile, budget>>

TimerFires ==
  /\ timer
  /\ timer' = FALSE
  /\ queued' = TRUE
  /\ UNCHANGED <<environment, server, reconcile, budget>>

(* A new manager, or a new leader: it lists the policies and queues them.  *)
Restart ==
  /\ Spend("restarts")
  /\ cache' = policy /\ cacheFresh' = TRUE
  /\ queued' = (policy # None) /\ timer' = FALSE
  /\ pc' = "idle" /\ local' = None /\ localFresh' = FALSE /\ verdict' = None
  /\ UNCHANGED <<environment, policy>>

----------------------------------------------------------------------------
(* Reconcile begins: a policy that is not found ends it. *)
GetPolicy ==
  /\ pc = "idle" /\ queued
  /\ queued' = FALSE
  /\ local' = cache
  /\ localFresh' = cacheFresh
  /\ pc' = IF cache = None THEN "idle" ELSE "evaluate"
  /\ UNCHANGED <<environment, server, timer, verdict, budget>>

(* Mutant: no condition is chosen when no pod is saturated. *)
EvaluateNoCalm ==
  /\ pc = "evaluate"
  /\ pc' = IF world \in {"saturated", "failing"} /\ local.action = "valid"
           THEN "execute" ELSE "status"
  /\ \E m \in Texts :
       verdict' = IF world = "down" THEN <<"Degraded", "EvaluationFailed", m>>
                  ELSE IF local.action = "invalid" THEN <<"Degraded", "InvalidAction", None>>
                  ELSE verdict
  /\ UNCHANGED <<environment, server, queue, local, localFresh, budget>>

(* Evaluate, then buildAction, then the list of saturated pods *)
Evaluate ==
  /\ pc = "evaluate"
  /\ \/ /\ world = "down"
        /\ \E m \in Texts : verdict' = <<"Degraded", "EvaluationFailed", m>>
        /\ pc' = "status"
     \/ /\ world # "down" /\ local.action = "invalid"
        /\ verdict' = <<"Degraded", "InvalidAction", None>> /\ pc' = "status"
     \/ /\ world = "calm" /\ local.action = "valid"
        /\ verdict' = <<"Available", "NoSaturation", None>> /\ pc' = "status"
     \/ /\ world \in {"saturated", "failing"} /\ local.action = "valid"
        /\ pc' = "execute" /\ UNCHANGED verdict
  /\ UNCHANGED <<environment, server, queue, local, localFresh, budget>>

(* Mutant: the failures are not counted. *)
ExecuteNoFailures ==
  /\ pc = "execute"
  /\ \E m \in Texts : verdict' = <<"Progressing", "Remediating", m>>
  /\ pc' = "status"
  /\ UNCHANGED <<environment, server, queue, local, localFresh, budget>>

(* The loop over the saturated pods, and whether one of them failed *)
Execute ==
  /\ pc = "execute"
  /\ \E m \in Texts :
       verdict' = IF world = "failing" THEN <<"Degraded", "PartialFailure", m>>
                                       ELSE <<"Progressing", "Remediating", m>>
  /\ pc' = "status"
  /\ UNCHANGED <<environment, server, queue, local, localFresh, budget>>

(* SetStatusCondition on the copy: the other conditions keep their value,  *)
(* and so does the time of this one, as its status was True already.       *)
NewConditions ==
  [local.conditions EXCEPT ![verdict[1]] =
     [reason |-> verdict[2], message |-> verdict[3],
      observedGeneration |-> local.generation]]

(* Mutant: an error of Evaluate is taken for an invalid policy. *)
RequeuesNoError == verdict[2] \notin {"InvalidAction", "EvaluationFailed"}

(* Mutant: only errors are queued again. *)
RequeuesOnlyErrors == verdict[2] \in {"EvaluationFailed", "PartialFailure"}

(* What Reconcile returns: an error is queued again with back-off, an      *)
(* invalid policy is not, everything else after evaluationWindow.          *)
Requeues == verdict[2] # "InvalidAction"

Return ==
  /\ pc' = "idle" /\ local' = None /\ verdict' = None
  /\ timer' = (timer \/ Requeues)
  /\ UNCHANGED <<environment, cache, queued>>

(* Mutant: every update writes, with a new transition time. *)
StatusUpdateAlwaysWrites ==
  /\ pc = "status" /\ localFresh
  /\ Write([policy EXCEPT !.conditions = NewConditions])
  /\ Return
  /\ UNCHANGED budget

(* setCondition with the latest version; an update without a difference    *)
(* makes no new version and no event.                                      *)
StatusUpdate ==
  /\ pc = "status" /\ localFresh
  /\ \/ /\ NewConditions # policy.conditions
        /\ Write([policy EXCEPT !.conditions = NewConditions])
     \/ /\ NewConditions = policy.conditions
        /\ localFresh' = FALSE
        /\ UNCHANGED <<policy, cacheFresh>>
  /\ Return
  /\ UNCHANGED budget

(* The copy is old: the server answers with a conflict, which is logged.   *)
StatusConflict ==
  /\ pc = "status" /\ ~localFresh
  /\ Return
  /\ UNCHANGED <<policy, cacheFresh, localFresh, budget>>

(* Any other error is logged too. *)
StatusError ==
  /\ pc = "status"
  /\ Spend("apierrors")
  /\ localFresh' = FALSE
  /\ Return
  /\ UNCHANGED <<policy, cacheFresh>>

Reconcile ==
  GetPolicy \/ Evaluate \/ Execute \/ StatusUpdate \/ StatusConflict \/ StatusError

Next ==
  \/ Reconcile
  \/ WorldChanges \/ EditSpec \/ DeletePolicy
  \/ WatchEvent \/ TimerFires \/ Restart

Spec == Init /\ [][Next]_vars

(* The worker is never blocked, the watch and the delaying queue deliver.  *)
FairSpec ==
  Spec /\ WF_vars(Reconcile) /\ WF_vars(WatchEvent) /\ WF_vars(TimerFires)

----------------------------------------------------------------------------
(* Types; Reconcile writes only a status it has decided on. *)
TypeOK ==
  /\ world \in Worlds
  /\ policy \in Policy \cup {None} /\ cache \in Policy \cup {None}
  /\ cacheFresh \in BOOLEAN /\ localFresh \in BOOLEAN
  /\ cacheFresh => cache = policy
  /\ queued \in BOOLEAN /\ timer \in BOOLEAN
  /\ pc \in {"idle", "evaluate", "execute", "status"}
  /\ pc # "idle" => local \in Policy
  /\ localFresh /\ pc # "idle" => local = policy
  /\ pc = "status" => verdict \in Types \X Reasons \X Messages
  /\ budget \in [{"changes", "edits", "apierrors", "restarts"} -> Nat]

(***************************************************************************)
(* The queue lets go of a policy only when it is deleted, or when its      *)
(* action is unknown (the ctrl.Result{} without an error after             *)
(* "InvalidAction"): whatever was edited, lost, refused or restarted       *)
(* meanwhile, and never on the ground of an old copy.  Its status then     *)
(* says so of the current generation, unless an update of the status       *)
(* failed: that is not retried.                                            *)
(***************************************************************************)
LetGo == pc = "idle" /\ ~queued /\ ~timer /\ cacheFresh

SaysInvalid ==
  budget["apierrors"] = MaxApiErrors =>
    policy.conditions["Degraded"] =
      [reason |-> "InvalidAction", message |-> None, observedGeneration |-> policy.generation]

NeverForgotten ==
  LetGo /\ policy # None => policy.action = "invalid" /\ SaysInvalid

Exists(action) == policy # None /\ policy.action = action

(***************************************************************************)
(* A policy with a known action is evaluated again and again: no error of  *)
(* Prometheus, lost status update, conflict or restart takes it out of the *)
(* queue for good.                                                         *)
(***************************************************************************)
KeepsEvaluating == <>[]Exists("valid") => []<>(pc = "evaluate")

(***************************************************************************)
(* The status catches up: when the situation stays what it is, the         *)
(* condition for it, and for the current generation, is in the status in   *)
(* the end and stays, although refused and failed updates are never        *)
(* retried as such.                                                        *)
(***************************************************************************)
ConditionOf(w) ==
  CASE w = "down"      -> <<"Degraded", "EvaluationFailed">>
    [] w = "calm"      -> <<"Available", "NoSaturation">>
    [] w = "saturated" -> <<"Progressing", "Remediating">>
    [] w = "failing"   -> <<"Degraded", "PartialFailure">>

Shows(type, reason) ==
  /\ policy # None /\ policy.conditions[type] # None
  /\ policy.conditions[type].reason = reason
  /\ policy.conditions[type].observedGeneration = policy.generation

StatusCatchesUp ==
  \A w \in Worlds :
    <>[](Exists("valid") /\ world = w)
      => <>[]Shows(ConditionOf(w)[1], ConditionOf(w)[2])

(***************************************************************************)
(* The status updates of Reconcile queue the policy again, since the watch *)
(* has no predicate.  They end, with a last write and a last event, if     *)
(* from some time on the messages read the same.  That is all the code     *)
(* gives: a message that is another one each time (err.Error() may name a  *)
(* local port) is a change each time, and Reconcile runs without a pause.  *)
(***************************************************************************)
SameText(m) == verdict = None \/ verdict[3] \in {None, m}

Quiesces == (\E m \in Texts : <>[]SameText(m)) => <>[]cacheFresh

=============================================================================
