---------------------------- MODULE PlanController ----------------------------
(***************************************************************************)
(* PlanController on its own: any caller invokes any of its operations in  *)
(* any order.  Reasons and feedback are never blank: each caller rejects   *)
(* blank text first (update_plan.py, resolve_plan_response.py,             *)
(* interactive.py), which matters because revise, request_replan and       *)
(* cancel change the plan before _required_text could refuse it.  An       *)
(* operation that the controller refuses (PlanError) leaves the plan alone *)
(* and is a stuttering step.  PlanSession composes the same operations     *)
(* with the task and the loop.                                             *)
(***************************************************************************)
EXTENDS PlanState

CONSTANT MaxVersion  \* bound of the model: plan versions explored

ASSUME MaxVersionAssumption == MaxVersion \in Nat

VARIABLE plan

vars == <<plan>>

Init == \E policy \in PlanPolicy, approvalPolicy \in ApprovalPolicy :
          plan = InitialPlan(policy, approvalPolicy)

Reset(policy, approvalPolicy) == plan' = InitialPlan(policy, approvalPolicy)

SelectExecutionPath(mode, hasMutations) ==
  /\ CanSelectPath(plan, hasMutations)
  /\ plan' = PathSelected(plan, mode)

ForcePlan(hasMutations) ==
  /\ CanForce(plan, hasMutations)
  /\ plan' = Forced(plan)

ReplacePlan(outline, restated) ==
  /\ plan.version < MaxVersion
  /\ CanReplace(plan, outline)
  /\ plan' = Replaced(plan, outline, restated)

SubmitForExecution == CanSubmit(plan) /\ plan' = Submitted(plan)

Approve == CanApprove(plan) /\ plan' = Approved(plan)

Revise ==
  /\ plan.version < MaxVersion
  /\ CanRevise(plan)
  /\ plan' = Revised(plan)

UpdateStep(i, status) ==
  /\ CanUpdateStep(plan, i, status)
  /\ plan' = StepUpdated(plan, i, status)

RequestReplan ==
  /\ plan.version < MaxVersion
  /\ CanReplan(plan)
  /\ plan' = Replanned(plan)

Cancel == CanCancel(plan) /\ plan' = Cancelled(plan)

Complete == CanComplete(plan) /\ plan' = Completed(plan)

Next ==
  \/ \E policy \in PlanPolicy, approvalPolicy \in ApprovalPolicy :
        Reset(policy, approvalPolicy)
  \/ \E mode \in {"direct", "plan"}, hasMutations \in BOOLEAN :
        SelectExecutionPath(mode, hasMutations)
  \/ \E hasMutations \in BOOLEAN : ForcePlan(hasMutations)
  \/ \E outline \in Outline, restated \in BOOLEAN : ReplacePlan(outline, restated)
  \/ SubmitForExecution
  \/ Approve
  \/ Revise
  \/ \E i \in StepId, status \in PlanStepStatus : UpdateStep(i, status)
  \/ RequestReplan
  \/ Cancel
  \/ Complete

Spec == Init /\ [][Next]_vars

-----------------------------------------------------------------------------
(* Properties.                                                             *)

TypeOK == plan \in Plan

\* Starting a task or forcing plan mode rewrites the plan from scratch; every
\* other operation works on the plan there is.
StartsOver ==
  \/ \E policy \in PlanPolicy, approvalPolicy \in ApprovalPolicy :
        Reset(policy, approvalPolicy)
  \/ \E hasMutations \in BOOLEAN : ForcePlan(hasMutations)

\* PlanController._record runs PlanState.validate after the state has been
\* mutated and has no rollback: an operation that could leave an invalid plan
\* would raise with the damage done.  No sequence of operations does.
PlanStaysValid == Valid(plan)

\* A version number names one list of steps: approval of "version n" can never
\* come to cover other steps than those submitted as version n, and versions
\* never go back.
VersionIdentifiesOutline ==
  [][ StartsOver \/ /\ plan'.version >= plan.version
                    /\ plan'.version = plan.version => plan'.outline = plan.outline ]_vars

\* The completion ledger records work done under authorization only: an entry
\* appears by update_step on the authorized version, never by re-planning, and
\* re-planning under the same description keeps it.
LedgerRecordsAuthorizedWork ==
  [][ StartsOver \/ \A i \in StepId :
        /\ plan'.ledger[i] \notin {None, plan.ledger[i]} => Authorized(plan)
        /\ plan.ledger[i] # None /\ plan'.outline[i] = plan.ledger[i]
              => plan'.ledger[i] = plan.ledger[i] ]_vars

\* Execution starts only by a decision on a submitted plan - by a user on a plan
\* that waited for it, by the automatic policy on a finished draft - and the
\* steps that then execute are those that were decided on.
ExecutionFollowsDecision ==
  [][ plan'.phase = "executing" /\ plan.phase # "executing" =>
        /\ plan'.outline = plan.outline /\ plan'.version = plan.version
        /\ plan.phase = IF plan'.source = "user" THEN "awaiting_approval" ELSE "planning"
        /\ plan'.source = "auto_policy" <=> plan.approvalPolicy = "auto" ]_vars
=============================================================================
