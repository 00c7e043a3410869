------------------------- MODULE PlanControllerProofs -------------------------
(***************************************************************************)
(* PlanController keeps its plan valid, and its steps have the properties  *)
(* that the module states, for all constants.                              *)
(***************************************************************************)
EXTENDS PlanController, PlanStateProofs

GoodPlan == Good(plan)

\* The inductive invariant: one step per operation.
LEMMA GoodStep ==
  ASSUME GoodPlan, [Next]_vars
  PROVE  GoodPlan'
<1> USE DEF GoodPlan
<1>1. ASSUME NEW policy \in PlanPolicy, NEW approvalPolicy \in ApprovalPolicy,
             Reset(policy, approvalPolicy)
      PROVE  GoodPlan'
  BY <1>1, InitialGood DEF Reset
<1>2. ASSUME NEW mode \in {"direct", "plan"}, NEW hasMutations \in BOOLEAN,
             SelectExecutionPath(mode, hasMutations)
      PROVE  GoodPlan'
  BY <1>2, SelectGood DEF SelectExecutionPath
<1>3. ASSUME NEW hasMutations \in BOOLEAN, ForcePlan(hasMutations)
      PROVE  GoodPlan'
  BY <1>3, ForceGood DEF ForcePlan
<1>4. ASSUME NEW outline \in Outline, NEW restated \in BOOLEAN,
             ReplacePlan(outline, restated)
      PROVE  GoodPlan'
  BY <1>4, ReplaceGood DEF ReplacePlan
<1>5. CASE SubmitForExecution
  BY <1>5, SubmitGood DEF SubmitForExecution
<1>6. CASE Approve
  BY <1>6, ApproveGood DEF Approve
<1>7. CASE Revise
  BY <1>7, ReviseGood DEF Revise
<1>8. ASSUME NEW i \in StepId, NEW status \in PlanStepStatus, UpdateStep(i, status)
      PROVE  GoodPlan'
  BY <1>8, UpdateStepGood DEF UpdateStep
<1>9. CASE RequestReplan
  BY <1>9, ReplanGood DEF RequestReplan
<1>10. CASE Cancel
  BY <1>10, CancelGood DEF Cancel
<1>11. CASE Complete
  BY <1>11, CompleteGood DEF Complete
<1>12. CASE UNCHANGED vars
  BY <1>12 DEF vars
<1> QED
  BY <1>1, <1>2, <1>3, <1>4, <1>5, <1>6, <1>7, <1>8, <1>9, <1>10, <1>11, <1>12 DEF Next

LEMMA GoodAlways == Spec => []GoodPlan
<1>1. Init => GoodPlan
  BY InitialGood DEF Init, GoodPlan
<1> QED BY <1>1, GoodStep, PTL DEF Spec

\* The plan is always a well-typed PlanState.
THEOREM TypeCorrect == Spec => []TypeOK
<1>1. GoodPlan => TypeOK
  BY DEF GoodPlan, Good, TypeOK
<1> QED BY <1>1, GoodAlways, PTL

\* PlanState.validate, which PlanController._record runs after every mutation and
\* which nothing rolls back, never raises: every operation leaves a valid plan.
THEOREM ValidAlways == Spec => []PlanStaysValid
<1>1. GoodPlan => PlanStaysValid
  BY DEF GoodPlan, Good, PlanStaysValid
<1> QED BY <1>1, GoodAlways, PTL

-----------------------------------------------------------------------------
(* The action properties, each from GoodPlan.                              *)

VersionStep ==
  /\ plan'.version >= plan.version
  /\ plan'.version = plan.version => plan'.outline = plan.outline

LedgerStep(i) ==
  /\ plan'.ledger[i] \notin {None, plan.ledger[i]} => Authorized(plan)
  /\ plan.ledger[i] # None /\ plan'.outline[i] = plan.ledger[i]
       => plan'.ledger[i] = plan.ledger[i]

DecisionStep ==
  plan'.phase = "executing" /\ plan.phase # "executing" =>
    /\ plan'.outline = plan.outline /\ plan'.version = plan.version
    /\ plan.phase = IF plan'.source = "user" THEN "awaiting_approval" ELSE "planning"
    /\ plan'.source = "auto_policy" <=> plan.approvalPolicy = "auto"

\* The operations that keep outline, ledger and version: only submitting and
\* approving among them lead to execution.
LEMMA KeepingStep ==
  ASSUME GoodPlan,
         \/ \E mode \in {"direct", "plan"}, h \in BOOLEAN : SelectExecutionPath(mode, h)
         \/ SubmitForExecution \/ Approve \/ Cancel \/ Complete
  PROVE  /\ plan'.outline = plan.outline /\ plan'.ledger = plan.ledger
         /\ plan'.version = plan.version
         /\ DecisionStep
<1> USE DEF GoodPlan, Good, Plan, DecisionStep
<1>1. ASSUME NEW mode \in {"direct", "plan"}, NEW h \in BOOLEAN, SelectExecutionPath(mode, h)
      PROVE  /\ plan'.outline = plan.outline /\ plan'.ledger = plan.ledger
             /\ plan'.version = plan.version
             /\ DecisionStep
  BY <1>1 DEF SelectExecutionPath, CanSelectPath, PathSelected
<1>2. CASE SubmitForExecution
  BY <1>2 DEF SubmitForExecution, CanSubmit, InPhase, Submitted
<1>3. CASE Approve
  BY <1>3 DEF Approve, CanApprove, InPhase, Approved, Valid, AuthorizationValid
<1>4. CASE Cancel
  BY <1>4 DEF Cancel, CanCancel, Cancelled
<1>5. CASE Complete
  BY <1>5 DEF Complete, Completed
<1> QED BY <1>1, <1>2, <1>3, <1>4, <1>5

LEMMA ReplaceStep ==
  ASSUME GoodPlan, NEW outline \in Outline, NEW restated \in BOOLEAN,
         ReplacePlan(outline, restated)
  PROVE  VersionStep /\ (\A i \in StepId : LedgerStep(i)) /\ DecisionStep
<1> DEFINE status == [i \in StepId |->
                        IF i \in Retained(plan, outline) THEN "completed" ELSE "pending"]
           ledger == [i \in StepId |->
                        IF i \in Retained(plan, outline) THEN outline[i] ELSE None]
<1>1. plan \in Plan /\ plan.version \in Nat /\ plan.phase = "planning"
  BY DEF GoodPlan, Good, Plan, ReplacePlan, CanReplace, InPhase
<1>2. CASE plan' = plan
  BY <1>1, <1>2 DEF VersionStep, LedgerStep, DecisionStep
<1>3. CASE plan' # plan
  <2>1. plan' = [plan EXCEPT !.outline = outline, !.status = status, !.ledger = ledger,
                             !.version = @ + 1, !.approved = None, !.source = None]
    BY <1>3 DEF ReplacePlan, Replaced
  <2>2. /\ plan'.outline = outline /\ plan'.ledger = ledger
        /\ plan'.version = plan.version + 1 /\ plan'.phase = plan.phase
    <3> HIDE DEF status, ledger
    <3> QED BY <1>1, <2>1 DEF Plan
  <2>3. VersionStep /\ DecisionStep
    BY <1>1, <2>2 DEF VersionStep, DecisionStep
  <2>4. ASSUME NEW i \in StepId
        PROVE  LedgerStep(i)
    <3>1. plan'.ledger[i] = IF outline[i] # None /\ plan.ledger[i] = outline[i]
                            THEN outline[i] ELSE None
      BY <2>2 DEF Retained
    <3> QED BY <2>2, <3>1 DEF LedgerStep
  <2> QED BY <2>3, <2>4
<1> QED BY <1>2, <1>3

LEMMA ReviseStep ==
  ASSUME GoodPlan, Revise \/ RequestReplan
  PROVE  VersionStep /\ (\A i \in StepId : LedgerStep(i)) /\ DecisionStep
<1>1. plan \in Plan /\ plan.version \in Nat
  BY DEF GoodPlan, Good, Plan
<1>2. plan'.outline = plan.outline /\ plan'.ledger = plan.ledger
      /\ plan'.version = plan.version + 1 /\ plan'.phase = "planning"
  <2>1. CASE Revise
    BY <1>1, <2>1 DEF Revise, Revised, Plan
  <2>2. CASE RequestReplan
    BY <1>1, <2>2 DEF RequestReplan, Replanned, Plan
  <2> QED BY <2>1, <2>2
<1> QED BY <1>1, <1>2 DEF VersionStep, LedgerStep, DecisionStep

LEMMA UpdateStepStep ==
  ASSUME GoodPlan, NEW i \in StepId, NEW status \in PlanStepStatus, UpdateStep(i, status)
  PROVE  VersionStep /\ (\A j \in StepId : LedgerStep(j)) /\ DecisionStep
<1>1. /\ plan \in Plan /\ plan.version \in Nat /\ Authorized(plan)
      /\ plan.phase = "executing" /\ plan.status[i] # "completed"
  BY DEF GoodPlan, Good, Plan, UpdateStep, CanUpdateStep, Authorized, InPhase
<1>2. /\ plan'.outline = plan.outline /\ plan'.version = plan.version
      /\ plan'.ledger = [plan.ledger EXCEPT
                           ![i] = IF status = "completed" THEN plan.outline[i] ELSE @]
  BY <1>1 DEF UpdateStep, StepUpdated, Plan
<1>3. plan.ledger[i] = None
  BY <1>1 DEF GoodPlan, Good, Valid, StepsValid
<1>4. \A j \in StepId : j # i => plan'.ledger[j] = plan.ledger[j]
  BY <1>1, <1>2 DEF Plan, Outline
<1> QED BY <1>1, <1>2, <1>3, <1>4 DEF VersionStep, LedgerStep, DecisionStep

\* What the three action properties say of one step.
LEMMA ActionStep ==
  ASSUME GoodPlan, Next
  PROVE  /\ StartsOver \/ VersionStep
         /\ StartsOver \/ \A i \in StepId : LedgerStep(i)
         /\ DecisionStep
<1>1. CASE StartsOver
  <2>1. plan'.phase # "executing"
    <3>1. ASSUME NEW policy, NEW approvalPolicy
          PROVE  InitialPlan(policy, approvalPolicy).phase # "executing"
      BY DEF InitialPlan
    <3> QED BY <1>1, <3>1 DEF StartsOver, Reset, ForcePlan, Forced
  <2> QED BY <1>1, <2>1 DEF DecisionStep
<1>2. CASE \/ \E mode \in {"direct", "plan"}, h \in BOOLEAN : SelectExecutionPath(mode, h)
           \/ SubmitForExecution \/ Approve \/ Cancel \/ Complete
  <2>1. plan.version \in Nat
    BY DEF GoodPlan, Good, Plan
  <2> QED BY <1>2, <2>1, KeepingStep DEF VersionStep, LedgerStep
<1>3. ASSUME NEW outline \in Outline, NEW restated \in BOOLEAN, ReplacePlan(outline, restated)
      PROVE  VersionStep /\ (\A i \in StepId : LedgerStep(i)) /\ DecisionStep
  BY <1>3, ReplaceStep
<1>4. CASE Revise \/ RequestReplan
  BY <1>4, ReviseStep
<1>5. ASSUME NEW i \in StepId, NEW status \in PlanStepStatus, UpdateStep(i, status)
      PROVE  VersionStep /\ (\A j \in StepId : LedgerStep(j)) /\ DecisionStep
  BY <1>5, UpdateStepStep
<1> QED BY <1>1, <1>2, <1>3, <1>4, <1>5 DEF Next, StartsOver

\* One version number never names two lists of steps, and versions never go back,
\* as long as the plan is not started over.
THEOREM VersionsIdentifyOutlines == Spec => VersionIdentifiesOutline
<1>1. GoodPlan /\ [Next]_vars => [StartsOver \/ VersionStep]_vars
  BY ActionStep
<1>2. Spec => [][StartsOver \/ VersionStep]_vars
  BY <1>1, GoodAlways, PTL DEF Spec
<1> QED BY <1>2 DEF VersionIdentifiesOutline, VersionStep

\* The ledger gains entries only under authorization, and re-planning a step under
\* the same description keeps its entry.
THEOREM LedgerIsAuthorized == Spec => LedgerRecordsAuthorizedWork
<1>1. GoodPlan /\ [Next]_vars => [StartsOver \/ \A i \in StepId : LedgerStep(i)]_vars
  BY ActionStep
<1>2. Spec => [][StartsOver \/ \A i \in StepId : LedgerStep(i)]_vars
  BY <1>1, GoodAlways, PTL DEF Spec
<1> QED BY <1>2 DEF LedgerRecordsAuthorizedWork, LedgerStep

\* Execution starts only by the user's approval of a plan under review or by the
\* automatic policy on a draft, and executes the steps that were decided on.
THEOREM ExecutionIsDecided == Spec => ExecutionFollowsDecision
<1>1. GoodPlan /\ [Next]_vars => [DecisionStep]_vars
  BY ActionStep
<1>2. Spec => [][DecisionStep]_vars
  BY <1>1, GoodAlways, PTL DEF Spec
<1> QED BY <1>2 DEF ExecutionFollowsDecision, DecisionStep
=============================================================================
