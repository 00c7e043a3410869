---------------------------- MODULE PlanStateProofs ----------------------------
(***************************************************************************)
(* Lemmas about the operators of PlanState, one per operation of           *)
(* PlanController: it keeps the plan well-typed and valid, for all step    *)
(* ids, descriptions and versions.                                         *)
(***************************************************************************)
EXTENDS PlanState, TLAPS

\* What every operation needs and keeps.  Valid is not inductive: it lets a plan
\* on the undecided path carry an authorization, with which selecting the plan
\* path would fail.  No operation grants one there.
UndecidedIsUnauthorized(p) == p.path = "undecided" => p.approved = None /\ p.source = None

Good(p) == p \in Plan /\ Valid(p) /\ UndecidedIsUnauthorized(p)

LEMMA InitialGood ==
  ASSUME NEW policy \in PlanPolicy, NEW approvalPolicy \in ApprovalPolicy
  PROVE  Good(InitialPlan(policy, approvalPolicy))
BY NoneAssumption
   DEF Good, Plan, InitialPlan, EmptyOutline, Outline, Valid, StepsValid, PathValid,
       AuthorizationValid, Listed, PlanPolicy, ApprovalPolicy, ExecutionPath, PlanPhase,
       PlanStepStatus, UndecidedIsUnauthorized

\* An operation that leaves the steps alone leaves what is listed and the
\* agreement of steps and ledger alone.
LEMMA SameSteps ==
  ASSUME NEW p, NEW q, q.outline = p.outline, q.status = p.status, q.ledger = p.ledger
  PROVE  Listed(q) = Listed(p) /\ (StepsValid(p) => StepsValid(q))
BY DEF Listed, StepsValid

LEMMA SelectGood ==
  ASSUME NEW p, Good(p), NEW mode \in {"direct", "plan"}, NEW hasMutations,
         CanSelectPath(p, hasMutations)
  PROVE  Good(PathSelected(p, mode))
<1> DEFINE q == PathSelected(p, mode)
<1>1. q \in Plan
  BY DEF Good, Plan, PathSelected, ExecutionPath, PlanPhase
<1>2. /\ q.outline = p.outline /\ q.status = p.status /\ q.ledger = p.ledger
      /\ q.policy = p.policy /\ q.approvalPolicy = p.approvalPolicy /\ q.version = p.version
      /\ q.approved = p.approved /\ q.source = p.source
      /\ q.path = mode /\ q.phase = IF mode = "plan" THEN "planning" ELSE p.phase
  BY DEF Good, Plan, PathSelected
<1> HIDE DEF q
<1>3. Listed(q) = Listed(p) /\ StepsValid(q)
  BY <1>2, SameSteps DEF Good, Valid
<1>4. /\ p.path = "undecided" /\ p.phase = "inactive" /\ p.policy = "auto"
      /\ p.approved = None /\ p.source = None /\ Listed(p) = {}
  BY DEF CanSelectPath, Good, UndecidedIsUnauthorized, Valid, PathValid
<1>5. PathValid(q)
  BY <1>2, <1>3, <1>4 DEF PathValid
<1>6. AuthorizationValid(q) /\ UndecidedIsUnauthorized(q)
  BY <1>2, <1>3, <1>4 DEF AuthorizationValid, UndecidedIsUnauthorized
<1> QED BY <1>1, <1>3, <1>5, <1>6 DEF Good, Valid, q

LEMMA ReplaceGood ==
  ASSUME NEW p, Good(p), NEW outline \in Outline, NEW restated \in BOOLEAN,
         CanReplace(p, outline)
  PROVE  Good(Replaced(p, outline, restated))
<1> DEFINE kept   == Retained(p, outline)
           status == [i \in StepId |-> IF i \in kept THEN "completed" ELSE "pending"]
           ledger == [i \in StepId |-> IF i \in kept THEN outline[i] ELSE None]
           q      == [p EXCEPT !.outline = outline, !.status = status, !.ledger = ledger,
                               !.version = @ + 1, !.approved = None, !.source = None]
<1>1. CASE outline = p.outline /\ status = p.status /\ ~restated
  BY <1>1 DEF Replaced
<1>2. CASE ~(outline = p.outline /\ status = p.status /\ ~restated)
  <2>1. Replaced(p, outline, restated) = q
    BY <1>2 DEF Replaced
  <2>2. status \in [StepId -> PlanStepStatus] /\ ledger \in Outline
    BY DEF PlanStepStatus, Outline
  <2>3. q \in Plan
    <3>1. p \in Plan /\ p.version + 1 \in Nat
      BY DEF Good, Plan
    <3> HIDE DEF status, ledger
    <3> QED BY <2>2, <3>1 DEF Plan
  <2>4. /\ q.outline = outline /\ q.status = status /\ q.ledger = ledger
        /\ q.policy = p.policy /\ q.approvalPolicy = p.approvalPolicy
        /\ q.version = p.version + 1 /\ q.approved = None /\ q.source = None
        /\ q.path = "plan" /\ q.phase = "planning"
    BY DEF Good, Plan, CanReplace, InPhase
  <2>5. \A i \in kept : i \in StepId /\ outline[i] # None
    BY DEF Retained
  <2>6. StepsValid(q)
    BY <2>4, <2>5 DEF StepsValid, Listed
  <2>7. \A i \in StepId : q.status[i] # "in_progress"
    BY <2>4
  <2> HIDE DEF q
  <2>8. PathValid(q)
    BY <2>4 DEF Good, Valid, PathValid, CanReplace, InPhase
  <2>9. AuthorizationValid(q) /\ UndecidedIsUnauthorized(q)
    BY <2>4, <2>7 DEF AuthorizationValid, UndecidedIsUnauthorized, Listed
  <2> QED BY <2>1, <2>3, <2>6, <2>8, <2>9 DEF Good, Valid, q
<1> QED BY <1>1, <1>2

LEMMA SubmitGood ==
  ASSUME NEW p, Good(p), CanSubmit(p)
  PROVE  Good(Submitted(p))
<1> DEFINE q == Submitted(p)
<1>1. q \in Plan
  BY DEF Good, Plan, Submitted, PlanPhase
<1>2. /\ q.outline = p.outline /\ q.status = p.status /\ q.ledger = p.ledger
      /\ q.policy = p.policy /\ q.approvalPolicy = p.approvalPolicy /\ q.version = p.version
      /\ q.path = p.path
      /\ IF p.approvalPolicy = "auto"
         THEN q.approved = p.version /\ q.source = "auto_policy" /\ q.phase = "executing"
         ELSE q.approved = None /\ q.source = None /\ q.phase = "awaiting_approval"
  BY DEF Good, Plan, Submitted
<1> HIDE DEF q
<1>3. Listed(q) = Listed(p) /\ StepsValid(q)
  BY <1>2, SameSteps DEF Good, Valid
<1>4. /\ p.path = "plan" /\ p.phase = "planning" /\ Listed(p) # {} /\ p.version \in Nat
      /\ p.approvalPolicy \in ApprovalPolicy
  BY DEF CanSubmit, InPhase, Good, Plan
<1>5. PathValid(q)
  BY <1>2, <1>3, <1>4 DEF Good, Valid, PathValid
<1>6. \A i \in Listed(p) : p.status[i] # "in_progress"
  BY <1>4 DEF Good, Valid, AuthorizationValid
<1>7. AuthorizationValid(q) /\ UndecidedIsUnauthorized(q)
  BY <1>2, <1>3, <1>4, <1>6 DEF AuthorizationValid, ApprovalPolicy, UndecidedIsUnauthorized
<1> QED BY <1>1, <1>3, <1>5, <1>7 DEF Good, Valid, q

LEMMA ApproveGood ==
  ASSUME NEW p, Good(p), CanApprove(p)
  PROVE  Good(Approved(p))
<1> DEFINE q == Approved(p)
<1>1. q \in Plan
  BY DEF Good, Plan, Approved, PlanPhase
<1>2. /\ q.outline = p.outline /\ q.status = p.status /\ q.ledger = p.ledger
      /\ q.policy = p.policy /\ q.approvalPolicy = p.approvalPolicy /\ q.version = p.version
      /\ q.path = p.path /\ q.approved = p.version /\ q.source = "user"
      /\ q.phase = "executing"
  BY DEF Good, Plan, Approved
<1> HIDE DEF q
<1>3. Listed(q) = Listed(p) /\ StepsValid(q)
  BY <1>2, SameSteps DEF Good, Valid
<1>4. /\ p.path = "plan" /\ p.phase = "awaiting_approval" /\ Listed(p) # {}
      /\ p.version \in Nat /\ p.approvalPolicy = "manual"
  BY DEF CanApprove, InPhase, Good, Plan, Valid, AuthorizationValid
<1>5. PathValid(q)
  BY <1>2, <1>3, <1>4 DEF Good, Valid, PathValid
<1>6. AuthorizationValid(q) /\ UndecidedIsUnauthorized(q)
  BY <1>2, <1>3, <1>4 DEF AuthorizationValid, UndecidedIsUnauthorized
<1> QED BY <1>1, <1>3, <1>5, <1>6 DEF Good, Valid, q

LEMMA ReviseGood ==
  ASSUME NEW p, Good(p), CanRevise(p)
  PROVE  Good(Revised(p))
<1> DEFINE q == Revised(p)
<1>1. q \in Plan
  <2>1. p \in Plan /\ p.version + 1 \in Nat
    BY DEF Good, Plan
  <2> QED BY <2>1 DEF Plan, Revised, PlanPhase
<1>2. /\ q.outline = p.outline /\ q.status = p.status /\ q.ledger = p.ledger
      /\ q.policy = p.policy /\ q.approvalPolicy = p.approvalPolicy
      /\ q.version = p.version + 1 /\ q.path = p.path /\ q.approved = None
      /\ q.source = None /\ q.phase = "planning"
  BY DEF Good, Plan, Revised
<1> HIDE DEF q
<1>3. Listed(q) = Listed(p) /\ StepsValid(q)
  BY <1>2, SameSteps DEF Good, Valid
<1>4. /\ p.path = "plan" /\ p.phase = "awaiting_approval"
      /\ \A i \in Listed(p) : p.status[i] # "in_progress"
  BY DEF CanRevise, InPhase, Good, Valid, AuthorizationValid
<1>5. PathValid(q)
  BY <1>2, <1>3, <1>4 DEF Good, Valid, PathValid
<1>6. AuthorizationValid(q) /\ UndecidedIsUnauthorized(q)
  BY <1>2, <1>3, <1>4 DEF AuthorizationValid, UndecidedIsUnauthorized
<1> QED BY <1>1, <1>3, <1>5, <1>6 DEF Good, Valid, q

LEMMA UpdateStepGood ==
  ASSUME NEW p, Good(p), NEW i \in StepId, NEW status \in PlanStepStatus,
         CanUpdateStep(p, i, status)
  PROVE  Good(StepUpdated(p, i, status))
<1> DEFINE entry == IF status = "completed" THEN p.outline[i] ELSE p.ledger[i]
           q     == [p EXCEPT !.status = [@ EXCEPT ![i] = status],
                              !.ledger = [@ EXCEPT ![i] = entry]]
<1>1. p \in Plan /\ i \in Listed(p)
  BY DEF Good, CanUpdateStep
<1>2. StepUpdated(p, i, status) = q
  BY <1>1 DEF StepUpdated, Plan, Outline
<1>3. q \in Plan
  BY <1>1 DEF Plan, Outline
<1>4. /\ q.outline = p.outline /\ q.policy = p.policy /\ q.approvalPolicy = p.approvalPolicy
      /\ q.version = p.version /\ q.path = p.path /\ q.approved = p.approved
      /\ q.source = p.source /\ q.phase = p.phase
      /\ q.status = [p.status EXCEPT ![i] = status]
      /\ q.ledger = [p.ledger EXCEPT ![i] = entry]
  BY <1>1 DEF Plan
<1> HIDE DEF q
<1>5. Listed(q) = Listed(p)
  BY <1>4 DEF Listed
<1>6. \A j \in StepId : /\ q.status[j] = IF j = i THEN status ELSE p.status[j]
                        /\ q.ledger[j] = IF j = i THEN entry ELSE p.ledger[j]
  BY <1>1, <1>4 DEF Plan, Outline
<1>7. StepsValid(q)
  <2>1. \A j, k \in Listed(p) :
           q.status[j] = "in_progress" /\ q.status[k] = "in_progress" => j = k
    BY <1>6 DEF CanUpdateStep, Good, Valid, StepsValid, Listed
  <2>2. \A j \in StepId :
           q.ledger[j] = IF j \in Listed(p) /\ q.status[j] = "completed"
                         THEN p.outline[j] ELSE None
    BY <1>1, <1>6 DEF CanUpdateStep, Good, Valid, StepsValid
  <2> QED BY <1>4, <1>5, <2>1, <2>2 DEF StepsValid
<1>8. p.path = "plan" /\ p.phase = "executing"
  BY DEF CanUpdateStep, Authorized, InPhase
<1>9. PathValid(q)
  BY <1>4, <1>5 DEF Good, Valid, PathValid
<1>10. AuthorizationValid(q) /\ UndecidedIsUnauthorized(q)
  BY <1>4, <1>5, <1>8 DEF Good, Valid, AuthorizationValid, UndecidedIsUnauthorized
<1> QED BY <1>2, <1>3, <1>7, <1>9, <1>10 DEF Good, Valid

LEMMA ReplanGood ==
  ASSUME NEW p, Good(p), CanReplan(p)
  PROVE  Good(Replanned(p))
<1> DEFINE status == [i \in StepId |->
                        IF p.status[i] = "in_progress" THEN "pending" ELSE p.status[i]]
           q == [p EXCEPT !.phase = "planning", !.version = @ + 1, !.approved = None,
                          !.source = None, !.status = status]
<1>1. Replanned(p) = q
  BY DEF Replanned
<1>2. p \in Plan /\ p.version + 1 \in Nat /\ status \in [StepId -> PlanStepStatus]
  BY DEF Good, Plan, PlanStepStatus
<1>3. q \in Plan
  <2> HIDE DEF status
  <2> QED BY <1>2 DEF Plan, PlanPhase
<1>4. /\ q.outline = p.outline /\ q.ledger = p.ledger /\ q.status = status
      /\ q.policy = p.policy /\ q.approvalPolicy = p.approvalPolicy
      /\ q.version = p.version + 1 /\ q.path = p.path /\ q.approved = None
      /\ q.source = None /\ q.phase = "planning"
  <2> HIDE DEF status
  <2> QED BY <1>2 DEF Plan
<1>5. \A i \in StepId : /\ q.status[i] # "in_progress"
                        /\ q.status[i] = "completed" <=> p.status[i] = "completed"
  BY <1>4
<1> HIDE DEF q
<1>6. Listed(q) = Listed(p)
  BY <1>4 DEF Listed
<1>7. StepsValid(q)
  BY <1>4, <1>5, <1>6 DEF Good, Valid, StepsValid, Listed
<1>8. p.path = "plan"
  BY DEF CanReplan, Authorized, InPhase
<1>9. PathValid(q)
  BY <1>4, <1>6, <1>8 DEF Good, Valid, PathValid
<1>10. AuthorizationValid(q) /\ UndecidedIsUnauthorized(q)
  BY <1>4, <1>5, <1>8 DEF AuthorizationValid, UndecidedIsUnauthorized, Listed
<1> QED BY <1>1, <1>3, <1>7, <1>9, <1>10 DEF Good, Valid

LEMMA CancelGood ==
  ASSUME NEW p, Good(p), CanCancel(p)
  PROVE  Good(Cancelled(p))
<1> DEFINE q == Cancelled(p)
<1>1. q \in Plan
  BY DEF Good, Plan, Cancelled, PlanPhase
<1>2. /\ q.outline = p.outline /\ q.status = p.status /\ q.ledger = p.ledger
      /\ q.policy = p.policy /\ q.approvalPolicy = p.approvalPolicy /\ q.version = p.version
      /\ q.path = p.path /\ q.approved = p.approved /\ q.source = p.source
      /\ q.phase = "cancelled"
  BY DEF Good, Plan, Cancelled
<1> HIDE DEF q
<1>3. Listed(q) = Listed(p) /\ StepsValid(q)
  BY <1>2, SameSteps DEF Good, Valid
<1>4. p.path = "plan"
  BY DEF Good, Plan, ExecutionPath, Valid, PathValid, CanCancel, ActivePhase
<1>5. PathValid(q)
  BY <1>2, <1>3, <1>4 DEF Good, Valid, PathValid
<1>6. AuthorizationValid(q) /\ UndecidedIsUnauthorized(q)
  BY <1>2, <1>4 DEF Good, Valid, AuthorizationValid, UndecidedIsUnauthorized
<1> QED BY <1>1, <1>3, <1>5, <1>6 DEF Good, Valid, q

LEMMA CompleteGood ==
  ASSUME NEW p, Good(p), CanComplete(p)
  PROVE  Good(Completed(p))
<1> DEFINE q == Completed(p)
<1>1. q \in Plan
  BY DEF Good, Plan, Completed, PlanPhase
<1>2. /\ q.outline = p.outline /\ q.status = p.status /\ q.ledger = p.ledger
      /\ q.policy = p.policy /\ q.approvalPolicy = p.approvalPolicy /\ q.version = p.version
      /\ q.path = p.path /\ q.approved = p.approved /\ q.source = p.source
      /\ q.phase = "completed"
  BY DEF Good, Plan, Completed
<1> HIDE DEF q
<1>3. Listed(q) = Listed(p) /\ StepsValid(q)
  BY <1>2, SameSteps DEF Good, Valid
<1>4. /\ p.path = "plan" /\ p.phase = "executing" /\ p.approved = p.version
      /\ \A i \in Listed(p) : p.status[i] = "completed"
  BY DEF CanComplete, Authorized, InPhase
<1>5. PathValid(q)
  BY <1>2, <1>3, <1>4 DEF Good, Valid, PathValid
<1>6. AuthorizationValid(q) /\ UndecidedIsUnauthorized(q)
  BY <1>2, <1>3, <1>4 DEF Good, Valid, AuthorizationValid, UndecidedIsUnauthorized
<1> QED BY <1>1, <1>3, <1>5, <1>6 DEF Good, Valid, q

LEMMA ForceGood ==
  ASSUME NEW p, Good(p)
  PROVE  Good(Forced(p))
BY InitialGood DEF Good, Plan, Forced, PlanPolicy
=============================================================================
