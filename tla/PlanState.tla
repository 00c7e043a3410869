------------------------------ MODULE PlanState ------------------------------
(***************************************************************************)
(* The plan of one task: the data that PlanState holds, the check that     *)
(* PlanState.validate makes on it, the transitions of PlanController as    *)
(* functions from a plan to a plan, and the capabilities that the tool     *)
(* registry and the plan gate derive from it.                              *)
(*                                                                         *)
(* A step is identified by its id.  Its description is the part of it that *)
(* the completion ledger fingerprints, so a fingerprint is represented by  *)
(* the description itself: SHA-256 over (id, description) is taken to be   *)
(* injective.  Goal, explanation, selection reason and feedback are free   *)
(* text that no transition reads.                                          *)
(***************************************************************************)
EXTENDS Naturals

CONSTANTS
  StepId,        \* ids that plan steps can have
  Description,   \* descriptions that plan steps can have
  None           \* Python's None

ASSUME NoneAssumption ==
  None \notin Nat /\ None \notin Description /\ None \notin {"user", "auto_policy"}

PlanPolicy     == {"off", "auto", "required"}
ApprovalPolicy == {"manual", "auto"}
ExecutionPath  == {"undecided", "direct", "plan"}
PlanPhase      == {"inactive", "planning", "awaiting_approval",
                   "executing", "completed", "cancelled"}
PlanStepStatus == {"pending", "in_progress", "completed"}

\* The steps a plan lists: the description of each step, None for an id it
\* does not list.
Outline == [StepId -> Description \cup {None}]

EmptyOutline == [i \in StepId |-> None]

Plan == [policy         : PlanPolicy,
         approvalPolicy : ApprovalPolicy,
         path           : ExecutionPath,
         phase          : PlanPhase,
         outline        : Outline,
         status         : [StepId -> PlanStepStatus],  \* "pending" if not listed
         version        : Nat,
         approved       : Nat \cup {None},
         source         : {None, "user", "auto_policy"},
         ledger         : Outline]

Listed(p) == {i \in StepId : p.outline[i] # None}

ActivePhase == {"planning", "awaiting_approval", "executing"}

InitialPlan(policy, approvalPolicy) ==
  [policy         |-> policy,
   approvalPolicy |-> approvalPolicy,
   path           |-> CASE policy = "off"      -> "direct"
                        [] policy = "auto"     -> "undecided"
                        [] policy = "required" -> "plan",
   phase          |-> IF policy = "required" THEN "planning" ELSE "inactive",
   outline        |-> EmptyOutline,
   status         |-> [i \in StepId |-> "pending"],
   version        |-> 0,
   approved       |-> None,
   source         |-> None,
   ledger         |-> EmptyOutline]

-----------------------------------------------------------------------------
(* PlanState.validate: every transition ends with this check, made on the  *)
(* already mutated state, and raises when it fails.                        *)

StepsValid(p) ==
  /\ \A i, j \in Listed(p) :
        p.status[i] = "in_progress" /\ p.status[j] = "in_progress" => i = j
  /\ \A i \in StepId :
        p.ledger[i] = IF i \in Listed(p) /\ p.status[i] = "completed"
                      THEN p.outline[i] ELSE None

PathValid(p) ==
  /\ p.policy = "off"       => p.path = "direct"
  /\ p.policy = "required"  => p.path = "plan"
  /\ p.path = "undecided"   => p.policy = "auto"
  /\ p.path \in {"undecided", "direct"} => p.phase = "inactive" /\ Listed(p) = {}
  /\ p.path = "plan"        => p.phase # "inactive"
  /\ p.path = "plan" /\ p.phase \in {"awaiting_approval", "executing", "completed"}
        => Listed(p) # {}

AuthorizationValid(p) ==
  /\ p.approved # None => p.approved \in 0 .. p.version
  /\ p.path = "direct" => p.approved = None /\ p.source = None
  /\ p.phase = "awaiting_approval" => p.approvalPolicy = "manual"
  /\ p.phase \in {"planning", "awaiting_approval"} =>
        /\ p.approved = None /\ p.source = None
        /\ \A i \in Listed(p) : p.status[i] # "in_progress"
  /\ p.phase = "executing" =>
        /\ p.approved = p.version
        /\ p.source = IF p.approvalPolicy = "auto" THEN "auto_policy" ELSE "user"
  /\ p.phase = "completed" =>
        /\ p.approved = p.version
        /\ \A i \in Listed(p) : p.status[i] = "completed"

Valid(p) == StepsValid(p) /\ PathValid(p) /\ AuthorizationValid(p)

-----------------------------------------------------------------------------
(* PlanController: for each operation the condition under which it does    *)
(* not raise, and the plan it leaves.                                      *)

InPhase(p, phase) == p.path = "plan" /\ p.phase = phase

Authorized(p) == InPhase(p, "executing") /\ p.approved = p.version

CanSelectPath(p, hasMutations) ==
  /\ p.policy = "auto" /\ p.path = "undecided" /\ p.phase = "inactive"
  /\ ~hasMutations

PathSelected(p, mode) ==
  [p EXCEPT !.path  = mode,
            !.phase = IF mode = "plan" THEN "planning" ELSE @]

CanReplace(p, outline) == InPhase(p, "planning") /\ outline # EmptyOutline

\* Mutated: the ledger is matched by id alone, whatever the step now says.
RetainedById(p, outline) == {i \in StepId : outline[i] # None /\ p.ledger[i] # None}

\* The listed steps that were completed before under the same description.
Retained(p, outline) == {i \in StepId : outline[i] # None /\ p.ledger[i] = outline[i]}

\* Mutated: a changed list of steps keeps its version number.
ReplacedInPlace(p, outline, restated) ==
  [p EXCEPT !.outline  = outline,
            !.status   = [i \in StepId |->
                            IF i \in Retained(p, outline) THEN "completed" ELSE "pending"],
            !.ledger   = [i \in StepId |->
                            IF i \in Retained(p, outline) THEN outline[i] ELSE None],
            !.approved = None,
            !.source   = None]

\* replace_plan.  "restated": the explanation or the order of the steps differs
\* from the current one, so that the call counts as a change on its own.
Replaced(p, outline, restated) ==
  LET status == [i \in StepId |->
                   IF i \in Retained(p, outline) THEN "completed" ELSE "pending"]
  IN  IF outline = p.outline /\ status = p.status /\ ~restated
      THEN p
      ELSE [p EXCEPT
              !.outline  = outline,
              !.status   = status,
              !.ledger   = [i \in StepId |->
                              IF i \in Retained(p, outline) THEN outline[i] ELSE None],
              !.version  = @ + 1,
              !.approved = None,
              !.source   = None]

CanSubmit(p) == InPhase(p, "planning") /\ Listed(p) # {} /\ p.version > 0

\* Mutated: a draft that needs the user's approval executes at once.
SubmittedUnasked(p) ==
  [p EXCEPT !.approved = p.version, !.phase = "executing",
            !.source = IF p.approvalPolicy = "auto" THEN "auto_policy" ELSE "user"]

Submitted(p) ==
  IF p.approvalPolicy = "auto"
  THEN [p EXCEPT !.approved = p.version, !.source = "auto_policy", !.phase = "executing"]
  ELSE [p EXCEPT !.approved = None, !.source = None, !.phase = "awaiting_approval"]

CanApprove(p) == InPhase(p, "awaiting_approval") /\ Listed(p) # {}

Approved(p) ==
  [p EXCEPT !.approved = p.version, !.source = "user", !.phase = "executing"]

CanRevise(p) == InPhase(p, "awaiting_approval")

Revised(p) ==
  [p EXCEPT !.phase = "planning", !.version = @ + 1, !.approved = None, !.source = None]

\* A step that already has the status is reported as a success and left alone.
CanUpdateStep(p, i, status) ==
  /\ Authorized(p)
  /\ i \in Listed(p)
  /\ p.status[i] # "completed"
  /\ status # p.status[i]
  /\ status = "in_progress" =>
        \A j \in Listed(p) \ {i} : p.status[j] # "in_progress"

\* Mutated: the ledger stores the new status instead of the fingerprint.
StepUpdatedByStatus(p, i, status) ==
  [p EXCEPT !.status[i] = status,
            !.ledger[i] = IF status = "completed" THEN status ELSE @]

StepUpdated(p, i, status) ==
  [p EXCEPT !.status[i] = status,
            !.ledger[i] = IF status = "completed" THEN p.outline[i] ELSE @]

CanReplan(p) == Authorized(p)

\* Mutated: the step in progress is not put back to pending.
ReplannedInProgress(p) ==
  [p EXCEPT !.phase = "planning", !.version = @ + 1, !.approved = None, !.source = None]

Replanned(p) ==
  [p EXCEPT !.phase = "planning", !.version = @ + 1, !.approved = None, !.source = None,
            !.status = [i \in StepId |->
                          IF p.status[i] = "in_progress" THEN "pending" ELSE p.status[i]]]

CanCancel(p) == p.phase \in ActivePhase

Cancelled(p) == [p EXCEPT !.phase = "cancelled"]

CanComplete(p) == Authorized(p) /\ \A i \in Listed(p) : p.status[i] = "completed"

Completed(p) == [p EXCEPT !.phase = "completed"]

\* force_plan, offered to callers of the controller (see README: /plan).
CanForce(p, hasMutations) ==
  ~hasMutations /\ p.phase \notin {"completed", "cancelled"} /\ p.path # "plan"

Forced(p) == InitialPlan("required", p.approvalPolicy)

-----------------------------------------------------------------------------
(* plan_capabilities: what the tool registry and the plan gate allow.      *)

Ungoverned(p) == p.policy = "off" \/ p.path = "direct"

\* Mutated: side effects are allowed from the first draft on.
CanExecuteWhilePlanning(p) == Ungoverned(p) \/ p.phase \in {"planning", "executing"}

CanExecuteSideEffects(p) == Ungoverned(p) \/ p.phase = "executing"

UpdatePlanActions(p) ==
  CASE Ungoverned(p)         -> {}
    [] p.phase = "planning"  -> {"replace_plan", "submit", "cancel"}
    [] p.phase = "executing" -> {"update_step", "request_replan", "cancel", "complete"}
    [] OTHER                 -> {}

CanResolvePlanResponse(p, hasContinuation) ==
  ~Ungoverned(p) /\ p.phase = "awaiting_approval" /\ hasContinuation
=============================================================================
