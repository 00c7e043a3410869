------------------------------ MODULE PlanSession ------------------------------
(***************************************************************************)
(* One interactive session: the task and its plan (AgentSession,           *)
(* PlanController, PlanStore), the prompt that starts, answers and resumes *)
(* tasks (run_interactive, handle_interactive_command) and the loop that   *)
(* alternates calls of the model with batches of tool calls                *)
(* (AgentRunner.run_until_idle).  What the user types and what the model   *)
(* answers is nondeterministic.                                            *)
(*                                                                         *)
(* The program is sequential, so an action is one handler: a command, one  *)
(* call of the model, one tool call, or the end of a batch.  Ctrl+C may    *)
(* arrive between any two of them while the loop runs.                     *)
(***************************************************************************)
EXTENDS PlanState

CONSTANTS
  MaxTurns,     \* config.max_turns: calls of the model per task
  MaxRetries,   \* MAX_PLAN_RESPONSE_RETRIES
  SaveMayFail,  \* can writing or removing plan.json fail?
  MaxBatch,     \* bound of the model: tool calls in one response
  MaxVersion    \* bound of the model: plan versions explored

ASSUME PlanSessionAssumption ==
  /\ MaxTurns \in Nat /\ MaxRetries \in Nat /\ MaxBatch \in Nat \ {0}
  /\ MaxVersion \in Nat /\ SaveMayFail \in BOOLEAN

VARIABLES
  plan,      \* context.plan_state
  task,      \* context.task_status; "idle" exactly while task_id is None
  pending,   \* has_pending_user_continuation()
  mutated,   \* has_task_mutations()
  calls,     \* task_model_calls
  control,   \* who acts next: the user at the prompt, the model, the tool batch
  via,       \* what started the invocation: ordinary text or a slash command
  retries,   \* plan_response_retries
  left,      \* tool calls of the batch not yet executed
  denied,    \* the batch ended the task: a permission was denied for good
  disk,      \* plan.json
  saved,     \* was plan.json written or removed, and did the last attempt succeed?
  shown,     \* history: the draft the user last saw at a pause of this task
  acts       \* history: flips with every side effect that is executed

sessionVars == <<plan, task, disk, saved>>
flowVars    == <<control, via, retries, left, denied>>
vars == <<plan, task, pending, mutated, calls, control, via, retries, left, denied,
          disk, saved, shown, acts>>

TaskStatus == {"idle", "running", "waiting_user", "completed", "failed", "cancelled"}
Terminal   == {"completed", "failed", "cancelled"}

Draft(p) == [version |-> p.version, outline |-> p.outline]

\* What plan.json records of a plan and its task.
Snapshot(p, status) ==
  IF p.policy = "off" THEN None
  ELSE [task |-> status, phase |-> p.phase, version |-> p.version, approved |-> p.approved]

Snapshots == {None} \cup [task : TaskStatus, phase : PlanPhase, version : Nat,
                          approved : Nat \cup {None}]

-----------------------------------------------------------------------------
(* Writing plan.json, and what a plan transition does to the task.         *)

\* PlanStore.save, called once for every snapshot of "earlier" and then for p.
\* Failures are logged and otherwise ignored; under policy off nothing is written.
Save(earlier, p, status) ==
  IF p.policy = "off"
  THEN UNCHANGED <<disk, saved>>
  ELSE \/ disk' = Snapshot(p, status) /\ saved' = TRUE
       \/ SaveMayFail /\ disk' \in {disk} \cup earlier /\ saved' = FALSE

\* PlanStore.clear
Clear == \/ disk' = None /\ saved' = TRUE
         \/ SaveMayFail /\ disk' = disk /\ saved' = FALSE

\* AgentSession.on_plan_transition: the status the task takes with plan p.
TaskAfter(p) ==
  CASE task = "idle"                                                   -> "idle"
    [] task # "idle" /\ p.phase = "awaiting_approval"                  -> "waiting_user"
    [] task = "waiting_user" /\ p.phase \in {"planning", "executing"}  -> "running"
    [] task \notin Terminal \cup {"idle"} /\ p.phase = "cancelled"     -> "cancelled"
    [] OTHER                                                           -> task

\* PlanController._record: the listener first, then the snapshot.
Record(earlier, p) ==
  /\ plan' = p
  /\ task' = TaskAfter(p)
  /\ Save(earlier, p, TaskAfter(p))

\* Mutated: the plan is left as it is.
PlanKeptAfterStop(status) == plan

\* AgentRunner._transition_task and AgentSession.transition_task to a terminal
\* status: an active plan is cancelled with a task that fails or is cancelled.
PlanAfterStop(status) ==
  IF status \in {"failed", "cancelled"} /\ plan.path = "plan" /\ plan.phase \in ActivePhase
  THEN Cancelled(plan) ELSE plan

\* Mutated: a task that is over already takes the new status.
StopTaskAgain(status) ==
  LET p == PlanAfterStop(status) IN
  /\ plan' = p
  /\ task' = status
  /\ Save(IF p = plan THEN {} ELSE {Snapshot(p, status)}, p, status)

\* Mutated: only a plan that changed is written, with the status it had before.
StopTaskUnsaved(status) ==
  IF task \in Terminal
  THEN UNCHANGED sessionVars
  ELSE LET p == PlanAfterStop(status) IN
       /\ plan' = p
       /\ task' = status
       /\ Save({}, p, task)

StopTask(status) ==
  IF task \in Terminal
  THEN UNCHANGED sessionVars
  ELSE LET p == PlanAfterStop(status) IN
       /\ plan' = p
       /\ task' = status
       /\ Save(IF p = plan THEN {} ELSE {Snapshot(p, status)}, p, status)

\* AgentSession.validate_lifecycle_invariants, which raises when it does not hold.
LifecycleOK ==
  task # "idle" =>
    /\ plan.phase = "awaiting_approval" => task \in {"waiting_user"} \cup Terminal
    /\ task = "waiting_user" => plan.phase = "awaiting_approval"
    /\ task \in Terminal /\ plan.path = "plan" => plan.phase \in {"completed", "cancelled"}

\* The invocation is over.  run_interactive ends the session on an abort reason;
\* after a slash command it tolerates a cancelled plan.
EndInvocation(abortReason) ==
  /\ control' = IF \/ abortReason = "none"
                   \/ abortReason = "plan_cancelled" /\ via = "command"
                THEN "prompt" ELSE "closed"
  /\ via' = "text" /\ retries' = 0 /\ left' = 0 /\ denied' = FALSE

StartInvocation(kind) ==
  control' = "model" /\ via' = kind /\ UNCHANGED <<retries, left, denied>>

\* _has_pending_plan_response
ResponsePending == plan.phase = "awaiting_approval" /\ pending

-----------------------------------------------------------------------------
(* The session starts at the prompt: create_agent_session without a task,  *)
(* which records no initial state, so that no plan.json has been written.  *)

Init ==
  /\ \E policy \in PlanPolicy, approvalPolicy \in ApprovalPolicy :
        plan = InitialPlan(policy, approvalPolicy)
  /\ task = "idle" /\ pending = FALSE /\ mutated = FALSE /\ calls = 0
  /\ control = "prompt" /\ via = "text" /\ retries = 0 /\ left = 0 /\ denied = FALSE
  /\ disk = None /\ saved = FALSE
  /\ shown = None /\ acts = FALSE

(* The prompt. *)

\* Text while no task is active.  The policies are those last chosen with
\* /plan-mode and /plan-approval, which only set the configuration of the next task.
StartTask(policy, approvalPolicy) ==
  /\ control = "prompt" /\ task \in {"idle"} \cup Terminal
  /\ plan' = InitialPlan(policy, approvalPolicy)
  /\ task' = "running"
  /\ IF policy = "off" THEN Clear ELSE Save({}, plan', "running")
  /\ pending' = FALSE /\ mutated' = FALSE /\ calls' = 0 /\ shown' = None
  /\ StartInvocation("text")
  /\ UNCHANGED acts

\* Text while the task waits: continue_task.  A second text while an earlier one
\* is unresolved raises an error that run_interactive does not catch.
ReplyWhilePending ==
  /\ control = "prompt" /\ task = "waiting_user" /\ pending
  /\ control' = "crashed"
  /\ UNCHANGED <<sessionVars, pending, mutated, calls, via, retries, left, denied, shown, acts>>

ReplyAmbiguous ==
  /\ control = "prompt" /\ task = "waiting_user" /\ ~pending
  /\ pending' = TRUE
  /\ StartInvocation("text")
  /\ UNCHANGED <<sessionVars, mutated, calls, shown, acts>>

ReplyExactApproval ==
  /\ control = "prompt" /\ task = "waiting_user" /\ ~pending
  /\ CanApprove(plan)
  /\ Record({}, Approved(plan))
  /\ StartInvocation("text")
  /\ UNCHANGED <<pending, mutated, calls, shown, acts>>

\* /approve and /revise resume the task, /cancel-plan stays at the prompt.
CommandApprove ==
  /\ control = "prompt" /\ CanApprove(plan)
  /\ Record({}, Approved(plan))
  /\ pending' = FALSE
  /\ StartInvocation("command")
  /\ UNCHANGED <<mutated, calls, shown, acts>>

\* Mutated: the reply that the command overtakes stays pending.
CommandReviseOnly ==
  /\ control = "prompt" /\ CanRevise(plan) /\ plan.version < MaxVersion
  /\ Record({}, Revised(plan))
  /\ StartInvocation("command")
  /\ UNCHANGED <<pending, mutated, calls, shown, acts>>

CommandRevise ==
  /\ control = "prompt" /\ CanRevise(plan) /\ plan.version < MaxVersion
  /\ Record({}, Revised(plan))
  /\ pending' = FALSE
  /\ StartInvocation("command")
  /\ UNCHANGED <<mutated, calls, shown, acts>>

CommandCancel ==
  /\ control = "prompt" /\ CanCancel(plan)
  /\ Record({}, Cancelled(plan))
  /\ pending' = FALSE
  /\ UNCHANGED <<flowVars, mutated, calls, shown, acts>>

Quit ==
  /\ control = "prompt"
  /\ control' = "closed"
  /\ UNCHANGED <<sessionVars, pending, mutated, calls, via, retries, left, denied, shown, acts>>

Prompt ==
  \/ \E policy \in PlanPolicy, approvalPolicy \in ApprovalPolicy :
        StartTask(policy, approvalPolicy)
  \/ ReplyWhilePending \/ ReplyAmbiguous \/ ReplyExactApproval
  \/ CommandApprove \/ CommandRevise \/ CommandCancel
  \/ Quit

-----------------------------------------------------------------------------
(* One call of the model.                                                  *)

\* Mutated: a call of the model is not counted.
ModelCallUncounted == control = "model" /\ calls < MaxTurns /\ calls' = calls

ModelCall == control = "model" /\ calls < MaxTurns /\ calls' = calls + 1

\* An invocation that stops the task; every such abort reason ends the session.
Stop(status) ==
  /\ StopTask(status)
  /\ EndInvocation("stopped")
  /\ UNCHANGED <<pending, mutated, shown, acts>>

TurnLimit ==
  /\ control = "model" /\ calls >= MaxTurns
  /\ Stop("failed") /\ UNCHANGED calls

\* The call fails, overflows the context for good, or the response is refused,
\* incomplete or malformed.
ModelFails == ModelCall /\ Stop("failed")

InterruptModel == ModelCall /\ Stop("cancelled")

\* The context overflowed and was compacted: the turn is spent, nothing else.
OverflowRecovered ==
  /\ ModelCall
  /\ UNCHANGED <<sessionVars, flowVars, pending, mutated, shown, acts>>

\* _apply_plan_boundary with a plan that awaits approval.  The task waits already.
PauseForApproval ==
  /\ plan.phase = "awaiting_approval"
  /\ shown' = Draft(plan)
  /\ EndInvocation("none")
  /\ UNCHANGED <<sessionVars, pending, mutated, acts>>

\* Mutated: one retry too many.
RetryOnceMore ==
  /\ ResponsePending
  /\ \/ /\ retries <= MaxRetries
        /\ retries' = retries + 1
        /\ control' = "model"
        /\ UNCHANGED <<sessionVars, via, left, denied, pending, mutated, shown, acts>>
     \/ retries > MaxRetries /\ PauseForApproval

\* A response is due, and the model answers with anything but one call of
\* resolve_plan_response: a protocol violation, a final text, or a call of the
\* resolver that is rejected (RetryRejected below).  One retry, then a pause.
RetryOrPause ==
  /\ ResponsePending
  /\ \/ /\ retries < MaxRetries
        /\ retries' = retries + 1
        /\ control' = "model"
        /\ UNCHANGED <<sessionVars, via, left, denied, pending, mutated, shown, acts>>
     \/ retries >= MaxRetries /\ PauseForApproval

Unresolved == ModelCall /\ RetryOrPause

\* A final text while the plan is drafted or executed is put off.
FinalDeferred ==
  /\ ModelCall
  /\ InPhase(plan, "planning") \/ InPhase(plan, "executing")
  /\ UNCHANGED <<sessionVars, flowVars, pending, mutated, shown, acts>>

\* Mutated: only success ends the task.
FinalIfSuccess(status) ==
  /\ ModelCall
  /\ ~InPhase(plan, "planning") /\ ~InPhase(plan, "executing") /\ ~ResponsePending
  /\ IF status = "completed" THEN StopTask(status) ELSE UNCHANGED sessionVars
  /\ EndInvocation("none")
  /\ UNCHANGED <<pending, mutated, shown, acts>>

\* infer_success decides the status.
Final(status) ==
  /\ ModelCall
  /\ ~InPhase(plan, "planning") /\ ~InPhase(plan, "executing") /\ ~ResponsePending
  /\ StopTask(status)
  /\ EndInvocation("none")
  /\ UNCHANGED <<pending, mutated, shown, acts>>

CallTools(n) ==
  /\ ModelCall
  /\ ResponsePending => n = 1
  /\ control' = "tools" /\ left' = n
  /\ UNCHANGED <<sessionVars, via, retries, denied, pending, mutated, shown, acts>>

Model ==
  \/ TurnLimit \/ ModelFails \/ InterruptModel \/ OverflowRecovered
  \/ Unresolved \/ FinalDeferred
  \/ \E status \in {"completed", "failed"} : Final(status)
  \/ \E n \in 1 .. MaxBatch : CallTools(n)

-----------------------------------------------------------------------------
(* The tool calls of a batch, in order.  A call that changes the phase or  *)
(* the path of the plan cancels the rest of the batch.                     *)

Executing == control = "tools" /\ left > 0

\* A call of update_plan or select_execution_mode that leaves plan p.
PlanCall(earlier, p) ==
  /\ Executing
  /\ Record(earlier, p)
  /\ left' = IF p.phase # plan.phase \/ p.path # plan.path THEN 0 ELSE left - 1
  /\ UNCHANGED <<control, via, retries, denied, pending, mutated, calls, shown, acts>>

SelectMode(mode) ==
  CanSelectPath(plan, mutated) /\ PlanCall({}, PathSelected(plan, mode))

ReplacePlan(outline, restated) ==
  /\ "replace_plan" \in UpdatePlanActions(plan)
  /\ CanReplace(plan, outline) /\ plan.version < MaxVersion
  /\ PlanCall({}, Replaced(plan, outline, restated))

ReplaceAndSubmit(outline, restated) ==
  LET p == Replaced(plan, outline, restated) IN
  /\ "replace_plan" \in UpdatePlanActions(plan)
  /\ CanReplace(plan, outline) /\ plan.version < MaxVersion
  /\ CanSubmit(p)
  /\ PlanCall({Snapshot(p, task)}, Submitted(p))

SubmitPlan ==
  /\ "submit" \in UpdatePlanActions(plan)
  /\ CanSubmit(plan) /\ PlanCall({}, Submitted(plan))

UpdateStep(i, status) ==
  /\ "update_step" \in UpdatePlanActions(plan)
  /\ CanUpdateStep(plan, i, status) /\ PlanCall({}, StepUpdated(plan, i, status))

RequestReplan ==
  /\ "request_replan" \in UpdatePlanActions(plan)
  /\ CanReplan(plan) /\ plan.version < MaxVersion /\ PlanCall({}, Replanned(plan))

CancelPlan ==
  /\ "cancel" \in UpdatePlanActions(plan)
  /\ CanCancel(plan) /\ PlanCall({}, Cancelled(plan))

CompletePlan ==
  /\ "complete" \in UpdatePlanActions(plan)
  /\ CanComplete(plan) /\ PlanCall({}, Completed(plan))

\* Mutated: the text is not consumed.
ResolveUnconsumed(p) ==
  /\ Executing /\ CanResolvePlanResponse(plan, pending)
  /\ Record({}, p)
  /\ left' = 0
  /\ UNCHANGED <<control, via, retries, denied, pending, mutated, calls, shown, acts>>

\* resolve_plan_response: the model interprets the user's text.  The transition
\* comes first, then the text is consumed.
Resolve(p) ==
  /\ Executing /\ CanResolvePlanResponse(plan, pending)
  /\ Record({}, p)
  /\ pending' = FALSE
  /\ left' = 0
  /\ UNCHANGED <<control, via, retries, denied, mutated, calls, shown, acts>>

ResolveApprove == CanApprove(plan) /\ Resolve(Approved(plan))
ResolveRevise  == CanRevise(plan) /\ plan.version < MaxVersion /\ Resolve(Revised(plan))
ResolveCancel  == CanCancel(plan) /\ Resolve(Cancelled(plan))

\* A tool with side effects runs; it may or may not count as a mutation.
SideEffect(mutates) ==
  /\ Executing /\ CanExecuteSideEffects(plan)
  /\ acts' = ~acts
  /\ mutated' = (mutated \/ mutates)
  /\ left' = left - 1
  /\ UNCHANGED <<sessionVars, control, via, retries, denied, pending, calls, shown>>

\* A Bash command that would write files, called while Bash is hidden: the call
\* is refused, but mutation_result_hook still counts a mutation.
HiddenShellWrite ==
  /\ Executing /\ ~CanExecuteSideEffects(plan) /\ ~ResponsePending
  /\ mutated' = TRUE
  /\ left' = left - 1
  /\ UNCHANGED <<sessionVars, control, via, retries, denied, pending, calls, shown, acts>>

\* A permission is denied for good: the task is over and so is the batch.
TerminalDeny ==
  /\ Executing /\ CanExecuteSideEffects(plan)
  /\ StopTask("cancelled")
  /\ denied' = TRUE /\ left' = 0
  /\ UNCHANGED <<control, via, retries, pending, mutated, calls, shown, acts>>

\* A read, a call that is refused, or one that fails.
OtherCall ==
  /\ Executing
  /\ left' = left - 1
  /\ UNCHANGED <<sessionVars, control, via, retries, denied, pending, mutated, calls,
                 shown, acts>>

InterruptTools ==
  /\ control = "tools"
  /\ Stop("cancelled") /\ UNCHANGED calls

-----------------------------------------------------------------------------
(* The end of a batch.                                                     *)

Ended == control = "tools" /\ left = 0

\* The results do not fit any budget, or the same invalid calls were repeated.
BatchFails == Ended /\ Stop("failed") /\ UNCHANGED calls

\* The loop sees that the context is finished.
EndDenied ==
  /\ Ended /\ denied
  /\ EndInvocation("stopped")
  /\ UNCHANGED <<sessionVars, pending, mutated, calls, shown, acts>>

\* A batch that starts with a response due holds one call, so that the response
\* is still due exactly when that call was rejected (_should_retry_plan_response).
RetryRejected == Ended /\ ~denied /\ RetryOrPause /\ UNCHANGED calls

Pause == Ended /\ ~denied /\ ~pending /\ PauseForApproval /\ UNCHANGED calls

EndCancelled ==
  /\ Ended /\ ~denied /\ plan.phase = "cancelled"
  /\ StopTask("cancelled")
  /\ EndInvocation("plan_cancelled")
  /\ UNCHANGED <<pending, mutated, calls, shown, acts>>

NextTurn ==
  /\ Ended /\ ~denied /\ plan.phase \notin {"awaiting_approval", "cancelled"}
  /\ control' = "model"
  /\ UNCHANGED <<sessionVars, via, retries, left, denied, pending, mutated, calls, shown, acts>>

Tools ==
  \/ \E mode \in {"direct", "plan"} : SelectMode(mode)
  \/ \E outline \in Outline, restated \in BOOLEAN : ReplacePlan(outline, restated)
  \/ \E outline \in Outline, restated \in BOOLEAN : ReplaceAndSubmit(outline, restated)
  \/ SubmitPlan
  \/ \E i \in StepId, status \in PlanStepStatus : UpdateStep(i, status)
  \/ RequestReplan \/ CancelPlan \/ CompletePlan
  \/ ResolveApprove \/ ResolveRevise \/ ResolveCancel
  \/ \E mutates \in BOOLEAN : SideEffect(mutates)
  \/ HiddenShellWrite \/ TerminalDeny \/ OtherCall \/ InterruptTools
  \/ BatchFails \/ EndDenied \/ RetryRejected \/ Pause \/ EndCancelled \/ NextTurn

SessionOver == control \in {"closed", "crashed"} /\ UNCHANGED vars

Next == Prompt \/ Model \/ Tools \/ SessionOver

Spec == Init /\ [][Next]_vars

\* Calls of the model and of tools return or raise, so that the loop goes on.
\* Nothing is assumed of the user.
FairSpec == Spec /\ WF_vars(Model) /\ WF_vars(Tools)

-----------------------------------------------------------------------------
(* Properties.                                                             *)

FlowTypeOK ==
  /\ task \in TaskStatus
  /\ pending \in BOOLEAN /\ mutated \in BOOLEAN /\ denied \in BOOLEAN
  /\ calls \in 0 .. MaxTurns /\ retries \in 0 .. MaxRetries /\ left \in 0 .. MaxBatch
  /\ control \in {"prompt", "model", "tools", "closed", "crashed"}
  /\ via \in {"text", "command"}
  /\ disk \in Snapshots
  /\ saved \in BOOLEAN
  /\ shown \in {None} \cup [version : Nat, outline : Outline]
  /\ acts \in BOOLEAN

TypeOK == plan \in Plan /\ FlowTypeOK

\* The task and its plan agree whenever the loop, the listener or the prompt
\* looks: validate_lifecycle_invariants and PlanState.validate never raise.
LifecycleAgreement == LifecycleOK /\ Valid(plan)

\* validate_task_transition never refuses: the task only takes steps of its
\* table, and leaves a terminal status only when a new task begins.
AllowedStatus ==
  {<<"idle", "running">>}
  \cup {"running"} \X ({"waiting_user"} \cup Terminal)
  \cup {"waiting_user"} \X {"running", "failed", "cancelled"}
  \cup Terminal \X {"running"}

TaskFollowsTable ==
  [][ task' # task =>
        /\ <<task, task'>> \in AllowedStatus
        /\ task \in Terminal => control = "prompt" ]_vars

\* A plan that the user's approval put into execution is word for word the one
\* that was on the user's screen, whatever replies, retries, revisions and
\* interruptions lie between.
ApprovedPlanWasShown ==
  plan.phase = "executing" /\ plan.source = "user" => shown = Draft(plan)

\* A waiting task goes on only by an act of the user: a command or a text typed
\* at the prompt, and a text lets it go on once.
WaitingNeedsUser ==
  [][ task = "waiting_user" /\ task' = "running" =>
        control = "prompt" \/ (pending /\ ~pending') ]_vars

\* The model is called on a plan that awaits approval only with a reply to
\* interpret, so it never has a turn with no tool to call.
ReplyIsForAwaitingPlan ==
  /\ control = "model" /\ plan.phase = "awaiting_approval" => pending
  /\ pending => plan.phase = "awaiting_approval" \/ task \in Terminal

\* When the user has the prompt nothing is in progress: the task is over, waits
\* for an approval whose plan is on the screen, or has not begun.
PromptIsIdle ==
  control = "prompt" =>
    /\ task # "running"
    /\ task = "waiting_user" => shown = Draft(plan)

\* From the first attempt to write or remove plan.json on, the file tells the
\* truth about phase, version, approval and task status whenever the last
\* attempt succeeded.
SnapshotCoherent == saved => disk = Snapshot(plan, task)

\* Every invocation ends: the turn limit and the retry limit bound every loop.
InvocationEnds == control \in {"model", "tools"} ~> control \in {"prompt", "closed"}

\* PlanAuthority, the promise to the user: where a task stands there is read off
\* its status and the phase of its plan.
Stage(status, p) ==
  CASE status = "idle"                     -> "none"
    [] status = "completed"                -> "completed"
    [] status \in {"failed", "cancelled"}  -> "stopped"
    [] OTHER -> CASE p.path = "direct"               -> "free"
                  [] p.path = "undecided"            -> "deciding"
                  [] p.phase = "planning"            -> "drafting"
                  [] p.phase = "awaiting_approval"   -> "review"
                  [] p.phase = "executing"           -> "granted"
                  [] p.phase = "completed"           -> "finished"
                  [] OTHER                           -> "stopped"

Authority == INSTANCE PlanAuthority WITH
  stage <- Stage(task, plan), draft <- Draft(plan), seen <- shown,
  manual <- (plan.approvalPolicy = "manual"), work <- acts

KeepsAuthority == Authority!Spec

\* docs/architecture.md: "Interactive ordinary text continues a waiting task".
TextContinuesWaitingTask == control # "crashed"

\* docs/architecture.md: a blocked plan call "is not counted as a mutation".
BlockedCallsDoNotCount == plan.path = "undecided" => ~mutated
=============================================================================
