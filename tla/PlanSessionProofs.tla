--------------------------- MODULE PlanSessionProofs ---------------------------
(***************************************************************************)
(* The session keeps task, plan, screen and plan.json in agreement, for    *)
(* every number of steps, turns, retries and batch sizes.                  *)
(***************************************************************************)
EXTENDS PlanSession, PlanStateProofs

-----------------------------------------------------------------------------
(* The inductive invariant.                                                *)

\* Who may act, given the status of the task and the phase of the plan.
FlowInv ==
  /\ task = "idle" => /\ control \in {"prompt", "closed"} /\ ~pending
                      /\ plan.phase \in {"inactive", "planning", "cancelled"}
  /\ control = "prompt" => task # "running"
  /\ control = "model" => task \in {"running", "waiting_user"} /\ plan.phase # "cancelled"
  /\ control # "tools" => left = 0 /\ ~denied
  /\ control = "tools" =>
       IF denied \/ plan.phase = "cancelled"
       THEN left = 0 /\ task = "cancelled"
       ELSE task \in {"running", "waiting_user"}

\* While the loop runs, a plan is under review only with a reply, or at the end
\* of the batch that submitted it.
ReplyInv ==
  /\ control = "model" /\ plan.phase = "awaiting_approval" => pending
  /\ control = "tools" /\ left > 0 /\ plan.phase = "awaiting_approval" => pending
  /\ pending => plan.phase = "awaiting_approval" \/ task \in Terminal

\* What can be approved, and what has been approved, is what is on the screen.
ShownInv ==
  /\ pending /\ plan.phase = "awaiting_approval" => shown = Draft(plan)
  /\ control = "prompt" /\ task = "waiting_user" => shown = Draft(plan)
  /\ plan.phase = "executing" /\ plan.source = "user" => shown = Draft(plan)

Inv == /\ Good(plan) /\ FlowTypeOK /\ LifecycleOK
       /\ FlowInv /\ ReplyInv /\ ShownInv /\ SnapshotCoherent

-----------------------------------------------------------------------------
(* What each operation leaves, as far as the session looks at it.          *)

LEMMA StartFields ==
  ASSUME NEW policy \in PlanPolicy, NEW approvalPolicy \in ApprovalPolicy
  PROVE  LET q == InitialPlan(policy, approvalPolicy) IN
         /\ q.policy = policy /\ q.source = None
         /\ q.phase = IF policy = "required" THEN "planning" ELSE "inactive"
BY DEF InitialPlan

LEMMA ApprovedFields ==
  ASSUME NEW p, Good(p)
  PROVE  LET q == Approved(p) IN
         /\ q.policy = p.policy /\ q.path = p.path
         /\ q.phase = "executing" /\ Draft(q) = Draft(p)
BY DEF Good, Plan, Approved, Draft

LEMMA RevisedFields ==
  ASSUME NEW p, Good(p)
  PROVE  LET q == Revised(p) IN
         q.policy = p.policy /\ q.path = p.path /\ q.phase = "planning"
BY DEF Good, Plan, Revised

LEMMA CancelledFields ==
  ASSUME NEW p, Good(p)
  PROVE  LET q == Cancelled(p) IN
         q.policy = p.policy /\ q.path = p.path /\ q.phase = "cancelled"
BY DEF Good, Plan, Cancelled

\* A plan on any other path than "plan" is inactive.
LEMMA ActiveIsPlan ==
  ASSUME NEW p, Good(p)
  PROVE  /\ p.path \in ExecutionPath /\ p.phase \in PlanPhase
         /\ p.phase # "inactive" => p.path = "plan"
         /\ p.path = "plan" => p.phase # "inactive"
BY DEF Good, Plan, Valid, PathValid, ExecutionPath

-----------------------------------------------------------------------------
(* The session's data: plan, task and plan.json.                           *)

DataInv == /\ Good(plan) /\ task \in TaskStatus
           /\ disk \in Snapshots /\ saved \in BOOLEAN
           /\ SnapshotCoherent

LEMMA SnapshotType ==
  ASSUME NEW p, Good(p), NEW status \in TaskStatus
  PROVE  Snapshot(p, status) \in Snapshots
<1>1. p \in Plan
  BY DEF Good
<1>2. p.phase \in PlanPhase /\ p.version \in Nat /\ p.approved \in Nat \cup {None}
  BY <1>1 DEF Plan
<1> QED BY <1>2 DEF Snapshot, Snapshots

\* Writing plan.json for plan and task as they become keeps the data in order.
LEMMA SaveKeeps ==
  ASSUME DataInv, NEW earlier \in SUBSET Snapshots, NEW q, Good(q), q.policy = plan.policy,
         NEW status \in TaskStatus,
         plan' = q, task' = status, Save(earlier, q, status)
  PROVE  DataInv'
<1>1. CASE q.policy = "off"
  BY <1>1 DEF Save, DataInv, SnapshotCoherent, Snapshot
<1>2. CASE q.policy # "off" /\ disk' = Snapshot(q, status) /\ saved' = TRUE
  BY <1>2, SnapshotType DEF DataInv, SnapshotCoherent
<1>3. CASE q.policy # "off" /\ disk' \in {disk} \cup earlier /\ saved' = FALSE
  BY <1>3 DEF DataInv, SnapshotCoherent
<1> QED BY <1>1, <1>2, <1>3 DEF Save

LEMMA TaskAfterType ==
  ASSUME NEW q, task \in TaskStatus
  PROVE  TaskAfter(q) \in TaskStatus
BY DEF TaskAfter, TaskStatus, Terminal

LEMMA RecordKeeps ==
  ASSUME DataInv, NEW earlier \in SUBSET Snapshots, NEW q, Good(q), q.policy = plan.policy,
         Record(earlier, q)
  PROVE  DataInv'
<1>1. TaskAfter(q) \in TaskStatus
  BY TaskAfterType DEF DataInv
<1> QED BY <1>1, SaveKeeps DEF Record

\* Stopping a task of the running loop leaves a terminal task whose plan, if it
\* has one, is completed or cancelled.
LEMMA StopKeeps ==
  ASSUME DataInv, LifecycleOK, NEW status \in Terminal, StopTask(status), task # "idle",
         status = "completed" => plan.phase \notin ActivePhase
  PROVE  /\ DataInv' /\ LifecycleOK'
         /\ task' \in Terminal /\ (task \notin Terminal => task' = status)
         /\ plan'.phase \notin ActivePhase
         /\ plan' \in {plan, Cancelled(plan)}
         /\ task' # task \/ plan' = plan
<1>1. Good(plan) /\ status \in TaskStatus /\ task \in TaskStatus
  BY DEF DataInv, TaskStatus, Terminal
<1>2. CASE task \in Terminal
  <2>1. plan' = plan /\ task' = task /\ disk' = disk /\ saved' = saved
    BY <1>2 DEF StopTask, sessionVars
  <2>2. plan.phase \notin ActivePhase
    BY <1>1, <1>2, ActiveIsPlan DEF LifecycleOK, ActivePhase
  <2> QED BY <1>2, <2>1, <2>2 DEF DataInv, LifecycleOK, SnapshotCoherent
<1>3. CASE task \notin Terminal
  <2> DEFINE q == PlanAfterStop(status)
  <2>1. /\ plan' = q /\ task' = status
        /\ Save(IF q = plan THEN {} ELSE {Snapshot(q, status)}, q, status)
    BY <1>3 DEF StopTask
  <2>2. /\ Good(q) /\ q.policy = plan.policy /\ q.path = plan.path
        /\ q \in {plan, Cancelled(plan)}
        /\ q.phase \notin ActivePhase
        /\ q.path = "plan" /\ q.phase # "completed" => q.phase = "cancelled"
    <3>1. CASE /\ status \in {"failed", "cancelled"}
               /\ plan.path = "plan" /\ plan.phase \in ActivePhase
      <4>1. q = Cancelled(plan) /\ CanCancel(plan)
        BY <3>1 DEF PlanAfterStop, CanCancel
      <4> QED BY <1>1, <4>1, CancelGood, CancelledFields DEF ActivePhase
    <3>2. CASE ~(/\ status \in {"failed", "cancelled"}
                 /\ plan.path = "plan" /\ plan.phase \in ActivePhase)
      <4>1. q = plan
        BY <3>2 DEF PlanAfterStop
      <4>2. plan.phase \notin ActivePhase
        BY <1>1, <3>2, ActiveIsPlan DEF Terminal, ActivePhase
      <4> QED BY <1>1, <4>1, <4>2, ActiveIsPlan DEF ActivePhase, PlanPhase
    <3> QED BY <3>1, <3>2
  <2> HIDE DEF q
  <2>3. (IF q = plan THEN {} ELSE {Snapshot(q, status)}) \in SUBSET Snapshots
    BY <1>1, <2>2, SnapshotType
  <2>4. DataInv'
    BY <1>1, <2>1, <2>2, <2>3, SaveKeeps
  <2>5. LifecycleOK'
    BY <1>1, <2>1, <2>2, ActiveIsPlan DEF LifecycleOK, Terminal, ActivePhase, PlanPhase
  <2> QED BY <1>3, <2>1, <2>2, <2>4, <2>5
<1> QED BY <1>2, <1>3

-----------------------------------------------------------------------------
(* The prompt.                                                             *)

LEMMA TaskAfterCases ==
  ASSUME NEW q, task \in TaskStatus
  PROVE  /\ task = "idle" => TaskAfter(q) = "idle"
         /\ task # "idle" /\ q.phase = "awaiting_approval" => TaskAfter(q) = "waiting_user"
         /\ task = "waiting_user" /\ q.phase \in {"planning", "executing"}
              => TaskAfter(q) = "running"
         /\ task = "running" /\ q.phase \notin {"awaiting_approval", "cancelled"}
              => TaskAfter(q) = "running"
         /\ task \in {"running", "waiting_user"} /\ q.phase = "cancelled"
              => TaskAfter(q) = "cancelled"
BY DEF TaskAfter, TaskStatus, Terminal

LEMMA StartKeeps ==
  ASSUME Inv, NEW policy \in PlanPolicy, NEW approvalPolicy \in ApprovalPolicy,
         StartTask(policy, approvalPolicy)
  PROVE  Inv'
<1> DEFINE q == InitialPlan(policy, approvalPolicy)
<1>1. Good(q) /\ q.policy = policy /\ q.source = None
      /\ q.phase = IF policy = "required" THEN "planning" ELSE "inactive"
  BY InitialGood, StartFields
<1>2. plan' = q /\ task' = "running"
  BY DEF StartTask
<1>3. disk' \in Snapshots /\ saved' \in BOOLEAN /\ (saved' => disk' = Snapshot(q, "running"))
  <2>1. Snapshot(q, "running") \in Snapshots /\ disk \in Snapshots
    BY <1>1, SnapshotType DEF Inv, FlowTypeOK, TaskStatus
  <2>2. CASE policy = "off"
    BY <1>1, <2>1, <2>2 DEF StartTask, Clear, Snapshot, Snapshots
  <2>3. CASE policy # "off"
    BY <1>1, <1>2, <2>1, <2>3 DEF StartTask, Save
  <2> QED BY <2>2, <2>3
<1>4. /\ pending' = FALSE /\ mutated' = FALSE /\ calls' = 0 /\ shown' = None
      /\ control' = "model" /\ via' = "text"
      /\ retries' = retries /\ left' = left /\ denied' = denied /\ acts' = acts
      /\ control = "prompt"
  BY DEF StartTask, StartInvocation
<1> HIDE DEF q
<1>5. FlowTypeOK'
  <2>1. calls' \in 0 .. MaxTurns
    BY <1>4, PlanSessionAssumption
  <2>2. task' \in TaskStatus
    BY <1>2 DEF TaskStatus
  <2> QED BY <1>3, <1>4, <2>1, <2>2 DEF Inv, FlowTypeOK
<1>6. LifecycleOK' /\ SnapshotCoherent' /\ FlowInv'
  BY <1>1, <1>2, <1>3, <1>4 DEF Inv, LifecycleOK, FlowInv, SnapshotCoherent, Terminal
<1>7. ReplyInv' /\ ShownInv'
  BY <1>1, <1>2, <1>4 DEF ReplyInv, ShownInv
<1> QED BY <1>1, <1>2, <1>5, <1>6, <1>7 DEF Inv

LEMMA InvData ==
  ASSUME Inv
  PROVE  DataInv /\ LifecycleOK
BY DEF Inv, DataInv, FlowTypeOK

\* What the steps of the rest of the session do to the variables that only the
\* type invariant constrains.
FlowTypeStep ==
  /\ pending' \in BOOLEAN /\ mutated' \in BOOLEAN /\ denied' \in BOOLEAN
  /\ calls' \in 0 .. MaxTurns /\ retries' \in 0 .. MaxRetries /\ left' \in 0 .. MaxBatch
  /\ control' \in {"prompt", "model", "tools", "closed", "crashed"}
  /\ via' \in {"text", "command"}
  /\ shown' \in {None} \cup [version : Nat, outline : Outline]
  /\ acts' \in BOOLEAN

LEMMA InvFromParts ==
  ASSUME DataInv', FlowTypeStep, LifecycleOK', FlowInv', ReplyInv', ShownInv'
  PROVE  Inv'
BY DEF DataInv, FlowTypeStep, FlowTypeOK, Inv

\* A plan under review is that of a task which waits for the user.
LEMMA ReviewWaits ==
  ASSUME Inv, plan.phase = "awaiting_approval", control \in {"prompt", "model", "tools"},
         control = "tools" => left > 0
  PROVE  task = "waiting_user" /\ plan.path = "plan"
<1>1. plan.path = "plan" /\ task \in TaskStatus
  BY ActiveIsPlan DEF Inv, FlowTypeOK
<1>2. task # "idle"
  BY DEF Inv, FlowInv
<1> QED BY <1>1, <1>2 DEF Inv, LifecycleOK, Terminal

\* The user's approval or revision, typed or commanded at the prompt, or
\* interpreted by the model: the task runs again.
LEMMA ResumeKeeps ==
  ASSUME Inv, NEW q, Good(q), q.policy = plan.policy, q.path = plan.path,
         q.phase = "planning" \/ (q.phase = "executing" /\ Draft(q) = Draft(plan)),
         Record({}, q), task = "waiting_user", plan.phase = "awaiting_approval",
         pending \/ control = "prompt", shown' = shown
  PROVE  /\ DataInv' /\ LifecycleOK' /\ ShownInv'
         /\ plan' = q /\ task' = "running"
<1>1. DataInv'
  BY RecordKeeps, InvData
<1>2. plan' = q /\ task' = "running"
  BY TaskAfterCases DEF Record, Inv, FlowTypeOK
<1>3. shown = Draft(plan)
  BY DEF Inv, ShownInv
<1>4. LifecycleOK' /\ ShownInv'
  BY <1>2, <1>3 DEF LifecycleOK, ShownInv, Terminal
<1> QED BY <1>1, <1>2, <1>4

LEMMA PromptKeeps ==
  ASSUME Inv, Prompt
  PROVE  Inv'
<1>1. ASSUME NEW policy \in PlanPolicy, NEW approvalPolicy \in ApprovalPolicy,
             StartTask(policy, approvalPolicy)
      PROVE  Inv'
  BY <1>1, StartKeeps
<1>2. CASE ReplyWhilePending \/ ReplyAmbiguous \/ Quit
  <2>1. /\ plan' = plan /\ task' = task /\ disk' = disk /\ saved' = saved
        /\ mutated' = mutated /\ calls' = calls /\ retries' = retries /\ left' = left
        /\ denied' = denied /\ shown' = shown /\ acts' = acts /\ control = "prompt"
    BY <1>2 DEF ReplyWhilePending, ReplyAmbiguous, Quit, sessionVars, StartInvocation
  <2>2. \/ control' = "closed" /\ pending' = pending /\ via' = via
        \/ control' = "crashed" /\ pending' = pending /\ via' = via /\ task = "waiting_user"
        \/ control' = "model" /\ pending' = TRUE /\ via' = "text" /\ task = "waiting_user"
    BY <1>2 DEF ReplyWhilePending, ReplyAmbiguous, Quit, StartInvocation
  <2>3. FlowTypeStep
    BY <2>1, <2>2 DEF Inv, FlowTypeOK, FlowTypeStep
  <2>4. DataInv' /\ LifecycleOK'
    BY <2>1, InvData DEF DataInv, LifecycleOK, SnapshotCoherent
  <2>5. FlowInv' /\ ReplyInv' /\ ShownInv'
    BY <2>1, <2>2 DEF Inv, FlowInv, ReplyInv, ShownInv, LifecycleOK
  <2> QED BY <2>3, <2>4, <2>5, InvFromParts
<1>3. CASE ReplyExactApproval \/ CommandApprove \/ CommandRevise
  <2>1. plan.phase = "awaiting_approval" /\ control = "prompt"
    BY <1>3 DEF ReplyExactApproval, CommandApprove, CommandRevise, CanApprove, CanRevise,
                InPhase
  <2>2. task = "waiting_user"
    BY <2>1, ReviewWaits
  <2>3. PICK q : /\ q \in {Approved(plan), Revised(plan)} /\ Record({}, q) /\ Good(q)
                 /\ q.policy = plan.policy /\ q.path = plan.path
                 /\ q.phase = "planning" \/ (q.phase = "executing" /\ Draft(q) = Draft(plan))
    <3>1. Good(plan)
      BY DEF Inv
    <3>2. CASE ReplyExactApproval \/ CommandApprove
      BY <3>1, <3>2, ApproveGood, ApprovedFields DEF ReplyExactApproval, CommandApprove
    <3>3. CASE CommandRevise
      BY <3>1, <3>3, ReviseGood, RevisedFields DEF CommandRevise
    <3> QED BY <1>3, <3>2, <3>3
  <2>4. /\ mutated' = mutated /\ calls' = calls /\ retries' = retries /\ left' = left
        /\ denied' = denied /\ shown' = shown /\ acts' = acts
        /\ control' = "model" /\ via' \in {"text", "command"} /\ pending' = FALSE
    BY <1>3 DEF ReplyExactApproval, CommandApprove, CommandRevise, StartInvocation, Inv,
                FlowTypeOK
  <2>5. DataInv' /\ LifecycleOK' /\ ShownInv' /\ plan' = q /\ task' = "running"
    BY <2>1, <2>2, <2>3, <2>4, ResumeKeeps
  <2>6. FlowTypeStep
    BY <2>4 DEF Inv, FlowTypeOK, FlowTypeStep
  <2>7. FlowInv' /\ ReplyInv'
    BY <2>1, <2>3, <2>4, <2>5 DEF Inv, FlowInv, ReplyInv
  <2> QED BY <2>5, <2>6, <2>7, InvFromParts
<1>4. CASE CommandCancel
  <2> DEFINE q == Cancelled(plan)
  <2>1. /\ Good(plan) /\ Good(q) /\ q.policy = plan.policy /\ q.path = plan.path
        /\ q.phase = "cancelled"
    BY <1>4, CancelGood, CancelledFields DEF Inv, CommandCancel
  <2>2. DataInv' /\ plan' = q /\ task' = TaskAfter(q)
    BY <1>4, <2>1, RecordKeeps, InvData DEF CommandCancel, Record
  <2>3. control = "prompt" /\ task \in TaskStatus /\ task # "running"
        /\ plan.phase \in ActivePhase
    BY <1>4 DEF CommandCancel, CanCancel, Inv, FlowInv, FlowTypeOK
  <2> HIDE DEF q
  <2>4. task \notin Terminal
    BY <2>1, <2>3, ActiveIsPlan DEF Inv, LifecycleOK, Terminal, ActivePhase
  <2>5. task' \in {"idle", "cancelled"} /\ (task = "idle" => task' = "idle")
    BY <2>1, <2>2, <2>3, <2>4, TaskAfterCases DEF TaskStatus, Terminal
  <2>6. /\ mutated' = mutated /\ calls' = calls /\ retries' = retries /\ left' = left
        /\ denied' = denied /\ shown' = shown /\ acts' = acts
        /\ control' = control /\ via' = via /\ pending' = FALSE
    BY <1>4 DEF CommandCancel, flowVars
  <2>7. FlowTypeStep
    BY <2>6 DEF Inv, FlowTypeOK, FlowTypeStep
  <2>8. LifecycleOK' /\ FlowInv' /\ ReplyInv' /\ ShownInv'
    BY <2>1, <2>2, <2>3, <2>5, <2>6
       DEF Inv, LifecycleOK, FlowInv, ReplyInv, ShownInv, Terminal
  <2> QED BY <2>2, <2>7, <2>8, InvFromParts
<1> QED BY <1>1, <1>2, <1>3, <1>4 DEF Prompt

-----------------------------------------------------------------------------
(* The model.                                                              *)

\* A step of the loop that stops the task and ends the invocation.
LEMMA StopEndKeeps ==
  ASSUME Inv, NEW status \in Terminal, StopTask(status), control \in {"model", "tools"},
         status = "completed" => plan.phase \notin ActivePhase,
         NEW abortReason, EndInvocation(abortReason),
         calls' \in 0 .. MaxTurns,
         pending' = pending, mutated' = mutated, shown' = shown, acts' = acts
  PROVE  Inv'
<1>1. task # "idle" /\ task \in TaskStatus
  BY DEF Inv, FlowInv, FlowTypeOK
<1>2. /\ DataInv' /\ LifecycleOK' /\ task' \in Terminal
      /\ plan'.phase \notin ActivePhase
  BY <1>1, StopKeeps, InvData
<1>3. /\ control' \in {"prompt", "closed"} /\ via' = "text" /\ retries' = 0 /\ left' = 0
      /\ denied' = FALSE
  BY DEF EndInvocation
<1>4. FlowTypeStep
  <2>1. retries' \in 0 .. MaxRetries /\ left' \in 0 .. MaxBatch
    BY <1>3, PlanSessionAssumption
  <2> QED BY <1>3, <2>1 DEF Inv, FlowTypeOK, FlowTypeStep
<1>5. FlowInv' /\ ReplyInv' /\ ShownInv'
  BY <1>2, <1>3 DEF FlowInv, ReplyInv, ShownInv, Terminal, ActivePhase
<1> QED BY <1>2, <1>4, <1>5, InvFromParts

\* A step of the loop that leaves plan, task and plan.json alone and goes on.
LEMMA TurnKeeps ==
  ASSUME Inv, UNCHANGED sessionVars, control \in {"model", "tools"},
         control' \in {"model", "tools"}, FlowTypeStep,
         shown' = shown, pending' = pending, denied' = denied,
         control' = "model" => /\ left' = 0 /\ ~denied /\ plan.phase # "cancelled"
                               /\ plan.phase = "awaiting_approval" => pending,
         control = "tools" /\ control' = "tools" => left > 0
  PROVE  Inv'
<1>1. plan' = plan /\ task' = task /\ disk' = disk /\ saved' = saved
  BY DEF sessionVars
<1>2. DataInv' /\ LifecycleOK'
  BY <1>1, InvData DEF DataInv, LifecycleOK, SnapshotCoherent
<1>3. task \in {"running", "waiting_user"} \/ (control = "tools" /\ control' = "tools")
  BY DEF Inv, FlowInv
<1>4. control' = "tools" => ~denied /\ plan.phase # "cancelled"
  BY DEF Inv, FlowInv, FlowTypeOK
<1>5. task \in {"running", "waiting_user"}
  BY <1>3, <1>4 DEF Inv, FlowInv
<1>6. FlowInv' /\ ShownInv'
  BY <1>1, <1>4, <1>5 DEF Inv, FlowInv, ShownInv
<1>7. ReplyInv'
  BY <1>1, <1>4 DEF Inv, ReplyInv
<1> QED BY <1>2, <1>6, <1>7, InvFromParts

\* The pause that puts a plan under review on the screen.
LEMMA PauseKeeps ==
  ASSUME Inv, PauseForApproval, control \in {"model", "tools"}, task = "waiting_user",
         calls' \in 0 .. MaxTurns
  PROVE  Inv'
<1>1. /\ plan' = plan /\ task' = task /\ disk' = disk /\ saved' = saved
      /\ pending' = pending /\ mutated' = mutated /\ acts' = acts
      /\ shown' = Draft(plan) /\ plan.phase = "awaiting_approval"
      /\ control' = "prompt" /\ via' = "text" /\ retries' = 0 /\ left' = 0 /\ denied' = FALSE
  BY DEF PauseForApproval, EndInvocation, sessionVars
<1>2. DataInv' /\ LifecycleOK'
  BY <1>1, InvData DEF DataInv, LifecycleOK, SnapshotCoherent
<1>3. FlowTypeStep
  <2>1. retries' \in 0 .. MaxRetries /\ left' \in 0 .. MaxBatch
    BY <1>1, PlanSessionAssumption
  <2>2. Draft(plan) \in [version : Nat, outline : Outline]
    BY DEF Inv, Good, Plan, Draft
  <2> QED BY <1>1, <2>1, <2>2 DEF Inv, FlowTypeOK, FlowTypeStep
<1>4. FlowInv' /\ ReplyInv' /\ ShownInv'
  BY <1>1 DEF Inv, FlowInv, ReplyInv, ShownInv
<1> QED BY <1>2, <1>3, <1>4, InvFromParts

LEMMA RetryOrPauseKeeps ==
  ASSUME Inv, RetryOrPause, control \in {"model", "tools"}, control = "tools" => left = 0,
         ~denied, calls' \in 0 .. MaxTurns
  PROVE  Inv'
<1>1. plan.phase = "awaiting_approval" /\ pending
  BY DEF RetryOrPause, ResponsePending
<1>2. task = "waiting_user"
  BY <1>1, ActiveIsPlan DEF Inv, FlowInv, LifecycleOK, Terminal
<1>3. CASE PauseForApproval
  BY <1>2, <1>3, PauseKeeps
<1>4. CASE ~PauseForApproval
  <2>1. /\ retries < MaxRetries /\ retries' = retries + 1 /\ control' = "model"
        /\ UNCHANGED sessionVars
        /\ via' = via /\ left' = left /\ denied' = denied /\ pending' = pending
        /\ mutated' = mutated /\ shown' = shown /\ acts' = acts
    BY <1>4 DEF RetryOrPause
  <2>2. retries' \in 0 .. MaxRetries
    BY <2>1, PlanSessionAssumption DEF Inv, FlowTypeOK
  <2>3. FlowTypeStep
    BY <2>1, <2>2 DEF Inv, FlowTypeOK, FlowTypeStep
  <2>4. left = 0
    BY DEF Inv, FlowInv
  <2> QED BY <1>1, <2>1, <2>3, <2>4, TurnKeeps
<1> QED BY <1>3, <1>4

LEMMA ModelKeeps ==
  ASSUME Inv, Model
  PROVE  Inv'
<1>1. ASSUME ModelCall
      PROVE  control = "model" /\ calls' \in 0 .. MaxTurns
  BY <1>1, PlanSessionAssumption DEF ModelCall, Inv, FlowTypeOK
<1>2. CASE TurnLimit \/ ModelFails \/ InterruptModel
  <2>1. control = "model" /\ calls' \in 0 .. MaxTurns
    BY <1>1, <1>2 DEF TurnLimit, ModelFails, InterruptModel, Inv, FlowTypeOK
  <2>2. PICK status \in {"failed", "cancelled"} : Stop(status)
    BY <1>2 DEF TurnLimit, ModelFails, InterruptModel
  <2>3. /\ StopTask(status) /\ EndInvocation("stopped") /\ status \in Terminal
        /\ pending' = pending /\ mutated' = mutated /\ shown' = shown /\ acts' = acts
    BY <2>2 DEF Stop, Terminal
  <2> QED BY <2>1, <2>3, StopEndKeeps
<1>3. CASE OverflowRecovered \/ FinalDeferred
  <2>1. /\ control = "model" /\ calls' \in 0 .. MaxTurns
        /\ UNCHANGED sessionVars
        /\ control' = control /\ via' = via /\ retries' = retries /\ left' = left
        /\ denied' = denied /\ pending' = pending /\ mutated' = mutated
        /\ shown' = shown /\ acts' = acts
    BY <1>1, <1>3 DEF OverflowRecovered, FinalDeferred, flowVars
  <2>2. FlowTypeStep
    BY <2>1 DEF Inv, FlowTypeOK, FlowTypeStep
  <2>3. /\ left = 0 /\ ~denied /\ plan.phase # "cancelled"
        /\ plan.phase = "awaiting_approval" => pending
    BY <2>1 DEF Inv, FlowInv, ReplyInv
  <2> QED BY <2>1, <2>2, <2>3, TurnKeeps
<1>4. CASE Unresolved
  <2>1. control = "model" /\ ~denied /\ calls' \in 0 .. MaxTurns /\ RetryOrPause
    BY <1>1, <1>4 DEF Unresolved, Inv, FlowInv
  <2> QED BY <2>1, RetryOrPauseKeeps
<1>5. ASSUME NEW status \in {"completed", "failed"}, Final(status)
      PROVE  Inv'
  <2>1. /\ control = "model" /\ calls' \in 0 .. MaxTurns /\ status \in Terminal
        /\ StopTask(status) /\ EndInvocation("none")
        /\ pending' = pending /\ mutated' = mutated /\ shown' = shown /\ acts' = acts
    BY <1>1, <1>5 DEF Final, Terminal
  <2>2. plan.phase \notin ActivePhase
    BY <1>5, <2>1, ActiveIsPlan
       DEF Final, InPhase, ResponsePending, Inv, ReplyInv, ActivePhase
  <2> QED BY <2>1, <2>2, StopEndKeeps
<1>6. ASSUME NEW n \in 1 .. MaxBatch, CallTools(n)
      PROVE  Inv'
  <2>1. /\ control = "model" /\ calls' \in 0 .. MaxTurns
        /\ UNCHANGED sessionVars
        /\ control' = "tools" /\ left' = n
        /\ via' = via /\ retries' = retries
        /\ denied' = denied /\ pending' = pending /\ mutated' = mutated
        /\ shown' = shown /\ acts' = acts
    BY <1>1, <1>6 DEF CallTools
  <2>2. left' \in 0 .. MaxBatch
    BY <2>1, PlanSessionAssumption
  <2>3. FlowTypeStep
    BY <2>1, <2>2 DEF Inv, FlowTypeOK, FlowTypeStep
  <2> QED BY <2>1, <2>3, TurnKeeps
<1> QED BY <1>2, <1>3, <1>4, <1>5, <1>6 DEF Model

-----------------------------------------------------------------------------
(* The tools.                                                              *)

\* A call executes while the task runs, or waits with a reply to interpret.
LEMMA ExecutingFacts ==
  ASSUME Inv, Executing
  PROVE  /\ control = "tools" /\ left \in 1 .. MaxBatch /\ left - 1 \in 0 .. MaxBatch
         /\ ~denied /\ plan.phase # "cancelled"
         /\ task \in {"running", "waiting_user"}
         /\ plan.phase = "awaiting_approval" <=> task = "waiting_user"
         /\ plan.phase = "awaiting_approval" <=> pending
<1>1. control = "tools" /\ left > 0 /\ left \in 0 .. MaxBatch
  BY DEF Executing, Inv, FlowTypeOK
<1>2. left \in 1 .. MaxBatch /\ left - 1 \in 0 .. MaxBatch
  BY <1>1, PlanSessionAssumption
<1>3. ~denied /\ plan.phase # "cancelled" /\ task \in {"running", "waiting_user"}
  BY <1>1 DEF Inv, FlowInv, FlowTypeOK
<1> QED BY <1>1, <1>2, <1>3 DEF Inv, LifecycleOK, ReplyInv, Terminal

\* A call of update_plan or select_execution_mode works on a plan that is not
\* under review, and does not itself make the user's decision.
ModelMay(p, q) ==
  /\ Good(q) /\ q.policy = p.policy /\ p.phase # "awaiting_approval"
  /\ q.phase = "executing" /\ q.source = "user" =>
       p.phase = "executing" /\ p.source = "user" /\ Draft(q) = Draft(p)

LEMMA ReplacedFields ==
  ASSUME NEW p, Good(p), NEW outline \in Outline, NEW restated \in BOOLEAN,
         CanReplace(p, outline)
  PROVE  LET q == Replaced(p, outline, restated) IN
         /\ Good(q) /\ q.policy = p.policy /\ q.approvalPolicy = p.approvalPolicy
         /\ q.path = p.path /\ q.phase = "planning"
<1>1. Good(Replaced(p, outline, restated))
  BY ReplaceGood
<1>2. p.phase = "planning" /\ p \in Plan
  BY DEF CanReplace, InPhase, Good
<1> QED BY <1>1, <1>2 DEF Replaced, Plan

LEMMA SubmittedFields ==
  ASSUME NEW p, Good(p), CanSubmit(p)
  PROVE  LET q == Submitted(p) IN
         /\ Good(q) /\ q.policy = p.policy
         /\ q.phase = "executing" => q.source = "auto_policy"
<1>1. Good(Submitted(p))
  BY SubmitGood
<1>2. p \in Plan
  BY DEF Good
<1> QED BY <1>1, <1>2 DEF Submitted, Plan

LEMMA PlanCallKeeps ==
  ASSUME Inv, NEW earlier \in SUBSET Snapshots, NEW q, ModelMay(plan, q), PlanCall(earlier, q)
  PROVE  Inv'
<1>1. /\ control = "tools" /\ ~denied /\ ~pending /\ task = "running"
      /\ left - 1 \in 0 .. MaxBatch /\ plan.phase # "cancelled"
      /\ plan.phase # "awaiting_approval"
  BY ExecutingFacts DEF PlanCall, ModelMay
<1>2. /\ control' = control /\ via' = via /\ retries' = retries /\ denied' = denied
      /\ pending' = pending /\ mutated' = mutated /\ calls' = calls
      /\ shown' = shown /\ acts' = acts
      /\ left' = IF q.phase # plan.phase \/ q.path # plan.path THEN 0 ELSE left - 1
      /\ plan' = q /\ task' = TaskAfter(q)
  BY DEF PlanCall, Record
<1>3. DataInv'
  BY RecordKeeps, InvData DEF PlanCall, ModelMay
<1>4. left' \in 0 .. MaxBatch
  BY <1>1, <1>2, PlanSessionAssumption
<1>5. FlowTypeStep
  BY <1>2, <1>4 DEF Inv, FlowTypeOK, FlowTypeStep
<1>6. task' = IF q.phase = "awaiting_approval" THEN "waiting_user"
              ELSE IF q.phase = "cancelled" THEN "cancelled" ELSE "running"
  BY <1>1, <1>2, TaskAfterCases DEF Inv, FlowTypeOK
<1>7. q.phase # plan.phase => left' = 0
  BY <1>2
<1>8. LifecycleOK' /\ FlowInv'
  BY <1>1, <1>2, <1>6, <1>7 DEF LifecycleOK, FlowInv, Terminal
<1>9. ReplyInv' /\ ShownInv'
  BY <1>1, <1>2, <1>4, <1>7 DEF Inv, ReplyInv, ShownInv, ModelMay
<1> QED BY <1>3, <1>5, <1>8, <1>9, InvFromParts

LEMMA DraftingKeeps ==
  ASSUME Inv,
         \/ \E mode \in {"direct", "plan"} : SelectMode(mode)
         \/ \E outline \in Outline, restated \in BOOLEAN :
              ReplacePlan(outline, restated) \/ ReplaceAndSubmit(outline, restated)
         \/ SubmitPlan
  PROVE  Inv'
<1>1. Good(plan) /\ plan \in Plan /\ task \in TaskStatus
  BY DEF Inv, Good, FlowTypeOK
<1>2. {} \in SUBSET Snapshots
  OBVIOUS
<1>3. ASSUME NEW mode \in {"direct", "plan"}, SelectMode(mode)
      PROVE  Inv'
  <2> DEFINE q == PathSelected(plan, mode)
  <2>1. Good(q) /\ PlanCall({}, q) /\ plan.phase = "inactive"
    BY <1>1, <1>3, SelectGood DEF SelectMode, CanSelectPath
  <2>2. q.policy = plan.policy /\ q.phase # "executing"
    BY <1>1, <2>1 DEF PathSelected, Plan
  <2>3. ModelMay(plan, q)
    BY <2>1, <2>2 DEF ModelMay
  <2> QED BY <1>2, <2>1, <2>3, PlanCallKeeps
<1>4. ASSUME NEW outline \in Outline, NEW restated \in BOOLEAN, ReplacePlan(outline, restated)
      PROVE  Inv'
  <2> DEFINE q == Replaced(plan, outline, restated)
  <2>1. CanReplace(plan, outline) /\ PlanCall({}, q)
    BY <1>4 DEF ReplacePlan
  <2>2. ModelMay(plan, q)
    BY <1>1, <2>1, ReplacedFields DEF ModelMay, CanReplace, InPhase
  <2> QED BY <1>2, <2>1, <2>2, PlanCallKeeps
<1>5. ASSUME NEW outline \in Outline, NEW restated \in BOOLEAN,
             ReplaceAndSubmit(outline, restated)
      PROVE  Inv'
  <2> DEFINE r == Replaced(plan, outline, restated)
             q == Submitted(r)
  <2>1. CanReplace(plan, outline) /\ CanSubmit(r) /\ PlanCall({Snapshot(r, task)}, q)
    BY <1>5 DEF ReplaceAndSubmit
  <2>2. Good(r) /\ r.policy = plan.policy
    BY <1>1, <2>1, ReplacedFields
  <2>3. ModelMay(plan, q)
    <3> HIDE DEF r
    <3>1. Good(q) /\ q.policy = plan.policy /\ (q.phase = "executing" => q.source = "auto_policy")
      BY <2>1, <2>2, SubmittedFields
    <3> QED BY <2>1, <3>1 DEF ModelMay, CanReplace, InPhase
  <2>4. {Snapshot(r, task)} \in SUBSET Snapshots
    BY <1>1, <2>2, SnapshotType
  <2> QED BY <2>1, <2>3, <2>4, PlanCallKeeps
<1>6. CASE SubmitPlan
  <2> DEFINE q == Submitted(plan)
  <2>1. CanSubmit(plan) /\ PlanCall({}, q)
    BY <1>6 DEF SubmitPlan
  <2>2. ModelMay(plan, q)
    BY <1>1, <2>1, SubmittedFields DEF ModelMay, CanSubmit, InPhase
  <2> QED BY <1>2, <2>1, <2>2, PlanCallKeeps
<1> QED BY <1>3, <1>4, <1>5, <1>6

LEMMA WorkingKeeps ==
  ASSUME Inv,
         \/ \E i \in StepId, status \in PlanStepStatus : UpdateStep(i, status)
         \/ RequestReplan \/ CancelPlan \/ CompletePlan
  PROVE  Inv'
<1>1. Good(plan) /\ plan \in Plan
  BY DEF Inv, Good
<1>2. {} \in SUBSET Snapshots
  OBVIOUS
<1>3. ASSUME NEW i \in StepId, NEW status \in PlanStepStatus, UpdateStep(i, status)
      PROVE  Inv'
  <2> DEFINE q == StepUpdated(plan, i, status)
  <2>1. CanUpdateStep(plan, i, status) /\ PlanCall({}, q)
    BY <1>3 DEF UpdateStep
  <2>2. /\ q.policy = plan.policy /\ q.source = plan.source /\ q.phase = plan.phase
        /\ Draft(q) = Draft(plan)
    BY <1>1 DEF StepUpdated, Plan, Draft
  <2>3. ModelMay(plan, q)
    BY <1>1, <2>1, <2>2, UpdateStepGood
       DEF ModelMay, CanUpdateStep, Authorized, InPhase
  <2> QED BY <1>2, <2>1, <2>3, PlanCallKeeps
<1>4. CASE RequestReplan
  <2> DEFINE q == Replanned(plan)
  <2>1. CanReplan(plan) /\ PlanCall({}, q)
    BY <1>4 DEF RequestReplan
  <2>2. q.policy = plan.policy /\ q.phase = "planning"
    BY <1>1 DEF Replanned, Plan
  <2>3. ModelMay(plan, q)
    BY <1>1, <2>1, <2>2, ReplanGood DEF ModelMay, CanReplan, Authorized, InPhase
  <2> QED BY <1>2, <2>1, <2>3, PlanCallKeeps
<1>5. CASE CancelPlan
  <2> DEFINE q == Cancelled(plan)
  <2>1. CanCancel(plan) /\ PlanCall({}, q) /\ plan.phase # "awaiting_approval"
    BY <1>5 DEF CancelPlan, UpdatePlanActions
  <2>2. ModelMay(plan, q)
    BY <1>1, <2>1, CancelGood, CancelledFields DEF ModelMay
  <2> QED BY <1>2, <2>1, <2>2, PlanCallKeeps
<1>6. CASE CompletePlan
  <2> DEFINE q == Completed(plan)
  <2>1. CanComplete(plan) /\ PlanCall({}, q)
    BY <1>6 DEF CompletePlan
  <2>2. q.policy = plan.policy /\ q.phase = "completed"
    BY <1>1 DEF Completed, Plan
  <2>3. ModelMay(plan, q)
    BY <1>1, <2>1, <2>2, CompleteGood DEF ModelMay, CanComplete, Authorized, InPhase
  <2> QED BY <1>2, <2>1, <2>3, PlanCallKeeps
<1> QED BY <1>3, <1>4, <1>5, <1>6

LEMMA ResolveKeeps ==
  ASSUME Inv, ResolveApprove \/ ResolveRevise \/ ResolveCancel
  PROVE  Inv'
<1>1. PICK q : /\ \/ q = Approved(plan) /\ CanApprove(plan)
                  \/ q = Revised(plan) /\ CanRevise(plan)
                  \/ q = Cancelled(plan) /\ CanCancel(plan)
               /\ Resolve(q)
  BY DEF ResolveApprove, ResolveRevise, ResolveCancel
<1>2. Good(plan) /\ plan.phase = "awaiting_approval" /\ pending /\ Executing
  BY <1>1 DEF Resolve, CanResolvePlanResponse, Inv
<1>3. /\ task = "waiting_user" /\ control = "tools" /\ ~denied
  BY <1>2, ExecutingFacts
<1>4. /\ Good(q) /\ q.policy = plan.policy /\ q.path = plan.path
      /\ \/ q.phase = "planning" \/ q.phase = "cancelled"
         \/ q.phase = "executing" /\ Draft(q) = Draft(plan)
  <2>1. CASE q = Approved(plan) /\ CanApprove(plan)
    BY <1>2, <2>1, ApproveGood, ApprovedFields
  <2>2. CASE q = Revised(plan) /\ CanRevise(plan)
    BY <1>2, <2>2, ReviseGood, RevisedFields
  <2>3. CASE q = Cancelled(plan) /\ CanCancel(plan)
    BY <1>2, <2>3, CancelGood, CancelledFields
  <2> QED BY <1>1, <2>1, <2>2, <2>3
<1>5. /\ Record({}, q) /\ pending' = FALSE /\ left' = 0
      /\ control' = control /\ via' = via /\ retries' = retries /\ denied' = denied
      /\ mutated' = mutated /\ calls' = calls /\ shown' = shown /\ acts' = acts
  BY <1>1 DEF Resolve
<1>6. FlowTypeStep
  <2>1. left' \in 0 .. MaxBatch
    BY <1>5, PlanSessionAssumption
  <2> QED BY <1>5, <2>1 DEF Inv, FlowTypeOK, FlowTypeStep
<1>7. CASE q.phase # "cancelled"
  <2>1. DataInv' /\ LifecycleOK' /\ ShownInv' /\ plan' = q /\ task' = "running"
    BY <1>2, <1>3, <1>4, <1>5, <1>7, ResumeKeeps
  <2>2. FlowInv' /\ ReplyInv'
    BY <1>3, <1>4, <1>5, <1>7, <2>1 DEF FlowInv, ReplyInv
  <2> QED BY <1>6, <2>1, <2>2, InvFromParts
<1>8. CASE q.phase = "cancelled"
  <2>1. DataInv' /\ plan' = q /\ task' = "cancelled"
    BY <1>3, <1>4, <1>5, <1>8, RecordKeeps, InvData, TaskAfterCases
       DEF Record, Inv, FlowTypeOK
  <2>2. LifecycleOK' /\ FlowInv' /\ ReplyInv' /\ ShownInv'
    BY <1>3, <1>5, <1>8, <2>1 DEF LifecycleOK, FlowInv, ReplyInv, ShownInv, Terminal
  <2> QED BY <1>6, <2>1, <2>2, InvFromParts
<1> QED BY <1>7, <1>8

LEMMA CallKeeps ==
  ASSUME Inv,
         \/ \E mutates \in BOOLEAN : SideEffect(mutates)
         \/ HiddenShellWrite \/ OtherCall \/ TerminalDeny
  PROVE  Inv'
<1>1. /\ control = "tools" /\ left \in 1 .. MaxBatch /\ left - 1 \in 0 .. MaxBatch
      /\ ~denied /\ plan.phase # "cancelled" /\ task \in {"running", "waiting_user"}
  BY ExecutingFacts DEF SideEffect, HiddenShellWrite, OtherCall, TerminalDeny
<1>2. CASE (\E mutates \in BOOLEAN : SideEffect(mutates)) \/ HiddenShellWrite \/ OtherCall
  <2>1. /\ UNCHANGED sessionVars
        /\ control' = control /\ via' = via /\ retries' = retries /\ denied' = denied
        /\ pending' = pending /\ calls' = calls /\ shown' = shown /\ left' = left - 1
    BY <1>2 DEF SideEffect, HiddenShellWrite, OtherCall
  <2>2. mutated' \in BOOLEAN /\ acts' \in BOOLEAN
    <3>1. mutated \in BOOLEAN /\ acts \in BOOLEAN
      BY DEF Inv, FlowTypeOK
    <3> QED BY <1>2, <3>1 DEF SideEffect, HiddenShellWrite, OtherCall
  <2>3. FlowTypeStep
    BY <1>1, <2>1, <2>2 DEF Inv, FlowTypeOK, FlowTypeStep
  <2>4. left > 0
    BY <1>1, PlanSessionAssumption
  <2> QED BY <1>1, <2>1, <2>3, <2>4, TurnKeeps
<1>3. CASE TerminalDeny
  <2>1. /\ StopTask("cancelled") /\ denied' = TRUE /\ left' = 0
        /\ control' = control /\ via' = via /\ retries' = retries
        /\ pending' = pending /\ mutated' = mutated /\ calls' = calls
        /\ shown' = shown /\ acts' = acts
    BY <1>3 DEF TerminalDeny
  <2>2. /\ DataInv' /\ LifecycleOK' /\ task' = "cancelled"
        /\ plan'.phase \notin ActivePhase
    <3>1. "cancelled" \in Terminal /\ task # "idle" /\ task \notin Terminal
      BY <1>1 DEF Terminal
    <3> QED BY <2>1, <3>1, StopKeeps, InvData
  <2>3. FlowTypeStep
    <3>1. left' \in 0 .. MaxBatch
      BY <2>1, PlanSessionAssumption
    <3> QED BY <2>1, <3>1 DEF Inv, FlowTypeOK, FlowTypeStep
  <2>4. FlowInv' /\ ReplyInv' /\ ShownInv'
    BY <1>1, <2>1, <2>2 DEF FlowInv, ReplyInv, ShownInv, ActivePhase, Terminal
  <2> QED BY <2>2, <2>3, <2>4, InvFromParts
<1> QED BY <1>2, <1>3

LEMMA EndKeeps ==
  ASSUME Inv,
         \/ InterruptTools \/ BatchFails \/ EndDenied \/ RetryRejected \/ Pause
         \/ EndCancelled \/ NextTurn
  PROVE  Inv'
<1>1. control = "tools" /\ calls' = calls /\ calls' \in 0 .. MaxTurns
  BY DEF Inv, FlowTypeOK, InterruptTools, BatchFails, EndDenied, RetryRejected, Pause,
         EndCancelled, NextTurn, Ended
<1>2. CASE InterruptTools \/ BatchFails
  <2>1. PICK status \in {"failed", "cancelled"} : Stop(status)
    BY <1>2 DEF InterruptTools, BatchFails
  <2>2. /\ StopTask(status) /\ EndInvocation("stopped") /\ status \in Terminal
        /\ pending' = pending /\ mutated' = mutated /\ shown' = shown /\ acts' = acts
    BY <2>1 DEF Stop, Terminal
  <2> QED BY <1>1, <2>2, StopEndKeeps
<1>3. CASE EndDenied
  <2>1. task = "cancelled"
    BY <1>3 DEF EndDenied, Ended, Inv, FlowInv
  <2>2. StopTask("cancelled") /\ "cancelled" \in Terminal
    BY <1>3, <2>1 DEF EndDenied, StopTask, Terminal
  <2>3. /\ EndInvocation("stopped")
        /\ pending' = pending /\ mutated' = mutated /\ shown' = shown /\ acts' = acts
    BY <1>3 DEF EndDenied
  <2> QED BY <1>1, <2>2, <2>3, StopEndKeeps
<1>4. CASE EndCancelled
  <2>1. /\ StopTask("cancelled") /\ EndInvocation("plan_cancelled")
        /\ pending' = pending /\ mutated' = mutated /\ shown' = shown /\ acts' = acts
        /\ "cancelled" \in Terminal
    BY <1>4 DEF EndCancelled, Terminal
  <2> QED BY <1>1, <2>1, StopEndKeeps
<1>5. CASE RetryRejected
  <2>1. RetryOrPause /\ left = 0 /\ ~denied
    BY <1>5 DEF RetryRejected, Ended
  <2> QED BY <1>1, <2>1, RetryOrPauseKeeps
<1>6. CASE Pause
  <2>1. PauseForApproval /\ plan.phase = "awaiting_approval" /\ ~denied
    BY <1>6 DEF Pause, PauseForApproval
  <2>2. task = "waiting_user"
    BY <1>1, <2>1, ActiveIsPlan DEF Inv, FlowInv, LifecycleOK, Terminal
  <2> QED BY <1>1, <2>1, <2>2, PauseKeeps
<1>7. CASE NextTurn
  <2>1. /\ left = 0 /\ ~denied /\ plan.phase \notin {"awaiting_approval", "cancelled"}
        /\ control' = "model" /\ UNCHANGED sessionVars
        /\ via' = via /\ retries' = retries /\ left' = left /\ denied' = denied
        /\ pending' = pending /\ mutated' = mutated /\ shown' = shown /\ acts' = acts
    BY <1>7 DEF NextTurn, Ended
  <2>2. FlowTypeStep
    BY <1>1, <2>1 DEF Inv, FlowTypeOK, FlowTypeStep
  <2> QED BY <1>1, <2>1, <2>2, TurnKeeps
<1> QED BY <1>2, <1>3, <1>4, <1>5, <1>6, <1>7

-----------------------------------------------------------------------------
(* The invariant and what follows from it.                                 *)

LEMMA InitInv ==
  ASSUME Init
  PROVE  Inv
<1>1. PICK policy \in PlanPolicy, approvalPolicy \in ApprovalPolicy :
         plan = InitialPlan(policy, approvalPolicy)
  BY DEF Init
<1>2. /\ Good(plan) /\ plan.source = None
      /\ plan.phase = IF policy = "required" THEN "planning" ELSE "inactive"
  BY <1>1, InitialGood, StartFields
<1>3. /\ task = "idle" /\ pending = FALSE /\ mutated = FALSE /\ calls = 0
      /\ control = "prompt" /\ via = "text" /\ retries = 0 /\ left = 0 /\ denied = FALSE
      /\ disk = None /\ saved = FALSE
      /\ shown = None /\ acts = FALSE
  BY DEF Init
<1>4. FlowTypeOK
  <2>1. calls \in 0 .. MaxTurns /\ retries \in 0 .. MaxRetries /\ left \in 0 .. MaxBatch
    BY <1>3, PlanSessionAssumption
  <2>2. task \in TaskStatus /\ disk \in Snapshots
    BY <1>2, <1>3 DEF TaskStatus, Snapshots
  <2> QED BY <1>3, <2>1, <2>2 DEF FlowTypeOK
<1>5. LifecycleOK /\ FlowInv /\ ReplyInv /\ ShownInv /\ SnapshotCoherent
  BY <1>2, <1>3 DEF LifecycleOK, FlowInv, ReplyInv, ShownInv, SnapshotCoherent
<1> QED BY <1>2, <1>4, <1>5 DEF Inv

LEMMA InvStep ==
  ASSUME Inv, [Next]_vars
  PROVE  Inv'
<1>1. CASE Prompt
  BY <1>1, PromptKeeps
<1>2. CASE Model
  BY <1>2, ModelKeeps
<1>3. CASE Tools
  BY <1>3, DraftingKeeps, WorkingKeeps, ResolveKeeps, CallKeeps, EndKeeps DEF Tools
<1>4. CASE UNCHANGED vars
  BY <1>4 DEF vars, Inv, FlowTypeOK, LifecycleOK, FlowInv, ReplyInv, ShownInv,
              SnapshotCoherent
<1> QED BY <1>1, <1>2, <1>3, <1>4 DEF Next, SessionOver

LEMMA InvAlways == Spec => []Inv
BY InitInv, InvStep, PTL DEF Spec

\* Every variable of the session keeps its type; the plan is a valid PlanState,
\* and turns and retries stay within their limits.
THEOREM TypeCorrect == Spec => []TypeOK
<1>1. Inv => TypeOK
  BY DEF Inv, Good, TypeOK
<1> QED BY <1>1, InvAlways, PTL

\* validate_lifecycle_invariants and PlanState.validate never raise, so that no
\* transition is left half done by an exception.
THEOREM LifecycleAgrees == Spec => []LifecycleAgreement
<1>1. Inv => LifecycleAgreement
  BY DEF Inv, Good, LifecycleAgreement
<1> QED BY <1>1, InvAlways, PTL

\* A plan in execution on the user's word is the plan the user saw.
THEOREM ApprovedWasShown == Spec => []ApprovedPlanWasShown
<1>1. Inv => ApprovedPlanWasShown
  BY DEF Inv, ShownInv, ApprovedPlanWasShown
<1> QED BY <1>1, InvAlways, PTL

\* A reply is pending only for the plan it answers, and the model is never asked
\* about a plan under review without one.
THEOREM ReplyHasItsPlan == Spec => []ReplyIsForAwaitingPlan
<1>1. Inv => ReplyIsForAwaitingPlan
  BY DEF Inv, ReplyInv, ReplyIsForAwaitingPlan
<1> QED BY <1>1, InvAlways, PTL

\* No task runs while the user has the prompt, and a task that waits there shows
\* the plan it waits for.
THEOREM PromptStaysIdle == Spec => []PromptIsIdle
<1>1. Inv => PromptIsIdle
  BY DEF Inv, FlowInv, ShownInv, PromptIsIdle
<1> QED BY <1>1, InvAlways, PTL

\* plan.json is never out of date after a write or a removal that succeeded.
THEOREM SnapshotIsCoherent == Spec => []SnapshotCoherent
<1>1. Inv => SnapshotCoherent
  BY DEF Inv
<1> QED BY <1>1, InvAlways, PTL

-----------------------------------------------------------------------------
(* What a step may do to the task.                                         *)

TableStep ==
  task' # task => /\ <<task, task'>> \in AllowedStatus
                  /\ task \in Terminal => control = "prompt"

WaitingStep ==
  task = "waiting_user" /\ task' = "running" => control = "prompt" \/ (pending /\ ~pending')

LEMMA PromptTaskStep ==
  ASSUME Inv, Prompt
  PROVE  TableStep /\ WaitingStep
<1> USE DEF TableStep, WaitingStep, AllowedStatus, Terminal
<1>1. control = "prompt" /\ task \in TaskStatus \ {"running"}
  BY DEF Inv, FlowInv, FlowTypeOK, Prompt, StartTask, ReplyWhilePending, ReplyAmbiguous,
         ReplyExactApproval, CommandApprove, CommandRevise, CommandCancel, Quit
<1>2. ASSUME NEW policy \in PlanPolicy, NEW approvalPolicy \in ApprovalPolicy,
             StartTask(policy, approvalPolicy)
      PROVE  TableStep
  BY <1>2 DEF StartTask
<1>3. CASE ReplyWhilePending \/ ReplyAmbiguous \/ Quit
  BY <1>3 DEF ReplyWhilePending, ReplyAmbiguous, Quit, sessionVars
<1>4. CASE ReplyExactApproval \/ CommandApprove \/ CommandRevise
  <2>1. plan.phase = "awaiting_approval"
    BY <1>4 DEF ReplyExactApproval, CommandApprove, CommandRevise, CanApprove, CanRevise,
                InPhase
  <2>2. task = "waiting_user" /\ Good(plan)
    BY <1>1, <2>1, ReviewWaits DEF Inv
  <2>3. PICK q : q.phase \in {"planning", "executing"} /\ Record({}, q)
    BY <1>4, <2>2, ApprovedFields, RevisedFields
       DEF ReplyExactApproval, CommandApprove, CommandRevise
  <2>4. task' = "running"
    BY <2>2, <2>3, TaskAfterCases DEF Record, TaskStatus
  <2> QED BY <1>1, <2>2, <2>4
<1>5. CASE CommandCancel
  <2>1. /\ task' = TaskAfter(Cancelled(plan)) /\ Cancelled(plan).phase = "cancelled"
        /\ plan.phase \in ActivePhase
    BY <1>5, CancelledFields DEF CommandCancel, CanCancel, Record, Inv
  <2>2. task \in {"idle", "waiting_user"}
    BY <1>1, <2>1, ActiveIsPlan DEF Inv, LifecycleOK, ActivePhase, TaskStatus
  <2> QED BY <2>1, <2>2, TaskAfterCases DEF TaskStatus
<1> QED BY <1>1, <1>2, <1>3, <1>4, <1>5 DEF Prompt

\* A step that stops the task leaves it in a terminal status, which a waiting task
\* reaches by failure or cancellation only.
LEMMA StopTaskStep ==
  ASSUME Inv, NEW status \in Terminal, StopTask(status), control \in {"model", "tools"},
         status = "completed" => plan.phase \notin ActivePhase
  PROVE  TableStep /\ WaitingStep
<1>1. task \in TaskStatus \ {"idle"}
  BY DEF Inv, FlowInv, FlowTypeOK
<1>2. \/ task \in Terminal /\ task' = task
      \/ task \notin Terminal /\ task' = status
  BY DEF StopTask, sessionVars
<1>3. status = "completed" => task # "waiting_user"
  BY DEF Inv, LifecycleOK, ActivePhase
<1> QED BY <1>1, <1>2, <1>3 DEF TableStep, WaitingStep, AllowedStatus, TaskStatus, Terminal

LEMMA ModelTaskStep ==
  ASSUME Inv, Model
  PROVE  TableStep /\ WaitingStep
<1>1. control = "model"
  BY DEF Model, TurnLimit, ModelFails, InterruptModel, OverflowRecovered, Unresolved,
         FinalDeferred, Final, CallTools, ModelCall
<1>2. CASE TurnLimit \/ ModelFails \/ InterruptModel
  <2>1. PICK status \in {"failed", "cancelled"} : StopTask(status)
    BY <1>2 DEF TurnLimit, ModelFails, InterruptModel, Stop
  <2> QED BY <1>1, <2>1, StopTaskStep DEF Terminal
<1>3. ASSUME NEW status \in {"completed", "failed"}, Final(status)
      PROVE  TableStep /\ WaitingStep
  <2>1. StopTask(status) /\ status \in Terminal
    BY <1>3 DEF Final, Terminal
  <2>2. plan.phase \notin ActivePhase
    BY <1>1, <1>3, ActiveIsPlan
       DEF Final, InPhase, ResponsePending, Inv, ReplyInv, ActivePhase
  <2> QED BY <1>1, <2>1, <2>2, StopTaskStep
<1>4. CASE \/ OverflowRecovered \/ Unresolved \/ FinalDeferred
           \/ \E n \in 1 .. MaxBatch : CallTools(n)
  <2>1. task' = task
    BY <1>4 DEF OverflowRecovered, Unresolved, RetryOrPause, PauseForApproval,
                FinalDeferred, CallTools, sessionVars
  <2> QED BY <2>1 DEF TableStep, WaitingStep
<1> QED BY <1>2, <1>3, <1>4 DEF Model

LEMMA ToolsTaskStep ==
  ASSUME Inv, Tools
  PROVE  TableStep /\ WaitingStep
<1> DEFINE Drafting ==
             \/ \E mode \in {"direct", "plan"} : SelectMode(mode)
             \/ \E outline \in Outline, restated \in BOOLEAN : ReplacePlan(outline, restated)
             \/ \E outline \in Outline, restated \in BOOLEAN :
                  ReplaceAndSubmit(outline, restated)
             \/ SubmitPlan
             \/ \E i \in StepId, status \in PlanStepStatus : UpdateStep(i, status)
             \/ RequestReplan \/ CancelPlan \/ CompletePlan
           Resolving == ResolveApprove \/ ResolveRevise \/ ResolveCancel
           Keeping == \/ \E mutates \in BOOLEAN : SideEffect(mutates)
                      \/ HiddenShellWrite \/ OtherCall \/ RetryRejected \/ Pause \/ NextTurn
                      \/ EndDenied
           Stopping == TerminalDeny \/ InterruptTools \/ BatchFails \/ EndCancelled
<1>1. CASE Drafting
  <2>1. PICK earlier, q : PlanCall(earlier, q)
    BY <1>1 DEF SelectMode, ReplacePlan, ReplaceAndSubmit, SubmitPlan, UpdateStep,
                RequestReplan, CancelPlan, CompletePlan
  <2>2. plan.phase # "awaiting_approval"
    BY <1>1 DEF SelectMode, ReplacePlan, ReplaceAndSubmit, SubmitPlan, UpdateStep,
                RequestReplan, CancelPlan, CompletePlan, CanSelectPath, CanReplace,
                CanSubmit, CanUpdateStep, CanReplan, CanComplete, Authorized, InPhase,
                UpdatePlanActions
  <2>3. task = "running" /\ task' = TaskAfter(q)
    BY <2>1, <2>2, ExecutingFacts DEF PlanCall, Record
  <2>4. task' \in {"running", "waiting_user", "cancelled"}
    BY <2>3 DEF TaskAfter, Terminal
  <2> QED BY <2>3, <2>4 DEF TableStep, WaitingStep, AllowedStatus, Terminal
<1>2. CASE Resolving
  <2>1. PICK q : Resolve(q)
    BY <1>2 DEF ResolveApprove, ResolveRevise, ResolveCancel
  <2>2. /\ Executing /\ plan.phase = "awaiting_approval" /\ pending /\ pending' = FALSE
        /\ task' = TaskAfter(q)
    BY <2>1 DEF Resolve, CanResolvePlanResponse, Record
  <2>3. task = "waiting_user"
    BY <2>2, ExecutingFacts
  <2>4. task' \in {"running", "waiting_user", "cancelled"}
    BY <2>2, <2>3 DEF TaskAfter, Terminal
  <2> QED BY <2>2, <2>3, <2>4 DEF TableStep, WaitingStep, AllowedStatus, Terminal
<1>3. CASE Keeping
  <2>1. task' = task
    BY <1>3 DEF SideEffect, HiddenShellWrite, OtherCall, RetryRejected, RetryOrPause,
                Pause, PauseForApproval, NextTurn, EndDenied, sessionVars
  <2> QED BY <2>1 DEF TableStep, WaitingStep
<1>4. CASE Stopping
  <2>1. /\ control = "tools"
        /\ \E status \in {"failed", "cancelled"} : StopTask(status)
    BY <1>4 DEF TerminalDeny, Executing, InterruptTools, BatchFails, Ended, Stop,
                EndCancelled
  <2> QED BY <2>1, StopTaskStep DEF Terminal
<1> QED BY <1>1, <1>2, <1>3, <1>4 DEF Tools

LEMMA TaskStep ==
  ASSUME Inv, Next
  PROVE  TableStep /\ WaitingStep
<1>1. CASE SessionOver
  BY <1>1 DEF SessionOver, vars, TableStep, WaitingStep
<1> QED BY <1>1, PromptTaskStep, ModelTaskStep, ToolsTaskStep DEF Next

\* validate_task_transition never refuses a transition, and a terminal task stays
\* as it is until the user starts the next one.
THEOREM TaskObeysTable == Spec => TaskFollowsTable
<1>1. Inv /\ [Next]_vars => [TableStep]_vars
  BY TaskStep
<1>2. Spec => [][TableStep]_vars
  BY <1>1, InvAlways, PTL DEF Spec
<1> QED BY <1>2 DEF TaskFollowsTable, TableStep

\* Only the user lets a waiting task run again, each text once.
THEOREM UserReleasesWaiting == Spec => WaitingNeedsUser
<1>1. Inv /\ [Next]_vars => [WaitingStep]_vars
  BY TaskStep
<1>2. Spec => [][WaitingStep]_vars
  BY <1>1, InvAlways, PTL DEF Spec
<1> QED BY <1>2 DEF WaitingNeedsUser, WaitingStep

-----------------------------------------------------------------------------
(* The session implements PlanAuthority: every step of it is a step of the *)
(* promise to the user, or changes nothing that the promise speaks of.     *)

AbstractStep == Authority!Next \/ UNCHANGED Authority!vars

-----------------------------------------------------------------------------
(* Where a task stands, by its status and its plan.                        *)

LEMMA StageCases ==
  ASSUME NEW p, Good(p), NEW status \in TaskStatus
  PROVE  /\ status = "idle" => Stage(status, p) = "none"
         /\ status = "completed" => Stage(status, p) = "completed"
         /\ status \in {"failed", "cancelled"} => Stage(status, p) = "stopped"
         /\ status \in {"running", "waiting_user"} =>
              /\ p.path = "direct" => Stage(status, p) = "free"
              /\ p.path = "undecided" => Stage(status, p) = "deciding"
              /\ p.phase = "planning" => Stage(status, p) = "drafting"
              /\ p.phase = "awaiting_approval" => Stage(status, p) = "review"
              /\ p.phase = "executing" => Stage(status, p) = "granted"
              /\ p.phase = "completed" => Stage(status, p) = "finished"
              /\ p.phase = "cancelled" => Stage(status, p) = "stopped"
<1>1. /\ p.phase # "inactive" <=> p.path = "plan"
      /\ p.path \in {"direct", "undecided", "plan"}
  BY ActiveIsPlan DEF ExecutionPath
<1> QED BY <1>1 DEF Stage, TaskStatus

\* A task that runs or waits, and has not cancelled its plan, is active.
LEMMA StageActive ==
  ASSUME NEW p, Good(p), NEW status \in {"running", "waiting_user"}, p.phase # "cancelled"
  PROVE  Stage(status, p) \in Authority!Active
<1>1. /\ p.phase # "inactive" <=> p.path = "plan"
      /\ p.path \in {"direct", "undecided", "plan"} /\ p.phase \in PlanPhase
      /\ status \in TaskStatus
  BY ActiveIsPlan DEF ExecutionPath, TaskStatus
<1> QED BY <1>1, StageCases DEF PlanPhase, Authority!Active

-----------------------------------------------------------------------------
(* Steps that change nothing of it, and steps that stop the task.          *)

LEMMA QuietStep ==
  ASSUME UNCHANGED <<plan, task, shown, acts>>
  PROVE  AbstractStep
BY DEF AbstractStep, Authority!vars, Draft

LEMMA StopAbstract ==
  ASSUME Inv, NEW status \in {"failed", "cancelled"}, StopTask(status),
         control \in {"model", "tools"}, UNCHANGED <<shown, acts>>
  PROVE  AbstractStep
<1>1. /\ Good(plan) /\ task \in TaskStatus \ {"idle"} /\ status \in Terminal
  BY DEF Inv, FlowInv, FlowTypeOK, Terminal
<1>2. CASE task \in Terminal
  BY <1>2, QuietStep DEF StopTask, sessionVars
<1>3. CASE task \notin Terminal
  <2>1. task' = status /\ plan' \in {plan, Cancelled(plan)} /\ Good(plan')
    BY <1>1, <1>3, StopKeeps, InvData DEF DataInv
  <2>2. Draft(plan') = Draft(plan) /\ plan'.approvalPolicy = plan.approvalPolicy
    BY <1>1, <2>1 DEF Good, Plan, Cancelled, Draft
  <2>3. Stage(task', plan') = "stopped"
    BY <1>1, <2>1, StageCases DEF TaskStatus
  <2>4. task \in {"running", "waiting_user"} /\ plan.phase # "cancelled"
    BY <1>1, <1>3 DEF Inv, FlowInv, TaskStatus, Terminal
  <2>5. Authority!Abandon
    BY <1>1, <2>2, <2>3, <2>4, StageActive DEF Authority!Abandon
  <2> QED BY <2>5 DEF AbstractStep, Authority!Next
<1> QED BY <1>2, <1>3

-----------------------------------------------------------------------------
(* The user's decision on a plan under review, however it is expressed.    *)

LEMMA DraftType ==
  ASSUME NEW p, Good(p)
  PROVE  /\ Draft(p) \in Authority!Drafts
         /\ Draft(p).version = p.version /\ Draft(p).outline = p.outline
         /\ p.version \in Nat
         /\ Listed(p) # {} => p.outline # EmptyOutline
BY DEF Good, Plan, Draft, Authority!Drafts, Listed, EmptyOutline

\* Revising or re-planning gives the same steps a newer number.
LEMMA NewerDraft ==
  ASSUME NEW p, Good(p), NEW q \in {Revised(p), Replanned(p)}, Good(q)
  PROVE  /\ Draft(q) \in Authority!Drafts /\ Draft(q).version > Draft(p).version
         /\ Draft(q).outline = Draft(p).outline
         /\ q.approvalPolicy = p.approvalPolicy /\ q.phase = "planning"
<1>1. p \in Plan /\ p.version \in Nat
  BY DEF Good, Plan
<1>2. /\ q.version = p.version + 1 /\ q.outline = p.outline
      /\ q.approvalPolicy = p.approvalPolicy /\ q.phase = "planning"
  <2>1. CASE q = Revised(p)
    BY <1>1, <2>1 DEF Revised, Plan
  <2>2. CASE q = Replanned(p)
    BY <1>1, <2>2 DEF Replanned, Plan
  <2> QED BY <2>1, <2>2
<1> QED BY <1>1, <1>2, DraftType

LEMMA DecisionAbstract ==
  ASSUME Inv, NEW q,
         \/ q = Approved(plan) /\ CanApprove(plan)
         \/ q = Revised(plan) /\ CanRevise(plan)
         \/ q = Cancelled(plan) /\ CanCancel(plan),
         Record({}, q), task = "waiting_user", pending \/ control = "prompt",
         UNCHANGED <<shown, acts>>
  PROVE  AbstractStep
<1>1. /\ Good(plan) /\ plan.phase = "awaiting_approval" /\ shown = Draft(plan)
      /\ plan' = q /\ task' = TaskAfter(q) /\ task \in TaskStatus
  BY DEF Inv, LifecycleOK, ShownInv, Record, TaskStatus
<1>2. Stage(task, plan) = "review"
  BY <1>1, StageCases
<1>3. CASE q = Approved(plan) /\ CanApprove(plan)
  <2>1. /\ Good(q) /\ q.phase = "executing" /\ Draft(q) = Draft(plan)
        /\ q.approvalPolicy = plan.approvalPolicy
    BY <1>1, <1>3, ApproveGood, ApprovedFields DEF Approved, Good, Plan
  <2>2. Stage(task', plan') = "granted"
    <3>1. task' = "running"
      BY <1>1, <2>1, TaskAfterCases
    <3> QED BY <1>1, <2>1, <3>1, StageCases DEF TaskStatus
  <2>3. Authority!Grant
    BY <1>1, <1>2, <2>1, <2>2 DEF Authority!Grant
  <2> QED BY <2>3 DEF AbstractStep, Authority!Next
<1>4. CASE q = Revised(plan) /\ CanRevise(plan)
  <2>1. /\ Good(q) /\ q.phase = "planning" /\ q.approvalPolicy = plan.approvalPolicy
        /\ Draft(q) \in Authority!Drafts /\ Draft(q).version > Draft(plan).version
        /\ Draft(q).outline = Draft(plan).outline
    BY <1>1, <1>4, ReviseGood, NewerDraft
  <2>2. Stage(task', plan') = "drafting"
    <3>1. task' = "running"
      BY <1>1, <2>1, TaskAfterCases
    <3> QED BY <1>1, <2>1, <3>1, StageCases DEF TaskStatus
  <2>3. Authority!Reopen
    BY <1>1, <1>2, <2>1, <2>2 DEF Authority!Reopen, Authority!Newer
  <2> QED BY <2>3 DEF AbstractStep, Authority!Next
<1>5. CASE q = Cancelled(plan) /\ CanCancel(plan)
  <2>1. /\ Good(q) /\ q.phase = "cancelled" /\ Draft(q) = Draft(plan)
        /\ q.approvalPolicy = plan.approvalPolicy
    BY <1>1, <1>5, CancelGood, CancelledFields DEF Cancelled, Good, Plan, Draft
  <2>2. Stage(task', plan') = "stopped"
    <3>1. task' = "cancelled"
      BY <1>1, <2>1, TaskAfterCases
    <3> QED BY <1>1, <2>1, <3>1, StageCases DEF TaskStatus
  <2>3. Authority!Abandon
    BY <1>1, <1>2, <2>1, <2>2 DEF Authority!Abandon, Authority!Active
  <2> QED BY <2>3 DEF AbstractStep, Authority!Next
<1> QED BY <1>3, <1>4, <1>5

-----------------------------------------------------------------------------
(* The prompt and the model.                                               *)

LEMMA StartAbstract ==
  ASSUME Inv, NEW policy \in PlanPolicy, NEW approvalPolicy \in ApprovalPolicy,
         StartTask(policy, approvalPolicy)
  PROVE  AbstractStep
<1> DEFINE q == InitialPlan(policy, approvalPolicy)
<1>1. /\ plan' = q /\ task' = "running" /\ shown' = None /\ acts' = acts
      /\ task \in {"idle", "completed", "failed", "cancelled"} /\ Good(plan)
  BY DEF StartTask, Inv, Terminal
<1>2. /\ Good(q) /\ q.version = 0 /\ q.outline = EmptyOutline
      /\ q.approvalPolicy = approvalPolicy
      /\ policy = "off" => q.path = "direct"
      /\ policy = "auto" => q.path = "undecided"
      /\ policy = "required" => q.phase = "planning"
  <2>1. Good(q)
    BY InitialGood
  <2> QED BY <2>1 DEF InitialPlan
<1> HIDE DEF q
<1>3. Stage(task, plan) \notin Authority!Active
  BY <1>1, StageCases DEF TaskStatus, Authority!Active
<1>4. Stage(task', plan') \in {"free", "deciding", "drafting"}
  BY <1>1, <1>2, StageCases DEF TaskStatus, PlanPolicy
<1>5. Draft(plan') = Authority!NoDraft
  BY <1>1, <1>2 DEF Draft, Authority!NoDraft
<1>6. Authority!Begin
  BY <1>1, <1>3, <1>4, <1>5 DEF Authority!Begin
<1> QED BY <1>6 DEF AbstractStep, Authority!Next

LEMMA PromptAbstract ==
  ASSUME Inv, Prompt
  PROVE  AbstractStep
<1>1. ASSUME NEW policy \in PlanPolicy, NEW approvalPolicy \in ApprovalPolicy,
             StartTask(policy, approvalPolicy)
      PROVE  AbstractStep
  BY <1>1, StartAbstract
<1>2. CASE ReplyWhilePending \/ ReplyAmbiguous \/ Quit
  BY <1>2, QuietStep DEF ReplyWhilePending, ReplyAmbiguous, Quit, sessionVars
<1>3. CASE ReplyExactApproval \/ CommandApprove \/ CommandRevise
  <2>1. plan.phase = "awaiting_approval" /\ control = "prompt" /\ UNCHANGED <<shown, acts>>
    BY <1>3 DEF ReplyExactApproval, CommandApprove, CommandRevise, CanApprove, CanRevise,
                InPhase
  <2>2. task = "waiting_user"
    BY <2>1, ReviewWaits
  <2>3. CASE ReplyExactApproval \/ CommandApprove
    <3>1. CanApprove(plan) /\ Record({}, Approved(plan))
      BY <2>3 DEF ReplyExactApproval, CommandApprove
    <3> QED BY <2>1, <2>2, <3>1, DecisionAbstract
  <2>4. CASE CommandRevise
    <3>1. CanRevise(plan) /\ Record({}, Revised(plan))
      BY <2>4 DEF CommandRevise
    <3> QED BY <2>1, <2>2, <3>1, DecisionAbstract
  <2> QED BY <1>3, <2>3, <2>4
<1>4. CASE CommandCancel
  <2>1. /\ control = "prompt" /\ CanCancel(plan) /\ Record({}, Cancelled(plan))
        /\ UNCHANGED <<shown, acts>> /\ plan.phase \in ActivePhase
    BY <1>4 DEF CommandCancel, CanCancel
  <2>2. task \in {"idle", "waiting_user"} /\ Good(plan) /\ task \in TaskStatus
    BY <2>1, ActiveIsPlan
       DEF Inv, FlowInv, FlowTypeOK, LifecycleOK, ActivePhase, TaskStatus, Terminal
  <2>3. CASE task = "waiting_user"
    BY <2>1, <2>3, DecisionAbstract
  <2>4. CASE task = "idle"
    <3>1. plan' = Cancelled(plan) /\ task' = "idle"
      BY <2>1, <2>2, <2>4, TaskAfterCases DEF Record
    <3>2. Draft(plan') = Draft(plan) /\ plan'.approvalPolicy = plan.approvalPolicy
      BY <2>2, <3>1 DEF Cancelled, Draft, Good, Plan
    <3>3. Stage(task', plan') = Stage(task, plan)
      BY <2>4, <3>1 DEF Stage
    <3> QED BY <2>1, <3>2, <3>3 DEF AbstractStep, Authority!vars
  <2> QED BY <2>2, <2>3, <2>4
<1> QED BY <1>1, <1>2, <1>3, <1>4 DEF Prompt

LEMMA PauseAbstract ==
  ASSUME Inv, PauseForApproval, task = "waiting_user"
  PROVE  AbstractStep
<1>1. /\ plan' = plan /\ task' = task /\ acts' = acts /\ shown' = Draft(plan)
      /\ plan.phase = "awaiting_approval" /\ Good(plan)
  BY DEF PauseForApproval, sessionVars, Inv
<1>2. Stage(task, plan) = "review"
  BY <1>1, StageCases DEF TaskStatus
<1>3. Authority!Present
  BY <1>1, <1>2 DEF Authority!Present
<1> QED BY <1>3 DEF AbstractStep, Authority!Next

LEMMA RetryOrPauseAbstract ==
  ASSUME Inv, RetryOrPause, control \in {"model", "tools"}, ~denied
  PROVE  AbstractStep
<1>1. plan.phase = "awaiting_approval"
  BY DEF RetryOrPause, ResponsePending
<1>2. task = "waiting_user"
  BY <1>1, ActiveIsPlan DEF Inv, FlowInv, LifecycleOK, Terminal
<1>3. CASE PauseForApproval
  BY <1>2, <1>3, PauseAbstract
<1>4. CASE ~PauseForApproval
  BY <1>4, QuietStep DEF RetryOrPause, sessionVars
<1> QED BY <1>3, <1>4

LEMMA ModelAbstract ==
  ASSUME Inv, Model
  PROVE  AbstractStep
<1>1. CASE TurnLimit \/ ModelFails \/ InterruptModel
  <2>1. /\ control = "model" /\ UNCHANGED <<shown, acts>>
        /\ \E status \in {"failed", "cancelled"} : StopTask(status)
    BY <1>1 DEF TurnLimit, ModelFails, InterruptModel, ModelCall, Stop
  <2> QED BY <2>1, StopAbstract
<1>2. CASE OverflowRecovered \/ FinalDeferred \/ \E n \in 1 .. MaxBatch : CallTools(n)
  BY <1>2, QuietStep DEF OverflowRecovered, FinalDeferred, CallTools, sessionVars
<1>3. CASE Unresolved
  <2>1. control = "model" /\ ~denied /\ RetryOrPause
    BY <1>3 DEF Unresolved, ModelCall, Inv, FlowInv
  <2> QED BY <2>1, RetryOrPauseAbstract
<1>4. CASE Final("failed")
  <2>1. control = "model" /\ UNCHANGED <<shown, acts>> /\ StopTask("failed")
    BY <1>4 DEF Final, ModelCall
  <2> QED BY <2>1, StopAbstract
<1>5. CASE Final("completed")
  <2>1. /\ control = "model" /\ UNCHANGED <<shown, acts>> /\ StopTask("completed")
        /\ Good(plan)
    BY <1>5 DEF Final, ModelCall, Inv
  <2>2. /\ plan.phase \in {"inactive", "completed"}
        /\ plan.path \in {"direct", "undecided", "plan"}
        /\ plan.phase = "inactive" <=> plan.path # "plan"
    BY <1>5, <2>1, ActiveIsPlan
       DEF Final, InPhase, ResponsePending, Inv, FlowInv, ReplyInv, PlanPhase, ExecutionPath
  <2>3. task \in {"running", "waiting_user"} /\ task \in TaskStatus
    BY <2>1 DEF Inv, FlowInv, TaskStatus
  <2>4. Stage(task, plan) \in {"free", "deciding", "finished"}
    BY <2>1, <2>2, <2>3, StageCases
  <2>5. plan' = plan /\ task' = "completed"
    BY <2>1, <2>3 DEF StopTask, PlanAfterStop, Terminal
  <2>6. Stage(task', plan') = "completed"
    BY <2>1, <2>5, StageCases DEF TaskStatus
  <2>7. Authority!Complete
    BY <2>1, <2>4, <2>5, <2>6 DEF Authority!Complete, Draft
  <2> QED BY <2>7 DEF AbstractStep, Authority!Next
<1> QED BY <1>1, <1>2, <1>3, <1>4, <1>5 DEF Model

-----------------------------------------------------------------------------
(* The tools.                                                              *)

\* A call of update_plan or select_execution_mode, at which the task runs.
LEMMA PlanCallFacts ==
  ASSUME Inv, NEW earlier, NEW q, PlanCall(earlier, q), plan.phase # "awaiting_approval"
  PROVE  /\ plan' = q /\ task' = TaskAfter(q) /\ UNCHANGED <<shown, acts>>
         /\ task = "running" /\ task \in TaskStatus /\ Good(plan)
         /\ q.phase = "awaiting_approval" => task' = "waiting_user"
         /\ q.phase = "cancelled" => task' = "cancelled"
         /\ q.phase \notin {"awaiting_approval", "cancelled"} => task' = "running"
<1>1. /\ plan' = q /\ task' = TaskAfter(q) /\ UNCHANGED <<shown, acts>>
      /\ task = "running" /\ task \in TaskStatus /\ Good(plan)
  BY ExecutingFacts DEF PlanCall, Record, Inv, TaskStatus
<1> QED BY <1>1, TaskAfterCases

LEMMA SubmitAbstract ==
  ASSUME Inv, NEW earlier, NEW r, Good(r), CanSubmit(r),
         r.approvalPolicy = plan.approvalPolicy, plan.phase = "planning",
         r = plan \/ Draft(r).version > Draft(plan).version,
         PlanCall(earlier, Submitted(r))
  PROVE  AbstractStep
<1> DEFINE q == Submitted(r)
<1>1. /\ Good(q) /\ Draft(q) = Draft(r) /\ q.approvalPolicy = r.approvalPolicy
      /\ q.phase = IF r.approvalPolicy = "auto" THEN "executing" ELSE "awaiting_approval"
      /\ r.approvalPolicy \in ApprovalPolicy
  BY SubmitGood DEF Submitted, Draft, Good, Plan
<1>2. /\ plan' = q /\ UNCHANGED <<shown, acts>> /\ task = "running" /\ Good(plan)
      /\ task' = IF r.approvalPolicy = "auto" THEN "running" ELSE "waiting_user"
  BY <1>1, PlanCallFacts
<1>3. /\ Draft(r) \in Authority!Drafts /\ Draft(r).outline # EmptyOutline
      /\ Draft(r) = Draft(plan) \/ Draft(r).version > Draft(plan).version
  BY DraftType DEF CanSubmit
<1> HIDE DEF q
<1>4. Stage(task, plan) = "drafting"
  BY <1>2, StageCases DEF TaskStatus
<1>5. Stage(task', plan') = IF plan.approvalPolicy = "manual" THEN "review" ELSE "granted"
  BY <1>1, <1>2, StageCases DEF TaskStatus, ApprovalPolicy
<1>6. Authority!Submit
  BY <1>1, <1>2, <1>3, <1>4, <1>5 DEF Authority!Submit, Authority!Newer
<1> QED BY <1>6 DEF AbstractStep, Authority!Next

LEMMA ReplacedDraft ==
  ASSUME NEW p, Good(p), NEW outline \in Outline, NEW restated \in BOOLEAN,
         CanReplace(p, outline)
  PROVE  LET r == Replaced(p, outline, restated) IN
         r = p \/ Draft(r).version > Draft(p).version
<1>1. p \in Plan /\ p.version \in Nat
  BY DEF Good, Plan
<1>2. CASE Replaced(p, outline, restated) # p
  <2>1. Replaced(p, outline, restated).version = p.version + 1
    BY <1>1, <1>2 DEF Replaced, Plan
  <2> QED BY <1>1, <2>1 DEF Draft
<1> QED BY <1>2

LEMMA DraftingAbstract ==
  ASSUME Inv,
         \/ \E mode \in {"direct", "plan"} : SelectMode(mode)
         \/ \E outline \in Outline, restated \in BOOLEAN :
              ReplacePlan(outline, restated) \/ ReplaceAndSubmit(outline, restated)
         \/ SubmitPlan
  PROVE  AbstractStep
<1>1. Good(plan)
  BY DEF Inv
<1>2. ASSUME NEW mode \in {"direct", "plan"}, SelectMode(mode)
      PROVE  AbstractStep
  <2> DEFINE q == PathSelected(plan, mode)
  <2>1. /\ PlanCall({}, q) /\ plan.phase = "inactive" /\ plan.path = "undecided" /\ Good(q)
    BY <1>1, <1>2, SelectGood DEF SelectMode, CanSelectPath
  <2>2. /\ Draft(q) = Draft(plan) /\ q.approvalPolicy = plan.approvalPolicy /\ q.path = mode
        /\ q.phase = IF mode = "plan" THEN "planning" ELSE "inactive"
    BY <1>1, <2>1 DEF PathSelected, Draft, Good, Plan
  <2> HIDE DEF q
  <2>3. plan' = q /\ UNCHANGED <<shown, acts>> /\ task = "running" /\ task' = "running"
    BY <2>1, <2>2, PlanCallFacts
  <2>4. Stage(task, plan) = "deciding" /\ Stage(task', plan') \in {"free", "drafting"}
    BY <1>1, <2>1, <2>2, <2>3, StageCases DEF TaskStatus
  <2>5. Authority!Decide
    BY <2>2, <2>3, <2>4 DEF Authority!Decide
  <2> QED BY <2>5 DEF AbstractStep, Authority!Next
<1>3. ASSUME NEW outline \in Outline, NEW restated \in BOOLEAN, ReplacePlan(outline, restated)
      PROVE  AbstractStep
  <2> DEFINE q == Replaced(plan, outline, restated)
  <2>1. /\ PlanCall({}, q) /\ plan.phase = "planning"
        /\ Good(q) /\ q.approvalPolicy = plan.approvalPolicy /\ q.phase = "planning"
        /\ q = plan \/ Draft(q).version > Draft(plan).version
    BY <1>1, <1>3, ReplacedFields, ReplacedDraft DEF ReplacePlan, CanReplace, InPhase
  <2> HIDE DEF q
  <2>2. plan' = q /\ UNCHANGED <<shown, acts>> /\ task = "running" /\ task' = "running"
    BY <2>1, PlanCallFacts
  <2>3. Stage(task, plan) = "drafting" /\ Stage(task', plan') = "drafting"
    BY <1>1, <2>1, <2>2, StageCases DEF TaskStatus
  <2>4. CASE q = plan
    BY <2>2, <2>4, QuietStep
  <2>5. CASE q # plan
    <3>1. Authority!Redraft
      BY <2>1, <2>2, <2>3, <2>5, DraftType DEF Authority!Redraft, Authority!Newer
    <3> QED BY <3>1 DEF AbstractStep, Authority!Next
  <2> QED BY <2>4, <2>5
<1>4. ASSUME NEW outline \in Outline, NEW restated \in BOOLEAN,
             ReplaceAndSubmit(outline, restated)
      PROVE  AbstractStep
  <2> DEFINE r == Replaced(plan, outline, restated)
  <2>1. /\ PlanCall({Snapshot(r, task)}, Submitted(r)) /\ CanSubmit(r)
        /\ plan.phase = "planning"
        /\ Good(r) /\ r.approvalPolicy = plan.approvalPolicy
        /\ r = plan \/ Draft(r).version > Draft(plan).version
    BY <1>1, <1>4, ReplacedFields, ReplacedDraft DEF ReplaceAndSubmit, CanReplace, InPhase
  <2> HIDE DEF r
  <2> QED BY <2>1, SubmitAbstract
<1>5. CASE SubmitPlan
  <2>1. CanSubmit(plan) /\ PlanCall({}, Submitted(plan)) /\ plan.phase = "planning"
    BY <1>5 DEF SubmitPlan, CanSubmit, InPhase
  <2> QED BY <1>1, <2>1, SubmitAbstract
<1> QED BY <1>2, <1>3, <1>4, <1>5

LEMMA WorkingAbstract ==
  ASSUME Inv,
         \/ \E i \in StepId, status \in PlanStepStatus : UpdateStep(i, status)
         \/ RequestReplan \/ CancelPlan \/ CompletePlan
  PROVE  AbstractStep
<1>1. Good(plan) /\ plan \in Plan
  BY DEF Inv, Good
<1>2. ASSUME NEW i \in StepId, NEW status \in PlanStepStatus, UpdateStep(i, status)
      PROVE  AbstractStep
  <2> DEFINE q == StepUpdated(plan, i, status)
  <2>1. CanUpdateStep(plan, i, status) /\ PlanCall({}, q) /\ plan.phase = "executing"
    BY <1>2 DEF UpdateStep, CanUpdateStep, Authorized, InPhase
  <2>2. /\ Draft(q) = Draft(plan) /\ q.approvalPolicy = plan.approvalPolicy
        /\ q.phase = "executing" /\ Good(q)
    BY <1>1, <2>1, UpdateStepGood DEF StepUpdated, Draft, Plan
  <2> HIDE DEF q
  <2>3. plan' = q /\ UNCHANGED <<shown, acts>> /\ task = "running" /\ task' = "running"
    BY <2>1, <2>2, PlanCallFacts
  <2>4. Stage(task', plan') = Stage(task, plan)
    BY <1>1, <2>1, <2>2, <2>3, StageCases DEF TaskStatus
  <2> QED BY <2>2, <2>3, <2>4 DEF AbstractStep, Authority!vars
<1>3. CASE RequestReplan
  <2> DEFINE q == Replanned(plan)
  <2>1. CanReplan(plan) /\ PlanCall({}, q) /\ plan.phase = "executing"
    BY <1>3 DEF RequestReplan, CanReplan, Authorized, InPhase
  <2>2. /\ Good(q) /\ q.phase = "planning" /\ q.approvalPolicy = plan.approvalPolicy
        /\ Draft(q) \in Authority!Drafts /\ Draft(q).version > Draft(plan).version
        /\ Draft(q).outline = Draft(plan).outline
    BY <1>1, <2>1, ReplanGood, NewerDraft
  <2> HIDE DEF q
  <2>3. plan' = q /\ UNCHANGED <<shown, acts>> /\ task = "running" /\ task' = "running"
    BY <2>1, <2>2, PlanCallFacts
  <2>4. Stage(task, plan) = "granted" /\ Stage(task', plan') = "drafting"
    BY <1>1, <2>1, <2>2, <2>3, StageCases DEF TaskStatus
  <2>5. Authority!Reopen
    BY <2>2, <2>3, <2>4 DEF Authority!Reopen, Authority!Newer
  <2> QED BY <2>5 DEF AbstractStep, Authority!Next
<1>4. CASE CancelPlan
  <2> DEFINE q == Cancelled(plan)
  <2>1. CanCancel(plan) /\ PlanCall({}, q) /\ plan.phase \in {"planning", "executing"}
    BY <1>4 DEF CancelPlan, UpdatePlanActions
  <2>2. /\ Good(q) /\ q.phase = "cancelled" /\ Draft(q) = Draft(plan)
        /\ q.approvalPolicy = plan.approvalPolicy
    BY <1>1, <2>1, CancelGood DEF Cancelled, Draft, Plan
  <2> HIDE DEF q
  <2>3. plan' = q /\ UNCHANGED <<shown, acts>> /\ task = "running" /\ task' = "cancelled"
    BY <2>1, <2>2, PlanCallFacts
  <2>4. Stage(task, plan) \in Authority!Active /\ Stage(task', plan') = "stopped"
    BY <1>1, <2>1, <2>2, <2>3, StageCases, StageActive DEF TaskStatus
  <2>5. Authority!Abandon
    BY <2>2, <2>3, <2>4 DEF Authority!Abandon
  <2> QED BY <2>5 DEF AbstractStep, Authority!Next
<1>5. CASE CompletePlan
  <2> DEFINE q == Completed(plan)
  <2>1. CanComplete(plan) /\ PlanCall({}, q) /\ plan.phase = "executing"
    BY <1>5 DEF CompletePlan, CanComplete, Authorized, InPhase
  <2>2. /\ Good(q) /\ q.phase = "completed" /\ Draft(q) = Draft(plan)
        /\ q.approvalPolicy = plan.approvalPolicy
    BY <1>1, <2>1, CompleteGood DEF Completed, Draft, Plan
  <2> HIDE DEF q
  <2>3. plan' = q /\ UNCHANGED <<shown, acts>> /\ task = "running" /\ task' = "running"
    BY <2>1, <2>2, PlanCallFacts
  <2>4. Stage(task, plan) = "granted" /\ Stage(task', plan') = "finished"
    BY <1>1, <2>1, <2>2, <2>3, StageCases DEF TaskStatus
  <2>5. Authority!FinishPlan
    BY <2>2, <2>3, <2>4 DEF Authority!FinishPlan
  <2> QED BY <2>5 DEF AbstractStep, Authority!Next
<1> QED BY <1>2, <1>3, <1>4, <1>5

LEMMA ResolveAbstract ==
  ASSUME Inv, ResolveApprove \/ ResolveRevise \/ ResolveCancel
  PROVE  AbstractStep
<1>1. PICK q : /\ \/ q = Approved(plan) /\ CanApprove(plan)
                  \/ q = Revised(plan) /\ CanRevise(plan)
                  \/ q = Cancelled(plan) /\ CanCancel(plan)
               /\ Resolve(q)
  BY DEF ResolveApprove, ResolveRevise, ResolveCancel
<1>2. /\ Record({}, q) /\ UNCHANGED <<shown, acts>>
      /\ Executing /\ plan.phase = "awaiting_approval" /\ pending
  BY <1>1 DEF Resolve, CanResolvePlanResponse
<1>3. task = "waiting_user"
  BY <1>2, ExecutingFacts
<1> QED BY <1>1, <1>2, <1>3, DecisionAbstract

\* Work with side effects is done without a plan or on a granted one.
LEMMA WorkAbstract ==
  ASSUME Inv, NEW mutates \in BOOLEAN, SideEffect(mutates)
  PROVE  AbstractStep
<1>1. /\ UNCHANGED <<plan, task, shown>> /\ acts' = ~acts
      /\ CanExecuteSideEffects(plan) /\ Executing /\ Good(plan)
  BY DEF SideEffect, sessionVars, Inv
<1>2. plan.path = "direct" \/ plan.phase = "executing"
  BY <1>1 DEF CanExecuteSideEffects, Ungoverned, Good, Valid, PathValid
<1>3. task \in {"running", "waiting_user"}
  BY <1>1, ExecutingFacts
<1>4. Stage(task, plan) \in {"free", "granted"}
  BY <1>1, <1>2, <1>3, StageCases DEF TaskStatus
<1>5. Authority!Work
  BY <1>1, <1>4 DEF Authority!Work, Draft
<1> QED BY <1>5 DEF AbstractStep, Authority!Next

LEMMA EndAbstract ==
  ASSUME Inv,
         \/ HiddenShellWrite \/ OtherCall \/ TerminalDeny \/ InterruptTools
         \/ BatchFails \/ EndDenied \/ RetryRejected \/ Pause \/ EndCancelled \/ NextTurn
  PROVE  AbstractStep
<1>1. CASE HiddenShellWrite \/ OtherCall \/ EndDenied \/ NextTurn
  BY <1>1, QuietStep DEF HiddenShellWrite, OtherCall, EndDenied, NextTurn, sessionVars
<1>2. CASE TerminalDeny \/ InterruptTools \/ BatchFails \/ EndCancelled
  <2>1. /\ control = "tools" /\ UNCHANGED <<shown, acts>>
        /\ \E status \in {"failed", "cancelled"} : StopTask(status)
    BY <1>2 DEF TerminalDeny, Executing, InterruptTools, BatchFails, Ended, Stop,
                EndCancelled
  <2> QED BY <2>1, StopAbstract
<1>3. CASE RetryRejected
  <2>1. RetryOrPause /\ control = "tools" /\ ~denied
    BY <1>3 DEF RetryRejected, Ended
  <2> QED BY <2>1, RetryOrPauseAbstract
<1>4. CASE Pause
  <2>1. PauseForApproval /\ control = "tools" /\ ~denied /\ plan.phase = "awaiting_approval"
    BY <1>4 DEF Pause, Ended, PauseForApproval
  <2>2. task = "waiting_user"
    BY <2>1, ActiveIsPlan DEF Inv, FlowInv, LifecycleOK, Terminal
  <2> QED BY <2>1, <2>2, PauseAbstract
<1> QED BY <1>1, <1>2, <1>3, <1>4

-----------------------------------------------------------------------------
(* The refinement.                                                         *)

LEMMA InitAbstract ==
  ASSUME Init
  PROVE  Authority!Init
<1>1. PICK policy \in PlanPolicy, approvalPolicy \in ApprovalPolicy :
         plan = InitialPlan(policy, approvalPolicy)
  BY DEF Init
<1>2. Draft(plan) = Authority!NoDraft
  BY <1>1 DEF InitialPlan, Draft, Authority!NoDraft
<1>3. task = "idle" /\ shown = None /\ acts = FALSE
  BY DEF Init
<1>4. Stage(task, plan) = "none"
  BY <1>3 DEF Stage
<1> QED BY <1>2, <1>3, <1>4 DEF Authority!Init

LEMMA NextAbstract ==
  ASSUME Inv, [Next]_vars
  PROVE  [Authority!Next]_(Authority!vars)
<1>1. CASE Prompt
  BY <1>1, PromptAbstract DEF AbstractStep
<1>2. CASE Model
  BY <1>2, ModelAbstract DEF AbstractStep
<1>3. CASE Tools
  BY <1>3, DraftingAbstract, WorkingAbstract, ResolveAbstract, WorkAbstract, EndAbstract
     DEF Tools, AbstractStep
<1>4. CASE UNCHANGED vars
  BY <1>4, QuietStep DEF vars, AbstractStep
<1> QED BY <1>1, <1>2, <1>3, <1>4 DEF Next, SessionOver

\* The session keeps the promise of PlanAuthority: side effects only where no plan
\* is needed or the present draft is granted, a grant only of what the user saw,
\* and a new number for every change of a reviewed or granted draft.
THEOREM SessionKeepsAuthority == Spec => KeepsAuthority
<1>1. Spec => [][Authority!Next]_(Authority!vars)
  BY NextAbstract, InvAlways, PTL DEF Spec
<1>2. Spec => Authority!Init
  BY InitAbstract DEF Spec
<1> QED BY <1>1, <1>2 DEF KeepsAuthority, Authority!Spec
=============================================================================
