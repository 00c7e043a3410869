# Formal model of the local coding agent harness

TLA+ specifications of the Python program under `src/src/` (paths below are
relative to that directory unless they start with `docs/`, `tests/` or another
top-level directory), the TLC configurations that check them on small
instances, and TLAPS proofs of their main properties for all parameter values.

1. [The system](#1-the-system)
2. [Modules](#2-modules)
3. [How the model corresponds to the code](#3-how-the-model-corresponds-to-the-code)
4. [Runs and bounds](#4-runs-and-bounds)
5. [What is proved](#5-what-is-proved)
6. [Disagreements found](#6-disagreements-found)
7. [What is not modelled](#7-what-is-not-modelled)
8. [Plan](#8-plan)

## 1. The system

The harness runs a coding agent in a terminal. A user types tasks at a prompt;
for each task the agent loop alternates calls of a language model with batches
of tool calls that the model asks for (read, edit, delete files, run Bash, call
MCP servers), until the model answers with a final text, a limit is reached or
the user interrupts. Before side effects a task may have to draft a plan and
have it approved, and each operation passes a permission gate.

| Component | State | Operations | What makes it correct |
| --- | --- | --- | --- |
| Plan state and controller (`runtime/plan/models.py`, `controller.py`, `capabilities.py`, `gate.py`) | path, phase, steps and their status, version, authorization, completion ledger | select a path, replace, submit, approve, revise, update a step, re-plan, cancel, complete, reset | every transition leaves a state that `validate` accepts; a version names one list of steps; authorization covers exactly the steps decided on; the ledger credits only authorized work |
| Plan tools and responses (`tools/update_plan.py`, `resolve_plan_response.py`, `select_execution_mode.py`, `runtime/plan/resolution.py`) | none of their own | turn tool calls and commands into transitions, consume the pending text | the user's text acts once, on the plan it answers |
| Plan store (`runtime/plan/store.py`) | `plan.json` | save, clear | the file tells the truth whenever the last write succeeded |
| Task lifecycle and session (`runtime/task.py`, `session.py`, `session_factory.py`) | task status and id, pending continuation, counters, changed files, failures | begin, continue, transition, follow the plan | task and plan agree; statuses follow their table; a waiting task waits for the user |
| Agent loop (`agent/loop.py`) | messages, turn and retry counters, the abort reason | start, continue, resume, one turn, a batch, the plan boundary, abort | every invocation ends; nothing in progress when the prompt returns; batches stop at a plan transition |
| Command line (`cli/interactive.py`, `app.py`, `replay.py`) | the configuration of the next task | text, `/approve`, `/revise`, `/cancel-plan`, `/plan`, `/plan-mode`, `/plan-approval`, quit | a text reaches the waiting task, commands act on the plan on the screen |
| Executor, registry and hooks (`runtime/executor.py`, `runtime/hooks/*`, `tools/registry.py`) | evidence of mutations and verification | capability, gate, validation, permission, call, post hooks | a refused call has no effect |
| Turn policies (`runtime/progress.py`, `recovery.py`, `call_budget.py`) | fingerprints and counters | record a call, ask for repair, stop | bounded repetition; success is inferred from current evidence |
| Permission gate and approval (`runtime/security/*`) | remembered scopes and rules | check, resolve, ask | a denial is final where it says so; remembered decisions cover what was asked |
| File tools (`tools/read_file.py`, `edit_file.py`, `write_file.py`, `delete_file.py`) | snapshots of files read, created, changed and deleted sets | read, edit, write, delete | no edit of content the agent has not seen |
| Context manager (`runtime/context/*`, `tools/history.py`) | messages, checkpoint, generation | admit results, measure, rebase | a rebase is atomic and loses nothing that is still needed |
| MCP runtime (`runtime/mcp/runtime.py`, `tools/mcp_tool.py`) | a worker thread, its queue, futures, the catalog | start, call, close | every caller gets an answer; close stops the worker |
| Observability (`runtime/observability/*`), benchmarks, scripts, trace viewer | files | write reports | output only |

### Interactions

The program is sequential except for the MCP worker thread, so what interleaves
is the user, the model, the tools and Ctrl+C. The prompt calls the loop
(`start_task`, `continue_task`, `resume_runtime`); the loop calls the model and
the executor; the executor's tools call the plan controller; the controller
calls a listener of the session that moves the task's status, then the store;
and a task that fails or is cancelled makes the session cancel the plan through
the same controller. This cycle (plan moves task, task moves plan, each checked
against the other at three places) is the heart of the system and is modelled
first.

### What is hard

- the listener and the transition of the task call each other, with an
  invariant checked in the middle;
- a text typed at the prompt stays pending across model calls, retries, pauses,
  commands and interrupts until something consumes it;
- a plan is approved by version, and versions change by re-planning, revising
  and replacing, with completed work carried over;
- batches hold plan transitions and side effects in any order;
- writes of `plan.json` fail silently;
- several counters bound the loop, each incremented at a different place.

The full list is under `hazards` in `PROJECT.json`, each entry at the line where
it bites and with the properties that cover it.

## 2. Modules

| Module | What it is |
| --- | --- |
| `PlanState` | the plan as a record, `PlanState.validate` as `Valid`, each controller operation as a condition and a function from plan to plan, the capabilities derived from a plan |
| `PlanController` | a state machine in which any caller invokes any of those operations |
| `PlanSession` | the composition: prompt, task, plan, store, loop and tools |
| `PlanAuthority` | the abstract specification: what planning promises the user, without turns, prompts or files |
| `TaskEvidence` | what a session records of its files, mutations and verifications, beside what really happens to the files, and the verdict drawn from it |
| `ToolStall` | the progress policy: when a model that repeats failing calls is warned and stopped |
| `FileState` | what the session knows of one file, against the disk, other processes and the conversation |
| `SourceRanges` | the covered ranges of a source file: merging, overlap, full scan; extended by `FileState` |
| `PermissionGate` | a tool call from its classification to its execution or refusal: the risk of a command, the rows of the gate, the question, rules and scopes |
| `ContextWindow` | the conversation and its audit history: rounds, pressure, rebases, overflow, interrupts |
| `ToolAdmission` | how the results of a round are cut to their limit; extended by `ContextWindow` |
| `McpRuntime` | the main thread and the worker that owns the MCP clients: queue, futures, startup, calls, close, Ctrl+C |
| `PlanStateProofs`, `PlanControllerProofs`, `PlanSessionProofs`, `TaskEvidenceProofs`, `FileStateProofs`, `PermissionGateProofs`, `ContextWindowProofs`, `McpRuntimeProofs` | theorems and proofs; those of `ToolStall` are in `TaskEvidenceProofs`, for which its definitions have names of their own (`StallSpec`) |
| `MCPlanController`, `MCPlanSession`, `MCTaskEvidence`, `MCToolStall`, `MCFileState`, `MCPermissionGate`, `MCContextWindow`, `MCMcpRuntime` | instances and symmetry for TLC |

The modules of the plan compose: `PlanSession` extends `PlanState` and
implements `PlanAuthority`. `FileState` is built on the operators of
`SourceRanges`, and `ContextWindow` admits each round of results with
`ToolAdmission`. The modules beside `PlanSession` keep of the rest of the
program what they depend on: `TaskEvidence` the boundaries of batches and tasks
and that a plan may end a turn early, `ToolStall` the outcomes of a batch,
`FileState` the rebases that remove results and the start of a task,
`PermissionGate` the tasks of a session and the files they create,
`ContextWindow` what the loop appends and when, `McpRuntime` the start and the
end of the session.

Definitions whose comment begins with `Mutated:` are deliberately wrong variants
of the definition that follows. Nothing uses them in a normal run: putting one in
the place of its original must violate the property it is listed with in
`PROJECT.json`, which shows that the property can tell the code from a
plausible bug.

## 3. How the model corresponds to the code

`PROJECT.json` maps each definition to its lines. The choices that need a word:

**Plan data.** A plan's steps are a function from step ids to descriptions
(`None` for an id that is not listed). The ledger stores fingerprints of
`(id, description)`; SHA-256 is taken to be injective, so a fingerprint is the
description. Order and explanation of the steps matter to one thing only,
whether `replace_plan` counts as a change: the parameter `restated` stands for
a difference in them. Reasons, goals and feedback are free text that no
transition reads; every caller rejects blank text before the controller is
called, which matters because `revise`, `request_replan` and `cancel` change
the state before `_required_text` would refuse.

**Controller operations.** `CanX(p)` is the condition under which operation `X`
does not raise, `X(p)` the plan it leaves. An operation that raises leaves the
plan alone. `validate` runs after each mutation with no rollback, hence
`PlanStaysValid`: if some legal sequence produced an invalid plan, the program
would raise with the damage done.

**Session.** `control` is the program counter: the user at the prompt, the loop
about to call the model, the loop inside or at the end of a batch of tool calls
(`left` counts those not yet executed), the session over or crashed. `via` is
whether a text or a slash command started the invocation, because
`run_interactive` treats a cancelled plan differently after each. The
configuration that `/plan-mode` and `/plan-approval` change only matters when a
task starts, so `StartTask` chooses it nondeterministically. `task = "idle"` is
`task_id is None`. One-shot `run` is a session that quits after one invocation:
its first task is `StartTask`, which also records the initial state.

**Record.** `PlanController._record` calls the listener (`TaskAfter`), then
`PlanStore.save`. An operation made of two transitions (`replace_plan` with
`submit`, a task that stops and so cancels its plan) writes twice; when the
second write fails the file may hold the first snapshot, which is what `Save`'s
`earlier` argument says. Under policy `off` nothing is written and a new task
removes the file. An interactive session has no `plan.json` until its first
task, because `create_agent_session` records an initial state only together with
a first message (`session_factory.py:115`): `Init` has no file and `saved` is
false, and `SnapshotCoherent` speaks from the first write or removal on. What a
write leaves is abstracted to the phase, version, authorization and task status.

**The loop.** One action per way a turn can go: the turn limit, a failed or
refused response, Ctrl+C, an overflow that was recovered, a response that does
not resolve the pending text, a deferred or accepted final text, a batch.
`infer_success` is a nondeterministic choice of `completed` or `failed`; the
stall and admission policies are the nondeterministic `BatchFails`. Ctrl+C is
possible during a model call and between tool calls.

**Tools.** Tools that the registry hides are refused before the plan gate, so
`UpdatePlanActions`, `CanExecuteSideEffects` and `CanResolvePlanResponse` guard
the calls; every refused or failed call is `OtherCall`. A refused Bash write
that still counts as a mutation is `HiddenShellWrite` (see section 6). A call
that changes the path or the phase of the plan cancels the rest of its batch.
While a text is pending a batch holds exactly one call, because
`_plan_response_protocol_violation` rejects any other response.

**Unreachable code.** `/plan` requires a running task, and at the prompt no task
is running (`PromptIsIdle`); `_pause_waiting_plan_without_user_input` requires a
model call on a plan that awaits approval without a pending text
(`ReplyIsForAwaitingPlan` excludes it). Neither is an action.

**PlanAuthority.** `stage` is read off the task's status and the plan's phase,
`draft` is the numbered list of steps, `seen` the draft last printed at a pause,
`work` flips with every side effect. The promise: work only while no plan is
needed or a draft is granted; under manual approval only the draft that was seen
is granted; a draft under review or granted does not change without going back
to drafting with a newer version.

**Evidence (`TaskEvidence`).** One action is a tool call with the post hooks
that record it, in their order. `version` and `start` are `mutation_version`
and `task_start_mutation_version`; the six sets of changed, created and deleted
files are the records `session` and `task`; `test` is the task's verification
with the version it was made at. The content of a file is one of absent, what it
was at the start, or new. `disk`, `history` and `missed` are not the program's:
they hold the truth that the properties compare the records with. A Bash command
is the set of files it writes and the set of targets the classifier finds in its
text; commands that write unseen (`UnseenWrite`), writes that raise half-way
(`FailsHalfway`) and calls cut short by Ctrl+C (`InterruptedCall`) put their
file into `history.unseen`, and the properties speak of the other files. Which
commands count as verification is text analysis; `Verify` is any call that does.
The snapshots that `write_file`, `edit_file` and `delete_file` check first decide
only whether a call fails, so `MutationFails` is possible at any time.

**Stall (`ToolStall`).** A fingerprint is the sequence of failing calls itself
(the hash is taken to be injective); a category of failure is implied by the
call. `streak` is not the program's: it lists the failing batches since the last
good one, and `Stalled` says on that list what the three counters encode.

**Files (`FileState`).** Every table is keyed by path and no operation touches
two entries, so one file is enough. A call of `read_file`, `edit_file`,
`write_file` or `delete_file` is taken apart where another process can come in
between: the check, the bytes, the write, the new bytes and the stat. A content
is a model value and its own hash; its lines are numbers. `edit_file` writes in
place and may be cut short (`Torn`); `write_file` replaces by renaming. The
second stat inside `record_file_snapshot` is one with the first. A change that
another process makes between the tool's write and its reading back is adopted
as the tool's own. `unseen`, `handled`, `settled` and `paged` are not the
program's. `world` is what surrounds the session: whether others write during a
call, whether two writes may share a modification time, and the contents and
pages of the instance. The properties that cannot hold in a world say so in
their premise: no tool locks the file, so `OthersWorkSurvives` is about what was
there before the call and needs distinct times; within one tick of the clock
only the hash helps, which `write_file` and `delete_file` compare and
`edit_file` does not (`HashProtects`).

A page is recorded as read and observed when `read_file` returns (`ReturnPage`),
but its lines are only `held` until its tool round ends: `AdmitToolRound` puts
the round's results into `messages` (`resident`), any of them as a stub without
its lines (`stubs`), which the program marks as projected in the read state of
the file, if there is one. A rebase marks what it removes in the same way. A
round that is refused or interrupted ends its task, so that its results are lost
when the next task forgets the read state (`ResetTaskState`). Two promises
differ here. The notice must not count a stub: `NoticeIsTrue` asks for the lines
among the results that are resident and no stubs, while the program subtracts the
marked ones from those it has observed (`ResidentOverlap`). The completeness of a
snapshot, and so `ReplacedWasRead`, is about what was returned at all: a stub, a
removed result or a lost one has been read.

**Ranges (`SourceRanges`).** Half-open ranges of offsets as in the code. The
covered ranges of a version are recomputed by `MergeRanges` with each page, and
three invariants of `FileState` compare them with the set of lines that were
really returned. `Sorted` is the order of `sorted()` as a choice among the
enumerations of a set, a form that the proofs can reason about.

**Permission (`PermissionGate`).** `Operation` is `classify`, `Check` the gate
with its refusals, rules, risks and modes in the order of the code, `Resolved`
the approval that answers at once or asks, and `AllowOnce`, `AllowScope`,
`DenyOnce` the answers at the prompt. A call is one of a tool with a path, of an
MCP server, or of Bash with a command, which is the set of facts that the
classifier looks for in its text; `ClassifyBash` is the table of the classifier
over these facts. How a fact is found in a text is not modelled. A path stands
for its class under the access policy (inside, protected, escaping). A command
with several targets has the scope of its first. `config` is the host: mode,
prompt policy, sandbox, rules set up in advance, and the calls to try under it.
`approved`, `denied` and `rules` live as long as the session, the created files
as long as the task. The command line ends the session after a terminal denial;
the model goes on, for callers of the classes need not. No tool overrides
`check_permissions` and the prompt without a scope cannot be reached, so neither
appears. The program adds no rule with `ask`, but a host may: it is consulted
before the risk, so that even a destructive command is put to the user then.
`present`, `theirs`, `consents` and `last` are not the program's.

**Conversation (`ContextWindow`).** A message is its kind, its size, the calls
it makes or answers, its ordinal in the audit history, and, for a checkpoint,
what its handoff stands for and the ranges it lists. The system prompt and the
tools are taken off the limits. `pc` is where `run_until_idle` is; `batch` the
response whose tools run, which is appended with its results or not at all. The
provider's summary may fail or be of any size up to its reserve; a checkpoint
that does not fit is not committed. Ids of tool calls are unique. Ctrl+C may
come between the response and its results (`AbortBetweenMessages`), which leaves
a call unanswered for callers that start another task after an abort, until a
rebase drops it; inside one append or one commit it is not modelled. A forced
rebase below hard pressure has no caller. `Ceiling` may exceed `HardLimit`,
because the configured window may be smaller than the fixed ceiling assumes.
`torn`, `executed`, `overflowed` and `refused` are not the program's.

**Admission (`ToolAdmission`).** A result is its kind, its size and whether the
artifact store takes it. `AdmitToolResults` is the loop over the sorted
candidates as a fold: outputs to previews or stubs, previews to stubs before the
first source slice, source slices to stubs, what is left of the previews at the
end. Previews give way by size; `sorted` keeps those of one size in the order in
which they came up. `InOrder` states a sort as a choice among the enumerations
of a set, as `Sorted` does in `SourceRanges`. Previews and stubs have one size
each, a stub being the smaller. A slice is marked as projected also when the
round is refused; the task then ends, and the next one forgets the marks. The
three properties are over every round of the bounds; `ToolRounds` are those that
the tools of `ContextWindow` return.

**MCP (`McpRuntime`).** `main` and `worker` are the program counters of the two
threads, `future` the state of the future of each command. The asyncio queue is
unbounded and first-in first-out; `call_soon_threadsafe` works until the worker
has closed its loop (`LoopOpen`), also when nobody reads the queue any more. The
order of servers is the sorted order of the code. `CancelledError` is no
`Exception`, so a task that the SDK cancels answers nothing (`Cancel`). Ctrl+C
while starting ends the process, in which the daemon thread dies; while serving
it aborts the task and `finish` closes the runtime; while waiting for the answer
to `stop` it goes on to the `finally` that joins the thread.

## 4. Runs and bounds

| Run | Question | Result |
| --- | --- | --- |
| `plan_controller` | can any order of operations break the plan? | 748 states, no error |
| `plan_session` | can any order of texts, commands, model answers, tool calls, failed writes and interrupts break the task, the plan or their promise to the user? | 454,764 states, no error |
| `plan_session_live` | does every invocation end? | 6,718 states, no error |
| `task_evidence` | can any order of calls, verifications and tasks make the records disagree with the files, or complete a task on stale evidence? | 923,396 states, no error |
| `tool_stall` | do the counters stop a task exactly when it stalls, and after a warning? | 77,731 states, no error |
| `file_state` | can what another process wrote be overwritten unseen, an unread file be replaced, a missing read be taken for available? are the ranges exact? | 639,161 states, no error |
| `permission` | does anything reach a hard denial, run without an agreement or after a refusal, or ask when nobody answers? | 357,175 states, no error |
| `context_window` | is what is sent paired and within the limit, is everything that was removed or ran accounted for, are rounds of results cut as they should? | 649,656 states, no error |
| `mcp_runtime` | with failures, cancellation and Ctrl+C anywhere: is the start atomic, nothing left behind, no call performed twice, and does every wait end? | 4,106 states, no error |
| `plan_text`, `plan_blocked`, `permission_scope` | see section 6 | violated |

Some invariants of the runs are conjunctions of named parts, which the text and
the comments of the modules use: `RecordsAgree` in `TaskEvidence`,
`StopsExactlyWhenStalled` in `ToolStall`, `ReadStateIsExact` in `FileState`,
`AskedOnlyWhenNeeded` in `PermissionGate`, `HistoryIsWhole`, `SentIsWhole`,
`SentIsSmallEnough` and `RoundsAreCutWell` in `ContextWindow`, `StartupAtomic` and
`CallsAreOrderedOnce` in `McpRuntime`; the type invariant of the module is in one
of them.

Bounds. `plan_controller` has two step ids and two descriptions, the least with
which steps can be added, removed, reworded and in progress at once, and plan
versions up to 4: re-planning twice after an execution. `plan_session` has one
step with two descriptions, versions up to 3, 5 model calls per task, 1 retry
(the code's own `MAX_PLAN_RESPONSE_RETRIES`), 2 calls per batch: enough for a
draft, an unresolved reply, a retry, a pause, a command that overtakes the
reply, a revision and an execution in one task, and for tasks that follow each
other. `MaxVersion` and `MaxBatch` bound the model only; `MaxTurns` and
`MaxRetries` are parameters of the program. Symmetry permutes descriptions (and
step ids in `plan_controller`); it is not used in the liveness run.

`task_evidence` has two files, one of which exists at the start, two tasks,
counted mutations up to 3, one attempt at repair and one file changed unseen:
enough to delete, write anew and delete again, to create in one task and delete
in the next, and to verify before, between and after. `MaxVersion`, `MaxTasks`
and `MaxUnseen` bound the model only, `MaxRepairs` is `max_repair_attempts`.
`tool_stall` has two calls, batches of up to two and failing streaks of up to 5
batches (`MaxBatch`, `MaxStreak`): enough for three equal failures after others,
for failures that alternate (which this policy never stops) and for three full
budgets with other failures between them. `mcp_runtime` has two
servers, so that a failure leaves another open; two calls, so that a stop can
queue behind an interrupted call and a call can fail on a loop that has ended;
and up to 3 presses of Ctrl+C (`MaxInterrupts`), one to leave each wait.

`file_state` runs four worlds in one: five pages of a file of four lines, one of
them too long for a result, read up to three times by a session alone, with
rounds that end or are lost in between; two contents, of four and of three
lines, that others put in place between the calls, with two writes and two
reads; the same at any point of a call, with three writes and one read; and
three contents of one size whose writes may share a time, the least with which
the disk can hold a content that is neither the snapshot's nor one that was
handled. `BroadReadMin` and `BroadReadMax` are the code's thresholds brought
down to that size; `maxTime` and `maxReads` of a world bound the model only.

`permission_scope` has only the hosts that ask and have no rules of their own, so
that the rule which lets the second call pass comes from an answer. `permission`
has hosts of every mode, prompt policy and sandbox that the rows
tell apart, each with a suite of calls: files inside, outside, protected and
created by the task; MCP calls; and commands that combine up to two of the
classifier's facts, so that every two rows of its table compete. Two tasks
(`MaxTasks`) show what outlives one.

`context_window` has limits of a few tokens, scaled so that one round brings the
conversation from below the automatic trigger to hard pressure and a checkpoint
may or may not fit; responses with one or two calls; two tasks of three model
calls; audit histories of up to 8 items: two rebases of either kind, the second
over the checkpoint of the first. `MaxTasks`, `MaxItems`, `Sizes`, `Inputs`,
`BatchSizes` and `ToolRounds` bound the model only. Admission is checked for all
rounds of up to three results of up to four tokens under a limit of four.

Deadlock is checked in every run but three. Elsewhere the only stuttering is
`SessionOver`, in a session that was closed or crashed or has had its tasks, and
`Ended`, in a program that has ended. `mcp_runtime` allows the SDK to cancel the
worker's task, and then the main thread does wait for ever, until Ctrl+C.
`file_state` and `context_window` stop where their bounds do, and
`context_window` when its tasks are over.

Fairness. `FairSpec` assumes that the model's answers and tool calls come back
(or raise): the HTTP client and Bash have timeouts, and the loop is sequential.
Nothing is assumed of the user: the property speaks of invocations only.
In `McpRuntime` both threads are scheduled, and what the worker awaits comes
back: requests to a server have a read timeout of 120 seconds, and the SDK is
assumed to end the closing of a client. Ctrl+C and cancellation have no
fairness, and `EveryWaitEnds` excepts the behaviours in which a client has
cancelled the worker.

## 5. What is proved

For every value of the constants (any steps, files, servers and calls, and any
bound):

- `PlanControllerProofs`: `TypeCorrect`, `ValidAlways`,
  `VersionsIdentifyOutlines`, `LedgerIsAuthorized`, `ExecutionIsDecided`.
  `Valid` alone is not inductive: `select_execution_path` turns an undecided
  plan into a direct one without looking at the authorization, so the invariant
  adds that an undecided plan carries none. The lemmas about each operation are
  in `PlanStateProofs` and are shared with the session.
- `PlanSessionProofs`: `TypeCorrect`, `LifecycleAgrees`, `ApprovedWasShown`,
  `ReplyHasItsPlan`, `PromptStaysIdle`, `SnapshotIsCoherent`, `TaskObeysTable`,
  `UserReleasesWaiting`. The inductive invariant `Inv` is the conjunction of
  the plan being good, the type invariant, the agreement of task and plan, what
  each value of `control` implies of the counters and the task (`FlowInv`),
  what a pending text implies, what the draft on the screen implies
  (`ShownInv`) and the coherence of the snapshot. The agreement of task and
  plan needs `FlowInv`: only because a running task is never at the prompt do
  the commands, which check the plan alone, move a task that is waiting.
  `SessionKeepsAuthority`, in the same module, is the refinement: every step of
  the session is a step of `PlanAuthority` or leaves its variables unchanged,
  under `Inv`.
- `TaskEvidenceProofs`: `VerdictIsBacked`, `TrackingIsComplete`,
  `RecordsAreSound`, `FailuresAreAnnounced`, and of the other policy of a turn
  `StopsWhenStalled` and `StopsAfterWarning`. `CompletedIsVerified` speaks of the
  moment a task ends; what carries it there is `EvidenceInv`: a verification
  that is current (its version is the counter's), or a task without counted
  mutations, means that everything touched since is excused. That needs the
  counter to move with every Bash command that is recorded, even one whose
  changed paths cannot be told (`BashMovesVersion`, for which the files must be
  finite). The records agree only together with `OriginInv`: a file the session
  created that was there before has been written anew, a file the task found
  and that is gone was deleted by it, and no file is both created and deleted.
  Of `ToolStall`, `CountInv` says that the first counter is the length of the run of
  equal failures at the end of the streak, where the run could not be longer,
  and the second the number of full budgets in the streak; `WarnInv` that a
  task that goes on after a repetition or a full budget was warned.
- `FileStateProofs`: first what the operators of `SourceRanges` compute, for all
  ranges: `MergeIsExact`, `CoversAllIsExact` and `OverlapCounts`. Merging is a
  fold over a sorted set. The induction theorems of the library take an operator
  as a parameter, which the provers cannot instantiate; instead `Folding` builds
  a function that satisfies the equation of the fold, `FoldingIsUnique` shows by
  a least counterexample that the one that `FoldLeft` chooses agrees with it, and
  `AbsorbFold` then gives the steps of the loop, over which the invariant of the
  loop (ranges apart, in order, with exactly the lines so far) is carried by a
  least counterexample again. Then `OthersWorkIsSafe` and `HashIsProtection`,
  from `DiskInv`: what no call has seen is younger than the snapshot, where times
  differ (`Fresh`); the contents that the tools compare are ones a call has read
  or written, where nobody writes during a call (`Known`); and where both hold a
  snapshot with the time of the disk has its hash and size (`Agrees`).
  `ReadStateHolds`, `ReplacementWasRead` and `NoticeHolds` add `RangesInv`, that
  the covered ranges are the merged pages of their version, and `ReadInv`, that
  each result is recorded under the hash of its content, that the lines of a
  snapshot which pages have made complete were all returned, and that what is in
  the conversation as a stub only is marked as projected wherever it is observed
  (`StubsAreMarked`), on which `NoticeHolds` rests.
- `PermissionGateProofs`: `DenialsStand`, `ElseAgreed`, `AskedWhenNeeded`,
  `UnaskedHarmless`, `RefusalsAreFinal`, for any hosts, calls, commands and
  paths. Most of the argument is about one call, through the rows of the gate in
  their order; what needs an invariant (`GateInv`) is what outlives it: that the
  session keeps a rule for each answer of the user and an allow rule for each
  approved scope, that a refusal for good stays in force (`RememberedInv`), and
  that a question that waits was put to somebody who can answer, about something
  neither forbidden nor refused nor agreed to (`PendingInv`).
- `ContextWindowProofs`: `HistoryStaysWhole`, `RequestsAreWhole`,
  `OnlyAppended`, `RebaseCovers`, `RequestsFit`, `RoundsStayRight`, for all
  limits, sizes, batches and numbers of tasks. `HistoryInv` says that every message is the item of its ordinal, that
  ordinals grow along the conversation, that the starts of the windows do not
  decrease, and that an item lies between the start of its generation and the
  next; that no other window has it follows from their order (`WindowsOfItems`).
  A rebase covers what it removes because the first message it keeps is behind
  the old checkpoint (`Committed`), and `HistoryRanges` leaves no ordinal out
  because each is in a window. `SentInv` says that calls and results are paired
  at all times, not only in a request, and where the result of a tool that ran
  is: in the history, or in the batch in hand. `SizeInv` adds to
  `SentIsSmallEnough` that a request measured as too large stays smaller from the
  overflow until it is sent again, and that a failed rebase belongs to the
  generation it is remembered for. `RoundsAreCutWell` needs what the folds of
  `ToolAdmission` compute: as in `FileStateProofs`, each loop is unrolled and the
  invariant `AdmitInv` carried along it: nothing grows, what has not come up is
  untouched, what has come up is at its least or a preview while the round does
  not fit, and a slice is cut only once every output is at its least.
- `McpRuntimeProofs`: `StartIsAtomic`, `EndIsClean`, `CallsAreOrdered`. Whether
  a call can be performed twice depends on where its command is, so `QueueInv`
  says that what is in the queue is pending, is there once, and that `stop` is
  last in it, and that what the worker is doing has left the queue; `FlowInv`
  says what the place of the main thread implies of the answers to `start` and
  `stop`; `ClientInv` relates the open clients to the stage of the worker, and
  the number of times a call was performed to its answer.

The assumptions are those declared with the constants (`NoneAssumption`,
`MaxVersionAssumption`, `PlanSessionAssumption`, `FilesAssumption`,
`ServersAssumption`, `HostsAssumption`, `CallsAssumption`, `PathsAssumption`,
`ContentsAssumption`, `BroadReadAssumption`, `WorldsAssumption`,
`LimitsAssumption`, `AdmissionAssumption`, `BatchAssumption` and the
`BoundsAssumption` of each module), which TLC evaluates.

So every safety property that a passing run checks, and every action property,
is a theorem, as is the refinement of `PlanAuthority`. Model-checked only:
`InvocationEnds` and `EveryWaitEnds`, since liveness under fairness is out of
reach of the prover. Most proofs about a loop of the code carry its invariant
by a least counterexample, because the induction theorems of the library take an
operator as a parameter.

## 6. Disagreements found

Shown by a run:

- **A second text crashes the session** (`plan_text`). `session.py:506` raises
  while an earlier text is unresolved; `loop.py:85-86` and `interactive.py:66-67`
  do not catch it. `docs/architecture.md:136` says that ordinary text continues
  a waiting task.
- **A refused Bash call counts as a mutation** (`plan_blocked`).
  `hooks/tracking.py:59` does not exclude calls refused as `tool_capability`,
  and after one of them `select_execution_path` refuses for the rest of the
  task. `docs/architecture.md:105-107` says that a blocked call is not counted.
- **Approving a scope approves the tool** (`permission_scope`). The answer `[a]`
  adds a rule with the tool and the scope but without `rule_content`
  (`approval.py:86`), and a rule without content is one of the whole tool
  (`permission_rules.py:48`): a later call of the same tool with another scope
  runs without a question. The prompt offers `[a] this run scope`
  (`approval.py:56`).

Met while modelling, and visible as exceptions that the properties make:

- **An unread file counts as read** (`ReplacedWasRead`, `paged`). The notice of
  `read_file.py:126-130` and an edit (`edit_file.py:110`) take a complete
  snapshot (`partial=False`) whatever part of the file was read; `write_file`
  then replaces a file most of which was never returned, although
  `write_file.py:140` asks to read the complete file before replacing it.
- **A wrong hash sticks** (`ReadingAgainHelps`, `world.races`). When another
  process writes between the bytes and the stat of a read, the snapshot has the
  old hash with the new time, and each later read reuses it (`session.py:154`):
  `write_file` and `delete_file` refuse the file as changed until it changes
  again, although `write_file.py:161` says to read it again.
- **Deleting an own file leaves a verification current** (`CompletedIsVerified`,
  `history.cleaned`). `session.py:329-334` returns before `record_mutation` when
  the task created the file; a task that verifies, deletes the file and ends is
  completed. The test `test_verification_becomes_stale_after_a_later_mutation`
  (`tests/unit/runtime/hooks/test_tracking.py:408`) states the rule without
  exception.
- **A missing file in no list** (`ChangesAreTracked`, `history.restored`).
  Deleting a file of the repository, writing it anew and deleting it again takes
  it for a temporary file of the task and drops it from the changed and deleted
  files that `report.md` (`README.md:248`) and the checkpoint
  (`docs/spec.md:570`) list.
- **An emergency rebase drops the handoff** (`RemovedIsCovered`, which asks only
  for what this rebase removes). `manager.py:375` puts a fixed text in its place
  and lists the ranges it removes itself; `docs/spec.md:486` says that the
  previous handoff must be consolidated in every generation, section 26.2 of the
  same document prescribes the fixed text. A later semantic rebase loses what
  that checkpoint stood for in the same way: it hands on the semantic part of the
  old checkpoint, which is the fixed text (`manager.py:252`, `checkpoint.py:158`),
  and its own state lists no removed ranges, so that neither the handoff nor the
  ranges of the emergency generation are in the next one.
- **No reads while awaiting approval.** `capabilities.py:83-86` hides read tools
  in that phase; the table at `docs/architecture.md:122` says bounded reads are
  allowed. `tests/` asserts the behaviour of the code.
- **No tools after the last step.** Once a plan is completed no tool is offered
  (`loop.py:655`), so a verification that then fails cannot be repaired in the
  task.

## 7. What is not modelled

Listed per component in `PROJECT.json`. Finding facts in the text of a shell
command, redaction, the environment filter, prompts, the rendering of
checkpoints, reports, traces and cost arithmetic have no state that other
components read back, and their outcomes enter as nondeterministic choices. The
sandbox composes a command line. `list_dir`, `grep`, `view_diff`, the history
tools and `read_artifact` only read. How the edits of `edit_file` are found in a
text is left out, and so is the call budget, which only adds warnings. Of MCP,
the configuration file, the search over the catalog and the conversion of
results are left out. Benchmarks, scripts and the trace viewer are programs
around this one.

## 8. Plan

1. Done, with proofs of all their safety properties: `PlanState`,
   `PlanController`, `PlanSession`, `PlanAuthority`, `TaskEvidence`,
   `ToolStall`, `FileState` with `SourceRanges`, `PermissionGate`,
   `ContextWindow` with `ToolAdmission`, `McpRuntime`.
2. To come: an abstract specification of the conversation (a log, and a window
   on it that covers what it leaves out) which `ContextWindow` implements, and
   one of the calls to MCP servers (asked, performed at most once, answered)
   which `McpRuntime` implements.
