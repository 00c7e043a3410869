----------------------------- MODULE TaskEvidence -----------------------------
(***************************************************************************)
(* The evidence a session keeps about its tasks, and the verdict it draws  *)
(* from it: which files were changed, created and deleted (in the task and *)
(* in the session), the counter of mutations, the last authoritative       *)
(* verification, an unresolved failure of a mutation, and the attempts at  *)
(* repair.  One action is one tool call with all its post hooks, the end   *)
(* of a batch, a final text, or the end or beginning of a task.            *)
(*                                                                         *)
(* The variables disk, history and missed are not the program's: they hold *)
(* what really happened to the files, which the properties compare with    *)
(* what the session recorded, and whether the loop missed the recovery     *)
(* policy after the last batch.  Of the plan, the module keeps that it may *)
(* end a turn before that; a task that waits for the user is running.      *)
(***************************************************************************)
EXTENDS Naturals, FiniteSets

CONSTANTS
  Files,       \* paths below the repository
  Existing,    \* the files that exist when the session starts
  MaxRepairs,  \* config.max_repair_attempts
  NoTest,      \* no verification was recorded in the task
  MaxVersion,  \* bound of the model: mutations counted in a session
  MaxTasks,    \* bound of the model: tasks of a session
  MaxUnseen    \* bound of the model: files changed without a record

ASSUME FilesAssumption == Existing \subseteq Files /\ IsFiniteSet(Files)
ASSUME BoundsAssumption == /\ MaxRepairs \in Nat
                           /\ MaxVersion \in Nat
                           /\ MaxTasks \in Nat
                           /\ MaxUnseen \in Nat

VARIABLES
  status,   \* of the current task
  batch,    \* is a batch of tool calls under way?
  version,  \* mutation_version
  start,    \* task_start_mutation_version
  session,  \* changed, created and deleted files of the session
  task,     \* the same of the task
  failure,  \* task_unresolved_mutation_failure
  test,     \* task_test_result, task_verification_version, repair_injected
  repairs,  \* repair_attempts
  tasks,    \* task_sequence
  disk,     \* what each file really holds
  history,  \* what really happened, see History
  missed    \* did a batch end without the repair it called for?

recorded == <<version, start, session, task, failure, test>>
vars == <<status, batch, recorded, repairs, tasks, disk, history, missed>>

Content == {"absent", "old", "new"}

Terminal == {"completed", "failed", "cancelled"}

Record == [changed : SUBSET Files, created : SUBSET Files, deleted : SUBSET Files]
EmptyRecord == [changed |-> {}, created |-> {}, deleted |-> {}]

Test == [ok : BOOLEAN, version : Nat, injected : BOOLEAN] \cup {NoTest}

\* touched: changed in this task after its last recorded verification;
\* cleaned: those of them that were last deleted as the task's own files;
\* dropped: deleted in this task and not created by it;
\* restored: existed when the session began and written anew by write_file;
\* unseen: changed by a command or an interrupted call nobody recorded;
\* present: existed when the task began.
History == [touched : SUBSET Files, cleaned : SUBSET Files, dropped : SUBSET Files,
            restored : SUBSET Files, unseen : SUBSET Files, present : SUBSET Files]

Base == [f \in Files |-> IF f \in Existing THEN "old" ELSE "absent"]
Present == {f \in Files : disk[f] # "absent"}

FreshHistory(restored, unseen, present) ==
  [touched |-> {}, cleaned |-> {}, dropped |-> {}, restored |-> restored,
   unseen |-> unseen, present |-> present]

Init == /\ status = "idle" /\ batch = FALSE
        /\ version = 0 /\ start = 0
        /\ session = EmptyRecord /\ task = EmptyRecord
        /\ failure = FALSE /\ test = NoTest
        /\ repairs = 0 /\ tasks = 0
        /\ disk = Base
        /\ history = FreshHistory({}, {}, Existing) /\ missed = FALSE

-----------------------------------------------------------------------------
(* What a call leaves behind.                                              *)

\* Mutated: a file that is written again stays listed as deleted.
ChangedOnly(record, S) == [record EXCEPT !.changed = @ \cup S]

Changed(record, S) == [record EXCEPT !.changed = @ \cup S, !.deleted = @ \ S]

Created(record, S) == [Changed(record, S) EXCEPT !.created = @ \cup S]

\* A file that the task or the session itself created leaves no trace.
Forgotten(record, f) == [record EXCEPT !.changed = @ \ {f}, !.created = @ \ {f}]

Deleted(record, f) == [record EXCEPT !.changed = @ \cup {f}, !.deleted = @ \cup {f}]

\* Mutated: any file the session changed is forgotten.
ForgetChanged(f) ==
  IF f \in session.changed THEN Forgotten(session, f) ELSE Deleted(session, f)

SessionAfterDelete(f) ==
  IF f \in task.created \cup session.created THEN Forgotten(session, f)
                                             ELSE Deleted(session, f)

TaskAfterDelete(f) ==
  IF f \in task.created THEN Forgotten(task, f) ELSE Deleted(task, f)

\* The deletion of a file the task created returns before the counter moves.
VersionAfterDelete(f) == IF f \in task.created THEN version ELSE version + 1

\* Files of S changed by somebody who leaves no record of them.
Unseen(S) == Cardinality(history.unseen \cup S) <= MaxUnseen

Touch(S) == [history EXCEPT !.touched = @ \cup S, !.cleaned = @ \ S]

HasTaskMutations == version # start

InTask == status = "running"

\* A call of the current batch, or the first call of a new one.
Call == InTask /\ batch' = TRUE /\ UNCHANGED <<status, start, repairs, tasks, missed>>

Room(n) == version + n <= MaxVersion

-----------------------------------------------------------------------------
(* The file tools.                                                         *)

WriteNew(f) ==
  /\ Call /\ Room(1)
  /\ disk[f] = "absent"
  /\ disk' = [disk EXCEPT ![f] = "new"]
  /\ session' = Created(session, {f}) /\ task' = Created(task, {f})
  /\ version' = version + 1 /\ failure' = FALSE
  /\ history' = [Touch({f}) EXCEPT
                   !.restored = IF f \in Existing THEN @ \cup {f} ELSE @]
  /\ UNCHANGED test

\* write_file over a known file, or edit_file.
Rewrite(f) ==
  /\ Call /\ Room(1)
  /\ disk[f] # "absent"
  /\ disk' = [disk EXCEPT ![f] = "new"]
  /\ session' = Changed(session, {f}) /\ task' = Changed(task, {f})
  /\ version' = version + 1 /\ failure' = FALSE
  /\ history' = Touch({f})
  /\ UNCHANGED test

\* The text is already what the call asks for.
WriteUnchanged(f) ==
  /\ Call
  /\ disk[f] # "absent"
  /\ failure' = FALSE
  /\ UNCHANGED <<version, session, task, test, disk, history>>

DeleteFile(f) ==
  /\ Call /\ Room(1)
  /\ disk[f] # "absent"
  /\ disk' = [disk EXCEPT ![f] = "absent"]
  /\ session' = SessionAfterDelete(f) /\ task' = TaskAfterDelete(f)
  /\ version' = VersionAfterDelete(f) /\ failure' = FALSE
  /\ history' = IF f \in task.created
                THEN [Touch({f}) EXCEPT !.cleaned = @ \cup {f}]
                ELSE [Touch({f}) EXCEPT !.dropped = @ \cup {f}]
  /\ UNCHANGED test

\* A file tool that ran and refused: no snapshot, a stale one, text not found,
\* a write error before the file is replaced.
MutationFails ==
  /\ Call
  /\ failure' = TRUE
  /\ UNCHANGED <<version, session, task, test, disk, history>>

\* The write itself raises: the file is there, or cut short, and not recorded.
FailsHalfway(f) ==
  /\ Call /\ Unseen({f})
  /\ disk' = [disk EXCEPT ![f] = "new"]
  /\ failure' = TRUE
  /\ history' = [Touch({f}) EXCEPT !.unseen = @ \cup {f}]
  /\ UNCHANGED <<version, session, task, test>>

-----------------------------------------------------------------------------
(* Bash.                                                                   *)

\* The paths recorded for a command that writes to targets.
BashPaths(targets, ok) == IF ok THEN targets ELSE {f \in targets : disk'[f] # "absent"}

RecordBashWrite(targets, ok) ==
  LET paths == BashPaths(targets, ok)
      n == IF paths = {} THEN 1 ELSE Cardinality(paths)
  IN /\ Room(n)
     /\ version' = version + n
     /\ session' = Changed(session, paths) /\ task' = Changed(task, paths)

\* A command that is known to write, with the targets found in its text: it
\* writes some of them, or files it does not name.
BashWrite(targets, written, ok) ==
  /\ Call
  /\ targets # {} => written \subseteq targets
  /\ Unseen(written \ targets)
  /\ disk' = [f \in Files |-> IF f \in written THEN "new" ELSE disk[f]]
  /\ RecordBashWrite(targets, ok)
  /\ failure' = ~ok
  /\ history' = [Touch(written) EXCEPT !.unseen = @ \cup (written \ targets)]
  /\ UNCHANGED test

\* The same command while Bash is hidden, or with invalid arguments: it does
\* not run and passes the hooks all the same.
RefusedBashWrite(targets) ==
  /\ Call
  /\ UNCHANGED disk
  /\ RecordBashWrite(targets, FALSE)
  /\ UNCHANGED <<failure, test, history>>

\* A command that changes a file and is not known to write.
UnseenWrite(f, content) ==
  /\ Call /\ Unseen({f})
  /\ disk' = [disk EXCEPT ![f] = content]
  /\ history' = [Touch({f}) EXCEPT !.unseen = @ \cup {f}]
  /\ UNCHANGED <<version, session, task, failure, test>>

\* A test command, or one whose purpose is to verify, which reports the
\* result of the check itself and is no mere search.
Verify(ok) ==
  /\ Call
  /\ test' = [ok |-> ok, version |-> version, injected |-> FALSE]
  /\ history' = [history EXCEPT !.touched = {}, !.cleaned = {}]
  /\ UNCHANGED <<version, session, task, failure, disk>>

\* Any other call: reads, launchers, probes, searches, refusals.
OtherCall == Call /\ UNCHANGED <<version, session, task, failure, test, disk, history>>

-----------------------------------------------------------------------------
(* The end of a batch, of a task, and the next task.                       *)

\* Mutated: one attempt too few, and one too many.
InjectTooFew == test # NoTest /\ ~test.ok /\ ~test.injected /\ repairs + 1 < MaxRepairs
InjectTooMany == test # NoTest /\ ~test.ok /\ ~test.injected /\ repairs <= MaxRepairs

ShouldInjectRetry ==
  /\ test # NoTest
  /\ ~test.ok /\ ~test.injected
  /\ repairs < MaxRepairs

EndBatch ==
  /\ InTask /\ batch
  /\ batch' = FALSE /\ missed' = FALSE
  /\ IF ShouldInjectRetry
     THEN repairs' = repairs + 1 /\ test' = [test EXCEPT !.injected = TRUE]
     ELSE UNCHANGED <<repairs, test>>
  /\ UNCHANGED <<status, version, start, session, task, failure, tasks, disk, history>>

\* A plan goes to the user with this batch, or the model is asked again to
\* resolve the user's answer: the recovery policy is asked after the next one.
EndBatchForPlan ==
  /\ InTask /\ batch
  /\ batch' = FALSE /\ missed' = ShouldInjectRetry
  /\ UNCHANGED <<status, recorded, repairs, tasks, disk, history>>

\* Mutated: the verification may be older than a mutation.
InferAnySuccess(text) ==
  ~failure /\ IF test # NoTest THEN test.ok ELSE ~HasTaskMutations /\ text

InferSuccess(text) ==
  /\ ~failure
  /\ IF test # NoTest THEN test.ok /\ (HasTaskMutations => test.version = version)
                      ELSE ~HasTaskMutations /\ text

Final(text) ==
  /\ InTask /\ ~batch
  /\ status' = IF InferSuccess(text) THEN "completed" ELSE "failed"
  /\ missed' = FALSE
  /\ UNCHANGED <<batch, recorded, repairs, tasks, disk, history>>

\* A limit, an error, a stalled model, a final denial, Ctrl+C between calls.
Stop ==
  /\ InTask
  /\ status' \in {"failed", "cancelled"} /\ batch' = FALSE /\ missed' = FALSE
  /\ UNCHANGED <<recorded, repairs, tasks, disk, history>>

\* Ctrl+C after a tool has changed a file and before it has said so.
InterruptedCall(f, content) ==
  /\ InTask /\ Unseen({f})
  /\ status' = "cancelled" /\ batch' = FALSE
  /\ disk' = [disk EXCEPT ![f] = content]
  /\ history' = [Touch({f}) EXCEPT !.unseen = @ \cup {f}]
  /\ missed' = FALSE
  /\ UNCHANGED <<recorded, repairs, tasks>>

\* Mutated: the files of the previous task stay.
ResetEvidence ==
  start' = version /\ failure' = FALSE /\ test' = NoTest /\ repairs' = 0 /\ UNCHANGED task

ResetTaskState ==
  /\ start' = version /\ failure' = FALSE /\ test' = NoTest /\ repairs' = 0
  /\ task' = EmptyRecord

BeginTask ==
  /\ status \in Terminal \cup {"idle"} /\ tasks < MaxTasks
  /\ status' = "running" /\ tasks' = tasks + 1
  /\ ResetTaskState
  /\ history' = FreshHistory(history.restored, history.unseen, Present)
  /\ missed' = FALSE
  /\ UNCHANGED <<batch, version, session, disk>>

\* The user types no further task.
SessionOver == status \in Terminal /\ tasks = MaxTasks /\ UNCHANGED vars

Next ==
  \/ \E f \in Files : \/ WriteNew(f) \/ Rewrite(f) \/ WriteUnchanged(f) \/ DeleteFile(f)
                      \/ FailsHalfway(f)
                      \/ \E content \in {"absent", "new"} :
                            UnseenWrite(f, content) \/ InterruptedCall(f, content)
  \/ MutationFails
  \/ \E targets, written \in SUBSET Files, ok \in BOOLEAN : BashWrite(targets, written, ok)
  \/ \E targets \in SUBSET Files : RefusedBashWrite(targets)
  \/ \E ok \in BOOLEAN : Verify(ok)
  \/ OtherCall
  \/ EndBatch \/ EndBatchForPlan
  \/ \E text \in BOOLEAN : Final(text)
  \/ Stop
  \/ BeginTask
  \/ SessionOver

Spec == Init /\ [][Next]_vars

-----------------------------------------------------------------------------
(* Properties.                                                             *)

\* Types of the variables.
TypeOK ==
  /\ status \in Terminal \cup {"idle", "running"}
  /\ batch \in BOOLEAN
  /\ version \in Nat /\ start \in 0..version
  /\ session \in Record /\ task \in Record
  /\ failure \in BOOLEAN
  /\ test \in Test
  /\ repairs \in 0..MaxRepairs
  /\ tasks \in Nat
  /\ disk \in [Files -> Content]
  /\ history \in History /\ missed \in BOOLEAN

\* A task is completed only if every file it is known to have changed was
\* last changed before a verification that passed: the later ones are files
\* of its own that it deleted, and changes nobody could see.
CompletedIsVerified ==
  status = "completed" =>
    /\ history.touched \subseteq history.cleaned \cup history.unseen
    /\ HasTaskMutations => test # NoTest /\ test.ok

\* A file that differs from what it was when the session began is among the
\* changed files, unless it was deleted and written anew or nobody saw it.
ChangesAreTracked ==
  \A f \in Files \ (history.unseen \cup history.restored) :
    disk[f] # Base[f] => f \in session.changed

\* A file the task may delete without asking, because it created it, was not
\* there when the task began, or the task deleted it with approval first.
CleanupIsOwn == task.created \cap history.present
                  \subseteq history.dropped \cup history.unseen

\* The six sets are well typed and agree with each other and with the files:
\* created files are changed files of task and session and no deleted ones, what
\* is listed as deleted is gone, and what the task may clean up is its own.
RecordsAgree ==
  /\ TypeOK
  /\ task.created \subseteq task.changed \cap session.created
  /\ session.created \subseteq session.changed
  /\ task.deleted \subseteq task.changed
  /\ session.deleted \subseteq session.changed
  /\ session.created \cap session.deleted = {}
  /\ \A f \in session.deleted \cup task.deleted :
       disk[f] = "absent" \/ f \in history.unseen
  /\ CleanupIsOwn

\* A verification that failed is put before the model at the end of the batch
\* it failed in, or of a later one if the plan comes between, as long as
\* attempts at repair remain.
FailureIsAnnounced ==
  InTask /\ ~batch /\ ~missed /\ test # NoTest =>
    test.ok \/ test.injected \/ repairs = MaxRepairs
=============================================================================
