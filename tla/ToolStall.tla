------------------------------- MODULE ToolStall -------------------------------
(***************************************************************************)
(* ToolProgressPolicy: after a batch of tool calls it decides whether      *)
(* the task goes on, goes on with a warning to the model, or stops because *)
(* the model repeats calls that can only fail, or fills its output budget  *)
(* with them.  One step is one batch, or the next task.  The loop does not *)
(* ask the policy about batches that end the task or that it answers with  *)
(* another request to resolve a plan response.                             *)
(*                                                                         *)
(* The variable streak is not the program's: it lists the failing batches  *)
(* since the last batch without such a failure, so that the counters can   *)
(* be compared with what they count.                                       *)
(***************************************************************************)
EXTENDS Naturals, Sequences, FiniteSets

CONSTANTS
  Calls,     \* tool calls: a tool with its arguments
  None,      \* no fingerprint
  MaxBatch,  \* bound of the model: calls in a batch
  MaxStreak  \* bound of the model: failing batches in a row

ASSUME NoneAssumption == None \notin Seq(Calls \X {"contract"})
ASSUME BatchAssumption == MaxBatch \in Nat \ {0} /\ MaxStreak \in Nat

VARIABLES
  fingerprint,  \* task_failure_fingerprint
  repeats,      \* task_failure_repeat_count
  saturations,  \* task_saturated_invalid_calls
  action,       \* what the policy said last: ProgressDecision.action
  warned,       \* was the model warned in this streak?
  streak

stallVars == <<fingerprint, repeats, saturations, action, warned, streak>>

\* A call succeeds, fails in its own right, or breaks a contract of the
\* runtime: invalid arguments, an unknown tool, one that is not offered now.
Outcome == {"ok", "failed", "contract"}

Batch == UNION {[1..n -> Calls \X Outcome] : n \in 1..MaxBatch}

IsDeterministic(execution) == execution[2] = "contract"

\* The calls of a batch that break a contract, in their order.
DeterministicFailures(calls) ==
  LET among[n \in 0..Len(calls)] ==
        IF n = 0 THEN <<>>
        ELSE IF IsDeterministic(calls[n]) THEN Append(among[n - 1], calls[n])
        ELSE among[n - 1]
  IN among[Len(calls)]

StallInit ==
  /\ fingerprint = None /\ repeats = 0 /\ saturations = 0
  /\ action = "continue" /\ warned = FALSE /\ streak = <<>>

ResetFailures ==
  /\ fingerprint' = None /\ repeats' = 0 /\ saturations' = 0
  /\ action' = "continue" /\ warned' = FALSE /\ streak' = <<>>

\* Mutated: it goes on counting when the failure is another.
CountAll(failures) == repeats + 1

CountRepeats(failures) == IF failures = fingerprint THEN repeats + 1 ELSE 1

\* Mutated: the second repetition is not answered.
DecisionUnwarned(count, saturated, total) ==
  IF count >= 3 \/ total >= 3 \/ (saturated /\ count >= 2) THEN "stop"
  ELSE IF saturated THEN "retry" ELSE "continue"

\* Mutated: a batch too late.
DecisionTooLate(count, saturated, total) ==
  IF count > 3 \/ total > 3 \/ (saturated /\ count > 2) THEN "stop"
  ELSE IF saturated \/ count = 2 THEN "retry" ELSE "continue"

Decision(count, saturated, total) ==
  IF count >= 3 \/ total >= 3 \/ (saturated /\ count >= 2) THEN "stop"
  ELSE IF saturated \/ count = 2 THEN "retry" ELSE "continue"

Fail(failures, saturated) ==
  LET count == CountRepeats(failures)
      total == saturations + (IF saturated THEN 1 ELSE 0)
  IN /\ fingerprint' = failures
     /\ repeats' = count
     /\ saturations' = total
     /\ action' = Decision(count, saturated, total)
     /\ warned' = (warned \/ action' = "retry")
     /\ streak' = Append(streak, [failures |-> failures, saturated |-> saturated])

Evaluate(calls, saturated) ==
  /\ action # "stop"
  /\ IF DeterministicFailures(calls) = <<>>
     THEN ResetFailures
     ELSE Len(streak) < MaxStreak /\ Fail(DeterministicFailures(calls), saturated)

\* A stopped task has failed, any other may end: the next one starts afresh.
NextTask == ResetFailures

StallNext ==
  \/ \E calls \in Batch, saturated \in BOOLEAN : Evaluate(calls, saturated)
  \/ NextTask

StallSpec == StallInit /\ [][StallNext]_stallVars

-----------------------------------------------------------------------------
(* Properties.                                                             *)

\* Types, and the bounds of the counters.
CountersTyped ==
  /\ fingerprint \in {None} \cup UNION {[1..n -> Calls \X {"contract"}] : n \in 1..MaxBatch}
  /\ repeats \in 0..3 /\ saturations \in 0..3
  /\ action \in {"continue", "retry", "stop"}
  /\ warned \in BOOLEAN
  /\ fingerprint = None <=> repeats = 0

LastAreSame(n) ==
  /\ Len(streak) >= n
  /\ \A i \in (Len(streak) - n + 1)..Len(streak) :
       streak[i].failures = streak[Len(streak)].failures

Stalled == \/ LastAreSame(3)
           \/ LastAreSame(2) /\ streak[Len(streak)].saturated
           \/ Cardinality({i \in DOMAIN streak : streak[i].saturated}) >= 3

\* The policy stops a task exactly when the batches themselves show a stall:
\* the same failures three times in a row, twice with a full budget the second
\* time, or a full budget three times in a streak of failing batches.  Its counters
\* stay within their bounds.
StopsExactlyWhenStalled == CountersTyped /\ (action = "stop" <=> Stalled)

\* A stopped task was warned in the same streak, unless the first repetition
\* came with a full budget after a failure without one.
StopFollowsWarning ==
  action = "stop" => warned \/ (repeats = 2 /\ streak[Len(streak)].saturated)
=============================================================================
