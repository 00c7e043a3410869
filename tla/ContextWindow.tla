---------------------------- MODULE ContextWindow ----------------------------
(***************************************************************************)
(* The conversation of a session as the provider is sent it, the audit     *)
(* history behind it, and the rebases that replace the one and never the   *)
(* other.  The loop that appends to both is cut down to what it appends    *)
(* and when; a message is its kind, its size in tokens and the tool calls  *)
(* it makes or answers.  The system prompt and the tools are taken off the *)
(* limits.  torn, executed, overflowed and refused are not the program's.  *)
(***************************************************************************)
EXTENDS ToolAdmission, FiniteSets

CONSTANTS
  AutoTrigger,      \* auto_compact_trigger_tokens
  HardLimit,        \* hard_input_limit_tokens
  Ceiling,          \* context_post_rebase_ceiling_tokens
  RecentRaw,        \* context_recent_raw_tokens
  SemanticReserve,  \* of the ceiling, what a checkpoint may need
  EmergencyReserve, \* the same for an emergency
  MaxRecoveries,    \* max_context_recovery_attempts
  MaxTurns,         \* max_turns
  None,             \* there is no value
  Sizes,            \* the sizes of checkpoints
  ToolRounds,       \* the results of tool calls before they are admitted
  Inputs,           \* the input and output the provider reports
  BatchSizes,       \* tool calls of a response
  MaxTasks,         \* bounds of the model: tasks of the session
  MaxItems          \* items of the audit history

ASSUME LimitsAssumption ==
  /\ AutoTrigger \in Nat /\ HardLimit \in Nat /\ AutoTrigger <= HardLimit
  /\ Ceiling \in Nat /\ RecentRaw \in Nat /\ ToolRounds \subseteq Rounds
  /\ SemanticReserve \in Nat /\ EmergencyReserve \in Nat
  /\ MaxRecoveries \in Nat /\ MaxTurns \in Nat \ {0}
  /\ Sizes \subseteq Nat \ {0} /\ Inputs \subseteq Nat /\ BatchSizes \subseteq Nat \ {0}
\* None is not a batch in hand.
ASSUME NoneAssumption ==
  None \notin [ids : SUBSET (Nat \X Nat), left : SUBSET (Nat \X Nat), ends : BOOLEAN]

VARIABLES
  messages,   \* what is sent, with message_audit_ordinals
  audit,      \* conversation_messages, each with the epoch it was appended in
  starts,     \* history_window_starts
  generation, \* context_generation
  usage,      \* last_model_usage and where it was reported, or None
  failedGeneration, \* last_auto_compaction_failed_generation
  recoveries, \* context_recovery_attempts
  calls,      \* task_model_calls
  turn,       \* turn_count
  task,       \* task_sequence
  pc,         \* where run_until_idle is, or how it was left
  batch,      \* the tool calls of the response in hand, or None
  torn,       \* did Ctrl+C leave a call in messages without its result?
  executed,   \* the tool calls that ran in this task
  overflowed, \* the size of the request that was too large, until the next answer
  refused     \* automatic rebases that failed in this generation

window == <<messages, audit, starts, generation, usage>>
task_state == <<recoveries, calls, turn, task>>
ghosts == <<torn, executed, overflowed, refused>>
vars == <<window, failedGeneration, task_state, pc, batch, ghosts>>

Larger(a, b) == IF a > b THEN a ELSE b
Smaller(a, b) == IF a < b THEN a ELSE b

Tokens(ms) == FoldLeft(LAMBDA sum, m : sum + m.toks, 0, ms)

-----------------------------------------------------------------------------
(* The conversation and its audit history.                                 *)

Item(kind, toks, ids) == [kind |-> kind, toks |-> toks, ids |-> ids]

\* Mutated: the ordinal is the place in the conversation.
AddMessagesByPlace(items) ==
  /\ Len(audit) + Len(items) <= MaxItems
  /\ messages' = messages \o
       [i \in 1..Len(items) |-> [kind |-> items[i].kind, toks |-> items[i].toks,
          ids |-> items[i].ids, ord |-> Len(messages) + i - 1, handoff |-> {}, ranges |-> {}]]
  /\ audit' = audit \o
       [i \in 1..Len(items) |-> [kind |-> items[i].kind, ids |-> items[i].ids,
          epoch |-> generation]]
  /\ UNCHANGED <<starts, generation>>

\* Each item is appended to both, under its ordinal.
AddMessages(items) ==
  /\ Len(audit) + Len(items) <= MaxItems
  /\ messages' = messages \o
       [i \in 1..Len(items) |-> [kind |-> items[i].kind, toks |-> items[i].toks,
          ids |-> items[i].ids, ord |-> Len(audit) + i - 1, handoff |-> {}, ranges |-> {}]]
  /\ audit' = audit \o
       [i \in 1..Len(items) |-> [kind |-> items[i].kind, ids |-> items[i].ids,
          epoch |-> generation]]
  /\ UNCHANGED <<starts, generation>>

\* Mutated: the new window starts at a place in the conversation.
WindowStartsAtMessages == Append(starts, Len(messages))

NextWindowStarts == Append(starts, Len(audit))

\* A new window of the history; what the provider reported is void.
MarkContextChanged ==
  /\ starts' = NextWindowStarts
  /\ generation' = generation + 1
  /\ usage' = None

WindowEnd(g) == IF g + 1 < Len(starts) THEN starts[g + 2] ELSE Len(audit)

HistoryWindows(ordinal) ==
  {g \in 0..(Len(starts) - 1) : starts[g + 1] <= ordinal /\ ordinal < WindowEnd(g)}

\* An ordinal without a window is left out.
HistoryRanges(ordinals) == {o \in ordinals : HistoryWindows(o) # {}}

-----------------------------------------------------------------------------
(* Measuring.                                                              *)

\* The provider's figure counts while it is about this epoch, and never for
\* less than the estimate that went with it.
Anchor ==
  IF usage = None \/ usage.generation # generation \/ usage.index > Len(messages) THEN 0
  ELSE Larger(usage.input + Tokens(SubSeq(messages, usage.index + 1, Len(messages))),
              Smaller(Tokens(messages), usage.local))

Pressure == Larger(Tokens(messages), Anchor)
HardPressure == Pressure >= HardLimit
AutoPressure == Pressure >= AutoTrigger /\ ~HardPressure

-----------------------------------------------------------------------------
(* A rebase.                                                               *)

\* A round is a response with calls and the results behind it.
RoundStarts(ms) ==
  {i \in 1..Len(ms) : ~(i > 1 /\ ms[i].kind = "results" /\ ms[i - 1].kind = "use")}

\* Mutated: results need not answer all the calls.
CompleteIfAnswered(ms, i) ==
  ms[i].kind = "use" => i < Len(ms)

Complete(ms, i) ==
  /\ ms[i].kind # "results"
  /\ ms[i].kind = "use" =>
       i < Len(ms) /\ ms[i + 1].kind = "results" /\ ms[i + 1].ids = ms[i].ids

ProtocolIsComplete(ms) == \A i \in RoundStarts(ms) : Complete(ms, i)

\* The newest rounds that fit, all of them complete, none the checkpoint: the
\* first message of the longest such tail.
SelectFinalRaw(budget) ==
  LET Tail_(k) == SubSeq(messages, k, Len(messages))
      Fits(k) ==
        /\ Tokens(Tail_(k)) <= budget
        /\ \A i \in {j \in RoundStarts(messages) : j >= k} :
             Complete(messages, i) /\ messages[i].kind # "checkpoint"
  IN Min({Len(messages) + 1} \cup {k \in RoundStarts(messages) : Fits(k)})

RawBudget(reserve) == Larger(0, Smaller(RecentRaw, Ceiling - reserve))

\* Mutated: a round that is not complete is not listed.
RemovedCompleteRounds(first) ==
  {messages[i].ord : i \in {j \in RoundStarts(messages) : j < first /\ Complete(messages, j)}
     \cup {j \in 1..(first - 1) : messages[j].kind = "results"}} \ {None}

RemovedOrdinals(first) == {messages[i].ord : i \in 1..(first - 1)} \ {None}

MeaningfulRemoval(first) == \E i \in 1..(first - 1) : messages[i].kind # "checkpoint"

PreviousHandoff(first) == UNION {messages[i].handoff : i \in 1..(first - 1)}

Checkpoint(toks, handoff, ranges) ==
  [kind |-> "checkpoint", toks |-> toks, ids |-> {}, ord |-> None,
   handoff |-> handoff, ranges |-> ranges]

\* Mutated: the request only has to shrink.
AcceptableIfSmaller(candidate) ==
  Tokens(candidate) < Tokens(messages) /\ ProtocolIsComplete(candidate)

\* Mutated: a candidate that fits need not be smaller.
AcceptableIfFits(candidate) ==
  /\ Tokens(candidate) <= Ceiling /\ Tokens(candidate) < HardLimit
  /\ ProtocolIsComplete(candidate)

Acceptable(candidate) ==
  /\ Tokens(candidate) <= Ceiling
  /\ Tokens(candidate) < Tokens(messages)
  /\ Tokens(candidate) < HardLimit
  /\ ProtocolIsComplete(candidate)

Commit(checkpoint, first) ==
  LET candidate == <<checkpoint>> \o SubSeq(messages, first, Len(messages))
  IN /\ MeaningfulRemoval(first) /\ Acceptable(candidate)
     /\ messages' = candidate /\ UNCHANGED audit
     /\ MarkContextChanged
     /\ torn' = FALSE /\ refused' = 0

\* The provider writes the handoff from the previous one and all that goes.
SemanticRebase ==
  LET first == SelectFinalRaw(RawBudget(SemanticReserve))
  IN \E toks \in Sizes :
       /\ toks <= SemanticReserve
       /\ Commit(Checkpoint(toks, PreviousHandoff(first) \cup RemovedOrdinals(first), {}), first)

\* Without the provider: a fixed text, and the ranges of what goes.
EmergencyRebase ==
  LET first == SelectFinalRaw(RawBudget(EmergencyReserve))
      ranges == HistoryRanges(RemovedOrdinals(first))
  IN \E toks \in Sizes :
       /\ toks <= EmergencyReserve
       /\ Commit(Checkpoint(toks, {}, ranges), first)

-----------------------------------------------------------------------------
(* run_until_idle, from one request to the next.                           *)

Leave(how) == pc' = how /\ batch' = None /\ overflowed' = None

BeginTurn == calls' = calls + 1 /\ turn' = turn + 1 /\ UNCHANGED <<recoveries, task>>

Text == Item("text", 1, {})
User == Item("user", 1, {})
Runtime == Item("runtime", 1, {})
Use(ids) == Item("use", 1, ids)
Results(ids, toks) == Item("results", toks, ids)

\* begin_task and the prompt.  The conversation goes on from task to task.  The
\* prompt of the program ends the session after an abort, another caller of
\* start_task need not.
StartTask ==
  /\ pc = "ended" /\ task < MaxTasks
  /\ task' = task + 1 /\ calls' = 0 /\ recoveries' = 0 /\ executed' = {}
  /\ AddMessages(<<User>>)
  /\ Leave("prepare")
  /\ UNCHANGED <<usage, failedGeneration, turn, torn, refused>>

\* The user answers, or the runtime resumes a task that waits.
ContinueTask ==
  /\ pc = "waiting"
  /\ \E item \in {User, Runtime} : AddMessages(<<item>>)
  /\ Leave("prepare")
  /\ UNCHANGED <<usage, failedGeneration, task_state, torn, executed, refused>>

\* A command cancels the task while it waits.
CancelTask ==
  /\ pc = "waiting" /\ Leave("ended")
  /\ UNCHANGED <<window, failedGeneration, task_state, torn, executed, refused>>

StopForModelCallLimit ==
  /\ pc = "prepare" /\ calls >= MaxTurns
  /\ Leave("ended")
  /\ UNCHANGED <<window, failedGeneration, task_state, torn, executed, refused>>

\* No pressure, or an automatic rebase has failed in this generation.
PrepareNothing ==
  /\ pc = "prepare" /\ calls < MaxTurns
  /\ Pressure < AutoTrigger \/ (AutoPressure /\ failedGeneration = generation)
  /\ BeginTurn /\ pc' = "call"
  /\ UNCHANGED <<window, failedGeneration, batch, ghosts>>

PrepareRebase ==
  /\ pc = "prepare" /\ calls < MaxTurns
  /\ \/ HardPressure /\ (SemanticRebase \/ EmergencyRebase)
     \/ AutoPressure /\ failedGeneration # generation /\ SemanticRebase
  /\ BeginTurn /\ pc' = "call"
  /\ UNCHANGED <<failedGeneration, batch, executed, overflowed>>

\* Mutated: the generation in which it failed is not kept.
RebaseFailsForgotten ==
  /\ pc = "prepare" /\ calls < MaxTurns
  /\ AutoPressure /\ failedGeneration # generation
  /\ refused' = refused + 1
  /\ BeginTurn /\ pc' = "call"
  /\ UNCHANGED <<window, failedGeneration, batch, torn, executed, overflowed>>

\* Below the hard limit the request is sent as it is, after one attempt.
RebaseFails ==
  /\ pc = "prepare" /\ calls < MaxTurns
  /\ AutoPressure /\ failedGeneration # generation
  /\ failedGeneration' = generation /\ refused' = refused + 1
  /\ BeginTurn /\ pc' = "call"
  /\ UNCHANGED <<window, batch, torn, executed, overflowed>>

\* Neither rebase has a candidate that fits.
StopForContextPressure ==
  /\ pc = "prepare" /\ calls < MaxTurns
  /\ HardPressure
  /\ BeginTurn /\ Leave("ended")
  /\ UNCHANGED <<window, failedGeneration, torn, executed, refused>>

\* Mutated: a failed recovery sends the same request again.
RecoverOrRetry ==
  /\ pc = "call" /\ recoveries < MaxRecoveries
  /\ recoveries' = recoveries + 1 /\ overflowed' = Tokens(messages)
  /\ SemanticRebase \/ EmergencyRebase \/ UNCHANGED <<window, torn, refused>>
  /\ pc' = "prepare"
  /\ UNCHANGED <<failedGeneration, calls, turn, task, batch, executed>>

\* The provider finds the request too large: it is sent again after a rebase.
RecoverFromOverflow ==
  /\ pc = "call" /\ recoveries < MaxRecoveries
  /\ recoveries' = recoveries + 1 /\ overflowed' = Tokens(messages)
  /\ SemanticRebase \/ EmergencyRebase
  /\ pc' = "prepare"
  /\ UNCHANGED <<failedGeneration, calls, turn, task, batch, executed>>

StopForContextOverflow ==
  /\ pc = "call" /\ Leave("ended")
  /\ recoveries' = Smaller(recoveries + 1, MaxRecoveries)
  /\ UNCHANGED <<window, failedGeneration, calls, turn, task, torn, executed, refused>>

\* What the provider says it counted, with the place of its response.
RecordModelUsage ==
  \E input \in Inputs :
    usage' = [input |-> input, index |-> Len(messages) + 1, generation |-> generation,
              local |-> Tokens(messages)]

Batch == UNION {{{turn} \X (1..n)} : n \in BatchSizes}

\* Runtime messages behind a response lead to the next request.
Reminders == {<<>>, <<Runtime>>, <<Runtime, Runtime>>}

\* A final text, or calls that are refused as a whole and get cancelled
\* results.
AnswerWithoutTools ==
  /\ pc = "call"
  /\ \E response \in {<<Text>>} \cup {<<Use(ids), Results(ids, 1)>> : ids \in Batch},
        reminder \in {<<>>, <<Runtime>>} :
       /\ AddMessages(response \o reminder)
       /\ \/ reminder # <<>> /\ Leave("prepare")
          \/ reminder = <<>> /\ (Leave("ended") \/ Leave("waiting"))
  /\ RecordModelUsage
  /\ UNCHANGED <<failedGeneration, task_state, torn, executed, refused>>

\* The calls of a response are run before the response is kept.
StartToolBatch ==
  /\ pc = "call"
  /\ \E ids \in Batch : batch' = [ids |-> ids, left |-> ids, ends |-> FALSE]
  /\ pc' = "tools" /\ overflowed' = None
  /\ UNCHANGED <<window, failedGeneration, task_state, torn, executed, refused>>

\* One after another; one that ends the task or changes the phase of the plan
\* has the rest cancelled.
ExecuteTool ==
  /\ pc = "tools" /\ batch.left # {}
  /\ LET id == CHOOSE x \in batch.left : \A y \in batch.left : x[2] <= y[2]
     IN /\ executed' = executed \cup {id}
        /\ \/ batch' = [batch EXCEPT !.left = @ \ {id}]
           \/ \E ends \in BOOLEAN : batch' = [batch EXCEPT !.left = {}, !.ends = ends]
  /\ UNCHANGED <<window, failedGeneration, task_state, pc, torn, overflowed, refused>>

\* What the tools of the batch may have returned.
Returned == {round \in ToolRounds : Len(round) = Cardinality(batch.ids)}

\* The results are cut to the limit of the round, then the whole round is kept.
AdmitToolRound ==
  /\ pc = "tools" /\ batch.left = {}
  /\ \E shaped \in {AdmitToolResults(round) : round \in Returned}, reminders \in Reminders :
       /\ shaped.admitted
       /\ AddMessages(<<Use(batch.ids), Results(batch.ids, Total(shaped.sizes))>> \o reminders)
       /\ \/ ~batch.ends /\ Leave("prepare")
          \/ reminders = <<>> /\ (Leave("ended") \/ (~batch.ends /\ Leave("waiting")))
  /\ RecordModelUsage
  /\ UNCHANGED <<failedGeneration, task_state, torn, executed, refused>>

\* A round that cannot be cut to the limit ends the task, its tools having run.
RefuseToolRound ==
  /\ pc = "tools" /\ batch.left = {}
  /\ \E round \in Returned : ~AdmitToolResults(round).admitted
  /\ Leave("ended")
  /\ UNCHANGED <<window, failedGeneration, task_state, torn, executed, refused>>

\* Mutated: the loop goes on after a round that was not kept.
AbortAndContinue ==
  /\ pc \in {"prepare", "call", "tools"} /\ Leave("prepare")
  /\ UNCHANGED <<window, failedGeneration, task_state, torn, executed, refused>>

\* The provider fails, or Ctrl+C: nothing of the response is kept, and the task
\* is over.
Abort ==
  /\ pc \in {"prepare", "call", "tools"} /\ Leave("ended")
  /\ UNCHANGED <<window, failedGeneration, task_state, torn, executed, refused>>

\* Ctrl+C between the response and its results.
AbortBetweenMessages ==
  /\ pc = "call" \/ (pc = "tools" /\ batch.left = {})
  /\ \E ids \in Batch : AddMessages(<<Use(IF batch = None THEN ids ELSE batch.ids)>>)
  /\ usage' \in {usage} \cup {[input |-> input, index |-> Len(messages) + 1,
       generation |-> generation, local |-> Tokens(messages)] : input \in Inputs}
  /\ torn' = TRUE /\ Leave("ended")
  /\ UNCHANGED <<failedGeneration, task_state, executed, refused>>

Init ==
  /\ messages = <<>> /\ audit = <<>> /\ starts = <<0>> /\ generation = 0
  /\ usage = None /\ failedGeneration = None
  /\ recoveries = 0 /\ calls = 0 /\ turn = 0 /\ task = 0
  /\ pc = "ended" /\ batch = None
  /\ torn = FALSE /\ executed = {} /\ overflowed = None /\ refused = 0

Next ==
  \/ StartTask \/ ContinueTask \/ CancelTask \/ StopForModelCallLimit
  \/ PrepareNothing \/ PrepareRebase \/ RebaseFails \/ StopForContextPressure
  \/ RecoverFromOverflow \/ StopForContextOverflow
  \/ AnswerWithoutTools \/ StartToolBatch \/ ExecuteTool \/ AdmitToolRound \/ RefuseToolRound
  \/ Abort \/ AbortBetweenMessages

Spec == Init /\ [][Next]_vars

-----------------------------------------------------------------------------
(* Properties.                                                             *)

\* Types, and every message other than a checkpoint is the audit item of its
\* ordinal, in the order of the history.
TypeOK ==
  /\ generation = Len(starts) - 1
  /\ pc \in {"ended", "waiting", "prepare", "call", "tools"}
  /\ pc = "tools" <=> batch # None
  /\ calls \in 0..MaxTurns /\ recoveries \in 0..MaxRecoveries
  /\ failedGeneration = None \/ failedGeneration \in 0..generation
  /\ \A i \in DOMAIN messages :
       LET m == messages[i]
       IN /\ m.kind = "checkpoint" => i = 1 /\ m.ord = None
          /\ m.kind # "checkpoint" =>
               /\ m.ord \in 0..(Len(audit) - 1)
               /\ audit[m.ord + 1].kind = m.kind /\ audit[m.ord + 1].ids = m.ids
               /\ \A j \in 1..(i - 1) : messages[j].ord = None \/ messages[j].ord < m.ord

Paired(ms) ==
  \A i \in DOMAIN ms :
    /\ ms[i].kind = "use" =>
         i < Len(ms) /\ ms[i + 1].kind = "results" /\ ms[i + 1].ids = ms[i].ids
    /\ ms[i].kind = "results" => i > 1 /\ ms[i - 1].kind = "use"

\* What is sent never has a call without its result, or a result without its
\* call; after Ctrl+C has split a round it does, until the next rebase.
PairedUnlessTorn == pc = "call" /\ ~torn => Paired(messages)

\* No request is sent that is known to be too large.
SentFits == pc = "call" => Pressure < HardLimit

\* A request that was too large is not sent again before it is smaller.
RetryIsSmaller == pc = "call" /\ overflowed # None => Tokens(messages) < overflowed

\* The provider learns of every tool that ran in the task: no request follows a
\* tool whose result is not in the history.
RanIsReported ==
  pc = "call" =>
    executed \subseteq UNION {audit[i].ids : i \in {j \in DOMAIN audit : audit[j].kind = "results"}}

\* Whatever the tools of a batch return, the round is refused, and the task
\* ended with it, only if the results at their least exceed the limit.
RefusedOnlyIfItMust == pc = "tools" => RefusesOnlyIfItMust

\* A slice of a source gives way only when every output of the other tools is
\* down to its least.
SourcesGiveWayLast == pc = "tools" => CutsSourcesLast

\* No result grows, and a round that fits is left alone.
NothingIsCutNeedlessly == pc = "tools" => CutsNothingNeedlessly

\* The windows that the history tools list divide the audit history as the
\* rebases did.
ItemsAreInTheirWindow ==
  \A o \in 0..(Len(audit) - 1) : HistoryWindows(o) = {audit[o + 1].epoch}

\* An automatic rebase that fails is not tried again in its generation.
OneAutomaticFailure == refused <= 1

\* The conversation grows at its end, or a rebase makes it smaller and begins a
\* generation; the audit history only grows.
EpochIsAppendOnly ==
  [][/\ IsPrefix(audit, audit')
     /\ \/ generation' = generation /\ IsPrefix(messages, messages')
        \/ generation' = generation + 1 /\ Tokens(messages') < Tokens(messages)]_vars

Ordinals(ms) == {ms[i].ord : i \in DOMAIN ms} \ {None}

\* Every message that a rebase removes is in the handoff of the new checkpoint
\* or in the ranges it lists.
RemovedIsCovered ==
  [][generation' # generation =>
       Ordinals(messages) \ Ordinals(messages') \subseteq
         messages'[1].handoff \cup messages'[1].ranges]_vars

\* Whatever was ever appended is found again: the messages are the audit items
\* of their ordinals, and each item is in the window it was appended in.
HistoryIsWhole == TypeOK /\ ItemsAreInTheirWindow

\* A request has every result: of each call it contains, and of each tool that
\* ran in the task.
SentIsWhole == PairedUnlessTorn /\ RanIsReported

\* A request is of a size that can be answered: no hard pressure, smaller after
\* an overflow, and no second attempt at an automatic rebase that failed.
SentIsSmallEnough == SentFits /\ RetryIsSmaller /\ OneAutomaticFailure

\* Any round of results is refused, cut or left alone as it should.
RoundsAreCutWell == RefusedOnlyIfItMust /\ SourcesGiveWayLast /\ NothingIsCutNeedlessly
=============================================================================
