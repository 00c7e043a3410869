----------------------------- MODULE PlanAuthority -----------------------------
(***************************************************************************)
(* What the planning controls promise about one task after another,        *)
(* without prompts, turns, batches or snapshots:                           *)
(*   - work with side effects is done only while the task needs no plan or *)
(*     while a draft is granted;                                           *)
(*   - under manual approval a draft is granted only when it is the one    *)
(*     the user has seen, and without one only when it was submitted;      *)
(*   - a draft that is under review or granted does not change: to change  *)
(*     it, the task goes back to drafting and gets a newer version;        *)
(*   - a task completes only if it has no plan or has finished it.         *)
(***************************************************************************)
EXTENDS Naturals

CONSTANTS Outline, EmptyOutline, None

VARIABLES
  stage,   \* where the task stands
  draft,   \* the numbered list of steps
  seen,    \* the draft last put before the user in this task
  manual,  \* does the user approve drafts?
  work     \* flips with every side effect

vars == <<stage, draft, seen, manual, work>>

Active == {"free", "deciding", "drafting", "review", "granted", "finished"}

Drafts == [version : Nat, outline : Outline]
NoDraft == [version |-> 0, outline |-> EmptyOutline]

Init == /\ stage = "none" /\ draft = NoDraft /\ seen = None
        /\ manual \in BOOLEAN /\ work = FALSE

Begin == /\ stage \notin Active
         /\ stage' \in {"free", "deciding", "drafting"}
         /\ draft' = NoDraft /\ seen' = None /\ manual' \in BOOLEAN
         /\ UNCHANGED work

Decide == /\ stage = "deciding"
          /\ stage' \in {"free", "drafting"}
          /\ UNCHANGED <<draft, seen, manual, work>>

Newer == draft' \in Drafts /\ draft'.version > draft.version

Redraft == /\ stage = "drafting"
           /\ Newer
           /\ UNCHANGED <<stage, seen, manual, work>>

Submit == /\ stage = "drafting"
          /\ stage' = IF manual THEN "review" ELSE "granted"
          /\ Newer \/ UNCHANGED draft
          /\ draft'.outline # EmptyOutline
          /\ UNCHANGED <<seen, manual, work>>

Present == /\ stage = "review"
           /\ seen' = draft
           /\ UNCHANGED <<stage, draft, manual, work>>

Grant == /\ stage = "review" /\ seen = draft
         /\ stage' = "granted"
         /\ UNCHANGED <<draft, seen, manual, work>>

Reopen == /\ stage \in {"review", "granted"}
          /\ stage' = "drafting"
          /\ Newer /\ draft'.outline = draft.outline
          /\ UNCHANGED <<seen, manual, work>>

Work == /\ stage \in {"free", "granted"}
        /\ work' = ~work
        /\ UNCHANGED <<stage, draft, seen, manual>>

FinishPlan == /\ stage = "granted"
              /\ stage' = "finished"
              /\ UNCHANGED <<draft, seen, manual, work>>

Complete == /\ stage \in {"free", "deciding", "finished"}
            /\ stage' = "completed"
            /\ UNCHANGED <<draft, seen, manual, work>>

Abandon == /\ stage \in Active
           /\ stage' = "stopped"
           /\ UNCHANGED <<draft, seen, manual, work>>

Next == \/ Begin \/ Decide \/ Redraft \/ Submit \/ Present \/ Grant \/ Reopen
        \/ Work \/ FinishPlan \/ Complete \/ Abandon

Spec == Init /\ [][Next]_vars
=============================================================================
