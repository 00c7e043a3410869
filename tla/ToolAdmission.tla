----------------------------- MODULE ToolAdmission -----------------------------
(***************************************************************************)
(* admit_tool_results: how the results of one round of tool calls are cut  *)
(* down to max_tool_round_tokens before they enter the conversation.  A    *)
(* result is what it may shrink to: a result that can be kept as an        *)
(* artifact to a preview, then to a stub; a slice of a source file to a    *)
(* stub only.                                                              *)
(***************************************************************************)
EXTENDS Integers, SequencesExt

CONSTANTS
  RoundLimit, \* max_tool_round_tokens
  MaxSize,    \* bounds of the model: tokens of a result
  MaxResults, \* results of a round
  Preview,    \* the size of a preview
  Stub,       \* of a stub of an artifact
  SourceStub  \* of a stub of a source slice

ASSUME AdmissionAssumption ==
  /\ RoundLimit \in Nat \ {0} /\ MaxSize \in Nat /\ MaxResults \in Nat
  /\ Stub \in Nat \ {0} /\ SourceStub \in Nat \ {0} /\ Preview \in Nat /\ Stub < Preview

(* What a result is:                                                       *)
(*   source   a slice of read_file, or its error                           *)
(*   notice   what read_file says instead of one; it sorts with the slices *)
(*   output   of any other tool                                            *)
(*   stored   an output that was persisted when the tool returned it       *)
(*   foreign  one that looks persisted and has no artifact                 *)
(* and kept says whether the artifact store takes it.                      *)
Kinds == {"source", "notice", "output", "stored", "foreign"}

ToolResults == {r \in [kind : Kinds, size : 1..MaxSize, kept : BOOLEAN] : r.kind = "stored" => r.kept}

Total(sizes) == FoldLeft(LAMBDA sum, size : sum + size, 0, sizes)

SizesOf(results) == [i \in DOMAIN results |-> results[i].size]

Priority(result) ==
  CASE result.kind \in {"stored", "foreign"} -> 0
    [] result.kind = "output" -> 1
    [] OTHER -> 2

\* Mutated: the largest first, whatever they are.
BySize(round, i, j) ==
  round[i].size > round[j].size \/ (round[i].size = round[j].size /\ i < j)

\* _round_budget_sort_key, and a stable sort.
Before(round, i, j) ==
  \/ Priority(round[i]) < Priority(round[j])
  \/ /\ Priority(round[i]) = Priority(round[j])
     /\ round[i].size > round[j].size \/ (round[i].size = round[j].size /\ i < j)

\* The state of the loop: the sizes so far, the previews among them, and
\* whether a source slice has come up.
Start(round) == [sizes |-> SizesOf(round), previews |-> {}, sources |-> FALSE]

\* The elements of a finite set in the order that op gives.
InOrder(S, op(_, _)) ==
  CHOOSE s \in [1..Cardinality(S) -> S] : \A i, j \in DOMAIN s : i < j => op(s[i], s[j])

RoundFits(s) == Total(s.sizes) <= RoundLimit

\* Mutated: the previews stay.
PreviewsStay(round, s) == s

\* Previews become stubs, one after another until the round fits: the largest
\* first, and of the same size the one that came up first.
MinimizePersistedPreviews(round, s) ==
  LET larger(i, j) ==
        s.sizes[i] > s.sizes[j] \/ (s.sizes[i] = s.sizes[j] /\ Before(round, i, j))
      minimize(t, i) ==
        IF RoundFits(t) THEN t
        ELSE [t EXCEPT !.sizes[i] = Stub, !.previews = @ \ {i}]
  IN FoldLeft(minimize, s, InOrder(s.previews, larger))

\* Mutated: whether or not that is smaller.
ProjectSourceAlways(s, i) == [s EXCEPT !.sizes[i] = SourceStub]

\* A slice goes to its stub when that is smaller.
ProjectSource(s, i) ==
  IF SourceStub < s.sizes[i] THEN [s EXCEPT !.sizes[i] = SourceStub] ELSE s

\* Any other result goes to the artifact store and shows a preview, or a stub
\* when the preview is no smaller; an output that was persisted before has its
\* preview already.
ProjectOutput(round, s, i) ==
  LET shrunk == IF round[i].kind # "stored" /\ Preview < s.sizes[i] THEN Preview ELSE Stub
  IN IF round[i].kind = "foreign" \/ ~round[i].kept \/ Stub >= s.sizes[i] THEN s
     ELSE [s EXCEPT !.sizes[i] = shrunk, !.previews = @ \cup {i}]

Shape(round, s, i) ==
  LET ready == IF round[i].kind = "source" /\ ~s.sources
               THEN [MinimizePersistedPreviews(round, s) EXCEPT !.sources = TRUE] ELSE s
  IN IF RoundFits(s) THEN s
     ELSE IF RoundFits(ready) THEN ready
     ELSE IF round[i].kind = "source" THEN ProjectSource(ready, i)
     ELSE ProjectOutput(round, ready, i)

Shaped(round) ==
  LET shape(s, i) == Shape(round, s, i)
      before(i, j) == Before(round, i, j)
      s == FoldLeft(shape, Start(round), InOrder(DOMAIN round, before))
  IN IF RoundFits(s) THEN s ELSE MinimizePersistedPreviews(round, s)

\* The sizes after admission, and whether the round is admitted at all.
AdmitToolResults(round) ==
  LET s == Shaped(round)
  IN [sizes |-> s.sizes, admitted |-> RoundFits(s)]

Rounds == UNION {[1..n -> ToolResults] : n \in 1..MaxResults}

-----------------------------------------------------------------------------
(* What the algorithm does for every round within the bounds.              *)

\* The least a result can be brought to.
Least(result) ==
  LET stub == CASE result.kind = "source" -> SourceStub
                [] result.kind = "foreign" \/ (result.kind # "source" /\ ~result.kept) -> result.size
                [] OTHER -> Stub
  IN IF stub < result.size THEN stub ELSE result.size

RefusesOnlyIfItMust ==
  \A round \in Rounds :
    ~AdmitToolResults(round).admitted =>
      Total([i \in DOMAIN round |-> Least(round[i])]) > RoundLimit

CutsSourcesLast ==
  \A round \in Rounds :
    LET sizes == AdmitToolResults(round).sizes
    IN (\E i \in DOMAIN round : round[i].kind = "source" /\ sizes[i] # round[i].size) =>
          \A i \in DOMAIN round :
            round[i].kind \in {"output", "stored", "foreign"} => sizes[i] = Least(round[i])

CutsNothingNeedlessly ==
  \A round \in Rounds :
    LET sizes == AdmitToolResults(round).sizes
    IN /\ \A i \in DOMAIN round : sizes[i] <= round[i].size
       /\ Total(SizesOf(round)) <= RoundLimit => sizes = SizesOf(round)
=============================================================================
