------------------------- MODULE PermissionGateProofs -------------------------
(***************************************************************************)
(* The permission gate for all hosts, calls, paths and sequences of        *)
(* answers.                                                                *)
(***************************************************************************)
EXTENDS PermissionGate, WellFoundedInduction, TLAPS

-----------------------------------------------------------------------------
(* The tables.                                                             *)

\* Every set of numbers has a least one.
LEMMA Least ==
  ASSUME NEW S \in SUBSET Nat, S # {}
  PROVE  \E i \in S : \A j \in S : i <= j
<1> DEFINE R == OpToRel(<, Nat)
<1>1. IsWellFoundedOn(R, Nat)
  BY NatLessThanWellFounded
<1>2. \A p \in Nat \X Nat : p[1] < p[2] => p \in R
  BY DEF OpToRel
<1> HIDE DEF R
<1>3. PICK i \in S : \A j \in S : ~(<<j, i>> \in R)
  BY <1>1, WFMin
<1>4. \A j \in S : ~(j < i)
  BY <1>2, <1>3
<1> QED BY <1>3, <1>4

\* A table is left with a row whose condition holds and no condition before it,
\* or with what comes after the table when no condition holds.
LEMMA TableEnds ==
  ASSUME NEW n \in Nat, NEW STATE table, DOMAIN table = 1..n, NEW STATE otherwise
  PROVE  \/ FirstRow(table, otherwise) = otherwise /\ \A i \in 1..n : ~table[i][1]
         \/ \E i \in 1..n : /\ table[i][1] /\ FirstRow(table, otherwise) = table[i][2]
                            /\ \A j \in 1..(i - 1) : ~table[j][1]
<1> DEFINE holding == {i \in DOMAIN table : table[i][1]}
           first == CHOOSE i \in holding : \A j \in holding : i <= j
<1>1. FirstRow(table, otherwise) = IF holding = {} THEN otherwise ELSE table[first][2]
  BY DEF FirstRow
<1>2. holding \in SUBSET Nat
  OBVIOUS
<1>3. ASSUME holding # {}
      PROVE  first \in holding /\ \A j \in holding : first <= j
  BY <1>2, <1>3, Least
<1>4. CASE holding = {}
  <2>1. \A i \in 1..n : ~table[i][1]
    BY <1>4
  <2> QED BY <1>1, <1>4, <2>1
<1>5. CASE holding # {}
  <2>1. first \in 1..n /\ table[first][1]
    BY <1>3, <1>5
  <2>2. \A j \in 1..n : table[j][1] => first <= j
    BY <1>3, <1>5
  <2>3. \A j \in 1..(first - 1) : j \in 1..n /\ ~(first <= j)
    BY <2>1
  <2>4. FirstRow(table, otherwise) = table[first][2]
    BY <1>1, <1>5
  <2> HIDE DEF first
  <2> QED BY <2>1, <2>2, <2>3, <2>4
<1> QED BY <1>4, <1>5

Passes(call, op) ==
  /\ ~(call.tool = "bash" /\ call.purpose = "verify"
         /\ (op.risk.risk \in {"file_write", "file_delete"} \/ "file_write" \in op.risk.effects))
  /\ "structured_tool" \notin op.risk.effects
  /\ op.paths \cap Escaping = {}
  /\ op.scope \notin denied
  /\ ~(Mutation(op) /\ op.mentions \cap NoWrite # {})
  /\ op.mentions \cap NoRead = {}
  /\ ~(op.kind = "fs.read" /\ op.paths \cap NoRead # {})
  /\ ~(Mutation(op) /\ op.paths \cap NoWrite # {})

LEMMA RefusalsDeny ==
  ASSUME NEW call, NEW op, NEW STATE otherwise
  PROVE  \/ FirstRow(Refusals(call, op), otherwise).behavior = "deny"
         \/ FirstRow(Refusals(call, op), otherwise) = otherwise /\ Passes(call, op)
<1> DEFINE table == Refusals(call, op)
<1>1. DOMAIN table = 1..8
  BY DEF Refusals
<1>2. \A i \in 1..8 : table[i][2].behavior = "deny"
  BY DEF Refusals, Deny, Decision
<1>3. ASSUME \A i \in 1..8 : ~table[i][1]
      PROVE  Passes(call, op)
  <2>1. /\ ~table[1][1] /\ ~table[2][1] /\ ~table[3][1] /\ ~table[4][1]
        /\ ~table[5][1] /\ ~table[6][1] /\ ~table[7][1] /\ ~table[8][1]
    BY <1>3
  <2> QED BY <2>1, Zenon DEF Refusals, Passes
<1> HIDE DEF table
<1>4. 8 \in Nat
  OBVIOUS
<1>5. \/ FirstRow(table, otherwise) = otherwise /\ \A i \in 1..8 : ~table[i][1]
      \/ \E i \in 1..8 : /\ table[i][1] /\ FirstRow(table, otherwise) = table[i][2]
                         /\ \A j \in 1..(i - 1) : ~table[j][1]
  BY <1>1, <1>4, TableEnds, Zenon
<1> QED BY <1>2, <1>3, <1>5, Zenon DEF table

\* The rules deny, or ask, or have nothing to say.
LEMMA RulesDecide ==
  ASSUME NEW call, NEW op, NEW STATE otherwise
  PROVE  LET d == FirstRow(RuleRows(call, op), otherwise)
         IN \/ d.behavior = "deny"
            \/ d.behavior = "ask" /\ Match("ask", call.tool, op.scope)
            \/ d = otherwise
<1> DEFINE table == RuleRows(call, op)
<1>1. DOMAIN table = 1..2 /\ 2 \in Nat
  BY DEF RuleRows
<1>2. /\ table[1][2].behavior = "deny" /\ table[2][2].behavior = "ask"
  BY DEF RuleRows, Deny, Ask, Decision
<1>3. table[2][1] => Match("ask", call.tool, op.scope)
  BY Zenon DEF RuleRows
<1> HIDE DEF table
<1>4. \/ FirstRow(table, otherwise) = otherwise /\ \A i \in 1..2 : ~table[i][1]
      \/ \E i \in 1..2 : /\ table[i][1] /\ FirstRow(table, otherwise) = table[i][2]
                         /\ \A j \in 1..(i - 1) : ~table[j][1]
  BY <1>1, TableEnds, Zenon
<1>5. \A i \in 1..2 : i = 1 \/ i = 2
  OBVIOUS
<1> QED BY <1>2, <1>3, <1>4, <1>5, Zenon DEF table

\* What a mode lets through without a question.
Unasked(op) ==
  \/ ReadOnly(op) /\ (config.mode = "manual_approval" => op.kind # "process.exec")
  \/ /\ config.mode = "accept_edits"
     /\ \/ op.kind = "fs.write" /\ "sensitive" \notin op.flags
        \/ op.kind = "fs.delete" /\ AllCreated(op)
        \/ op.risk.risk = "safe_check"
        \/ op.risk.risk = "unknown" /\ config.sandbox

Deleting(op) == op.risk.risk \in {"destructive", "file_delete"}

\* The risk of a command denies, asks, or lets through what is harmless.
LEMMA RisksDecide ==
  ASSUME NEW op, NEW STATE otherwise
  PROVE  LET d == FirstRow(BashRows(op), otherwise)
         IN \/ d.behavior = "deny"
            \/ ~Deleting(op) /\ (d = otherwise \/ d.behavior = "ask" \/ (d.behavior = "allow" /\ Unasked(op)))
<1> DEFINE table == BashRows(op)
<1>1. DOMAIN table = 1..7 /\ 7 \in Nat
  BY DEF BashRows
<1>2. /\ table[1][2].behavior = "deny" /\ table[2][2].behavior = "deny"
      /\ table[3][2].behavior = "ask" /\ table[5][2].behavior = "ask"
      /\ table[7][2].behavior = "ask"
      /\ table[4][2].behavior = "allow" /\ table[6][2].behavior = "allow"
  BY DEF BashRows, Deny, Ask, Allow, Decision
<1>3. ~table[1][1] /\ ~table[2][1] => ~Deleting(op)
  BY Zenon DEF BashRows, Deleting
<1>4. table[4][1] \/ table[6][1] => Unasked(op)
  BY Zenon DEF BashRows, Unasked
<1>5. table[3][1] \/ table[4][1] \/ table[5][1] \/ table[6][1] \/ table[7][1] => ~Deleting(op)
  BY Zenon DEF BashRows, Deleting
<1> HIDE DEF table
<1>6. \/ FirstRow(table, otherwise) = otherwise /\ \A i \in 1..7 : ~table[i][1]
      \/ \E i \in 1..7 : /\ table[i][1] /\ FirstRow(table, otherwise) = table[i][2]
                         /\ \A j \in 1..(i - 1) : ~table[j][1]
  BY <1>1, TableEnds, Zenon
<1>7. CASE FirstRow(table, otherwise) = otherwise /\ \A i \in 1..7 : ~table[i][1]
  BY <1>3, <1>7 DEF table
<1>8. ASSUME NEW i \in 1..7, table[i][1], FirstRow(table, otherwise) = table[i][2]
      PROVE  LET d == FirstRow(BashRows(op), otherwise)
             IN \/ d.behavior = "deny"
                \/ ~Deleting(op) /\ (d = otherwise \/ d.behavior = "ask" \/ (d.behavior = "allow" /\ Unasked(op)))
  <2>1. i \in {1, 2, 3, 4, 5, 6, 7}
    OBVIOUS
  <2> QED BY <1>2, <1>4, <1>5, <1>8, <2>1, Zenon DEF table
<1> QED BY <1>6, <1>7, <1>8, Zenon DEF table

\* A mode asks, or lets through what it lets through, and always decides on what
\* is marked as reading only.
LEMMA ModesDecide ==
  ASSUME config \in Hosts, NEW op, NEW STATE otherwise
  PROVE  LET d == FirstRow(ModeRows(op), otherwise)
         IN \/ d.behavior = "ask"
            \/ d.behavior = "allow" /\ Unasked(op)
            \/ d = otherwise /\ ~ReadOnly(op)
<1> DEFINE table == ModeRows(op)
<1>1. DOMAIN table = 1..8 /\ 8 \in Nat
  BY DEF ModeRows
<1>2. /\ table[3][2].behavior = "ask" /\ table[5][2].behavior = "ask"
      /\ table[7][2].behavior = "ask"
      /\ table[1][2].behavior = "allow" /\ table[2][2].behavior = "allow"
      /\ table[4][2].behavior = "allow" /\ table[6][2].behavior = "allow"
      /\ table[8][2].behavior = "allow"
  BY DEF ModeRows, Ask, Allow, Decision
<1>3. ASSUME table[1][1] \/ table[2][1] \/ table[4][1] \/ table[6][1]
      PROVE  Unasked(op)
  <2>1. "accept_edits" # "manual_approval" /\ "read_only" # "manual_approval"
    OBVIOUS
  <2> QED BY <1>3, <2>1, Zenon DEF ModeRows, Unasked
<1>4. ~table[7][1] /\ table[8][1] => Unasked(op)
  BY Zenon DEF ModeRows, Unasked
<1>5. ~table[1][1] /\ ~table[6][1] /\ ~table[7][1] /\ ~table[8][1] => ~ReadOnly(op)
  BY HostsAssumption, Zenon DEF ModeRows
<1> HIDE DEF table
<1>6. \/ FirstRow(table, otherwise) = otherwise /\ \A i \in 1..8 : ~table[i][1]
      \/ \E i \in 1..8 : /\ table[i][1] /\ FirstRow(table, otherwise) = table[i][2]
                         /\ \A j \in 1..(i - 1) : ~table[j][1]
  BY <1>1, TableEnds, Zenon
<1>7. CASE FirstRow(table, otherwise) = otherwise /\ \A i \in 1..8 : ~table[i][1]
  <2>1. ~table[1][1] /\ ~table[6][1] /\ ~table[7][1] /\ ~table[8][1]
    BY <1>7
  <2> QED BY <1>5, <1>7, <2>1, Zenon DEF table
<1>8. ASSUME NEW i \in 1..8, table[i][1], FirstRow(table, otherwise) = table[i][2],
             \A j \in 1..(i - 1) : ~table[j][1]
      PROVE  LET d == FirstRow(ModeRows(op), otherwise)
             IN d.behavior = "ask" \/ (d.behavior = "allow" /\ Unasked(op))
  <2>1. i \in {1, 2, 3, 4, 5, 6, 7, 8}
    OBVIOUS
  <2>2. i = 8 => ~table[7][1]
    BY <1>8
  <2> QED BY <1>2, <1>3, <1>4, <1>8, <2>1, <2>2, Zenon DEF table
<1> QED BY <1>6, <1>7, <1>8, Zenon DEF table

\* Where the mode has nothing to say an allow rule lets a call through, and what
\* is not marked as reading only is asked about.
LEMMA FallbackDecides ==
  ASSUME NEW call, NEW op, ~ReadOnly(op)
  PROVE  LET d == FirstRow(FallbackRows(call, op), Ask("fallback_ask", op))
         IN \/ d.behavior = "ask"
            \/ d = Allow("allow_rule") /\ Match("allow", call.tool, op.scope)
<1> DEFINE table == FallbackRows(call, op)
           otherwise == Ask("fallback_ask", op)
<1>1. DOMAIN table = 1..2 /\ 2 \in Nat
  BY DEF FallbackRows
<1>2. table[1][2] = Allow("allow_rule") /\ otherwise.behavior = "ask"
  BY DEF FallbackRows, Ask, Decision
<1>3. table[1][1] => Match("allow", call.tool, op.scope)
  BY Zenon DEF FallbackRows
<1>4. ~table[2][1]
  BY Zenon DEF FallbackRows
<1> HIDE DEF table, otherwise
<1>5. \/ FirstRow(table, otherwise) = otherwise /\ \A i \in 1..2 : ~table[i][1]
      \/ \E i \in 1..2 : /\ table[i][1] /\ FirstRow(table, otherwise) = table[i][2]
                         /\ \A j \in 1..(i - 1) : ~table[j][1]
  BY <1>1, TableEnds, Zenon
<1>6. \A i \in 1..2 : i = 1 \/ i = 2
  OBVIOUS
<1> QED BY <1>2, <1>3, <1>4, <1>5, <1>6, Zenon DEF table, otherwise

-----------------------------------------------------------------------------
(* The decision.                                                           *)

\* What is not denied passed every refusal; a deletion by a command is then asked
\* about, because an ask rule wants it; and what is allowed is what the mode
\* lets through, or has an allow rule.
LEMMA Checked ==
  ASSUME config \in Hosts, NEW call, NEW op
  PROVE  LET d == Check(call, op)
         IN \/ d.behavior = "deny"
            \/ /\ Passes(call, op)
               /\ \/ /\ d.behavior = "ask"
                     /\ Deleting(op) => Match("ask", call.tool, op.scope)
                  \/ d.behavior = "allow" /\ ~Deleting(op) /\ Unasked(op)
                  \/ d = Allow("allow_rule") /\ ~Deleting(op) /\ Match("allow", call.tool, op.scope)
<1> DEFINE fallback == FirstRow(FallbackRows(call, op), Ask("fallback_ask", op))
           mode == FirstRow(ModeRows(op), fallback)
           bash == FirstRow(BashRows(op), mode)
           rule == FirstRow(RuleRows(call, op), bash)
<1>1. Check(call, op) = FirstRow(Refusals(call, op), rule)
  BY Zenon DEF Check
<1>2. /\ rule = FirstRow(RuleRows(call, op), bash) /\ bash = FirstRow(BashRows(op), mode)
      /\ mode = FirstRow(ModeRows(op), fallback)
      /\ fallback = FirstRow(FallbackRows(call, op), Ask("fallback_ask", op))
  OBVIOUS
<1> HIDE DEF fallback, mode, bash, rule
<1>3. \/ Check(call, op).behavior = "deny"
      \/ Check(call, op) = rule /\ Passes(call, op)
  BY <1>1, RefusalsDeny
<1>4. \/ rule.behavior = "deny"
      \/ rule.behavior = "ask" /\ Match("ask", call.tool, op.scope)
      \/ rule = bash
  BY <1>2, RulesDecide
<1>5. \/ bash.behavior = "deny"
      \/ /\ ~Deleting(op)
         /\ bash = mode \/ bash.behavior = "ask" \/ (bash.behavior = "allow" /\ Unasked(op))
  BY <1>2, RisksDecide, Zenon
<1>6. \/ mode.behavior = "ask"
      \/ mode.behavior = "allow" /\ Unasked(op)
      \/ mode = fallback /\ ~ReadOnly(op)
  BY <1>2, ModesDecide, Zenon
<1>7. ~ReadOnly(op) =>
        \/ fallback.behavior = "ask"
        \/ fallback = Allow("allow_rule") /\ Match("allow", call.tool, op.scope)
  BY <1>2, FallbackDecides, Zenon
<1> QED BY <1>3, <1>4, <1>5, <1>6, <1>7, Zenon

\* After the earlier answers: what is asked is not agreed to yet and somebody can
\* be asked; what is allowed is let through by the mode or was agreed to.
LEMMA Resolves ==
  ASSUME config \in Hosts, NEW call, NEW op
  PROVE  LET d == Resolved(call, op)
         IN \/ d.behavior = "deny"
            \/ /\ Passes(call, op)
               /\ Deleting(op) => Match("ask", call.tool, op.scope)
               /\ \/ d.behavior = "ask" /\ ~PreAuthorized(call, op) /\ config.policy # "deny"
                  \/ d.behavior = "allow" /\ ~Deleting(op) /\ Unasked(op)
                  \/ /\ d.behavior = "allow" /\ d.reason \in {"approved_scope", "allow_rule"}
                     /\ PreAuthorized(call, op)
<1> DEFINE d == Check(call, op)
<1>1. \/ d.behavior = "deny"
      \/ /\ Passes(call, op)
         /\ \/ /\ d.behavior = "ask"
               /\ Deleting(op) => Match("ask", call.tool, op.scope)
            \/ d.behavior = "allow" /\ ~Deleting(op) /\ Unasked(op)
            \/ d = Allow("allow_rule") /\ ~Deleting(op) /\ Match("allow", call.tool, op.scope)
  BY Checked, Zenon
<1>2. Resolved(call, op) =
        IF d.behavior # "ask" THEN d
        ELSE IF PreAuthorized(call, op) THEN Decision("allow", "approved_scope", d.terminal)
        ELSE IF config.policy = "deny"
             THEN Deny("non_interactive_unapproved", d.terminal)
        ELSE d
  BY Zenon DEF Resolved
<1>3. Match("allow", call.tool, op.scope) => PreAuthorized(call, op)
  BY Zenon DEF PreAuthorized
<1> HIDE DEF d
<1>4. "deny" # "ask" /\ "allow" # "ask"
  OBVIOUS
<1>5. /\ Decision("allow", "approved_scope", d.terminal).behavior = "allow"
      /\ Decision("allow", "approved_scope", d.terminal).reason = "approved_scope"
      /\ Deny("non_interactive_unapproved", d.terminal).behavior = "deny"
      /\ Allow("allow_rule").behavior = "allow" /\ Allow("allow_rule").reason = "allow_rule"
  BY DEF Decision, Deny, Allow
<1>6. CASE d.behavior = "ask" /\ PreAuthorized(call, op)
  BY <1>1, <1>2, <1>4, <1>5, <1>6
<1>7. CASE d.behavior = "ask" /\ ~PreAuthorized(call, op)
  BY <1>1, <1>2, <1>4, <1>5, <1>7
<1>8. CASE d.behavior # "ask"
  BY <1>1, <1>2, <1>3, <1>4, <1>5, <1>8
<1> QED BY <1>6, <1>7, <1>8

-----------------------------------------------------------------------------
(* What a call is.                                                         *)

Harmless(c) ==
  /\ ~c.destructive /\ c.deletes = "no" /\ ~c.pythonWrites /\ ~c.patch
  /\ ~c.network /\ ~c.writesByName

Quiet(risk) == risk \in {"safe_check", "read_only_command", "unknown"}

\* The rows of the classifier as alternatives: a risk that is not quiet comes
\* from its row, a quiet one from the segments of a command no row fits.
LEMMA RiskOfCommand ==
  ASSUME NEW c \in Command, c.inline => "other" \in c.segments
  PROVE  LET r == ClassifyBash(c)
         IN /\ r.targets \in {c.targets, <<>>}
            /\ r.risk # None
            /\ Quiet(r.risk) => Harmless(c) /\ (c.mutates => r.risk = "unknown" /\ c.inline)
<1> DEFINE table == <<
             <<c.destructive,            Risk("destructive", <<>>, {})>>,
             <<c.deletes = "python",     Risk("file_delete", c.targets, {})>>,
             <<c.deletes = "shell",      Risk("file_delete", <<>>, {})>>,
             <<c.pythonWrites,           Risk("file_write", c.targets, {})>>,
             <<c.patch,                  Risk("file_write", <<>>, {"structured_tool"})>>,
             <<c.network /\ c.mutates,   Risk("network", c.targets, {"network", "file_write"})>>,
             <<c.network,                Risk("network", <<>>, {"network"})>>,
             <<c.writesByName,           Risk("file_write", <<>>, {"file_write"})>>,
             <<c.mutates /\ ~c.inline,   Risk("file_write", c.targets, {"file_write"})>> >>
           otherwise == Risk(SegmentRisk(c), <<>>, {})
<1>1. DOMAIN table = 1..9 /\ 9 \in Nat
  OBVIOUS
<1>2. ClassifyBash(c) = FirstRow(table, otherwise)
  BY Zenon DEF ClassifyBash
<1>3. ASSUME NEW i \in 1..9
      PROVE  /\ table[i][2].targets \in {c.targets, <<>>}
             /\ table[i][2].risk # None /\ ~Quiet(table[i][2].risk)
  <2>1. i \in {1, 2, 3, 4, 5, 6, 7, 8, 9}
    OBVIOUS
  <2> QED BY <2>1, NoneAssumption DEF Risk, Quiet
<1>4. ASSUME \A i \in 1..9 : ~table[i][1]
      PROVE  Harmless(c) /\ (c.mutates => c.inline)
  <2>1. /\ ~table[1][1] /\ ~table[2][1] /\ ~table[3][1] /\ ~table[4][1] /\ ~table[5][1]
        /\ ~table[7][1] /\ ~table[8][1] /\ ~table[9][1]
    BY <1>4
  <2>2. c.deletes \in {"no", "python", "shell"}
    BY DEF Command
  <2>3. c.deletes # "python" /\ c.deletes # "shell"
    BY <2>1, Zenon
  <2>4. c.deletes = "no"
    BY <2>2, <2>3
  <2> QED BY <2>1, <2>4, Zenon DEF Harmless
<1>5. /\ otherwise.targets = <<>> /\ otherwise.risk = SegmentRisk(c)
  BY DEF Risk
<1>6. SegmentRisk(c) \in {"unknown", "safe_check", "read_only_command"}
  <2>1. c.dynamic \in BOOLEAN /\ c.segments \in SUBSET {"safe", "read", "other"}
    BY DEF Command
  <2>2. \/ c.dynamic \/ c.segments = {} \/ "other" \in c.segments
        \/ ~c.dynamic /\ "other" \notin c.segments /\ "safe" \in c.segments
        \/ ~c.dynamic /\ c.segments = {"read"}
    BY <2>1
  <2>3. ~("other" \in {"read"}) /\ ~("safe" \in {"read"}) /\ {"read"} # {}
    OBVIOUS
  <2> QED BY <2>2, <2>3 DEF SegmentRisk
<1>7. "other" \in c.segments => SegmentRisk(c) = "unknown"
  BY DEF SegmentRisk
<1> HIDE DEF table, otherwise
<1>8. \/ FirstRow(table, otherwise) = otherwise /\ \A i \in 1..9 : ~table[i][1]
      \/ \E i \in 1..9 : /\ table[i][1] /\ FirstRow(table, otherwise) = table[i][2]
                         /\ \A j \in 1..(i - 1) : ~table[j][1]
  BY <1>1, TableEnds, Zenon
<1>9. CASE FirstRow(table, otherwise) = otherwise /\ \A i \in 1..9 : ~table[i][1]
  BY <1>2, <1>4, <1>5, <1>6, <1>7, <1>9, NoneAssumption
<1>10. CASE \E i \in 1..9 : FirstRow(table, otherwise) = table[i][2]
  BY <1>2, <1>3, <1>10
<1> QED BY <1>8, <1>9, <1>10

\* What the rest of the proof needs to know of the operation of a call.
IsOp(call, op) ==
  /\ op.paths \subseteq Paths
  /\ op.kind = "fs.write" /\ "sensitive" \notin op.flags => op.risk.risk = None
  /\ call.tool = "bash" =>
       /\ ReadOnly(op) => op.risk.risk = "read_only_command"
       /\ op.risk.risk # None
       /\ op.kind = "fs.delete" => Deleting(op)
       /\ Quiet(op.risk.risk) =>
            /\ Harmless(call.command)
            /\ call.command.mutates => op.risk.risk = "unknown" /\ call.command.inline

LEMMA OperationIsOp ==
  ASSUME NEW call, IsCall(call)
  PROVE  IsOp(call, Operation(call))
<1> DEFINE op == Operation(call)
<1>1. CASE call.tool = "bash"
  <2> DEFINE c == call.command
             r == ClassifyBash(c)
  <2>1. c \in Command /\ (c.inline => "other" \in c.segments)
    BY <1>1 DEF IsCall
  <2>2. op = BashOperation(c)
    BY <1>1 DEF Operation
  <2>3. /\ op.kind = BashKind(r) /\ op.paths = {r.targets[i] : i \in DOMAIN r.targets}
        /\ op.flags = BashFlags(r) /\ op.risk = r
    BY <2>2 DEF BashOperation
  <2>4. /\ r.targets \in {c.targets, <<>>}
        /\ r.risk # None
        /\ Quiet(r.risk) => Harmless(c) /\ (c.mutates => r.risk = "unknown" /\ c.inline)
    BY <2>1, RiskOfCommand
  <2>5. c.targets \in Seq(Paths)
    BY <2>1 DEF Command
  <2> HIDE DEF r, c, op
  <2>6. op.paths \subseteq Paths
    <3>1. /\ \A i \in DOMAIN c.targets : c.targets[i] \in Paths
          /\ DOMAIN <<>> = {}
      BY <2>5
    <3>2. \A i \in DOMAIN r.targets : r.targets[i] \in Paths
      BY <2>4, <3>1, Zenon
    <3> QED BY <2>3, <3>2
  <2>7. op.kind = "fs.write" => "sensitive" \in op.flags
    <3>1. op.kind = "fs.write" => r.risk \in {"file_write", "network"}
      BY <2>3 DEF BashKind
    <3>2. r.risk \in {"file_write", "network"} => "sensitive" \in op.flags
      BY <2>3 DEF BashFlags
    <3> QED BY <3>1, <3>2
  <2>8. ReadOnly(op) => r.risk = "read_only_command"
    BY <2>3 DEF ReadOnly, BashFlags
  <2>9. op.kind = "fs.delete" => Deleting(op)
    BY <2>3 DEF BashKind, Deleting
  <2> QED BY <2>3, <2>4, <2>6, <2>7, <2>8, <2>9 DEF IsOp, op, c
<1>2. CASE call.tool # "bash"
  <2>1. op.paths \subseteq Paths /\ op.risk.risk = None
    BY <1>2 DEF Operation, IsCall, Tools, Op, Risk
  <2> QED BY <1>2, <2>1 DEF IsOp
<1> QED BY <1>1, <1>2

-----------------------------------------------------------------------------
(* The invariant.                                                          *)

\* What was agreed to has its rule; what was approved, its allow rule; and what
\* was refused for good is denied from then on.
RememberedInv ==
  /\ consents \subseteq rules
  /\ \A scope \in approved : \E r \in rules : r.behavior = "allow" /\ r.scope = scope
  /\ \A r \in consents : r.behavior = "deny" => r.scope \in denied
  /\ config.policy = "deny" => consents = {}

\* A question is put to somebody who can answer, about what is neither forbidden
\* nor refused nor agreed to.
PendingInv ==
  pending # NoCall =>
    /\ config.policy # "deny"
    /\ pending.op.paths \subseteq Paths
    /\ pending.op.scope \notin denied
    /\ ~Match("allow", pending.call.tool, pending.op.scope)
    /\ ~Forbidden(pending.call, pending.op)

\* What ran was allowed by the mode or agreed to, and by nobody where there is
\* nobody to ask.
LastInv ==
  /\ last.outcome = "ran" => ~Forbidden(last.call, last.op)
  /\ last.outcome = "ran" /\ ~Silent(last.op) =>
       \/ last.reason \in UserSaidYes /\ config.policy # "deny"
       \/ Match("allow", last.call.tool, last.op.scope)
  /\ UnaskedCommandsAreHarmless

GateInv == TypeOK /\ RememberedInv /\ PendingInv /\ LastInv

LEMMA InitGateInv == Init => GateInv
<1> SUFFICES ASSUME Init PROVE GateInv
  OBVIOUS
<1> USE DEF Init
<1>1. pending = NoCall /\ last.outcome = None /\ None \notin {"ran", "denied"}
  BY NoneAssumption DEF NoCall
<1>2. TypeOK
  <2>1. tasks \in 0..MaxTasks
    BY BoundsAssumption
  <2>2. \A r \in rules \cup consents : r.behavior \in {"allow", "ask", "deny"}
    BY HostsAssumption
  <2>3. present \cup created \subseteq Paths /\ theirs \subseteq present \ created
    BY PathsAssumption
  <2> QED BY <1>1, <2>1, <2>2, <2>3 DEF TypeOK
<1>3. RememberedInv
  BY DEF RememberedInv
<1>4. PendingInv
  BY <1>1 DEF PendingInv
<1>5. LastInv
  BY <1>1 DEF LastInv, UnaskedCommandsAreHarmless
<1> QED BY <1>2, <1>3, <1>4, <1>5 DEF GateInv

\* A call that passed the refusals, and whose deletion is wanted by an ask rule,
\* is not forbidden.
LEMMA PassedIsNotForbidden ==
  ASSUME NEW call, NEW op, Passes(call, op), Deleting(op) => Match("ask", call.tool, op.scope)
  PROVE  ~Forbidden(call, op)
BY DEF Passes, Forbidden, Deleting

\* What the mode lets through without a question is silent.
LEMMA UnaskedIsSilent ==
  ASSUME TypeOK, NEW call, NEW op, IsOp(call, op), Unasked(op),
         op.paths \cap theirs = {} => last'.own, UNCHANGED config
  PROVE  Silent(op)'
<1>1. /\ config' = config
      /\ config.mode \in {"read_only", "accept_edits", "manual_approval"}
  BY HostsAssumption DEF TypeOK
<1>2. AllCreated(op) => last'.own
  BY DEF TypeOK, AllCreated
<1>3. op.kind = "fs.write" /\ "sensitive" \notin op.flags => op.risk.risk = None
  BY DEF IsOp
<1>4. CASE config.mode = "read_only"
  BY <1>1, <1>4 DEF Unasked, Silent, ReadOnly
<1>5. CASE config.mode = "manual_approval"
  BY <1>1, <1>5 DEF Unasked, Silent, ReadOnly
<1>6. CASE config.mode = "accept_edits"
  <2>1. \/ ReadOnly(op)
        \/ op.kind = "fs.write" /\ "sensitive" \notin op.flags
        \/ op.kind = "fs.delete" /\ AllCreated(op)
        \/ op.risk.risk = "safe_check"
        \/ op.risk.risk = "unknown" /\ config.sandbox
    BY <1>6 DEF Unasked
  <2> QED BY <1>1, <1>2, <1>3, <1>6, <2>1 DEF Silent, ReadOnly
<1> QED BY <1>1, <1>4, <1>5, <1>6

-----------------------------------------------------------------------------
(* The steps.                                                              *)

\* What a tool does to the files leaves those of before the task apart from
\* those the task created.
LEMMA EffectTypes ==
  ASSUME TypeOK, NEW call, NEW op, op.paths \subseteq Paths,
         \E ok \in BOOLEAN : Effect(call, op, ok)
  PROVE  present' \cup created' \subseteq Paths /\ theirs' \subseteq present' \ created'
<1>1. present \cup created \subseteq Paths /\ theirs \subseteq present \ created
  BY DEF TypeOK
<1>2. \/ UNCHANGED files
      \/ \E gone \in SUBSET present :
           present' = present \ gone /\ theirs' = theirs \ gone /\ created' = created
      \/ /\ present' = present \ op.paths /\ created' = created \ op.paths
         /\ theirs' = theirs \ op.paths
      \/ /\ present' \in {present, present \cup op.paths} /\ theirs' = theirs
         /\ created' = created \/ (/\ present' = present \cup op.paths
                                  /\ created' = created \cup (op.paths \ present))
  BY DEF Effect
<1> QED BY <1>1, <1>2 DEF files

\* What became of the last call stays true while rules are only added.
LEMMA LastKept ==
  ASSUME LastInv, last' = last, config' = config, rules \subseteq rules'
  PROVE  LastInv'
<1>1. ASSUME last.outcome = "ran"
      PROVE  ~Forbidden(last.call, last.op)'
  BY <1>1 DEF LastInv, Forbidden, Match, Mutation
<1>2. Silent(last.op)' = Silent(last.op)
  BY DEF Silent, ReadOnly
<1>3. Match("allow", last.call.tool, last.op.scope) => Match("allow", last.call.tool, last.op.scope)'
  BY DEF Match
<1>4. UnaskedCommandsAreHarmless'
  BY DEF LastInv, UnaskedCommandsAreHarmless
<1> QED BY <1>1, <1>2, <1>3, <1>4 DEF LastInv

\* A call the user says yes to was asked about, and so is none of the forbidden.
LEMMA YesToQuestion ==
  ASSUME PendingInv, pending # NoCall, config' = config, rules \subseteq rules',
         NEW reason \in UserSaidYes, last' = Outcome(pending.call, pending.op, "ran", reason)
  PROVE  LastInv'
<1>1. /\ last'.outcome = "ran" /\ last'.reason \in UserSaidYes
      /\ last'.call = pending.call /\ last'.op = pending.op
  BY DEF Outcome
<1>2. ~Forbidden(last.call, last.op)'
  <2>1. ~Forbidden(pending.call, pending.op)
    BY DEF PendingInv
  <2> QED BY <1>1, <2>1 DEF Forbidden, Match, Mutation
<1>3. config'.policy # "deny"
  BY DEF PendingInv
<1>4. UnaskedCommandsAreHarmless'
  BY <1>1 DEF UnaskedCommandsAreHarmless, UserSaidYes
<1> QED BY <1>1, <1>2, <1>3, <1>4 DEF LastInv, UserSaidYes

\* A call that runs without a question was let through by the mode or agreed to.
LEMMA RunsUnasked ==
  ASSUME GateInv, NEW call, NEW op, IsOp(call, op), config' = config, rules' = rules,
         NEW reason, last' = Outcome(call, op, "ran", reason), Passes(call, op),
         Deleting(op) => Match("ask", call.tool, op.scope),
         \/ ~Deleting(op) /\ Unasked(op)
         \/ reason \in {"approved_scope", "allow_rule"} /\ PreAuthorized(call, op)
  PROVE  LastInv'
<1>1. /\ last'.outcome = "ran" /\ last'.reason = reason /\ last'.call = call /\ last'.op = op
      /\ op.paths \cap theirs = {} => last'.own
  BY DEF Outcome
<1>2. ~Forbidden(last.call, last.op)'
  <2>1. ~Forbidden(call, op)
    BY PassedIsNotForbidden
  <2> QED BY <1>1, <2>1 DEF Forbidden, Match, Mutation
<1>3. PreAuthorized(call, op) => Match("allow", call.tool, op.scope)
  BY DEF GateInv, RememberedInv, PreAuthorized, Match
<1>4. Match("allow", call.tool, op.scope) => Match("allow", last.call.tool, last.op.scope)'
  BY <1>1 DEF Match
<1>5. Unasked(op) => Silent(last.op)'
  <2>1. Unasked(op) => Silent(op)'
    BY <1>1, UnaskedIsSilent DEF GateInv
  <2> QED BY <1>1, <2>1 DEF Silent, ReadOnly
<1>6. UnaskedCommandsAreHarmless'
  <2> SUFFICES ASSUME config.mode = "accept_edits", call.tool = "bash",
                      reason \notin UserSaidYes \cup {"approved_scope", "allow_rule"}
               PROVE  LET c == call.command
                      IN /\ Harmless(c)
                         /\ c.mutates => c.inline /\ config.sandbox
    BY <1>1 DEF UnaskedCommandsAreHarmless, Harmless
  <2>1. ~Deleting(op) /\ Unasked(op)
    OBVIOUS
  <2>2. /\ ReadOnly(op) => op.risk.risk = "read_only_command"
        /\ op.risk.risk # None
        /\ op.kind = "fs.delete" => Deleting(op)
        /\ Quiet(op.risk.risk) =>
             /\ Harmless(call.command)
             /\ call.command.mutates => op.risk.risk = "unknown" /\ call.command.inline
        /\ op.kind = "fs.write" /\ "sensitive" \notin op.flags => op.risk.risk = None
    BY DEF IsOp
  <2>3. \/ op.risk.risk = "read_only_command"
        \/ op.risk.risk = "safe_check"
        \/ op.risk.risk = "unknown" /\ config.sandbox
    BY <2>1, <2>2 DEF Unasked
  <2> QED BY <2>2, <2>3 DEF Quiet
<1> QED BY <1>1, <1>2, <1>3, <1>4, <1>5, <1>6 DEF LastInv

LEMMA ToolCallKeeps ==
  ASSUME GateInv, NEW call \in Calls[config.suite], ToolCall(call)
  PROVE  GateInv'
<1>1. PICK op, d : /\ op = Operation(call) /\ d = Resolved(call, op) /\ Decided(call, op, d)
                   /\ Idle /\ UNCHANGED <<config, rules, approved, tasks, consents>>
  BY DEF ToolCall
<1>2. config \in Hosts /\ IsCall(call)
  BY CallsAssumption DEF GateInv, TypeOK
<1>3. IsOp(call, op)
  BY <1>1, <1>2, OperationIsOp
<1>4. \/ d.behavior = "deny"
      \/ /\ Passes(call, op)
         /\ Deleting(op) => Match("ask", call.tool, op.scope)
         /\ \/ d.behavior = "ask" /\ ~PreAuthorized(call, op) /\ config.policy # "deny"
            \/ d.behavior = "allow" /\ ~Deleting(op) /\ Unasked(op)
            \/ /\ d.behavior = "allow" /\ d.reason \in {"approved_scope", "allow_rule"}
               /\ PreAuthorized(call, op)
  BY <1>1, <1>2, Resolves, Zenon
<1>5. op.paths \subseteq Paths
  BY <1>3 DEF IsOp
<1>6. status = "running" /\ pending = NoCall
  BY <1>1 DEF Idle
<1>7. CASE d.behavior = "allow"
  <2>1. Run(call, op, d.reason) /\ UNCHANGED <<denied, pending>>
    BY <1>1, <1>7 DEF Decided
  <2>2. TypeOK'
    <3>1. present' \cup created' \subseteq Paths /\ theirs' \subseteq present' \ created'
      BY <1>5, <2>1, EffectTypes DEF GateInv, Run
    <3>2. last'.outcome = "ran" /\ status' = status
      BY <2>1 DEF Run, Outcome
    <3> QED BY <1>1, <1>6, <2>1, <3>1, <3>2 DEF TypeOK, GateInv
  <2>3. RememberedInv' /\ PendingInv'
    BY <1>1, <1>6, <2>1 DEF GateInv, RememberedInv, PendingInv, NoCall
  <2>4. LastInv'
    <3>1. last' = Outcome(call, op, "ran", d.reason)
      BY <2>1 DEF Run
    <3> QED BY <1>1, <1>3, <1>4, <1>7, <3>1, RunsUnasked
  <2> QED BY <2>2, <2>3, <2>4 DEF GateInv
<1>8. CASE d.behavior = "deny"
  <2>1. Denied(call, op, d.reason, d.terminal, denied) /\ UNCHANGED pending
    BY <1>1, <1>8 DEF Decided
  <2>2. /\ last'.outcome = "denied" /\ status' \in {status, "cancelled"}
        /\ denied \subseteq denied' /\ UNCHANGED files
    BY <2>1 DEF Denied, Outcome
  <2>3. TypeOK'
    BY <1>1, <1>6, <2>1, <2>2 DEF TypeOK, GateInv, files
  <2>4. RememberedInv' /\ PendingInv'
    BY <1>1, <1>6, <2>1, <2>2 DEF GateInv, RememberedInv, PendingInv, NoCall
  <2>5. LastInv'
    BY <2>2 DEF LastInv, UnaskedCommandsAreHarmless
  <2> QED BY <2>3, <2>4, <2>5 DEF GateInv
<1>9. CASE d.behavior = "ask"
  <2>1. /\ pending' = Outcome(call, op, IF d.terminal THEN "terminal" ELSE "plain", d.reason)
        /\ UNCHANGED <<denied, files, status, last>>
    BY <1>1, <1>9 DEF Decided
  <2>2. /\ pending'.call = call /\ pending'.op = op
        /\ pending'.outcome \in {"terminal", "plain"}
    BY <2>1 DEF Outcome
  <2>3. TypeOK'
    BY <1>1, <1>6, <2>1, <2>2 DEF TypeOK, GateInv, files
  <2>4. RememberedInv'
    BY <1>1, <2>1 DEF GateInv, RememberedInv
  <2>5. PendingInv'
    <3>1. Passes(call, op) /\ ~PreAuthorized(call, op) /\ config.policy # "deny"
      BY <1>4, <1>9
    <3>2. ~Forbidden(call, op)
      BY <1>4, <1>9, PassedIsNotForbidden
    <3>3. op.scope \notin denied /\ ~Match("allow", call.tool, op.scope)
      BY <3>1 DEF Passes, PreAuthorized
    <3> QED BY <1>1, <1>5, <2>1, <2>2, <3>1, <3>2, <3>3
            DEF PendingInv, Forbidden, Match, Mutation
  <2>6. LastInv'
    BY <1>1, <2>1, LastKept DEF GateInv
  <2> QED BY <2>3, <2>4, <2>5, <2>6 DEF GateInv
<1> QED BY <1>4, <1>7, <1>8, <1>9

\* An answer of yes: the call runs, and for the run its scope is approved.
LEMMA YesKeeps ==
  ASSUME GateInv, AllowOnce \/ AllowScope
  PROVE  GateInv'
<1> DEFINE rule == Rule("allow", pending.call.tool, pending.op.scope)
<1>1. PICK reason \in UserSaidYes :
        /\ Asked /\ Run(pending.call, pending.op, reason) /\ pending' = NoCall
        /\ UNCHANGED <<config, denied, tasks>>
        /\ \/ UNCHANGED <<rules, approved, consents>>
           \/ /\ approved' = approved \cup {pending.op.scope}
              /\ rules' = rules \cup {rule} /\ consents' = consents \cup {rule}
  BY DEF AllowOnce, AllowScope, UserSaidYes, remembered
<1>2. rule.behavior = "allow" /\ rule.scope = pending.op.scope
  BY DEF Rule
<1> HIDE DEF rule
<1>3. pending # NoCall
  BY <1>1 DEF Asked
<1>4. rules \subseteq rules'
  BY <1>1
<1>5. TypeOK'
  <2>1. present' \cup created' \subseteq Paths /\ theirs' \subseteq present' \ created'
    BY <1>1, <1>3, EffectTypes DEF GateInv, PendingInv, Run
  <2>2. last'.outcome = "ran" /\ status' = status
    BY <1>1 DEF Run, Outcome
  <2> QED BY <1>1, <1>2, <2>1, <2>2 DEF TypeOK, GateInv
<1>6. RememberedInv'
  <2>1. consents' \subseteq rules'
    BY <1>1 DEF GateInv, RememberedInv
  <2>2. \A scope \in approved' : \E r \in rules' : r.behavior = "allow" /\ r.scope = scope
    BY <1>1, <1>2 DEF GateInv, RememberedInv
  <2>3. \A r \in consents' : r.behavior = "deny" => r.scope \in denied'
    BY <1>1, <1>2 DEF GateInv, RememberedInv
  <2>4. config'.policy # "deny"
    BY <1>1, <1>3 DEF GateInv, PendingInv
  <2> QED BY <2>1, <2>2, <2>3, <2>4 DEF RememberedInv
<1>7. PendingInv'
  BY <1>1 DEF PendingInv, NoCall
<1>8. LastInv'
  <2>1. last' = Outcome(pending.call, pending.op, "ran", reason)
    BY <1>1 DEF Run
  <2> QED BY <1>1, <1>3, <1>4, <2>1, YesToQuestion DEF GateInv
<1> QED BY <1>5, <1>6, <1>7, <1>8 DEF GateInv

\* An answer of no: nothing runs, and a refusal for good is remembered twice.
LEMMA NoKeeps ==
  ASSUME GateInv, DenyOnce
  PROVE  GateInv'
<1> DEFINE rule == Rule("deny", pending.call.tool, pending.op.scope)
           terminal == pending.outcome = "terminal"
           refused == IF terminal THEN denied \cup {pending.op.scope} ELSE denied
<1>1. /\ Asked /\ pending' = NoCall /\ UNCHANGED <<config, approved, tasks>>
      /\ rules' = IF terminal THEN rules \cup {rule} ELSE rules
      /\ consents' = IF terminal THEN consents \cup {rule} ELSE consents
      /\ Denied(pending.call, pending.op, "user_deny", terminal, refused)
  BY Zenon DEF DenyOnce
<1>2. rule.behavior = "deny" /\ rule.scope = pending.op.scope
  BY DEF Rule
<1>3. /\ last'.outcome = "denied" /\ status' \in {status, "cancelled"} /\ UNCHANGED files
      /\ refused \subseteq denied' /\ denied \subseteq denied'
      /\ terminal => pending.op.scope \in denied'
  BY <1>1 DEF Denied, Outcome
<1>4. pending # NoCall
  BY <1>1 DEF Asked
<1>5. /\ rules \subseteq rules' /\ rules' \subseteq rules \cup {rule}
      /\ consents' = consents \/ (terminal /\ consents' = consents \cup {rule} /\ rule \in rules')
  BY <1>1
<1> HIDE DEF rule, terminal, refused
<1>6. TypeOK'
  <2>1. \A r \in rules' \cup consents' : r.behavior \in {"allow", "ask", "deny"}
    BY <1>2, <1>5 DEF GateInv, TypeOK
  <2> QED BY <1>1, <1>3, <2>1 DEF GateInv, TypeOK, files
<1>7. RememberedInv'
  <2>1. consents' \subseteq rules'
    BY <1>5 DEF GateInv, RememberedInv
  <2>2. \A scope \in approved' : \E r \in rules' : r.behavior = "allow" /\ r.scope = scope
    BY <1>1, <1>5 DEF GateInv, RememberedInv
  <2>3. \A r \in consents' : r.behavior = "deny" => r.scope \in denied'
    BY <1>2, <1>3, <1>5 DEF GateInv, RememberedInv
  <2>4. config'.policy # "deny"
    BY <1>1, <1>4 DEF GateInv, PendingInv
  <2> QED BY <2>1, <2>2, <2>3, <2>4 DEF RememberedInv
<1>8. PendingInv'
  BY <1>1 DEF PendingInv, NoCall
<1>9. LastInv'
  BY <1>3 DEF LastInv, UnaskedCommandsAreHarmless
<1> QED BY <1>6, <1>7, <1>8, <1>9 DEF GateInv

\* The steps that change none of what the session remembers.
LEMMA OtherStepsKeep ==
  ASSUME GateInv, Interrupt \/ FinishTask \/ BeginTask \/ SessionOver \/ UNCHANGED vars
  PROVE  GateInv'
<1>1. /\ UNCHANGED <<config, rules, approved, denied, consents>>
      /\ pending' = NoCall \/ pending' = pending
      /\ last' = last \/ last' = NoCall
  BY DEF Interrupt, FinishTask, BeginTask, SessionOver, vars, remembered
<1>2. TypeOK'
  <2>1. \/ UNCHANGED files
        \/ present' = present /\ created' = {} /\ theirs' = present
    BY DEF Interrupt, FinishTask, BeginTask, SessionOver, vars, files
  <2>2. /\ status' \in {"idle", "running", "cancelled", "done"}
        /\ tasks' = tasks \/ (tasks' = tasks + 1 /\ tasks < MaxTasks)
    BY DEF Interrupt, FinishTask, BeginTask, SessionOver, vars, GateInv, TypeOK
  <2>3. tasks' \in 0..MaxTasks
    BY <2>2, BoundsAssumption DEF GateInv, TypeOK
  <2>4. present' \cup created' \subseteq Paths /\ theirs' \subseteq present' \ created'
    BY <2>1 DEF GateInv, TypeOK, files
  <2>5. last'.outcome \in {None, "ran", "denied"}
    BY <1>1 DEF GateInv, TypeOK, NoCall
  <2> QED BY <1>1, <2>2, <2>3, <2>4, <2>5 DEF GateInv, TypeOK
<1>3. RememberedInv'
  BY <1>1 DEF GateInv, RememberedInv
<1>4. PendingInv'
  BY <1>1 DEF GateInv, PendingInv, Forbidden, Match, Mutation
<1>5. LastInv'
  <2>1. CASE last' = last
    BY <1>1, <2>1, LastKept DEF GateInv
  <2>2. CASE last' = NoCall
    <3>1. last'.outcome # "ran"
      BY <2>2, NoneAssumption DEF NoCall
    <3> QED BY <3>1 DEF LastInv, UnaskedCommandsAreHarmless
  <2> QED BY <1>1, <2>1, <2>2
<1> QED BY <1>2, <1>3, <1>4, <1>5 DEF GateInv

LEMMA NextGateInv == GateInv /\ [Next]_vars => GateInv'
<1> SUFFICES ASSUME GateInv, [Next]_vars PROVE GateInv'
  OBVIOUS
<1>1. ASSUME NEW call \in Calls[config.suite], ToolCall(call)
      PROVE  GateInv'
  BY <1>1, ToolCallKeeps
<1>2. CASE AllowOnce \/ AllowScope
  BY <1>2, YesKeeps
<1>3. CASE DenyOnce
  BY <1>3, NoKeeps
<1>4. CASE Interrupt \/ FinishTask \/ BeginTask \/ SessionOver \/ UNCHANGED vars
  BY <1>4, OtherStepsKeep
<1> QED BY <1>1, <1>2, <1>3, <1>4 DEF Next

\* The invariant holds throughout a session.
THEOREM GateInvHolds == Spec => []GateInv
<1> QED BY InitGateInv, NextGateInv, PTL DEF Spec

-----------------------------------------------------------------------------
(* What follows.                                                           *)

\* No mode, rule or answer makes an operation possible that the gate refuses
\* for good: it neither runs nor is put to the user.
THEOREM DenialsStand == Spec => []HardDenialsStand
<1>1. GateInv => HardDenialsStand
  BY DEF GateInv, PendingInv, LastInv, HardDenialsStand
<1> QED BY <1>1, GateInvHolds, PTL

\* What a mode does not let through runs only if the user or the host agreed.
THEOREM ElseAgreed == Spec => []EverythingElseIsAgreed
<1>1. GateInv => EverythingElseIsAgreed
  BY DEF GateInv, LastInv, Match, EverythingElseIsAgreed
<1> QED BY <1>1, GateInvHolds, PTL

\* Nothing is asked twice for a scope approved for the run, and nothing where
\* nobody answers; and what is remembered has its types.
THEOREM AskedWhenNeeded == Spec => []AskedOnlyWhenNeeded
<1>1. GateInv => AskedOnlyWhenNeeded
  <2> SUFFICES ASSUME GateInv PROVE AskedOnlyWhenNeeded
    OBVIOUS
  <2>1. NotAskedTwice
    BY DEF GateInv, RememberedInv, PendingInv, Match, NotAskedTwice
  <2>2. UnattendedNeverAsks
    BY DEF GateInv, RememberedInv, PendingInv, LastInv, Match, UnattendedNeverAsks
  <2> QED BY <2>1, <2>2 DEF GateInv, AskedOnlyWhenNeeded
<1> QED BY <1>1, GateInvHolds, PTL

\* A command that accept_edits lets through without a question and without a rule
\* has none of the effects the classifier looks for, or is python -c in the sandbox.
THEOREM UnaskedHarmless == Spec => []UnaskedCommandsAreHarmless
<1>1. GateInv => UnaskedCommandsAreHarmless
  BY DEF GateInv, LastInv
<1> QED BY <1>1, GateInvHolds, PTL

\* A scope that was refused for good never runs again in the session.
THEOREM RefusalsAreFinal == Spec => RefusalIsFinal
<1> DEFINE Final == \A r \in consents : r.behavior = "deny" /\ last' # last /\ last'.outcome = "ran"
                                       => last'.op.scope # r.scope
<1>1. GateInv /\ [Next]_vars => Final
  <2> SUFFICES ASSUME GateInv, [Next]_vars, last' # last, last'.outcome = "ran"
               PROVE  last'.op.scope \notin denied
    BY DEF GateInv, RememberedInv
  <2>1. ASSUME NEW call \in Calls[config.suite], ToolCall(call)
        PROVE  last'.op.scope \notin denied
    <3>1. PICK op, d : d = Resolved(call, op) /\ Decided(call, op, d)
      BY <2>1 DEF ToolCall
    <3>2. d.behavior = "allow" /\ last'.op = op
      BY <3>1 DEF Decided, Run, Denied, Outcome
    <3>3. Passes(call, op)
      BY <3>1, <3>2, Resolves DEF GateInv, TypeOK
    <3> QED BY <3>2, <3>3 DEF Passes
  <2>2. CASE AllowOnce \/ AllowScope
    BY <2>2 DEF AllowOnce, AllowScope, Asked, Run, Outcome, GateInv, PendingInv
  <2>3. CASE DenyOnce
    BY <2>3 DEF DenyOnce, Denied, Outcome
  <2>4. CASE Interrupt \/ FinishTask \/ BeginTask \/ SessionOver \/ UNCHANGED vars
    BY <2>4, NoneAssumption
       DEF Interrupt, FinishTask, BeginTask, SessionOver, vars, NoCall
  <2> QED BY <2>1, <2>2, <2>3, <2>4 DEF Next
<1> QED BY <1>1, GateInvHolds, PTL DEF Spec, RefusalIsFinal
=============================================================================
