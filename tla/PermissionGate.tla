---------------------------- MODULE PermissionGate ----------------------------
(***************************************************************************)
(* The permission gate: what a tool call is classified as, the decision of *)
(* the gate on it, the question it may put to the user, the answers it     *)
(* remembers, and what the hook makes of a denial.  A step is one tool     *)
(* call that is not asked about, or the question of one, or the answer.    *)
(*                                                                         *)
(* A path is a model value; a scope key is the tuple of its parts; a shell *)
(* command is the record of the facts the classifier draws from its text,  *)
(* see Command.  theirs, consents and last are not the program's: files    *)
(* that were there before the task, what the user agreed to for the run,   *)
(* and what became of the last call.                                       *)
(***************************************************************************)
EXTENDS Naturals, Sequences, FiniteSets

CONSTANTS
  Paths,          \* paths a call may name
  Escaping,       \* those that resolve outside the repository
  NoRead,         \* those below protected_read_prefixes
  NoWrite,        \* those below protected_write_prefixes
  Existing,       \* the files that exist when the session starts
  Hosts,          \* how sessions are started: permission_mode, permission_prompt_policy,
                  \* whether an unknown command may run in the sandbox, the rules a
                  \* host adds, and the name of a suite of calls
  Calls,          \* of a suite, the tool calls the model may make, see IsCall
  None,           \* the absent value
  MaxConsents,    \* bound of the model: scopes approved or denied
  MaxTasks        \* bound of the model: tasks of a session

ASSUME PathsAssumption ==
  Escaping \subseteq Paths /\ NoRead \subseteq Paths /\ NoWrite \subseteq Paths
    /\ Existing \subseteq Paths
ASSUME BoundsAssumption == MaxTasks \in Nat /\ MaxConsents \in Nat
ASSUME NoneAssumption ==
  None \notin {"ran", "denied", "terminal", "plain", "destructive", "file_delete", "file_write",
             "network", "safe_check", "read_only_command", "unknown"}
ASSUME HostsAssumption ==
  \A h \in Hosts :
    /\ h.mode \in {"read_only", "accept_edits", "manual_approval"}
    /\ h.policy \in {"ask", "deny"} /\ h.sandbox \in BOOLEAN
    /\ \A r \in h.rules : r.behavior \in {"allow", "ask", "deny"}

VARIABLES
  config,    \* the host's choices
  rules,     \* permission_rules
  approved,  \* approved_permission_scopes
  denied,    \* denied_permission_scopes
  present,   \* the files that exist
  created,   \* task_created_files
  theirs,    \* files of before the task that it has not deleted
  status,    \* of the task
  tasks,     \* tasks begun
  pending,   \* the question the user has to answer
  consents,  \* what the user agreed to for the run
  last       \* the last call and what became of it

remembered == <<rules, approved, denied>>
files == <<present, created, theirs>>
vars == <<config, remembered, files, status, tasks, pending, consents, last>>

Tools == {"read_file", "grep", "list_dir", "write_file", "edit_file", "delete_file",
          "bash", "mcp_tool_call", "update_plan", "read_artifact", "view_diff"}

\* What the classifier finds in the text of a command: a destructive pattern;
\* a deletion by a Python call or a shell command; a Python call that writes;
\* apply_patch; a network program; a program or cmdlet that writes by its
\* name; an effect on files such as a redirection; python -c; a substitution;
\* the kinds of its segments; the target paths, and the protected ones it
\* mentions anywhere.
Command == [name : {"cmd1", "cmd2"}, destructive : BOOLEAN,
            deletes : {"no", "python", "shell"}, pythonWrites : BOOLEAN,
            patch : BOOLEAN, network : BOOLEAN, writesByName : BOOLEAN,
            mutates : BOOLEAN, inline : BOOLEAN, dynamic : BOOLEAN,
            segments : SUBSET {"safe", "read", "other"},
            targets : Seq(Paths), mentions : SUBSET Paths]

\* A call names a path (or a remote tool), or holds a command and its purpose.
\* A segment that is python -c is none that the classifier knows as harmless.
IsCall(call) ==
  /\ call.tool \in Tools
  /\ IF call.tool = "bash"
     THEN /\ call.command \in Command /\ call.purpose \in {"run", "verify"}
          /\ call.command.inline => "other" \in call.command.segments
     ELSE call.tool \in {"mcp_tool_call", "update_plan", "read_artifact", "view_diff"}
            \/ call.path \in Paths

ASSUME CallsAssumption == \A h \in Hosts : \A call \in Calls[h.suite] : IsCall(call)

-----------------------------------------------------------------------------
(* The risk of a command.                                                  *)

\* The first row of a table whose condition holds, or what comes after the table.
FirstRow(table, otherwise) ==
  LET holding == {i \in DOMAIN table : table[i][1]}
  IN IF holding = {} THEN otherwise
     ELSE table[CHOOSE i \in holding : \A j \in holding : i <= j][2]

Risk(risk, targets, effects) == [risk |-> risk, targets |-> targets, effects |-> effects]

SegmentRisk(c) ==
  CASE c.dynamic \/ c.segments = {} \/ "other" \in c.segments -> "unknown"
    [] ~c.dynamic /\ "other" \notin c.segments /\ "safe" \in c.segments -> "safe_check"
    [] ~c.dynamic /\ c.segments = {"read"} -> "read_only_command"

\* Mutated: python -c is classified by its segments before its effects.
ClassifyBySegmentsFirst(c) ==
  IF SegmentRisk(c) # "unknown" THEN Risk(SegmentRisk(c), <<>>, {})
  ELSE FirstRow(<<
  <<c.destructive,            Risk("destructive", <<>>, {})>>,
  <<c.deletes = "python",     Risk("file_delete", c.targets, {})>>,
  <<c.deletes = "shell",      Risk("file_delete", <<>>, {})>> >>,
  Risk("unknown", <<>>, {}))

ClassifyBash(c) == FirstRow(<<
  <<c.destructive,            Risk("destructive", <<>>, {})>>,
  <<c.deletes = "python",     Risk("file_delete", c.targets, {})>>,
  <<c.deletes = "shell",      Risk("file_delete", <<>>, {})>>,
  <<c.pythonWrites,           Risk("file_write", c.targets, {})>>,
  <<c.patch,                  Risk("file_write", <<>>, {"structured_tool"})>>,
  <<c.network /\ c.mutates,   Risk("network", c.targets, {"network", "file_write"})>>,
  <<c.network,                Risk("network", <<>>, {"network"})>>,
  <<c.writesByName,           Risk("file_write", <<>>, {"file_write"})>>,
  <<c.mutates /\ ~c.inline,   Risk("file_write", c.targets, {"file_write"})>> >>,
  Risk(SegmentRisk(c), <<>>, {}))

-----------------------------------------------------------------------------
(* What a call is.                                                         *)

Op(kind, scope, paths, flags) ==
  [kind |-> kind, scope |-> scope, paths |-> paths, flags |-> flags,
   risk |-> Risk(None, <<>>, {}), mentions |-> {}]

BashScope(c, r) ==
  <<"bash", r.risk, c.name>> \o
    IF r.targets # <<>> THEN <<Head(r.targets)>>
    ELSE IF "file_write" \in r.effects THEN <<"write-any-path">> ELSE <<>>

BashKind(r) ==
  CASE r.risk = "file_delete" -> "fs.delete"
    [] r.risk = "file_write" -> "fs.write"
    [] r.risk = "network" /\ "file_write" \in r.effects -> "fs.write"
    [] OTHER -> "process.exec"

BashFlags(r) ==
  {f \in {"sensitive", "destructive", "terminal", "read_only"} :
     CASE f = "sensitive" -> r.risk \notin {"safe_check", "read_only_command"}
       [] f = "read_only" -> r.risk = "read_only_command"
       [] OTHER -> r.risk = "destructive"}

BashOperation(c) ==
  LET r == ClassifyBash(c)
  IN [kind |-> BashKind(r),
      scope |-> IF r.risk = "file_write" /\ Len(r.targets) = 1
                THEN <<"write", "bash", r.targets[1]>> ELSE BashScope(c, r),
      paths |-> {r.targets[i] : i \in DOMAIN r.targets},
      flags |-> BashFlags(r), risk |-> r, mentions |-> c.mentions]

\* write_file is asked about as the creation or the replacement of a file.
WriteAction(path) == IF path \in present \ Escaping THEN "replace" ELSE "create"

Operation(call) ==
  CASE call.tool = "bash" -> BashOperation(call.command)
    [] call.tool \in {"read_file", "grep", "list_dir"} ->
         Op("fs.read", <<"read", call.tool, call.path>>, {call.path}, {"read_only"})
    [] call.tool = "write_file" ->
         Op("fs.write", <<"write", WriteAction(call.path), call.path>>, {call.path}, {"terminal"})
    [] call.tool = "edit_file" ->
         Op("fs.write", <<"write", "edit", call.path>>, {call.path}, {"terminal"})
    [] call.tool = "delete_file" ->
         Op("fs.delete", <<"delete", "file", call.path>>, {call.path}, {"sensitive"})
    [] call.tool = "mcp_tool_call" -> Op("mcp.call", <<"mcp", call.path>>, {}, {"sensitive"})
    [] OTHER -> Op("tool", <<"tool", call.tool>>, {}, {"read_only"})

-----------------------------------------------------------------------------
(* The decision of the gate.                                               *)

Decision(behavior, reason, terminal) ==
  [behavior |-> behavior, reason |-> reason, terminal |-> terminal]

Allow(reason) == Decision("allow", reason, FALSE)
Ask(reason, op) == Decision("ask", reason, "terminal" \in op.flags)
Deny(reason, terminal) == Decision("deny", reason, terminal)

\* A rule matches by its scope, and by its tool whatever its scope.
Match(behavior, tool, scope) ==
  \E r \in rules : r.behavior = behavior /\ (r.scope = scope \/ r.tool = tool)

Mutation(op) == op.kind \in {"fs.write", "fs.delete"}
ReadOnly(op) == "read_only" \in op.flags

\* Denials no answer and no rule comes before, in the order of the code.
Refusals(call, op) == <<
  <<call.tool = "bash" /\ call.purpose = "verify"
      /\ (op.risk.risk \in {"file_write", "file_delete"} \/ "file_write" \in op.risk.effects),
    Deny("bash_mixed_mutation_verification", FALSE)>>,
  <<"structured_tool" \in op.risk.effects, Deny("bash_structured_tool_route", FALSE)>>,
  <<op.paths \cap Escaping # {}, Deny("path_escape", op.kind = "fs.delete")>>,
  <<op.scope \in denied, Deny("previously_denied_scope", "terminal" \in op.flags)>>,
  <<Mutation(op) /\ op.mentions \cap NoWrite # {}, Deny("access_policy_bash_write", TRUE)>>,
  <<op.mentions \cap NoRead # {}, Deny("access_policy_bash_read", FALSE)>>,
  <<op.kind = "fs.read" /\ op.paths \cap NoRead # {},
    Deny("access_policy_read", "terminal" \in op.flags)>>,
  <<Mutation(op) /\ op.paths \cap NoWrite # {}, Deny("access_policy_write", TRUE)>> >>

\* What a command is allowed, asked about or refused for, whatever the mode.
BashRows(op) ==
  LET risk == op.risk.risk IN <<
  <<risk = "destructive", Deny("bash_destructive", TRUE)>>,
  <<risk = "file_delete", Deny("bash_file_delete_route", FALSE)>>,
  <<risk = "file_write", Ask("bash_file_write", op)>>,
  <<risk = "safe_check" /\ config.mode = "accept_edits", Allow("accept_edits_safe_check")>>,
  <<risk = "network", Ask("bash_network", op)>>,
  <<risk = "unknown" /\ config.mode = "accept_edits" /\ config.sandbox,
    Allow("sandbox_auto_allow")>>,
  <<risk = "unknown", Ask("bash_unknown", op)>> >>

\* Mutated: a file that exists is deleted as if the task had created it.
AnyCreated(op) == op.paths # {} /\ op.paths \subseteq created \cup present

AllCreated(op) == op.paths # {} /\ op.paths \subseteq created

ModeRows(op) ==
  LET in(mode) == config.mode = mode IN <<
  <<in("accept_edits") /\ ReadOnly(op), Allow("accept_edits_read")>>,
  <<in("accept_edits") /\ op.kind = "fs.delete" /\ AllCreated(op),
    Allow("accept_edits_owned_cleanup")>>,
  <<in("accept_edits") /\ op.kind = "fs.delete", Ask("accept_edits_delete_approval", op)>>,
  <<in("accept_edits") /\ op.kind = "fs.write" /\ "sensitive" \notin op.flags,
    Allow("accept_edits_write")>>,
  <<in("read_only") /\ Mutation(op), Decision("ask", "read_only_escalation", TRUE)>>,
  <<in("read_only") /\ ReadOnly(op), Allow("read_only_allow")>>,
  <<in("manual_approval") /\ (Mutation(op) \/ op.kind = "process.exec"),
    Ask("manual_approval", op)>>,
  <<in("manual_approval") /\ ReadOnly(op), Allow("manual_read")>> >>

\* Mutated: an allow rule is consulted before everything else.
CheckRulesFirst(call, op) ==
  IF Match("allow", call.tool, op.scope) THEN Allow("allow_rule")
  ELSE FirstRow(Refusals(call, op) \o BashRows(op) \o ModeRows(op), Ask("fallback_ask", op))

RuleRows(call, op) == <<
  <<Match("deny", call.tool, op.scope), Deny("deny_rule", "terminal" \in op.flags)>>,
  <<Match("ask", call.tool, op.scope), Ask("ask_rule", op)>> >>

FallbackRows(call, op) == <<
  <<Match("allow", call.tool, op.scope), Allow("allow_rule")>>,
  <<ReadOnly(op), Allow("fallback_read")>> >>

Check(call, op) ==
  FirstRow(Refusals(call, op),
    FirstRow(RuleRows(call, op),
      FirstRow(BashRows(op),
        FirstRow(ModeRows(op),
          FirstRow(FallbackRows(call, op), Ask("fallback_ask", op))))))

\* A question is answered by an earlier approval, or, where nobody can be
\* asked, by a denial.
PreAuthorized(call, op) == op.scope \in approved \/ Match("allow", call.tool, op.scope)

\* Mutated: the question is put whatever the policy.
ResolvedByAsking(call, op) ==
  LET d == Check(call, op)
  IN IF d.behavior = "ask" /\ PreAuthorized(call, op)
     THEN Decision("allow", "approved_scope", d.terminal) ELSE d

Resolved(call, op) ==
  LET d == Check(call, op)
  IN IF d.behavior # "ask" THEN d
     ELSE IF PreAuthorized(call, op) THEN Decision("allow", "approved_scope", d.terminal)
     ELSE IF config.policy = "deny"
          THEN Deny("non_interactive_unapproved", d.terminal)
     ELSE d

-----------------------------------------------------------------------------
(* What becomes of a call.                                                 *)

NoCall == [call |-> None, op |-> None, outcome |-> None, reason |-> None, own |-> FALSE]

\* own: does the call keep to files the task made itself?
Outcome(call, op, outcome, reason) ==
  [call |-> call, op |-> op, outcome |-> outcome, reason |-> reason,
   own |-> op.paths \cap theirs = {}]

ShellDeletes(op) == op.risk.risk \in {"file_delete", "destructive"}

\* The tool runs, and a file tool may still fail.  A command that deletes takes
\* away what it names, or whatever it likes, and leaves the session's records.
Effect(call, op, ok) ==
  IF ~ok \/ ~(Mutation(op) \/ ShellDeletes(op)) THEN UNCHANGED files
  ELSE IF ShellDeletes(op)
  THEN \E gone \in SUBSET present :
         /\ present' = present \ gone /\ theirs' = theirs \ gone
         /\ UNCHANGED created
  ELSE /\ present' = IF call.tool = "delete_file" THEN present \ op.paths
                     ELSE IF call.tool = "edit_file" THEN present
                     ELSE present \cup op.paths
       /\ created' = IF call.tool = "delete_file" THEN created \ op.paths
                     ELSE IF call.tool = "write_file" THEN created \cup (op.paths \ present)
                     ELSE created
       /\ theirs' = IF call.tool = "delete_file" THEN theirs \ op.paths ELSE theirs

Run(call, op, reason) ==
  /\ \E ok \in BOOLEAN : Effect(call, op, ok)
  /\ last' = Outcome(call, op, "ran", reason)
  /\ UNCHANGED status

CachedReasons == {"user_deny", "deny_rule", "path_escape", "access_policy_read",
                  "access_policy_write", "access_policy_bash_write", "bash_destructive"}

\* A terminal denial ends the task, and most of them are remembered.
Denied(call, op, reason, terminal, refused) ==
  /\ last' = Outcome(call, op, "denied", reason)
  /\ status' = IF terminal THEN "cancelled" ELSE status
  /\ denied' = IF terminal /\ reason \in CachedReasons THEN refused \cup {op.scope} ELSE refused
  /\ UNCHANGED files

Idle == status = "running" /\ pending = NoCall

\* The call runs, is denied, or waits for an answer.
Decided(call, op, d) ==
  \/ /\ d.behavior = "allow"
     /\ Run(call, op, d.reason)
     /\ UNCHANGED <<denied, pending>>
  \/ /\ d.behavior = "deny"
     /\ Denied(call, op, d.reason, d.terminal, denied)
     /\ UNCHANGED pending
  \/ /\ d.behavior = "ask"
     /\ pending' = Outcome(call, op, IF d.terminal THEN "terminal" ELSE "plain", d.reason)
     /\ UNCHANGED <<denied, files, status, last>>

ToolCall(call) ==
  /\ Idle
  /\ \E op \in {Operation(call)} : \E d \in {Resolved(call, op)} : Decided(call, op, d)
  /\ UNCHANGED <<config, rules, approved, tasks, consents>>

Asked == status = "running" /\ pending # NoCall

Rule(behavior, tool, scope) == [behavior |-> behavior, tool |-> tool, scope |-> scope]

AllowOnce ==
  /\ Asked
  /\ Run(pending.call, pending.op, "user_allow_once")
  /\ pending' = NoCall
  /\ UNCHANGED <<config, remembered, tasks, consents>>

\* Mutated: the answer for the run is treated as an answer for once.
ForgetfulAllowScope ==
  /\ Asked /\ Cardinality(consents) < MaxConsents
  /\ Run(pending.call, pending.op, "user_allow_scope")
  /\ pending' = NoCall
  /\ consents' = consents \cup {Rule("allow", pending.call.tool, pending.op.scope)}
  /\ UNCHANGED <<config, remembered, tasks>>

AllowScope ==
  /\ Asked /\ Cardinality(consents) < MaxConsents
  /\ approved' = approved \cup {pending.op.scope}
  /\ rules' = rules \cup {Rule("allow", pending.call.tool, pending.op.scope)}
  /\ consents' = consents \cup {Rule("allow", pending.call.tool, pending.op.scope)}
  /\ Run(pending.call, pending.op, "user_allow_scope")
  /\ pending' = NoCall
  /\ UNCHANGED <<config, denied, tasks>>

\* Any other answer, or the end of the input.
DenyOnce ==
  /\ Asked
  /\ LET terminal == pending.outcome = "terminal"
         rule == Rule("deny", pending.call.tool, pending.op.scope)
     IN /\ terminal => Cardinality(consents) < MaxConsents
        /\ rules' = IF terminal THEN rules \cup {rule} ELSE rules
        /\ consents' = IF terminal THEN consents \cup {rule} ELSE consents
        /\ Denied(pending.call, pending.op, "user_deny", terminal,
                  IF terminal THEN denied \cup {pending.op.scope} ELSE denied)
  /\ pending' = NoCall
  /\ UNCHANGED <<config, approved, tasks>>

\* Ctrl+C at the question: the call does not run and the task is over.
Interrupt ==
  /\ Asked
  /\ status' = "cancelled" /\ pending' = NoCall
  /\ UNCHANGED <<config, remembered, files, tasks, consents, last>>

FinishTask ==
  /\ Idle /\ status' = "done"
  /\ UNCHANGED <<config, remembered, files, tasks, pending, consents, last>>

\* Mutated: the refusals are those of the task.
ForgetfulBeginTask ==
  /\ status # "running" /\ tasks < MaxTasks
  /\ status' = "running" /\ tasks' = tasks + 1
  /\ rules' = {r \in rules : r.behavior # "deny"} /\ denied' = {}
  /\ created' = {} /\ theirs' = present /\ last' = NoCall
  /\ UNCHANGED <<config, approved, present, pending, consents>>

\* The rules and the scopes are those of the session; the created files are
\* the task's.
BeginTask ==
  /\ status # "running" /\ tasks < MaxTasks
  /\ status' = "running" /\ tasks' = tasks + 1
  /\ created' = {} /\ theirs' = present /\ last' = NoCall
  /\ UNCHANGED <<config, remembered, present, pending, consents>>

\* The user types no further task.
SessionOver == status # "running" /\ tasks = MaxTasks /\ UNCHANGED vars

Init ==
  /\ config \in Hosts
  /\ rules = config.rules
  /\ approved = {} /\ denied = {}
  /\ present = Existing /\ created = {} /\ theirs = Existing
  /\ status = "idle" /\ tasks = 0
  /\ pending = NoCall /\ consents = {} /\ last = NoCall

Next ==
  \/ \E call \in Calls[config.suite] : ToolCall(call)
  \/ AllowOnce \/ AllowScope \/ DenyOnce \/ Interrupt
  \/ FinishTask \/ BeginTask \/ SessionOver

Spec == Init /\ [][Next]_vars

-----------------------------------------------------------------------------
(* Properties.                                                             *)

\* Types of the variables: what is remembered are scopes, rules and files.
TypeOK ==
  /\ config \in Hosts
  /\ \A r \in rules \cup consents : r.behavior \in {"allow", "ask", "deny"}
  /\ present \cup created \subseteq Paths /\ theirs \subseteq present \ created
  /\ status \in {"idle", "running", "cancelled", "done"}
  /\ tasks \in 0..MaxTasks
  /\ pending # NoCall => pending.call \in Calls[config.suite] /\ pending.outcome \in {"terminal", "plain"}
  /\ last.outcome \in {None, "ran", "denied"}

Ran(reasons) == last.outcome = "ran" /\ last.reason \in reasons
UserSaidYes == {"user_allow_once", "user_allow_scope"}

\* What no mode, rule or answer makes possible.  (An ask rule is consulted before
\* the risk of a command, and puts even a destructive one to the user.)
Forbidden(call, op) ==
  \/ op.paths \cap Escaping # {}
  \/ Mutation(op) /\ (op.paths \cup op.mentions) \cap NoWrite # {}
  \/ op.kind = "fs.read" /\ op.paths \cap NoRead # {}
  \/ op.mentions \cap NoRead # {}
  \/ op.risk.risk \in {"destructive", "file_delete"} /\ ~Match("ask", call.tool, op.scope)
  \/ "structured_tool" \in op.risk.effects

\* The hard denials stand: no allow rule a host adds, no sequence of approvals
\* and no answer ever lets such an operation run or even puts it to the user.
HardDenialsStand ==
  /\ last.outcome = "ran" => ~Forbidden(last.call, last.op)
  /\ pending # NoCall => ~Forbidden(pending.call, pending.op)

\* What a mode lets through without the user.
Silent(op) ==
  CASE config.mode = "read_only" -> ReadOnly(op)
    [] config.mode = "manual_approval" -> ReadOnly(op) /\ op.kind # "process.exec"
    [] config.mode = "accept_edits" ->
         \/ ReadOnly(op)
         \/ op.kind = "fs.write" /\ op.risk.risk = None
         \/ op.kind = "fs.delete" /\ last.own
         \/ op.risk.risk = "safe_check"
         \/ op.risk.risk = "unknown" /\ config.sandbox

\* Whatever else runs was agreed to: for this call, for its scope or its tool
\* earlier in the session, or by a rule of the host.
EverythingElseIsAgreed ==
  last.outcome = "ran" /\ ~Silent(last.op) =>
    \/ last.reason \in UserSaidYes
    \/ \E r \in rules : r.behavior = "allow"
                          /\ (r.tool = last.call.tool \/ r.scope = last.op.scope)

\* Where nobody can be asked nothing is asked, and what needs an answer runs
\* only if the host allowed it.
UnattendedNeverAsks ==
  config.policy = "deny" =>
    /\ pending = NoCall /\ consents = {}
    /\ last.outcome = "ran" /\ ~Silent(last.op) => rules # {}

\* What the prompt and the README say: an approval for the run covers its own
\* scope, and the next scope of the same tool is asked about again.
ApprovalCoversItsScope ==
  Ran({"approved_scope", "allow_rule"}) => \E r \in rules : r.scope = last.op.scope

\* An approval for the run holds: its scope is not asked about again.
NotAskedTwice ==
  pending # NoCall =>
    ~\E r \in consents : r.behavior = "allow" /\ r.scope = pending.op.scope

\* A command that runs in accept_edits without a question or a rule changes no
\* file and reaches no network as far as its text tells, unless it is python -c
\* or the like in the sandbox.
UnaskedCommandsAreHarmless ==
  (config.mode = "accept_edits" /\ last.outcome = "ran"
     /\ last.call.tool = "bash"
     /\ last.reason \notin UserSaidYes \cup {"approved_scope", "allow_rule"}) =>
    LET c == last.call.command
    IN /\ ~c.destructive /\ c.deletes = "no" /\ ~c.pythonWrites /\ ~c.patch
       /\ ~c.network /\ ~c.writesByName
       /\ c.mutates => c.inline /\ config.sandbox

\* A refusal that ended a task is final: its scope never runs later in the
\* session, in this task or another.
RefusalIsFinal ==
  [][\A r \in consents : r.behavior = "deny" /\ last' # last /\ last'.outcome = "ran"
                            => last'.op.scope # r.scope]_vars

\* A question is put only where an answer is needed: never again for a scope
\* approved for the run, and never where nobody answers.
AskedOnlyWhenNeeded == TypeOK /\ NotAskedTwice /\ UnattendedNeverAsks
=============================================================================
