--------------------------- MODULE MCPermissionGate ---------------------------
EXTENDS PermissionGate

CONSTANTS own, old, secret, outside

MCPaths == {own, old, secret, outside}

\* A command with no effect the classifier knows of.
Quiet(name) ==
  [name |-> name, destructive |-> FALSE, deletes |-> "no", pythonWrites |-> FALSE,
   patch |-> FALSE, network |-> FALSE, writesByName |-> FALSE, mutates |-> FALSE,
   inline |-> FALSE, dynamic |-> FALSE, segments |-> {"other"}, targets |-> <<>>,
   mentions |-> {}]

Bash(command, purpose) ==
  [tool |-> "bash", path |-> None, command |-> command, purpose |-> purpose]
Tool(tool, path) == [tool |-> tool, path |-> path, command |-> None, purpose |-> "run"]

Writes(name, targets) == [Quiet(name) EXCEPT !.mutates = TRUE, !.targets = targets,
                             !.mentions = {targets[i] : i \in DOMAIN targets} \cap {secret}]

FileCalls ==
  {Tool("read_file", secret)}
    \cup {Tool("write_file", p) : p \in {own, old, secret}}
    \cup {Tool("delete_file", p) : p \in {own, old, outside}}

ShellCalls ==
  {Bash(Writes("cmd1", <<own>>), "run"),
   Bash(Writes("cmd1", <<own, secret>>), "run"),
   Bash([Quiet("cmd2") EXCEPT !.network = TRUE], "run"),
   Bash([Quiet("cmd2") EXCEPT !.destructive = TRUE], "run")}

Modes == {"read_only", "accept_edits", "manual_approval"}

MixedCalls == FileCalls \cup ShellCalls

HostRule == [behavior |-> "allow", tool |-> "write_file", scope |-> <<"write", "create", own>>]
AskRule == [behavior |-> "ask", tool |-> "bash", scope |-> None]

Host(mode, policy, sandbox, preset, suite) ==
  [mode |-> mode, policy |-> policy, sandbox |-> sandbox, rules |-> preset, suite |-> suite]

\* A user at the prompt; nobody to ask, with and without a rule of the host; a
\* host that has every command asked about; and every command once where most
\* are let through.
MCHosts ==
  {Host(mode, "ask", FALSE, {}, "files") : mode \in Modes}
    \cup {Host(mode, "deny", FALSE, preset, "files") : mode \in Modes, preset \in {{}, {HostRule}}}
    \cup {Host("accept_edits", "ask", FALSE, {AskRule}, "shell")}
    \cup {Host("accept_edits", "deny", sandbox, {}, "commands") : sandbox \in BOOLEAN}

\* Hosts that have no rules of their own and ask: each rule comes from an answer.
MCAskingHosts == {h \in MCHosts : h.policy = "ask" /\ h.rules = {}}

\* Commands with up to two of the facts the classifier looks for, one call of
\* each: every two rows of its table compete.
Facts == {"destructive", "pyDelete", "shDelete", "pythonWrites", "patch", "network",
          "writesByName", "mutates", "inline", "dynamic"}
Segments == {{"read"}, {"safe", "other"}}

WithFacts(facts, segments) ==
  [name |-> "cmd1", destructive |-> "destructive" \in facts,
   deletes |-> IF "pyDelete" \in facts THEN "python"
               ELSE IF "shDelete" \in facts THEN "shell" ELSE "no",
   pythonWrites |-> "pythonWrites" \in facts, patch |-> "patch" \in facts,
   network |-> "network" \in facts, writesByName |-> "writesByName" \in facts,
   mutates |-> "mutates" \in facts, inline |-> "inline" \in facts,
   dynamic |-> "dynamic" \in facts,
   segments |-> IF "inline" \in facts THEN {"other"} ELSE segments,
   targets |-> IF facts \cap {"pyDelete", "pythonWrites", "mutates"} # {}
               THEN <<own>> ELSE <<>>,
   mentions |-> {}]

CommandCalls ==
  {Tool(t, p) : t \in Tools \ {"bash"}, p \in {own, outside}}
    \cup {Bash(WithFacts(f, {"safe", "read"}), "run") :
             f \in {g \in SUBSET Facts : Cardinality(g) <= 2}}
    \cup {Bash(WithFacts(f, s), "run") :
             f \in {g \in SUBSET Facts : Cardinality(g) <= 1}, s \in Segments}
    \cup {Bash(WithFacts({f}, {"safe"}), "verify") : f \in Facts}

DeletingCalls == {Bash([Quiet("cmd2") EXCEPT !.deletes = "shell"], "run"),
                  Tool("write_file", own), Tool("delete_file", own)}

MCCalls == [suite \in {"files", "shell", "commands"} |->
              CASE suite = "files" -> MixedCalls
                [] suite = "shell" -> ShellCalls \cup DeletingCalls
                [] suite = "commands" -> CommandCalls]
=============================================================================
