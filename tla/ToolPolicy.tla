----------------------------- MODULE ToolPolicy -----------------------------
(***************************************************************************)
(* What the tool gateway grants to a request of SOPHIA: the registry, the   *)
(* policy, the executor and the ways a tool can be executed.  A request is  *)
(* a tool and the kind of arguments the model gave it.                      *)
(***************************************************************************)
EXTENDS Naturals, Sequences

\* The tools, by what the registry says of them.  "write", "approve" and
\* "destroy" stand for definitions the policy provides for and the registry
\* has none of; a handler is missing for those.
Readers == {"tickets.list", "tickets.get", "documents.list", "unread_count"}
Reserved == {"dashboard.summary", "integrations.summary"}
Tools == Readers \cup Reserved \cup {"write", "approve", "destroy"}

\* "owner": the arguments name a tenant, a user, a role or a token;
\* "wrong": the handler refuses them; "list": they are no mapping.
Arguments == {"good", "wrong", "owner", "list"}

Access(tool) ==
  CASE tool = "write"   -> "WRITE_SAFE"
    [] tool = "approve" -> "WRITE_REQUIRES_APPROVAL"
    [] tool = "destroy" -> "DESTRUCTIVE_BLOCKED"
    [] OTHER            -> "READ_ONLY"

Enabled(tool) == tool \notin Reserved

AllowedRoles == {"USER", "ADMIN", "ADMIN_XOC"}
KnownRoles == AllowedRoles \cup {"SUPERADMIN"}

Undelegated(c) == c.role = "ADMIN_XOC" /\ ~c.delegated

HasOwnershipArgument(ask) == ask.args = "owner"

\* evaluate_tool_request: the first reason that holds.
Grounds(c, ask) ==
  << <<ask.args = "list", "invalid_arguments">>,
     <<HasOwnershipArgument(ask), "ownership_argument_forbidden">>,
     <<ask.tool \notin Tools, "unknown_tool">>,
     <<c.role \notin KnownRoles, "invalid_role">>,
     <<c.role = "SUPERADMIN", "superadmin_ai_blocked">>,
     <<Access(ask.tool) = "DESTRUCTIVE_BLOCKED", "destructive_tool_blocked">>,
     <<Access(ask.tool) = "WRITE_REQUIRES_APPROVAL", "approval_required">>,
     <<Access(ask.tool) = "WRITE_SAFE", "write_tools_disabled">>,
     <<~Enabled(ask.tool), "tool_disabled">>,
     <<c.role \notin AllowedRoles, "role_forbidden">>,
     <<Undelegated(c), "delegation_required">> >>

Evaluate(c, ask) ==
  LET grounds == Grounds(c, ask)
      holding == {i \in DOMAIN grounds : grounds[i][1]}
  IN IF holding = {} THEN "allowed"
     ELSE grounds[CHOOSE i \in holding : \A j \in holding : i <= j][2]

\* The handlers check their arguments and read; each of them may fail.
Handled(ask) ==
  IF ask.args = "wrong" THEN {"invalid_arguments"}
                        ELSE {"allowed", "execution_failed"}

\* ToolExecutor.execute
Executed(c, ask) ==
  IF Evaluate(c, ask) # "allowed" THEN {Evaluate(c, ask)} ELSE Handled(ask)

\* validate_context of the assertion for AgentCore.
Assertable(c) ==
  /\ c.role \in AllowedRoles
  /\ IF c.role = "ADMIN_XOC" THEN c.delegated
                             ELSE ~c.delegated /\ c.home = c.tenant

\* AgentCoreExecution.execute: the same policy here and, on the identity that
\* is verified there, at the target; every failure denies.
ExecutedRemotely(c, ask) ==
  IF Evaluate(c, ask) # "allowed" THEN {Evaluate(c, ask)}
  ELSE IF ~Assertable(c) \/ ask.tool \notin Readers THEN {"agentcore_unavailable"}
  ELSE {"agentcore_unavailable"} \cup
         {IF code = "allowed" THEN "allowed" ELSE "denied" : code \in Executed(c, ask)}

\* selected_execution: anything but these two modes denies.
ExecutedBy(port, c, ask) ==
  CASE port = "direct"    -> Executed(c, ask)
    [] port = "agentcore" -> ExecutedRemotely(c, ask)
    [] OTHER              -> {"tool_transport_unavailable"}
=============================================================================
