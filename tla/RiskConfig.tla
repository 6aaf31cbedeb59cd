----------------------------- MODULE RiskConfig -----------------------------
(***************************************************************************)
(* The approval contract: the risk of a remediation plan, and the role it  *)
(* demands.  A step declares its risk, and its shell command implies one;  *)
(* the command is a floor under the declaration.                           *)
(*                                                                         *)
(* A command is what the code looks for in it: its segments, each a tool   *)
(* with what its arguments say, and marks of the text as a whole.          *)
(***************************************************************************)
EXTENDS Naturals

Levels == {"basic", "controlled", "risky", "critical"}

Order == [basic |-> 0, controlled |-> 1, risky |-> 2, critical |-> 3]

\* The rank of the role each level requires: USER, ADMIN, ADMIN, SUPERADMIN.
RequiredRank == [basic |-> 1, controlled |-> 2, risky |-> 2, critical |-> 3]

Highest(levels) ==
  CHOOSE l \in levels : \A m \in levels : Order[m] <= Order[l]

-----------------------------------------------------------------------------
(* Commands.                                                               *)

\* Tools with a rule of their own; the others are of the level that
\* COMMAND_RISK_MAP lists them with, or "unlisted".
Tools == {"rm", "shred", "unlink", "find", "manage", "sed", "fetch", "dd",
          "chmod", "move", "unlisted"} \cup Levels

\* recursive and system: it has a recursive flag, and names a system path;
\* harmless: it only shows, does not delete, writes no file or no device.
Segments == [tool : Tools, recursive : BOOLEAN, system : BOOLEAN,
             harmless : BOOLEAN]

SegmentRisk(s) ==
  CASE s.tool = "rm"     -> IF s.recursive /\ s.system THEN "critical" ELSE "risky"
    [] s.tool = "shred"  -> IF s.system THEN "critical" ELSE "risky"
    [] s.tool = "unlink" -> "risky"
    [] s.tool = "find"   -> IF s.harmless THEN "basic" ELSE "risky"
    [] s.tool = "dd"     -> IF s.harmless THEN "controlled" ELSE "critical"
    [] s.tool = "chmod"  -> IF s.recursive /\ s.system THEN "risky" ELSE "controlled"
    [] s.tool = "move"   -> "controlled"
    [] s.tool \in {"manage", "sed", "fetch"} ->
         IF s.harmless THEN "basic" ELSE "controlled"
    [] OTHER             -> s.tool

\* Of the whole text: a partitioning tool or dd to a device, a pipe into a
\* shell, a redirection into a protected file or a system path.
MarkRisk == [partition |-> "critical", device |-> "critical", shell |-> "risky",
             protected |-> "critical", path |-> "controlled"]

Commands == [segments : SUBSET Segments, marks : SUBSET DOMAIN MarkRisk]

\* What infer_risk_from_command takes the highest of, if there is any.
CommandRisks(c) ==
  ({SegmentRisk(s) : s \in c.segments} \cup {MarkRisk[m] : m \in c.marks})
    \cap Levels

-----------------------------------------------------------------------------
(* Steps and plans.                                                        *)

\* action: the level of ACTION_TYPE_RISK_MAP, basic for an unknown type.
PlanSteps == [level : Levels \cup {"none"},
              impact : {"none", "important", "irreversible"},
              important : BOOLEAN, action : Levels, command : Commands]

Declared(step) ==
  CASE step.level # "none"          -> step.level
    [] step.level = "none" /\ step.impact = "irreversible" -> "critical"
    [] step.level = "none" /\ step.impact = "important"    -> "risky"
    [] OTHER -> IF step.important THEN "risky" ELSE step.action

\* Mutant: the declaration is believed.
DeclaredOnly(step) == Declared(step)

StepRisk(step) == Highest({Declared(step)} \cup CommandRisks(step.command))

PlanContents == [level : Levels \cup {"none"}, steps : SUBSET PlanSteps]

\* compute_max_risk_level: a level on the plan itself is a floor as well.
PlanRisk(plan) ==
  Highest({"basic"} \cup {StepRisk(s) : s \in plan.steps}
            \cup ({plan.level} \cap Levels))

RequiredRoleOf(plan) == RequiredRank[PlanRisk(plan)]
=============================================================================
