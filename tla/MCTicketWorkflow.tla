-------------------------- MODULE MCTicketWorkflow --------------------------
(* Instances of TicketWorkflow for TLC.                                    *)
EXTENDS TicketWorkflow, TLC

\* A plan a USER may approve, and one whose step hides an rm behind "basic",
\* which takes an ADMIN.
CONSTANTS basic, risky

Shows == [segments |-> {[tool |-> "basic", recursive |-> FALSE,
                         system |-> FALSE, harmless |-> TRUE]}, marks |-> {}]
Removes == [segments |-> {[tool |-> "rm", recursive |-> TRUE,
                           system |-> FALSE, harmless |-> FALSE]}, marks |-> {}]

OneStep(command) ==
  [level |-> "none",
   steps |-> {[level |-> "basic", impact |-> "none", important |-> FALSE,
               action |-> "basic", command |-> command]}]

MCContent ==
  [p \in Plans |-> CASE p = basic -> OneStep(Shows)
                     [] p = risky -> OneStep(Removes)]

\* PUTs of one field each, by people who do not know better: the status, the
\* plan, and the decision on the first wait with another plan and the role of
\* a USER.
PutOf(field) == [OtherFields EXCEPT !.fields = {field}]

StatusBodies ==
  {[PutOf("status") EXCEPT !.status = s] : s \in {"PREAPROBADO", "RESUELTO"}}

PlanBodies ==
  {[PutOf("action_plan") EXCEPT !.plan = p] : p \in Plans} \cup
  {[PutOf("pending_decision") EXCEPT
      !.pending = [NoDecision EXCEPT !.token = 1, !.rec = p, !.opts = {p}]] :
     p \in Plans}

AllBodies == StatusBodies \cup PlanBodies

\* Requests differ by name only.
Symmetry == Permutations(Requests)
=============================================================================
