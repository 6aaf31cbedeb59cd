------------------------- MODULE MCTicketDecisions -------------------------
(* Instances of TicketWorkflow with two requests for TLC.                  *)
EXTENDS MCTicketWorkflow

\* Two instances in one run: people who decide in every way on plans of
\* different risk, while no task is retried; and tasks that are, while people
\* approve, reject or select a plan that anybody may approve.
VARIABLE part

Everyday ==
  /\ wf.opts \subseteq {basic}
  /\ \A r \in Requests :
       /\ req[r].kind \in {"approve", "reject", "select"}
       /\ req[r].role <= 1 /\ req[r].plan \in {basic, NoPlan}

DecisionsNext ==
  /\ Next /\ UNCHANGED part
  /\ part = "people"  => wf'.retries = 0
  /\ part = "retries" => Everyday'

DecisionsSpec ==
  Init /\ part \in {"people", "retries"} /\ [][DecisionsNext]_<<vars, part>>
=============================================================================
