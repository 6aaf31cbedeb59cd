----------------------------- MODULE ConfirmOnce -----------------------------
(***************************************************************************)
(* What the confirmation of one SOPHIA ticket proposal promises, whoever   *)
(* confirms it how often: at most one ticket comes of it, that ticket is   *)
(* there until it is deleted and never comes back, it is announced at most *)
(* once, and everybody who is told of a ticket is told of that one.        *)
(***************************************************************************)
EXTENDS Naturals

CONSTANTS Tickets, NoTicket

VARIABLES
  chosen,     \* the ticket the proposal became, or NoTicket
  live,       \* is it in the table?
  announced,  \* how often each ticket was announced by a ticket.created event
  told        \* the tickets callers were told of

onceVars == <<chosen, live, announced, told>>

OnceInit ==
  /\ chosen = NoTicket
  /\ live = FALSE
  /\ announced = [t \in Tickets |-> 0]
  /\ told = {}

Confirm(t) ==
  /\ chosen = NoTicket
  /\ chosen' = t /\ live' = TRUE
  /\ UNCHANGED <<announced, told>>

Delete ==
  /\ live
  /\ live' = FALSE
  /\ UNCHANGED <<chosen, announced, told>>

Announce ==
  /\ chosen # NoTicket /\ announced[chosen] = 0
  /\ announced' = [announced EXCEPT ![chosen] = 1]
  /\ UNCHANGED <<chosen, live, told>>

Tell ==
  /\ chosen # NoTicket
  /\ told' = told \cup {chosen}
  /\ UNCHANGED <<chosen, live, announced>>

OnceNext == (\E t \in Tickets : Confirm(t)) \/ Delete \/ Announce \/ Tell

OnceSpec == OnceInit /\ [][OnceNext]_onceVars
=============================================================================
