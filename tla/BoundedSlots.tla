---------------------------- MODULE BoundedSlots ----------------------------
(* What the MCP server promises of its provider calls: no more of them hold *)
(* one of the Slots than there are, and each holds one at most once.       *)
EXTENDS Naturals, FiniteSets

CONSTANTS Calls, Slots

VARIABLES
  holding,  \* the calls that hold a slot
  over      \* the calls that are not going to hold one (again)

SlotsInit == holding = {} /\ over = {}

Acquire(c) ==
  /\ c \notin holding \cup over
  /\ Cardinality(holding) < Slots
  /\ holding' = holding \cup {c}
  /\ UNCHANGED over

Release(c) ==
  /\ c \in holding
  /\ holding' = holding \ {c}
  /\ over' = over \cup {c}

Refuse(c) ==
  /\ c \notin holding \cup over
  /\ over' = over \cup {c}
  /\ UNCHANGED holding

SlotsNext == \E c \in Calls : Acquire(c) \/ Release(c) \/ Refuse(c)

SlotsSpec == SlotsInit /\ [][SlotsNext]_<<holding, over>>
=============================================================================
