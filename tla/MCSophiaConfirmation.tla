------------------------ MODULE MCSophiaConfirmation ------------------------
(* Instances of SophiaConfirmation for TLC.                                *)
EXTENDS SophiaConfirmation, TLC

CONSTANTS c1, c2, c3, same, other

\* c1 and c2 replay one proposal; c3 has its proposal_id with other content.
MCContent == [c \in Callers |-> IF c = c3 THEN other ELSE same]

\* c1 and c2 differ by name only.
Symmetry == Permutations(Callers \ {c3})
=============================================================================
