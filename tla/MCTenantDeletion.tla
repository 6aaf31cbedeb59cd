-------------------------- MODULE MCTenantDeletion --------------------------
(* Instances of TenantDeletion and of Accounts for TLC.  The two share no  *)
(* state, and a behaviour is one of the one or of the other.               *)
EXTENDS TenantDeletion, Accounts, TLC

VARIABLE part  \* which of the two goes on

TenantsInit == DeletionInit /\ AccountsInit /\ part \in {"deletion", "accounts"}

TenantsNext ==
  /\ UNCHANGED part
  /\ \/ part = "deletion" /\ DeletionNext /\ UNCHANGED accountVars
     \/ part = "accounts" /\ AccountsNext /\ UNCHANGED allVars

TenantsSpec == TenantsInit /\ [][TenantsNext]_<<allVars, accountVars, part>>

\* Documents, copies and requests differ by name only.
Symmetry ==
  Permutations(Documents) \cup Permutations(Copies) \cup Permutations(Deletes)
    \cup Permutations(Requests)
=============================================================================
