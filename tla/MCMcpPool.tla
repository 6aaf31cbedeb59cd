------------------------------ MODULE MCMcpPool ------------------------------
(* Instances of McpPool for TLC.                                           *)
EXTENDS McpPool, TLC

\* Nothing tells a tenant's call from another.
Symmetry == Permutations(Calls \ Private)
=============================================================================
