------------------------------- MODULE MCChat -------------------------------
(* Instances of Chat for TLC.                                              *)
EXTENDS Chat, TLC

\* The deployments: direct and governed, with capabilities or without them.
MCSettings == {<<FALSE, FALSE, "direct">>, <<TRUE, TRUE, "agentcore">>,
                <<FALSE, TRUE, "agentcore">>}

MCAsks == {[tool |-> "tickets.get", args |-> "good"],
           [tool |-> "tickets.list", args |-> "owner"]}

MCHome == [u \in Users |-> CHOOSE t \in Tenants : TRUE]

Symmetry == Permutations(Threads) \cup Permutations(Turns)
=============================================================================
