------------------------------ MODULE MCMoves -------------------------------
(* Instances of Moves for TLC. *)
EXTENDS Moves, TLC

CONSTANTS here, there, near, far

\* Two loose files, each with a folder of its own to go to.
Apart == {<<here, there>>, <<near, far>>}

Symmetric == {f @@ g : f \in Permutations(Workers), g \in Permutations(Contents)}
=============================================================================
