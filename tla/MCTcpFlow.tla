------------------------------ MODULE MCTcpFlow ------------------------------
(* TcpFlow for TLC: queues and channel of one place, so that they fill up. *)
EXTENDS TcpFlow, TLC

CONSTANTS a, b   \* two tuples

MCTuples == {a, b}
MCTuple  == {a}

Symmetry == Permutations(MCTuples)
=============================================================================
