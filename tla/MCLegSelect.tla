---------------------------- MODULE MCLegSelect ----------------------------
(* LegSelect for TLC: two legs of one kind and one of the other. *)
EXTENDS LegSelect, TLC

CONSTANTS t1, t2, u1

MCLegs    == {t1, t2, u1}
MCTcpLegs == {t1, t2}
Symmetry  == Permutations(MCTcpLegs)
=============================================================================
