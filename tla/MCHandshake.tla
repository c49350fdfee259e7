----------------------------- MODULE MCHandshake ----------------------------
(* Small instances of Handshake. *)
EXTENDS Handshake

CONSTANTS l1, l2, w, m1, m2

MCLegs == {l1, l2}
MCStranger == {w}
MCMacs == {m1, m2}
MCAllowed == {m1}
=============================================================================
