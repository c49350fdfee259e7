----------------------------- MODULE MCDownlink -----------------------------
(* Downlink for TLC: a space of eight wire numbers, so that they wrap. *)
EXTENDS Downlink
=============================================================================
