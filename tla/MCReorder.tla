----------------------------- MODULE MCReorder ------------------------------
(***************************************************************************)
(* Small instances of Reorder.  Half = 8 gives 4-bit numbers, and an epoch *)
(* that starts at 14 wraps after two packets.                              *)
(***************************************************************************)
EXTENDS Reorder

\* The wrap falls inside the packets sent, or just before the first.
MCBases == {0, 14}
=============================================================================
