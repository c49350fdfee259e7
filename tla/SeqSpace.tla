------------------------------ MODULE SeqSpace ------------------------------
(***************************************************************************)
(* Unsigned sequence numbers that wrap, and the signed distance the        *)
(* concentrator compares them with (icg/concentrator/reorder.go).  The     *)
(* code's numbers are uint32; here the width is a parameter: the space has *)
(* 2 * Half numbers, so Half = 2^31 in the program.                        *)
(*                                                                         *)
(* Plus and Diff are written without % so that they stay linear for the    *)
(* provers; theorem WordArithmetic of Reorder_proofs says that they are    *)
(* addition and signed difference on a word of that width.                 *)
(***************************************************************************)
EXTENDS Integers

CONSTANT Half   \* half the sequence space: the largest signed distance plus 1

ASSUME HalfAssumption == Half \in Nat \ {0}

Space == 2 * Half

SeqNum == 0 .. Space - 1

\* a + i on uint32, for i below Space
Plus(a, i) == IF a + i >= Space THEN a + i - Space ELSE a + i

\* the comparison a fresh reader would write first: no wrap-around
DiffNoWrap(a, b) == a - b

\* int32(a - b)
Diff(a, b) ==
  LET d == IF a >= b THEN a - b ELSE a - b + Space
  IN  IF d < Half THEN d ELSE d - Space

\* A counter that numbers packets: w[k] is the number of packet k, w[n] the
\* value of the counter.  One more packet is numbered.
Numbered(w, n) ==
  [k \in 0 .. n + 1 |-> IF k <= n THEN w[k] ELSE Plus(w[n], 1)]
=============================================================================
