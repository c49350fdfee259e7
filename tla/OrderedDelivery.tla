--------------------------- MODULE OrderedDelivery --------------------------
(***************************************************************************)
(* What the reassembler promises, without sequence numbers, timers, limits *)
(* or statistics: packets are the naturals in sending order, some are held *)
(* back, and what is handed over is always a run of consecutive packets    *)
(* that starts at or after the position, steps only over packets that are  *)
(* not here, and takes everything it can.  Forget starts a new epoch.      *)
(***************************************************************************)
EXTENDS Integers

VARIABLES sent,     \* packets the peer has sent
          started,  \* a position has been chosen
          pos,      \* the first packet not yet delivered or given up
          held,     \* packets held back
          out       \* the packets handed over by the last step, in order

vars == <<sent, started, pos, held, out>>

Init == sent = 0 /\ started = FALSE /\ pos = 0 /\ held = {} /\ out = <<>>

Send == sent' = sent + 1 /\ out' = <<>> /\ UNCHANGED <<started, pos, held>>

\* Packet n is kept for later: it is not the one waited for.
Hold(n) ==
  /\ n < sent
  /\ started => n > pos
  /\ held' = held \cup {n}
  /\ out' = <<>>
  /\ UNCHANGED <<sent, started, pos>>

\* The run from .. upto - 1 is handed over out of the packets at hand.
Release(hand, from, upto) ==
  /\ from < upto /\ from .. upto - 1 \subseteq hand
  /\ started => from >= pos
  /\ \A p \in hand : p >= from /\ p # upto
  /\ pos' = upto /\ started' = TRUE
  /\ held' = hand \ (from .. upto - 1)
  /\ out' = [i \in 1 .. upto - from |-> from + i - 1]
  /\ UNCHANGED sent

Forget == /\ sent' = 0 /\ started' = FALSE /\ pos' = 0 /\ held' = {}
          /\ out' = <<>>

\* Duplicates, late packets and the passing of time hand over nothing.
Quiet == out' = <<>> /\ UNCHANGED <<sent, started, pos, held>>

Next ==
  \/ Send \/ Forget \/ Quiet
  \/ \E n \in 0 .. sent - 1 : Hold(n)
  \/ \E new \in {{}} \cup {{n} : n \in 0 .. sent - 1} :
       \E from, upto \in 0 .. sent : Release(held \cup new, from, upto)

Spec == Init /\ [][Next]_vars
=============================================================================
