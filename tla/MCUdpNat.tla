------------------------------ MODULE MCUdpNat ------------------------------
(* UdpNat for TLC: a channel of one place, so that it fills up. *)
EXTENDS UdpNat

CONSTANTS a, b, h   \* two inside addresses, an outside one

\* A datagram with eight bytes of data.
Good(s) ==
  [len |-> 36, version |-> 4, ihl |-> 20, total |-> 36, fragment |-> FALSE,
   proto |-> "udp", ulen |-> 16, src |-> s, dst |-> h]

\* Options, padding behind the datagram and a wrong UDP length are tolerated.
Odd(s) == [Good(s) EXCEPT !.len = 44, !.ihl = 24, !.total = 40, !.ulen = 99]

\* What the parsers refuse.
Bad(s) ==
  {[Good(s) EXCEPT !.len = 19, !.total = 19, !.ihl = 0],
   [Good(s) EXCEPT !.version = 6],
   [Good(s) EXCEPT !.ihl = 16],
   [Good(s) EXCEPT !.total = 37],
   [Good(s) EXCEPT !.fragment = TRUE],
   [Good(s) EXCEPT !.proto = "tcp"],
   [Good(s) EXCEPT !.len = 27, !.total = 27]}

\* A total length that ends in the options.
Short(s) == [Good(s) EXCEPT !.ihl = 24, !.total = 22]

MCPackets == {Good(a), Odd(b), Short(a)} \cup Bad(a)
=============================================================================
