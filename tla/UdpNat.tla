------------------------------- MODULE UdpNat -------------------------------
(***************************************************************************)
(* The UDP NAT of one session (icg/concentrator/udpflow.go, the parsers of *)
(* ipv4.go, and the parts of session.go that drive them).  The session     *)
(* goroutine owns the table udpFlows: it opens a socket per inside and     *)
(* outside address, and closes it when the tuple has been silent, at a     *)
(* handshake and when it ends.  Every socket has a goroutine that reads    *)
(* replies from it (udpReadPump) and posts them into the channel out.      *)
(*                                                                         *)
(* Sockets are named by the order in which they are opened, so that a      *)
(* tuple used twice gives two.  close is one step: only the session        *)
(* goroutine calls it.  The numbering, stashing and sending of the frame a *)
(* reply becomes is module Downlink.  Outside hosts are the environment:   *)
(* they answer, or refuse, whenever they like.                             *)
(***************************************************************************)
EXTENDS Naturals, Sequences, FiniteSets

CONSTANTS Packet,              \* IPv4 packets the device may tunnel, see below
          MaxFlowsPerSession,  \* Config.MaxFlowsPerSession
          UDPFlowIdle,         \* Config.UDPFlowIdle, in units of Elapse
          OutCap,              \* capacity of Session.out (512)
          MaxSockets,          \* bound: sockets opened in all
          MaxUplinks,          \* bound: datagrams that reach a socket
          MaxReads,            \* bound: replies read from one socket
          MaxResets            \* bound: handshakes

-----------------------------------------------------------------------------
(* Packets.  Of the bytes of a packet only what the parsers look at: the   *)
(* number of bytes at hand and the fields of its two headers.              *)

IPHdr  == 20
UDPHdr == 8

\* A slice b[lo:hi] of a buffer of n bytes panics.
OutOfRange(lo, hi, n) == ~ (lo <= hi /\ hi <= n)

\* parseIPv4 finds nothing wrong and cuts the payload b[ihl:total] out.
\* Fragments are not reassembled; padding behind the total length is ignored.
CutsPayload(p) ==
  /\ p.len >= IPHdr /\ p.version = 4
  /\ p.ihl >= IPHdr /\ p.len >= p.ihl
  /\ p.total <= p.len
  /\ ~ p.fragment

PayloadPanics(p) == OutOfRange(p.ihl, p.total, p.len)

\* len(p.Payload)
PayloadLen(p) == p.total - p.ihl

\* parseUDP finds nothing wrong and cuts the data b[8:ln] out.
CutsData(p) ==
  /\ CutsPayload(p) /\ ~ PayloadPanics(p)
  /\ p.proto = "udp" /\ PayloadLen(p) >= UDPHdr

\* Faulty variant of DataEnd: a length field that is too large is believed.
DataEndBelieved(p) == IF p.ulen < UDPHdr THEN PayloadLen(p) ELSE p.ulen

\* ln, where the data ends in the payload: a bad length field is tolerated.
DataEnd(p) ==
  IF p.ulen < UDPHdr \/ p.ulen > PayloadLen(p) THEN PayloadLen(p) ELSE p.ulen

\* The payload may be sliced up to the end of the bytes at hand.
DataPanics(p) == OutOfRange(UDPHdr, DataEnd(p), p.len - p.ihl)

Panics(p) ==
  \/ CutsPayload(p) /\ PayloadPanics(p)
  \/ CutsData(p) /\ DataPanics(p)

\* Both parsers accept it.
Parses(p) == CutsData(p) /\ ~ DataPanics(p)

\* udpKey
Key(p) == <<p.src, p.dst>>

Keys == {Key(p) : p \in Packet}

ASSUME UdpNatAssumption ==
  /\ \A p \in Packet : /\ p.len \in Nat /\ p.ihl \in Nat
                       /\ p.total \in Nat /\ p.ulen \in Nat
  /\ IsFiniteSet(Packet)
  /\ MaxFlowsPerSession \in Nat \ {0} /\ UDPFlowIdle \in Nat
  /\ OutCap \in Nat \ {0}
  /\ MaxSockets \in Nat /\ MaxUplinks \in Nat /\ MaxReads \in Nat
  /\ MaxResets \in Nat

-----------------------------------------------------------------------------
VARIABLES
  running,  \* the session goroutine has not left its loop
  nat,      \* the map udpFlows: the socket of each tuple, or None
  opened,   \* stats.UDPFlows
  sock,     \* sock[s]: the struct udpFlow, its socket and its reader
  out,      \* the channel out
  uplinks,  \* datagrams written to sockets so far
  resets,   \* handshakes accepted
  srvDone,  \* the server's context is cancelled
  fatal     \* the packet whose parsing ended the program, if any

vars == <<running, nat, opened, sock, out, uplinks, resets, srvDone, fatal>>

Socket == 1 .. MaxSockets
None   == 0
NoKey  == <<>>

Mapped == {k \in Keys : nat[k] # None}

InNat == {nat[k] : k \in Mapped}

NoSocket == [key |-> NoKey, conn |-> "none", pump |-> "none", age |-> 0,
             read |-> 0, sent |-> 0]

Init ==
  /\ running = TRUE /\ nat = [k \in Keys |-> None] /\ opened = 0
  /\ sock = [s \in Socket |-> NoSocket] /\ out = <<>>
  /\ uplinks = 0 /\ resets = 0 /\ srvDone = FALSE /\ fatal = {}

-----------------------------------------------------------------------------
(* The session goroutine                                                   *)

\* close, for every socket of a set.
Closed(set) ==
  [s \in Socket |-> IF s \in set THEN [sock[s] EXCEPT !.conn = "closed"]
                                 ELSE sock[s]]

\* Faulty variant of AtLimit: one socket too many.
AtLimitByOne == Cardinality(Mapped) > MaxFlowsPerSession

AtLimit == Cardinality(Mapped) >= MaxFlowsPerSession

\* openUDPFlow, with the first datagram written.
Open(k) ==
  /\ opened < MaxSockets /\ opened' = opened + 1
  /\ nat' = [nat EXCEPT ![k] = opened + 1]
  /\ sock' = [sock EXCEPT ![opened + 1] =
                [key |-> k, conn |-> "open", pump |-> "reading", age |-> 0,
                 read |-> 0, sent |-> 0]]

\* deliverUDP, for a packet the reassembler released and the parsers accept.
\* The dial may fail; what conn.Write returns makes no difference.
DeliverUDP(p) ==
  LET k == Key(p)
  IN  /\ running /\ Parses(p)
      /\ uplinks < MaxUplinks
      /\ \/ /\ nat[k] # None /\ uplinks' = uplinks + 1
            /\ sock' = [sock EXCEPT ![nat[k]].age = 0]
            /\ UNCHANGED <<nat, opened>>
         \/ nat[k] = None /\ ~ AtLimit /\ Open(k) /\ uplinks' = uplinks + 1
         \/ nat[k] = None /\ UNCHANGED <<nat, opened, sock, uplinks>>
      /\ UNCHANGED <<running, out, resets, srvDone, fatal>>

\* Anything else in a type-0 frame is dropped.
DropUDP(p) == running /\ ~ Parses(p) /\ ~ Panics(p) /\ UNCHANGED vars

\* Nobody recovers: a panic of the session goroutine is the end of the program,
\* with all its sockets, goroutines and channels.
Panic(p) ==
  /\ running /\ Panics(p) /\ fatal' = {p}
  /\ running' = FALSE /\ srvDone' = TRUE /\ out' = <<>>
  /\ sock' = [s \in Socket |->
       IF sock[s].conn = "none" THEN sock[s]
       ELSE [sock[s] EXCEPT !.conn = "closed", !.pump = "over"]]
  /\ UNCHANGED <<nat, opened, uplinks, resets>>

\* handleUpstream and sendUDPDown: the reply goes down.
HandleUpstream ==
  /\ running /\ out # <<>> /\ out' = Tail(out)
  /\ sock' = [sock EXCEPT ![Head(out).sock].sent = Head(out).n]
  /\ UNCHANGED <<running, nat, opened, uplinks, resets, srvDone, fatal>>

Expired == {k \in Mapped : sock[nat[k]].age > UDPFlowIdle}

\* Faulty variant of ReapFlows: the entry goes, its socket stays open.
ReapOnlyForgets ==
  /\ running /\ Expired # {}
  /\ nat' = [k \in Keys |-> IF k \in Expired THEN None ELSE nat[k]]
  /\ UNCHANGED <<running, opened, sock, out, uplinks, resets, srvDone, fatal>>

\* reapFlows, at every tick.
ReapFlows ==
  /\ running /\ Expired # {}
  /\ sock' = Closed({nat[k] : k \in Expired})
  /\ nat' = [k \in Keys |-> IF k \in Expired THEN None ELSE nat[k]]
  /\ UNCHANGED <<running, opened, out, uplinks, resets, srvDone, fatal>>

\* A handshake is accepted: every socket is closed and the map made anew.
\* The channel out is not drained.
ResetForHandshake ==
  /\ running /\ resets < MaxResets /\ resets' = resets + 1
  /\ sock' = Closed(InNat)
  /\ nat' = [k \in Keys |-> None]
  /\ UNCHANGED <<running, opened, out, uplinks, srvDone, fatal>>

\* The session was stopped, by the reaper or with the server: shutdown closes
\* the sockets, and nobody serves out from here on.
Shutdown ==
  /\ running /\ running' = FALSE
  /\ sock' = Closed(InNat)
  /\ UNCHANGED <<nat, opened, out, uplinks, resets, srvDone, fatal>>

ServerStops ==
  /\ ~ srvDone /\ srvDone' = TRUE
  /\ UNCHANGED <<running, nat, opened, sock, out, uplinks, resets, fatal>>

-----------------------------------------------------------------------------
(* udpReadPump                                                             *)

Moves(s, from, to) == sock[s].pump = from /\ sock' = [sock EXCEPT ![s].pump = to]

\* conn.Read returns a reply.
Read(s) ==
  /\ sock[s].conn = "open" /\ sock[s].pump = "reading"
  /\ sock[s].read < MaxReads
  /\ sock' = [sock EXCEPT ![s].pump = "posting", ![s].read = @ + 1]
  /\ UNCHANGED <<running, nat, opened, out, uplinks, resets, srvDone, fatal>>

\* Faulty variant of Posts: the end of the server is not looked at.
PostsForever(item) == Len(out) < OutCap /\ out' = Append(out, item)

\* Faulty variant of Posts: the reply is dropped when the channel is full.
PostsOrDrops(item) == out' = IF Len(out) < OutCap THEN Append(out, item) ELSE out

\* postUpstream: wait for room in the channel, or for the server to end.
Posts(item) ==
  \/ Len(out) < OutCap /\ out' = Append(out, item)
  \/ srvDone /\ UNCHANGED out

Post(s) ==
  /\ Moves(s, "posting", "reading")
  /\ Posts([sock |-> s, n |-> sock[s].read])
  /\ UNCHANGED <<running, nat, opened, uplinks, resets, srvDone, fatal>>

\* conn.Read fails, and the reader returns: the socket was closed, or the
\* outside host refused a datagram.
ReadFails(s) ==
  /\ Moves(s, "reading", "over")
  /\ UNCHANGED <<running, nat, opened, out, uplinks, resets, srvDone, fatal>>

\* Time passes.  Only uplink datagrams set lastUse.
Elapse ==
  /\ \E s \in Socket : sock[s].conn = "open" /\ sock[s].age <= UDPFlowIdle
  /\ sock' = [s \in Socket |->
       IF sock[s].conn = "open" /\ sock[s].age <= UDPFlowIdle
       THEN [sock[s] EXCEPT !.age = @ + 1] ELSE sock[s]]
  /\ UNCHANGED <<running, nat, opened, out, uplinks, resets, srvDone, fatal>>

-----------------------------------------------------------------------------
Next ==
  \/ \E p \in Packet : DeliverUDP(p) \/ DropUDP(p) \/ Panic(p)
  \/ HandleUpstream \/ ReapFlows \/ ResetForHandshake \/ Shutdown
  \/ ServerStops \/ Elapse
  \/ \E s \in Socket : Read(s) \/ Post(s) \/ ReadFails(s)

\* Goroutines run, the ticker fires and the clock goes on; a read on a closed
\* socket returns; senders blocked on a channel are served in turn.  No reply
\* is promised.
Fairness ==
  /\ WF_vars(HandleUpstream) /\ WF_vars(ReapFlows) /\ WF_vars(Elapse)
  /\ WF_vars(srvDone /\ Shutdown)
  /\ \A s \in Socket :
       SF_vars(Post(s)) /\ WF_vars(sock[s].conn = "closed" /\ ReadFails(s))

Spec == Init /\ [][Next]_vars

FairSpec == Spec /\ Fairness

-----------------------------------------------------------------------------
(* Properties                                                              *)

SocketState ==
  [key : Keys \cup {NoKey}, conn : {"none", "open", "closed"},
   pump : {"none", "reading", "posting", "over"},
   age : 0 .. UDPFlowIdle + 1, read : 0 .. MaxReads, sent : 0 .. MaxReads]

Reply == [sock : Socket, n : 0 .. MaxReads]

\* Every variable stays in its range.
TypeOK ==
  /\ running \in BOOLEAN /\ srvDone \in BOOLEAN
  /\ nat \in [Keys -> Socket \cup {None}] /\ opened \in 0 .. MaxSockets
  /\ sock \in [Socket -> SocketState]
  /\ out \in Seq(Reply) /\ Len(out) <= OutCap
  /\ uplinks \in 0 .. MaxUplinks /\ resets \in 0 .. MaxResets
  /\ fatal \subseteq Packet

OpenSockets == {s \in Socket : sock[s].conn = "open"}

\* The open sockets are exactly those in the table of a running session, each
\* under the tuple it was opened for, and never more than the limit: reaping,
\* handshake and shutdown leave none behind, whatever they follow on (close
\* and its callers).
SocketsAreMapped ==
  /\ OpenSockets = IF running THEN InNat ELSE {}
  /\ \A k \in Mapped : sock[nat[k]].key = k
  /\ Cardinality(Mapped) <= MaxFlowsPerSession

\* Where the channel holds replies of socket s, and how many were posted.
Waiting(s) == {i \in DOMAIN out : out[i].sock = s}

Posted(s) == sock[s].read - (IF sock[s].pump = "posting" THEN 1 ELSE 0)

\* Every reply that was read goes down once and in the order of its socket,
\* also when the channel is full, and when the socket is closed and its tuple
\* used again meanwhile (udpReadPump, postUpstream), until the server ends.
RepliesInOrder ==
  ~ srvDone =>
    \A s \in Socket :
       /\ sock[s].sent <= Posted(s)
       /\ {out[i].n : i \in Waiting(s)} = sock[s].sent + 1 .. Posted(s)
       /\ \A i, j \in Waiting(s) : i < j => out[i].n < out[j].n

\* A tuple the device no longer uses loses its socket, however often outside
\* hosts still send to it (reapFlows: "how long an unused UDP NAT entry
\* survives").
SilenceClosesAll ==
  \A s \in Socket : (sock[s].conn = "open") ~> (sock[s].conn = "closed")

\* A reader does not outlive its socket as long as the session runs, and no
\* reader outlives the server: none waits for ever in postUpstream.
PumpsEnd ==
  /\ \A s \in Socket :
       (sock[s].conn = "closed") ~> (sock[s].pump = "over" \/ ~ running)
  /\ srvDone ~> \A s \in Socket : sock[s].pump \in {"none", "over"}

\* Of all that may be wrong with a packet (padding, options, a length that is
\* too large, a UDP length that is not its length, a fragment, too few bytes),
\* one thing alone ends the program: a total length short of the header, which
\* the condition at ipv4.go:51 sees and the slice at ipv4.go:67 does not stand.
OnlyShortTotalsPanic == \A p \in fatal : p.total < p.ihl

\* The comment at udpFlow: the concentrator has to "translate the replies
\* back" (udpflow.go:15).  Every tuple in the table has a reader.
RepliesAreRead ==
  running => \A k \in Mapped : sock[nat[k]].pump \in {"reading", "posting"}
=============================================================================
