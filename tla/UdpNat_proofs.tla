---------------------------- MODULE UdpNat_proofs ----------------------------
(***************************************************************************)
(* Theorems about UdpNat, for every set of packets, every limit, timeout   *)
(* and bound.                                                              *)
(***************************************************************************)
EXTENDS UdpNat, FiniteSetTheorems, SequenceTheorems, TLAPS

-----------------------------------------------------------------------------
(* The parsers                                                             *)

\* The data parseUDP cuts out is behind the UDP header, in front of the
\* padding and among the bytes at hand, whatever the length fields say: its
\* slice b[8:ln] is in range.
LEMMA DataIsInside ==
  ASSUME NEW p \in Packet, CutsData(p)
  PROVE  /\ UDPHdr <= DataEnd(p) /\ p.ihl + DataEnd(p) <= p.total
         /\ p.total <= p.len /\ ~ DataPanics(p)
<1>1. /\ p.len \in Nat /\ p.ihl \in Nat /\ p.total \in Nat /\ p.ulen \in Nat
  BY UdpNatAssumption
<1>2. /\ p.ihl <= p.total /\ p.total <= p.len
      /\ p.total - p.ihl >= UDPHdr
  BY <1>1 DEF CutsData, CutsPayload, PayloadPanics, OutOfRange, PayloadLen
<1>3. UDPHdr <= DataEnd(p) /\ p.ihl + DataEnd(p) <= p.total
  BY <1>1, <1>2 DEF DataEnd, PayloadLen, UDPHdr
<1>4. DataEnd(p) \in Nat
  BY <1>1, <1>2 DEF DataEnd, PayloadLen
<1>5. DataEnd(p) <= p.len - p.ihl BY <1>1, <1>2, <1>3, <1>4
<1> QED BY <1>2, <1>3, <1>5 DEF DataPanics, OutOfRange

\* A packet whose parsing panics has a total length short of its header.
LEMMA PanicIsShort ==
  ASSUME NEW p \in Packet, Panics(p)
  PROVE  p.total < p.ihl
<1>1. CutsPayload(p) /\ PayloadPanics(p) BY DataIsInside DEF Panics
<1> QED BY <1>1, UdpNatAssumption DEF CutsPayload, PayloadPanics, OutOfRange

-----------------------------------------------------------------------------
(* The table and the sockets                                               *)

\* The names given to sockets are those up to the counter.
Allocated ==
  \A s \in Socket : s > opened <=> sock[s].conn = "none"

\* An open socket is in the table of a running session under its own tuple;
\* what is in that table is open.
TableExact ==
  /\ \A s \in OpenSockets : running /\ sock[s].key \in Keys
                              /\ nat[sock[s].key] = s
  /\ running => \A k \in Mapped : nat[k] \in OpenSockets
  /\ \A k \in Mapped : nat[k] <= opened /\ sock[nat[k]].key = k

\* maxFlows bounds the table.
Limited == Cardinality(Mapped) <= MaxFlowsPerSession

\* The inductive invariant of the NAT.
IInv == TypeOK /\ Allocated /\ TableExact /\ Limited

-----------------------------------------------------------------------------
\* There are finitely many tuples.
LEMMA KeysFinite == IsFiniteSet(Keys) /\ \A S \in SUBSET Keys : IsFiniteSet(S)
<1>1. IsFiniteSet(Keys)
  <2> DEFINE key == [p \in Packet |-> Key(p)]
  <2>1. key \in Surjection(Packet, Keys) BY DEF Surjection, Keys
  <2> QED BY <2>1, FS_Surjection, UdpNatAssumption
<1> QED BY <1>1, FS_Subset

\* The table never has more entries than the limit allows, if it only shrinks.
LEMMA Shrinks ==
  ASSUME NEW S \in SUBSET Keys, NEW T \in SUBSET S,
         Cardinality(S) <= MaxFlowsPerSession
  PROVE  Cardinality(T) <= MaxFlowsPerSession
<1>1. IsFiniteSet(S) /\ IsFiniteSet(T) /\ Cardinality(T) <= Cardinality(S)
  BY KeysFinite, FS_Subset
<1>2. Cardinality(S) \in Nat /\ Cardinality(T) \in Nat
  BY <1>1, FS_CardinalityType
<1> QED BY <1>1, <1>2, UdpNatAssumption

\* Adding a tuple below the limit.
LEMMA Grows ==
  ASSUME NEW S \in SUBSET Keys, NEW k \in Keys, k \notin S,
         ~ (Cardinality(S) >= MaxFlowsPerSession)
  PROVE  Cardinality(S \cup {k}) <= MaxFlowsPerSession
<1>1. IsFiniteSet(S) BY KeysFinite
<1>2. Cardinality(S) \in Nat /\ Cardinality(S \cup {k}) = Cardinality(S) + 1
  BY <1>1, FS_AddElement, FS_CardinalityType
<1> QED BY <1>2, UdpNatAssumption

\* The initial state.
LEMMA InitInv == Init => IInv
<1> SUFFICES ASSUME Init PROVE IInv OBVIOUS
<1> USE DEF Init, Socket, None, NoKey
<1>1. TypeOK
  <2>1. NoSocket \in SocketState
    BY UdpNatAssumption DEF NoSocket, SocketState
  <2>2. sock \in [Socket -> SocketState] BY <2>1
  <2>3. out \in Seq(Reply) /\ Len(out) <= OutCap BY UdpNatAssumption
  <2>4. nat \in [Keys -> Socket \cup {None}] OBVIOUS
  <2>5. /\ opened \in 0 .. MaxSockets
        /\ uplinks \in 0 .. MaxUplinks /\ resets \in 0 .. MaxResets
    BY UdpNatAssumption
  <2>6. running \in BOOLEAN /\ srvDone \in BOOLEAN OBVIOUS
  <2> QED BY <2>2, <2>3, <2>4, <2>5, <2>6 DEF TypeOK
<1>2. Mapped = {} BY DEF Mapped
<1>3. Allocated BY DEF Allocated, NoSocket
<1>4. TableExact BY <1>2 DEF TableExact, OpenSockets, NoSocket
<1>5. Limited BY <1>2, FS_EmptySet, UdpNatAssumption DEF Limited
<1> QED BY <1>1, <1>3, <1>4, <1>5 DEF IInv

-----------------------------------------------------------------------------
(* A step that touches no socket's key or conn, neither the table nor the  *)
(* session's life, keeps the table exact.                                  *)

\* Steps of the readers, of the clock and of handleUpstream.
LEMMA Untouched ==
  ASSUME IInv, TypeOK', UNCHANGED <<running, nat, opened>>,
         \A s \in Socket : /\ sock'[s].key = sock[s].key
                           /\ sock'[s].conn = sock[s].conn
  PROVE  IInv'
<1> USE DEF IInv
<1>1. Mapped' = Mapped /\ OpenSockets' = OpenSockets
  BY DEF Mapped, OpenSockets, TypeOK
<1>2. Allocated' BY DEF Allocated
<1>3. TableExact' BY <1>1 DEF TableExact, OpenSockets, Mapped, TypeOK, None
<1>4. Limited' BY <1>1 DEF Limited
<1> QED BY <1>2, <1>3, <1>4

\* Steps that close the sockets of a set of tuples and remove these from the
\* table; a session that ends closes them all.
LEMMA Closing ==
  ASSUME IInv, running, NEW D \in SUBSET Mapped,
         sock' = Closed({nat[k] : k \in D}), opened' = opened,
         \/ /\ running' = running
            /\ nat' = [k \in Keys |-> IF k \in D THEN None ELSE nat[k]]
         \/ running' = FALSE /\ nat' = nat /\ D = Mapped,
         TypeOK'
  PROVE  IInv'
<1> USE DEF IInv
<1>1. /\ Mapped' \subseteq Mapped
      /\ \A k \in Mapped' : nat'[k] = nat[k]
  BY DEF Mapped, TypeOK
<1>2. \A s \in Socket : /\ sock'[s].key = sock[s].key
                        /\ s \in OpenSockets' <=>
                             s \in OpenSockets /\ s \notin {nat[k] : k \in D}
  BY DEF Closed, OpenSockets, TypeOK
<1>3. Allocated'
  <2> SUFFICES ASSUME NEW s \in Socket
               PROVE  s > opened' <=> sock'[s].conn = "none"
    BY DEF Allocated
  <2>1. \A k \in D : nat[k] <= opened BY DEF TableExact
  <2>2. s \in {nat[k] : k \in D} => ~ (s > opened)
    BY <2>1 DEF TypeOK, Socket
  <2>3. sock'[s] = IF s \in {nat[k] : k \in D}
                   THEN [sock[s] EXCEPT !.conn = "closed"] ELSE sock[s]
    BY DEF Closed
  <2>4. s \in {nat[k] : k \in D} => sock'[s].conn = "closed"
    BY <2>3 DEF TypeOK, SocketState
  <2> QED BY <2>2, <2>3, <2>4 DEF Allocated
<1>4. TableExact'
  <2>1. ASSUME NEW s \in OpenSockets'
        PROVE  running' /\ sock'[s].key \in Keys /\ nat'[sock'[s].key] = s
    <3>1. s \in Socket /\ s \in OpenSockets /\ s \notin {nat[k] : k \in D}
      BY <1>2, <2>1 DEF OpenSockets
    <3>2. /\ sock[s].key \in Keys /\ nat[sock[s].key] = s
          /\ sock[s].key \notin D
      BY <3>1 DEF TableExact
    <3>3. sock[s].key \in Mapped
      BY <3>1, <3>2 DEF Mapped, Socket, None
    <3>4. running'
      BY <3>2, <3>3
    <3> QED BY <1>2, <3>1, <3>2, <3>3, <3>4
  <2>2. ASSUME running', NEW k \in Mapped'
        PROVE  nat'[k] \in OpenSockets'
    <3>1. k \in Mapped /\ nat'[k] = nat[k] /\ k \notin D
      BY <1>1, <2>2 DEF Mapped
    <3>2. nat[k] \in OpenSockets /\ sock[nat[k]].key = k
      BY <3>1 DEF TableExact
    <3>3. nat[k] \notin {nat[j] : j \in D}
      BY <3>1, <3>2 DEF TableExact
    <3>4. nat[k] \in Socket BY <3>2 DEF OpenSockets
    <3> QED BY <1>2, <3>1, <3>2, <3>3, <3>4
  <2>3. ASSUME NEW k \in Mapped'
        PROVE  nat'[k] <= opened' /\ sock'[nat'[k]].key = k
    <3>1. k \in Mapped /\ nat'[k] = nat[k] BY <1>1
    <3>2. nat[k] \in Socket BY <3>1 DEF Mapped, TypeOK
    <3> QED BY <1>2, <3>1, <3>2 DEF TableExact
  <2> QED BY <2>1, <2>2, <2>3 DEF TableExact
<1>5. Limited'
  BY <1>1, Shrinks DEF Limited, Mapped
<1> QED BY <1>3, <1>4, <1>5

-----------------------------------------------------------------------------
(* The steps                                                               *)

\* close leaves a socket's record a record.
LEMMA ClosedType ==
  ASSUME TypeOK, NEW set
  PROVE  Closed(set) \in [Socket -> SocketState]
<1>1. \A s \in Socket : [sock[s] EXCEPT !.conn = "closed"] \in SocketState
  BY DEF TypeOK, SocketState
<1> QED BY <1>1 DEF Closed, TypeOK

\* r keeps its tuple and its socket.
Keeps(r, q) == q \in SocketState /\ q.key = r.key /\ q.conn = r.conn

\* The updates of the readers, of the clock, of deliverUDP and handleUpstream.
LEMMA Updates ==
  ASSUME NEW r \in SocketState
  PROVE  /\ Keeps(r, r)
         /\ Keeps(r, [r EXCEPT !.age = 0])
         /\ r.age <= UDPFlowIdle => Keeps(r, [r EXCEPT !.age = @ + 1])
         /\ \A n \in 0 .. MaxReads : Keeps(r, [r EXCEPT !.sent = n])
         /\ r.read < MaxReads =>
              Keeps(r, [r EXCEPT !.pump = "posting", !.read = @ + 1])
         /\ Keeps(r, [r EXCEPT !.pump = "reading"])
         /\ Keeps(r, [r EXCEPT !.pump = "over"])
<1>1. Keeps(r, r) BY DEF Keeps
<1>2. Keeps(r, [r EXCEPT !.age = 0])
  BY UdpNatAssumption DEF Keeps, SocketState
<1>3. r.age <= UDPFlowIdle => Keeps(r, [r EXCEPT !.age = @ + 1])
  BY UdpNatAssumption DEF Keeps, SocketState
<1>4. \A n \in 0 .. MaxReads : Keeps(r, [r EXCEPT !.sent = n])
  BY DEF Keeps, SocketState
<1>5. r.read < MaxReads =>
        Keeps(r, [r EXCEPT !.pump = "posting", !.read = @ + 1])
  <2>1. r.read < MaxReads => r.read + 1 \in 0 .. MaxReads
    BY UdpNatAssumption DEF SocketState
  <2> QED BY <2>1 DEF Keeps, SocketState
<1>6. Keeps(r, [r EXCEPT !.pump = "reading"]) BY DEF Keeps, SocketState
<1>7. Keeps(r, [r EXCEPT !.pump = "over"]) BY DEF Keeps, SocketState
<1> QED BY <1>1, <1>2, <1>3, <1>4, <1>5, <1>6, <1>7

\* One record updated, the others as they were.
LEMMA OneUpdated ==
  ASSUME TypeOK, NEW s \in Socket, NEW q, Keeps(sock[s], q),
         sock' = [sock EXCEPT ![s] = q]
  PROVE  /\ sock' \in [Socket -> SocketState]
         /\ \A r \in Socket : /\ sock'[r].key = sock[r].key
                               /\ sock'[r].conn = sock[r].conn
  BY DEF TypeOK, Keeps

\* A datagram opens a socket for its tuple.
LEMMA Opening ==
  ASSUME IInv, running, NEW k \in Keys, nat[k] = None, ~ AtLimit, Open(k),
         uplinks' \in 0 .. MaxUplinks, UNCHANGED <<running, out, resets, srvDone, fatal>>
  PROVE  IInv'
<1> USE DEF IInv, Socket, None
<1> DEFINE n == opened + 1
<1>1. n \in Socket /\ opened' = n /\ opened \in Nat /\ running' = running
  BY UdpNatAssumption DEF TypeOK, Open
<1>2. sock' = [sock EXCEPT ![n] =
                [key |-> k, conn |-> "open", pump |-> "reading", age |-> 0,
                 read |-> 0, sent |-> 0]]
  BY DEF Open
<1>3. nat' = [nat EXCEPT ![k] = n] BY DEF Open
<1>4. /\ sock'[n] \in SocketState /\ sock'[n].key = k /\ sock'[n].conn = "open"
      /\ \A s \in Socket \ {n} : sock'[s] = sock[s]
  <2> DEFINE r == [key |-> k, conn |-> "open", pump |-> "reading", age |-> 0,
                   read |-> 0, sent |-> 0]
  <2>1. r \in SocketState /\ r.key = k /\ r.conn = "open"
    <3>1. 0 \in 0 .. UDPFlowIdle + 1 /\ 0 \in 0 .. MaxReads
      BY UdpNatAssumption
    <3> QED BY <3>1 DEF SocketState
  <2> HIDE DEF r
  <2> QED BY <1>1, <1>2, <2>1 DEF TypeOK, r
<1>5. TypeOK'
  <2>1. sock' \in [Socket -> SocketState]
    BY <1>1, <1>2, <1>4 DEF TypeOK
  <2>2. nat' \in [Keys -> Socket \cup {None}] /\ opened' \in 0 .. MaxSockets
    BY <1>1, <1>3 DEF TypeOK
  <2> QED BY <2>1, <2>2 DEF TypeOK
<1>6. Mapped' = Mapped \cup {k} /\ \A j \in Mapped : j # k /\ nat'[j] = nat[j]
  BY <1>1, <1>3 DEF Mapped, TypeOK
<1>7. sock[n].conn = "none"
  BY <1>1 DEF Allocated
<1>8. n \notin OpenSockets
  BY <1>7 DEF OpenSockets
<1>9. OpenSockets' = OpenSockets \cup {n}
  BY <1>1, <1>4, <1>8 DEF OpenSockets
<1>10. Allocated'
  BY <1>1, <1>4 DEF Allocated, TypeOK
<1>11. TableExact'
  <2>1. ASSUME NEW s \in OpenSockets'
        PROVE  running' /\ sock'[s].key \in Keys /\ nat'[sock'[s].key] = s
    <3>1. CASE s = n BY <1>1, <1>3, <1>4, <3>1 DEF TypeOK
    <3>2. CASE s \in OpenSockets
      <4>1. s # n /\ s \in Socket BY <1>8, <3>2 DEF OpenSockets
      <4>2. sock'[s] = sock[s] BY <1>4, <4>1
      <4>3. sock[s].key \in Keys /\ nat[sock[s].key] = s
        BY <3>2 DEF TableExact
      <4>4. sock[s].key # k BY <4>1, <4>3
      <4> QED BY <1>1, <1>3, <4>2, <4>3, <4>4 DEF TypeOK
    <3> QED BY <1>9, <3>1, <3>2
  <2>2. ASSUME NEW j \in Mapped'
        PROVE  /\ nat'[j] \in OpenSockets'
               /\ nat'[j] <= opened' /\ sock'[nat'[j]].key = j
    <3>1. CASE j = k BY <1>1, <1>3, <1>4, <1>9, <3>1 DEF TypeOK
    <3>2. CASE j \in Mapped
      <4>1. nat'[j] = nat[j] BY <1>6, <3>2
      <4>2. /\ nat[j] \in OpenSockets
            /\ nat[j] <= opened /\ sock[nat[j]].key = j
        BY <3>2 DEF TableExact
      <4>3. nat[j] # n /\ nat[j] \in Socket BY <1>8, <4>2 DEF OpenSockets
      <4>4. nat[j] <= opened' BY <1>1, <4>2, <4>3
      <4> QED BY <1>4, <1>9, <4>1, <4>2, <4>3, <4>4
    <3> QED BY <1>6, <3>1, <3>2
  <2> QED BY <2>1, <2>2 DEF TableExact
<1>12. Limited'
  <2>1. k \notin Mapped BY DEF Mapped
  <2>2. Cardinality(Mapped \cup {k}) <= MaxFlowsPerSession
    BY <2>1, Grows DEF Mapped, AtLimit
  <2> QED BY <1>6, <2>2 DEF Limited
<1> QED BY <1>5, <1>10, <1>11, <1>12

\* deliverUDP: the socket of the tuple is used, opened, or refused.
LEMMA DeliverStep ==
  ASSUME IInv, NEW p \in Packet, DeliverUDP(p)
  PROVE  IInv'
<1> DEFINE k == Key(p)
<1>1. k \in Keys BY DEF Keys
<1>2. uplinks + 1 \in 0 .. MaxUplinks
  BY UdpNatAssumption DEF DeliverUDP, IInv, TypeOK
<1>3. CASE /\ nat[k] # None /\ uplinks' = uplinks + 1
           /\ sock' = [sock EXCEPT ![nat[k]].age = 0]
           /\ UNCHANGED <<nat, opened>>
  <2>1. nat[k] \in Socket /\ nat[k] <= opened /\ k \in Mapped
    BY <1>1, <1>3 DEF IInv, TypeOK, TableExact, Mapped
  <2>2. /\ sock' \in [Socket -> SocketState]
        /\ \A s \in Socket : /\ sock'[s].key = sock[s].key
                              /\ sock'[s].conn = sock[s].conn
    <3>1. Keeps(sock[nat[k]], [sock[nat[k]] EXCEPT !.age = 0])
      BY <2>1, Updates DEF IInv, TypeOK
    <3>2. sock' = [sock EXCEPT ![nat[k]] = [sock[nat[k]] EXCEPT !.age = 0]]
      BY <1>3
    <3> QED BY <2>1, <3>1, <3>2, OneUpdated DEF IInv
  <2>3. TypeOK'
    BY <1>2, <1>3, <2>2 DEF IInv, TypeOK, DeliverUDP
  <2>4. UNCHANGED <<running, nat, opened>> BY <1>3 DEF DeliverUDP
  <2> QED BY <2>2, <2>3, <2>4, Untouched
<1>4. CASE nat[k] = None /\ ~ AtLimit /\ Open(k) /\ uplinks' = uplinks + 1
  BY <1>1, <1>2, <1>4, Opening DEF DeliverUDP
<1>5. CASE nat[k] = None /\ UNCHANGED <<nat, opened, sock, uplinks>>
  <2>1. TypeOK' BY <1>5 DEF IInv, TypeOK, DeliverUDP
  <2> QED BY <1>5, <2>1, Untouched DEF DeliverUDP
<1> QED BY <1>3, <1>4, <1>5 DEF DeliverUDP

\* A panic closes every socket; the table is nobody's any more.
LEMMA PanicStep ==
  ASSUME IInv, NEW p \in Packet, Panic(p)
  PROVE  IInv'
<1>0. TypeOK BY DEF IInv
<1>1. /\ fatal' = {p} /\ running' = FALSE /\ srvDone' = TRUE /\ out' = <<>>
      /\ sock' = [s \in Socket |->
           IF sock[s].conn = "none" THEN sock[s]
           ELSE [sock[s] EXCEPT !.conn = "closed", !.pump = "over"]]
      /\ UNCHANGED <<nat, opened, uplinks, resets>>
  BY DEF Panic
<1>2. \A s \in Socket : /\ sock'[s] \in SocketState
                        /\ sock'[s].key = sock[s].key
                        /\ sock'[s].conn # "open"
                        /\ sock'[s].conn = "none" <=> sock[s].conn = "none"
  <2> SUFFICES ASSUME NEW s \in Socket
               PROVE  /\ sock'[s] \in SocketState
                      /\ sock'[s].key = sock[s].key
                      /\ sock'[s].conn # "open"
                      /\ sock'[s].conn = "none" <=> sock[s].conn = "none"
    OBVIOUS
  <2>1. sock[s] \in SocketState BY <1>0 DEF TypeOK
  <2>2. sock[s].conn # "none" =>
          sock'[s] = [sock[s] EXCEPT !.conn = "closed", !.pump = "over"]
    BY <1>1
  <2>3. sock[s].conn = "none" => sock'[s] = sock[s] BY <1>1
  <2> QED BY <2>1, <2>2, <2>3 DEF SocketState
<1>3. TypeOK'
  <2>1. sock' \in [Socket -> SocketState] BY <1>1, <1>2
  <2>2. out' \in Seq(Reply) /\ Len(out') <= OutCap
    <3>1. <<>> \in Seq(Reply) /\ Len(<<>>) = 0 OBVIOUS
    <3>2. out' = <<>> BY <1>1
    <3>3. 0 <= OutCap BY UdpNatAssumption
    <3> QED BY <3>1, <3>2, <3>3
  <2> QED BY <1>0, <1>1, <2>1, <2>2 DEF TypeOK
<1>4. Allocated' BY <1>1, <1>2 DEF IInv, Allocated
<1>5. OpenSockets' = {} /\ Mapped' = Mapped
  BY <1>1, <1>2 DEF OpenSockets, Mapped
<1>6. TableExact'
  <2>1. \A k \in Mapped : nat[k] \in Socket BY <1>0 DEF TypeOK, Mapped
  <2> QED BY <1>1, <1>2, <1>5, <2>1 DEF IInv, TableExact
<1>7. Limited' BY <1>5 DEF IInv, Limited
<1> QED BY <1>3, <1>4, <1>6, <1>7 DEF IInv

\* The invariant is inductive.
LEMMA StepInv == IInv /\ [Next]_vars => IInv'
<1> SUFFICES ASSUME IInv, [Next]_vars PROVE IInv' OBVIOUS
<1>0. TypeOK BY DEF IInv
<1>1. ASSUME NEW p \in Packet, DeliverUDP(p) PROVE IInv'
  BY <1>1, DeliverStep
<1>2. CASE UNCHANGED vars
  <2>1. TypeOK' BY <1>0, <1>2 DEF TypeOK, vars
  <2> QED BY <1>2, <2>1, Untouched DEF vars
<1>3. CASE HandleUpstream
  <2> DEFINE h == Head(out)
  <2>1. h \in Reply /\ Tail(out) \in Seq(Reply) /\ Len(Tail(out)) <= OutCap
    BY <1>0, <1>3, UdpNatAssumption DEF HandleUpstream, TypeOK
  <2>2. h.sock \in Socket /\ h.n \in 0 .. MaxReads BY <2>1 DEF Reply
  <2>3. sock' = [sock EXCEPT ![h.sock].sent = h.n] BY <1>3 DEF HandleUpstream
  <2>4. /\ sock' \in [Socket -> SocketState]
        /\ \A s \in Socket : /\ sock'[s].key = sock[s].key
                              /\ sock'[s].conn = sock[s].conn
    <3>1. Keeps(sock[h.sock], [sock[h.sock] EXCEPT !.sent = h.n])
      BY <1>0, <2>2, Updates DEF TypeOK
    <3> QED BY <1>0, <2>2, <2>3, <3>1, OneUpdated
  <2>5. TypeOK'
    BY <1>0, <1>3, <2>1, <2>4 DEF TypeOK, HandleUpstream
  <2> QED BY <1>3, <2>4, <2>5, Untouched DEF HandleUpstream
<1>4. CASE ReapFlows
  <2>1. Expired \subseteq Mapped BY DEF Expired
  <2>2. TypeOK'
    BY <1>0, <1>4, ClosedType DEF TypeOK, ReapFlows, None
  <2> QED BY <1>4, <2>1, <2>2, Closing DEF ReapFlows
<1>5. CASE ResetForHandshake
  <2>1. TypeOK'
    BY <1>0, <1>5, ClosedType, UdpNatAssumption
       DEF TypeOK, ResetForHandshake, None
  <2>2. nat' = [k \in Keys |-> IF k \in Mapped THEN None ELSE nat[k]]
    BY <1>5 DEF ResetForHandshake, Mapped
  <2> QED BY <1>5, <2>1, <2>2, Closing DEF ResetForHandshake, InNat
<1>6. CASE Shutdown
  <2>1. TypeOK' BY <1>0, <1>6, ClosedType DEF TypeOK, Shutdown
  <2> QED BY <1>6, <2>1, Closing DEF Shutdown, InNat
<1>7. CASE ServerStops
  <2>1. TypeOK' BY <1>0, <1>7 DEF TypeOK, ServerStops
  <2> QED BY <1>7, <2>1, Untouched DEF ServerStops
<1>8. CASE Elapse
  <2>1. \A s \in Socket : /\ sock'[s] \in SocketState
                          /\ sock'[s].key = sock[s].key
                          /\ sock'[s].conn = sock[s].conn
    <3> SUFFICES ASSUME NEW s \in Socket PROVE Keeps(sock[s], sock'[s])
      BY DEF Keeps
    <3>1. sock[s] \in SocketState BY <1>0 DEF TypeOK
    <3>2. sock'[s] = IF sock[s].conn = "open" /\ sock[s].age <= UDPFlowIdle
                     THEN [sock[s] EXCEPT !.age = @ + 1] ELSE sock[s]
      BY <1>8 DEF Elapse
    <3> QED BY <3>1, <3>2, Updates
  <2>2. sock' \in [Socket -> SocketState]
    BY <1>8, <2>1 DEF Elapse
  <2>3. TypeOK' BY <1>0, <1>8, <2>2 DEF TypeOK, Elapse
  <2> QED BY <1>8, <2>1, <2>3, Untouched DEF Elapse
<1>9. ASSUME NEW s \in Socket, Read(s) \/ Post(s) \/ ReadFails(s)
      PROVE  IInv'
  <2>1. /\ sock' \in [Socket -> SocketState]
        /\ \A r \in Socket : /\ sock'[r].key = sock[r].key
                              /\ sock'[r].conn = sock[r].conn
    <3>1. sock[s] \in SocketState BY <1>0 DEF TypeOK
    <3>2. PICK q : Keeps(sock[s], q) /\ sock' = [sock EXCEPT ![s] = q]
      <4>1. CASE Read(s)
        <5> DEFINE q == [sock[s] EXCEPT !.pump = "posting", !.read = @ + 1]
        <5>1. sock[s].read < MaxReads /\ sock' = [sock EXCEPT ![s] = q]
          BY <4>1 DEF Read
        <5>2. Keeps(sock[s], q) BY <3>1, <5>1, Updates
        <5> HIDE DEF q
        <5> QED BY <5>1, <5>2
      <4>2. CASE Post(s)
        <5> DEFINE q == [sock[s] EXCEPT !.pump = "reading"]
        <5>1. sock' = [sock EXCEPT ![s] = q] BY <4>2 DEF Post, Moves
        <5>2. Keeps(sock[s], q) BY <3>1, Updates
        <5> HIDE DEF q
        <5> QED BY <5>1, <5>2
      <4>3. CASE ReadFails(s)
        <5> DEFINE q == [sock[s] EXCEPT !.pump = "over"]
        <5>1. sock' = [sock EXCEPT ![s] = q] BY <4>3 DEF ReadFails, Moves
        <5>2. Keeps(sock[s], q) BY <3>1, Updates
        <5> HIDE DEF q
        <5> QED BY <5>1, <5>2
      <4> QED BY <1>9, <4>1, <4>2, <4>3
    <3> QED BY <1>0, <3>2, OneUpdated
  <2>2. [sock |-> s, n |-> sock[s].read] \in Reply
    BY <1>0 DEF TypeOK, SocketState, Reply
  <2>3. Post(s) => out' \in Seq(Reply) /\ Len(out') <= OutCap
    BY <1>0, <2>2, UdpNatAssumption DEF Post, Posts, TypeOK
  <2>4. out' \in Seq(Reply) /\ Len(out') <= OutCap
    BY <1>0, <1>9, <2>3 DEF Read, ReadFails, TypeOK
  <2>5. TypeOK'
    BY <1>0, <1>9, <2>1, <2>4 DEF TypeOK, Read, Post, ReadFails
  <2> QED BY <1>9, <2>1, <2>5, Untouched DEF Read, Post, ReadFails
<1>10. ASSUME NEW p \in Packet, DropUDP(p) PROVE IInv'
  BY <1>2, <1>10 DEF DropUDP
<1> QED
  BY <1>1, <1>2, <1>3, <1>4, <1>5, <1>6, <1>7, <1>8, <1>9, <1>10, PanicStep
     DEF Next

-----------------------------------------------------------------------------
(* The replies                                                             *)

\* A socket that was never opened has no reader and no replies.
Blank ==
  \A s \in Socket :
     sock[s].conn = "none" =>
        sock[s].pump = "none" /\ sock[s].read = 0 /\ sock[s].sent = 0

\* Until the server ends, the replies are in order.
InOrder == ~ srvDone => Blank /\ RepliesInOrder

\* The replies read, posted and sent from q are those of r, and so is whether
\* the socket was ever opened.
SameReplies(r, q) ==
  /\ q.read = r.read /\ q.sent = r.sent
  /\ q.pump = "posting" <=> r.pump = "posting"
  /\ q.conn = "none" => r.conn = "none" /\ q.pump = "none"

\* Steps that touch no reply.
LEMMA OrderKept ==
  ASSUME TypeOK, InOrder, ~ srvDone, UNCHANGED out,
         \A s \in Socket : SameReplies(sock[s], sock'[s])
  PROVE  Blank' /\ RepliesInOrder'
<1>1. \A s \in Socket : Posted(s)' = Posted(s) /\ sock'[s].sent = sock[s].sent
                        /\ Waiting(s)' = Waiting(s)
  BY DEF SameReplies, Posted, Waiting
<1>2. Blank' BY DEF InOrder, Blank, SameReplies
<1>3. RepliesInOrder' BY <1>1 DEF InOrder, RepliesInOrder
<1> QED BY <1>2, <1>3

\* What the numbers are.
LEMMA ReplyNumbers ==
  ASSUME TypeOK
  PROVE  /\ Len(out) \in Nat /\ DOMAIN out = 1 .. Len(out)
         /\ \A i \in DOMAIN out : out[i] \in Reply /\ out[i].n \in Nat
                                  /\ out[i].sock \in Socket
         /\ \A s \in Socket : /\ sock[s] \in SocketState
                              /\ sock[s].read \in Nat /\ sock[s].sent \in Nat
                              /\ Posted(s) \in Int
<1>1. /\ Len(out) \in Nat /\ DOMAIN out = 1 .. Len(out)
      /\ \A i \in DOMAIN out : out[i] \in Reply
  BY LenProperties, ElementOfSeq DEF TypeOK
<1>2. \A s \in Socket : /\ sock[s] \in SocketState
                        /\ sock[s].read \in Nat /\ sock[s].sent \in Nat
  BY UdpNatAssumption DEF TypeOK, SocketState
<1>3. \A s \in Socket : Posted(s) \in Int BY <1>2 DEF Posted
<1>4. \A i \in DOMAIN out : out[i].n \in Nat /\ out[i].sock \in Socket
  BY <1>1, UdpNatAssumption DEF Reply
<1> QED BY <1>1, <1>2, <1>3, <1>4

\* postUpstream: the reply in hand becomes the last of its socket.
LEMMA PostOrder ==
  ASSUME TypeOK, InOrder, ~ srvDone, NEW s \in Socket, Post(s)
  PROVE  Blank' /\ RepliesInOrder'
<1> DEFINE item == [sock |-> s, n |-> sock[s].read]
           m == Len(out) + 1
<1>1. /\ Len(out) \in Nat /\ DOMAIN out = 1 .. Len(out)
      /\ \A i \in DOMAIN out : out[i].n \in Nat
      /\ \A r \in Socket : sock[r] \in SocketState /\ sock[r].read \in Nat
                           /\ sock[r].sent \in Nat /\ Posted(r) \in Int
  BY ReplyNumbers
<1>2. /\ sock[s].pump = "posting"
      /\ sock' = [sock EXCEPT ![s].pump = "reading"]
      /\ out' = Append(out, item)
  BY DEF Post, Moves, Posts
<1>3. item \in Reply /\ item.sock = s /\ item.n = sock[s].read
  BY <1>1 DEF Reply, SocketState
<1> HIDE DEF item
<1>4. /\ out' \in Seq(Reply) /\ Len(out') = m /\ DOMAIN out' = 1 .. m
      /\ out'[m] = item /\ \A i \in 1 .. Len(out) : out'[i] = out[i]
  BY <1>2, <1>3, AppendProperties, LenProperties DEF TypeOK
<1>5. /\ sock'[s].pump = "reading" /\ sock'[s].read = sock[s].read
      /\ sock'[s].sent = sock[s].sent /\ sock'[s].conn = sock[s].conn
      /\ \A r \in Socket \ {s} : sock'[r] = sock[r]
  BY <1>1, <1>2 DEF TypeOK, SocketState
<1> HIDE DEF m
<1>6. m = Len(out) + 1 BY DEF m
<1>7. Blank'
  BY <1>2, <1>5 DEF InOrder, Blank
<1>8. ASSUME NEW r \in Socket
      PROVE  /\ sock'[r].sent <= Posted(r)'
             /\ {out'[i].n : i \in Waiting(r)'} = sock'[r].sent + 1 .. Posted(r)'
             /\ \A i, j \in Waiting(r)' : i < j => out'[i].n < out'[j].n
  <2>1. /\ sock[r].sent <= Posted(r)
        /\ {out[i].n : i \in Waiting(r)} = sock[r].sent + 1 .. Posted(r)
        /\ \A i, j \in Waiting(r) : i < j => out[i].n < out[j].n
    BY DEF InOrder, RepliesInOrder
  <2>2. /\ Waiting(r) \subseteq 1 .. Len(out)
        /\ \A i \in Waiting(r) : out'[i] = out[i]
    BY <1>1, <1>4 DEF Waiting
  <2>3. CASE r = s
    <3>1. Waiting(r)' = Waiting(r) \cup {m}
      BY <1>1, <1>3, <1>4, <1>6, <2>3 DEF Waiting
    <3>2. Posted(r) = sock[s].read - 1 /\ Posted(r)' = sock[s].read
      BY <1>1, <1>2, <1>5, <2>3 DEF Posted
    <3>3. {out'[i].n : i \in Waiting(r)'} =
            {out[i].n : i \in Waiting(r)} \cup {sock[s].read}
      <4>1. out'[m].n = sock[s].read BY <1>3, <1>4
      <4>2. \A i \in Waiting(r) : out'[i].n = out[i].n BY <2>2
      <4>3. ASSUME NEW n
            PROVE  (\E i \in Waiting(r)' : n = out'[i].n)
                     <=> (\E i \in Waiting(r) : n = out[i].n)
                           \/ n = sock[s].read
        BY <3>1, <4>1, <4>2
      <4> QED BY <4>3
    <3>4. \A i \in Waiting(r) : out[i].n < sock[s].read /\ i < m
      <4>1. \A i \in Waiting(r) : out[i].n \in sock[r].sent + 1 .. Posted(r)
        BY <2>1
      <4> QED BY <1>1, <1>6, <2>2, <3>2, <4>1
    <3>5. \A i, j \in Waiting(r)' : i < j => out'[i].n < out'[j].n
      <4> SUFFICES ASSUME NEW i \in Waiting(r)', NEW j \in Waiting(r)', i < j
                   PROVE  out'[i].n < out'[j].n
        OBVIOUS
      <4>1. CASE i = m
        <5>1. j <= m BY <1>1, <1>6, <2>2, <3>1
        <5> QED BY <1>1, <1>6, <2>2, <4>1, <5>1, <3>1
      <4>2. CASE i \in Waiting(r)
        BY <1>3, <1>4, <2>1, <2>2, <3>1, <3>4, <4>2
      <4> QED BY <3>1, <4>1, <4>2
    <3>6. sock'[r].sent <= Posted(r)'
      BY <1>1, <1>5, <2>1, <2>3, <3>2
    <3>7. {out'[i].n : i \in Waiting(r)'} = sock'[r].sent + 1 .. Posted(r)'
      <4>1. \A a, b \in Int : a <= b - 1 =>
              (a + 1 .. b - 1) \cup {b} = a + 1 .. b
        OBVIOUS
      <4>2. {out[i].n : i \in Waiting(r)} = sock[s].sent + 1 .. sock[s].read - 1
        BY <2>1, <2>3, <3>2
      <4>3. (sock[s].sent + 1 .. sock[s].read - 1) \cup {sock[s].read}
               = sock[s].sent + 1 .. sock[s].read
        BY <1>1, <2>1, <2>3, <3>2, <4>1
      <4> QED BY <1>5, <2>3, <3>2, <3>3, <4>2, <4>3
    <3> QED BY <3>5, <3>6, <3>7
  <2>4. CASE r # s
    <3>1. Waiting(r)' = Waiting(r)
      BY <1>1, <1>3, <1>4, <1>6, <2>4 DEF Waiting
    <3>2. Posted(r)' = Posted(r) /\ sock'[r].sent = sock[r].sent
      BY <1>5, <2>4 DEF Posted
    <3> QED BY <2>1, <2>2, <3>1, <3>2
  <2> QED BY <2>3, <2>4
<1> QED BY <1>7, <1>8 DEF RepliesInOrder

\* handleUpstream: the first reply in the channel is the next of its socket.
LEMMA HandleOrder ==
  ASSUME TypeOK, InOrder, ~ srvDone, HandleUpstream
  PROVE  Blank' /\ RepliesInOrder'
<1> DEFINE h == out[1]
           s == h.sock
<1>1. /\ Len(out) \in Nat /\ DOMAIN out = 1 .. Len(out)
      /\ \A i \in DOMAIN out : out[i] \in Reply /\ out[i].n \in Nat
                               /\ out[i].sock \in Socket
      /\ \A r \in Socket : sock[r] \in SocketState /\ sock[r].read \in Nat
                           /\ sock[r].sent \in Nat /\ Posted(r) \in Int
  BY ReplyNumbers
<1>2. out # <<>> /\ out \in Seq(Reply) /\ Len(out) >= 1
  <2>1. out # <<>> /\ out \in Seq(Reply) BY DEF HandleUpstream, TypeOK
  <2> QED BY <1>1, <2>1, EmptySeq
<1>3. /\ out' \in Seq(Reply) /\ Len(out') = Len(out) - 1
      /\ DOMAIN out' = 1 .. Len(out) - 1
      /\ \A i \in 1 .. Len(out) - 1 : out'[i] = out[i + 1]
  BY <1>2, HeadTailProperties, LenProperties DEF HandleUpstream
<1>4. h = Head(out) /\ s \in Socket /\ h.n \in Nat
  BY <1>1, <1>2
<1>5. sock' = [sock EXCEPT ![s].sent = h.n]
  BY <1>4 DEF HandleUpstream
<1> HIDE DEF h
<1>6. /\ sock'[s].sent = h.n /\ sock'[s].read = sock[s].read
      /\ sock'[s].pump = sock[s].pump /\ sock'[s].conn = sock[s].conn
      /\ \A r \in Socket \ {s} : sock'[r] = sock[r]
  BY <1>1, <1>4, <1>5 DEF TypeOK, SocketState
<1>7. \A r \in Socket :
        /\ sock[r].sent <= Posted(r)
        /\ {out[i].n : i \in Waiting(r)} = sock[r].sent + 1 .. Posted(r)
        /\ \A i, j \in Waiting(r) : i < j => out[i].n < out[j].n
  BY DEF InOrder, RepliesInOrder
<1>8. \A r \in Socket :
        /\ Posted(r)' = Posted(r)
        /\ \A i : i \in Waiting(r)' <=> i \in 1 .. Len(out) - 1
                                         /\ i + 1 \in Waiting(r)
        /\ \A i \in Waiting(r)' : out'[i] = out[i + 1]
        /\ Waiting(r) \subseteq 1 .. Len(out)
  <2>1. \A r \in Socket : Posted(r)' = Posted(r)
    BY <1>4, <1>6 DEF Posted
  <2>2. \A i \in 1 .. Len(out) - 1 : i + 1 \in 1 .. Len(out) BY <1>1
  <2> QED BY <1>1, <1>3, <2>1, <2>2 DEF Waiting
<1>9. 1 \in Waiting(s) BY <1>1, <1>2 DEF Waiting, h
<1>10. /\ \A j \in Waiting(s) : j # 1 => h.n < out[j].n
       /\ h.n = sock[s].sent + 1 /\ h.n <= Posted(s)
  <2>1. \A j \in Waiting(s) : j # 1 => 1 < j BY <1>1, <1>8, <1>4
  <2>2. \A j \in Waiting(s) : j # 1 => h.n < out[j].n
    BY <1>4, <1>7, <1>9, <2>1 DEF h
  <2>3. h.n \in sock[s].sent + 1 .. Posted(s) BY <1>4, <1>7, <1>9 DEF h
  <2>4. sock[s].sent + 1 \in sock[s].sent + 1 .. Posted(s)
    BY <1>1, <1>4, <2>3
  <2>5. PICK j \in Waiting(s) : out[j].n = sock[s].sent + 1
    BY <1>4, <1>7, <2>4
  <2>6. h.n <= out[j].n
    BY <1>1, <1>4, <1>8, <2>2 DEF h
  <2> QED BY <1>1, <1>4, <2>2, <2>3, <2>5, <2>6
<1>11. ~ (sock[s].conn = "none")
  <2>1. sock[s].conn = "none" => Posted(s) = 0 /\ sock[s].sent = 0
    BY <1>4 DEF InOrder, Blank, Posted
  <2> QED BY <1>10, <2>1
<1>12. Blank'
  BY <1>4, <1>6, <1>11 DEF InOrder, Blank
<1>13. ASSUME NEW r \in Socket
       PROVE  /\ sock'[r].sent <= Posted(r)'
              /\ {out'[i].n : i \in Waiting(r)'} = sock'[r].sent + 1 .. Posted(r)'
              /\ \A i, j \in Waiting(r)' : i < j => out'[i].n < out'[j].n
  <2>1. \A i, j \in Waiting(r)' : i < j => out'[i].n < out'[j].n
    <3> SUFFICES ASSUME NEW i \in Waiting(r)', NEW j \in Waiting(r)', i < j
                 PROVE  out'[i].n < out'[j].n
      OBVIOUS
    <3>1. i + 1 \in Waiting(r) /\ j + 1 \in Waiting(r) /\ i + 1 < j + 1
      BY <1>1, <1>8
    <3> QED BY <1>7, <1>8, <3>1
  <2>2. \A k \in Waiting(r) : k # 1 => k - 1 \in Waiting(r)'
                                        /\ out'[k - 1] = out[k]
    <3> SUFFICES ASSUME NEW k \in Waiting(r), k # 1
                 PROVE  k - 1 \in Waiting(r)' /\ out'[k - 1] = out[k]
      OBVIOUS
    <3>1. k \in 1 .. Len(out) BY <1>8
    <3>2. k - 1 \in 1 .. Len(out) - 1 /\ (k - 1) + 1 = k BY <1>1, <3>1
    <3>3. k - 1 \in Waiting(r)' BY <1>8, <3>2
    <3> QED BY <1>8, <3>2, <3>3
  <2>3. {out'[i].n : i \in Waiting(r)'} = {out[k].n : k \in Waiting(r) \ {1}}
    <3>1. \A i \in Waiting(r)' : i + 1 \in Waiting(r) \ {1}
                                 /\ out'[i].n = out[i + 1].n
      <4>1. \A i \in 1 .. Len(out) - 1 : i + 1 # 1 BY <1>1
      <4> QED BY <1>8, <4>1
    <3> QED BY <2>2, <3>1
  <2>4. CASE r = s
    <3>1. {out[k].n : k \in Waiting(s) \ {1}} = h.n + 1 .. Posted(s)
      <4>1. ASSUME NEW k \in Waiting(s) \ {1}
            PROVE  out[k].n \in h.n + 1 .. Posted(s)
        <5>1. h.n < out[k].n BY <1>10
        <5>2. out[k].n \in sock[s].sent + 1 .. Posted(s) BY <1>4, <1>7
        <5> QED BY <1>1, <1>4, <5>1, <5>2
      <4>2. ASSUME NEW x \in h.n + 1 .. Posted(s)
            PROVE  \E k \in Waiting(s) \ {1} : out[k].n = x
        <5>1. x \in sock[s].sent + 1 .. Posted(s) BY <1>1, <1>4, <1>10
        <5>2. PICK k \in Waiting(s) : out[k].n = x BY <1>4, <1>7, <5>1
        <5>3. x # h.n BY <1>1, <1>4
        <5> QED BY <5>2, <5>3 DEF h
      <4> QED BY <4>1, <4>2
    <3> QED BY <1>6, <1>8, <1>10, <2>1, <2>3, <2>4, <3>1
  <2>5. CASE r # s
    <3>1. 1 \notin Waiting(r) BY <2>5 DEF Waiting, h
    <3>2. sock'[r] = sock[r] BY <1>6, <2>5
    <3> QED BY <1>7, <1>8, <2>1, <2>3, <3>1, <3>2
  <2> QED BY <2>4, <2>5
<1> QED BY <1>12, <1>13 DEF RepliesInOrder

\* Every other step touches no reply, or opens a socket that was blank.
LEMMA OrderStep == IInv /\ InOrder /\ [Next]_vars => InOrder'
<1> SUFFICES ASSUME IInv, InOrder, [Next]_vars, ~ srvDone'
             PROVE  Blank' /\ RepliesInOrder'
  BY DEF InOrder
<1>0. TypeOK /\ \A s \in Socket : sock[s] \in SocketState
  BY DEF IInv, TypeOK
<1>1. ~ srvDone
  BY DEF Next, DeliverUDP, DropUDP, Panic, HandleUpstream, ReapFlows,
         ResetForHandshake, Shutdown, ServerStops, Elapse, Read, Post,
         ReadFails, vars
<1>2. ASSUME UNCHANGED out, \A s \in Socket : SameReplies(sock[s], sock'[s])
      PROVE  Blank' /\ RepliesInOrder'
  BY <1>0, <1>1, <1>2, OrderKept
<1>3. \A s \in Socket : SameReplies(sock[s], sock[s])
  BY <1>1 DEF InOrder, Blank, SameReplies
<1>4. ASSUME UNCHANGED <<sock, out>> PROVE Blank' /\ RepliesInOrder'
  BY <1>2, <1>3, <1>4
<1>5. ASSUME NEW p \in Packet, DeliverUDP(p) PROVE Blank' /\ RepliesInOrder'
  <2> DEFINE k == Key(p)
  <2>1. k \in Keys /\ out' = out BY <1>5 DEF Keys, DeliverUDP
  <2>2. CASE nat[k] # None /\ sock' = [sock EXCEPT ![nat[k]].age = 0]
    <3>1. nat[k] \in Socket BY <1>0, <2>1, <2>2 DEF TypeOK
    <3>2. /\ \A s \in Socket \ {nat[k]} : sock'[s] = sock[s]
          /\ SameReplies(sock[nat[k]], sock'[nat[k]])
      BY <1>0, <1>3, <2>2, <3>1 DEF TypeOK, SocketState, SameReplies
    <3> QED BY <1>2, <1>3, <2>1, <3>2
  <2>3. CASE Open(k)
    <3> DEFINE n == opened + 1
               r == [key |-> k, conn |-> "open", pump |-> "reading", age |-> 0,
                     read |-> 0, sent |-> 0]
    <3>1. n \in Socket /\ sock' = [sock EXCEPT ![n] = r]
      BY <1>0, <2>3, UdpNatAssumption DEF Open, TypeOK, Socket
    <3>2. sock[n].conn = "none"
      BY <1>0, <3>1 DEF IInv, Allocated, TypeOK
    <3>3. SameReplies(sock[n], r)
      BY <1>1, <3>1, <3>2 DEF InOrder, Blank, SameReplies
    <3>4. \A s \in Socket : sock'[s] = IF s = n THEN r ELSE sock[s]
      BY <1>0, <3>1 DEF TypeOK
    <3> HIDE DEF n, r
    <3> QED BY <1>2, <1>3, <2>1, <3>3, <3>4
  <2>4. CASE UNCHANGED sock BY <1>4, <2>1, <2>4
  <2> QED BY <1>5, <2>2, <2>3, <2>4 DEF DeliverUDP
<1>6. CASE HandleUpstream BY <1>0, <1>1, <1>6, HandleOrder
<1>7. ASSUME NEW D \in SUBSET Mapped, running, UNCHANGED out,
             sock' = Closed({nat[k] : k \in D})
      PROVE  Blank' /\ RepliesInOrder'
  <2>1. \A s \in {nat[k] : k \in D} : s \in Socket /\ sock[s].conn = "open"
    BY <1>7 DEF IInv, TableExact, OpenSockets
  <2>2. \A s \in Socket :
           sock'[s] = IF s \in {nat[k] : k \in D}
                      THEN [sock[s] EXCEPT !.conn = "closed"] ELSE sock[s]
    BY <1>7 DEF Closed
  <2>3. \A s \in Socket :
           SameReplies(sock[s], [sock[s] EXCEPT !.conn = "closed"])
    BY <1>0 DEF SameReplies, SocketState
  <2> QED BY <1>2, <1>3, <1>7, <2>2, <2>3
<1>8. CASE ReapFlows
  <2>1. Expired \subseteq Mapped BY DEF Expired
  <2> QED BY <1>7, <1>8, <2>1 DEF ReapFlows
<1>9. CASE ResetForHandshake \/ Shutdown
  BY <1>7, <1>9 DEF ResetForHandshake, Shutdown, InNat
<1>10. CASE Elapse
  <2>1. \A s \in Socket :
           sock'[s] = IF sock[s].conn = "open" /\ sock[s].age <= UDPFlowIdle
                      THEN [sock[s] EXCEPT !.age = @ + 1] ELSE sock[s]
    BY <1>10 DEF Elapse
  <2>2. \A s \in Socket : sock[s].conn = "open" =>
           SameReplies(sock[s], [sock[s] EXCEPT !.age = @ + 1])
    BY <1>0 DEF SameReplies, SocketState
  <2>3. out' = out BY <1>10 DEF Elapse
  <2> QED BY <1>2, <1>3, <2>1, <2>2, <2>3
<1>11. ASSUME NEW s \in Socket, Post(s) PROVE Blank' /\ RepliesInOrder'
  BY <1>0, <1>1, <1>11, PostOrder
<1>12. ASSUME NEW s \in Socket, Read(s) PROVE Blank' /\ RepliesInOrder'
  <2> DEFINE q == [sock[s] EXCEPT !.pump = "posting", !.read = @ + 1]
  <2>1. sock' = [sock EXCEPT ![s] = q]
    BY <1>0, <1>12 DEF Read, TypeOK
  <2>2. /\ q.pump = "posting" /\ q.read = sock[s].read + 1
        /\ q.sent = sock[s].sent /\ q.conn = "open"
        /\ sock[s].pump = "reading" /\ sock[s].read \in Nat
    BY <1>0, <1>12, UdpNatAssumption DEF Read, SocketState
  <2> HIDE DEF q
  <2>3. \A r \in Socket : sock'[r] = IF r = s THEN q ELSE sock[r]
    BY <1>0, <2>1 DEF TypeOK
  <2>4. Blank' BY <1>1, <2>2, <2>3 DEF InOrder, Blank
  <2>5. \A r \in Socket : /\ Posted(r)' = Posted(r)
                          /\ sock'[r].sent = sock[r].sent
                          /\ Waiting(r)' = Waiting(r)
    <3>1. out' = out BY <1>12 DEF Read
    <3>2. Posted(s)' = Posted(s) BY <2>2, <2>3 DEF Posted
    <3> QED BY <2>2, <2>3, <3>1, <3>2 DEF Posted, Waiting
  <2>6. out' = out BY <1>12 DEF Read
  <2>7. RepliesInOrder' BY <1>1, <2>5, <2>6 DEF InOrder, RepliesInOrder
  <2> QED BY <2>4, <2>7
<1>13. ASSUME NEW s \in Socket, ReadFails(s) PROVE Blank' /\ RepliesInOrder'
  <2> DEFINE q == [sock[s] EXCEPT !.pump = "over"]
  <2>1. sock' = [sock EXCEPT ![s] = q] /\ out' = out
    BY <1>13 DEF ReadFails, Moves
  <2>2. SameReplies(sock[s], q)
    <3>1. sock[s].pump = "reading" BY <1>13 DEF ReadFails, Moves
    <3>2. sock[s].conn # "none" BY <1>1, <3>1 DEF InOrder, Blank
    <3> QED BY <1>0, <3>1, <3>2 DEF SameReplies, SocketState
  <2> HIDE DEF q
  <2>3. \A r \in Socket : sock'[r] = IF r = s THEN q ELSE sock[r]
    BY <1>0, <2>1 DEF TypeOK
  <2> QED BY <1>2, <1>3, <2>1, <2>2, <2>3
<1>14. ~ ServerStops /\ \A p \in Packet : ~ Panic(p)
  BY DEF ServerStops, Panic
<1>15. CASE UNCHANGED vars BY <1>4, <1>15 DEF vars
<1>16. ASSUME NEW p \in Packet, DropUDP(p) PROVE Blank' /\ RepliesInOrder'
  BY <1>15, <1>16 DEF DropUDP
<1> QED
  BY <1>5, <1>6, <1>8, <1>9, <1>10, <1>11, <1>12, <1>13, <1>14, <1>15, <1>16
     DEF Next

-----------------------------------------------------------------------------
(* Theorems                                                                *)

\* The inductive invariant holds in every state: it says how the table and
\* the sockets of the NAT belong together (openUDPFlow, close, reapFlows,
\* resetForHandshake, shutdown).
THEOREM Safety == Spec => []IInv
  BY InitInv, StepInv, PTL DEF Spec

\* Every variable stays in its range.
THEOREM TypeCorrect == Spec => []TypeOK
<1>1. IInv => TypeOK BY DEF IInv
<1> QED BY <1>1, Safety, PTL

\* The open sockets are those in the table of a running session, within its
\* limit: no handshake, reaping or shutdown leaves a socket behind.
THEOREM NoSocketIsLeaked == Spec => []SocketsAreMapped
<1>1. IInv => SocketsAreMapped
  <2> SUFFICES ASSUME IInv PROVE SocketsAreMapped OBVIOUS
  <2>1. CASE running
    <3>1. InNat \subseteq OpenSockets BY <2>1 DEF IInv, TableExact, InNat
    <3>2. ASSUME NEW s \in OpenSockets PROVE s \in InNat
      <4>1. sock[s].key \in Keys /\ nat[sock[s].key] = s /\ s # None
        BY DEF IInv, TableExact, OpenSockets, Socket, None
      <4> QED BY <4>1 DEF InNat, Mapped
    <3> QED BY <2>1, <3>1, <3>2 DEF SocketsAreMapped, IInv, TableExact, Limited
  <2>2. CASE ~ running
    <3>1. OpenSockets = {} BY <2>2 DEF IInv, TableExact
    <3> QED BY <2>2, <3>1 DEF SocketsAreMapped, IInv, TableExact, Limited
  <2> QED BY <2>1, <2>2
<1> QED BY <1>1, Safety, PTL

\* No reply is lost, repeated or out of its socket's order before the server
\* ends: not by a full channel, a closed socket, a tuple used again or a
\* handshake, for any capacity of the channel (udpReadPump, postUpstream).
THEOREM NoReplyIsLost == Spec => []RepliesInOrder
<1>1. Init => InOrder
  <2> SUFFICES ASSUME Init PROVE Blank /\ RepliesInOrder BY DEF InOrder
  <2>1. \A s \in Socket : /\ sock[s] = NoSocket /\ Waiting(s) = {}
    BY DEF Init, Waiting
  <2>2. \A s \in Socket : Posted(s) = 0 /\ sock[s].sent = 0
    BY <2>1 DEF Posted, NoSocket
  <2>3. Blank BY <2>1 DEF Blank, NoSocket
  <2>4. RepliesInOrder BY <2>1, <2>2 DEF RepliesInOrder
  <2> QED BY <2>3, <2>4
<1>2. InOrder => RepliesInOrder BY DEF InOrder, RepliesInOrder
<1> QED BY <1>1, <1>2, OrderStep, Safety, PTL DEF Spec

\* Whatever packets a device tunnels, padded, fragmented, cut short or with
\* wrong lengths, the parsers end the program over none but those whose total
\* length is short of their header (parseIPv4, parseUDP, deliverUDP).
THEOREM OnlyShortTotals == Spec => []OnlyShortTotalsPanic
<1>1. Init => OnlyShortTotalsPanic BY DEF Init, OnlyShortTotalsPanic
<1>2. OnlyShortTotalsPanic /\ [Next]_vars => OnlyShortTotalsPanic'
  <2> SUFFICES ASSUME OnlyShortTotalsPanic, [Next]_vars
               PROVE  OnlyShortTotalsPanic'
    OBVIOUS
  <2>1. ASSUME NEW p \in Packet, Panic(p) PROVE OnlyShortTotalsPanic'
    <3>1. fatal' = {p} /\ Panics(p) BY <2>1 DEF Panic
    <3> QED BY <3>1, PanicIsShort DEF OnlyShortTotalsPanic
  <2>2. UNCHANGED fatal \/ \E p \in Packet : Panic(p)
    BY DEF Next, DeliverUDP, DropUDP, HandleUpstream, ReapFlows,
           ResetForHandshake, Shutdown, ServerStops, Elapse, Read, Post,
           ReadFails, vars
  <2> QED BY <2>1, <2>2 DEF OnlyShortTotalsPanic
<1> QED BY <1>1, <1>2, PTL DEF Spec
=============================================================================
