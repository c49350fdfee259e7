--------------------------- MODULE Handshake_proofs ---------------------------
(***************************************************************************)
(* Theorems about Handshake, for any legs, devices and bounds.             *)
(***************************************************************************)
EXTENDS Handshake, SequenceTheorems, TLAPS

\* A leg that carries s for a device dev of which the session has taken g:
\* data is of this run of the device, and no request follows data, neither in
\* flight nor behind what was taken already.
LegInOrder(s, dev, g, l) ==
  /\ \A i \in DOMAIN s :
        s[i].type = "data" => s[i].run = dev.run /\ dev.phase = "done"
  /\ \A i, j \in DOMAIN s : i < j /\ s[i].type = "data" => s[j].type # "req"
  /\ \A d \in g : d.run = dev.run /\ d.leg = l =>
        \A j \in DOMAIN s : s[j].type # "req"

\* Nothing was taken from the device of a run that has not begun to send.
TakenInRuns(dev, g) ==
  \A d \in g : d.leg \in Leg =>
    /\ d.run <= dev.run
    /\ d.run = dev.run => dev.phase = "done"

LegsInOrder == \A l \in Leg : LegInOrder(up[l], device, got, l)

\* The other legs bring requests of other devices only.
StrangersAsk ==
  \A l \in StrangerLeg :
    \A i \in DOMAIN up[l] : up[l][i].type = "req" => up[l][i].mac # Device

\* What was forgotten is of an earlier run, or the request came another way.
ForgottenRightly ==
  \A f \in lost :
     f.by \in Leg => f.data.run < device.run \/ f.by # f.data.leg

\* The inductive invariant of the handshake.
IInv ==
  /\ TypeOK /\ LegsInOrder /\ TakenInRuns(device, got) /\ StrangersAsk
  /\ ForgottenRightly
-----------------------------------------------------------------------------
(* A leg                                                                   *)

\* What a frame carries.
LEMMA FrameKinds ==
  ASSUME NEW x \in Frame
  PROVE  /\ x.type \in {"req", "confirm", "keepalive", "data"}
         /\ x.type = "data" => x.run \in 0 .. MaxRestarts /\ x.n \in 1 .. MaxData
         /\ x.type = "req" => x.mac \in Mac
  BY DEF Frame

\* A frame is put on a leg: no request once the device sends, and data of its
\* run once it does.
LEMMA Sends ==
  ASSUME NEW s \in Seq(Frame), NEW x \in Frame, NEW dev, NEW g, NEW l \in Leg,
         LegInOrder(s, dev, g, l), TakenInRuns(dev, g),
         x.type = "data" => x.run = dev.run /\ dev.phase = "done",
         x.type = "req" => dev.phase # "done"
  PROVE  LegInOrder(Append(s, x), dev, g, l)
<1> DEFINE q == Append(s, x)
           m == Len(s) + 1
<1>1. /\ Len(s) \in Nat /\ DOMAIN s = 1 .. Len(s) /\ DOMAIN q = 1 .. m
      /\ q[m] = x /\ \A i \in 1 .. Len(s) : q[i] = s[i]
  BY AppendProperties, LenProperties
<1>2. /\ \A i \in DOMAIN q : i = m \/ i \in DOMAIN s
      /\ \A i \in DOMAIN s : q[i] = s[i] /\ i < m
      /\ m \in DOMAIN q /\ m \in Nat /\ DOMAIN q \subseteq Nat
      /\ \A i \in DOMAIN q : i <= m
  BY <1>1
<1> HIDE DEF q, m
<1>3. /\ \A i \in DOMAIN s :
           s[i].type = "data" => s[i].run = dev.run /\ dev.phase = "done"
      /\ \A i, j \in DOMAIN s : i < j /\ s[i].type = "data" => s[j].type # "req"
      /\ \A d \in g : d.run = dev.run /\ d.leg = l =>
           \A j \in DOMAIN s : s[j].type # "req"
  BY DEF LegInOrder
<1>4. ASSUME NEW i \in DOMAIN q, q[i].type = "data"
      PROVE  q[i].run = dev.run /\ dev.phase = "done"
  BY <1>1, <1>2, <1>3, <1>4
<1>5. ASSUME NEW i \in DOMAIN q, NEW j \in DOMAIN q, i < j,
             q[i].type = "data"
      PROVE  q[j].type # "req"
  <2>1. i \in DOMAIN s BY <1>2, <1>5
  <2>2. CASE j = m BY <1>1, <1>4, <1>5, <2>2
  <2>3. CASE j \in DOMAIN s BY <1>2, <1>3, <1>5, <2>1, <2>3
  <2> QED BY <1>2, <2>2, <2>3
<1>6. ASSUME NEW d \in g, d.run = dev.run, d.leg = l, NEW j \in DOMAIN q
      PROVE  q[j].type # "req"
  <2>1. dev.phase = "done" BY <1>6 DEF TakenInRuns
  <2> QED BY <1>1, <1>2, <1>3, <1>6, <2>1
<1> QED BY <1>4, <1>5, <1>6 DEF LegInOrder, q

\* The first frame is taken from a leg.
LEMMA Rest ==
  ASSUME NEW s \in Seq(Frame), s # <<>>
  PROVE  /\ Tail(s) \in Seq(Frame) /\ Head(s) \in Frame
         /\ Head(s) = s[1] /\ 1 \in DOMAIN s
         /\ \A i \in DOMAIN Tail(s) : /\ i + 1 \in DOMAIN s /\ 1 < i + 1
                                      /\ Tail(s)[i] = s[i + 1]
                                      /\ i \in Nat
<1>1. Len(s) \in Nat /\ DOMAIN s = 1 .. Len(s) /\ Len(s) # 0
  BY LenProperties, EmptySeq
<1>2. /\ Tail(s) \in Seq(Frame) /\ DOMAIN Tail(s) = 1 .. Len(s) - 1
      /\ \A i \in 1 .. Len(s) - 1 : Tail(s)[i] = s[i + 1]
      /\ Head(s) \in Frame
  BY HeadTailProperties, LenProperties
<1> QED BY <1>1, <1>2

LEMMA Takes ==
  ASSUME NEW s \in Seq(Frame), s # <<>>, NEW dev, NEW g, NEW l,
         LegInOrder(s, dev, g, l)
  PROVE  LegInOrder(Tail(s), dev, g, l)
<1> DEFINE q == Tail(s)
<1>1. \A i \in DOMAIN q : /\ i + 1 \in DOMAIN s /\ q[i] = s[i + 1] /\ i \in Nat
  BY Rest
<1> HIDE DEF q
<1>2. \A i, j \in DOMAIN q : i < j => i + 1 < j + 1 BY <1>1
<1>3. /\ \A i \in DOMAIN s :
           s[i].type = "data" => s[i].run = dev.run /\ dev.phase = "done"
      /\ \A i, j \in DOMAIN s : i < j /\ s[i].type = "data" => s[j].type # "req"
      /\ \A d \in g : d.run = dev.run /\ d.leg = l =>
           \A j \in DOMAIN s : s[j].type # "req"
  BY DEF LegInOrder
<1>4. \A i, j \in DOMAIN q : i < j /\ q[i].type = "data" => q[j].type # "req"
  BY <1>1, <1>2, <1>3
<1> QED BY <1>1, <1>3, <1>4 DEF LegInOrder, q

\* Data is taken from a leg: no request is behind it.
LEMMA TakesData ==
  ASSUME NEW s \in Seq(Frame), s # <<>>, NEW dev, NEW g, NEW l,
         LegInOrder(s, dev, g, l), Head(s).type = "data",
         NEW d
  PROVE  /\ LegInOrder(Tail(s), dev, g \cup {d}, l)
         /\ Head(s).run = dev.run /\ dev.phase = "done"
<1>1. /\ Head(s) = s[1] /\ 1 \in DOMAIN s
      /\ \A i \in DOMAIN Tail(s) : /\ i + 1 \in DOMAIN s /\ 1 < i + 1
                                   /\ Tail(s)[i] = s[i + 1]
  BY Rest
<1>2. /\ \A i \in DOMAIN s :
           s[i].type = "data" => s[i].run = dev.run /\ dev.phase = "done"
      /\ \A i, j \in DOMAIN s : i < j /\ s[i].type = "data" => s[j].type # "req"
  BY DEF LegInOrder
<1>3. \A i \in DOMAIN Tail(s) : Tail(s)[i].type # "req" BY <1>1, <1>2
<1>4. LegInOrder(Tail(s), dev, g, l) BY Takes
<1>5. LegInOrder(Tail(s), dev, g \cup {d}, l) BY <1>3, <1>4 DEF LegInOrder
<1> QED BY <1>1, <1>2, <1>5

\* A leg with nothing on it.
LEMMA Empty == \A dev, g, l : LegInOrder(<<>>, dev, g, l)
<1>1. DOMAIN <<>> = {} OBVIOUS
<1> QED BY <1>1 DEF LegInOrder

-----------------------------------------------------------------------------
(* Steps                                                                   *)

\* A frame goes out on a leg.
LEMMA Sending ==
  ASSUME TypeOK, NEW l \in AnyLeg, NEW x \in Frame, OnLeg(l, x)
  PROVE  /\ up' \in [AnyLeg -> Seq(Frame)] /\ up'[l] = Append(up[l], x)
         /\ \A k \in AnyLeg \ {l} : up'[k] = up[k]
<1>1. up[l] \in Seq(Frame) /\ Append(up[l], x) \in Seq(Frame)
  BY AppendProperties DEF TypeOK
<1> QED BY <1>1 DEF OnLeg, TypeOK

\* The device's own legs are not a stranger's.
LEMMA Legs ==
  /\ Leg \subseteq AnyLeg /\ StrangerLeg \subseteq AnyLeg
  /\ \A l \in Leg : l \notin StrangerLeg
  /\ \A l \in AnyLeg : l \in Leg \/ l \in StrangerLeg
  BY HandshakeAssumption DEF AnyLeg

LEMMA InitInv == Init => IInv
<1> SUFFICES ASSUME Init PROVE IInv OBVIOUS
<1>1. TypeOK
  <2>1. /\ 0 \in 0 .. MaxRestarts /\ 0 \in 0 .. MaxData
        /\ 0 \in 0 .. MaxRequests /\ 0 \in 0 .. MaxStrange
    BY HandshakeAssumption
  <2>2. device \in DeviceState BY <2>1 DEF Init, DeviceState
  <2>3. up \in [AnyLeg -> Seq(Frame)]
    <3>1. <<>> \in Seq(Frame) OBVIOUS
    <3> QED BY <3>1 DEF Init
  <2>4. down \in [AnyLeg -> Seq(Reply)]
    <3>1. <<>> \in Seq(Reply) OBVIOUS
    <3> QED BY <3>1 DEF Init
  <2> QED BY <2>1, <2>2, <2>3, <2>4 DEF Init, TypeOK
<1>2. LegsInOrder BY Empty, Legs DEF Init, LegsInOrder
<1>3. TakenInRuns(device, got) BY DEF Init, TakenInRuns
<1>4. StrangersAsk
  <2>1. DOMAIN <<>> = {} OBVIOUS
  <2> QED BY <2>1, Legs DEF Init, StrangersAsk
<1>5. ForgottenRightly BY DEF Init, ForgottenRightly
<1> QED BY <1>1, <1>2, <1>3, <1>4, <1>5 DEF IInv

\* The device takes a step that sends nothing.
LEMMA DeviceMoves ==
  ASSUME IInv, device' \in DeviceState, device'.run = device.run,
         device'.phase = device.phase \/ device.phase # "done",
         down' \in [AnyLeg -> Seq(Reply)],
         UNCHANGED <<state, admitted, got, up, alive, strange, lost>>
  PROVE  IInv'
<1>1. TypeOK' BY DEF IInv, TypeOK
<1>2. LegsInOrder' BY DEF IInv, LegsInOrder, LegInOrder
<1>3. TakenInRuns(device', got') BY DEF IInv, TakenInRuns
<1>4. StrangersAsk' /\ ForgottenRightly'
  BY DEF IInv, StrangersAsk, ForgottenRightly
<1> QED BY <1>1, <1>2, <1>3, <1>4 DEF IInv

\* The device sends on one of its own legs.
LEMMA DeviceSends ==
  ASSUME IInv, NEW l \in Leg, NEW x \in Frame, OnLeg(l, x),
         device' \in DeviceState, device'.run = device.run,
         device'.phase = device.phase \/ device.phase # "done",
         x.type = "data" => x.run = device.run /\ device.phase = "done",
         x.type = "req" => device'.phase # "done",
         UNCHANGED <<state, admitted, got, down, alive, strange, lost>>
  PROVE  IInv'
<1>0. TypeOK /\ TakenInRuns(device, got) BY DEF IInv
<1>1. /\ up' \in [AnyLeg -> Seq(Frame)] /\ up'[l] = Append(up[l], x)
      /\ \A k \in AnyLeg \ {l} : up'[k] = up[k]
  BY <1>0, Sending, Legs
<1>2. TypeOK' BY <1>0, <1>1 DEF TypeOK
<1>3. TakenInRuns(device', got) BY <1>0 DEF TakenInRuns
<1>4. \A k \in Leg : LegInOrder(up[k], device', got, k)
  BY DEF IInv, LegsInOrder, LegInOrder
<1>5. LegInOrder(up'[l], device', got, l)
  <2>1. up[l] \in Seq(Frame) BY <1>0, Legs DEF TypeOK
  <2>2. x.type = "data" => x.run = device'.run /\ device'.phase = "done"
    OBVIOUS
  <2>3. LegInOrder(Append(up[l], x), device', got, l)
    BY <1>3, <1>4, <2>1, <2>2, Sends
  <2> QED BY <1>1, <2>3
<1>6. LegsInOrder' BY <1>1, <1>4, <1>5, Legs DEF LegsInOrder
<1>7. StrangersAsk'
  <2>1. \A k \in StrangerLeg : up'[k] = up[k] BY <1>1, Legs
  <2> QED BY <2>1 DEF IInv, StrangersAsk
<1>8. ForgottenRightly' BY DEF IInv, ForgottenRightly
<1> QED BY <1>2, <1>3, <1>6, <1>7, <1>8 DEF IInv

\* One turn of a loop of Handshake, on a leg that lives or has broken.
LEMMA SendOnStep ==
  ASSUME IInv, NEW l \in Leg, NEW x \in Frame,
         x.type \in {"req", "confirm"},
         device.phase \in {"asking", "confirming"},
         NEW next \in {"waiting", "done"},
         x.type = "req" => next # "done",
         SendOn(l, x, next)
  PROVE  IInv'
<1>0. TypeOK /\ device \in DeviceState BY DEF IInv, TypeOK
<1>1. /\ IF l \in alive THEN OnLeg(l, x) ELSE UNCHANGED up
      /\ device' = [device EXCEPT !.left = @ \ {l},
                      !.phase = IF device.left = {l} THEN next ELSE @]
      /\ UNCHANGED <<state, admitted, got, down, alive, strange, lost>>
  BY DEF SendOn
<1>2. /\ device' \in DeviceState /\ device'.run = device.run
      /\ device'.phase \in {device.phase, next}
  BY <1>0, <1>1 DEF DeviceState
<1>3. CASE l \in alive BY <1>1, <1>2, <1>3, DeviceSends
<1>4. CASE l \notin alive BY <1>0, <1>1, <1>2, <1>4, DeviceMoves DEF TypeOK
<1> QED BY <1>3, <1>4

\* SendRequest, SendConfirm, SendData, Keepalive.
LEMMA SendStep ==
  ASSUME IInv, NEW l \in Leg,
         SendRequest(l) \/ SendConfirm(l) \/ SendData(l) \/ Keepalive(l)
  PROVE  IInv'
<1>0. device \in DeviceState BY DEF IInv, TypeOK
<1>1. CASE SendRequest(l)
  <2> DEFINE x == [type |-> "req", mac |-> Device]
  <2>1. x \in Frame /\ x.type = "req" BY HandshakeAssumption DEF Frame
  <2>2. device.phase = "asking" /\ SendOn(l, x, "waiting")
    BY <1>1 DEF SendRequest
  <2> HIDE DEF x
  <2> QED BY <2>1, <2>2, SendOnStep
<1>2. CASE SendConfirm(l)
  <2> DEFINE x == [type |-> "confirm"]
  <2>1. x \in Frame /\ x.type = "confirm" BY DEF Frame
  <2>2. device.phase = "confirming" /\ SendOn(l, x, "done")
    BY <1>2 DEF SendConfirm
  <2> HIDE DEF x
  <2> QED BY <2>1, <2>2, SendOnStep
<1>3. CASE SendData(l)
  <2> DEFINE x == [type |-> "data", run |-> device.run, n |-> device.sent + 1]
  <2>1. /\ OnLeg(l, x) /\ device.phase = "done"
        /\ device.sent < MaxData /\ device' = [device EXCEPT !.sent = @ + 1]
        /\ UNCHANGED <<state, admitted, got, down, alive, strange, lost>>
    BY <1>3 DEF SendData
  <2>2. /\ device.sent + 1 \in 0 .. MaxData /\ device.sent + 1 \in 1 .. MaxData
        /\ device.run \in 0 .. MaxRestarts
    BY <1>0, <2>1, HandshakeAssumption DEF DeviceState
  <2>3. x \in Frame /\ x.type = "data" /\ x.run = device.run
    BY <2>2 DEF Frame
  <2>4. /\ device' \in DeviceState /\ device'.run = device.run
        /\ device'.phase = device.phase
    BY <1>0, <2>1, <2>2 DEF DeviceState
  <2> HIDE DEF x
  <2> QED BY <2>1, <2>3, <2>4, DeviceSends
<1>4. CASE Keepalive(l)
  <2> DEFINE x == [type |-> "keepalive"]
  <2>1. x \in Frame /\ x.type = "keepalive" BY DEF Frame
  <2>2. /\ OnLeg(l, x) /\ device' = device
        /\ UNCHANGED <<state, admitted, got, down, alive, strange, lost>>
    BY <1>4 DEF Keepalive
  <2> HIDE DEF x
  <2> QED BY <1>0, <2>1, <2>2, DeviceSends
<1> QED BY <1>1, <1>2, <1>3, <1>4

\* Call, TimesOut, SendFails, Accept.
LEMMA MoveStep ==
  ASSUME IInv, Call \/ TimesOut \/ \E l \in Leg : SendFails(l) \/ Accept(l)
  PROVE  IInv'
<1>0. TypeOK /\ device \in DeviceState BY DEF IInv, TypeOK
<1>1. CASE Call
  <2>1. device.asked < MaxRequests /\ device.phase \in {"idle", "failed"}
    BY <1>1 DEF Call
  <2>2. device.asked + 1 \in 0 .. MaxRequests
    BY <1>0, <2>1, HandshakeAssumption DEF DeviceState
  <2>3. device' \in DeviceState /\ device'.run = device.run
    BY <1>0, <1>1, <2>2 DEF Call, DeviceState, RequestLegs
  <2> QED BY <1>0, <1>1, <2>1, <2>3, DeviceMoves DEF Call, TypeOK
<1>2. CASE TimesOut
  <2>1. device' \in DeviceState /\ device'.run = device.run
    BY <1>0, <1>2 DEF TimesOut, DeviceState
  <2> QED BY <1>0, <1>2, <2>1, DeviceMoves DEF TimesOut, TypeOK
<1>3. ASSUME NEW l \in Leg, SendFails(l) PROVE IInv'
  <2>1. device' \in DeviceState /\ device'.run = device.run
    BY <1>0, <1>3 DEF SendFails, DeviceState
  <2> QED BY <1>0, <1>3, <2>1, DeviceMoves DEF SendFails, TypeOK
<1>4. ASSUME NEW l \in Leg, Accept(l) PROVE IInv'
  <2>1. /\ down[l] # <<>> /\ down' = [down EXCEPT ![l] = Tail(@)]
        /\ UNCHANGED <<state, admitted, got, up, alive, strange, lost>>
        /\ \/ device' = device
           \/ /\ device.phase = "waiting"
              /\ device' = [device EXCEPT !.phase = "confirming",
                                          !.left = ConfirmLegs]
    BY <1>4 DEF Accept
  <2>2. /\ device' \in DeviceState /\ device'.run = device.run
        /\ device'.phase = device.phase \/ device.phase # "done"
    BY <1>0, <2>1 DEF DeviceState, ConfirmLegs
  <2>3. down' \in [AnyLeg -> Seq(Reply)]
    <3>1. down \in [AnyLeg -> Seq(Reply)] /\ l \in AnyLeg
      BY <1>0, Legs DEF TypeOK
    <3>2. Tail(down[l]) \in Seq(Reply) BY <2>1, <3>1, HeadTailProperties
    <3> QED BY <2>1, <3>1, <3>2
  <2> QED BY <2>1, <2>2, <2>3, DeviceMoves
<1> QED BY <1>1, <1>2, <1>3, <1>4

\* The device starts over, a leg breaks, a stranger sends, or nothing happens.
LEMMA OutsideStep ==
  ASSUME IInv,
         \/ Restart \/ \E l \in Leg : LegDies(l)
         \/ \E l \in StrangerLeg, x \in Frame : StrangerSends(l, x)
         \/ UNCHANGED vars
  PROVE  IInv'
<1>0. TypeOK /\ device \in DeviceState BY DEF IInv, TypeOK
<1>1. CASE Restart
  <2>1. /\ device.run < MaxRestarts
        /\ device' = [phase |-> "idle", left |-> {}, run |-> device.run + 1,
                      sent |-> 0, asked |-> 0]
        /\ up' = [l \in AnyLeg |-> IF l \in Leg THEN <<>> ELSE up[l]]
        /\ down' = [l \in AnyLeg |-> IF l \in Leg THEN <<>> ELSE down[l]]
        /\ alive' = alive \cup Leg
        /\ UNCHANGED <<state, admitted, got, strange, lost>>
    BY <1>1 DEF Restart
  <2>2. /\ device.run \in 0 .. MaxRestarts
        /\ device.run + 1 \in 0 .. MaxRestarts
    BY <1>0, <2>1, HandshakeAssumption DEF DeviceState
  <2>3. device' \in DeviceState /\ device'.run = device.run + 1
    BY <2>1, <2>2, HandshakeAssumption DEF DeviceState
  <2>4. up' \in [AnyLeg -> Seq(Frame)] /\ down' \in [AnyLeg -> Seq(Reply)]
    BY <1>0, <2>1 DEF TypeOK
  <2>5. TypeOK' BY <1>0, <2>1, <2>3, <2>4, Legs DEF TypeOK
  <2>6. LegsInOrder' BY <2>1, Empty, Legs DEF LegsInOrder
  <2>7. \A d \in got : /\ d.leg \in Leg => d.run <= device.run
                       /\ d.run \in 0 .. MaxRestarts
    BY <1>0 DEF IInv, TakenInRuns, TypeOK, Data
  <2>8. TakenInRuns(device', got')
    <3>1. \A d \in got : d.leg \in Leg => d.run < device.run + 1
      BY <2>2, <2>7
    <3>2. \A d \in got : d.leg \in Leg =>
            d.run <= device'.run /\ d.run # device'.run
      BY <2>2, <2>3, <2>7, <3>1
    <3> QED BY <2>1, <3>2 DEF TakenInRuns
  <2>9. StrangersAsk'
    <3>1. \A l \in StrangerLeg : up'[l] = up[l] BY <2>1, Legs
    <3> QED BY <3>1 DEF IInv, StrangersAsk
  <2>10. ForgottenRightly'
    <3>1. \A f \in lost : f.data.run \in 0 .. MaxRestarts
      BY <1>0 DEF TypeOK, Data
    <3>2. \A f \in lost : f.data.run < device.run => f.data.run < device.run + 1
      BY <2>2, <3>1
    <3> QED BY <2>1, <2>3, <3>2 DEF IInv, ForgottenRightly
  <2> QED BY <2>5, <2>6, <2>8, <2>9, <2>10 DEF IInv
<1>2. ASSUME NEW l \in Leg, LegDies(l) PROVE IInv'
  <2>1. /\ alive' = alive \ {l}
        /\ up' = [up EXCEPT ![l] = <<>>] /\ down' = [down EXCEPT ![l] = <<>>]
        /\ UNCHANGED <<state, admitted, got, device, strange, lost>>
    BY <1>2 DEF LegDies
  <2>2. TypeOK'
    <3>1. up' \in [AnyLeg -> Seq(Frame)]
      <4>1. <<>> \in Seq(Frame) OBVIOUS
      <4> QED BY <1>0, <2>1, <4>1 DEF TypeOK
    <3>2. down' \in [AnyLeg -> Seq(Reply)]
      <4>1. <<>> \in Seq(Reply) OBVIOUS
      <4> QED BY <1>0, <2>1, <4>1 DEF TypeOK
    <3>3. alive' \subseteq AnyLeg BY <1>0, <2>1 DEF TypeOK
    <3> QED BY <1>0, <2>1, <3>1, <3>2, <3>3 DEF TypeOK
  <2>3. \A k \in AnyLeg : up'[k] = IF k = l THEN <<>> ELSE up[k]
    BY <1>0, <2>1 DEF TypeOK
  <2>4. LegsInOrder' BY <2>1, <2>3, Empty, Legs DEF IInv, LegsInOrder
  <2>5. StrangersAsk'
    BY <2>3, Legs DEF IInv, StrangersAsk
  <2>6. TakenInRuns(device', got') /\ ForgottenRightly'
    BY <2>1 DEF IInv, TakenInRuns, ForgottenRightly
  <2> QED BY <2>2, <2>4, <2>5, <2>6 DEF IInv
<1>3. ASSUME NEW l \in StrangerLeg, NEW x \in Frame, StrangerSends(l, x)
      PROVE  IInv'
  <2>1. /\ OnLeg(l, x) /\ strange < MaxStrange /\ strange' = strange + 1
        /\ x.type = "req" => x.mac # Device
        /\ UNCHANGED <<state, admitted, got, down, device, alive, lost>>
    BY <1>3 DEF StrangerSends
  <2>2. /\ up' \in [AnyLeg -> Seq(Frame)] /\ up'[l] = Append(up[l], x)
        /\ \A k \in AnyLeg \ {l} : up'[k] = up[k]
    BY <1>0, <2>1, Sending, Legs
  <2>3. strange' \in 0 .. MaxStrange
    BY <1>0, <2>1, HandshakeAssumption DEF TypeOK
  <2>4. TypeOK' BY <1>0, <2>1, <2>2, <2>3 DEF TypeOK
  <2>5. LegsInOrder' BY <2>1, <2>2, Legs DEF IInv, LegsInOrder
  <2>6. ASSUME NEW i \in DOMAIN up'[l], up'[l][i].type = "req"
        PROVE  up'[l][i].mac # Device
    <3>1. up[l] \in Seq(Frame) BY <1>0, Legs DEF TypeOK
    <3>2. \/ i \in DOMAIN up[l] /\ up'[l][i] = up[l][i]
          \/ up'[l][i] = x
      BY <2>2, <3>1, AppendProperties, LenProperties
    <3> QED BY <2>1, <2>6, <3>2 DEF IInv, StrangersAsk
  <2>7. StrangersAsk' BY <2>2, <2>6, Legs DEF IInv, StrangersAsk
  <2>8. TakenInRuns(device', got') /\ ForgottenRightly'
    BY <2>1 DEF IInv, TakenInRuns, ForgottenRightly
  <2> QED BY <2>4, <2>5, <2>7, <2>8 DEF IInv
<1>4. CASE UNCHANGED vars
  BY <1>4 DEF vars, IInv, TypeOK, LegsInOrder, TakenInRuns, StrangersAsk,
              ForgottenRightly
<1> QED BY <1>1, <1>2, <1>3, <1>4

\* What taking a frame changes.
LEMMA Taken ==
  ASSUME IInv, NEW l \in AnyLeg, NEW type, Take(l, type)
  PROVE  /\ up[l] \in Seq(Frame) /\ up[l] # <<>> /\ Head(up[l]) \in Frame
         /\ Head(up[l]).type = type
         /\ up' \in [AnyLeg -> Seq(Frame)] /\ up'[l] = Tail(up[l])
         /\ \A k \in AnyLeg \ {l} : up'[k] = up[k]
         /\ \A k \in Leg : LegInOrder(up'[k], device, got, k)
         /\ l \in StrangerLeg /\ type = "req" => Head(up[l]).mac # Device
         /\ StrangersAsk'
         /\ UNCHANGED <<device, alive, strange>>
<1>0. TypeOK BY DEF IInv
<1>1. /\ up[l] # <<>> /\ Head(up[l]).type = type
      /\ up' = [up EXCEPT ![l] = Tail(@)]
      /\ UNCHANGED <<device, alive, strange>>
  BY DEF Take
<1>2. up[l] \in Seq(Frame) /\ up \in [AnyLeg -> Seq(Frame)]
  BY <1>0 DEF TypeOK
<1>3. /\ Tail(up[l]) \in Seq(Frame) /\ Head(up[l]) \in Frame
      /\ Head(up[l]) = up[l][1] /\ 1 \in DOMAIN up[l]
      /\ \A i \in DOMAIN Tail(up[l]) : /\ i + 1 \in DOMAIN up[l]
                                       /\ Tail(up[l])[i] = up[l][i + 1]
  BY <1>1, <1>2, Rest
<1>4. /\ up' \in [AnyLeg -> Seq(Frame)] /\ up'[l] = Tail(up[l])
      /\ \A k \in AnyLeg \ {l} : up'[k] = up[k]
  BY <1>1, <1>2, <1>3
<1>5. ASSUME NEW k \in Leg PROVE LegInOrder(up'[k], device, got, k)
  <2>1. LegInOrder(up[k], device, got, k) BY DEF IInv, LegsInOrder
  <2>2. CASE k = l BY <1>1, <1>2, <1>4, <2>1, <2>2, Takes
  <2>3. CASE k # l BY <1>4, <2>1, <2>3, Legs
  <2> QED BY <2>2, <2>3
<1>6. l \in StrangerLeg /\ type = "req" => Head(up[l]).mac # Device
  BY <1>1, <1>3 DEF IInv, StrangersAsk
<1>7. StrangersAsk'
  <2>1. ASSUME NEW k \in StrangerLeg, NEW i \in DOMAIN up'[k]
        PROVE  up'[k][i].type = "req" => up'[k][i].mac # Device
    <3>1. \A j \in DOMAIN up[k] : up[k][j].type = "req" => up[k][j].mac # Device
      BY DEF IInv, StrangersAsk
    <3>2. CASE k = l
      <4>1. i \in DOMAIN Tail(up[l]) /\ up'[k][i] = Tail(up[l])[i]
        BY <1>4, <2>1, <3>2
      <4>2. i + 1 \in DOMAIN up[k] /\ up'[k][i] = up[k][i + 1]
        BY <1>3, <3>2, <4>1
      <4> QED BY <3>1, <4>2
    <3>3. CASE k # l
      <4>1. up'[k] = up[k] BY <1>4, <3>3, Legs
      <4> QED BY <2>1, <3>1, <4>1
    <3> QED BY <3>2, <3>3
  <2> QED BY <2>1 DEF StrangersAsk
<1> QED BY <1>1, <1>2, <1>3, <1>4, <1>5, <1>6, <1>7

\* A reply goes down on a leg.
LEMMA Replying ==
  ASSUME TypeOK, NEW l \in AnyLeg, NEW r \in Reply,
         down' = [down EXCEPT ![l] = Append(@, r)]
  PROVE  down' \in [AnyLeg -> Seq(Reply)]
<1>1. down \in [AnyLeg -> Seq(Reply)] BY DEF TypeOK
<1>2. Append(down[l], r) \in Seq(Reply) BY <1>1, AppendProperties
<1> QED BY <1>1, <1>2

\* A request that the session answers: what it forgets came another way, or
\* is of an earlier run, unless a stranger asked.
LEMMA RequestStep ==
  ASSUME IInv, NEW l \in AnyLeg, OnHandshakeReq(l)
  PROVE  IInv'
<1>0. TypeOK BY DEF IInv
<1>1. /\ Take(l, "req") /\ admitted' = TRUE /\ got' = {}
      /\ lost' = lost \cup [data : {d \in got : d.leg \in Leg}, by : {l}]
      /\ state' = StateSrvReady
      /\ down' = [down EXCEPT ![l] = Append(@, "ack")]
  BY DEF OnHandshakeReq, Answers, ResetForHandshake
<1>2. /\ up[l] \in Seq(Frame) /\ up[l] # <<>> /\ Head(up[l]).type = "req"
      /\ up' \in [AnyLeg -> Seq(Frame)]
      /\ \A k \in Leg : LegInOrder(up'[k], device, got, k)
      /\ StrangersAsk' /\ UNCHANGED <<device, alive, strange>>
  BY <1>1, Taken
<1>3. TypeOK'
  <2>1. down' \in [AnyLeg -> Seq(Reply)] BY <1>0, <1>1, Replying DEF Reply
  <2>2. lost' \subseteq [data : Data, by : AnyLeg] BY <1>0, <1>1 DEF TypeOK
  <2> QED BY <1>0, <1>1, <1>2, <2>1, <2>2 DEF TypeOK
<1>4. LegsInOrder' BY <1>1, <1>2 DEF LegsInOrder, LegInOrder
<1>5. TakenInRuns(device', got') BY <1>1 DEF TakenInRuns
<1>6. ForgottenRightly'
  <2> SUFFICES ASSUME NEW d \in got, l \in Leg, d.leg = l
               PROVE  d.run < device.run
    BY <1>1, <1>2 DEF IInv, ForgottenRightly
  <2>1. Head(up[l]) = up[l][1] /\ 1 \in DOMAIN up[l] BY <1>2, Rest
  <2>2. d.run # device.run
    BY <1>2, <2>1 DEF IInv, LegsInOrder, LegInOrder
  <2>3. d.run <= device.run BY DEF IInv, TakenInRuns
  <2>4. d.run \in 0 .. MaxRestarts /\ device.run \in 0 .. MaxRestarts
    BY <1>0 DEF TypeOK, Data, DeviceState
  <2> QED BY <2>2, <2>3, <2>4
<1> QED BY <1>2, <1>3, <1>4, <1>5, <1>6 DEF IInv

\* Any other frame.
LEMMA FrameStep ==
  ASSUME IInv, NEW l \in AnyLeg,
         Refuse(l) \/ OnConfirm(l) \/ OnKeepalive(l) \/ OnData(l)
  PROVE  IInv'
<1>0. TypeOK BY DEF IInv
<1>1. ASSUME NEW type, Take(l, type), UNCHANGED <<got, lost>>,
             state' \in {StateInit, StateSrvReady, StateBothOK},
             admitted' \in BOOLEAN, down' \in [AnyLeg -> Seq(Reply)]
      PROVE  IInv'
  <2>1. /\ up' \in [AnyLeg -> Seq(Frame)]
        /\ \A k \in Leg : LegInOrder(up'[k], device, got, k)
        /\ StrangersAsk' /\ UNCHANGED <<device, alive, strange>>
    BY <1>1, Taken
  <2>2. TypeOK' BY <1>0, <1>1, <2>1 DEF TypeOK
  <2>3. LegsInOrder' BY <1>1, <2>1 DEF LegsInOrder
  <2>4. TakenInRuns(device', got') /\ ForgottenRightly'
    BY <1>1, <2>1 DEF IInv, TakenInRuns, ForgottenRightly
  <2> QED BY <2>1, <2>2, <2>3, <2>4 DEF IInv
<1>2. CASE Refuse(l) BY <1>0, <1>1, <1>2 DEF Refuse, TypeOK
<1>3. CASE OnConfirm(l)
  BY <1>0, <1>1, <1>3 DEF OnConfirm, Confirmed, TypeOK
<1>4. CASE OnKeepalive(l)
  <2>1. down' \in [AnyLeg -> Seq(Reply)]
    BY <1>0, <1>4, Replying DEF OnKeepalive, Reply
  <2> QED BY <1>0, <1>1, <1>4, <2>1 DEF OnKeepalive, TypeOK
<1>5. CASE OnData(l)
  <2> DEFINE x == Head(up[l])
             d == [run |-> x.run, n |-> x.n, leg |-> l]
  <2>1. /\ Take(l, "data") /\ got' = got \cup {d}
        /\ UNCHANGED <<state, admitted, down, lost>>
    BY <1>5 DEF OnData
  <2>2. /\ up[l] \in Seq(Frame) /\ up[l] # <<>> /\ x \in Frame
        /\ x.type = "data"
        /\ up' \in [AnyLeg -> Seq(Frame)] /\ up'[l] = Tail(up[l])
        /\ \A k \in AnyLeg \ {l} : up'[k] = up[k]
        /\ \A k \in Leg : LegInOrder(up'[k], device, got, k)
        /\ StrangersAsk' /\ UNCHANGED <<device, alive, strange>>
    BY <2>1, Taken
  <2>3. d \in Data BY <2>2, FrameKinds DEF Data
  <2>4. d.run = x.run /\ d.leg = l OBVIOUS
  <2> HIDE DEF d
  <2>5. TypeOK' BY <1>0, <2>1, <2>2, <2>3 DEF TypeOK
  <2>6. ASSUME l \in Leg
        PROVE  /\ LegInOrder(Tail(up[l]), device, got \cup {d}, l)
               /\ d.run = device.run /\ device.phase = "done"
    <3>1. LegInOrder(up[l], device, got, l)
      BY <2>6 DEF IInv, LegsInOrder
    <3>2. /\ LegInOrder(Tail(up[l]), device, got \cup {d}, l)
          /\ x.run = device.run /\ device.phase = "done"
      BY <2>2, <3>1, TakesData
    <3> QED BY <2>4, <3>2
  <2>7. ASSUME NEW k \in Leg PROVE LegInOrder(up'[k], device, got \cup {d}, k)
    <3>1. CASE k = l BY <2>2, <2>6, <3>1
    <3>2. CASE k # l BY <2>2, <2>4, <3>2 DEF LegInOrder
    <3> QED BY <3>1, <3>2
  <2>8. LegsInOrder' BY <2>1, <2>2, <2>7 DEF LegsInOrder
  <2>9. TakenInRuns(device', got')
    <3>1. device.run \in Nat
      BY <1>0, HandshakeAssumption DEF TypeOK, DeviceState
    <3>2. device.run <= device.run BY <3>1
    <3> QED BY <2>1, <2>2, <2>4, <2>6, <3>2 DEF IInv, TakenInRuns
  <2>10. ForgottenRightly' BY <2>1, <2>2 DEF IInv, ForgottenRightly
  <2> QED BY <2>2, <2>5, <2>8, <2>9, <2>10 DEF IInv
<1> QED BY <1>2, <1>3, <1>4, <1>5

\* Every step keeps the invariant.
LEMMA StepInv == IInv /\ [Next]_vars => IInv'
<1> SUFFICES ASSUME IInv, [Next]_vars PROVE IInv' OBVIOUS
<1>1. ASSUME NEW l \in AnyLeg, HandleFrame(l) PROVE IInv'
  BY <1>1, RequestStep, FrameStep DEF HandleFrame
<1> QED BY <1>1, SendStep, MoveStep, OutsideStep DEF Next

\* With one device admitted, only its own requests reset anything.
OwnRequests == \A f \in lost : f.by \in Leg

LEMMA StepOwn ==
  ASSUME AllowedDevices = {Device}
  PROVE  IInv /\ OwnRequests /\ [Next]_vars => OwnRequests'
<1> SUFFICES ASSUME IInv, OwnRequests, [Next]_vars PROVE OwnRequests' OBVIOUS
<1>1. CASE UNCHANGED lost BY <1>1 DEF OwnRequests
<1>2. ASSUME NEW l \in AnyLeg, OnHandshakeReq(l) PROVE OwnRequests'
  <2>1. /\ Take(l, "req") /\ Head(up[l]).mac = Device
        /\ lost' = lost \cup [data : {d \in got : d.leg \in Leg}, by : {l}]
    BY <1>2 DEF OnHandshakeReq, CheckAdmission, Answers, ResetForHandshake
  <2>2. l \in Leg BY <2>1, Taken, Legs
  <2> QED BY <2>1, <2>2 DEF OwnRequests
<1>3. UNCHANGED lost \/ \E l \in AnyLeg : OnHandshakeReq(l)
  BY DEF Next, Call, TimesOut, Restart, SendRequest, SendConfirm, SendOn,
         SendFails, Accept, SendData, Keepalive, LegDies, StrangerSends,
         HandleFrame, Refuse, OnConfirm, OnKeepalive, OnData, vars
<1> QED BY <1>1, <1>2, <1>3

-----------------------------------------------------------------------------
(* Theorems                                                                *)

\* The inductive invariant holds in every state: a request never follows data
\* on a leg of the device, and data a request made the session forget came
\* over another leg or in an earlier run, whoever is admitted
\* (client.Handshake, onHandshakeReq).
THEOREM Safety == Spec => []IInv
  BY InitInv, StepInv, PTL DEF Spec

\* Every variable stays in its range (icg.State, Session.state).
THEOREM TypeCorrect == Spec => []TypeOK
<1>1. IInv => TypeOK BY DEF IInv
<1> QED BY <1>1, Safety, PTL

\* When the list admits the device and no other, the session forgets data of
\* the current run only at a request that came over another leg: neither a
\* retry on the same leg nor a stranger's request does it (onHandshakeReq,
\* checkAdmission).
THEOREM AdmittedDataStays ==
  ASSUME AllowedDevices = {Device}
  PROVE  Spec => []NothingForgotten
<1>1. Init => OwnRequests BY DEF Init, OwnRequests
<1>2. IInv /\ OwnRequests /\ [Next]_vars => OwnRequests' BY StepOwn
<1>3. IInv /\ OwnRequests => NothingForgotten
  BY DEF IInv, OwnRequests, ForgottenRightly, NothingForgotten
<1> QED BY <1>1, <1>2, <1>3, Safety, PTL DEF Spec
=============================================================================
