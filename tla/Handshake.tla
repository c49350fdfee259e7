----------------------------- MODULE Handshake ------------------------------
(***************************************************************************)
(* The handshake between a device and its session, over several TCP legs   *)
(* (icg/concentrator/session.go, onHandshakeReq and its neighbours;        *)
(* icg/client/client.go, Handshake).                                       *)
(*                                                                         *)
(* The device asks on every leg, accepts the first answer, confirms on     *)
(* every leg and sends data on any; a send that fails ends the call, and   *)
(* the device calls again.  A leg keeps its frames in order; nothing       *)
(* orders the frames of different legs.  The session answers every request *)
(* and forgets its sequence positions, its stash and its flows at each     *)
(* one.  A stranger may present itself with the same icg_id, and send more *)
(* than requests.                                                          *)
(***************************************************************************)
EXTENDS Naturals, Sequences, FiniteSets

CONSTANTS Leg,             \* the TCP legs of the device
          StrangerLeg,     \* legs other devices use
          Mac, Device,     \* MAC addresses; the one of the device
          AllowedDevices,  \* Config.AllowedDevices; empty admits every one
          MaxData,         \* bound: data frames the device sends
          MaxRequests,     \* bound: calls of Handshake
          MaxStrange,      \* bound: frames strangers send
          MaxRestarts,     \* bound: times the device starts over
          MaxDeaths        \* bound: legs that break

ASSUME HandshakeAssumption ==
  /\ Device \in Mac /\ AllowedDevices \subseteq Mac
  /\ Leg \cap StrangerLeg = {} /\ Leg # {}
  /\ {MaxData, MaxRequests, MaxStrange, MaxRestarts, MaxDeaths} \subseteq Nat

VARIABLES
  state,     \* Session.state: INIT, SRV_READY or BOTH_OK
  admitted,  \* Session.admitted
  got,       \* data taken since the last reset: [run, n, leg it came on]
  up, down,  \* frames in flight on each leg, per direction
  device,    \* the device: [phase, left, run, sent, asked]; left are the legs
             \* the loop it is in has not come to
  alive,     \* the legs that have not broken
  strange,   \* frames strangers have sent
  lost       \* history: the device's data a reset made the session forget,
             \* and the leg of the request that did it

vars == <<state, admitted, got, up, down, device, alive, strange, lost>>

StateInit == 0
StateSrvReady == 1
StateBothOK == 2

AnyLeg == Leg \cup StrangerLeg
Frame ==
  [type : {"req"}, mac : Mac] \cup
  [type : {"confirm", "keepalive"}] \cup
  [type : {"data"}, run : 0 .. MaxRestarts, n : 1 .. MaxData]
Reply == {"ack", "detect"}
Data == [run : 0 .. MaxRestarts, n : 1 .. MaxData, leg : AnyLeg]

Init ==
  /\ state = StateInit /\ admitted = FALSE /\ got = {}
  /\ up = [l \in AnyLeg |-> <<>>] /\ down = [l \in AnyLeg |-> <<>>]
  /\ device = [phase |-> "idle", left |-> {}, run |-> 0, sent |-> 0, asked |-> 0]
  /\ alive = AnyLeg /\ strange = 0 /\ lost = {}

-----------------------------------------------------------------------------
(* The device                                                              *)

\* Faulty variants of RequestLegs, ConfirmLegs: one leg is enough.
OneLeg == {CHOOSE l \in Leg : TRUE}

\* Both loops of Handshake go over every TCP leg the client has, the broken
\* ones included.
RequestLegs == Leg
ConfirmLegs == Leg

OnLeg(l, frame) == up' = [up EXCEPT ![l] = Append(@, frame)]

\* Handshake is called: first of all, and again by a device whose call failed
\* (it retries once a second).
Call ==
  /\ device.phase \in {"idle", "failed"} /\ device.asked < MaxRequests
  /\ device' = [device EXCEPT !.phase = "asking", !.left = RequestLegs,
                              !.asked = @ + 1]
  /\ UNCHANGED <<state, admitted, got, up, down, alive, strange, lost>>

\* One turn of a loop of Handshake.  What is sent on a leg that has broken is
\* lost, if the send does not fail.
SendOn(l, frame, next) ==
  /\ l \in device.left
  /\ IF l \in alive THEN OnLeg(l, frame) ELSE UNCHANGED up
  /\ device' = [device EXCEPT !.left = @ \ {l},
                              !.phase = IF device.left = {l} THEN next ELSE @]
  /\ UNCHANGED <<state, admitted, got, down, alive, strange, lost>>

SendRequest(l) ==
  device.phase = "asking" /\ SendOn(l, [type |-> "req", mac |-> Device], "waiting")

SendConfirm(l) ==
  device.phase = "confirming" /\ SendOn(l, [type |-> "confirm"], "done")

\* A send on a broken leg fails, and Handshake returns the error from either
\* loop, whatever it has sent on the other legs.
SendFails(l) ==
  /\ device.phase \in {"asking", "confirming"} /\ l \in device.left \ alive
  /\ device' = [device EXCEPT !.phase = "failed", !.left = {}]
  /\ UNCHANGED <<state, admitted, got, up, down, alive, strange, lost>>

\* WaitFor: the first acknowledgement is accepted, whichever leg brings it and
\* whichever call asked for it.  Any other frame is passed over.
Accept(l) ==
  /\ device.phase \in {"waiting", "done"} /\ down[l] # <<>>
  /\ down' = [down EXCEPT ![l] = Tail(@)]
  /\ device' = IF Head(down[l]) = "ack" /\ device.phase = "waiting"
               THEN [device EXCEPT !.phase = "confirming", !.left = ConfirmLegs]
               ELSE device
  /\ UNCHANGED <<state, admitted, got, up, alive, strange, lost>>

\* WaitFor gives up.  The last call gets the time it needs (bound).
TimesOut ==
  /\ device.phase = "waiting" /\ device.asked < MaxRequests
  /\ device' = [device EXCEPT !.phase = "failed"]
  /\ UNCHANGED <<state, admitted, got, up, down, alive, strange, lost>>

\* Data takes any one leg (Flow.send).
SendData(l) ==
  /\ device.phase = "done" /\ device.sent < MaxData /\ l \in alive
  /\ OnLeg(l, [type |-> "data", run |-> device.run, n |-> device.sent + 1])
  /\ device' = [device EXCEPT !.sent = @ + 1]
  /\ UNCHANGED <<state, admitted, got, down, alive, strange, lost>>

\* One keepalive at a time is in flight on a leg (bound).
Keepalive(l) ==
  /\ device.phase = "done" /\ l \in alive
  /\ up[l] = <<>> /\ down[l] = <<>>
  /\ OnLeg(l, [type |-> "keepalive"])
  /\ UNCHANGED <<state, admitted, got, down, device, alive, strange, lost>>

\* The device starts over with new connections; the old ones are gone.
Restart ==
  /\ device.run < MaxRestarts
  /\ device' = [phase |-> "idle", left |-> {}, run |-> device.run + 1,
                sent |-> 0, asked |-> 0]
  /\ alive' = alive \cup Leg
  /\ up' = [l \in AnyLeg |-> IF l \in Leg THEN <<>> ELSE up[l]]
  /\ down' = [l \in AnyLeg |-> IF l \in Leg THEN <<>> ELSE down[l]]
  /\ UNCHANGED <<state, admitted, got, strange, lost>>

\* A WAN goes away with what was in flight on it; one stays.
LegDies(l) ==
  /\ l \in alive /\ (Leg \cap alive) \ {l} # {}
  /\ Cardinality(AnyLeg \ alive) < MaxDeaths
  /\ alive' = alive \ {l}
  /\ up' = [up EXCEPT ![l] = <<>>] /\ down' = [down EXCEPT ![l] = <<>>]
  /\ UNCHANGED <<state, admitted, got, device, strange, lost>>

\* Another device with the same icg_id sends whatever it likes.
StrangerSends(l, x) ==
  /\ strange < MaxStrange
  /\ x.type = "req" => x.mac # Device
  /\ OnLeg(l, x)
  /\ strange' = strange + 1
  /\ UNCHANGED <<state, admitted, got, down, device, alive, lost>>

-----------------------------------------------------------------------------
(* The session                                                             *)

Take(l, type) ==
  /\ up[l] # <<>> /\ Head(up[l]).type = type
  /\ up' = [up EXCEPT ![l] = Tail(@)]
  /\ UNCHANGED <<device, alive, strange>>

\* Faulty variant of CheckAdmission: the list is not looked at.
CheckNothing(m) == TRUE

CheckAdmission(m) == AllowedDevices = {} \/ m \in AllowedDevices

ResetForHandshake(l) ==
  /\ got' = {}
  /\ lost' = lost \cup [data : {d \in got : d.leg \in Leg}, by : {l}]

\* Faulty variant of Answers: a request is answered once.
AnswersOnce == state = StateInit

\* onHandshakeReq answers whatever state the session is in.
Answers == TRUE

OnHandshakeReq(l) ==
  /\ Take(l, "req") /\ CheckAdmission(Head(up[l]).mac)
  /\ admitted' = TRUE
  /\ IF Answers
     THEN /\ ResetForHandshake(l)
          /\ state' = StateSrvReady
          /\ down' = [down EXCEPT ![l] = Append(@, "ack")]
     ELSE UNCHANGED <<got, lost, state, down>>

\* A refused device gets silence.
Refuse(l) ==
  /\ Take(l, "req") /\ ~ CheckAdmission(Head(up[l]).mac)
  /\ admitted' = FALSE
  /\ UNCHANGED <<state, got, down, lost>>

Confirmed == StateBothOK

OnConfirm(l) ==
  /\ Take(l, "confirm")
  /\ state' = Confirmed
  /\ UNCHANGED <<admitted, got, down, lost>>

\* A keepalive is answered on the leg it came in on.
OnKeepalive(l) ==
  /\ Take(l, "keepalive")
  /\ down' = [down EXCEPT ![l] = Append(@, "detect")]
  /\ UNCHANGED <<state, admitted, got, lost>>

\* Nobody looks whether the device that sends was admitted.
OnData(l) ==
  /\ Take(l, "data")
  /\ got' = got \cup {[run |-> Head(up[l]).run, n |-> Head(up[l]).n, leg |-> l]}
  /\ UNCHANGED <<state, admitted, down, lost>>

HandleFrame(l) ==
  OnHandshakeReq(l) \/ Refuse(l) \/ OnConfirm(l) \/ OnKeepalive(l) \/ OnData(l)

-----------------------------------------------------------------------------
Next ==
  \/ Call \/ TimesOut \/ Restart
  \/ \E l \in Leg : \/ SendRequest(l) \/ SendConfirm(l) \/ SendFails(l)
                    \/ Accept(l) \/ SendData(l) \/ Keepalive(l) \/ LegDies(l)
  \/ \E l \in StrangerLeg, x \in Frame : StrangerSends(l, x)
  \/ \E l \in AnyLeg : HandleFrame(l)

\* The session works off what the legs bring, TCP delivers on a leg that
\* lives, and the device calls, goes through its loops and reads its legs.
\* No leg has to break, no wait to end early, no stranger to send.
Fairness ==
  /\ WF_vars(Call)
  /\ \A l \in Leg : /\ WF_vars(SendRequest(l) \/ SendConfirm(l) \/ SendFails(l))
                    /\ WF_vars(Accept(l))
  /\ \A l \in AnyLeg : WF_vars(HandleFrame(l))

Spec == Init /\ [][Next]_vars

FairSpec == Spec /\ Fairness

-----------------------------------------------------------------------------
(* Properties                                                              *)

DeviceState ==
  [phase : {"idle", "asking", "waiting", "confirming", "done", "failed"},
   left : SUBSET Leg, run : 0 .. MaxRestarts,
   sent : 0 .. MaxData, asked : 0 .. MaxRequests]

\* Every variable stays in its range; in particular the session knows three
\* states (icg.State).
TypeOK ==
  /\ state \in {StateInit, StateSrvReady, StateBothOK}
  /\ admitted \in BOOLEAN
  /\ got \subseteq Data /\ lost \subseteq [data : Data, by : AnyLeg]
  /\ up \in [AnyLeg -> Seq(Frame)] /\ down \in [AnyLeg -> Seq(Reply)]
  /\ device \in DeviceState
  /\ alive \subseteq AnyLeg /\ strange \in 0 .. MaxStrange

\* Once the device has accepted an answer and sends, the session forgets what
\* it has taken of this run of the device neither at a retry of the request
\* nor at a stranger's: on each leg the requests are ahead of the data, and a
\* refused request resets nothing (onHandshakeReq, checkAdmission).
NothingForgotten ==
  \A f \in lost :
     f.data.run < device.run \/ (f.by \in Leg /\ f.by # f.data.leg)

\* A handshake comes to an end: "the client will accept the ACK on any one of
\* them", so a device that waits is answered on the leg that stays, whatever
\* it asked before and whatever strangers send, and it fails for good only
\* where Handshake returns the error of a broken leg (onHandshakeReq answers
\* every request, on the leg that brought it; client.Handshake).
HandshakeEnds ==
  \A r \in 0 .. MaxRestarts :
    (device.run = r) ~>
      \/ device.run # r
      \/ device.phase = "done"
      \/ device.phase = "failed" /\ ~ Leg \subseteq alive

\* When the device's handshake is over, the session is in BOTH_OK in the end
\* ("mirror that"): the confirm follows the request on every leg, so the last
\* request handled is followed by a confirm.  It needs legs that do not break:
\* a request handled late on a leg that then breaks is the last word.
SessionMirrors ==
  ([](alive = AnyLeg) /\ <>[](device.phase = "done"))
     => <>[](state = StateBothOK)
=============================================================================
