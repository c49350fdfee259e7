------------------------------- MODULE Client -------------------------------
(***************************************************************************)
(* The downlink side of the client library (icg/client/client.go), with    *)
(* one TCP leg read by a stream reader (module Stream) and one UDP leg:    *)
(* the goroutine of each leg delivers what it reads into the channel       *)
(* Frames, and one call of CollectFlowData or CountFlowData takes it out,  *)
(* or nobody does.                                                         *)
(*                                                                         *)
(* The concentrator is the environment (its side is module Downlink): it   *)
(* numbers its TCP frames in one wrapping space for all flows, sends each  *)
(* on a leg it likes and may send it again on any.  A datagram may be      *)
(* lost, late or repeated.  A body is the number, what it is (a payload or *)
(* the DISCONNECT of the flow collected, or a frame of another flow) and   *)
(* the data.                                                               *)
(***************************************************************************)
EXTENDS Stream, SeqSpace

CONSTANTS FirstSeq,   \* number of the first frame
          FramesCap,  \* capacity of Client.Frames (1024)
          AtLeast,    \* bytes the caller waits for
          Bound       \* bounds of each mode: frames numbered (sent), sent on
                      \* the TCP leg (frames) and as datagrams (air), bursts
                      \* of noise (noise), ends of the stream (ends)

\* No call, or which one: CountFlowData, CollectFlowData until there are
\* AtLeast bytes, or CollectFlowData with done = nil.
Mode == {"idle", "count", "collect", "drain"}

ASSUME ClientAssumption ==
  /\ SubHdrLen = 2 /\ MaxBodyLen > SubHdrLen
  /\ FirstSeq \in SeqNum /\ FramesCap \in Nat \ {0} /\ AtLeast \in Nat \ {0}
  /\ Bound \in [Mode -> [sent : 0 .. Half - 1, frames : 0 .. MaxFrames,
                         air : Nat, noise : Nat, ends : {0, 1}]]

VARIABLES
  sent,     \* what the concentrator numbered: the bodies, in order
  air,      \* datagrams it sent
  frames,   \* the channel Frames
  \* the call
  mode,     \* which call it is
  held,     \* CollectFlowData's frames: the data of each number
  seen,     \* CountFlowData's numbers
  total,    \* and its bytes
  closed,   \* a DISCONNECT of the flow came
  outcome   \* "none" while it runs; "ok" or "timeout"

call == <<mode, held, seen, total, closed, outcome>>
vars == <<stream, sent, air, frames, call>>

Other      == 0
Disconnect == 1
Payload    == 2

NumberOf(b) == b[1]
KindOf(b)   == b[2]
DataOf(b)   == SubSeq(b, 3, Len(b))

Init ==
  /\ StreamInit
  /\ sent = <<>> /\ air = {} /\ frames = <<>>
  /\ mode \in Mode
  /\ held = <<>> /\ seen = {} /\ total = 0 /\ closed = FALSE /\ outcome = "none"

-----------------------------------------------------------------------------
(* The concentrator                                                        *)

\* On the TCP leg, or as a datagram.
Transmit(body) ==
  \/ Len(written) < Bound[mode].frames /\ WriteFrame(body) /\ UNCHANGED air
  \/ /\ Cardinality(air) < Bound[mode].air
     /\ air' = air \cup {Encoded(body)} /\ UNCHANGED stream

\* The next number; the data of a payload is one byte that tells it apart.
SendNext(kind) ==
  LET n == Len(sent)
      body == <<Plus(FirstSeq, n), kind>>
                 \o (IF kind = Payload THEN <<n + 1>> ELSE <<>>)
  IN  /\ n < Bound[mode].sent /\ sent' = Append(sent, body)
      /\ Transmit(body) /\ UNCHANGED <<frames, call>>

SendAgain ==
  /\ \E i \in DOMAIN sent : Transmit(sent[i])
  /\ UNCHANGED <<sent, frames, call>>

\* Bytes that are no frame, and the end of the stream.
Disturb ==
  /\ \/ Bound[mode].ends > 0 /\ HangUp
     \/ /\ Cardinality(bursts) < Bound[mode].noise
        /\ \E z \in Noise : WriteNoise(z)
  /\ UNCHANGED <<sent, air, frames, call>>

-----------------------------------------------------------------------------
(* The goroutines of the legs                                              *)

\* deliver: a frame that finds the channel full is dropped.
Deliver(body) ==
  frames' = IF Len(frames) < FramesCap THEN Append(frames, body) ELSE frames

\* readStream
ReadStream ==
  /\ NextReturns /\ Deliver(BodyOf(buf)) /\ UNCHANGED <<sent, air, call>>

FillBuffer == Fill /\ UNCHANGED <<sent, air, frames, call>>

FindHeader == Resync /\ UNCHANGED <<sent, air, frames, call>>

StreamEnds == FillFails /\ UNCHANGED <<sent, air, frames, call>>

\* readDatagrams
ReadDatagram(d) ==
  /\ Decode(d) = "ok" /\ Deliver(BodyOf(d))
  /\ UNCHANGED <<stream, sent, air, call>>

-----------------------------------------------------------------------------
(* The call                                                                *)

Receive(b) ==
  /\ outcome = "none" /\ frames # <<>> /\ b = Head(frames)
  /\ frames' = Tail(frames) /\ UNCHANGED <<stream, sent, air, mode>>

\* Faulty variant of Counted: the numbers are not looked at.
CountedAgain(b) ==
  /\ seen' = seen \cup {NumberOf(b)} /\ total' = total + Len(DataOf(b))

\* Payload of a number not seen yet is counted.
Counted(b) ==
  /\ seen' = seen \cup {NumberOf(b)}
  /\ total' = total + (IF NumberOf(b) \in seen THEN 0 ELSE Len(DataOf(b)))

\* CountFlowData.  A DISCONNECT does not end it: payload may still be on the
\* way on another leg.
CountFlowData(b) ==
  /\ mode = "count" /\ Receive(b) /\ UNCHANGED held
  /\ IF KindOf(b) = Payload THEN Counted(b) ELSE UNCHANGED <<seen, total>>
  /\ closed' = (closed \/ KindOf(b) = Disconnect)
  /\ outcome' = IF KindOf(b) = Payload /\ NumberOf(b) \notin seen
                   /\ total' >= AtLeast THEN "ok" ELSE outcome

\* Faulty variant of Lowest: the numbers do not wrap.
LowestNoWrap(S) == CHOOSE lo \in S : \A s \in S : DiffNoWrap(s, lo) >= 0

Lowest(S) == CHOOSE lo \in S : \A s \in S : Diff(s, lo) >= 0

\* How many numbers follow each other from the lowest held.
Run(h) ==
  Cardinality({k \in 1 .. Cardinality(DOMAIN h) :
                  \A i \in 0 .. k - 1 : Plus(Lowest(DOMAIN h), i) \in DOMAIN h})

\* assemble
Assembled(h) ==
  FlattenSeq([k \in 1 .. Run(h) |-> h[Plus(Lowest(DOMAIN h), k - 1)]])

\* CollectFlowData.  Either opcode of the flow is held under its number, a
\* DISCONNECT without data.
CollectFlowData(b) ==
  /\ mode \in {"collect", "drain"} /\ Receive(b) /\ UNCHANGED <<seen, total>>
  /\ IF KindOf(b) = Other THEN UNCHANGED <<held, closed, outcome>>
     ELSE /\ held' = [s \in DOMAIN held \cup {NumberOf(b)} |->
                        IF s = NumberOf(b) THEN DataOf(b) ELSE held[s]]
          /\ closed' = (closed \/ KindOf(b) = Disconnect)
          /\ outcome' = IF \/ mode = "collect" /\ Len(Assembled(held')) >= AtLeast
                           \/ mode = "drain" /\ closed'
                        THEN "ok" ELSE outcome

\* The deadline ends either call.
Deadline ==
  /\ mode # "idle" /\ outcome = "none" /\ outcome' = "timeout"
  /\ UNCHANGED <<stream, sent, air, frames, mode, held, seen, total, closed>>

-----------------------------------------------------------------------------
Next ==
  \/ \E kind \in {Other, Disconnect, Payload} : SendNext(kind)
  \/ SendAgain \/ Disturb
  \/ ReadStream \/ FillBuffer \/ FindHeader \/ StreamEnds
  \/ \E d \in air : ReadDatagram(d)
  \/ \E b \in {frames[i] : i \in DOMAIN frames} :
        CountFlowData(b) \/ CollectFlowData(b)
  \/ Deadline

\* The goroutine of the leg runs, and bytes that were sent arrive.
Fairness ==
  WF_vars(ReadStream) /\ WF_vars(FillBuffer) /\ WF_vars(FindHeader)

Spec == Init /\ [][Next]_vars

FairSpec == Spec /\ Fairness

-----------------------------------------------------------------------------
(* Properties                                                              *)

\* The payload of the flow in the frames i .. j of what was sent.
Between(i, j) ==
  FlattenSeq([k \in 1 .. j - i + 1 |->
     LET b == sent[i + k - 1]
     IN  IF KindOf(b) = Payload THEN DataOf(b) ELSE <<>>])

\* CountFlowData reports the bytes of the payload frames it saw, each once,
\* whatever leg or order they came in and however often they were sent again.
CountedOnce ==
  LET mine == {i \in DOMAIN sent : NumberOf(sent[i]) \in seen}
  IN  /\ Cardinality(mine) = Cardinality(seen)
      /\ \A i \in mine : KindOf(sent[i]) = Payload
      /\ total = Cardinality(mine)

\* CollectFlowData returns a piece of the flow's stream without a hole: it
\* begins at the first frame of the flow that arrived by the order of sending
\* ("starts from the LOWEST sequence number seen"), also across the wrap, and
\* goes on as far as every frame in between arrived.
CollectedIsStream ==
  held # <<>> =>
     LET has == {i \in DOMAIN sent : NumberOf(sent[i]) \in DOMAIN held}
         i == Min(has)
         j == Max({k \in has : i .. k \subseteq has})
     IN  Assembled(held) = Between(i, j)
=============================================================================
