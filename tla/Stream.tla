------------------------------- MODULE Stream -------------------------------
(***************************************************************************)
(* The reader that cuts a leg's byte stream into frames (icg/frame.go),    *)
(* with TCP below it: any number of bytes arrives at a time, and between   *)
(* two frames there may be noise.                                          *)
(*                                                                         *)
(* A frame on the wire is the magic, the length of its body and the body.  *)
(* The magic is a short sequence of bytes instead of four, the length one  *)
(* byte instead of four, and a byte is a small number; Decode and the      *)
(* search for the next magic go byte by byte as in the code.  buf stands   *)
(* for s.buf[s.start:s.end]: the compaction that fill begins with moves    *)
(* these bytes to the front, so what it has room for is the rest of the    *)
(* capacity.                                                               *)
(***************************************************************************)
EXTENDS Integers, Sequences, FiniteSets, SequencesExt

CONSTANTS Magic,       \* the bytes of the magic, in their order on the wire
          SubHdrLen,   \* the least length of a body
          MaxBodyLen,  \* the greatest
          BufCap,      \* capacity of the read buffer (2 * MaxBodyLen)
          Noise,       \* what may stand between two frames
          MaxFrames    \* bound: frames sent on this leg

VARIABLES
  wire,      \* bytes sent and not yet read
  open,      \* the sender has not closed its end
  buf,       \* bytes read and not yet consumed
  reading,   \* the reader has not returned with an error
  written,   \* bodies of the frames sent, in order
  returned,  \* bodies of the frames Next returned, in order
  bursts     \* after how many frames there was noise

stream == <<wire, open, buf, reading, written, returned, bursts>>

OuterLen == Len(Magic) + 1

HasMagic(b, i) == SubSeq(b, i, i + Len(Magic) - 1) = Magic

\* No noise, with the frame after it, shows a magic and a plausible length.
ASSUME StreamAssumption ==
  /\ Magic \in Seq(Nat) \ {<<>>} /\ \A z \in Noise : z \in Seq(Nat)
  /\ SubHdrLen \in 1 .. MaxBodyLen
  /\ MaxBodyLen \in Nat /\ BufCap \in Nat /\ OuterLen + MaxBodyLen <= BufCap
  /\ MaxFrames \in Nat
  /\ \A z \in Noise : \A i \in 1 .. Len(z) :
        HasMagic(z \o Magic, i) =>
           (z \o Magic)[i + Len(Magic)] \notin SubHdrLen .. MaxBodyLen

StreamInit ==
  /\ wire = <<>> /\ open = TRUE /\ buf = <<>> /\ reading = TRUE
  /\ written = <<>> /\ returned = <<>> /\ bursts = {}

-----------------------------------------------------------------------------
(* The sender                                                              *)

\* AppendTo
Encoded(body) == Magic \o <<Len(body)>> \o body

WriteFrame(body) ==
  /\ open /\ Len(written) < MaxFrames
  /\ wire' = wire \o Encoded(body) /\ written' = Append(written, body)
  /\ UNCHANGED <<open, buf, reading, returned, bursts>>

WriteNoise(z) ==
  /\ open /\ Len(written) \notin bursts
  /\ wire' = wire \o z /\ bursts' = bursts \cup {Len(written)}
  /\ UNCHANGED <<open, buf, reading, written, returned>>

HangUp ==
  /\ open /\ open' = FALSE
  /\ UNCHANGED <<wire, buf, reading, written, returned, bursts>>

-----------------------------------------------------------------------------
(* The reader                                                              *)

\* Faulty variant of Decode: any length is believed.
DecodeBelieves(b) ==
  IF Len(b) < OuterLen THEN "ErrShort"
  ELSE IF ~ HasMagic(b, 1) THEN "ErrMagic"
  ELSE IF Len(b) < OuterLen + b[OuterLen] THEN "ErrShort" ELSE "ok"

\* Decode
Decode(b) ==
  IF Len(b) < OuterLen THEN "ErrShort"
  ELSE IF ~ HasMagic(b, 1) THEN "ErrMagic"
  ELSE IF b[OuterLen] \notin SubHdrLen .. MaxBodyLen THEN "ErrBodyLen"
  ELSE IF Len(b) < OuterLen + b[OuterLen] THEN "ErrShort" ELSE "ok"

\* The body of the frame that b begins with.
BodyOf(b) == SubSeq(b, OuterLen + 1, OuterLen + b[OuterLen])

\* Next returns a frame.
NextReturns ==
  /\ reading /\ Decode(buf) = "ok"
  /\ returned' = Append(returned, BodyOf(buf))
  /\ buf' = SubSeq(buf, OuterLen + buf[OuterLen] + 1, Len(buf))
  /\ UNCHANGED <<wire, open, reading, written, bursts>>

\* Where the magic is in b after its first byte.
Magics(b) == {i \in 2 .. Len(b) - Len(Magic) + 1 : HasMagic(b, i)}

From(b, i) == SubSeq(b, i, Len(b))

\* Faulty variant of Resynced: without a magic in sight nothing is kept.
ResyncedKeepsNone(b) == IF Magics(b) # {} THEN From(b, Min(Magics(b))) ELSE <<>>

\* What resync leaves: the buffer from the next magic on or, when it holds
\* none, its last bytes, where one may begin.
Resynced(b) ==
  From(b, IF Magics(b) # {} THEN Min(Magics(b))
                            ELSE Max({1, Len(b) - Len(Magic) + 2}))

Resync ==
  /\ reading /\ Decode(buf) \in {"ErrMagic", "ErrBodyLen"}
  /\ buf' = Resynced(buf)
  /\ UNCHANGED <<wire, open, reading, written, returned, bursts>>

\* fill: some of the bytes that fit.
Fill ==
  /\ reading /\ Decode(buf) = "ErrShort"
  /\ \E k \in 1 .. Min({Len(wire), BufCap - Len(buf)}) :
        /\ buf' = buf \o SubSeq(wire, 1, k) /\ wire' = From(wire, k + 1)
  /\ UNCHANGED <<open, reading, written, returned, bursts>>

\* fill fails: the stream ended, or the buffer is full.
FillFails ==
  /\ reading /\ Decode(buf) = "ErrShort"
  /\ Len(buf) < BufCap => (~ open /\ wire = <<>>)
  /\ reading' = FALSE
  /\ UNCHANGED <<wire, open, buf, written, returned, bursts>>

-----------------------------------------------------------------------------
\* However TCP cuts the stream and whatever noise stands in it, the reader
\* returns the frames that were sent, in order, with none invented and none cut
\* ("garbage ahead of a valid frame must be skipped"); and when it returns an
\* error, because the stream ended or its buffer is full, none is missing.
ReadsWhatWasSent ==
  /\ IsPrefix(returned, written)
  /\ ~ reading => Len(returned) = Len(written)

\* Every frame sent is returned: the reader never waits for the rest of
\* something that is not a frame, and never gives up on a frame that is one.
EveryFrameIsRead ==
  \A n \in 1 .. MaxFrames : (Len(written) >= n) ~> (Len(returned) >= n)
=============================================================================
