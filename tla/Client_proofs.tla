---------------------------- MODULE Client_proofs ----------------------------
(***************************************************************************)
(* The safety of the client's downlink side, with the stream reader below  *)
(* it, for every magic, noise, buffer, width of the numbers and bound.     *)
(*                                                                         *)
(* The reader: what is in the buffer and on the wire is the rest of some   *)
(* noise, then the next frame that was not returned, and so on (Layout).   *)
(* Noise with the frame after it never decodes (NoiseIsNoFrame), a frame   *)
(* decodes to its body or waits for its rest (FrameDecodes), and the       *)
(* search for a magic stops before the next frame begins (ResyncStops).    *)
(* It gives up only when nothing is left to read (FillFailsAtEnd).         *)
(*                                                                         *)
(* The client: what is under way, waits or was taken was numbered (IInv),  *)
(* and fewer numbers than half the space stand for one frame each          *)
(* (OneFramePerNumber).  So a number counts once, and the numbers that     *)
(* follow each other from the lowest are frames in a row (LowestIsFirst,   *)
(* RunIsPiece).                                                            *)
(***************************************************************************)
EXTENDS Client, SequenceTheorems, FiniteSetTheorems, FunctionTheorems,
        WellFoundedInduction, TLAPS

-----------------------------------------------------------------------------
(* Sequences of bytes                                                      *)

Bytes == Seq(Nat)

\* What the assumptions say of the constants.
LEMMA Widths ==
  /\ Magic \in Bytes /\ Len(Magic) \in Nat /\ Len(Magic) >= 1
  /\ OuterLen \in Nat /\ OuterLen = Len(Magic) + 1
  /\ SubHdrLen = 2 /\ MaxBodyLen \in Nat /\ MaxBodyLen >= 3
  /\ BufCap \in Nat /\ OuterLen + MaxBodyLen <= BufCap
  /\ MaxFrames \in Nat
<1>1. Magic \in Bytes /\ Magic # <<>>
  BY StreamAssumption DEF Bytes
<1>2. Len(Magic) \in Nat \ {0}
  BY <1>1, EmptySeq DEF Bytes
<1> QED
  BY <1>1, <1>2, StreamAssumption, ClientAssumption DEF OuterLen

\* The end of a sequence, from its p-th element on.
LEMMA FromType ==
  ASSUME NEW b \in Bytes, NEW p \in 1 .. Len(b) + 1
  PROVE  /\ From(b, p) \in Bytes
         /\ Len(From(b, p)) = Len(b) - p + 1
         /\ \A i \in 1 .. Len(b) - p + 1 : From(b, p)[i] = b[p + i - 1]
<1>1. Len(b) \in Nat /\ \A i \in p .. Len(b) : b[i] \in Nat
  BY DEF Bytes
<1> QED BY <1>1, SubSeqProperties DEF Bytes, From

\* The bytes after the first p - 1 of b, followed by w, are those of b and w.
LEMMA FromConcat ==
  ASSUME NEW b \in Bytes, NEW w \in Bytes, NEW p \in 1 .. Len(b) + 1
  PROVE  From(b, p) \o w = From(b \o w, p)
<1>1. /\ b \o w \in Bytes /\ Len(b \o w) = Len(b) + Len(w)
      /\ Len(b) \in Nat /\ Len(w) \in Nat
      /\ \A i \in 1 .. Len(b) + Len(w) :
            (b \o w)[i] = IF i <= Len(b) THEN b[i] ELSE w[i - Len(b)]
  BY ConcatProperties DEF Bytes
<1>2. /\ From(b, p) \in Bytes /\ Len(From(b, p)) = Len(b) - p + 1
      /\ \A i \in 1 .. Len(b) - p + 1 : From(b, p)[i] = b[p + i - 1]
  BY FromType
<1>3. /\ From(b \o w, p) \in Bytes
      /\ Len(From(b \o w, p)) = Len(b) + Len(w) - p + 1
      /\ \A i \in 1 .. Len(b) + Len(w) - p + 1 :
            From(b \o w, p)[i] = (b \o w)[p + i - 1]
  <2> DEFINE c == b \o w
  <2>1. c \in Bytes /\ Len(c) = Len(b) + Len(w) /\ p \in 1 .. Len(c) + 1
    BY <1>1
  <2> HIDE DEF c
  <2>2. /\ From(c, p) \in Bytes
        /\ Len(From(c, p)) = Len(c) - p + 1
        /\ \A i \in 1 .. Len(c) - p + 1 : From(c, p)[i] = c[p + i - 1]
    BY <2>1, FromType
  <2> QED BY <1>1, <2>1, <2>2 DEF c
<1> DEFINE f == From(b, p)  g == From(b \o w, p)
<1> HIDE DEF f, g
<1>4. /\ f \o w \in Bytes /\ Len(f \o w) = Len(f) + Len(w)
      /\ \A i \in 1 .. Len(f) + Len(w) :
            (f \o w)[i] = IF i <= Len(f) THEN f[i] ELSE w[i - Len(f)]
  BY <1>2, ConcatProperties DEF Bytes, f
<1>5. Len(f \o w) = Len(g)
  BY <1>1, <1>2, <1>3, <1>4 DEF f, g
<1>6. ASSUME NEW i \in 1 .. Len(g) PROVE (f \o w)[i] = g[i]
  <2>1. CASE i <= Len(b) - p + 1
    BY <1>1, <1>2, <1>3, <1>4, <1>6, <2>1 DEF f, g
  <2>2. CASE i > Len(b) - p + 1
    <3>1. (f \o w)[i] = w[i - (Len(b) - p + 1)]
      BY <1>1, <1>2, <1>3, <1>4, <1>6, <2>2 DEF f, g
    <3>2. g[i] = (b \o w)[p + i - 1] /\ p + i - 1 > Len(b)
          /\ p + i - 1 \in 1 .. Len(b) + Len(w)
      BY <1>1, <1>3, <1>6, <2>2, SMTT(20) DEF g
    <3>3. (b \o w)[p + i - 1] = w[p + i - 1 - Len(b)]
      BY <1>1, <3>2
    <3>4. p + i - 1 - Len(b) = i - (Len(b) - p + 1)
      BY <1>1, <1>6
    <3> QED BY <3>1, <3>2, <3>3, <3>4
  <2>3. i <= Len(b) - p + 1 \/ i > Len(b) - p + 1 BY <1>1, <1>6
  <2> QED BY <2>1, <2>2, <2>3
<1> QED
  BY <1>3, <1>4, <1>5, <1>6, SeqEqual DEF Bytes, f, g

\* Two sequences, one after the other.
LEMMA Joined ==
  ASSUME NEW a \in Bytes, NEW b \in Bytes
  PROVE  /\ Len(a) \in Nat /\ Len(b) \in Nat
         /\ a \o b \in Bytes /\ Len(a \o b) = Len(a) + Len(b)
         /\ \A j \in 1 .. Len(a) : (a \o b)[j] = a[j]
         /\ \A j \in 1 .. Len(b) : (a \o b)[Len(a) + j] = b[j]
<1>1. /\ Len(a) \in Nat /\ Len(b) \in Nat
      /\ a \o b \in Bytes /\ Len(a \o b) = Len(a) + Len(b)
      /\ \A i \in 1 .. Len(a) + Len(b) :
            (a \o b)[i] = IF i <= Len(a) THEN a[i] ELSE b[i - Len(a)]
  BY ConcatProperties DEF Bytes
<1>2. ASSUME NEW j \in 1 .. Len(a) PROVE (a \o b)[j] = a[j]
  <2>1. j \in 1 .. Len(a) + Len(b) /\ j <= Len(a) BY <1>1
  <2> QED BY <1>1, <2>1
<1>3. ASSUME NEW j \in 1 .. Len(b) PROVE (a \o b)[Len(a) + j] = b[j]
  <2>1. /\ Len(a) + j \in 1 .. Len(a) + Len(b) /\ ~ (Len(a) + j <= Len(a))
        /\ Len(a) + j - Len(a) = j
    BY <1>1
  <2> QED BY <1>1, <2>1
<1> QED BY <1>1, <1>2, <1>3

\* Which of them are taken together first does not matter.
LEMMA JoinedThree ==
  ASSUME NEW a \in Bytes, NEW b \in Bytes, NEW c \in Bytes
  PROVE  (a \o b) \o c = a \o (b \o c)
BY ConcatAssociative DEF Bytes

\* Nothing before or after.
LEMMA JoinedNothing ==
  ASSUME NEW a \in Bytes
  PROVE  a \o <<>> = a /\ <<>> \o a = a
BY ConcatEmptySeq DEF Bytes

\* A magic stands at i when its bytes do.
LEMMA MagicAt ==
  ASSUME NEW b \in Bytes, NEW i \in Nat \ {0}, i + Len(Magic) - 1 <= Len(b)
  PROVE  HasMagic(b, i) <=> \A j \in 1 .. Len(Magic) : b[i + j - 1] = Magic[j]
<1> DEFINE e == i + Len(Magic) - 1
           s == SubSeq(b, i, e)
<1>1. Magic \in Bytes /\ Len(Magic) \in Nat /\ Len(b) \in Nat /\ e \in Int
  BY Widths DEF Bytes
<1>2. \A k \in i .. e : b[k] \in Nat
  BY <1>1 DEF Bytes
<1>3. /\ s \in Bytes /\ Len(s) = IF i <= e THEN e - i + 1 ELSE 0
      /\ \A j \in 1 .. e - i + 1 : s[j] = b[i + j - 1]
  <2>1. i \in Int OBVIOUS
  <2> HIDE DEF e
  <2> QED BY <1>1, <1>2, <2>1, SubSeqProperties DEF Bytes
<1>4. Len(s) = Len(Magic) /\ \A j \in 1 .. Len(Magic) : s[j] = b[i + j - 1]
  BY <1>1, <1>3, Widths
<1> HIDE DEF s
<1>5. s = Magic <=> \A j \in 1 .. Len(Magic) : s[j] = Magic[j]
  BY <1>1, <1>3, <1>4, SeqEqual DEF Bytes
<1>6. HasMagic(b, i) <=> s = Magic BY DEF HasMagic, s
<1> QED BY <1>4, <1>5, <1>6

\* A set of numbers that is not empty has a least one.
LEMMA MinIsLeast ==
  ASSUME NEW S \in SUBSET Nat, S # {}
  PROVE  Min(S) \in S /\ \A i \in S : Min(S) <= i
<1> DEFINE T == {0 .. n : n \in S}
           R == StrictSubsetOrdering(Nat)
<1>1. IsWellFoundedOn(R, FiniteSubsetsOf(Nat))
  BY FS_StrictSubsetOrderingWellFounded
<1>2. T \subseteq FiniteSubsetsOf(Nat) /\ T # {}
  <2>1. ASSUME NEW n \in S PROVE 0 .. n \in FiniteSubsetsOf(Nat)
    <3>1. IsFiniteSet(0 .. n) BY FS_Interval
    <3> QED BY <3>1 DEF FiniteSubsetsOf
  <2> QED BY <2>1
<1>3. PICK x \in T : \A y \in T : <<y, x>> \notin R
  <2> HIDE DEF T, R
  <2> QED BY <1>1, <1>2, WFMin
<1>4. PICK m \in S : x = 0 .. m
  BY <1>3
<1>5. ASSUME NEW n \in S, n < m PROVE FALSE
  <2>1. 0 .. n \subseteq 0 .. m /\ 0 .. n # 0 .. m /\ m \in Nat /\ n \in Nat
    <3>1. m \in 0 .. m /\ m \notin 0 .. n BY <1>5
    <3> QED BY <1>5, <3>1
  <2>2. <<0 .. n, 0 .. m>> \in R
    BY <2>1 DEF StrictSubsetOrdering
  <2> QED BY <1>3, <1>4, <2>2
<1>6. \A n \in S : m <= n
  BY <1>5
<1> QED BY <1>4, <1>6 DEF Min

-----------------------------------------------------------------------------
(* The reader on noise and on frames                                       *)

\* What a frame can carry (SubHdrLen and MaxBodyLen of frame.go).
Body == {b \in Bytes : Len(b) \in SubHdrLen .. MaxBodyLen}

\* What may be left of some noise.
Junk == {z \in Bytes : z = <<>> \/ \E y \in Noise : \E p \in 1 .. Len(y) : z = From(y, p)}

\* What may follow it: nothing, or a frame.
Ahead(t) == t = <<>> \/ \E r \in Bytes : t = Magic \o r

\* b, of which w is still to come, begins with noise z, and t follows it.
Noisy(b, w, z, t) ==
  /\ b \in Bytes /\ w \in Bytes /\ z \in Junk /\ t \in Bytes
  /\ z # <<>> /\ Ahead(t) /\ b \o w = z \o t

\* It begins with noise or nothing, and t follows.
NoisyOrNot(b, w, t) == \E y \in Junk : b \o w = y \o t

\* It begins with the frame of a body, and r follows it.
Framed(b, w, body, r) ==
  /\ b \in Bytes /\ w \in Bytes /\ body \in Body /\ r \in Bytes
  /\ b \o w = Encoded(body) \o r

\* AppendTo: the bytes of a frame, one by one.
LEMMA EncodedBytes ==
  ASSUME NEW body \in Body
  PROVE  /\ Encoded(body) \in Bytes
         /\ Len(Encoded(body)) = OuterLen + Len(body)
         /\ Len(body) \in SubHdrLen .. MaxBodyLen
         /\ \A j \in 1 .. Len(Magic) : Encoded(body)[j] = Magic[j]
         /\ Encoded(body)[OuterLen] = Len(body)
         /\ \A j \in 1 .. Len(body) : Encoded(body)[OuterLen + j] = body[j]
         /\ \E r \in Bytes : Encoded(body) = Magic \o r
<1> DEFINE l == <<Len(body)>>
           h == Magic \o l
<1>1. /\ Magic \in Bytes /\ Len(Magic) \in Nat /\ Len(Magic) >= 1
      /\ OuterLen = Len(Magic) + 1
      /\ body \in Bytes /\ Len(body) \in SubHdrLen .. MaxBodyLen /\ Len(body) \in Nat
      /\ l \in Bytes /\ Len(l) = 1 /\ l[1] = Len(body)
  BY Widths DEF Body, Bytes
<1> HIDE DEF l
<1>2. /\ h \in Bytes /\ Len(h) = Len(Magic) + Len(l)
      /\ \A j \in 1 .. Len(Magic) : h[j] = Magic[j]
      /\ \A j \in 1 .. Len(l) : h[Len(Magic) + j] = l[j]
  BY <1>1, Joined
<1>3. Len(h) = OuterLen /\ h[OuterLen] = Len(body)
  BY <1>1, <1>2
<1> HIDE DEF h
<1>4. /\ h \o body \in Bytes /\ Len(h \o body) = Len(h) + Len(body)
      /\ \A j \in 1 .. Len(h) : (h \o body)[j] = h[j]
      /\ \A j \in 1 .. Len(body) : (h \o body)[Len(h) + j] = body[j]
  BY <1>1, <1>2, Joined
<1>7. Encoded(body) = h \o body /\ Encoded(body) = Magic \o (l \o body)
  BY <1>1, ConcatAssociative DEF Encoded, Bytes, h, l
<1>8. l \o body \in Bytes
  BY <1>1, Joined
<1>9. OuterLen \in 1 .. OuterLen /\ \A j \in 1 .. Len(Magic) : j \in 1 .. OuterLen
  BY <1>1
<1> QED BY <1>1, <1>2, <1>3, <1>4, <1>7, <1>8, <1>9

\* The two readings of the same bytes.
LEMMA SameBytes ==
  ASSUME NEW b \in Bytes, NEW w \in Bytes, NEW s \in Bytes, NEW t \in Bytes,
         b \o w = s \o t
  PROVE  /\ Len(b) \in Nat /\ Len(w) \in Nat /\ Len(s) \in Nat /\ Len(t) \in Nat
         /\ Len(b) + Len(w) = Len(s) + Len(t)
         /\ \A j \in 1 .. Len(b) : j <= Len(s) => b[j] = s[j]
         /\ \A j \in 1 .. Len(t) : Len(s) + j <= Len(b) => b[Len(s) + j] = t[j]
<1>1. /\ Len(b) \in Nat /\ Len(w) \in Nat /\ Len(b \o w) = Len(b) + Len(w)
      /\ \A j \in 1 .. Len(b) : (b \o w)[j] = b[j]
  BY Joined
<1>2. /\ Len(s) \in Nat /\ Len(t) \in Nat /\ Len(s \o t) = Len(s) + Len(t)
      /\ \A j \in 1 .. Len(s) : (s \o t)[j] = s[j]
      /\ \A j \in 1 .. Len(t) : (s \o t)[Len(s) + j] = t[j]
  BY Joined
<1>3. ASSUME NEW j \in 1 .. Len(b), j <= Len(s) PROVE b[j] = s[j]
  BY <1>1, <1>2, <1>3
<1>4. ASSUME NEW j \in 1 .. Len(t), Len(s) + j <= Len(b) PROVE b[Len(s) + j] = t[j]
  <2>1. Len(s) + j \in 1 .. Len(b) BY <1>1, <1>2, <1>4
  <2> QED BY <1>1, <1>2, <2>1
<1> QED BY <1>1, <1>2, <1>3, <1>4

\* Noise with a frame after it shows no magic with a plausible length, however
\* much of it was read (Decode).
LEMMA NoiseIsNoFrame ==
  ASSUME NEW b, NEW w, NEW z, NEW t, Noisy(b, w, z, t),
         Len(b) >= OuterLen, HasMagic(b, 1)
  PROVE  b[OuterLen] \notin SubHdrLen .. MaxBodyLen
<1>a. /\ b \in Bytes /\ w \in Bytes /\ z \in Junk /\ t \in Bytes
      /\ z # <<>> /\ Ahead(t) /\ b \o w = z \o t
  BY DEF Noisy
<1> USE <1>a
<1>0. PICK y \in Noise : \E p \in 1 .. Len(y) : z = From(y, p)
  BY DEF Junk
<1>1. PICK p \in 1 .. Len(y) : z = From(y, p)
  BY <1>0
<1>2. y \in Bytes /\ Len(y) \in Nat
  BY StreamAssumption DEF Bytes
<1> DEFINE s == y \o Magic
<1>3. /\ s \in Bytes /\ Len(s) = Len(y) + Len(Magic)
      /\ \A j \in 1 .. Len(y) : s[j] = y[j]
      /\ \A j \in 1 .. Len(Magic) : s[Len(y) + j] = Magic[j]
  BY <1>2, Widths, Joined
<1>4. /\ z \in Bytes /\ Len(z) = Len(y) - p + 1
      /\ \A i \in 1 .. Len(y) - p + 1 : z[i] = y[p + i - 1]
  <2>1. /\ From(y, p) \in Bytes /\ Len(From(y, p)) = Len(y) - p + 1
        /\ \A i \in 1 .. Len(y) - p + 1 : From(y, p)[i] = y[p + i - 1]
    <3>1. p \in 1 .. Len(y) + 1 BY <1>2
    <3> QED BY <1>2, <3>1, FromType
  <2> QED BY <1>1, <2>1
<1>5. /\ Len(b) \in Nat /\ Len(w) \in Nat /\ Len(z) \in Nat /\ Len(t) \in Nat
      /\ Len(b) + Len(w) = Len(z) + Len(t)
      /\ \A j \in 1 .. Len(b) : j <= Len(z) => b[j] = z[j]
      /\ \A j \in 1 .. Len(t) : Len(z) + j <= Len(b) => b[Len(z) + j] = t[j]
  <2>1. z \in Bytes BY <1>4
  <2>2. b \o w = z \o t OBVIOUS
  <2> QED BY ONLY <1>a, <2>1, <2>2, SameBytes
<1> HIDE DEF s
<1>6. ASSUME NEW j \in 1 .. OuterLen PROVE b[j] = s[p + j - 1]
  <2>1. j \in 1 .. Len(b)
    BY <1>5, Widths
  <2>2. CASE j <= Len(z)
    <3>1. j \in 1 .. Len(y) - p + 1 /\ p + j - 1 \in 1 .. Len(y)
      BY <1>2, <1>4, <2>2, Widths
    <3> QED BY <1>3, <1>4, <1>5, <2>1, <2>2, <3>1
  <2>3. CASE ~ (j <= Len(z))
    <3> DEFINE k == j - Len(z)
    <3>1. /\ k \in 1 .. Len(Magic) /\ k \in 1 .. Len(t) /\ Len(z) + k = j
          /\ p + j - 1 = Len(y) + k /\ Len(t) >= 1
      <4>1. Len(y) \in Nat /\ Len(b) \in Nat /\ Len(w) \in Nat /\ Len(z) \in Nat
            /\ Len(t) \in Nat /\ Len(b) + Len(w) = Len(z) + Len(t)
            /\ Len(z) = Len(y) - p + 1
        BY <1>2, <1>4, <1>5
      <4> QED BY ONLY <4>1, <2>1, <2>3, Widths, p \in 1 .. Len(y), j \in 1 .. OuterLen
    <3> HIDE DEF k
    <3>2. t # <<>>
      BY <3>1
    <3>3. PICK r \in Bytes : t = Magic \o r
      BY <3>2 DEF Ahead
    <3>4. t[k] = Magic[k]
      BY <3>1, <3>3, Widths, Joined
    <3>5. b[j] = t[k]
      BY <1>5, <2>1, <3>1
    <3>6. s[p + j - 1] = Magic[k]
      BY <1>3, <3>1
    <3> QED BY <3>4, <3>5, <3>6
  <2> QED BY <2>2, <2>3
<1>7. \A j \in 1 .. Len(Magic) : s[p + j - 1] = Magic[j]
  <2>1. \A j \in 1 .. Len(Magic) : b[1 + j - 1] = Magic[j]
    <3>1. 1 + Len(Magic) - 1 <= Len(b) /\ 1 \in Nat \ {0} BY <1>5, Widths
    <3> QED BY <3>1, MagicAt
  <2>2. \A j \in 1 .. Len(Magic) : 1 + j - 1 = j /\ j \in 1 .. OuterLen
    BY Widths
  <2> QED BY <1>6, <2>1, <2>2
<1>8. HasMagic(s, p)
  <2>1. p \in Nat \ {0} /\ p + Len(Magic) - 1 <= Len(s) BY <1>2, <1>3, Widths
  <2> QED BY <1>3, <1>7, <2>1, MagicAt
<1>9. s[p + Len(Magic)] \notin SubHdrLen .. MaxBodyLen
  BY <1>8, StreamAssumption DEF s
<1>10. OuterLen \in 1 .. OuterLen /\ p + OuterLen - 1 = p + Len(Magic)
  BY <1>2, Widths
<1> QED BY <1>6, <1>9, <1>10

\* What begins with a frame decodes to its body, or waits for the rest.
LEMMA FrameDecodes ==
  ASSUME NEW b, NEW w, NEW body, NEW r, Framed(b, w, body, r)
  PROVE  /\ Decode(b) \in {"ErrShort", "ok"}
         /\ Decode(b) = "ok" =>
               /\ BodyOf(b) = body
               /\ SubSeq(b, OuterLen + b[OuterLen] + 1, Len(b)) \in Bytes
               /\ SubSeq(b, OuterLen + b[OuterLen] + 1, Len(b)) \o w = r
<1>a. /\ b \in Bytes /\ w \in Bytes /\ body \in Body /\ r \in Bytes
      /\ b \o w = Encoded(body) \o r
  BY DEF Framed
<1> USE <1>a
<1> DEFINE e == Encoded(body)
<1>1. /\ e \in Bytes /\ Len(e) = OuterLen + Len(body)
      /\ Len(body) \in SubHdrLen .. MaxBodyLen
      /\ \A j \in 1 .. Len(Magic) : e[j] = Magic[j]
      /\ e[OuterLen] = Len(body)
      /\ \A j \in 1 .. Len(body) : e[OuterLen + j] = body[j]
  BY EncodedBytes
<1>2. b \o w = e \o r
  OBVIOUS
<1> HIDE DEF e
<1>3. /\ Len(b) \in Nat /\ Len(w) \in Nat /\ Len(e) \in Nat /\ Len(r) \in Nat
      /\ Len(b) + Len(w) = Len(e) + Len(r)
      /\ \A j \in 1 .. Len(b) : j <= Len(e) => b[j] = e[j]
  BY <1>1, <1>2, SameBytes
<1>4. Len(body) \in Nat /\ body \in Bytes
  BY DEF Body, Bytes
<1>5. CASE Len(b) < OuterLen
  BY <1>5 DEF Decode
<1>6. CASE ~ (Len(b) < OuterLen)
  <2>1. \A j \in 1 .. OuterLen : b[j] = e[j]
    <3>1. \A j \in 1 .. OuterLen : j \in 1 .. Len(b) /\ j <= Len(e)
      BY <1>1, <1>3, <1>4, <1>6, Widths, SMTT(20)
    <3> QED BY <1>3, <3>1
  <2>2. b[OuterLen] = Len(body)
    <3>1. OuterLen \in 1 .. OuterLen BY Widths
    <3> QED BY <1>1, <2>1, <3>1
  <2>3. HasMagic(b, 1)
    <3>1. \A j \in 1 .. Len(Magic) : 1 + j - 1 = j /\ j \in 1 .. OuterLen BY Widths
    <3>2. \A j \in 1 .. Len(Magic) : b[1 + j - 1] = Magic[j] BY <1>1, <2>1, <3>1
    <3>3. 1 + Len(Magic) - 1 <= Len(b) /\ 1 \in Nat \ {0} BY <1>3, <1>6, Widths
    <3> QED BY <3>2, <3>3, MagicAt
  <2>4. Decode(b) = IF Len(b) < OuterLen + Len(body) THEN "ErrShort" ELSE "ok"
    BY <1>1, <1>6, <2>2, <2>3 DEF Decode
  <2>5. ASSUME ~ (Len(b) < OuterLen + Len(body))
        PROVE  /\ BodyOf(b) = body
               /\ SubSeq(b, OuterLen + b[OuterLen] + 1, Len(b)) \in Bytes
               /\ SubSeq(b, OuterLen + b[OuterLen] + 1, Len(b)) \o w = r
    <3> DEFINE d == SubSeq(b, OuterLen + 1, OuterLen + Len(body))
    <3>1. /\ d \in Bytes /\ Len(d) = Len(body)
          /\ \A j \in 1 .. Len(body) : d[j] = b[OuterLen + 1 + j - 1]
      <4>1. \A i \in OuterLen + 1 .. OuterLen + Len(body) : b[i] \in Nat
        <5>1. \A i \in OuterLen + 1 .. OuterLen + Len(body) : i \in 1 .. Len(b)
          BY <1>3, <1>4, <2>5, Widths
        <5> QED BY <5>1 DEF Bytes
      <4>2. OuterLen + 1 \in Int /\ OuterLen + Len(body) \in Int
            /\ (OuterLen + Len(body)) - (OuterLen + 1) + 1 = Len(body)
            /\ OuterLen + 1 <= OuterLen + Len(body)
        BY <1>1, <1>4, Widths
      <4> DEFINE m == OuterLen + 1  n == OuterLen + Len(body)
      <4> HIDE DEF m, n
      <4>3. /\ SubSeq(b, m, n) \in Seq(Nat)
            /\ Len(SubSeq(b, m, n)) = IF m <= n THEN n - m + 1 ELSE 0
            /\ \A i \in 1 .. n - m + 1 : SubSeq(b, m, n)[i] = b[m + i - 1]
        BY <4>1, <4>2, SubSeqProperties DEF m, n
      <4> QED BY <4>2, <4>3 DEF m, n, Bytes
    <3>2. \A j \in 1 .. Len(body) : d[j] = body[j]
      <4>1. ASSUME NEW j \in 1 .. Len(body) PROVE d[j] = body[j]
        <5>1. /\ OuterLen + 1 + j - 1 = OuterLen + j
              /\ OuterLen + j \in 1 .. Len(b) /\ OuterLen + j <= Len(e)
          BY <1>1, <1>3, <1>4, <2>5, Widths
        <5> HIDE DEF d
        <5>2. d[j] = b[OuterLen + j] BY <3>1, <5>1
        <5>3. b[OuterLen + j] = e[OuterLen + j] BY <1>3, <5>1
        <5> QED BY <1>1, <5>2, <5>3
      <4> QED BY <4>1
    <3>3. BodyOf(b) = d
      BY <2>2 DEF BodyOf
    <3> HIDE DEF d
    <3>4. BodyOf(b) = body
      BY <1>4, <3>1, <3>2, <3>3, SeqEqual DEF Bytes
    <3> DEFINE p == Len(e) + 1
    <3>5. p \in 1 .. Len(b) + 1 /\ p \in 1 .. Len(e) + 1
      BY <1>1, <1>3, <1>4, <2>5, Widths
    <3>6. SubSeq(b, OuterLen + b[OuterLen] + 1, Len(b)) = From(b, p)
      BY <1>1, <2>2 DEF From
    <3> HIDE DEF p
    <3>7. From(b, p) \in Bytes /\ From(b, p) \o w = From(b \o w, p)
      BY <3>5, FromConcat, FromType
    <3>8. From(e \o r, p) = From(e, p) \o r
      BY <1>1, <3>5, FromConcat
    <3>9. From(e, p) = <<>>
      <4>1. From(e, p) \in Bytes /\ Len(From(e, p)) = Len(e) - p + 1
        BY <1>1, <3>5, FromType
      <4>2. Len(From(e, p)) = 0 BY <1>3, <4>1 DEF p
      <4> QED BY <4>1, <4>2, EmptySeq DEF Bytes
    <3>10. <<>> \o r = r BY ConcatEmptySeq DEF Bytes
    <3> QED BY <1>2, <3>4, <3>6, <3>7, <3>8, <3>9, <3>10
  <2> QED BY <2>4, <2>5
<1> QED BY <1>5, <1>6

\* The end of what is left of some noise is that again.
LEMMA JunkEnds ==
  ASSUME NEW z \in Junk, NEW p \in 1 .. Len(z) + 1
  PROVE  From(z, p) \in Junk
<1>1. z \in Bytes /\ Len(z) \in Nat
  BY DEF Junk, Bytes
<1>2. /\ From(z, p) \in Bytes /\ Len(From(z, p)) = Len(z) - p + 1
      /\ \A i \in 1 .. Len(z) - p + 1 : From(z, p)[i] = z[p + i - 1]
  BY <1>1, FromType
<1>3. CASE p = Len(z) + 1
  <2>1. Len(From(z, p)) = 0 BY <1>1, <1>2, <1>3
  <2>2. From(z, p) = <<>> BY <1>2, <2>1, EmptySeq DEF Bytes
  <2> QED BY <1>2, <2>2 DEF Junk
<1>4. CASE p # Len(z) + 1
  <2>1. p \in 1 .. Len(z) BY <1>1, <1>4
  <2>2. z # <<>>
    <3>1. Len(z) # 0 BY <1>1, <2>1
    <3> QED BY <3>1
  <2>3. PICK y \in Noise : \E q \in 1 .. Len(y) : z = From(y, q)
    BY <2>2 DEF Junk
  <2>4. PICK q \in 1 .. Len(y) : z = From(y, q)
    BY <2>3
  <2>5. y \in Bytes /\ Len(y) \in Nat
    BY StreamAssumption DEF Bytes
  <2>6. /\ Len(z) = Len(y) - q + 1
        /\ \A i \in 1 .. Len(y) - q + 1 : z[i] = y[q + i - 1]
    <3>1. q \in 1 .. Len(y) + 1 BY <2>5
    <3>2. /\ Len(From(y, q)) = Len(y) - q + 1
          /\ \A i \in 1 .. Len(y) - q + 1 : From(y, q)[i] = y[q + i - 1]
      BY <2>5, <3>1, FromType
    <3> QED BY <2>4, <3>2
  <2> DEFINE r == q + p - 1
             f == From(z, p)
             g == From(y, r)
  <2>7. r \in 1 .. Len(y)
    BY <2>1, <2>5, <2>6
  <2>8. /\ g \in Bytes /\ Len(g) = Len(y) - r + 1
        /\ \A i \in 1 .. Len(y) - r + 1 : g[i] = y[r + i - 1]
    <3> HIDE DEF r
    <3>1. r \in 1 .. Len(y) + 1 BY <2>5, <2>7
    <3> QED BY <2>5, <3>1, FromType
  <2> HIDE DEF f, g
  <2>9. Len(f) = Len(g) /\ Len(f) = Len(z) - p + 1
    BY <1>2, <2>5, <2>6, <2>8 DEF f
  <2>10. ASSUME NEW i \in 1 .. Len(f) PROVE f[i] = g[i]
    <3>1. /\ i \in 1 .. Len(z) - p + 1 /\ i \in 1 .. Len(y) - r + 1
          /\ p + i - 1 \in 1 .. Len(y) - q + 1
          /\ q + (p + i - 1) - 1 = r + i - 1
      BY <1>1, <2>5, <2>6, <2>9
    <3>2. f[i] = z[p + i - 1] BY <1>2, <3>1 DEF f
    <3>3. z[p + i - 1] = y[q + (p + i - 1) - 1] BY <2>6, <3>1
    <3>4. g[i] = y[r + i - 1] BY <2>8, <3>1
    <3> QED BY <3>1, <3>2, <3>3, <3>4
  <2>11. f = g
    BY <1>2, <2>8, <2>9, <2>10, SeqEqual DEF Bytes, f
  <2> QED BY <1>2, <2>7, <2>11 DEF Junk, f, g
<1> QED BY <1>3, <1>4

\* The search for a magic leaves noise, never less than the next frame
\* (resync).
LEMMA ResyncStops ==
  ASSUME NEW b, NEW w, NEW z, NEW t, Noisy(b, w, z, t), Len(b) >= OuterLen
  PROVE  Resynced(b) \in Bytes /\ NoisyOrNot(Resynced(b), w, t)
<1>a. /\ b \in Bytes /\ w \in Bytes /\ z \in Junk /\ t \in Bytes
      /\ z # <<>> /\ Ahead(t) /\ b \o w = z \o t
  BY DEF Noisy
<1> USE <1>a
<1>1. z \in Bytes
  BY DEF Junk
<1>2. /\ Len(b) \in Nat /\ Len(w) \in Nat /\ Len(z) \in Nat /\ Len(t) \in Nat
      /\ Len(b) + Len(w) = Len(z) + Len(t)
      /\ \A j \in 1 .. Len(b) : j <= Len(z) => b[j] = z[j]
      /\ \A j \in 1 .. Len(t) : Len(z) + j <= Len(b) => b[Len(z) + j] = t[j]
  <2>1. b \o w = z \o t OBVIOUS
  <2> QED BY ONLY <1>a, <1>1, <2>1, SameBytes
<1>3. Len(z) >= 1
  <2>1. Len(z) # 0 BY <1>1, EmptySeq DEF Bytes
  <2> QED BY <1>2, <2>1
<1> DEFINE last == Len(b) - Len(Magic) + 2
           p == IF Magics(b) # {} THEN Min(Magics(b)) ELSE Max({1, last})
<1>4. last \in Nat /\ last > 1 /\ last <= Len(b) + 1
  BY <1>2, Widths
<1>5. Max({1, last}) = last
  <2> HIDE DEF last
  <2>1. last \in {1, last} /\ \A y \in {1, last} : last >= y
    BY <1>4
  <2>2. \A x \in {1, last} : (\A y \in {1, last} : x >= y) => x = last
    BY <1>4
  <2> QED BY <2>1, <2>2 DEF Max
<1>6. Magics(b) \in SUBSET Nat /\ \A i \in Magics(b) : 1 < i /\ i < last
  BY <1>2, Widths, SMTT(20) DEF Magics
<1>7. /\ p \in Nat /\ 1 < p /\ p <= last
      /\ Magics(b) # {} => p < last /\ \A i \in Magics(b) : p <= i
  <2>1. Magics(b) = {} => p = last
    BY <1>5
  <2>2. Magics(b) # {} => p = Min(Magics(b))
    OBVIOUS
  <2> HIDE DEF last, p
  <2>3. CASE Magics(b) = {}
    BY <1>4, <2>1, <2>3
  <2>4. CASE Magics(b) # {}
    <3>1. p \in Magics(b) /\ \A i \in Magics(b) : p <= i
      BY <1>6, <2>2, <2>4, MinIsLeast
    <3>2. p \in Nat /\ 1 < p /\ p < last
      BY <1>6, <3>1
    <3> QED BY <1>4, <3>1, <3>2
  <2> QED BY <2>3, <2>4
<1>8. Resynced(b) = From(b, p)
  BY DEF Resynced
<1> HIDE DEF p
<1>9. p <= Len(z) + 1
  <2>1. CASE t = <<>>
    <3>1. Len(t) = 0 BY <2>1, EmptySeq
    <3> QED BY <1>2, <1>4, <1>7, <3>1
  <2>2. CASE t # <<>>
    <3>1. PICK r \in Bytes : t = Magic \o r
      BY <2>2 DEF Ahead
    <3>2. /\ Len(t) >= Len(Magic) /\ \A j \in 1 .. Len(Magic) : t[j] = Magic[j]
      BY <3>1, Widths, Joined
    <3>3. CASE Len(z) + 1 >= last BY <1>2, <1>4, <1>7, <3>3
    <3>4. CASE Len(z) + 1 < last
      <4>1. \A j \in 1 .. Len(Magic) : (Len(z) + 1) + j - 1 = Len(z) + j
                                        /\ Len(z) + j <= Len(b) /\ j \in 1 .. Len(t)
        BY <1>2, <3>2, <3>4, Widths
      <4>2. \A j \in 1 .. Len(Magic) : b[(Len(z) + 1) + j - 1] = Magic[j]
        BY <1>2, <3>2, <4>1
      <4>3. HasMagic(b, Len(z) + 1)
        <5>1. Len(z) + 1 \in Nat \ {0} /\ (Len(z) + 1) + Len(Magic) - 1 <= Len(b)
          BY <1>2, <3>4, Widths
        <5> QED BY <4>2, <5>1, MagicAt
      <4>4. Len(z) + 1 \in Magics(b)
        BY <1>2, <1>3, <3>4, <4>3, Widths DEF Magics
      <4> QED BY <1>7, <4>4
    <3> QED BY <1>2, <1>4, <3>3, <3>4
  <2> QED BY <2>1, <2>2
<1>10. p \in 1 .. Len(b) + 1 /\ p \in 1 .. Len(z) + 1
  BY <1>2, <1>4, <1>7, <1>9
<1>11. From(b, p) \in Bytes /\ From(b, p) \o w = From(b \o w, p)
  BY <1>10, FromType, FromConcat
<1>12. From(z \o t, p) = From(z, p) \o t
  BY <1>1, <1>10, FromConcat
<1>13. From(z, p) \in Junk
  BY <1>10, JunkEnds
<1> QED BY <1>8, <1>11, <1>12, <1>13 DEF NoisyOrNot

\* A frame that has arrived as a whole decodes.
LEMMA WholeFrameDecodes ==
  ASSUME NEW b, NEW body, NEW r, Framed(b, <<>>, body, r)
  PROVE  Decode(b) = "ok"
<1> DEFINE e == Encoded(body)
<1>1. b \in Bytes /\ <<>> \in Bytes /\ body \in Body /\ r \in Bytes /\ b \o <<>> = e \o r
  BY DEF Framed
<1>2. /\ e \in Bytes /\ Len(e) = OuterLen + Len(body) /\ e[OuterLen] = Len(body)
      /\ Len(body) \in SubHdrLen .. MaxBodyLen
  BY <1>1, EncodedBytes
<1> HIDE DEF e
<1>3. /\ Len(b) \in Nat /\ Len(r) \in Nat /\ Len(b) + Len(<<>>) = Len(e) + Len(r)
      /\ \A j \in 1 .. Len(b) : j <= Len(e) => b[j] = e[j]
  BY ONLY <1>1, <1>2, SameBytes
<1>4. Len(<<>>) = 0
  BY EmptySeq
<1>5. Len(b) >= OuterLen + Len(body) /\ OuterLen \in Nat /\ OuterLen >= 2 /\ Len(body) \in Nat
  BY <1>2, <1>3, <1>4, Widths
<1>6. b[OuterLen] = Len(body)
  <2>1. OuterLen \in 1 .. Len(b) /\ OuterLen <= Len(e)
    BY <1>2, <1>3, <1>5
  <2> QED BY <1>2, <1>3, <2>1
<1>7. Decode(b) \in {"ErrShort", "ok"}
  BY FrameDecodes
<1>8. ~ (Len(b) < OuterLen) /\ ~ (Len(b) < OuterLen + b[OuterLen])
  BY <1>3, <1>5, <1>6
<1> QED BY <1>7, <1>8 DEF Decode

-----------------------------------------------------------------------------
(* The stream: what was sent and not yet returned                          *)

\* rest[k] is what is left of the stream after frame k: noise, the next frame
\* and what follows that one.
Layout(rest) ==
  /\ rest[Len(returned)] = buf \o wire
  /\ rest[Len(written)] \in Junk
  /\ Len(written) \notin bursts => rest[Len(written)] = <<>>
  /\ \A k \in Len(returned) .. Len(written) - 1 :
        \E z \in Junk : rest[k] = z \o (Encoded(written[k + 1]) \o rest[k + 1])

\* The frames returned are the first of those sent, and the bytes that are
\* left hold the others.
StreamInv ==
  /\ buf \in Bytes /\ wire \in Bytes
  /\ written \in Seq(Body) /\ returned \in Seq(Body)
  /\ Len(returned) <= Len(written)
  /\ \A i \in 1 .. Len(returned) : returned[i] = written[i]
  /\ \E rest \in [Len(returned) .. Len(written) -> Bytes] : Layout(rest)

LEMMA StreamTypes ==
  ASSUME StreamInv
  PROVE  /\ buf \in Bytes /\ wire \in Bytes /\ buf \o wire \in Bytes
         /\ Len(returned) \in Nat /\ Len(written) \in Nat
         /\ Len(returned) <= Len(written)
         /\ written \in Seq(Body) /\ returned \in Seq(Body)
         /\ \A i \in 1 .. Len(written) : written[i] \in Body
         /\ \A i \in 1 .. Len(returned) : returned[i] \in Body
BY Joined DEF StreamInv

LEMMA StreamInit1 == StreamInit => StreamInv
<1> SUFFICES ASSUME StreamInit PROVE StreamInv
  OBVIOUS
<1> USE DEF StreamInit
<1>1. <<>> \in Bytes /\ Len(<<>>) = 0 /\ <<>> \in Seq(Body)
  BY EmptySeq DEF Bytes
<1>2. <<>> \in Junk
  BY <1>1 DEF Junk
<1> DEFINE rest == [k \in 0 .. 0 |-> <<>>]
<1>3. rest \in [0 .. 0 -> Bytes] /\ rest[0] = <<>>
  BY <1>1
<1>4. <<>> \o <<>> = <<>>
  BY <1>1, ConcatEmptySeq DEF Bytes
<1> HIDE DEF rest
<1>5. Layout(rest)
  BY <1>1, <1>2, <1>3, <1>4 DEF Layout
<1> QED BY <1>1, <1>3, <1>5 DEF StreamInv

\* What the reader has before it: nothing but noise when every frame was
\* returned, else noise and the next frame.
LEMMA NextAhead ==
  ASSUME StreamInv, NEW rest \in [Len(returned) .. Len(written) -> Bytes], Layout(rest)
  PROVE  \E z \in Junk, t \in Bytes :
            /\ Ahead(t) /\ buf \o wire = z \o t
            /\ \/ Len(returned) = Len(written) /\ t = <<>>
               \/ /\ Len(returned) < Len(written)
                  /\ t = Encoded(written[Len(returned) + 1]) \o rest[Len(returned) + 1]
<1> DEFINE n == Len(returned)  m == Len(written)
<1>1. n \in Nat /\ m \in Nat /\ n <= m /\ rest[n] = buf \o wire
  BY StreamTypes DEF Layout
<1>2. CASE n = m
  <2>1. rest[n] \in Junk /\ rest[n] \in Bytes
    <3>1. rest[m] \in Junk BY DEF Layout
    <3> QED BY <1>2, <3>1 DEF Junk
  <2>2. rest[n] = rest[n] \o <<>> /\ <<>> \in Bytes
    BY <2>1, JoinedNothing, EmptySeq DEF Bytes
  <2>3. Ahead(<<>>) BY DEF Ahead
  <2> QED BY <1>1, <1>2, <2>1, <2>2, <2>3
<1>3. CASE n < m
  <2>1. n \in n .. m - 1 /\ n + 1 \in n .. m /\ n + 1 \in 1 .. m
    BY <1>1, <1>3
  <2> DEFINE e == Encoded(written[n + 1])
             t == e \o rest[n + 1]
  <2>2. PICK z \in Junk : rest[n] = z \o t
    BY <2>1 DEF Layout
  <2>3. e \in Bytes /\ rest[n + 1] \in Bytes /\ \E r \in Bytes : e = Magic \o r
    BY <2>1, StreamTypes, EncodedBytes
  <2> HIDE DEF e
  <2>4. t \in Bytes
    BY <2>3, Joined
  <2>5. Ahead(t)
    <3>1. PICK r \in Bytes : e = Magic \o r BY <2>3
    <3>2. t = Magic \o (r \o rest[n + 1])
      <4>1. Magic \in Bytes BY Widths
      <4>2. (Magic \o r) \o rest[n + 1] = Magic \o (r \o rest[n + 1])
        BY <2>3, <4>1, JoinedThree
      <4> QED BY <3>1, <4>2
    <3>3. r \o rest[n + 1] \in Bytes BY <2>3, Joined
    <3> QED BY <3>2, <3>3 DEF Ahead
  <2>6. buf \o wire = z \o t
    BY <1>1, <2>2 DEF e
  <2>7. t = Encoded(written[n + 1]) \o rest[n + 1]
    BY DEF e
  <2> HIDE DEF t
  <2> QED BY <1>3, <2>4, <2>5, <2>6, <2>7
<1>4. n = m \/ n < m
  BY <1>1
<1> QED BY <1>2, <1>3, <1>4

\* More bytes on the wire: what is left after each frame grows by them.
LEMMA RestGrows ==
  ASSUME StreamInv, NEW rest \in [Len(returned) .. Len(written) -> Bytes], Layout(rest),
         NEW x \in Bytes, NEW k \in Len(returned) .. Len(written) - 1
  PROVE  \E z \in Junk :
            rest[k] \o x = z \o (Encoded(written[k + 1]) \o (rest[k + 1] \o x))
<1>1. /\ k + 1 \in Len(returned) .. Len(written) /\ k + 1 \in 1 .. Len(written)
      /\ Len(returned) \in Nat /\ Len(written) \in Nat
  BY StreamTypes
<1>2. PICK z \in Junk : rest[k] = z \o (Encoded(written[k + 1]) \o rest[k + 1])
  BY DEF Layout
<1> DEFINE e == Encoded(written[k + 1])
           q == rest[k + 1]
           c == e \o q
<1>3. e \in Bytes /\ z \in Bytes /\ q \in Bytes
  BY <1>1, StreamTypes, EncodedBytes DEF Junk
<1>4. rest[k] = z \o c
  BY <1>2
<1> HIDE DEF e, q
<1>5. c \in Bytes
  BY <1>3, Joined
<1>6. c \o x = e \o (q \o x)
  <2>1. (e \o q) \o x = e \o (q \o x) BY <1>3, JoinedThree
  <2> QED BY <2>1
<1> HIDE DEF c
<1>7. (z \o c) \o x = z \o (c \o x)
  <2>1. z \in Bytes BY <1>3
  <2> QED BY <1>5, <2>1, JoinedThree
<1>8. rest[k] \o x = z \o (e \o (q \o x))
  <2>1. rest[k] \o x = z \o (c \o x) BY <1>4, <1>7
  <2> QED BY <1>6, <2>1
<1> QED BY <1>8 DEF e, q

\* WriteFrame: one more frame at the end.
LEMMA WriteFrameKeeps ==
  ASSUME StreamInv, NEW body \in Body, WriteFrame(body)
  PROVE  StreamInv'
<1>1. PICK rest \in [Len(returned) .. Len(written) -> Bytes] : Layout(rest)
  BY DEF StreamInv
<1> DEFINE n == Len(returned)  m == Len(written)  x == Encoded(body)
<1>2. /\ n \in Nat /\ m \in Nat /\ n <= m /\ x \in Bytes
      /\ buf \in Bytes /\ wire \in Bytes
      /\ \A i \in 1 .. m : written[i] \in Body
  BY StreamTypes, EncodedBytes
<1>3. /\ wire' = wire \o x /\ written' = Append(written, body)
      /\ UNCHANGED <<buf, returned, bursts>>
  BY DEF WriteFrame
<1>4. /\ written' \in Seq(Body) /\ Len(written') = m + 1
      /\ \A i \in 1 .. m : written'[i] = written[i]
      /\ written'[m + 1] = body
  BY <1>3, StreamTypes, AppendProperties
<1>5. <<>> \in Bytes /\ <<>> \in Junk
  BY EmptySeq DEF Bytes, Junk
<1>6. \A k \in n .. m : rest[k] \in Bytes /\ rest[k] \o x \in Bytes
  BY <1>2, Joined
<1>7. PICK more \in [n .. m + 1 -> Bytes] :
         more[m + 1] = <<>> /\ \A k \in n .. m : more[k] = rest[k] \o x
  <2> DEFINE f == [k \in n .. m + 1 |-> IF k = m + 1 THEN <<>> ELSE rest[k] \o x]
  <2>1. f \in [n .. m + 1 -> Bytes]
    BY <1>2, <1>5, <1>6
  <2>2. f[m + 1] = <<>> /\ \A k \in n .. m : f[k] = rest[k] \o x
    BY <1>2
  <2> QED BY <2>1, <2>2
<1>8. more[m + 1] = <<>> /\ \A k \in n .. m : more[k] = rest[k] \o x
  BY <1>7
<1>9. more[n] = buf \o wire'
  <2>1. rest[n] = buf \o wire BY <1>1 DEF Layout
  <2>2. (buf \o wire) \o x = buf \o (wire \o x)
    BY <1>2, JoinedThree
  <2>3. n \in n .. m BY <1>2
  <2> QED BY <1>3, <1>8, <2>1, <2>2, <2>3
<1>10. ASSUME NEW k \in n .. m
       PROVE  \E z \in Junk : more[k] = z \o (Encoded(written'[k + 1]) \o more[k + 1])
  <2>1. CASE k = m
    <3>1. rest[m] \in Junk BY <1>1 DEF Layout
    <3>2. more[m] = rest[m] \o (x \o <<>>)
      BY <1>2, <1>8, <2>1, JoinedNothing
    <3> QED BY <1>4, <1>8, <2>1, <3>1, <3>2
  <2>2. CASE k # m
    <3>1. k \in n .. m - 1 /\ k + 1 \in n .. m /\ k + 1 \in 1 .. m
      BY <1>2, <2>2
    <3>4. \E z \in Junk :
             rest[k] \o x = z \o (Encoded(written[k + 1]) \o (rest[k + 1] \o x))
      BY <1>1, <1>2, <3>1, RestGrows
    <3>5. more[k] = rest[k] \o x /\ more[k + 1] = rest[k + 1] \o x
          /\ written'[k + 1] = written[k + 1]
      BY <1>4, <1>8, <3>1
    <3> QED BY <3>4, <3>5
  <2> QED BY <2>1, <2>2
<1>11. Layout(more)'
  <2>1. /\ Len(returned') = n /\ Len(written') = m + 1
        /\ Len(returned') .. Len(written') - 1 = n .. m
    BY <1>2, <1>3, <1>4
  <2>2. more[Len(returned')] = buf' \o wire'
    BY <1>3, <1>9, <2>1
  <2>3. more[Len(written')] = <<>>
    BY <1>8, <2>1
  <2>4. \A k \in Len(returned') .. Len(written') - 1 :
          \E z \in Junk : more[k] = z \o (Encoded(written'[k + 1]) \o more[k + 1])
    BY <1>10, <2>1
  <2> QED BY <1>5, <2>2, <2>3, <2>4 DEF Layout
<1>12. wire' \in Bytes
  BY <1>2, <1>3, Joined
<1>13. \A i \in 1 .. Len(returned') : returned'[i] = written'[i]
  BY <1>2, <1>3, <1>4 DEF StreamInv
<1>14. more \in [Len(returned') .. Len(written') -> Bytes]
  BY <1>3, <1>4, <1>7
<1>15. buf' \in Bytes /\ returned' \in Seq(Body) /\ Len(returned') <= Len(written')
  BY <1>2, <1>3, <1>4, StreamTypes
<1> QED BY <1>4, <1>11, <1>12, <1>13, <1>14, <1>15 DEF StreamInv

\* WriteNoise: some noise behind the last frame, where there was none.
LEMMA WriteNoiseKeeps ==
  ASSUME StreamInv, NEW x \in Noise, WriteNoise(x)
  PROVE  StreamInv'
<1>1. PICK rest \in [Len(returned) .. Len(written) -> Bytes] : Layout(rest)
  BY DEF StreamInv
<1> DEFINE n == Len(returned)  m == Len(written)
<1>2. /\ n \in Nat /\ m \in Nat /\ n <= m /\ x \in Bytes
      /\ buf \in Bytes /\ wire \in Bytes
  BY StreamTypes, StreamAssumption DEF Bytes
<1>3. /\ wire' = wire \o x /\ m \notin bursts /\ bursts' = bursts \cup {m}
      /\ UNCHANGED <<buf, returned, written>>
  BY DEF WriteNoise
<1>4. PICK more \in [n .. m -> Bytes] : \A k \in n .. m : more[k] = rest[k] \o x
  <2> DEFINE f == [k \in n .. m |-> rest[k] \o x]
  <2>1. \A k \in n .. m : rest[k] \o x \in Bytes
    BY <1>2, Joined
  <2>2. f \in [n .. m -> Bytes]
    BY <2>1
  <2> QED BY <2>2
<1>5. more[n] = buf' \o wire'
  <2>1. rest[n] = buf \o wire BY <1>1 DEF Layout
  <2>2. (buf \o wire) \o x = buf \o (wire \o x)
    BY <1>2, JoinedThree
  <2>3. n \in n .. m BY <1>2
  <2> QED BY <1>3, <1>4, <2>1, <2>2, <2>3
<1>6. more[m] \in Junk
  <2>1. rest[m] = <<>> BY <1>1, <1>3 DEF Layout
  <2>2. m \in n .. m BY <1>2
  <2>3. more[m] = x
    BY <1>2, <1>4, <2>1, <2>2, JoinedNothing
  <2>4. x \in Junk
    <3>1. CASE x = <<>> BY <1>2, <3>1 DEF Junk
    <3>2. CASE x # <<>>
      <4>1. Len(x) \in Nat \ {0} BY <1>2, <3>2, EmptySeq DEF Bytes
      <4>2. 1 \in 1 .. Len(x) BY <4>1
      <4>3. From(x, 1) = x BY <1>2, SubSeqFull DEF Bytes, From
      <4> QED BY <1>2, <4>2, <4>3 DEF Junk
    <3> QED BY <3>1, <3>2
  <2> QED BY <2>3, <2>4
<1>7. ASSUME NEW k \in n .. m - 1
      PROVE  \E z \in Junk : more[k] = z \o (Encoded(written[k + 1]) \o more[k + 1])
  <2>1. k \in n .. m /\ k + 1 \in n .. m
    BY <1>2
  <2>2. \E z \in Junk :
           rest[k] \o x = z \o (Encoded(written[k + 1]) \o (rest[k + 1] \o x))
    BY <1>1, <1>2, RestGrows
  <2> QED BY <1>4, <2>1, <2>2
<1>8. Layout(more)'
  <2>1. m \in bursts' BY <1>3
  <2> QED BY <1>3, <1>5, <1>6, <1>7, <2>1 DEF Layout
<1>9. wire' \in Bytes
  BY <1>2, <1>3, Joined
<1> QED BY <1>3, <1>8, <1>9 DEF StreamInv

\* A step that only moves bytes between the wire and the buffer, or none.
LEMMA StreamMoves ==
  ASSUME StreamInv, buf' \in Bytes, wire' \in Bytes, buf' \o wire' = buf \o wire,
         UNCHANGED <<written, returned, bursts>>
  PROVE  StreamInv'
BY DEF StreamInv, Layout

\* fill: the bytes go from the wire to the buffer, in their order.
LEMMA FillKeeps ==
  ASSUME StreamInv, Fill
  PROVE  StreamInv'
<1> DEFINE S == {Len(wire), BufCap - Len(buf)}
<1>1. /\ buf \in Bytes /\ wire \in Bytes /\ Len(wire) \in Nat
      /\ Len(buf) \in Nat /\ BufCap \in Nat
  BY StreamTypes, Widths DEF Bytes
<1>2. PICK k \in 1 .. Min(S) : /\ buf' = buf \o SubSeq(wire, 1, k)
                               /\ wire' = From(wire, k + 1)
  BY DEF Fill
<1>3. Min(S) \in Int /\ Min(S) <= Len(wire)
  <2>1. \E i \in S : \A j \in S : i <= j
    BY <1>1
  <2>2. Min(S) \in S /\ \A j \in S : Min(S) <= j
    BY <2>1 DEF Min
  <2> QED BY <1>1, <2>2
<1>4. k \in 1 .. Len(wire)
  BY <1>1, <1>3
<1> DEFINE c == SubSeq(wire, 1, k)
           d == From(wire, k + 1)
<1>5. c \o d = wire
  <2>1. 1 \in 1 .. Len(wire) + 1 /\ k \in 0 .. Len(wire) /\ Len(wire) \in k .. Len(wire)
        /\ 1 - 1 = 0
    BY <1>1, <1>4
  <2>2. SubSeq(wire, 1, k) \o SubSeq(wire, k + 1, Len(wire)) = SubSeq(wire, 1, Len(wire))
    BY <1>1, <2>1, ConcatAdjacentSubSeq DEF Bytes
  <2>3. SubSeq(wire, 1, Len(wire)) = wire
    BY <1>1, SubSeqFull DEF Bytes
  <2> QED BY <2>2, <2>3 DEF From
<1>6. c \in Bytes /\ d \in Bytes
  <2>1. \A i \in 1 .. k : wire[i] \in Nat
    BY <1>1, <1>4 DEF Bytes
  <2>2. SubSeq(wire, 1, k) \in Seq(Nat)
    BY <1>4, <2>1, SubSeqProperties
  <2>3. k + 1 \in 1 .. Len(wire) + 1
    BY <1>1, <1>4
  <2> QED BY <1>1, <2>2, <2>3, FromType DEF Bytes
<1> HIDE DEF c, d
<1>7. (buf \o c) \o d = buf \o (c \o d) /\ buf \o c \in Bytes
  <2>1. buf \in Bytes BY <1>1
  <2>2. (buf \o c) \o d = buf \o (c \o d) BY <1>6, <2>1, JoinedThree
  <2>3. buf \o c \in Bytes BY <1>6, <2>1, Joined
  <2> QED BY <2>2, <2>3
<1>8. buf' = buf \o c /\ wire' = d
  BY <1>2 DEF c, d
<1>9. UNCHANGED <<written, returned, bursts>>
  BY DEF Fill
<1> QED BY <1>5, <1>6, <1>7, <1>8, <1>9, StreamMoves

\* resync: the search drops nothing but noise.
LEMMA ResyncKeeps ==
  ASSUME StreamInv, Resync
  PROVE  StreamInv'
<1>1. PICK rest \in [Len(returned) .. Len(written) -> Bytes] : Layout(rest)
  BY DEF StreamInv
<1> DEFINE n == Len(returned)  m == Len(written)
<1>2. /\ n \in Nat /\ m \in Nat /\ n <= m /\ buf \in Bytes /\ wire \in Bytes
  BY StreamTypes
<1>3. PICK z \in Junk, t \in Bytes :
         /\ Ahead(t) /\ buf \o wire = z \o t
         /\ \/ n = m /\ t = <<>>
            \/ n < m /\ t = Encoded(written[n + 1]) \o rest[n + 1]
  BY <1>1, NextAhead
<1>4. /\ Decode(buf) \in {"ErrMagic", "ErrBodyLen"} /\ buf' = Resynced(buf)
      /\ UNCHANGED <<wire, returned, written, bursts>>
  BY DEF Resync
<1>5. Len(buf) >= OuterLen
  <2>1. Len(buf) \in Nat BY <1>2 DEF Bytes
  <2> QED BY <1>4, <2>1, Widths DEF Decode
<1>6. z # <<>>
  <2> SUFFICES ASSUME z = <<>> PROVE FALSE
    OBVIOUS
  <2>1. buf \o wire = t
    BY <1>3, JoinedNothing
  <2>2. CASE n = m /\ t = <<>>
    <3>1. Len(buf) + Len(wire) = 0 /\ Len(buf) \in Nat /\ Len(wire) \in Nat
      <4>1. Len(t) = 0 BY <2>2, EmptySeq
      <4>2. /\ Len(buf \o wire) = Len(buf) + Len(wire)
            /\ Len(buf) \in Nat /\ Len(wire) \in Nat
        BY <1>2, Joined
      <4> QED BY <2>1, <4>1, <4>2
    <3> QED BY <1>5, <3>1, Widths
  <2>3. CASE n < m /\ t = Encoded(written[n + 1]) \o rest[n + 1]
    <3>1. written[n + 1] \in Body /\ rest[n + 1] \in Bytes
      <4>1. n + 1 \in 1 .. m /\ n + 1 \in n .. m BY <1>2, <2>3
      <4> QED BY <4>1, StreamTypes
    <3>2. Decode(buf) \in {"ErrShort", "ok"}
      <4> DEFINE body == written[n + 1]  r == rest[n + 1]
      <4>1. Framed(buf, wire, body, r)
        BY <1>2, <2>1, <2>3, <3>1 DEF Framed
      <4> HIDE DEF body, r
      <4> QED BY <4>1, FrameDecodes
    <3> QED BY <1>4, <3>2
  <2> QED BY <1>3, <2>2, <2>3
<1>7. /\ Resynced(buf) \in Bytes
      /\ \E y \in Junk : Resynced(buf) \o wire = y \o t
  <2>1. Noisy(buf, wire, z, t)
    BY <1>2, <1>3, <1>6 DEF Noisy
  <2>2. Resynced(buf) \in Bytes
    BY <1>5, <2>1, ResyncStops
  <2>3. NoisyOrNot(Resynced(buf), wire, t)
    BY <1>5, <2>1, ResyncStops
  <2> QED BY <2>2, <2>3 DEF NoisyOrNot
<1>8. PICK y \in Junk : buf' \o wire' = y \o t
  BY <1>4, <1>7
<1>9. PICK more \in [n .. m -> Bytes] :
         more[n] = buf' \o wire' /\ \A k \in n + 1 .. m : more[k] = rest[k]
  <2> DEFINE f == [k \in n .. m |-> IF k = n THEN buf' \o wire' ELSE rest[k]]
  <2>1. buf' \o wire' \in Bytes
    BY <1>2, <1>4, <1>7, Joined
  <2>2. f \in [n .. m -> Bytes] /\ f[n] = buf' \o wire'
        /\ \A k \in n + 1 .. m : f[k] = rest[k]
    BY <1>2, <2>1
  <2> QED BY <2>2
<1>10. more[m] \in Junk /\ (m \notin bursts => more[m] = <<>>)
  <2>1. CASE n = m
    <3>0. t = <<>> /\ y \in Bytes /\ z \in Bytes
      <4>1. ~ (n < m) BY <1>2, <2>1
      <4>2. t = <<>> BY <1>3, <4>1
      <4> QED BY <4>2 DEF Junk
    <3>1. more[m] = y
      <4>1. y \o t = y BY <3>0, JoinedNothing
      <4> QED BY <1>8, <1>9, <2>1, <4>1
    <3>2. m \in bursts
      <4>1. z \o t = z BY <3>0, JoinedNothing
      <4>2. rest[m] = z BY <1>1, <1>3, <2>1, <4>1 DEF Layout
      <4> QED BY <1>1, <1>6, <4>2 DEF Layout
    <3> QED BY <3>1, <3>2
  <2>2. CASE n # m
    <3>1. m \in n + 1 .. m BY <1>2, <2>2
    <3>2. more[m] = rest[m] BY <1>9, <3>1
    <3> QED BY <1>1, <3>2 DEF Layout
  <2> QED BY <2>1, <2>2
<1>11. ASSUME NEW k \in n .. m - 1
       PROVE  \E x \in Junk : more[k] = x \o (Encoded(written[k + 1]) \o more[k + 1])
  <2>1. k + 1 \in n + 1 .. m /\ more[k + 1] = rest[k + 1]
    <3>1. k + 1 \in n + 1 .. m BY <1>2
    <3> QED BY <1>9, <3>1
  <2>2. CASE k = n
    <3>1. n < m BY <1>2, <2>2
    <3>2. more[k] = y \o (Encoded(written[k + 1]) \o rest[k + 1])
      <4>0. n # m BY <1>2, <3>1
      <4>1. t = Encoded(written[n + 1]) \o rest[n + 1] BY <1>3, <4>0
      <4>2. more[n] = y \o t BY <1>8, <1>9
      <4> QED BY <2>2, <4>1, <4>2
    <3> QED BY <2>1, <3>2
  <2>3. CASE k # n
    <3>1. k \in n + 1 .. m BY <1>2, <2>3
    <3>2. more[k] = rest[k] BY <1>9, <3>1
    <3>3. \E x \in Junk : rest[k] = x \o (Encoded(written[k + 1]) \o rest[k + 1])
      BY <1>1 DEF Layout
    <3> QED BY <2>1, <3>2, <3>3
  <2> QED BY <2>2, <2>3
<1>12. Layout(more)'
  BY <1>4, <1>9, <1>10, <1>11 DEF Layout
<1> QED BY <1>4, <1>7, <1>12 DEF StreamInv

\* Next returns the frame that is next.
LEMMA NextReturnsNext ==
  ASSUME StreamInv, NextReturns
  PROVE  /\ StreamInv'
         /\ Len(returned) < Len(written)
         /\ BodyOf(buf) = written[Len(returned) + 1]
<1>1. PICK rest \in [Len(returned) .. Len(written) -> Bytes] : Layout(rest)
  BY DEF StreamInv
<1> DEFINE n == Len(returned)  m == Len(written)
<1>2. /\ n \in Nat /\ m \in Nat /\ n <= m /\ buf \in Bytes /\ wire \in Bytes
      /\ returned \in Seq(Body)
  BY StreamTypes
<1>3. PICK z \in Junk, t \in Bytes :
         /\ Ahead(t) /\ buf \o wire = z \o t
         /\ \/ n = m /\ t = <<>>
            \/ n < m /\ t = Encoded(written[n + 1]) \o rest[n + 1]
  BY <1>1, NextAhead
<1> DEFINE left == SubSeq(buf, OuterLen + buf[OuterLen] + 1, Len(buf))
<1>4. /\ Decode(buf) = "ok" /\ returned' = Append(returned, BodyOf(buf))
      /\ buf' = left /\ UNCHANGED <<wire, written, bursts>>
  BY DEF NextReturns
<1>5. /\ ~ (Len(buf) < OuterLen) /\ HasMagic(buf, 1)
      /\ buf[OuterLen] \in SubHdrLen .. MaxBodyLen
  BY <1>4 DEF Decode
<1>6. Len(buf) >= OuterLen
  <2>1. Len(buf) \in Nat BY <1>2 DEF Bytes
  <2> QED BY <1>5, <2>1, Widths
<1>7. z = <<>>
  <2> SUFFICES ASSUME z # <<>> PROVE FALSE
    OBVIOUS
  <2>1. Noisy(buf, wire, z, t)
    BY <1>2, <1>3 DEF Noisy
  <2> QED BY <1>5, <1>6, <2>1, NoiseIsNoFrame
<1>8. buf \o wire = t
  BY <1>3, <1>7, JoinedNothing
<1>9. n < m /\ t = Encoded(written[n + 1]) \o rest[n + 1]
  <2> SUFFICES ASSUME t = <<>> PROVE FALSE
    BY <1>3
  <2>1. Len(t) = 0 BY EmptySeq
  <2>2. /\ Len(buf \o wire) = Len(buf) + Len(wire)
        /\ Len(buf) \in Nat /\ Len(wire) \in Nat
    BY <1>2, Joined
  <2> QED BY <1>6, <1>8, <2>1, <2>2, Widths
<1>10. n + 1 \in 1 .. m /\ n + 1 \in n .. m
  BY <1>2, <1>9
<1>11. written[n + 1] \in Body /\ rest[n + 1] \in Bytes
  BY <1>10, StreamTypes
<1>12. BodyOf(buf) = written[n + 1] /\ left \in Bytes /\ left \o wire = rest[n + 1]
  <2> DEFINE body == written[n + 1]  r == rest[n + 1]
  <2>1. Framed(buf, wire, body, r)
    BY <1>2, <1>8, <1>9, <1>11 DEF Framed
  <2> HIDE DEF body, r
  <2>3. BodyOf(buf) = body /\ left \in Bytes /\ left \o wire = r
    BY <1>4, <2>1, FrameDecodes
  <2> QED BY <2>3 DEF body, r
<1>13. /\ returned' \in Seq(Body) /\ Len(returned') = n + 1
       /\ \A i \in 1 .. n : returned'[i] = returned[i]
       /\ returned'[n + 1] = written[n + 1]
  BY <1>2, <1>4, <1>11, <1>12, AppendProperties
<1>14. PICK more \in [n + 1 .. m -> Bytes] : \A k \in n + 1 .. m : more[k] = rest[k]
  <2> DEFINE f == [k \in n + 1 .. m |-> rest[k]]
  <2>1. f \in [n + 1 .. m -> Bytes] /\ \A k \in n + 1 .. m : f[k] = rest[k]
    BY <1>2
  <2> QED BY <2>1
<1>15. Layout(more)'
  <2>1. more[n + 1] = buf' \o wire'
    <3>1. n + 1 \in n + 1 .. m BY <1>2, <1>9
    <3> QED BY <1>4, <1>12, <1>14, <3>1
  <2>2. more[m] = rest[m]
    <3>1. m \in n + 1 .. m BY <1>2, <1>9
    <3> QED BY <1>14, <3>1
  <2>3. rest[m] \in Junk /\ (m \notin bursts => rest[m] = <<>>)
    BY <1>1 DEF Layout
  <2>4. ASSUME NEW k \in n + 1 .. m - 1
        PROVE  \E x \in Junk : more[k] = x \o (Encoded(written[k + 1]) \o more[k + 1])
    <3>1. k \in n .. m - 1 /\ k \in n + 1 .. m /\ k + 1 \in n + 1 .. m
      BY <1>2
    <3>2. \E x \in Junk : rest[k] = x \o (Encoded(written[k + 1]) \o rest[k + 1])
      BY <1>1, <3>1 DEF Layout
    <3>3. more[k] = rest[k] /\ more[k + 1] = rest[k + 1]
      BY <1>14, <3>1
    <3> QED BY <3>2, <3>3
  <2> QED BY <1>4, <1>13, <2>1, <2>2, <2>3, <2>4 DEF Layout
<1>16. \A i \in 1 .. Len(returned') : returned'[i] = written'[i]
  BY <1>2, <1>4, <1>13 DEF StreamInv
<1>17. StreamInv'
  <2>1. more \in [Len(returned') .. Len(written') -> Bytes] /\ Len(returned') <= Len(written')
    BY <1>2, <1>4, <1>9, <1>13
  <2>2. buf' \in Bytes /\ wire' \in Bytes /\ written' \in Seq(Body)
    BY <1>2, <1>4, <1>12, StreamTypes
  <2> QED BY <1>13, <1>15, <1>16, <2>1, <2>2 DEF StreamInv
<1> QED BY <1>9, <1>12, <1>17

\* fill fails only when everything was read: a frame and what it takes to see
\* that something is none fit into the buffer.
LEMMA FillFailsAtEnd ==
  ASSUME StreamInv, FillFails
  PROVE  ~ open /\ Len(returned) = Len(written)
<1> DEFINE n == Len(returned)  m == Len(written)
<1>1. Decode(buf) = "ErrShort" /\ (Len(buf) < BufCap => (~ open /\ wire = <<>>))
  BY DEF FillFails
<1>2. buf \in Bytes /\ Len(buf) \in Nat /\ n \in Nat /\ m \in Nat /\ n <= m
  BY StreamTypes DEF Bytes
<1>3. Len(buf) < BufCap
  <2>1. CASE Len(buf) < OuterLen
    BY <1>2, <2>1, Widths
  <2>2. CASE ~ (Len(buf) < OuterLen)
    <3>1. buf[OuterLen] \in SubHdrLen .. MaxBodyLen /\ Len(buf) < OuterLen + buf[OuterLen]
      BY <1>1, <2>2 DEF Decode
    <3> QED BY <1>2, <3>1, Widths
  <2> QED BY <2>1, <2>2
<1>4. ~ open /\ wire = <<>>
  BY <1>1, <1>3
<1>5. PICK rest \in [n .. m -> Bytes] : Layout(rest)
  BY DEF StreamInv
<1>6. PICK z \in Junk, t \in Bytes :
         /\ Ahead(t) /\ buf \o wire = z \o t
         /\ \/ n = m /\ t = <<>>
            \/ n < m /\ t = Encoded(written[n + 1]) \o rest[n + 1]
  BY <1>5, NextAhead
<1>7. ASSUME n < m PROVE FALSE
  <2>1. t = Encoded(written[n + 1]) \o rest[n + 1]
    <3>1. n # m
      <4> HIDE DEF n, m
      <4> QED BY <1>2, <1>7
    <3> HIDE DEF n, m
    <3> QED BY <1>6, <3>1, Zenon
  <2>2. written[n + 1] \in Body /\ rest[n + 1] \in Bytes
    <3>1. n + 1 \in 1 .. m /\ n + 1 \in n .. m BY <1>2, <1>7
    <3> QED BY <1>5, <3>1, StreamTypes
  <2>3. CASE z = <<>>
    <3> DEFINE body == written[n + 1]  r == rest[n + 1]
    <3>1. buf \o <<>> = t
      BY <1>4, <1>6, <2>3, JoinedNothing
    <3>2. Framed(buf, <<>>, body, r)
      <4>1. <<>> \in Bytes BY DEF Bytes
      <4> QED BY <1>2, <2>1, <2>2, <3>1, <4>1 DEF Framed
    <3> HIDE DEF body, r
    <3>3. Decode(buf) = "ok"
      BY <3>2, WholeFrameDecodes
    <3> QED BY <1>1, <3>3
  <2>4. CASE z # <<>>
    <3>1. Noisy(buf, wire, z, t)
      BY <1>6, <2>4, StreamTypes DEF Noisy
    <3>2. Len(buf) >= OuterLen
      <4> DEFINE e == Encoded(written[n + 1])  r == rest[n + 1]
      <4>1. e \in Bytes /\ Len(e) >= OuterLen
        BY <2>2, EncodedBytes, Widths, SMTT(20)
      <4> HIDE DEF e, r
      <4>2. t = e \o r /\ r \in Bytes
        BY <2>1, <2>2 DEF e, r
      <4>3. Len(t) >= OuterLen /\ Len(t) \in Nat
        BY <4>1, <4>2, Widths, Joined
      <4>4. z \in Bytes
        BY DEF Junk
      <4>5. Len(z \o t) = Len(z) + Len(t) /\ Len(z) \in Nat
        BY <4>4, Joined
      <4>6. buf = z \o t
        BY <1>2, <1>4, <1>6, JoinedNothing
      <4> QED BY <4>3, <4>5, <4>6, Widths
    <3>3. HasMagic(buf, 1) => buf[OuterLen] \notin SubHdrLen .. MaxBodyLen
      BY <3>1, <3>2, NoiseIsNoFrame
    <3>4. ~ (Len(buf) < OuterLen)
      BY <1>2, <3>2, Widths
    <3> QED BY <1>1, <3>3, <3>4 DEF Decode
  <2> QED BY <2>3, <2>4
<1> QED BY <1>2, <1>4, <1>7

-----------------------------------------------------------------------------
(* The client                                                              *)

\* The bodies the concentrator numbered.
Bodies == {sent[i] : i \in 1 .. Len(sent)}

\* They are numbered in order, in less than half the space, and a payload
\* carries one byte.
SentInv ==
  /\ mode \in Mode
  /\ sent \in Seq(Body) /\ Len(sent) <= Bound[mode].sent
  /\ \A i \in 1 .. Len(sent) :
        /\ NumberOf(sent[i]) = Plus(FirstSeq, i - 1)
        /\ KindOf(sent[i]) \in {Other, Disconnect, Payload}
        /\ Len(sent[i]) = IF KindOf(sent[i]) = Payload THEN 3 ELSE 2

\* What is on its way, on either leg, was numbered.
AirInv ==
  /\ \A i \in 1 .. Len(written) : written[i] \in Bodies
  /\ \A d \in air : \E b \in Bodies : d = Encoded(b)

\* And so was what waits in Frames.
ChannelInv ==
  frames \in Seq(Body) /\ \A i \in 1 .. Len(frames) : frames[i] \in Bodies

\* CountFlowData has one byte for each number it saw, of a payload.
CountInv ==
  /\ IsFiniteSet(seen) /\ total = Cardinality(seen)
  /\ \A s \in seen : \E b \in Bodies : NumberOf(b) = s /\ KindOf(b) = Payload

\* CollectFlowData holds under each number the data of the frame that has it.
HeldInv ==
  /\ held # <<>> => DOMAIN held # {}
  /\ \A s \in DOMAIN held :
        \E b \in Bodies : NumberOf(b) = s /\ KindOf(b) # Other /\ held[s] = DataOf(b)

IInv == StreamInv /\ SentInv /\ AirInv /\ ChannelInv /\ CountInv /\ HeldInv

LEMMA InitIInv == Init => IInv
<1> SUFFICES ASSUME Init PROVE IInv
  OBVIOUS
<1> USE DEF Init
<1>1. StreamInv
  BY StreamInit1
<1>2. <<>> \in Seq(Body) /\ Len(<<>>) = 0 /\ DOMAIN <<>> = {} /\ 1 .. 0 = {}
  BY EmptySeq, LenProperties
<1>3. SentInv
  <2>1. Bound[mode].sent \in 0 .. Half - 1
    BY ClientAssumption
  <2> QED BY <1>2, <2>1, HalfAssumption DEF SentInv
<1>4. AirInv
  BY <1>2 DEF AirInv, StreamInit
<1>5. ChannelInv
  BY <1>2 DEF ChannelInv
<1>6. CountInv
  BY FS_EmptySet DEF CountInv
<1>7. HeldInv
  BY <1>2 DEF HeldInv
<1> QED BY <1>1, <1>3, <1>4, <1>5, <1>6, <1>7 DEF IInv

\* What the caller has stays right while more is sent.
LEMMA CallAside ==
  ASSUME IInv, Bodies \subseteq Bodies', UNCHANGED <<seen, total, held>>
  PROVE  CountInv' /\ HeldInv'
<1>1. CountInv /\ HeldInv
  BY DEF IInv
<1>2. CountInv'
  <2>1. \A s \in seen' : \E b \in Bodies' : NumberOf(b) = s /\ KindOf(b) = Payload
    BY <1>1 DEF CountInv
  <2> QED BY <1>1, <2>1 DEF CountInv
<1>3. HeldInv'
  <2>1. \A s \in DOMAIN held' :
           \E b \in Bodies' : NumberOf(b) = s /\ KindOf(b) # Other /\ held'[s] = DataOf(b)
    BY <1>1 DEF HeldInv
  <2> QED BY <1>1, <2>1 DEF HeldInv
<1> QED BY <1>2, <1>3

\* Transmit: the frame is the next on the TCP leg, or a datagram.
LEMMA TransmitKeeps ==
  ASSUME IInv, NEW body \in Body, Transmit(body), Bodies \subseteq Bodies', body \in Bodies'
  PROVE  StreamInv' /\ AirInv'
<1>1. StreamInv /\ AirInv
  BY DEF IInv
<1>2. CASE WriteFrame(body) /\ UNCHANGED air
  <2>1. StreamInv'
    BY <1>1, <1>2, WriteFrameKeeps
  <2>2. written' = Append(written, body)
    BY <1>2 DEF WriteFrame
  <2>3. /\ Len(written') = Len(written) + 1
        /\ \A i \in 1 .. Len(written) : written'[i] = written[i]
        /\ written'[Len(written) + 1] = body
        /\ Len(written) \in Nat
    BY <1>1, <2>2, StreamTypes, AppendProperties
  <2>4. ASSUME NEW i \in 1 .. Len(written') PROVE written'[i] \in Bodies'
    <3>1. i \in 1 .. Len(written) \/ i = Len(written) + 1
      BY <2>3
    <3> QED BY <1>1, <2>3, <3>1 DEF AirInv
  <2>5. \A d \in air' : \E b \in Bodies' : d = Encoded(b)
    BY <1>1, <1>2 DEF AirInv
  <2> QED BY <2>1, <2>4, <2>5 DEF AirInv
<1>3. CASE air' = air \cup {Encoded(body)} /\ UNCHANGED stream
  <2>1. UNCHANGED <<buf, wire, written, returned, bursts>>
    BY <1>3 DEF stream
  <2>2. StreamInv'
    BY <1>1, <2>1 DEF StreamInv, Layout
  <2>3. \A i \in 1 .. Len(written') : written'[i] \in Bodies'
    BY <1>1, <2>1 DEF AirInv
  <2>4. \A d \in air' : \E b \in Bodies' : d = Encoded(b)
    BY <1>1, <1>3 DEF AirInv
  <2> QED BY <2>2, <2>3, <2>4 DEF AirInv
<1> QED BY <1>2, <1>3 DEF Transmit

\* What waits in Frames was numbered, also after more was.
LEMMA ChannelAside ==
  ASSUME IInv, Bodies \subseteq Bodies', UNCHANGED frames
  PROVE  ChannelInv'
BY DEF IInv, ChannelInv

LEMMA SendNextKeeps ==
  ASSUME IInv, NEW kind \in {Other, Disconnect, Payload}, SendNext(kind)
  PROVE  IInv'
<1> DEFINE n == Len(sent)
           data == IF kind = Payload THEN <<n + 1>> ELSE <<>>
           head == <<Plus(FirstSeq, n), kind>>
           body == head \o data
<1>1. /\ n < Bound[mode].sent /\ sent' = Append(sent, body) /\ Transmit(body)
      /\ UNCHANGED <<frames, mode, held, seen, total, closed, outcome>>
  BY DEF SendNext, call
<1>2. /\ mode \in Mode /\ sent \in Seq(Body) /\ n \in Nat
      /\ Bound[mode].sent \in 0 .. Half - 1
  BY ClientAssumption DEF IInv, SentInv
<1>3. Plus(FirstSeq, n) \in Nat /\ kind \in Nat
  <2>1. n \in SeqNum /\ FirstSeq \in SeqNum
    BY <1>1, <1>2, HalfAssumption, ClientAssumption DEF SeqNum, Space
  <2> QED BY <2>1, HalfAssumption DEF Plus, SeqNum, Space, Other, Disconnect, Payload
<1>4. /\ head \in Bytes /\ Len(head) = 2 /\ head[1] = Plus(FirstSeq, n) /\ head[2] = kind
  BY <1>3 DEF Bytes
<1>5. data \in Bytes /\ Len(data) = IF kind = Payload THEN 1 ELSE 0
  BY <1>2 DEF Bytes
<1> HIDE DEF head, data
<1>6. /\ body \in Bytes /\ Len(body) = IF kind = Payload THEN 3 ELSE 2
      /\ NumberOf(body) = Plus(FirstSeq, n) /\ KindOf(body) = kind
  <2>1. /\ body \in Bytes /\ Len(body) = Len(head) + Len(data)
        /\ \A j \in 1 .. Len(head) : body[j] = head[j]
    BY <1>4, <1>5, Joined
  <2> QED BY <1>4, <1>5, <2>1 DEF NumberOf, KindOf
<1> HIDE DEF body
<1>7. body \in Body
  <2>1. Len(body) \in {2, 3} BY <1>6
  <2>2. Len(body) \in SubHdrLen .. MaxBodyLen
    <3>1. SubHdrLen = 2 /\ MaxBodyLen \in Nat /\ MaxBodyLen >= 3
      BY Widths
    <3>2. ASSUME NEW l \in {2, 3} PROVE l \in SubHdrLen .. MaxBodyLen
      BY <3>1
    <3> QED BY <2>1, <3>2
  <2> QED BY <1>6, <2>2 DEF Body
<1>8. /\ sent' \in Seq(Body) /\ Len(sent') = n + 1
      /\ \A i \in 1 .. n : sent'[i] = sent[i]
      /\ sent'[n + 1] = body
  BY <1>1, <1>2, <1>7, AppendProperties
<1>9. Bodies \subseteq Bodies' /\ body \in Bodies'
  <2>1. \A i \in 1 .. n : i \in 1 .. n + 1 BY <1>2
  <2>2. n + 1 \in 1 .. n + 1 BY <1>2
  <2> QED BY <1>8, <2>1, <2>2 DEF Bodies
<1>10. SentInv'
  <2>1. Len(sent') <= Bound[mode'].sent /\ mode' \in Mode
    BY <1>1, <1>2, <1>8
  <2>2. ASSUME NEW i \in 1 .. Len(sent')
        PROVE  /\ NumberOf(sent'[i]) = Plus(FirstSeq, i - 1)
               /\ KindOf(sent'[i]) \in {Other, Disconnect, Payload}
               /\ Len(sent'[i]) = IF KindOf(sent'[i]) = Payload THEN 3 ELSE 2
    <3>1. CASE i = n + 1
      <4>1. i - 1 = n /\ sent'[i] = body BY <1>2, <1>8, <3>1
      <4> QED BY <1>6, <4>1
    <3>2. CASE i # n + 1
      <4>1. i \in 1 .. n BY <1>2, <1>8, <3>2
      <4>2. sent'[i] = sent[i] BY <1>8, <4>1
      <4> QED BY <4>1, <4>2 DEF IInv, SentInv
    <3> QED BY <3>1, <3>2
  <2> QED BY <1>8, <2>1, <2>2 DEF SentInv
<1>11. StreamInv' /\ AirInv'
  BY <1>1, <1>7, <1>9, TransmitKeeps
<1>12. ChannelInv' /\ CountInv' /\ HeldInv'
  BY <1>1, <1>9, ChannelAside, CallAside
<1> QED BY <1>10, <1>11, <1>12 DEF IInv

\* A step that numbers nothing leaves the numbered bodies alone.
LEMMA SentAside ==
  ASSUME IInv, UNCHANGED <<sent, mode>>
  PROVE  SentInv' /\ Bodies' = Bodies
BY DEF IInv, SentInv, Bodies

LEMMA SendAgainKeeps ==
  ASSUME IInv, SendAgain
  PROVE  IInv'
<1>1. /\ UNCHANGED <<sent, frames, mode, held, seen, total, closed, outcome>>
  BY DEF SendAgain, call
<1>2. PICK i \in DOMAIN sent : Transmit(sent[i])
  BY DEF SendAgain
<1>3. SentInv' /\ Bodies' = Bodies
  BY <1>1, SentAside
<1>4. sent[i] \in Body /\ sent[i] \in Bodies
  <2>1. sent \in Seq(Body) BY DEF IInv, SentInv
  <2>2. i \in 1 .. Len(sent) BY <2>1, LenProperties
  <2> QED BY <2>1, <2>2, ElementOfSeq DEF Bodies
<1>5. StreamInv' /\ AirInv'
  BY <1>2, <1>3, <1>4, TransmitKeeps
<1>6. ChannelInv' /\ CountInv' /\ HeldInv'
  BY <1>1, <1>3, ChannelAside, CallAside
<1> QED BY <1>3, <1>5, <1>6 DEF IInv

\* The parts that a step of the legs or of the call leaves alone.
LEMMA AirAside ==
  ASSUME IInv, Bodies' = Bodies, UNCHANGED <<written, air>>
  PROVE  AirInv'
BY DEF IInv, AirInv

LEMMA StreamAside ==
  ASSUME IInv, UNCHANGED stream
  PROVE  StreamInv'
BY StreamMoves DEF IInv, StreamInv, stream

\* Deliver: the frame joins those that wait, or is dropped.
LEMMA DeliverKeeps ==
  ASSUME IInv, NEW body \in Bodies, Deliver(body), Bodies' = Bodies
  PROVE  ChannelInv'
<1>1. frames \in Seq(Body) /\ \A i \in 1 .. Len(frames) : frames[i] \in Bodies
  BY DEF IInv, ChannelInv
<1>2. body \in Body
  <2>1. sent \in Seq(Body) BY DEF IInv, SentInv
  <2>2. PICK i \in 1 .. Len(sent) : body = sent[i] BY DEF Bodies
  <2> QED BY <2>1, <2>2, ElementOfSeq
<1>3. CASE frames' = Append(frames, body)
  <2>1. /\ frames' \in Seq(Body) /\ Len(frames') = Len(frames) + 1
        /\ \A i \in 1 .. Len(frames) : frames'[i] = frames[i]
        /\ frames'[Len(frames) + 1] = body /\ Len(frames) \in Nat
    BY <1>1, <1>2, <1>3, AppendProperties
  <2>2. ASSUME NEW i \in 1 .. Len(frames') PROVE frames'[i] \in Bodies'
    <3>1. i \in 1 .. Len(frames) \/ i = Len(frames) + 1 BY <2>1
    <3> QED BY <1>1, <2>1, <3>1
  <2> QED BY <2>1, <2>2 DEF ChannelInv
<1>4. CASE frames' = frames
  BY <1>1, <1>4 DEF ChannelInv
<1> QED BY <1>3, <1>4 DEF Deliver

\* The goroutine of the TCP leg: readStream, the buffer below it, the search
\* for a magic; and noise, the end of the stream and the deadline.
LEMMA LegKeeps ==
  ASSUME IInv, ReadStream \/ FillBuffer \/ FindHeader \/ StreamEnds \/ Disturb \/ Deadline
  PROVE  IInv'
<1>1. UNCHANGED <<sent, mode, seen, total, held, air>>
  BY DEF ReadStream, FillBuffer, FindHeader, StreamEnds, Disturb, Deadline, call
<1>2. SentInv' /\ Bodies' = Bodies
  BY <1>1, SentAside
<1>3. CountInv' /\ HeldInv'
  BY <1>1, <1>2, CallAside
<1>4. StreamInv /\ AirInv
  BY DEF IInv
<1>5. CASE ReadStream
  <2>1. NextReturns /\ Deliver(BodyOf(buf))
    BY <1>5 DEF ReadStream
  <2>2. /\ StreamInv' /\ Len(returned) < Len(written)
        /\ BodyOf(buf) = written[Len(returned) + 1]
    BY <1>4, <2>1, NextReturnsNext
  <2>3. BodyOf(buf) \in Bodies
    <3>1. Len(returned) + 1 \in 1 .. Len(written) BY <1>4, <2>2, StreamTypes
    <3> QED BY <1>4, <2>2, <3>1 DEF AirInv
  <2>4. ChannelInv'
    BY <1>2, <2>1, <2>3, DeliverKeeps
  <2>5. AirInv'
    <3>1. UNCHANGED written BY <2>1 DEF NextReturns
    <3> QED BY <1>1, <1>2, <3>1, AirAside
  <2> QED BY <1>2, <1>3, <2>2, <2>4, <2>5 DEF IInv
<1>6. CASE FillBuffer \/ FindHeader \/ StreamEnds \/ Disturb \/ Deadline
  <2>1. UNCHANGED <<frames, written>>
    BY <1>6 DEF FillBuffer, Fill, FindHeader, Resync, StreamEnds, FillFails,
                Disturb, HangUp, WriteNoise, Deadline, stream
  <2>2. ChannelInv' /\ AirInv'
    BY <1>1, <1>2, <2>1, ChannelAside, AirAside
  <2>3. StreamInv'
    <3>1. CASE FillBuffer BY <1>4, <3>1, FillKeeps DEF FillBuffer
    <3>2. CASE FindHeader BY <1>4, <3>2, ResyncKeeps DEF FindHeader
    <3>3. CASE StreamEnds
      <4>1. UNCHANGED <<buf, wire, written, returned, bursts>>
        BY <3>3 DEF StreamEnds, FillFails
      <4> QED BY <1>4, <4>1, StreamMoves DEF StreamInv
    <3>4. CASE HangUp
      <4>1. UNCHANGED <<buf, wire, written, returned, bursts>>
        BY <3>4 DEF HangUp
      <4> QED BY <1>4, <4>1, StreamMoves DEF StreamInv
    <3>5. CASE \E z \in Noise : WriteNoise(z)
      BY <1>4, <3>5, WriteNoiseKeeps
    <3>6. CASE Deadline
      <4>1. UNCHANGED stream BY <3>6 DEF Deadline
      <4> QED BY <4>1, StreamAside
    <3> QED BY <1>6, <3>1, <3>2, <3>3, <3>4, <3>5, <3>6 DEF Disturb
  <2> QED BY <1>2, <1>3, <2>2, <2>3 DEF IInv
<1> QED BY <1>5, <1>6

\* readDatagrams: a datagram is one frame.
LEMMA ReadDatagramKeeps ==
  ASSUME IInv, NEW d \in air, ReadDatagram(d)
  PROVE  IInv'
<1>1. /\ Decode(d) = "ok" /\ Deliver(BodyOf(d))
      /\ UNCHANGED <<sent, mode, seen, total, held, air>> /\ UNCHANGED stream
  BY DEF ReadDatagram, call
<1>2. SentInv' /\ Bodies' = Bodies
  BY <1>1, SentAside
<1>3. PICK b \in Bodies : d = Encoded(b)
  BY DEF IInv, AirInv
<1>4. b \in Body
  <2>1. sent \in Seq(Body) BY DEF IInv, SentInv
  <2>2. PICK i \in 1 .. Len(sent) : b = sent[i] BY DEF Bodies
  <2> QED BY <2>1, <2>2, ElementOfSeq
<1>5. BodyOf(d) = b
  <2>1. d \in Bytes /\ <<>> \in Bytes
    BY <1>3, <1>4, EncodedBytes, EmptySeq DEF Bytes
  <2>2. Framed(d, <<>>, b, <<>>)
    BY <1>3, <1>4, <2>1 DEF Framed
  <2> QED BY <1>1, <2>2, FrameDecodes
<1>6. ChannelInv'
  BY <1>1, <1>2, <1>5, DeliverKeeps
<1>7. AirInv' /\ StreamInv'
  <2>1. UNCHANGED written BY <1>1 DEF stream
  <2> QED BY <1>1, <1>2, <2>1, AirAside, StreamAside
<1>8. CountInv' /\ HeldInv'
  BY <1>1, <1>2, CallAside
<1> QED BY <1>2, <1>6, <1>7, <1>8 DEF IInv

\* The call takes the oldest frame out of the channel.
LEMMA ReceiveKeeps ==
  ASSUME IInv, NEW b, Receive(b), UNCHANGED sent
  PROVE  /\ b \in Bodies /\ b \in Body
         /\ StreamInv' /\ SentInv' /\ AirInv' /\ ChannelInv' /\ Bodies' = Bodies
<1>1. /\ frames # <<>> /\ b = Head(frames) /\ frames' = Tail(frames)
      /\ UNCHANGED <<stream, sent, air, mode>>
  BY DEF Receive
<1>2. frames \in Seq(Body) /\ \A i \in 1 .. Len(frames) : frames[i] \in Bodies
  BY DEF IInv, ChannelInv
<1>3. Len(frames) \in Nat \ {0}
  BY <1>1, <1>2, EmptySeq
<1>4. b = frames[1] /\ b \in Body
  BY <1>1, <1>2, HeadTailProperties
<1>5. SentInv' /\ Bodies' = Bodies
  BY <1>1, SentAside
<1>6. /\ frames' \in Seq(Body) /\ Len(frames') = Len(frames) - 1
      /\ \A i \in 1 .. Len(frames') : frames'[i] = frames[i + 1]
  BY <1>1, <1>2, HeadTailProperties
<1>7. ChannelInv'
  <2>1. \A i \in 1 .. Len(frames') : i + 1 \in 1 .. Len(frames)
    BY <1>3, <1>6
  <2> QED BY <1>2, <1>5, <1>6, <2>1 DEF ChannelInv
<1>8. b \in Bodies
  <2>1. 1 \in 1 .. Len(frames) BY <1>3
  <2> QED BY <1>2, <1>4, <2>1
<1>9. AirInv' /\ StreamInv'
  <2>1. UNCHANGED written BY <1>1 DEF stream
  <2> QED BY <1>1, <1>5, <2>1, AirAside, StreamAside
<1> QED BY <1>4, <1>5, <1>7, <1>8, <1>9

\* The data of a frame: one byte of a payload, or nothing.
LEMMA DataLength ==
  ASSUME IInv, NEW b \in Bodies
  PROVE  /\ KindOf(b) = Payload => Len(DataOf(b)) = 1
         /\ KindOf(b) # Payload => DataOf(b) = <<>>
<1>1. PICK i \in 1 .. Len(sent) : b = sent[i]
  BY DEF Bodies
<1>2. b \in Bytes /\ Len(b) = IF KindOf(b) = Payload THEN 3 ELSE 2
  <2>1. sent \in Seq(Body) BY DEF IInv, SentInv
  <2>2. b \in Body BY <1>1, <2>1, ElementOfSeq
  <2> QED BY <1>1, <2>2 DEF IInv, SentInv, Body
<1>3. CASE KindOf(b) = Payload
  <2>1. Len(b) = 3 /\ b[3] \in Nat
    <3>1. Len(b) = 3 /\ 3 \in 1 .. 3 /\ b \in Seq(Nat) BY <1>2, <1>3 DEF Bytes
    <3>2. \A k \in 1 .. Len(b) : b[k] \in Nat BY <3>1, ElementOfSeq
    <3> QED BY <3>1, <3>2
  <2>2. DataOf(b) = SubSeq(b, 3, 3)
    BY <2>1 DEF DataOf
  <2>3. \A k \in 3 .. 3 : b[k] \in Nat
    BY <2>1
  <2>4. Len(SubSeq(b, 3, 3)) = 1
    BY <2>3, SubSeqProperties
  <2> QED BY <1>3, <2>2, <2>4
<1>4. CASE KindOf(b) # Payload
  <2>1. Len(b) = 2 BY <1>2, <1>4
  <2>2. DataOf(b) = SubSeq(b, 3, 2) BY <2>1 DEF DataOf
  <2>3. SubSeq(b, 3, 2) = <<>> BY SubSeqEmpty
  <2> QED BY <1>4, <2>2, <2>3
<1> QED BY <1>3, <1>4

\* CountFlowData: a number counts once.
LEMMA CountFlowDataKeeps ==
  ASSUME IInv, NEW b, CountFlowData(b), UNCHANGED sent
  PROVE  IInv'
<1>1. Receive(b) /\ UNCHANGED held
  BY DEF CountFlowData
<1>2. /\ b \in Bodies /\ b \in Body /\ Bodies' = Bodies
      /\ StreamInv' /\ SentInv' /\ AirInv' /\ ChannelInv'
  BY <1>1, ReceiveKeeps
<1>3. HeldInv'
  BY <1>1, <1>2 DEF IInv, HeldInv
<1>4. CountInv
  BY DEF IInv
<1>5. CASE KindOf(b) = Payload /\ Counted(b)
  <2>1. /\ seen' = seen \cup {NumberOf(b)}
        /\ total' = total + (IF NumberOf(b) \in seen THEN 0 ELSE 1)
    BY <1>2, <1>5, DataLength DEF Counted
  <2>2. /\ IsFiniteSet(seen') /\ Cardinality(seen) \in Nat
        /\ Cardinality(seen') =
              IF NumberOf(b) \in seen THEN Cardinality(seen) ELSE Cardinality(seen) + 1
    BY <1>4, <2>1, FS_AddElement, FS_CardinalityType DEF CountInv
  <2>3. total' = Cardinality(seen')
    BY <1>4, <2>1, <2>2 DEF CountInv
  <2>4. \A s \in seen' : \E c \in Bodies' : NumberOf(c) = s /\ KindOf(c) = Payload
    BY <1>2, <1>4, <1>5, <2>1 DEF CountInv
  <2>5. CountInv'
    BY <2>2, <2>3, <2>4 DEF CountInv
  <2> QED BY <1>2, <1>3, <2>5 DEF IInv
<1>6. CASE UNCHANGED <<seen, total>>
  <2>1. CountInv' BY <1>2, <1>4, <1>6 DEF CountInv
  <2> QED BY <1>2, <1>3, <2>1 DEF IInv
<1> QED BY <1>5, <1>6 DEF CountFlowData

\* CollectFlowData: what is held under a number is the data of its frame.
LEMMA CollectFlowDataKeeps ==
  ASSUME IInv, NEW b, CollectFlowData(b), UNCHANGED sent
  PROVE  IInv'
<1>1. Receive(b) /\ UNCHANGED <<seen, total>>
  BY DEF CollectFlowData
<1>2. /\ b \in Bodies /\ b \in Body /\ Bodies' = Bodies
      /\ StreamInv' /\ SentInv' /\ AirInv' /\ ChannelInv'
  BY <1>1, ReceiveKeeps
<1>3. CountInv'
  BY <1>1, <1>2 DEF IInv, CountInv
<1>4. HeldInv
  BY DEF IInv
<1>5. CASE KindOf(b) # Other
  <2>1. held' = [s \in DOMAIN held \cup {NumberOf(b)} |->
                   IF s = NumberOf(b) THEN DataOf(b) ELSE held[s]]
    BY <1>5 DEF CollectFlowData
  <2>2. DOMAIN held' = DOMAIN held \cup {NumberOf(b)}
    BY <2>1
  <2>3. ASSUME NEW s \in DOMAIN held'
        PROVE  \E c \in Bodies' : NumberOf(c) = s /\ KindOf(c) # Other /\ held'[s] = DataOf(c)
    <3>1. CASE s = NumberOf(b)
      <4>1. held'[s] = DataOf(b) BY <2>1, <2>2, <3>1
      <4> QED BY <1>2, <1>5, <3>1, <4>1
    <3>2. CASE s # NumberOf(b)
      <4>1. s \in DOMAIN held /\ held'[s] = held[s] BY <2>1, <2>2, <3>2
      <4> QED BY <1>2, <1>4, <4>1 DEF HeldInv
    <3> QED BY <3>1, <3>2
  <2>4. HeldInv'
    BY <2>2, <2>3 DEF HeldInv
  <2> QED BY <1>2, <1>3, <2>4 DEF IInv
<1>6. CASE KindOf(b) = Other
  <2>1. UNCHANGED held BY <1>6 DEF CollectFlowData
  <2>2. HeldInv' BY <1>2, <1>4, <2>1 DEF HeldInv
  <2> QED BY <1>2, <1>3, <2>2 DEF IInv
<1> QED BY <1>5, <1>6

LEMMA NextKeeps == IInv /\ [Next]_vars => IInv'
<1> SUFFICES ASSUME IInv, [Next]_vars
             PROVE  IInv'
  OBVIOUS
<1>1. ASSUME NEW kind \in {Other, Disconnect, Payload}, SendNext(kind) PROVE IInv'
  BY <1>1, SendNextKeeps
<1>2. CASE SendAgain
  BY <1>2, SendAgainKeeps
<1>3. CASE Disturb \/ ReadStream \/ FillBuffer \/ FindHeader \/ StreamEnds \/ Deadline
  BY <1>3, LegKeeps
<1>4. ASSUME NEW d \in air, ReadDatagram(d) PROVE IInv'
  BY <1>4, ReadDatagramKeeps
<1>5. ASSUME NEW b, CountFlowData(b) \/ CollectFlowData(b) PROVE IInv'
  <2>1. UNCHANGED sent
    BY <1>5 DEF CountFlowData, CollectFlowData, Receive
  <2> QED BY <1>5, <2>1, CountFlowDataKeeps, CollectFlowDataKeeps
<1>6. CASE UNCHANGED vars
  <2>1. UNCHANGED <<buf, wire, written, returned, bursts, sent, air, frames,
                    mode, held, seen, total>>
    BY <1>6 DEF vars, stream, call
  <2>2. Bodies' = Bodies
    BY <2>1 DEF Bodies
  <2> QED
    BY <2>1, <2>2 DEF IInv, StreamInv, Layout, SentInv, AirInv, ChannelInv, CountInv, HeldInv
<1> QED
  BY <1>1, <1>2, <1>3, <1>4, <1>5, <1>6 DEF Next

\* Every state of the client satisfies the invariant: what is read was sent,
\* what waits or was taken was numbered, and each number counts once.
THEOREM Safety == Spec => []IInv
<1> QED BY InitIInv, NextKeeps, PTL DEF Spec

\* A reader that returned an error has nothing left to read, and nothing more
\* is sent.
EndInv == ~ reading => ~ open /\ Len(returned) = Len(written)

LEMMA EndKeeps ==
  ASSUME IInv, EndInv, [Next]_vars
  PROVE  EndInv'
<1>1. CASE UNCHANGED stream
  BY <1>1 DEF EndInv, stream
<1>2. ASSUME NEW body, WriteFrame(body) PROVE EndInv'
  BY <1>2 DEF EndInv, WriteFrame
<1>3. CASE Disturb
  BY <1>3 DEF EndInv, Disturb, HangUp, WriteNoise
<1>4. CASE NextReturns \/ Fill \/ Resync
  BY <1>4 DEF EndInv, NextReturns, Fill, Resync
<1>5. CASE FillFails
  <2>1. ~ open /\ Len(returned) = Len(written)
    BY <1>5, FillFailsAtEnd DEF IInv
  <2>2. UNCHANGED <<open, written, returned>>
    BY <1>5 DEF FillFails
  <2> QED BY <2>1, <2>2 DEF EndInv
<1>6. \A body : Transmit(body) => UNCHANGED stream \/ WriteFrame(body)
  BY DEF Transmit
<1> QED
  BY <1>1, <1>2, <1>3, <1>4, <1>5, <1>6
     DEF Next, vars, SendNext, SendAgain, ReadStream, FillBuffer, FindHeader, StreamEnds,
         ReadDatagram, CountFlowData, CollectFlowData, Receive, Deadline

\* However TCP cuts the stream and whatever noise stands in it, Next returns
\* the frames sent, in order, and gives up only when it returned all of them
\* (Next, fill, resync and Decode of frame.go).
THEOREM FramesAreRead == Spec => []ReadsWhatWasSent
<1>1. IInv /\ EndInv => ReadsWhatWasSent
  <2> SUFFICES ASSUME IInv, EndInv PROVE ReadsWhatWasSent
    OBVIOUS
  <2>1. StreamInv BY DEF IInv
  <2>2. /\ returned \in Seq(Body) /\ written \in Seq(Body)
        /\ Len(returned) \in Nat /\ Len(written) \in Nat
        /\ Len(returned) <= Len(written)
        /\ \A i \in 1 .. Len(returned) : returned[i] = written[i]
    BY <2>1, StreamTypes DEF StreamInv
  <2>3. \A i \in 1 .. Len(returned) : written[i] \in Body
    BY <2>2, ElementOfSeq
  <2>4. /\ SubSeq(written, 1, Len(returned)) \in Seq(Body)
        /\ Len(SubSeq(written, 1, Len(returned))) = Len(returned)
        /\ \A i \in 1 .. Len(returned) : SubSeq(written, 1, Len(returned))[i] = written[i]
    BY <2>2, <2>3, SubSeqProperties
  <2>5. returned = SubSeq(written, 1, Len(returned))
    BY <2>2, <2>4, SeqEqual
  <2>6. SubSeq(returned, 1, Len(returned)) = returned
    BY <2>2, SubSeqFull
  <2> QED BY <2>2, <2>5, <2>6 DEF ReadsWhatWasSent, IsPrefix, EndInv
<1>2. Init => EndInv
  BY DEF Init, StreamInit, EndInv
<1>3. IInv /\ EndInv /\ [Next]_vars => EndInv'
  BY EndKeeps
<1> QED BY InitIInv, NextKeeps, <1>1, <1>2, <1>3, PTL DEF Spec

-----------------------------------------------------------------------------
(* What the caller gets                                                    *)

\* Fewer numbers than half the space, in a row: which is which is not in doubt,
\* also across the wrap (Plus and Diff).
LEMMA NumbersInARow ==
  ASSUME NEW p \in 0 .. Half - 1, NEW q \in 0 .. Half - 1
  PROVE  /\ Plus(FirstSeq, p) \in SeqNum
         /\ Diff(Plus(FirstSeq, p), Plus(FirstSeq, q)) = p - q
         /\ Plus(FirstSeq, p) = Plus(FirstSeq, q) => p = q
         /\ p <= q => Plus(Plus(FirstSeq, p), q - p) = Plus(FirstSeq, q)
<1>1. FirstSeq \in 0 .. 2 * Half - 1 /\ Half \in Nat \ {0}
  BY HalfAssumption, ClientAssumption DEF SeqNum, Space
<1> QED BY <1>1 DEF Plus, Diff, SeqNum, Space

\* The number of a frame is its place.
LEMMA FrameOfNumber ==
  ASSUME IInv
  PROVE  /\ Len(sent) \in Nat /\ DOMAIN sent = 1 .. Len(sent) /\ Len(sent) < Half
         /\ \A i \in 1 .. Len(sent) :
               /\ NumberOf(sent[i]) = Plus(FirstSeq, i - 1)
               /\ sent[i] \in Bodies
               /\ i - 1 \in 0 .. Half - 1
         /\ \A i, k \in 1 .. Len(sent) :
               NumberOf(sent[i]) = NumberOf(sent[k]) => i = k
<1>1. /\ sent \in Seq(Body) /\ mode \in Mode /\ Len(sent) <= Bound[mode].sent
      /\ \A i \in 1 .. Len(sent) : NumberOf(sent[i]) = Plus(FirstSeq, i - 1)
  BY DEF IInv, SentInv
<1>2. Bound[mode].sent \in 0 .. Half - 1
  BY <1>1, ClientAssumption
<1>3. Len(sent) \in Nat /\ DOMAIN sent = 1 .. Len(sent) /\ Len(sent) < Half
  BY <1>1, <1>2, HalfAssumption
<1>4. \A i \in 1 .. Len(sent) : i - 1 \in 0 .. Half - 1
  BY <1>3, HalfAssumption
<1>5. ASSUME NEW i \in 1 .. Len(sent), NEW k \in 1 .. Len(sent),
             NumberOf(sent[i]) = NumberOf(sent[k])
      PROVE  i = k
  <2>1. i - 1 = k - 1
    BY <1>1, <1>4, <1>5, NumbersInARow
  <2> QED BY <2>1
<1> QED BY <1>1, <1>3, <1>4, <1>5 DEF Bodies

\* The frames of some numbers.
Mine(S) == {i \in DOMAIN sent : NumberOf(sent[i]) \in S}

\* They are as many as the numbers.
LEMMA OneFramePerNumber ==
  ASSUME IInv, NEW S, \A s \in S : \E b \in Bodies : NumberOf(b) = s
  PROVE  /\ IsFiniteSet(Mine(S)) /\ Mine(S) \subseteq 1 .. Len(sent)
         /\ Cardinality(Mine(S)) = Cardinality(S)
<1> DEFINE f == [i \in Mine(S) |-> NumberOf(sent[i])]
<1>1. Mine(S) \subseteq 1 .. Len(sent) /\ IsFiniteSet(Mine(S))
  <2>1. Mine(S) \in SUBSET (1 .. Len(sent)) /\ Len(sent) \in Nat
    BY FrameOfNumber DEF Mine
  <2>2. IsFiniteSet(1 .. Len(sent))
    BY <2>1, FS_Interval
  <2> QED BY <2>1, <2>2, FS_Subset
<1>2. f \in [Mine(S) -> S]
  BY DEF Mine
<1>3. \A a, b \in Mine(S) : f[a] = f[b] => a = b
  BY <1>1, FrameOfNumber
<1>4. ASSUME NEW s \in S PROVE \E a \in Mine(S) : f[a] = s
  <2>1. PICK i \in 1 .. Len(sent) : NumberOf(sent[i]) = s
    BY DEF Bodies
  <2>2. i \in Mine(S)
    BY <2>1, FrameOfNumber DEF Mine
  <2> QED BY <2>1, <2>2
<1>5. f \in Bijection(Mine(S), S)
  <2> HIDE DEF f
  <2> QED BY <1>2, <1>3, <1>4, Fun_IsBij
<1>6. ExistsBijection(Mine(S), S)
  BY <1>5 DEF ExistsBijection
<1> QED BY <1>1, <1>6, FS_Bijection

\* CountFlowData reports the payload frames it saw, each once, whatever leg or
\* order they came in and however often they were sent again (its set of
\* numbers seen).
THEOREM FramesCountOnce == Spec => []CountedOnce
<1>1. IInv => CountedOnce
  <2> SUFFICES ASSUME IInv PROVE CountedOnce
    OBVIOUS
  <2>1. CountInv
    BY DEF IInv
  <2>2. /\ Cardinality(Mine(seen)) = Cardinality(seen)
        /\ Mine(seen) \subseteq 1 .. Len(sent)
    BY <2>1, OneFramePerNumber DEF CountInv
  <2>3. ASSUME NEW i \in Mine(seen) PROVE KindOf(sent[i]) = Payload
    <3>1. PICK b \in Bodies : NumberOf(b) = NumberOf(sent[i]) /\ KindOf(b) = Payload
      BY <2>1 DEF Mine, CountInv
    <3>2. PICK k \in 1 .. Len(sent) : b = sent[k]
      BY DEF Bodies
    <3>3. k = i
      BY <2>2, <3>1, <3>2, FrameOfNumber
    <3> QED BY <3>1, <3>2, <3>3
  <2> QED BY <2>1, <2>2, <2>3 DEF CountedOnce, CountInv, Mine
<1> QED BY <1>1, Safety, PTL

\* A set of numbers that is not empty and bounded has a greatest one.
LEMMA MaxIsGreatest ==
  ASSUME NEW S \in SUBSET Nat, S # {}, NEW n \in Nat, \A x \in S : x <= n
  PROVE  Max(S) \in S /\ \A x \in S : x <= Max(S)
<1> DEFINE T == {n - x : x \in S}
<1>1. T \in SUBSET Nat /\ T # {}
  <2>1. \A x \in S : n - x \in Nat
    OBVIOUS
  <2>2. PICK x \in S : TRUE
    OBVIOUS
  <2> QED BY <2>1, <2>2
<1>2. PICK m \in T : \A y \in T : m <= y
  <2> HIDE DEF T
  <2> QED BY <1>1, MinIsLeast
<1>3. PICK x \in S : m = n - x
  BY <1>2
<1>4. ASSUME NEW y \in S PROVE x >= y
  <2>1. n - y \in T OBVIOUS
  <2>2. n - x <= n - y BY <1>2, <1>3, <2>1
  <2>3. x \in Nat /\ y \in Nat OBVIOUS
  <2> QED BY <2>2, <2>3
<1>5. Max(S) \in S /\ \A y \in S : Max(S) >= y
  BY <1>3, <1>4 DEF Max
<1> QED BY <1>5

\* The frames from the lowest that is held to the last one before a hole
\* (assemble).
Piece(i, j) ==
  /\ i \in Mine(DOMAIN held) /\ j \in 1 .. Len(sent) /\ i <= j
  /\ \A k \in Mine(DOMAIN held) : i <= k
  /\ \A k \in i .. j : k \in Mine(DOMAIN held)
  /\ j + 1 \notin Mine(DOMAIN held)

\* A number that is held is the number of one of the frames.
LEMMA HeldNumbers ==
  ASSUME IInv
  PROVE  /\ \A s \in DOMAIN held : \E b \in Bodies : NumberOf(b) = s
         /\ \A s \in DOMAIN held : \E k \in Mine(DOMAIN held) : s = Plus(FirstSeq, k - 1)
         /\ \A k \in Mine(DOMAIN held) : Plus(FirstSeq, k - 1) \in DOMAIN held
         /\ \A k \in Mine(DOMAIN held) : k \in 1 .. Len(sent)
<1>1. \A s \in DOMAIN held : \E b \in Bodies : NumberOf(b) = s
  BY DEF IInv, HeldInv
<1>2. \A k \in Mine(DOMAIN held) : k \in 1 .. Len(sent)
  BY FrameOfNumber DEF Mine
<1>3. \A k \in Mine(DOMAIN held) : Plus(FirstSeq, k - 1) \in DOMAIN held
  BY <1>2, FrameOfNumber DEF Mine
<1>4. ASSUME NEW s \in DOMAIN held
      PROVE  \E k \in Mine(DOMAIN held) : s = Plus(FirstSeq, k - 1)
  <2>1. PICK k \in 1 .. Len(sent) : NumberOf(sent[k]) = s
    BY <1>1 DEF Bodies
  <2> QED BY <2>1, FrameOfNumber DEF Mine
<1> QED BY <1>1, <1>2, <1>3, <1>4

\* The lowest number held is that of the first frame that arrived.
LEMMA LowestIsFirst ==
  ASSUME IInv, NEW i, NEW j, Piece(i, j)
  PROVE  Lowest(DOMAIN held) = Plus(FirstSeq, i - 1)
<1> DEFINE D == DOMAIN held  first == Plus(FirstSeq, i - 1)
<1>1. i \in Mine(D) /\ i \in 1 .. Len(sent) /\ \A k \in Mine(D) : i <= k
  BY HeldNumbers DEF Piece
<1>2. \A k \in 1 .. Len(sent) : k - 1 \in 0 .. Half - 1
  BY FrameOfNumber
<1>3. first \in D
  BY <1>1, HeldNumbers
<1>4. ASSUME NEW s \in D PROVE Diff(s, first) >= 0
  <2>1. PICK k \in Mine(D) : s = Plus(FirstSeq, k - 1)
    BY HeldNumbers
  <2>2. k \in 1 .. Len(sent) /\ i <= k
    BY <1>1, HeldNumbers
  <2>3. Diff(s, first) = (k - 1) - (i - 1)
    BY <1>1, <1>2, <2>1, <2>2, NumbersInARow
  <2> QED BY <1>1, <2>2, <2>3
<1>5. ASSUME NEW s \in D, Diff(first, s) >= 0 PROVE s = first
  <2>1. PICK k \in Mine(D) : s = Plus(FirstSeq, k - 1)
    BY HeldNumbers
  <2>2. k \in 1 .. Len(sent) /\ i <= k
    BY <1>1, HeldNumbers
  <2>3. Diff(first, s) = (i - 1) - (k - 1)
    BY <1>1, <1>2, <2>1, <2>2, NumbersInARow
  <2>4. k = i
    BY <1>1, <1>5, <2>2, <2>3
  <2> QED BY <2>1, <2>4
<1> HIDE DEF D, first
<1>6. Lowest(D) \in D /\ \A s \in D : Diff(s, Lowest(D)) >= 0
  BY <1>3, <1>4 DEF Lowest
<1>7. Lowest(D) = first
  BY <1>3, <1>5, <1>6
<1> QED BY <1>7 DEF D, first

\* The numbers follow each other as far as the frames do.
LEMMA RunIsPiece ==
  ASSUME IInv, NEW i, NEW j, Piece(i, j)
  PROVE  Run(held) = j - i + 1
<1> DEFINE D == DOMAIN held  first == Plus(FirstSeq, i - 1)  l == j - i + 1
           R == {k \in 1 .. Cardinality(D) :
                    \A x \in 0 .. k - 1 : Plus(first, x) \in D}
<1>1. /\ i \in Mine(D) /\ i \in 1 .. Len(sent) /\ j \in 1 .. Len(sent) /\ i <= j
      /\ \A k \in i .. j : k \in Mine(D)
      /\ j + 1 \notin Mine(D)
      /\ Len(sent) \in Nat /\ Len(sent) < Half /\ Half \in Nat
  BY HeldNumbers, FrameOfNumber, HalfAssumption DEF Piece
<1>2. l \in Nat /\ l <= Cardinality(D) /\ Cardinality(D) \in Nat
  <2>1. /\ IsFiniteSet(Mine(D)) /\ Cardinality(Mine(D)) = Cardinality(D)
    BY HeldNumbers, OneFramePerNumber
  <2>2. i .. j \in SUBSET Mine(D)
    BY <1>1
  <2>3. Cardinality(i .. j) <= Cardinality(Mine(D))
    BY <2>1, <2>2, FS_Subset
  <2>4. Cardinality(i .. j) = l
    BY <1>1, FS_Interval
  <2>5. Cardinality(Mine(D)) \in Nat
    BY <2>1, FS_CardinalityType
  <2> HIDE DEF D
  <2> QED BY <1>1, <2>1, <2>3, <2>4, <2>5
<1>3. ASSUME NEW k \in 1 .. l PROVE k \in R
  <2>1. k \in 1 .. Cardinality(D)
    <3> HIDE DEF D, l
    <3> QED BY <1>2
  <2>2. ASSUME NEW x \in 0 .. k - 1 PROVE Plus(first, x) \in D
    <3>1. i + x \in i .. j /\ i + x \in 1 .. Len(sent)
      BY <1>1
    <3>2. i - 1 \in 0 .. Half - 1 /\ i + x - 1 \in 0 .. Half - 1
      BY <1>1, <3>1
    <3>3. Plus(first, (i + x - 1) - (i - 1)) = Plus(FirstSeq, i + x - 1)
      BY <1>1, <3>2, NumbersInARow
    <3>4. (i + x - 1) - (i - 1) = x
      BY <1>1
    <3>5. Plus(FirstSeq, i + x - 1) \in D
      BY <1>1, <3>1, HeldNumbers
    <3> QED BY <3>3, <3>4, <3>5
  <2> QED BY <2>1, <2>2
<1>4. ASSUME NEW k \in R, k > l PROVE FALSE
  <2>1. l \in 0 .. k - 1 /\ k \in Nat
    <3> HIDE DEF l
    <3>1. k \in 1 .. Cardinality(D) OBVIOUS
    <3> QED BY <1>2, <1>4, <3>1
  <2>2. Plus(first, l) \in D
    BY <2>1
  <2>3. i - 1 \in 0 .. Half - 1 /\ j \in 0 .. Half - 1 /\ j - (i - 1) = l /\ i - 1 <= j
    BY <1>1
  <2>4. Plus(first, l) = Plus(FirstSeq, j)
    <3> HIDE DEF l
    <3> QED BY <2>3, NumbersInARow
  <2>5. PICK m \in Mine(D) : Plus(FirstSeq, j) = Plus(FirstSeq, m - 1)
    BY <2>2, <2>4, HeldNumbers
  <2>6. m \in 1 .. Len(sent) /\ m - 1 \in 0 .. Half - 1
    BY HeldNumbers, FrameOfNumber
  <2>7. j = m - 1
    BY <2>3, <2>5, <2>6, NumbersInARow
  <2>8. m = j + 1
    BY <2>6, <2>7
  <2> QED BY <1>1, <2>8
<1>5. R = 1 .. l
  <2>1. \A k \in R : k \in 1 .. l
    <3> HIDE DEF l
    <3>1. \A k \in R : k \in 1 .. Cardinality(D) OBVIOUS
    <3> HIDE DEF R
    <3> QED BY <1>2, <1>4, <3>1
  <2> HIDE DEF R, l
  <2> QED BY <1>3, <2>1
<1>6. Cardinality(1 .. l) = l
  <2> HIDE DEF l
  <2> QED BY <1>2, FS_Interval
<1>7. Run(held) = Cardinality(R)
  <2>1. Lowest(D) = first
    BY LowestIsFirst
  <2>2. Run(held) = Cardinality({k \in 1 .. Cardinality(D) :
                       \A x \in 0 .. k - 1 : Plus(Lowest(D), x) \in D})
    BY DEF Run
  <2> HIDE DEF D, first
  <2> QED BY <2>1, <2>2
<1> QED BY <1>5, <1>6, <1>7

\* CollectFlowData returns a piece of the flow's stream without a hole, from
\* the first frame of the flow that arrived to the last before one that did
\* not (assemble), also across the wrap.
THEOREM CollectsTheStream == Spec => []CollectedIsStream
<1>1. IInv => CollectedIsStream
  <2> SUFFICES ASSUME IInv, held # <<>> PROVE CollectedIsStream
    BY DEF CollectedIsStream
  <2> DEFINE has == Mine(DOMAIN held)
             i == Min(has)
             row == {k \in has : i .. k \subseteq has}
             j == Max(row)
  <2>1. has \in SUBSET Nat /\ has # {} /\ \A k \in has : k \in 1 .. Len(sent)
    <3>1. DOMAIN held # {} BY DEF IInv, HeldInv
    <3>2. has # {} BY <3>1, HeldNumbers
    <3>3. \A k \in has : k \in 1 .. Len(sent) BY HeldNumbers
    <3> QED BY <3>2, <3>3
  <2>2. i \in has /\ i \in 1 .. Len(sent) /\ \A k \in has : i <= k
    <3> HIDE DEF has
    <3> QED BY <2>1, MinIsLeast
  <2>3. j \in row /\ \A k \in row : k <= j
    <3>1. i .. i = {i} BY <2>2
    <3>2. i \in row BY <2>2, <3>1
    <3>3. row \in SUBSET Nat /\ row # {} /\ \A k \in row : k <= Len(sent)
      BY <2>1, <3>2
    <3>4. Len(sent) \in Nat BY FrameOfNumber
    <3> HIDE DEF row
    <3> QED BY <3>3, <3>4, MaxIsGreatest
  <2>4. Piece(i, j)
    <3>1. j \in has /\ j \in 1 .. Len(sent) /\ i <= j /\ \A k \in i .. j : k \in has
      BY <2>1, <2>2, <2>3
    <3>2. j + 1 \notin has
      <4> SUFFICES ASSUME j + 1 \in has PROVE FALSE
        OBVIOUS
      <4> HIDE DEF i, j, has
      <4>1. \A k \in i .. j + 1 : k \in has
        <5>1. \A k \in i .. j + 1 : k \in i .. j \/ k = j + 1 BY <2>2, <3>1
        <5> QED BY <3>1, <5>1
      <4>2. j + 1 \in row
        BY <4>1
      <4> QED BY <2>3, <3>1, <4>2
    <3> HIDE DEF i, j
    <3> QED BY <2>2, <3>1, <3>2 DEF Piece
  <2> HIDE DEF i, j
  <2> DEFINE got == [k \in 1 .. Run(held) |-> held[Plus(Lowest(DOMAIN held), k - 1)]]
             was == [k \in 1 .. j - i + 1 |->
                       LET b == sent[i + k - 1]
                       IN  IF KindOf(b) = Payload THEN DataOf(b) ELSE <<>>]
  <2>5. Run(held) = j - i + 1 /\ Lowest(DOMAIN held) = Plus(FirstSeq, i - 1)
    BY <2>4, LowestIsFirst, RunIsPiece
  <2>6. ASSUME NEW k \in 1 .. j - i + 1
        PROVE  held[Plus(Lowest(DOMAIN held), k - 1)] =
                  LET b == sent[i + k - 1]
                  IN  IF KindOf(b) = Payload THEN DataOf(b) ELSE <<>>
    <3> DEFINE m == i + k - 1
    <3>1. /\ i \in 1 .. Len(sent) /\ j \in 1 .. Len(sent) /\ i <= j
          /\ Len(sent) \in Nat /\ Len(sent) < Half /\ Half \in Nat
      BY <2>2, <2>4, FrameOfNumber, HalfAssumption DEF Piece
    <3>2. m \in i .. j /\ m \in 1 .. Len(sent) /\ i <= m
          /\ i - 1 \in 0 .. Half - 1 /\ m - 1 \in 0 .. Half - 1
      BY <3>1
    <3>3. Plus(Lowest(DOMAIN held), k - 1) = Plus(FirstSeq, m - 1)
      <4>1. (m - 1) - (i - 1) = k - 1 /\ i - 1 <= m - 1
        BY <3>1
      <4> HIDE DEF m
      <4>2. Plus(Plus(FirstSeq, i - 1), (m - 1) - (i - 1)) = Plus(FirstSeq, m - 1)
        BY <3>2, <4>1, NumbersInARow
      <4> QED BY <2>5, <4>1, <4>2
    <3> HIDE DEF m
    <3>4. Plus(FirstSeq, m - 1) \in DOMAIN held
      BY <2>4, <3>2, HeldNumbers DEF Piece
    <3>5. PICK b \in Bodies : /\ NumberOf(b) = Plus(FirstSeq, m - 1) /\ KindOf(b) # Other
                              /\ held[Plus(FirstSeq, m - 1)] = DataOf(b)
      BY <3>4 DEF IInv, HeldInv
    <3>6. b = sent[m]
      <4>1. PICK x \in 1 .. Len(sent) : b = sent[x]
        BY DEF Bodies
      <4>2. x = m
        BY <3>2, <3>5, <4>1, FrameOfNumber
      <4> QED BY <4>1, <4>2
    <3>7. held[Plus(FirstSeq, m - 1)] = IF KindOf(sent[m]) = Payload THEN DataOf(sent[m]) ELSE <<>>
      BY <3>5, <3>6, DataLength
    <3> QED BY <3>3, <3>7 DEF m
  <2>7. got = was
    BY <2>5, <2>6
  <2>8. Assembled(held) = FlattenSeq(got)
    BY DEF Assembled
  <2>9. Between(i, j) = FlattenSeq(was)
    BY DEF Between
  <2>10. Assembled(held) = Between(i, j)
    <3> HIDE DEF got, was
    <3> QED BY <2>7, <2>8, <2>9
  <2> QED BY <2>10 DEF CollectedIsStream, Mine, i, j
<1> QED BY <1>1, Safety, PTL
=============================================================================
