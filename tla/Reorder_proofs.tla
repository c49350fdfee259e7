--------------------------- MODULE Reorder_proofs ---------------------------
(***************************************************************************)
(* The safety of the reassembler for every word width, cap, timer setting  *)
(* and number of packets.  The heart of it is what drain does              *)
(* (lemma RunOfPackets): over wire numbers it takes exactly the packets    *)
(* that are contiguous over the naturals.                                  *)
(***************************************************************************)
EXTENDS Reorder, FiniteSetTheorems, TLAPS

-----------------------------------------------------------------------------
(* The wrapping sequence numbers, for every width of the word              *)

\* Addition stays in the word (uint32 arithmetic).
LEMMA PlusType ==
  ASSUME NEW a \in SeqNum, NEW i \in SeqNum
  PROVE  Plus(a, i) \in SeqNum
BY HalfAssumption DEF SeqNum, Space, Plus

\* Plus and Diff are what uint32 addition and the conversion int32(a - b) do:
\* each result is in the range of its type and differs from the exact one by
\* nothing or one turn of the counter (diff, next++).
THEOREM WordArithmetic ==
  ASSUME NEW a \in SeqNum, NEW b \in SeqNum
  PROVE  /\ Plus(a, b) \in 0 .. Space - 1
         /\ Plus(a, b) \in {a + b, a + b - Space}
         /\ Diff(a, b) \in -Half .. Half - 1
         /\ Diff(a, b) \in {a - b, a - b + Space, a - b - Space}
BY HalfAssumption DEF SeqNum, Space, Plus, Diff

\* Two offsets from one number that meet are the same offset.
LEMMA PlusInjective ==
  ASSUME NEW a \in SeqNum, NEW i \in SeqNum, NEW j \in SeqNum,
         Plus(a, i) = Plus(a, j)
  PROVE  i = j
BY HalfAssumption DEF SeqNum, Space, Plus

\* The distance is a signed word (the int32 of diff).
LEMMA DiffType ==
  ASSUME NEW a \in SeqNum, NEW b \in SeqNum
  PROVE  Diff(a, b) \in Int /\ Diff(a, b) >= -Half /\ Diff(a, b) < Half
BY HalfAssumption DEF SeqNum, Space, Diff

\* A number is at distance zero from itself.
LEMMA DiffSelf ==
  ASSUME NEW a \in SeqNum
  PROVE  Diff(a, a) = 0
BY HalfAssumption DEF SeqNum, Space, Diff

\* A distance that is not negative leads from one number to the other.
LEMMA DiffPlus ==
  ASSUME NEW a \in SeqNum, NEW b \in SeqNum, Diff(a, b) >= 0
  PROVE  a = Plus(b, Diff(a, b)) /\ Diff(a, b) \in SeqNum
BY HalfAssumption DEF SeqNum, Space, Diff, Plus

\* Numbering one more packet moves it one further away from every earlier one,
\* seen from either side (next++ and its peers).
LEMMA DiffStep ==
  ASSUME NEW a \in SeqNum, NEW b \in SeqNum,
         Diff(a, b) >= 0, Diff(a, b) < Half - 1
  PROVE  /\ Diff(Plus(a, 1), b) = Diff(a, b) + 1
         /\ Diff(b, Plus(a, 1)) = -(Diff(a, b) + 1)
BY HalfAssumption DEF SeqNum, Space, Diff, Plus

\* Numbering one more packet keeps distances between numbers equal to
\* distances between packets, below half the space.
LEMMA NumberingStep ==
  ASSUME NEW n \in Nat, NEW w \in [0 .. n -> SeqNum],
         \A a, b \in 0 .. n :
            (a - b < Half /\ b - a < Half) => Diff(w[a], w[b]) = a - b
  PROVE  /\ Numbered(w, n) \in [0 .. n + 1 -> SeqNum]
         /\ \A a \in 0 .. n : Numbered(w, n)[a] = w[a]
         /\ \A a, b \in 0 .. n + 1 :
               (a - b < Half /\ b - a < Half) =>
                  Diff(Numbered(w, n)[a], Numbered(w, n)[b]) = a - b
<1>. DEFINE v == Numbered(w, n)
<1>1. 1 \in SeqNum /\ w[n] \in SeqNum
  BY HalfAssumption DEF SeqNum, Space
<1>2. Plus(w[n], 1) \in SeqNum
  BY <1>1, PlusType
<1>3. v \in [0 .. n + 1 -> SeqNum] /\ \A a \in 0 .. n : v[a] = w[a]
  BY <1>2 DEF Numbered
<1>4. v[n + 1] = Plus(w[n], 1)
  BY DEF Numbered
<1>. HIDE DEF v
<1>5. ASSUME NEW c \in 0 .. n, n + 1 - c < Half
      PROVE  /\ Diff(Plus(w[n], 1), w[c]) = n + 1 - c
             /\ Diff(w[c], Plus(w[n], 1)) = c - (n + 1)
  <2>1. Diff(w[n], w[c]) = n - c
    BY <1>5, HalfAssumption
  <2>2. w[c] \in SeqNum
    OBVIOUS
  <2>3. Diff(w[n], w[c]) >= 0 /\ Diff(w[n], w[c]) < Half - 1
    BY <1>5, <2>1, HalfAssumption
  <2>4. /\ Diff(Plus(w[n], 1), w[c]) = (n - c) + 1
        /\ Diff(w[c], Plus(w[n], 1)) = -((n - c) + 1)
    BY <1>1, <2>1, <2>2, <2>3, DiffStep
  <2>. QED
    BY <2>4
<1>6. SUFFICES ASSUME NEW a \in 0 .. n + 1, NEW b \in 0 .. n + 1,
                      a - b < Half, b - a < Half
               PROVE  Diff(v[a], v[b]) = a - b
  BY <1>3 DEF v
<1>7. CASE a <= n /\ b <= n
  BY <1>3, <1>6, <1>7
<1>8. CASE a = n + 1 /\ b <= n
  BY <1>3, <1>4, <1>5, <1>6, <1>8
<1>9. CASE a <= n /\ b = n + 1
  BY <1>3, <1>4, <1>5, <1>6, <1>9
<1>10. CASE a = n + 1 /\ b = n + 1
  BY <1>2, <1>4, <1>10, DiffSelf
<1>. QED
  BY <1>6, <1>7, <1>8, <1>9, <1>10
-----------------------------------------------------------------------------

-----------------------------------------------------------------------------

\* The window a drain starts in: the packet whose number is nx, a set of
\* packets none of which is before it, and a lead below half the space.
Window(from, set) ==
  /\ from \in 0 .. sent /\ sent - from < Half
  /\ set \subseteq from .. sent - 1

\* The i-th number after that of packet "from" belongs to packet from + i.
LEMMA WireAhead ==
  ASSUME sent \in Nat, wire \in [0 .. sent -> SeqNum], Numbering,
         NEW from \in 0 .. sent, sent - from < Half,
         NEW i \in Nat, from + i <= sent
  PROVE  /\ i \in SeqNum
         /\ Diff(wire[from + i], wire[from]) = i
         /\ wire[from + i] = Plus(wire[from], i)
<1>1. from + i \in 0 .. sent
  OBVIOUS
<1>2. Diff(wire[from + i], wire[from]) = i
  BY <1>1, HalfAssumption DEF Numbering
<1>. QED
  BY <1>1, <1>2, DiffPlus

\* Looking up the i-th number in the map is asking for packet from + i.
LEMMA KeyOfPacket ==
  ASSUME sent \in Nat, wire \in [0 .. sent -> SeqNum], Numbering,
         NEW from, NEW set, Window(from, set), NEW i \in SeqNum
  PROVE  (Plus(wire[from], i) \in Keys(set)) <=> (from + i \in set)
<1>. USE DEF Window
<1>1. ASSUME from + i \in set
      PROVE  Plus(wire[from], i) \in Keys(set)
  <2>1. i \in Nat /\ from + i <= sent
    BY <1>1 DEF SeqNum
  <2>. QED
    BY <1>1, <2>1, WireAhead DEF Keys
<1>2. ASSUME Plus(wire[from], i) \in Keys(set)
      PROVE  from + i \in set
  <2>1. PICK p \in set : wire[p] = Plus(wire[from], i)
    BY <1>2 DEF Keys
  <2>2. p \in from .. sent - 1
    BY <2>1
  <2>3. p - from \in Nat /\ from + (p - from) <= sent /\ from + (p - from) = p
    BY <2>2
  <2>4. p - from \in SeqNum /\ wire[p] = Plus(wire[from], p - from)
    BY <2>3, WireAhead
  <2>5. p - from = i
    BY <2>1, <2>4, PlusInjective
  <2>. QED
    BY <2>1, <2>3, <2>5 DEF SeqNum
<1>. QED
  BY <1>1, <1>2

\* What drain moves: exactly the packets contiguous from "from" on.
LEMMA RunOfPackets ==
  ASSUME sent \in Nat, wire \in [0 .. sent -> SeqNum], Numbering,
         NEW from, NEW set, Window(from, set),
         NEW k \in SeqNum, Run(set, wire[from], k)
  PROVE  /\ from + k <= sent
         /\ Plus(wire[from], k) = wire[from + k]
         /\ from .. from + k - 1 \subseteq set
         /\ from + k \notin set
         /\ Moved(set, wire[from], k) = from .. from + k - 1
         /\ from \in set => k >= 1
<1>. USE DEF Window
<1>1. \A i \in SeqNum : i < k => from + i \in set
  BY KeyOfPacket DEF Run
<1>2. from + k \notin set
  BY KeyOfPacket DEF Run
<1>3. from + k <= sent
  <2>1. SUFFICES ASSUME from + k > sent PROVE FALSE
    BY DEF SeqNum
  <2>2. sent - from \in SeqNum /\ sent - from < k
    BY <2>1, HalfAssumption DEF SeqNum, Space
  <2>3. from + (sent - from) \in set
    BY <1>1, <2>2
  <2>. QED
    BY <2>3
<1>4. Plus(wire[from], k) = wire[from + k]
  BY <1>3, WireAhead DEF SeqNum
<1>5. from .. from + k - 1 \subseteq set
  <2>1. SUFFICES ASSUME NEW p \in from .. from + k - 1 PROVE p \in set
    OBVIOUS
  <2>2. p - from \in SeqNum /\ p - from < k /\ from + (p - from) = p
    BY HalfAssumption DEF SeqNum, Space
  <2>. QED
    BY <1>1, <2>2
<1>6. \A p \in set : Diff(wire[p], wire[from]) = p - from
  <2>1. SUFFICES ASSUME NEW p \in set
                 PROVE  Diff(wire[p], wire[from]) = p - from
    OBVIOUS
  <2>2. p - from \in Nat /\ from + (p - from) <= sent /\ from + (p - from) = p
    OBVIOUS
  <2>. QED
    BY <2>2, WireAhead
<1>7. Moved(set, wire[from], k) = from .. from + k - 1
  <2>1. \A p \in set : p \in Moved(set, wire[from], k) <=> p < from + k
    BY <1>6 DEF Moved, SeqNum
  <2>2. Moved(set, wire[from], k) \subseteq set
    BY DEF Moved
  <2>3. k \in Int /\ set \subseteq from .. sent - 1
    BY HalfAssumption DEF SeqNum, Space
  <2>4. ASSUME NEW p \in Moved(set, wire[from], k)
        PROVE  p \in from .. from + k - 1
    <3>1. p \in set
      BY <2>2
    <3>2. p < from + k
      BY <2>1, <3>1
    <3>3. p \in from .. sent - 1
      BY <2>3, <3>1
    <3>. QED
      BY <2>3, <3>2, <3>3
  <2>5. ASSUME NEW p \in from .. from + k - 1
        PROVE  p \in Moved(set, wire[from], k)
    <3>1. p \in set
      BY <1>5
    <3>2. p < from + k
      BY <2>3
    <3>. QED
      BY <2>1, <3>1, <3>2
  <2>. QED
    BY <2>4, <2>5
<1>8. from \in set => k >= 1
  BY <1>2 DEF SeqNum
<1>. QED
  BY <1>2, <1>3, <1>4, <1>5, <1>7, <1>8

\* The packets drain returns, one by one.
LEMMA RunInOrder ==
  ASSUME sent \in Nat, wire \in [0 .. sent -> SeqNum], Numbering,
         NEW from, NEW set, Window(from, set),
         NEW k \in SeqNum, Run(set, wire[from], k)
  PROVE  Taken(set, wire[from], k) = [i \in 1 .. k |-> from + i - 1]
<1>. USE DEF Window
<1>1. SUFFICES ASSUME NEW i \in 1 .. k
               PROVE  (CHOOSE p \in set : wire[p] = Plus(wire[from], i - 1))
                      = from + i - 1
  BY DEF Taken
<1>2. i - 1 \in SeqNum /\ i - 1 \in Nat /\ i - 1 < k /\ k \in Int
  BY HalfAssumption DEF SeqNum, Space
<1>3. from + (i - 1) \in set
  <2>1. from .. from + k - 1 \subseteq set
    BY RunOfPackets
  <2>. QED
    BY <1>2, <2>1
<1>4. wire[from + (i - 1)] = Plus(wire[from], i - 1)
  BY <1>2, <1>3, WireAhead
<1>5. ASSUME NEW p \in set, wire[p] = Plus(wire[from], i - 1)
      PROVE  p = from + (i - 1)
  <2>1. p - from \in Nat /\ from + (p - from) <= sent /\ from + (p - from) = p
    OBVIOUS
  <2>2. p - from \in SeqNum /\ wire[p] = Plus(wire[from], p - from)
    BY <2>1, WireAhead
  <2>3. p - from = i - 1
    BY <1>2, <1>5, <2>2, PlusInjective
  <2>. QED
    BY <2>3, <1>2
<1>. QED
  BY <1>2, <1>3, <1>4, <1>5

-----------------------------------------------------------------------------
(* What a call that delivers does to the state, in packets                 *)

\* The effect of drain on the packets at hand, without sequence numbers: the
\* run from .. from + k - 1 goes out and the rest, all beyond it, stays.
Released(hand, from, k) ==
  /\ k \in Nat /\ k >= 1 /\ from + k <= sent
  /\ from .. from + k - 1 \subseteq hand
  /\ next' = wire[from + k]
  /\ pend' = hand \ (from .. from + k - 1)
  /\ \A p \in pend' : p \in 0 .. sent - 1 /\ p > from + k
  /\ IsFiniteSet(pend') /\ Cardinality(pend') = Cardinality(hand) - k
  /\ out' = [i \in 1 .. k |-> from + i - 1]
  /\ delivered' = delivered \cup from .. from + k - 1
  /\ blockedAge' = BlockedAgeOf(pend')

\* drain releases the packets that are contiguous from packet "from" on.
LEMMA DrainReleases ==
  ASSUME sent \in Nat, wire \in [0 .. sent -> SeqNum], Numbering,
         NEW from, NEW hand, Window(from, hand), from \in hand,
         IsFiniteSet(hand),
         NEW k \in SeqNum, Drain(hand, wire[from], k)
  PROVE  Released(hand, from, k)
<1>. USE DEF Window
<1>1. Run(hand, wire[from], k)
  BY DEF Drain
<1>2. /\ from + k <= sent
      /\ Plus(wire[from], k) = wire[from + k]
      /\ from .. from + k - 1 \subseteq hand
      /\ from + k \notin hand
      /\ Moved(hand, wire[from], k) = from .. from + k - 1
      /\ k >= 1
  BY <1>1, RunOfPackets
<1>3. k \in Nat
  BY HalfAssumption DEF SeqNum, Space
<1>4. out' = [i \in 1 .. k |-> from + i - 1]
  BY <1>1, RunInOrder DEF Drain
<1>5. /\ next' = wire[from + k]
      /\ pend' = hand \ (from .. from + k - 1)
      /\ delivered' = delivered \cup from .. from + k - 1
      /\ blockedAge' = BlockedAgeOf(pend')
  BY <1>2 DEF Drain
<1>6. \A p \in pend' : p \in 0 .. sent - 1 /\ p > from + k
  <2>1. SUFFICES ASSUME NEW p \in pend'
                 PROVE  p \in 0 .. sent - 1 /\ p > from + k
    OBVIOUS
  <2>2. p \in hand /\ p \notin from .. from + k - 1
    BY <1>5
  <2>3. p \in from .. sent - 1 /\ p # from + k
    BY <1>2, <2>2
  <2>. QED
    BY <1>3, <2>2, <2>3
<1>7. IsFiniteSet(pend') /\ Cardinality(pend') = Cardinality(hand) - k
  <2>1. hand \cap (from .. from + k - 1) = from .. from + k - 1
    BY <1>2
  <2>2. Cardinality(from .. from + k - 1) = k
    <3>. DEFINE to == from + k - 1
    <3>1. from \in Int /\ to \in Int /\ ~ (from > to) /\ to - from + 1 = k
      BY <1>2, <1>3
    <3>. HIDE DEF to
    <3>2. Cardinality(from .. to) = to - from + 1
      BY <3>1, FS_Interval
    <3>. QED
      BY <3>1, <3>2 DEF to
  <2>3. /\ IsFiniteSet(hand \ (from .. from + k - 1))
        /\ Cardinality(hand \ (from .. from + k - 1))
             = Cardinality(hand) - Cardinality(hand \cap (from .. from + k - 1))
    BY FS_Difference
  <2>. QED
    BY <1>5, <2>1, <2>2, <2>3
<1>. QED
  BY <1>2, <1>3, <1>4, <1>5, <1>6, <1>7 DEF Released

\* lowest finds the packet sent first, among packets in one window.
LEMMA LowestIsFirst ==
  ASSUME sent \in Nat, wire \in [0 .. sent -> SeqNum], Numbering,
         NEW lo \in 0 .. sent, sent - lo < Half,
         NEW hand, hand \subseteq lo .. sent - 1,
         NEW low \in hand, IsLowest(low, hand)
  PROVE  Window(low, hand)
<1>1. low \in 0 .. sent /\ sent - low < Half
  BY HalfAssumption
<1>2. ASSUME NEW p \in hand
      PROVE  p >= low
  <2>1. p \in 0 .. sent /\ p - low < Half /\ low - p < Half
    BY <1>1, HalfAssumption
  <2>2. Diff(wire[p], wire[low]) = p - low
    BY <1>1, <2>1 DEF Numbering
  <2>3. Diff(wire[p], wire[low]) >= 0
    BY DEF IsLowest
  <2>. QED
    BY <1>1, <2>1, <2>2, <2>3
<1>3. hand \subseteq low .. sent - 1
  BY <1>1, <1>2
<1>. QED
  BY <1>1, <1>3 DEF Window

\* How far an arriving packet is from the position is read off its number.
LEMMA ArrivalDistance ==
  ASSUME IInv, started, NEW n \in 0 .. sent - 1, sent - n < Half
  PROVE  Diff(wire[n], next) = n - pos
<1>1. /\ sent \in Nat /\ pos \in 0 .. sent /\ n \in 0 .. sent
      /\ n - pos < Half /\ pos - n < Half /\ next = wire[pos]
  BY HalfAssumption, ReorderAssumption DEF IInv, TypeOK, Position, Lead
<1>. QED
  BY <1>1 DEF IInv, Numbering

\* A packet whose number is held is held itself: no two live packets share a
\* number (the map lookup of Push).
LEMMA HeldIsMember ==
  ASSUME IInv, NEW n \in 0 .. sent - 1, sent - n < Half, Held(n)
  PROVE  n \in pend
<1>1. PICK p \in pend : wire[p] = wire[n]
  BY DEF Held, Keys
<1>2. sent \in Nat /\ p \in 0 .. sent - 1 /\ pos \in 0 .. sent
  BY ReorderAssumption DEF IInv, TypeOK
<1>3. sent - p < Half
  BY <1>2, HalfAssumption DEF IInv, Position, Lead, HeldIsAhead
<1>4. Diff(wire[p], wire[n]) = p - n
  BY <1>2, <1>3, HalfAssumption DEF IInv, Numbering
<1>5. wire[n] \in SeqNum
  BY <1>2 DEF IInv, TypeOK
<1>6. p - n = 0
  BY <1>1, <1>4, <1>5, DiffSelf
<1>. QED
  BY <1>2, <1>6

\* MaxSeen after an arrival is the number of a packet not before the position
\* that none of the packets at hand is beyond.
LEMMA HighestAfterArrival ==
  ASSUME IInv, NEW n \in 0 .. sent - 1, sent - n < Half,
         maxSeen' = HighestSeen(n)
  PROVE  \E t \in 0 .. sent - 1 :
            /\ maxSeen' = wire[t] /\ t >= pos - 1
            /\ \A p \in pend \cup {n} : p <= t
            /\ t \in pend \cup delivered \/ (t = n /\ n >= pos)
<1>. USE DEF HighestSeen
<1>1. /\ sent \in Nat /\ pos \in 0 .. sent /\ pend \subseteq 0 .. sent - 1
      /\ wire \in [0 .. sent -> SeqNum]
  BY ReorderAssumption DEF IInv, TypeOK
<1>2. CASE firstAge = Never
  <2>1. ~ started /\ pend = {} /\ pos = 0
    BY <1>2 DEF IInv, SettleTimer, Position
  <2>2. maxSeen' = wire[n]
    BY <1>2
  <2>. QED
    BY <1>1, <2>1, <2>2
<1>3. CASE firstAge # Never
  <2>1. PICK t \in 0 .. sent - 1 :
           /\ maxSeen = wire[t] /\ t >= pos - 1
           /\ \A p \in pend : p <= t
           /\ t \in pend \cup delivered
    BY <1>3 DEF IInv, Highest
  <2>2. n - t < Half /\ t - n < Half
    <3>1. CASE started
      BY <1>1, <2>1, <3>1, HalfAssumption DEF IInv, Position, Lead
    <3>2. CASE ~ started
      BY <1>1, <2>1, <3>2, HalfAssumption DEF IInv, Position, Lead
    <3>. QED
      BY <3>1, <3>2
  <2>3. Diff(wire[n], maxSeen) = n - t
    BY <1>1, <2>1, <2>2 DEF IInv, Numbering
  <2>4. CASE n > t
    <3>1. maxSeen' = wire[n]
      BY <1>1, <1>3, <2>1, <2>3, <2>4
    <3>2. \A p \in pend \cup {n} : p <= n
      BY <1>1, <2>1, <2>4
    <3>. QED
      BY <1>1, <2>1, <2>4, <3>1, <3>2
  <2>5. CASE ~ (n > t)
    <3>1. maxSeen' = maxSeen
      BY <1>1, <1>3, <2>1, <2>3, <2>5
    <3>. QED
      BY <1>1, <2>1, <2>5, <3>1
  <2>. QED
    BY <2>4, <2>5
<1>. QED
  BY <1>2, <1>3

-----------------------------------------------------------------------------
(* The invariant is inductive                                              *)

\* The timers keep their range as time passes and start at zero.
LEMMA AgeType ==
  /\ Horizon \in Nat /\ 0 \in Age(Horizon) /\ Never \in Age(Horizon)
  /\ \A cap \in Nat : \A age \in Age(cap) : Older(age, cap) \in Age(cap)
<1>1. Horizon \in Nat
  BY ReorderAssumption DEF Horizon
<1>. QED
  BY <1>1 DEF Age, Never, Older

\* What holds after any call that releases a run, whoever called drain.
LEMMA ReleaseKeeps ==
  ASSUME IInv, NEW hand, NEW from \in hand, NEW k,
         Released(hand, from, k),
         hand \subseteq 0 .. sent - 1, Cardinality(hand) <= MaxPend + 1,
         IsFiniteSet(hand),
         from >= pos, sent - from < Half,
         UNCHANGED <<sent, wire>>, started', pos' = from + k
  PROVE  /\ Numbering' /\ Position' /\ HeldIsAhead' /\ Bounded'
         /\ TimerRunsIffBlocked'
         /\ next' \in SeqNum /\ pend' \subseteq 0 .. sent' - 1
         /\ blockedAge' \in Age(Horizon)
         /\ out' \in Seq(0 .. sent' - 1)
         /\ delivered' \subseteq 0 .. sent' - 1
         /\ pos' \in 0 .. sent' /\ from <= pos'
<1>1. /\ sent \in Nat /\ wire \in [0 .. sent -> SeqNum] /\ pos \in 0 .. sent
      /\ delivered \subseteq 0 .. sent - 1 /\ started \in BOOLEAN
  BY ReorderAssumption DEF IInv, TypeOK
<1>2. /\ k \in Nat /\ k >= 1 /\ from + k <= sent
      /\ from .. from + k - 1 \subseteq hand
      /\ next' = wire[from + k]
      /\ \A p \in pend' : p \in 0 .. sent - 1 /\ p > from + k
      /\ IsFiniteSet(pend') /\ Cardinality(pend') = Cardinality(hand) - k
      /\ out' = [i \in 1 .. k |-> from + i - 1]
      /\ delivered' = delivered \cup from .. from + k - 1
      /\ blockedAge' = BlockedAgeOf(pend')
  BY DEF Released
<1>3. from \in 0 .. sent - 1
  OBVIOUS
<1>4. Numbering'
  BY DEF IInv, Numbering
<1>5. Position'
  <2>1. Lead' < Half
    BY <1>1, <1>2, <1>3, HalfAssumption DEF Lead
  <2>2. \A d \in delivered : d < pos
    BY DEF IInv, Position
  <2>3. \A d \in delivered' : d < pos'
    BY <1>1, <1>2, <1>3, <2>2
  <2>. QED
    BY <1>2, <2>1, <2>3 DEF Position
<1>6. HeldIsAhead'
  BY <1>2 DEF HeldIsAhead
<1>7. Bounded'
  BY <1>2, ReorderAssumption, FS_CardinalityType DEF Bounded, MemoryBound
<1>8. TimerRunsIffBlocked' /\ blockedAge' \in Age(Horizon)
  BY <1>2, AgeType DEF TimerRunsIffBlocked, BlockedAgeOf, Never
<1>9. next' \in SeqNum /\ pos' \in 0 .. sent' /\ from <= pos'
  BY <1>1, <1>2, <1>3
<1>10. out' \in Seq(0 .. sent' - 1)
  <2>1. \A i \in 1 .. k : from + i - 1 \in 0 .. sent' - 1
    BY <1>1, <1>2, <1>3
  <2>. QED
    BY <1>2, <2>1
<1>11. delivered' \subseteq 0 .. sent' - 1 /\ pend' \subseteq 0 .. sent' - 1
  BY <1>1, <1>2
<1>. QED
  BY <1>4, <1>5, <1>6, <1>7, <1>8, <1>9, <1>10, <1>11

\* MaxSeen after a release: what was at hand is now delivered or held.
LEMMA ReleaseKeepsHighest ==
  ASSUME sent \in Nat, NEW hand, NEW from \in hand, NEW k,
         Released(hand, from, k), hand \subseteq 0 .. sent - 1,
         UNCHANGED <<sent, wire>>, pos' = from + k,
         NEW t \in 0 .. sent - 1, maxSeen' = wire[t],
         \A p \in hand : p <= t, t \in hand \cup delivered
  PROVE  Highest'
<1>1. /\ k \in Nat /\ k >= 1 /\ from .. from + k - 1 \subseteq hand
      /\ pend' = hand \ (from .. from + k - 1)
      /\ delivered' = delivered \cup from .. from + k - 1
  BY DEF Released
<1>2. from + k - 1 \in hand
  BY <1>1
<1>3. t >= pos' - 1
  BY <1>1, <1>2
<1>4. t \in pend' \cup delivered' /\ \A p \in pend' : p <= t
  BY <1>1
<1>. QED
  BY <1>3, <1>4 DEF Highest

\* Latching releases a run that starts at the first packet at hand.
LEMMA LatchReleases ==
  ASSUME IInv, ~ started, NEW hand, hand \subseteq 0 .. sent - 1,
         IsFiniteSet(hand), Latch(hand)
  PROVE  \E low \in hand : \E k \in SeqNum :
            /\ Released(hand, low, k) /\ sent - low < Half
            /\ started' = TRUE /\ start' = low /\ pos' = low + k
            /\ stats' = [stats EXCEPT !.Delivered = @ + k]
<1>1. PICK low \in hand : \E k \in SeqNum :
         /\ IsLowest(low, hand) /\ Drain(hand, wire[low], k)
         /\ started' = TRUE /\ start' = low /\ pos' = low + k
         /\ stats' = [stats EXCEPT !.Delivered = @ + k]
  BY DEF Latch
<1>2. PICK k \in SeqNum :
         /\ IsLowest(low, hand) /\ Drain(hand, wire[low], k)
         /\ started' = TRUE /\ start' = low /\ pos' = low + k
         /\ stats' = [stats EXCEPT !.Delivered = @ + k]
  BY <1>1
<1>3. sent \in Nat /\ wire \in [0 .. sent -> SeqNum] /\ Numbering
  BY ReorderAssumption DEF IInv, TypeOK
<1>4. sent < Half
  BY DEF IInv, Position, Lead
<1>5. Window(low, hand)
  BY <1>2, <1>3, <1>4, LowestIsFirst
<1>6. Released(hand, low, k)
  BY <1>2, <1>3, <1>5, DrainReleases
<1>. QED
  BY <1>2, <1>5, <1>6 DEF Window

\* Skipping releases a run that starts at the first packet at hand, and counts
\* every packet it steps over.
LEMMA SkipReleases ==
  ASSUME IInv, started, NEW hand, hand \subseteq pos + 1 .. sent - 1,
         IsFiniteSet(hand), SkipToLowest(hand)
  PROVE  \E low \in hand : \E k \in SeqNum :
            /\ Released(hand, low, k) /\ sent - low < Half
            /\ pos' = low + k /\ UNCHANGED <<started, start>>
            /\ stats' = [stats EXCEPT !.Delivered = @ + k,
                                      !.Skipped = @ + (low - pos)]
<1>1. PICK low \in hand : \E k \in SeqNum :
         /\ IsLowest(low, hand) /\ Drain(hand, wire[low], k)
         /\ stats' = [stats EXCEPT !.Delivered = @ + k,
                                   !.Skipped = @ + SkippedBefore(low)]
         /\ pos' = low + k /\ UNCHANGED <<started, start>>
  BY DEF SkipToLowest
<1>2. PICK k \in SeqNum :
         /\ IsLowest(low, hand) /\ Drain(hand, wire[low], k)
         /\ stats' = [stats EXCEPT !.Delivered = @ + k,
                                   !.Skipped = @ + SkippedBefore(low)]
         /\ pos' = low + k /\ UNCHANGED <<started, start>>
  BY <1>1
<1>3. /\ sent \in Nat /\ wire \in [0 .. sent -> SeqNum] /\ Numbering
      /\ pos \in 0 .. sent /\ next = wire[pos] /\ sent - pos < Half
  BY ReorderAssumption DEF IInv, TypeOK, Position, Lead
<1>4. hand \subseteq pos .. sent - 1
  BY <1>3
<1>5. Window(low, hand)
  BY <1>2, <1>3, <1>4, LowestIsFirst
<1>6. Released(hand, low, k)
  BY <1>2, <1>3, <1>5, DrainReleases
<1>7. SkippedBefore(low) = low - pos
  <2>1. low \in 0 .. sent /\ low > pos /\ low - pos < Half
    BY <1>3, <1>4, HalfAssumption
  <2>2. Diff(wire[low], next) = low - pos
    BY <1>3, <2>1, HalfAssumption DEF Numbering
  <2>. QED
    BY <1>3, <2>1, <2>2 DEF SkippedBefore
<1>. QED
  BY <1>2, <1>5, <1>6, <1>7 DEF Window

\* The initial state: nothing sent, one number assigned.
LEMMA InitIInv == Init => IInv
<1>. SUFFICES ASSUME Init PROVE IInv
  OBVIOUS
<1>. USE DEF Init
<1>1. PICK b \in Bases : wire = [k \in {0} |-> b]
  OBVIOUS
<1>2. wire \in [0 .. sent -> SeqNum] /\ wire[0] = b /\ b \in SeqNum
  BY <1>1, ReorderAssumption
<1>3. TypeOK
  <2>1. 0 \in SeqNum /\ Never \in Age(Settle) /\ Never \in Age(RetransmitAfter)
    BY HalfAssumption DEF SeqNum, Space, Age
  <2>. QED
    BY <1>2, <2>1, AgeType, ReorderAssumption DEF TypeOK
<1>4. Numbering
  BY <1>2, DiffSelf DEF Numbering
<1>5. Position
  BY HalfAssumption DEF Position, Lead
<1>6. Bounded
  BY FS_EmptySet, ReorderAssumption DEF Bounded, MemoryBound
<1>7. SettleTimer /\ TimerRunsIffBlocked /\ PositionAccounted /\ Highest
  BY DEF SettleTimer, TimerRunsIffBlocked, PositionAccounted, Highest, Never
<1>. QED
  BY <1>3, <1>4, <1>5, <1>6, <1>7 DEF IInv, HeldIsAhead

\* Numbering one more packet: it is one further than the last from all others.
LEMMA SendKeeps == IInv /\ Send => IInv'
<1>. SUFFICES ASSUME IInv, Send PROVE IInv'
  OBVIOUS
<1>1. /\ sent \in 0 .. MaxSent /\ sent < MaxSent /\ sent' = sent + 1
      /\ wire \in [0 .. sent -> SeqNum]
      /\ wire' = Numbered(wire, sent)
      /\ Lead + 1 < Half /\ out' = <<>> /\ missing' = {}
      /\ UNCHANGED <<started, next, pend, maxSeen, firstAge, blockedAge,
                     requestAge, stats, history>>
      /\ sent \in Nat /\ pos \in 0 .. sent
  BY ReorderAssumption DEF Send, IInv, TypeOK
<1>4. /\ wire' \in [0 .. sent' -> SeqNum]
      /\ \A k \in 0 .. sent : wire'[k] = wire[k]
      /\ Numbering'
  BY <1>1, NumberingStep DEF IInv, Numbering
<1>5. TypeOK'
  <2>1. /\ sent' \in 0 .. MaxSent /\ wire' \in [0 .. sent' -> SeqNum]
        /\ 0 .. sent - 1 \subseteq 0 .. sent' - 1 /\ pos' \in 0 .. sent'
    BY <1>1, <1>4, ReorderAssumption DEF history
  <2>2. out' \in Seq(0 .. sent' - 1) /\ missing' \subseteq SeqNum
    BY <1>1
  <2>3. pend' \subseteq 0 .. sent' - 1 /\ delivered' \subseteq 0 .. sent' - 1
    BY <1>1, <2>1 DEF IInv, TypeOK, history
  <2>. QED
    BY <1>1, <2>1, <2>2, <2>3 DEF IInv, TypeOK, history
<1>7. Position'
  BY <1>1, <1>4, HalfAssumption DEF IInv, Position, Lead, history
<1>8. HeldIsAhead' /\ Bounded' /\ SettleTimer' /\ TimerRunsIffBlocked'
      /\ PositionAccounted'
  BY <1>1 DEF IInv, HeldIsAhead, Bounded, MemoryBound, SettleTimer,
              TimerRunsIffBlocked, PositionAccounted, history
<1>9. Highest'
  <2>1. SUFFICES ASSUME firstAge # Never PROVE Highest'
    BY <1>1 DEF Highest
  <2>2. PICK t \in 0 .. sent - 1 :
           /\ maxSeen = wire[t] /\ t >= pos - 1
           /\ \A p \in pend : p <= t
           /\ t \in pend \cup delivered
    BY <2>1 DEF IInv, Highest
  <2>3. t \in 0 .. sent' - 1 /\ wire'[t] = wire[t]
    BY <1>1, <1>4, <2>2
  <2>. QED
    BY <1>1, <2>2, <2>3 DEF Highest, history
<1>. QED
  BY <1>4, <1>5, <1>7, <1>8, <1>9 DEF IInv

\* The passing of time moves only the timers.
LEMMA ElapseKeeps == IInv /\ Elapse => IInv'
<1>. SUFFICES ASSUME IInv, Elapse PROVE IInv'
  OBVIOUS
<1>. USE DEF Elapse, peer, history, IInv
<1>1. /\ firstAge' \in Age(Settle) /\ blockedAge' \in Age(Horizon)
      /\ requestAge' \in Age(RetransmitAfter)
  BY AgeType, ReorderAssumption DEF TypeOK
<1>2. /\ (firstAge' = Never) <=> (firstAge = Never)
      /\ (blockedAge' = Never) <=> (blockedAge = Never)
  BY AgeType, ReorderAssumption DEF Older, Never, TypeOK, Age
<1>3. TypeOK'
  BY <1>1 DEF TypeOK
<1>4. Numbering' /\ Position' /\ HeldIsAhead' /\ Bounded'
      /\ PositionAccounted'
  BY DEF Numbering, Position, Lead, HeldIsAhead, Bounded, MemoryBound,
         PositionAccounted
<1>5. SettleTimer' /\ TimerRunsIffBlocked' /\ Highest'
  BY <1>2 DEF SettleTimer, TimerRunsIffBlocked, Highest
<1>. QED
  BY <1>3, <1>4, <1>5

\* A handshake puts both sides back to the start of an epoch.
LEMMA ResetKeeps == IInv /\ Reset => IInv'
<1>. SUFFICES ASSUME IInv, Reset PROVE IInv'
  OBVIOUS
<1>. USE DEF Reset
<1>1. PICK b \in Bases : wire' = [k \in {0} |-> b]
  OBVIOUS
<1>2. wire' \in [0 .. sent' -> SeqNum] /\ wire'[0] = b /\ b \in SeqNum
  BY <1>1, ReorderAssumption
<1>3. TypeOK'
  <2>1. 0 \in SeqNum /\ Never \in Age(Settle) /\ Never \in Age(RetransmitAfter)
    BY HalfAssumption DEF SeqNum, Space, Age
  <2>2. past + (pos - start) \in Nat /\ discarded + Cardinality(pend) \in Nat
    BY ReorderAssumption, FS_CardinalityType DEF IInv, TypeOK, Bounded
  <2>3. out' \in Seq(0 .. sent' - 1) /\ epoch' \in 0 .. MaxEpochs
    BY ReorderAssumption DEF IInv, TypeOK
  <2>4. /\ sent' \in 0 .. MaxSent /\ pos' \in 0 .. sent' /\ start' \in 0 .. pos'
    BY ReorderAssumption
  <2>5. offers' \in 0 .. MaxOffers
        /\ stats' \in [Delivered : Nat, Duplicated : Nat, Late : Nat, Skipped : Nat]
    BY DEF IInv, TypeOK
  <2>. QED
    BY <1>2, <2>1, <2>2, <2>3, <2>4, <2>5, AgeType DEF TypeOK
<1>4. Numbering'
  BY <1>2, DiffSelf DEF Numbering
<1>5. Position'
  BY HalfAssumption DEF Position, Lead
<1>6. Bounded'
  BY FS_EmptySet, ReorderAssumption DEF Bounded, MemoryBound
<1>7. SettleTimer' /\ TimerRunsIffBlocked' /\ Highest'
  BY DEF SettleTimer, TimerRunsIffBlocked, Highest, Never
<1>8. PositionAccounted'
  BY ReorderAssumption DEF IInv, TypeOK, PositionAccounted
<1>. QED
  BY <1>3, <1>4, <1>5, <1>6, <1>7, <1>8 DEF IInv, HeldIsAhead

\* What every call of Push and every tick leaves in its range or alone.
CallFrame ==
  /\ maxSeen' \in SeqNum /\ requestAge' \in Age(RetransmitAfter)
  /\ missing' \subseteq SeqNum /\ asked' \subseteq SeqNum
  /\ offers' \in 0 .. MaxOffers
  /\ UNCHANGED <<sent, wire, past, discarded, epoch>>

\* MaxSeen, against the packets at hand while a call runs.
HighestOf(hand) ==
  \E t \in 0 .. sent - 1 :
     /\ maxSeen' = wire[t] /\ t >= pos - 1
     /\ \A p \in hand : p <= t
     /\ t \in hand \cup delivered

\* The packets at hand: those held, and perhaps one that has just come in.
AtHand(hand) == \E new \in {{}} \cup {{n} : n \in 0 .. sent - 1} :
                   hand = pend \cup new

\* A released run is a Release of the abstract specification.
LEMMA ReleaseRefines ==
  ASSUME IInv, NEW hand, AtHand(hand), NEW from \in hand, NEW k,
         Released(hand, from, k), hand \subseteq 0 .. sent - 1,
         from >= pos, UNCHANGED sent, started' = TRUE, pos' = from + k
  PROVE  Delivery!Next
<1>1. PICK new \in {{}} \cup {{n} : n \in 0 .. sent - 1} :
         hand = pend \cup new
  BY DEF AtHand
<1>2. /\ sent \in Nat /\ from \in 0 .. sent /\ from + k \in 0 .. sent
      /\ k \in Nat /\ k >= 1
  BY ReorderAssumption DEF IInv, TypeOK, Released
<1>3. \A p \in hand : p >= from /\ p # from + k
  <2>1. SUFFICES ASSUME NEW p \in hand PROVE p >= from /\ p # from + k
    OBVIOUS
  <2>2. CASE p \in from .. from + k - 1
    BY <1>2, <2>2
  <2>3. CASE p \notin from .. from + k - 1
    <3>1. p \in pend'
      BY <2>3 DEF Released
    <3>. QED
      BY <1>2, <3>1 DEF Released
  <2>. QED
    BY <2>2, <2>3
<1>4. /\ from < from + k /\ from .. (from + k) - 1 \subseteq hand
      /\ pend' = hand \ (from .. (from + k) - 1)
  <2>1. (from + k) - 1 = from + k - 1
    BY <1>2
  <2>. QED
    BY <1>2, <2>1 DEF Released
<1>5. out' = [i \in 1 .. (from + k) - from |-> from + i - 1]
  <2>1. (from + k) - from = k
    BY <1>2
  <2>. QED
    BY <2>1 DEF Released
<1>6. Delivery!Release(hand, from, from + k)
  BY <1>3, <1>4, <1>5, Zenon DEF Delivery!Release
<1>. QED
  BY <1>1, <1>2, <1>6 DEF Delivery!Next

\* A call that releases a run keeps the invariant.
LEMMA ReleaseStep ==
  ASSUME IInv, NEW hand, AtHand(hand), NEW from \in hand, NEW k,
         Released(hand, from, k), HighestOf(hand),
         hand \subseteq 0 .. sent - 1, Cardinality(hand) <= MaxPend + 1,
         IsFiniteSet(hand), from >= pos, sent - from < Half,
         started' = TRUE, pos' = from + k, start' \in 0 .. from,
         CallFrame, firstAge' \in Age(Settle), firstAge' # Never,
         stats' \in [Delivered : Nat, Duplicated : Nat, Late : Nat,
                     Skipped : Nat],
         stats'.Delivered + stats'.Skipped = past + (pos' - start')
  PROVE  IInv' /\ Delivery!Next
<1>1. UNCHANGED <<sent, wire, past>> /\ started'
  BY DEF CallFrame
<1>2. /\ Numbering' /\ Position' /\ HeldIsAhead' /\ Bounded'
      /\ TimerRunsIffBlocked'
      /\ next' \in SeqNum /\ pend' \subseteq 0 .. sent' - 1
      /\ blockedAge' \in Age(Horizon)
      /\ out' \in Seq(0 .. sent' - 1)
      /\ delivered' \subseteq 0 .. sent' - 1
      /\ pos' \in 0 .. sent' /\ from <= pos'
  BY <1>1, ReleaseKeeps
<1>3. start' \in 0 .. pos'
  BY <1>2
<1>4. TypeOK'
  BY <1>1, <1>2, <1>3 DEF IInv, TypeOK, CallFrame
<1>5. Highest'
  <2>1. PICK t \in 0 .. sent - 1 :
           /\ maxSeen' = wire[t] /\ \A p \in hand : p <= t
           /\ t \in hand \cup delivered
    BY DEF HighestOf
  <2>2. sent \in Nat
    BY ReorderAssumption DEF IInv, TypeOK
  <2>. QED
    BY <1>1, <2>1, <2>2, ReleaseKeepsHighest
<1>6. SettleTimer' /\ PositionAccounted'
  BY <1>1 DEF SettleTimer, PositionAccounted
<1>7. Delivery!Next
  BY <1>1, ReleaseRefines
<1>. QED
  BY <1>2, <1>4, <1>5, <1>6, <1>7 DEF IInv

\* A call that latches.
LEMMA LatchStep ==
  ASSUME IInv, ~ started, NEW hand, AtHand(hand), Latch(hand),
         HighestOf(hand),
         hand \subseteq 0 .. sent - 1, Cardinality(hand) <= MaxPend + 1,
         IsFiniteSet(hand),
         CallFrame, firstAge' \in Age(Settle), firstAge' # Never
  PROVE  IInv' /\ Delivery!Next
<1>1. PICK low \in hand, k \in SeqNum :
         /\ Released(hand, low, k) /\ sent - low < Half
         /\ started' = TRUE /\ start' = low /\ pos' = low + k
         /\ stats' = [stats EXCEPT !.Delivered = @ + k]
  BY LatchReleases
<1>2. /\ k \in Nat /\ low \in 0 .. sent - 1 /\ pos = 0 /\ start = 0
      /\ stats \in [Delivered : Nat, Duplicated : Nat, Late : Nat, Skipped : Nat]
      /\ stats.Delivered + stats.Skipped = past /\ past \in Nat
  BY <1>1 DEF Released, IInv, TypeOK, Position, PositionAccounted
<1>3. stats' \in [Delivered : Nat, Duplicated : Nat, Late : Nat, Skipped : Nat]
      /\ stats'.Delivered = stats.Delivered + k
      /\ stats'.Skipped = stats.Skipped
  BY <1>1, <1>2
<1>4. stats'.Delivered + stats'.Skipped = past + (pos' - start')
  BY <1>1, <1>2, <1>3
<1>5. start' \in 0 .. low /\ low >= pos
  BY <1>1, <1>2
<1>. QED
  BY <1>1, <1>3, <1>4, <1>5, ReleaseStep

\* A call that steps over a gap.
LEMMA SkipStep ==
  ASSUME IInv, started, NEW hand, AtHand(hand), SkipToLowest(hand),
         HighestOf(hand),
         hand \subseteq pos + 1 .. sent - 1, Cardinality(hand) <= MaxPend + 1,
         IsFiniteSet(hand), CallFrame, UNCHANGED firstAge
  PROVE  IInv' /\ Delivery!Next
<1>1. PICK low \in hand, k \in SeqNum :
         /\ Released(hand, low, k) /\ sent - low < Half
         /\ pos' = low + k /\ UNCHANGED <<started, start>>
         /\ stats' = [stats EXCEPT !.Delivered = @ + k,
                                   !.Skipped = @ + (low - pos)]
  BY SkipReleases
<1>2. /\ k \in Nat /\ pos \in 0 .. sent /\ start \in 0 .. pos /\ sent \in Nat
      /\ stats \in [Delivered : Nat, Duplicated : Nat, Late : Nat, Skipped : Nat]
      /\ stats.Delivered + stats.Skipped = past + (pos - start) /\ past \in Nat
  BY <1>1, ReorderAssumption DEF Released, IInv, TypeOK, PositionAccounted
<1>3. /\ hand \subseteq 0 .. sent - 1 /\ low > pos /\ low - pos \in Nat
      /\ low \in Int
  BY <1>2
<1>4. stats' \in [Delivered : Nat, Duplicated : Nat, Late : Nat, Skipped : Nat]
      /\ stats'.Delivered = stats.Delivered + k
      /\ stats'.Skipped = stats.Skipped + (low - pos)
  <2>1. stats.Delivered + k \in Nat /\ stats.Skipped + (low - pos) \in Nat
    BY <1>2, <1>3
  <2>2. stats' = [stats EXCEPT !.Delivered = stats.Delivered + k,
                               !.Skipped = stats.Skipped + (low - pos)]
    BY <1>1
  <2>. QED
    BY <1>2, <2>1, <2>2
<1>5. stats'.Delivered + stats'.Skipped = past + (pos' - start')
  <2>1. stats.Delivered \in Nat /\ stats.Skipped \in Nat
    BY <1>2
  <2>2. pos' = low + k /\ start' = start
    BY <1>1
  <2>. QED
    BY <1>2, <1>3, <1>4, <2>1, <2>2
<1>6. start' \in 0 .. low /\ low >= pos
  BY <1>1, <1>2, <1>3
<1>8. started' = TRUE
  <2>1. started = TRUE
    BY DEF IInv, TypeOK
  <2>. QED
    BY <1>1, <2>1
<1>7. firstAge' \in Age(Settle) /\ firstAge' # Never
  BY DEF IInv, TypeOK, SettleTimer
<1>. QED
  BY <1>1, <1>3, <1>4, <1>5, <1>6, <1>7, <1>8, ReleaseStep

\* The frame of an arrival, and what is at hand when it is added to the map.
LEMMA ArrivalFrame ==
  ASSUME IInv, NEW n \in Packet, Arrives(n)
  PROVE  /\ n \in 0 .. sent - 1 /\ sent - n < Half
         /\ CallFrame
         /\ IsFiniteSet(pend \cup {n})
         /\ Cardinality(pend \cup {n}) <= MaxPend + 1
         /\ pend \cup {n} \subseteq 0 .. sent - 1
         /\ AtHand(pend \cup {n})
<1>1. /\ sent \in Nat /\ wire \in [0 .. sent -> SeqNum]
      /\ pend \subseteq 0 .. sent - 1 /\ offers \in 0 .. MaxOffers
      /\ n < sent /\ sent - n < Half /\ maxSeen' = HighestSeen(n)
      /\ offers < MaxOffers /\ offers' = offers + 1
      /\ missing' = {} /\ UNCHANGED <<requestAge, peer, past, asked, discarded, epoch>>
      /\ maxSeen \in SeqNum
  BY ReorderAssumption DEF IInv, TypeOK, Arrives
<1>2. n \in 0 .. sent - 1
  BY <1>1, ReorderAssumption DEF Packet
<1>3. maxSeen' \in SeqNum
  BY <1>1, <1>2 DEF HighestSeen
<1>4. CallFrame
  BY <1>1, <1>3, ReorderAssumption DEF CallFrame, IInv, TypeOK, peer
<1>5. IsFiniteSet(pend \cup {n}) /\ Cardinality(pend \cup {n}) <= MaxPend + 1
  <2>1. IsFiniteSet(pend) /\ Cardinality(pend) <= MaxPend
        /\ Cardinality(pend) \in Nat
    BY FS_CardinalityType DEF IInv, Bounded, MemoryBound
  <2>2. /\ IsFiniteSet(pend \cup {n})
        /\ Cardinality(pend \cup {n}) = IF n \in pend THEN Cardinality(pend)
                                        ELSE Cardinality(pend) + 1
    BY <2>1, FS_AddElement
  <2>3. MaxPend \in Nat
    BY ReorderAssumption
  <2>. QED
    BY <2>1, <2>2, <2>3
<1>6. AtHand(pend \cup {n})
  BY <1>2 DEF AtHand
<1>. QED
  BY <1>1, <1>2, <1>4, <1>5, <1>6

\* A call that holds or drops the packet and delivers nothing.
LEMMA QuietStep ==
  ASSUME IInv, Nothing, CallFrame, IsFiniteSet(pend'), MemoryBound',
         pend' \subseteq 0 .. sent - 1,
         started => \A p \in pend' : p > pos,
         blockedAge' \in Age(Horizon),
         (blockedAge' # Never) <=> (started /\ pend' # {}),
         firstAge' \in Age(Settle),
         (firstAge' = Never) => (~ started /\ pend' = {}),
         stats' \in [Delivered : Nat, Duplicated : Nat, Late : Nat,
                     Skipped : Nat],
         stats'.Delivered = stats.Delivered, stats'.Skipped = stats.Skipped,
         firstAge' # Never =>
           \E t \in 0 .. sent - 1 :
              /\ maxSeen' = wire[t] /\ t >= pos - 1
              /\ \A p \in pend' : p <= t
              /\ t \in pend' \cup delivered
  PROVE  IInv'
<1>1. UNCHANGED <<started, next, start, pos, delivered, sent, wire, past, epoch,
                  discarded>>
      /\ out' = <<>>
  BY DEF Nothing, CallFrame
<1>2. TypeOK'
  <2>1. out' \in Seq(0 .. sent' - 1)
    BY <1>1
  <2>. QED
    BY <1>1, <2>1 DEF IInv, TypeOK, CallFrame
<1>3. Numbering' /\ Position'
  BY <1>1 DEF IInv, Numbering, Position, Lead
<1>4. HeldIsAhead' /\ Bounded' /\ SettleTimer' /\ TimerRunsIffBlocked'
  BY <1>1 DEF HeldIsAhead, Bounded, SettleTimer, TimerRunsIffBlocked
<1>5. PositionAccounted' /\ Highest'
  BY <1>1 DEF IInv, PositionAccounted, Highest
<1>. QED
  BY <1>2, <1>3, <1>4, <1>5 DEF IInv

\* A packet that was here before, or whose turn is over, is dropped.
LEMMA DropStep ==
  ASSUME IInv, NEW n \in Packet, Arrives(n), Nothing,
         UNCHANGED <<firstAge, blockedAge, pend>>,
         n \in pend \/ (started /\ n < pos),
         \/ stats' = [stats EXCEPT !.Duplicated = @ + 1]
         \/ stats' = [stats EXCEPT !.Late = @ + 1]
  PROVE  IInv' /\ Delivery!Next
<1>1. n \in 0 .. sent - 1 /\ sent - n < Half /\ CallFrame
  BY ArrivalFrame
<1>2. PICK t \in 0 .. sent - 1 :
         /\ maxSeen' = wire[t] /\ t >= pos - 1
         /\ \A p \in pend \cup {n} : p <= t
         /\ t \in pend \cup delivered \/ (t = n /\ n >= pos)
  BY <1>1, HighestAfterArrival DEF Arrives
<1>3. t \in pend \cup delivered
  <2>1. pos \in Int /\ n \in Int
    BY <1>1 DEF IInv, TypeOK
  <2>. QED
    BY <1>2, <2>1
<1>4. /\ stats' \in [Delivered : Nat, Duplicated : Nat, Late : Nat, Skipped : Nat]
      /\ stats'.Delivered = stats.Delivered /\ stats'.Skipped = stats.Skipped
  <2>1. stats \in [Delivered : Nat, Duplicated : Nat, Late : Nat, Skipped : Nat]
    BY DEF IInv, TypeOK
  <2>2. stats.Duplicated + 1 \in Nat /\ stats.Late + 1 \in Nat
    BY <2>1
  <2>3. CASE stats' = [stats EXCEPT !.Duplicated = @ + 1]
    BY <2>1, <2>2, <2>3
  <2>4. CASE stats' = [stats EXCEPT !.Late = @ + 1]
    BY <2>1, <2>2, <2>4
  <2>. QED
    BY <2>3, <2>4
<1>5. /\ IsFiniteSet(pend') /\ MemoryBound' /\ pend' \subseteq 0 .. sent - 1
      /\ started => \A p \in pend' : p > pos
      /\ blockedAge' \in Age(Horizon) /\ firstAge' \in Age(Settle)
      /\ (blockedAge' # Never) <=> (started /\ pend' # {})
      /\ (firstAge' = Never) => (~ started /\ pend' = {})
  BY DEF IInv, TypeOK, Bounded, MemoryBound, HeldIsAhead, SettleTimer,
         TimerRunsIffBlocked
<1>6. Delivery!Next
  BY <1>1 DEF Nothing, CallFrame, Delivery!Next, Delivery!Quiet
<1>. QED
  BY <1>1, <1>2, <1>3, <1>4, <1>5, <1>6, QuietStep

\* A packet is added to the map.
LEMMA HoldStep ==
  ASSUME IInv, NEW n \in Packet, Arrives(n), Nothing, UNCHANGED stats,
         pend' = pend \cup {n}, ~ OverCap(pend \cup {n}),
         started => n > pos,
         blockedAge' \in Age(Horizon), (blockedAge' # Never) <=> started,
         firstAge' \in Age(Settle), firstAge' # Never
  PROVE  IInv' /\ Delivery!Next
<1>1. n \in 0 .. sent - 1 /\ sent - n < Half /\ CallFrame
      /\ IsFiniteSet(pend \cup {n}) /\ pend \cup {n} \subseteq 0 .. sent - 1
  BY ArrivalFrame
<1>2. \E t \in 0 .. sent - 1 :
         /\ maxSeen' = wire[t] /\ t >= pos - 1
         /\ \A p \in pend' : p <= t
         /\ t \in pend' \cup delivered
  BY <1>1, HighestAfterArrival DEF Arrives
<1>3. MemoryBound'
  <2>1. Cardinality(pend') \in Nat /\ MaxPend \in Nat
    BY <1>1, FS_CardinalityType, ReorderAssumption
  <2>2. ~ (Cardinality(pend') > MaxPend)
    BY DEF OverCap
  <2>. QED
    BY <2>1, <2>2 DEF MemoryBound
<1>4. stats' \in [Delivered : Nat, Duplicated : Nat, Late : Nat, Skipped : Nat]
      /\ stats'.Delivered = stats.Delivered /\ stats'.Skipped = stats.Skipped
  BY DEF IInv, TypeOK
<1>5. started => \A p \in pend' : p > pos
  BY DEF IInv, HeldIsAhead
<1>6. Delivery!Hold(n)
  <2>1. n < sent /\ (started => n > pos)
    BY <1>1, ReorderAssumption DEF IInv, TypeOK
  <2>. QED
    BY <1>1, <2>1 DEF Nothing, CallFrame, Delivery!Hold
<1>7. Delivery!Next
  BY <1>1, <1>6 DEF Delivery!Next
<1>. QED
  BY <1>1, <1>2, <1>3, <1>4, <1>5, <1>7, QuietStep

\* Every branch of Push keeps the invariant.
LEMMA PushKeeps ==
  ASSUME IInv, NEW n \in Packet, Push(n)
  PROVE  IInv' /\ Delivery!Next
<1>1. CASE PushSettlingDuplicate(n)
  <2>1. n \in pend
    BY <1>1, ArrivalFrame, HeldIsMember DEF PushSettlingDuplicate
  <2>. QED
    BY <1>1, <2>1, DropStep DEF PushSettlingDuplicate
<1>2. CASE PushSettling(n)
  <2>. DEFINE hand == pend \cup {n}
  <2>1. ~ started /\ Arrives(n)
    BY <1>2 DEF PushSettling
  <2>2. firstAge' \in Age(Settle) /\ firstAge' # Never
    BY <1>2, ReorderAssumption DEF PushSettling, IInv, TypeOK, Age, Never
  <2>3. CASE Nothing /\ pend' = hand /\ ~ OverCap(hand)
             /\ UNCHANGED <<stats, blockedAge>>
    <3>1. blockedAge' \in Age(Horizon) /\ ((blockedAge' # Never) <=> started)
      BY <2>1, <2>3 DEF IInv, TypeOK, TimerRunsIffBlocked
    <3>. QED
      BY <2>1, <2>2, <2>3, <3>1, HoldStep
  <2>4. CASE Latch(hand)
    <3>1. n \in 0 .. sent - 1 /\ sent - n < Half /\ CallFrame
          /\ IsFiniteSet(hand) /\ Cardinality(hand) <= MaxPend + 1
          /\ hand \subseteq 0 .. sent - 1 /\ AtHand(hand)
      BY <2>1, ArrivalFrame
    <3>2. HighestOf(hand)
      BY <2>1, <3>1, HighestAfterArrival DEF Arrives, HighestOf
    <3>. QED
      BY <2>1, <2>2, <2>4, <3>1, <3>2, LatchStep
  <2>. QED
    BY <1>2, <2>3, <2>4 DEF PushSettling
<1>3. CASE PushLate(n)
  <2>1. started /\ n \in 0 .. sent - 1 /\ Diff(wire[n], next) = n - pos
    BY <1>3, ArrivalFrame, ArrivalDistance DEF PushLate
  <2>2. n < pos
    BY <1>3, <2>1 DEF PushLate, IInv, TypeOK
  <2>. QED
    BY <1>3, <2>1, <2>2, DropStep DEF PushLate
<1>4. CASE PushNext(n)
  <2>. DEFINE hand == pend \cup {n}
  <2>1. started /\ Arrives(n) /\ wire[n] = next
        /\ UNCHANGED <<started, start, firstAge>>
    BY <1>4 DEF PushNext
  <2>2. PICK k \in SeqNum :
           /\ Drain(hand, next, k) /\ pos' = n + k
           /\ stats' = [stats EXCEPT !.Delivered = @ + k]
    BY <1>4 DEF PushNext
  <2>3. n \in 0 .. sent - 1 /\ sent - n < Half /\ CallFrame
        /\ IsFiniteSet(hand) /\ Cardinality(hand) <= MaxPend + 1
        /\ hand \subseteq 0 .. sent - 1 /\ AtHand(hand)
    BY <2>1, ArrivalFrame
  <2>4. /\ sent \in Nat /\ wire \in [0 .. sent -> SeqNum]
        /\ pos \in 0 .. sent /\ start \in 0 .. pos /\ past \in Nat
        /\ stats \in [Delivered : Nat, Duplicated : Nat, Late : Nat,
                      Skipped : Nat]
    BY ReorderAssumption DEF IInv, TypeOK
  <2>5. n = pos
    <3>1. Diff(wire[n], next) = n - pos
      BY <2>1, <2>3, ArrivalDistance
    <3>2. Diff(wire[n], next) = 0
      BY <2>1, <2>3, <2>4, DiffSelf
    <3>. QED
      BY <2>3, <2>4, <3>1, <3>2
  <2>6. Window(n, hand)
    BY <2>1, <2>3, <2>4, <2>5 DEF IInv, HeldIsAhead, Window
  <2>7. Released(hand, n, k)
    BY <2>1, <2>2, <2>3, <2>4, <2>6, DrainReleases DEF IInv
  <2>8. HighestOf(hand)
    BY <2>1, <2>3, HighestAfterArrival DEF Arrives, HighestOf
  <2>9. k \in Nat /\ stats.Delivered + k \in Nat
    BY <2>4, <2>7 DEF Released
  <2>10. stats' \in [Delivered : Nat, Duplicated : Nat, Late : Nat,
                     Skipped : Nat]
         /\ stats'.Delivered = stats.Delivered + k
         /\ stats'.Skipped = stats.Skipped
    BY <2>2, <2>4, <2>9
  <2>11. stats'.Delivered + stats'.Skipped = past + (pos' - start')
    <3>1. stats.Delivered + stats.Skipped = past + (pos - start)
          /\ stats.Delivered \in Nat /\ stats.Skipped \in Nat
      BY <2>4 DEF IInv, PositionAccounted
    <3>2. pos' = pos + k /\ start' = start /\ pos \in Nat /\ start \in Nat
      BY <2>1, <2>2, <2>4, <2>5
    <3>3. past + (pos' - start') = past + (pos - start) + k
      BY <2>4, <2>9, <3>2
    <3>4. stats'.Delivered + stats'.Skipped
            = stats.Delivered + stats.Skipped + k
      BY <2>9, <2>10, <3>1
    <3>. QED
      BY <3>1, <3>3, <3>4
  <2>12. started' = TRUE
    <3>1. started = TRUE
      BY <2>1 DEF IInv, TypeOK
    <3>. QED
      BY <2>1, <3>1
  <2>13. firstAge' \in Age(Settle) /\ firstAge' # Never
    BY <2>1 DEF IInv, TypeOK, SettleTimer
  <2>14. start' \in 0 .. n /\ n >= pos
    BY <2>1, <2>4, <2>5
  <2>. QED
    BY <2>2, <2>3, <2>7, <2>8, <2>10, <2>11, <2>12, <2>13, <2>14, ReleaseStep
<1>5. CASE PushDuplicate(n)
  <2>1. n \in pend
    BY <1>5, ArrivalFrame, HeldIsMember DEF PushDuplicate
  <2>. QED
    BY <1>5, <2>1, DropStep DEF PushDuplicate
<1>6. CASE PushAhead(n)
  <2>. DEFINE hand == pend \cup {n}
  <2>1. started /\ Arrives(n) /\ UNCHANGED firstAge
    BY <1>6 DEF PushAhead
  <2>2. n \in 0 .. sent - 1 /\ sent - n < Half /\ CallFrame
        /\ IsFiniteSet(hand) /\ Cardinality(hand) <= MaxPend + 1
        /\ hand \subseteq 0 .. sent - 1 /\ AtHand(hand)
    BY <2>1, ArrivalFrame
  <2>3. n > pos /\ pos \in Nat
    <3>1. Diff(wire[n], next) = n - pos /\ Diff(wire[n], next) > 0
      BY <1>6, <2>1, <2>2, ArrivalDistance DEF PushAhead
    <3>. QED
      BY <2>2, <3>1 DEF IInv, TypeOK
  <2>4. CASE SkipToLowest(hand)
    <3>1. HighestOf(hand)
      BY <2>1, <2>2, HighestAfterArrival DEF Arrives, HighestOf
    <3>2. hand \subseteq pos + 1 .. sent - 1
      BY <2>1, <2>2, <2>3 DEF IInv, HeldIsAhead
    <3>. QED
      BY <2>1, <2>2, <2>4, <3>1, <3>2, SkipStep
  <2>5. CASE /\ pend' = hand /\ Nothing /\ ~ OverCap(hand)
             /\ blockedAge' = IF blockedAge = Never THEN 0 ELSE blockedAge
             /\ UNCHANGED stats
    <3>1. blockedAge' \in Age(Horizon) /\ blockedAge' # Never
      BY <2>5, AgeType DEF IInv, TypeOK, Never
    <3>2. firstAge' \in Age(Settle) /\ firstAge' # Never
      BY <2>1 DEF IInv, TypeOK, SettleTimer
    <3>. QED
      BY <2>1, <2>3, <2>5, <3>1, <3>2, HoldStep
  <2>. QED
    BY <1>6, <2>4, <2>5 DEF PushAhead
<1>. QED
  BY <1>1, <1>2, <1>3, <1>4, <1>5, <1>6 DEF Push

\* The tick: Missing touches nothing Expire reads, and Expire gives up on a gap
\* or ends the settle window.
LEMMA TickKeeps ==
  ASSUME IInv, Tick
  PROVE  IInv' /\ Delivery!Next
<1>1. /\ Missing /\ Expire
      /\ UNCHANGED <<maxSeen, firstAge, peer, past, offers, discarded, epoch>>
  BY DEF Tick
<1>2. Wanted \subseteq SeqNum
  BY DEF Wanted, Gaps
<1>3. CallFrame
  <2>1. CASE MayAsk
    <3>1. missing' = Wanted /\ requestAge' = 0 /\ asked' = asked \cup Wanted
      BY <1>1, <2>1 DEF Missing
    <3>2. 0 \in Age(RetransmitAfter)
      BY ReorderAssumption DEF Age
    <3>. QED
      BY <1>1, <1>2, <3>1, <3>2 DEF CallFrame, IInv, TypeOK, peer
  <2>2. CASE ~ MayAsk
    BY <1>1, <2>2 DEF Missing, CallFrame, IInv, TypeOK, peer
  <2>. QED
    BY <2>1, <2>2
<1>4. AtHand(pend)
  <2>1. pend = pend \cup {}
    OBVIOUS
  <2>. QED
    BY <2>1 DEF AtHand
<1>5. /\ IsFiniteSet(pend) /\ Cardinality(pend) <= MaxPend + 1
      /\ pend \subseteq 0 .. sent - 1 /\ pos \in 0 .. sent
  BY FS_CardinalityType, ReorderAssumption
     DEF IInv, TypeOK, Bounded, MemoryBound
<1>6. firstAge' \in Age(Settle) /\ (pend # {} => firstAge' # Never)
  BY <1>1 DEF IInv, TypeOK, SettleTimer
<1>7. pend # {} => HighestOf(pend)
  BY <1>1, <1>6 DEF IInv, Highest, HighestOf
<1>8. CASE SettleOver /\ Latch(pend)
  BY <1>3, <1>4, <1>5, <1>6, <1>7, <1>8, LatchStep DEF SettleOver
<1>9. CASE GapExpired /\ SkipToLowest(pend)
  <2>1. pend \subseteq pos + 1 .. sent - 1
    BY <1>5, <1>9 DEF IInv, HeldIsAhead, GapExpired
  <2>. QED
    BY <1>1, <1>3, <1>4, <1>5, <1>7, <1>9, <2>1, SkipStep DEF GapExpired
<1>10. CASE Nothing /\ UNCHANGED <<stats, pend, blockedAge>>
  <2>1. firstAge' # Never =>
          \E t \in 0 .. sent - 1 :
             /\ maxSeen' = wire[t] /\ t >= pos - 1
             /\ \A p \in pend' : p <= t
             /\ t \in pend' \cup delivered
    BY <1>1, <1>10 DEF IInv, Highest
  <2>2. /\ IsFiniteSet(pend') /\ MemoryBound' /\ pend' \subseteq 0 .. sent - 1
        /\ started => \A p \in pend' : p > pos
        /\ blockedAge' \in Age(Horizon)
        /\ (blockedAge' # Never) <=> (started /\ pend' # {})
        /\ (firstAge' = Never) => (~ started /\ pend' = {})
        /\ stats' \in [Delivered : Nat, Duplicated : Nat, Late : Nat,
                       Skipped : Nat]
        /\ stats'.Delivered = stats.Delivered
        /\ stats'.Skipped = stats.Skipped
    BY <1>1, <1>10 DEF IInv, TypeOK, Bounded, MemoryBound, HeldIsAhead,
                       SettleTimer, TimerRunsIffBlocked
  <2>3. Delivery!Next
    BY <1>1, <1>10 DEF Nothing, peer, Delivery!Next, Delivery!Quiet
  <2>. QED
    BY <1>3, <1>6, <1>10, <2>1, <2>2, <2>3, QuietStep
<1>. QED
  BY <1>1, <1>8, <1>9, <1>10 DEF Expire

\* One step of the system, from a state of the invariant.
LEMMA NextKeeps ==
  ASSUME IInv, [Next]_vars
  PROVE  IInv' /\ (Delivery!Next \/ UNCHANGED vars)
<1>1. CASE Send
  BY <1>1, SendKeeps DEF Send, history, Delivery!Next, Delivery!Send
<1>2. CASE Elapse
  BY <1>2, ElapseKeeps DEF Elapse, peer, history, Delivery!Next, Delivery!Quiet
<1>3. CASE Tick
  BY <1>3, TickKeeps
<1>4. CASE Reset
  BY <1>4, ResetKeeps DEF Reset, Delivery!Next, Delivery!Forget
<1>5. ASSUME NEW n \in Packet, Push(n)
      PROVE  IInv' /\ Delivery!Next
  BY <1>5, PushKeeps
<1>6. CASE UNCHANGED vars
  <2>1. IInv'
    BY <1>6 DEF vars, program, peer, history, IInv, TypeOK, Numbering,
                Position, Lead, HeldIsAhead, Bounded, MemoryBound, SettleTimer,
                TimerRunsIffBlocked, PositionAccounted, Highest
  <2>. QED
    BY <1>6, <2>1
<1>. QED
  BY <1>1, <1>2, <1>3, <1>4, <1>5, <1>6 DEF Next

-----------------------------------------------------------------------------
(* Every packet is accounted for                                           *)

\* A call that delivers: it releases a run and counts it, and no packet is
\* counted twice.
Delivers(hand) ==
  \E low \in hand : \E k \in Nat :
     /\ Released(hand, low, k)
     /\ stats'.Delivered = stats.Delivered + k
     /\ stats'.Duplicated = stats.Duplicated /\ stats'.Late = stats.Late

\* A statistics record with one or two fields raised.
LEMMA Counted ==
  ASSUME stats \in [Delivered : Nat, Duplicated : Nat, Late : Nat,
                    Skipped : Nat],
         NEW k, NEW m
  PROVE  /\ LET s == [stats EXCEPT !.Delivered = @ + k]
            IN  /\ s.Delivered = stats.Delivered + k
                /\ s.Duplicated = stats.Duplicated /\ s.Late = stats.Late
                /\ s.Skipped = stats.Skipped
         /\ LET s == [stats EXCEPT !.Delivered = @ + k, !.Skipped = @ + m]
            IN  /\ s.Delivered = stats.Delivered + k
                /\ s.Duplicated = stats.Duplicated /\ s.Late = stats.Late
         /\ LET s == [stats EXCEPT !.Duplicated = @ + 1]
            IN  /\ s.Delivered = stats.Delivered /\ s.Late = stats.Late
                /\ s.Duplicated = stats.Duplicated + 1
                /\ s.Skipped = stats.Skipped
         /\ LET s == [stats EXCEPT !.Late = @ + 1]
            IN  /\ s.Delivered = stats.Delivered /\ s.Late = stats.Late + 1
                /\ s.Duplicated = stats.Duplicated
                /\ s.Skipped = stats.Skipped
  OBVIOUS

\* Latching delivers.
LEMMA LatchDelivers ==
  ASSUME IInv, ~ started, NEW hand, hand \subseteq 0 .. sent - 1,
         IsFiniteSet(hand), Latch(hand)
  PROVE  Delivers(hand) /\ stats'.Skipped = stats.Skipped
<1>1. PICK low \in hand, k \in SeqNum :
         /\ Released(hand, low, k)
         /\ stats' = [stats EXCEPT !.Delivered = @ + k]
  BY LatchReleases
<1>2. k \in Nat BY <1>1 DEF Released
<1>3. stats \in [Delivered : Nat, Duplicated : Nat, Late : Nat, Skipped : Nat]
  BY DEF IInv, TypeOK
<1> QED BY <1>1, <1>2, <1>3, Counted DEF Delivers

\* Skipping delivers.
LEMMA SkipDelivers ==
  ASSUME IInv, started, NEW hand, hand \subseteq pos + 1 .. sent - 1,
         IsFiniteSet(hand), SkipToLowest(hand)
  PROVE  Delivers(hand)
<1>1. PICK low \in hand, k \in SeqNum :
         /\ Released(hand, low, k)
         /\ stats' = [stats EXCEPT !.Delivered = @ + k,
                                   !.Skipped = @ + (low - pos)]
  BY SkipReleases
<1>2. k \in Nat BY <1>1 DEF Released
<1>3. stats \in [Delivered : Nat, Duplicated : Nat, Late : Nat, Skipped : Nat]
  BY DEF IInv, TypeOK
<1> QED BY <1>1, <1>2, <1>3, Counted DEF Delivers

\* What Push does with the packet: counts it as seen or late, holds it, or
\* delivers it or others it was blocking.
LEMMA PushCounts ==
  ASSUME IInv, NEW n \in Packet, Push(n)
  PROVE  /\ Arrives(n)
         /\ \/ /\ Nothing /\ UNCHANGED <<pend, blockedAge>>
               /\ \/ stats' = [stats EXCEPT !.Duplicated = @ + 1]
                  \/ stats' = [stats EXCEPT !.Late = @ + 1]
            \/ /\ Nothing /\ pend' = pend \cup {n} /\ n \notin pend
               /\ UNCHANGED stats
               /\ blockedAge' \in {blockedAge, 0}
               /\ blockedAge # Never => blockedAge' = blockedAge
            \/ n \notin pend /\ Delivers(pend \cup {n})
<1> DEFINE hand == pend \cup {n}
<1>1. Arrives(n)
  BY DEF Push, PushSettlingDuplicate, PushSettling, PushLate, PushNext,
         PushDuplicate, PushAhead
<1>2. /\ n \in 0 .. sent - 1 /\ sent - n < Half
      /\ IsFiniteSet(hand) /\ hand \subseteq 0 .. sent - 1
  BY <1>1, ArrivalFrame
<1>3. ~ Held(n) => n \notin pend BY DEF Held, Keys
<1>4. CASE PushSettlingDuplicate(n) \/ PushLate(n) \/ PushDuplicate(n)
  BY <1>1, <1>4 DEF PushSettlingDuplicate, PushLate, PushDuplicate
<1>5. CASE PushSettling(n)
  <2>1. ~ started /\ ~ Held(n) BY <1>5 DEF PushSettling
  <2>2. \/ pend' = hand /\ Nothing /\ UNCHANGED <<stats, blockedAge>>
        \/ Latch(hand)
    BY <1>5 DEF PushSettling
  <2>3. CASE Latch(hand)
    <3>1. Delivers(hand) BY <1>2, <2>1, <2>3, LatchDelivers
    <3> QED BY <1>1, <1>3, <2>1, <3>1
  <2> QED BY <1>1, <1>3, <2>1, <2>2, <2>3
<1>6. CASE PushNext(n)
  <2>1. started /\ wire[n] = next BY <1>6 DEF PushNext
  <2>2. PICK k \in SeqNum : /\ Drain(hand, next, k)
                            /\ stats' = [stats EXCEPT !.Delivered = @ + k]
    BY <1>6 DEF PushNext
  <2>3. /\ sent \in Nat /\ wire \in [0 .. sent -> SeqNum] /\ pos \in 0 .. sent
        /\ stats \in [Delivered : Nat, Duplicated : Nat, Late : Nat,
                      Skipped : Nat]
    BY ReorderAssumption DEF IInv, TypeOK
  <2>4. n = pos
    <3>1. Diff(wire[n], next) = n - pos BY <1>2, <2>1, ArrivalDistance
    <3>2. Diff(wire[n], next) = 0 BY <1>2, <2>1, <2>3, DiffSelf
    <3> QED BY <1>2, <2>3, <3>1, <3>2
  <2>5. n \notin pend /\ Window(n, hand)
    BY <1>2, <2>1, <2>3, <2>4 DEF IInv, HeldIsAhead, Window
  <2>6. Released(hand, n, k)
    BY <1>2, <2>1, <2>2, <2>3, <2>5, DrainReleases DEF IInv
  <2>7. k \in Nat BY <2>6 DEF Released
  <2>8. Delivers(hand) BY <2>2, <2>3, <2>6, <2>7, Counted DEF Delivers
  <2> QED BY <1>1, <2>5, <2>8
<1>7. CASE PushAhead(n)
  <2>1. started /\ ~ Held(n) /\ Diff(wire[n], next) > 0
    BY <1>7 DEF PushAhead
  <2>2. \/ SkipToLowest(hand)
        \/ /\ pend' = hand /\ Nothing /\ UNCHANGED stats
           /\ blockedAge' = IF blockedAge = Never THEN 0 ELSE blockedAge
    BY <1>7 DEF PushAhead
  <2>3. CASE SkipToLowest(hand)
    <3>1. pos \in Nat /\ n > pos
      <4>1. Diff(wire[n], next) = n - pos BY <1>2, <2>1, ArrivalDistance
      <4> QED BY <1>2, <2>1, <4>1 DEF IInv, TypeOK
    <3>2. hand \subseteq pos + 1 .. sent - 1
      BY <1>2, <2>1, <3>1 DEF IInv, HeldIsAhead
    <3>3. Delivers(hand) BY <1>2, <2>1, <2>3, <3>2, SkipDelivers
    <3> QED BY <1>1, <1>3, <2>1, <3>3
  <2> QED BY <1>1, <1>3, <2>1, <2>2, <2>3
<1> QED BY <1>4, <1>5, <1>6, <1>7 DEF Push

\* The same for the tick.
LEMMA TickCounts ==
  ASSUME IInv, Tick
  PROVE  \/ Nothing /\ UNCHANGED <<stats, pend, blockedAge>>
         \/ Delivers(pend)
<1>1. Expire BY DEF Tick
<1>2. /\ IsFiniteSet(pend) /\ pend \subseteq 0 .. sent - 1
      /\ pos \in 0 .. sent
  BY DEF IInv, TypeOK, Bounded
<1>3. CASE SettleOver /\ Latch(pend)
  BY <1>2, <1>3, LatchDelivers DEF SettleOver
<1>4. CASE GapExpired /\ SkipToLowest(pend)
  <2>1. pend \subseteq pos + 1 .. sent - 1
    BY <1>2, <1>4 DEF IInv, HeldIsAhead, GapExpired
  <2> QED BY <1>2, <1>4, <2>1, SkipDelivers DEF GapExpired
<1> QED BY <1>1, <1>3, <1>4 DEF Expire

\* Every step keeps the account.
LEMMA StepAccounts ==
  ASSUME IInv, OffersAccounted, [Next]_vars
  PROVE  OffersAccounted'
<1>1. /\ stats \in [Delivered : Nat, Duplicated : Nat, Late : Nat,
                    Skipped : Nat]
      /\ IsFiniteSet(pend) /\ Cardinality(pend) \in Nat
      /\ discarded \in Nat /\ offers \in Nat
  BY ReorderAssumption, FS_CardinalityType DEF IInv, TypeOK, Bounded
<1>2. /\ stats.Delivered \in Nat /\ stats.Duplicated \in Nat
      /\ stats.Late \in Nat
  BY <1>1
<1>3. offers = stats.Delivered + stats.Duplicated + stats.Late
               + Cardinality(pend) + discarded
  BY DEF OffersAccounted
<1>4. ASSUME NEW hand, Delivers(hand), Cardinality(hand) \in Nat,
             discarded' = discarded,
             offers' = offers - Cardinality(pend) + Cardinality(hand)
      PROVE  OffersAccounted'
  <2>1. PICK k \in Nat :
           /\ Cardinality(pend') = Cardinality(hand) - k
           /\ stats'.Delivered = stats.Delivered + k
           /\ stats'.Duplicated = stats.Duplicated
           /\ stats'.Late = stats.Late
    BY <1>4 DEF Delivers, Released
  <2> DEFINE a == Cardinality(pend)
             b == Cardinality(hand)
             x == stats.Delivered
             y == stats.Duplicated
             z == stats.Late
  <2>2. a \in Nat /\ b \in Nat /\ x \in Nat /\ y \in Nat /\ z \in Nat
    BY <1>1, <1>2, <1>4
  <2>3. offers = x + y + z + a + discarded /\ offers' = offers - a + b
    BY <1>3, <1>4
  <2>4. /\ Cardinality(pend') = b - k /\ stats'.Delivered = x + k
        /\ stats'.Duplicated = y /\ stats'.Late = z
    BY <2>1
  <2> HIDE DEF a, b, x, y, z
  <2>5. offers' = (x + k) + y + z + (b - k) + discarded
    BY <1>1, <2>2, <2>3
  <2> QED BY <1>4, <2>4, <2>5 DEF OffersAccounted
<1>5. CASE Send \/ Elapse \/ UNCHANGED vars
  BY <1>5 DEF Send, Elapse, vars, program, history, OffersAccounted
<1>6. CASE Reset
  <2>1. /\ Cardinality(pend') = 0 /\ stats' = stats /\ offers' = offers
        /\ discarded' = discarded + Cardinality(pend)
    BY <1>6, FS_EmptySet DEF Reset
  <2> DEFINE a == Cardinality(pend)
             x == stats.Delivered
             y == stats.Duplicated
             z == stats.Late
  <2>2. a \in Nat /\ x \in Nat /\ y \in Nat /\ z \in Nat BY <1>1, <1>2
  <2>3. offers = x + y + z + a + discarded BY <1>3
  <2>4. /\ Cardinality(pend') = 0 /\ offers' = offers
        /\ discarded' = discarded + a /\ stats'.Delivered = x
        /\ stats'.Duplicated = y /\ stats'.Late = z
    BY <2>1
  <2> HIDE DEF a, x, y, z
  <2>5. offers' = x + y + z + 0 + discarded'
    BY <1>1, <2>2, <2>3, <2>4
  <2> QED BY <2>4, <2>5 DEF OffersAccounted
<1>7. CASE Tick
  <2>1. offers' = offers /\ discarded' = discarded BY <1>7 DEF Tick
  <2>2. CASE Nothing /\ UNCHANGED <<stats, pend, blockedAge>>
    BY <2>1, <2>2 DEF OffersAccounted
  <2>3. CASE Delivers(pend)
    BY <1>1, <1>4, <2>1, <2>3
  <2> QED BY <1>7, <2>2, <2>3, TickCounts
<1>8. ASSUME NEW n \in Packet, Push(n) PROVE OffersAccounted'
  <2>1. offers' = offers + 1 /\ discarded' = discarded
    BY <1>8, PushCounts DEF Arrives
  <2>2. n \notin pend => /\ Cardinality(pend \cup {n}) = Cardinality(pend) + 1
                         /\ Cardinality(pend \cup {n}) \in Nat
    <3>1. IsFiniteSet(pend \cup {n})
          /\ Cardinality(pend \cup {n}) = IF n \in pend THEN Cardinality(pend)
                                          ELSE Cardinality(pend) + 1
      <4>1. IsFiniteSet(pend) BY <1>1
      <4> QED BY <4>1, FS_AddElement
    <3> QED BY <1>1, <3>1
  <2>3. CASE /\ UNCHANGED pend
             /\ \/ stats' = [stats EXCEPT !.Duplicated = @ + 1]
                \/ stats' = [stats EXCEPT !.Late = @ + 1]
    <3>1. /\ stats'.Delivered = stats.Delivered
          /\ \/ /\ stats'.Duplicated = stats.Duplicated + 1
                /\ stats'.Late = stats.Late
             \/ /\ stats'.Duplicated = stats.Duplicated
                /\ stats'.Late = stats.Late + 1
      BY <1>1, <2>3, Counted
    <3> DEFINE a == Cardinality(pend)
               x == stats.Delivered
               y == stats.Duplicated
               z == stats.Late
    <3>2. a \in Nat /\ x \in Nat /\ y \in Nat /\ z \in Nat BY <1>1, <1>2
    <3>3. offers = x + y + z + a + discarded BY <1>3
    <3>4. /\ Cardinality(pend') = a /\ stats'.Delivered = x
          /\ \/ stats'.Duplicated = y + 1 /\ stats'.Late = z
             \/ stats'.Duplicated = y /\ stats'.Late = z + 1
      BY <2>3, <3>1
    <3> HIDE DEF a, x, y, z
    <3>5. /\ offers' = x + (y + 1) + z + a + discarded
          /\ offers' = x + y + (z + 1) + a + discarded
      BY <1>1, <2>1, <3>2, <3>3
    <3> QED BY <2>1, <3>4, <3>5 DEF OffersAccounted
  <2>4. CASE pend' = pend \cup {n} /\ n \notin pend /\ UNCHANGED stats
    <3> DEFINE a == Cardinality(pend)
               x == stats.Delivered
               y == stats.Duplicated
               z == stats.Late
    <3>1. a \in Nat /\ x \in Nat /\ y \in Nat /\ z \in Nat BY <1>1, <1>2
    <3>2. offers = x + y + z + a + discarded BY <1>3
    <3>3. /\ Cardinality(pend') = a + 1 /\ stats'.Delivered = x
          /\ stats'.Duplicated = y /\ stats'.Late = z
      BY <2>2, <2>4
    <3> HIDE DEF a, x, y, z
    <3>4. offers' = x + y + z + (a + 1) + discarded
      BY <1>1, <2>1, <3>1, <3>2
    <3> QED BY <2>1, <3>3, <3>4 DEF OffersAccounted
  <2>5. CASE n \notin pend /\ Delivers(pend \cup {n})
    <3>1. offers' = offers - Cardinality(pend) + Cardinality(pend \cup {n})
      BY <1>1, <2>1, <2>2, <2>5
    <3> QED BY <1>4, <2>1, <2>2, <2>5, <3>1
  <2> QED BY <1>8, <2>3, <2>4, <2>5, PushCounts
<1> QED BY <1>5, <1>6, <1>7, <1>8 DEF Next

-----------------------------------------------------------------------------
(* What is asked for                                                       *)

\* The highest number seen while a gap is open: that of a packet at or beyond
\* every held one.
LEMMA HighestHeld ==
  ASSUME IInv, started, pend # {}
  PROVE  \E t \in 0 .. sent - 1 :
            /\ t > pos /\ maxSeen = wire[t]
            /\ Diff(maxSeen, next) = t - pos
            /\ \A p \in pend : p <= t
<1>1. /\ sent \in Nat /\ pos \in 0 .. sent /\ next = wire[pos]
      /\ sent - pos < Half /\ pend \subseteq 0 .. sent - 1
  BY ReorderAssumption DEF IInv, TypeOK, Position, Lead
<1>2. PICK t \in 0 .. sent - 1 : /\ maxSeen = wire[t]
                                 /\ \A p \in pend : p <= t
  BY DEF IInv, SettleTimer, Highest
<1>3. t > pos
  <2>1. PICK p \in pend : p > pos BY DEF IInv, HeldIsAhead
  <2> QED BY <1>1, <1>2, <2>1
<1>4. t - pos < Half /\ pos - t < Half /\ t \in 0 .. sent
  BY <1>1, <1>3, HalfAssumption
<1>5. Diff(wire[t], wire[pos]) = t - pos BY <1>1, <1>4 DEF IInv, Numbering
<1> QED BY <1>1, <1>2, <1>3, <1>5

\* A number Missing finds absent is that of a packet between the position and
\* the highest held one.
LEMMA GapIsPacket ==
  ASSUME IInv, started, pend # {}, NEW s \in Gaps
  PROVE  \E n \in 0 .. sent - 1 :
            /\ wire[n] = s /\ n >= pos /\ Diff(s, next) = n - pos
            /\ n \notin pend
<1>1. /\ sent \in Nat /\ pos \in 0 .. sent /\ next = wire[pos]
      /\ sent - pos < Half /\ wire \in [0 .. sent -> SeqNum]
      /\ next \in SeqNum
  BY ReorderAssumption DEF IInv, TypeOK, Position, Lead
<1>2. PICK t \in 0 .. sent - 1 : t > pos /\ Diff(maxSeen, next) = t - pos
  BY HighestHeld
<1>3. /\ s \in SeqNum /\ Diff(s, next) >= 0
      /\ Diff(s, next) <= Diff(maxSeen, next) /\ s \notin Keys(pend)
  BY DEF Gaps
<1> DEFINE d == Diff(s, next)
<1>4. s = Plus(next, d) /\ d \in SeqNum /\ d \in Nat
  BY <1>1, <1>3, DiffPlus, DiffType
<1>5. d <= t - pos /\ d >= 0 BY <1>2, <1>3
<1> HIDE DEF d
<1>6. pos + d \in 0 .. sent - 1 /\ pos + d <= sent
  BY <1>1, <1>2, <1>4, <1>5
<1>7. wire[pos + d] = s
  BY <1>1, <1>4, <1>6, WireAhead DEF IInv
<1>8. pos + d \notin pend BY <1>3, <1>7 DEF Keys
<1>9. pos + d >= pos /\ (pos + d) - pos = d BY <1>1, <1>4
<1> QED BY <1>6, <1>7, <1>8, <1>9 DEF d

\* The packets right behind the position, as many as one request names, are
\* among the numbers asked for.
LEMMA FirstAreWanted ==
  ASSUME IInv, started, pend # {}, NEW n \in 0 .. sent - 1,
         pos <= n, n < pos + Limit, \A p \in pend : n < p
  PROVE  wire[n] \in Wanted
<1>1. /\ sent \in Nat /\ pos \in 0 .. sent /\ next = wire[pos]
      /\ sent - pos < Half /\ wire \in [0 .. sent -> SeqNum]
      /\ next \in SeqNum /\ pend \subseteq 0 .. sent - 1
      /\ Limit \in Nat
  BY ReorderAssumption DEF IInv, TypeOK, Position, Lead
<1>2. PICK t \in 0 .. sent - 1 : /\ Diff(maxSeen, next) = t - pos
                                 /\ \A p \in pend : p <= t
  BY HighestHeld
<1>3. n < t
  <2>1. PICK p \in pend : p \in 0 .. sent - 1 BY <1>1
  <2> QED BY <1>1, <1>2, <2>1
<1>4. Diff(wire[n], next) = n - pos /\ wire[n] \in SeqNum
  <2>1. n \in 0 .. sent /\ n - pos < Half /\ pos - n < Half
    BY <1>1, HalfAssumption
  <2> QED BY <1>1, <2>1 DEF IInv, Numbering
<1>5. wire[n] \notin Keys(pend)
  <2> SUFFICES ASSUME NEW p \in pend, wire[p] = wire[n] PROVE FALSE
    BY DEF Keys
  <2>1. p \in 0 .. sent /\ p - n < Half /\ n - p < Half /\ n \in 0 .. sent
    BY <1>1, HalfAssumption
  <2>2. Diff(wire[p], wire[n]) = p - n BY <2>1 DEF IInv, Numbering
  <2>3. Diff(wire[p], wire[n]) = 0 BY <1>4, DiffSelf
  <2>4. n < p OBVIOUS
  <2> QED BY <1>1, <2>1, <2>2, <2>3, <2>4
<1>6. wire[n] \in Gaps
  <2>1. n - pos >= 0 /\ n - pos <= t - pos BY <1>1, <1>3
  <2> QED BY <1>2, <1>4, <1>5, <2>1 DEF Gaps
<1> DEFINE m == n - pos
           before == {s \in Gaps : Diff(s, next) < Diff(wire[n], next)}
<1>7. m \in Nat /\ m < Limit BY <1>1
<1>8. Cardinality(before) <= m
  <2> DEFINE f == [i \in 0 .. m - 1 |-> Plus(next, i)]
             images == {f[i] : i \in 0 .. m - 1}
  <2>1. before \subseteq images
    <3> SUFFICES ASSUME NEW s \in before PROVE s \in images OBVIOUS
    <3>1. s \in SeqNum /\ Diff(s, next) >= 0 /\ Diff(s, next) < m
      BY <1>4 DEF Gaps
    <3>2. s = Plus(next, Diff(s, next)) /\ Diff(s, next) \in 0 .. m - 1
      BY <1>1, <1>7, <3>1, DiffPlus, DiffType
    <3> QED BY <3>2
  <2>2. f \in Surjection(0 .. m - 1, images) BY DEF Surjection
  <2>3. IsFiniteSet(0 .. m - 1) /\ Cardinality(0 .. m - 1) = m
    <3>1. 0 \in Int /\ m - 1 \in Int BY <1>7
    <3> HIDE DEF m
    <3>2. /\ IsFiniteSet(0 .. m - 1)
          /\ Cardinality(0 .. m - 1) = IF 0 > m - 1 THEN 0 ELSE (m - 1) - 0 + 1
      BY <3>1, FS_Interval
    <3> QED BY <1>7, <3>2
  <2> HIDE DEF f, images, before, m
  <2>4. IsFiniteSet(images) /\ Cardinality(images) <= m
    BY <2>2, <2>3, FS_Surjection
  <2>5. /\ IsFiniteSet(before) /\ Cardinality(before) <= Cardinality(images)
        /\ Cardinality(before) \in Nat /\ Cardinality(images) \in Nat
    BY <2>1, <2>4, FS_Subset, FS_CardinalityType
  <2> QED BY <1>7, <2>4, <2>5
<1>9. Cardinality(before) \in Nat
  <2>1. IsFiniteSet(before)
    <3>1. before \subseteq SeqNum BY DEF Gaps
    <3>2. IsFiniteSet(SeqNum)
      <4>1. 0 \in Int /\ Space - 1 \in Int BY HalfAssumption DEF Space
      <4> QED BY <4>1, FS_Interval DEF SeqNum
    <3> QED BY <3>1, <3>2, FS_Subset
  <2> QED BY <2>1, FS_CardinalityType
<1> HIDE DEF before, m
<1>10. Cardinality(before) < Limit BY <1>1, <1>7, <1>8, <1>9
<1> QED BY <1>6, <1>10 DEF Wanted, before

\* What the last request, if it is of the present gap, has asked for.
AskedFor ==
  (requestAge # Never /\ requestAge < RetransmitAfter
     /\ requestAge < blockedAge) =>
    \A n \in 0 .. sent - 1 :
       (pos <= n /\ n < pos + Limit /\ \A p \in pend : n < p)
          => wire[n] \in asked

\* Delivering starts the timer of the next gap, if there is one.
LEMMA DeliveringStartsTimer ==
  ASSUME NEW hand, Delivers(hand)
  PROVE  blockedAge' \in {Never, 0}
  BY DEF Delivers, Released, BlockedAgeOf

\* Every step keeps it.
LEMMA StepAsked ==
  ASSUME IInv, IInv', AskedFor, [Next]_vars
  PROVE  AskedFor'
<1>1. /\ sent \in Nat /\ requestAge \in Age(RetransmitAfter)
      /\ blockedAge \in Age(Horizon) /\ requestAge' \in Age(RetransmitAfter)
      /\ RetransmitAfter \in Nat /\ Horizon \in Nat
  BY ReorderAssumption, AgeType DEF IInv, TypeOK
<1>2. CASE blockedAge' \in {Never, 0}
  <2>1. ~ (requestAge' # Never /\ requestAge' < blockedAge')
    BY <1>1, <1>2 DEF Age, Never
  <2> QED BY <2>1 DEF AskedFor
<1>3. CASE UNCHANGED vars
  BY <1>3 DEF vars, program, peer, history, AskedFor
<1>4. CASE Send
  <2>1. /\ UNCHANGED <<requestAge, blockedAge, pend, pos, asked>>
        /\ sent' = sent + 1 /\ wire' = Numbered(wire, sent)
    BY <1>4 DEF Send, history
  <2>2. \A n \in 0 .. sent : wire'[n] = wire[n]
    BY <1>1, <2>1 DEF Numbered
  <2>3. ASSUME requestAge # Never, requestAge < RetransmitAfter,
               requestAge < blockedAge,
               NEW n \in 0 .. sent' - 1, pos <= n, n < pos + Limit,
               \A p \in pend : n < p
        PROVE  wire'[n] \in asked
    <3>1. blockedAge # Never BY <1>1, <2>3 DEF Age, Never
    <3>2. PICK p \in pend : p \in 0 .. sent - 1
      BY <3>1 DEF IInv, TypeOK, TimerRunsIffBlocked
    <3>3. n \in 0 .. sent - 1 BY <1>1, <2>1, <2>3, <3>2
    <3>4. n \in 0 .. sent BY <1>1, <3>3
    <3>5. wire[n] \in asked BY <2>3, <3>3 DEF AskedFor
    <3> QED BY <2>2, <3>4, <3>5
  <2> QED BY <2>1, <2>3 DEF AskedFor
<1>5. CASE Elapse
  <2>1. /\ UNCHANGED <<pend, pos, asked, sent, wire>>
        /\ blockedAge' = Older(blockedAge, Horizon)
        /\ requestAge' = Older(requestAge, RetransmitAfter)
    BY <1>5 DEF Elapse, history, peer
  <2>2. (requestAge' # Never /\ requestAge' < RetransmitAfter
           /\ requestAge' < blockedAge')
        => (requestAge # Never /\ requestAge < RetransmitAfter
              /\ requestAge < blockedAge)
    BY <1>1, <2>1 DEF Older, Age, Never
  <2> QED BY <2>1, <2>2 DEF AskedFor
<1>6. CASE Reset
  BY <1>2, <1>6 DEF Reset
<1>7. CASE Tick
  <2>1. UNCHANGED <<sent, wire>> /\ Missing BY <1>7 DEF Tick, peer
  <2>2. CASE Delivers(pend)
    BY <1>2, <2>2, DeliveringStartsTimer
  <2>3. CASE Nothing /\ UNCHANGED <<stats, pend, blockedAge>>
    <3>1. pos' = pos BY <2>3 DEF Nothing
    <3>2. CASE MayAsk
      <4>1. asked' = asked \cup Wanted BY <2>1, <3>2 DEF Missing
      <4>2. \A n \in 0 .. sent - 1 :
               (pos <= n /\ n < pos + Limit /\ \A p \in pend : n < p)
                  => wire[n] \in Wanted
        BY <3>2, FirstAreWanted DEF MayAsk
      <4> QED BY <2>1, <2>3, <3>1, <4>1, <4>2 DEF AskedFor
    <3>3. CASE ~ MayAsk
      <4>1. UNCHANGED <<requestAge, asked>> BY <2>1, <3>3 DEF Missing
      <4> QED BY <2>1, <2>3, <3>1, <4>1 DEF AskedFor
    <3> QED BY <3>2, <3>3
  <2> QED BY <1>7, <2>2, <2>3, TickCounts
<1>8. ASSUME NEW n \in Packet, Push(n) PROVE AskedFor'
  <2>1. UNCHANGED <<requestAge, sent, wire, asked>>
    BY <1>8, PushCounts DEF Arrives, peer
  <2>2. CASE Delivers(pend \cup {n})
    BY <1>2, <2>2, DeliveringStartsTimer
  <2>3. CASE /\ Nothing /\ pend \subseteq pend'
             /\ blockedAge' = blockedAge
    <3>1. pos' = pos BY <2>3 DEF Nothing
    <3> QED BY <2>1, <2>3, <3>1 DEF AskedFor
  <2>4. \/ Delivers(pend \cup {n}) \/ blockedAge' = 0
        \/ Nothing /\ pend \subseteq pend' /\ blockedAge' = blockedAge
    BY <1>8, PushCounts
  <2> QED BY <1>2, <2>2, <2>3, <2>4
<1> QED BY <1>3, <1>4, <1>5, <1>6, <1>7, <1>8 DEF Next

-----------------------------------------------------------------------------
(* Theorems                                                                *)

\* The inductive invariant holds in every reachable state: distances between
\* wire numbers are distances between packets, the position is where the wire
\* number next says, and the parts below.
THEOREM Safety == Spec => []IInv
<1>1. IInv /\ [Next]_vars => IInv'
  BY NextKeeps
<1>. QED
  BY InitIInv, <1>1, PTL DEF Spec

\* Every variable stays in its range (type Reorder).
THEOREM TypeCorrect == Spec => []TypeOK
<1>1. IInv => TypeOK
  BY DEF IInv
<1>. QED
  BY Safety, <1>1, PTL

\* The map never outgrows maxPend, whatever arrives (Push).
THEOREM MemoryIsBounded == Spec => []MemoryBound
<1>1. IInv => MemoryBound
  BY DEF IInv, Bounded
<1>. QED
  BY Safety, <1>1, PTL

\* Nothing deliverable, and nothing already passed, is left in the map (drain).
THEOREM NothingIsStuck == Spec => []HeldIsAhead
<1>1. IInv => HeldIsAhead
  BY DEF IInv
<1>. QED
  BY Safety, <1>1, PTL

\* The gap timer runs exactly while something is blocked (drain, Push).
THEOREM TimerIsRight == Spec => []TimerRunsIffBlocked
<1>1. IInv => TimerRunsIffBlocked
  BY DEF IInv
<1>. QED
  BY Safety, <1>1, PTL

\* Delivered and Skipped account for every packet stepped over (the
\* statistics).
THEOREM EveryStepIsAccounted == Spec => []PositionAccounted
<1>1. IInv => PositionAccounted
  BY DEF IInv
<1>. QED
  BY Safety, <1>1, PTL

\* MaxSeen is the highest held number, so Missing asks up to the last gap.
THEOREM ScanEndsAtHeld == Spec => []MaxSeenIsHeld
<1>1. ASSUME IInv PROVE MaxSeenIsHeld
  <2>1. SUFFICES ASSUME started, pend # {}
                 PROVE  \E p \in pend : wire[p] = maxSeen
                                       /\ \A q \in pend : q <= p
    BY DEF MaxSeenIsHeld
  <2>2. firstAge # Never
    BY <1>1, <2>1 DEF IInv, SettleTimer
  <2>3. PICK t \in 0 .. sent - 1 :
           /\ maxSeen = wire[t] /\ t >= pos - 1
           /\ \A p \in pend : p <= t
           /\ t \in pend \cup delivered
    BY <1>1, <2>2 DEF IInv, Highest
  <2>4. t \notin delivered
    <3>1. PICK p \in pend : p > pos /\ p <= t
      BY <1>1, <2>1, <2>3 DEF IInv, HeldIsAhead
    <3>2. \A d \in delivered : d < pos
      BY <1>1 DEF IInv, Position
    <3>3. p \in Int /\ pos \in Int /\ t \in Int
      BY <1>1, <3>1 DEF IInv, TypeOK
    <3>. QED
      BY <3>1, <3>2, <3>3
  <2>. QED
    BY <2>3, <2>4
<1>. QED
  BY Safety, <1>1, PTL

\* The reassembler implements ordered delivery over unbounded packet numbers,
\* so the wrap-around of the wire numbers never shows.
THEOREM Refinement == Spec => ImplementsOrderedDelivery
<1>1. Init => Delivery!Init
  BY DEF Init, Delivery!Init
<1>2. UNCHANGED vars => UNCHANGED Delivery!vars
  BY DEF vars, program, peer, history, Delivery!vars
<1>3. IInv /\ [Next]_vars => [Delivery!Next]_(Delivery!vars)
  BY <1>2, NextKeeps
<1>. QED
  BY Safety, <1>1, <1>3, PTL DEF Spec, Delivery!Spec, ImplementsOrderedDelivery

\* Packets are delivered in sending order and at most once in an epoch.
THEOREM DeliveryOrder == Spec => DeliveredInOrder
<1>. DEFINE InOrder ==
       epoch' = epoch =>
         /\ \A i \in DOMAIN out' : \A j \in DOMAIN out' :
               i < j => out'[i] < out'[j]
         /\ \A i \in DOMAIN out' : \A d \in delivered : d < out'[i]
<1>1. ASSUME IInv, [Next]_vars
      PROVE  InOrder \/ UNCHANGED vars
  <2>1. CASE UNCHANGED vars
    BY <2>1
  <2>2. CASE out' = <<>>
    <3>1. DOMAIN out' = {}
      BY <2>2
    <3>. QED
      BY <3>1
  <2>3. ASSUME NEW hand, NEW from \in 0 .. sent, NEW upto \in 0 .. sent,
               Delivery!Release(hand, from, upto)
        PROVE  InOrder
    <3>1. /\ from < upto /\ (started => from >= pos)
          /\ out' = [i \in 1 .. upto - from |-> from + i - 1]
      BY <2>3 DEF Delivery!Release
    <3>2. \A d \in delivered : d < from /\ d \in Int
      BY <1>1, <3>1 DEF IInv, Position, TypeOK
    <3>3. sent \in Nat
      BY <1>1, ReorderAssumption DEF IInv, TypeOK
    <3>4. DOMAIN out' = 1 .. upto - from
      BY <3>1
    <3>5. ASSUME NEW i \in DOMAIN out'
          PROVE  out'[i] = from + i - 1 /\ i \in Nat /\ i >= 1
      BY <3>1, <3>3, <3>4
    <3>. QED
      BY <3>2, <3>3, <3>5
  <2>4. CASE Delivery!Next
    BY <2>2, <2>3, <2>4
       DEF Delivery!Next, Delivery!Send, Delivery!Forget, Delivery!Quiet,
           Delivery!Hold
  <2>. QED
    BY <1>1, <2>1, <2>4, NextKeeps
<1>. QED
  BY Safety, <1>1, PTL DEF Spec, DeliveredInOrder
\* Every packet offered is delivered, held, counted as duplicate or late, or
\* dropped by a handshake: Push and Expire lose none (the statistics).
THEOREM EveryOfferIsAccounted == Spec => []OffersAccounted
<1>1. Init => OffersAccounted
  BY FS_EmptySet DEF Init, OffersAccounted
<1>2. IInv /\ OffersAccounted /\ [Next]_vars => OffersAccounted'
  BY StepAccounts
<1> QED BY <1>1, <1>2, Safety, PTL DEF Spec

\* A request names only packets that were sent and are neither held nor
\* delivered, although it is computed from wire numbers alone (Missing).
THEOREM RequestsAreForGaps == Spec => AsksOnlyForGaps
<1> DEFINE OnlyGaps ==
      \A s \in missing' :
         \E n \in 0 .. sent - 1 : wire[n] = s /\ n \notin pend \cup delivered
<1>1. ASSUME IInv, [Next]_vars PROVE OnlyGaps \/ UNCHANGED vars
  <2>1. CASE missing' = {} BY <2>1
  <2>2. CASE Tick /\ MayAsk
    <3>1. started /\ pend # {} BY <2>2 DEF MayAsk
    <3>2. missing' \subseteq Gaps BY <2>2 DEF Tick, Missing, Wanted
    <3>3. ASSUME NEW s \in missing'
          PROVE  \E n \in 0 .. sent - 1 :
                    wire[n] = s /\ n \notin pend \cup delivered
      <4>1. PICK n \in 0 .. sent - 1 : wire[n] = s /\ n >= pos /\ n \notin pend
        BY <1>1, <3>1, <3>2, <3>3, GapIsPacket
      <4>2. n \notin delivered
        <5>1. \A d \in delivered : d < pos /\ d \in Int
          BY <1>1 DEF IInv, TypeOK, Position
        <5>2. n \in Int /\ pos \in Int
          BY <1>1, ReorderAssumption DEF IInv, TypeOK
        <5> QED BY <4>1, <5>1, <5>2
      <4> QED BY <4>1, <4>2
    <3> QED BY <3>3
  <2>3. UNCHANGED vars \/ missing' = {} \/ (Tick /\ MayAsk)
    <3>1. ASSUME NEW n \in Packet, Push(n) PROVE missing' = {}
      BY <1>1, <3>1, PushCounts DEF Arrives
    <3>2. Tick => missing' = {} \/ MayAsk BY DEF Tick, Missing
    <3> QED BY <1>1, <3>1, <3>2 DEF Next, Send, Elapse, Reset
  <2> QED BY <2>1, <2>2, <2>3
<1> QED BY Safety, <1>1, PTL DEF Spec, AsksOnlyForGaps

\* When a request comes before a skip (60 ms against 1.5 s by default), no
\* gap is given up by the timer that was not asked for, as far as one request
\* reaches: a request for an earlier gap, whose rate limit still runs, does
\* not take its place (Missing, Expire).
THEOREM GapsAreAskedFirst ==
  ASSUME RetransmitAfter <= SkipAfter
  PROVE  Spec => AskedBeforeGivenUp
<1> DEFINE Asked ==
      (stats'.Skipped > stats.Skipped /\ offers' = offers) =>
        \A n \in Packet :
           pos <= n /\ n < out'[1] /\ n < pos + Limit => wire[n] \in asked'
<1>1. Init => AskedFor BY DEF Init, AskedFor
<1>2. IInv /\ IInv' /\ AskedFor /\ [Next]_vars => AskedFor' BY StepAsked
<1>3. ASSUME IInv, AskedFor, [Next]_vars PROVE Asked \/ UNCHANGED vars
  <2>1. /\ sent \in Nat /\ pos \in 0 .. sent /\ offers \in Nat
        /\ stats.Skipped \in Nat
        /\ requestAge \in Age(RetransmitAfter) /\ blockedAge \in Age(Horizon)
        /\ RetransmitAfter \in Nat /\ SkipAfter \in Nat /\ Horizon \in Nat
        /\ IsFiniteSet(pend) /\ pend \subseteq 0 .. sent - 1
    BY <1>3, ReorderAssumption, AgeType DEF IInv, TypeOK, Bounded
  <2>2. CASE UNCHANGED stats \/ offers' # offers BY <2>1, <2>2
  <2>3. CASE Tick /\ GapExpired /\ SkipToLowest(pend)
    <3>1. started /\ pend # {} /\ blockedAge >= SkipAfter /\ blockedAge # Never
      BY <2>3 DEF GapExpired
    <3>2. pend \subseteq pos + 1 .. sent - 1
      BY <1>3, <2>1, <3>1 DEF IInv, HeldIsAhead
    <3>3. PICK low \in pend, k \in SeqNum : Released(pend, low, k)
      BY <1>3, <2>1, <2>3, <3>1, <3>2, SkipReleases
    <3>4. out'[1] = low
      <4>1. /\ k \in Nat /\ k >= 1 /\ out' = [i \in 1 .. k |-> low + i - 1]
        BY <3>3 DEF Released
      <4>2. 1 \in 1 .. k /\ low + 1 - 1 = low BY <2>1, <4>1
      <4> QED BY <4>1, <4>2
    <3>5. \A p \in pend : low <= p
      <4>1. /\ k \in Nat /\ pend' = pend \ (low .. low + k - 1)
            /\ \A p \in pend' : p > low + k
        BY <3>3 DEF Released
      <4> QED BY <2>1, <4>1
    <3>6. ASSUME NEW n \in Packet, pos <= n, n < low, n < pos + Limit
          PROVE  wire[n] \in asked'
      <4>1. n \in 0 .. sent - 1 /\ \A p \in pend : n < p
        BY <2>1, <3>5, <3>6, ReorderAssumption DEF Packet
      <4>2. CASE MayAsk
        <5>1. wire[n] \in Wanted
          BY <1>3, <3>1, <3>6, <4>1, FirstAreWanted
        <5>2. asked' = asked \cup Wanted BY <2>3, <4>2 DEF Tick, Missing
        <5> QED BY <5>1, <5>2
      <4>3. CASE ~ MayAsk
        <5>1. blockedAge >= RetransmitAfter BY <2>1, <3>1 DEF Age, Never
        <5>2. requestAge # Never /\ requestAge < RetransmitAfter
          BY <2>1, <3>1, <4>3, <5>1 DEF MayAsk, Age, Never
        <5>3. requestAge < blockedAge
          BY <2>1, <5>1, <5>2, <3>1 DEF Age, Never
        <5>4. wire[n] \in asked
          BY <1>3, <3>6, <4>1, <5>2, <5>3 DEF AskedFor
        <5>5. asked' = asked BY <2>3, <4>3 DEF Tick, Missing
        <5> QED BY <5>4, <5>5
      <4> QED BY <4>2, <4>3
    <3> QED BY <3>4, <3>6
  <2>4. CASE Tick /\ SettleOver /\ Latch(pend)
    <3>1. stats'.Skipped = stats.Skipped
      BY <1>3, <2>1, <2>4, LatchDelivers DEF SettleOver
    <3> QED BY <2>1, <3>1
  <2>5. \/ UNCHANGED stats \/ offers' # offers
        \/ Tick /\ GapExpired /\ SkipToLowest(pend)
        \/ Tick /\ SettleOver /\ Latch(pend)
    <3>1. ASSUME NEW n \in Packet, Push(n) PROVE offers' # offers
      <4>1. offers' = offers + 1 BY <1>3, <3>1, PushCounts DEF Arrives
      <4> QED BY <2>1, <4>1
    <3> QED BY <1>3, <3>1
            DEF Next, Send, Elapse, Reset, Tick, Expire, vars, program
  <2> QED BY <2>2, <2>3, <2>4, <2>5
<1> QED BY Safety, <1>1, <1>2, <1>3, PTL DEF Spec, AskedBeforeGivenUp
=============================================================================
