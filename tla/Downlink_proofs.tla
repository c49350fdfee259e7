--------------------------- MODULE Downlink_proofs ---------------------------
(***************************************************************************)
(* The safety of the stash for every word width, stash limit and number of *)
(* frames, in every epoch that no acknowledgement of an earlier one has    *)
(* reached.  The argument: the stash is always a run of consecutive frames *)
(* that ends with the newest, because put drops only its oldest frame      *)
(* (lemma PutKeepsRun) and an acknowledgement frees a prefix of it (lemma  *)
(* AckFreesPrefix).  An acknowledgement that crosses a handshake ends the  *)
(* run, and the next handshake starts a new one: so the invariant carries  *)
(* the type in every state, and the run in the undisturbed ones.           *)
(***************************************************************************)
EXTENDS Downlink, FiniteSetTheorems, TLAPS

-----------------------------------------------------------------------------
(* The wrapping sequence numbers, for every width of the word              *)

\* Addition stays in the word (uint32 arithmetic).
LEMMA PlusType ==
  ASSUME NEW a \in SeqNum, NEW i \in SeqNum
  PROVE  Plus(a, i) \in SeqNum
BY HalfAssumption DEF SeqNum, Space, Plus

\* A number is at distance zero from itself.
LEMMA DiffSelf ==
  ASSUME NEW a \in SeqNum
  PROVE  Diff(a, a) = 0
BY HalfAssumption DEF SeqNum, Space, Diff

\* Numbering one more packet moves it one further away from every earlier one,
\* seen from either side (next++ and its peers).
LEMMA DiffStep ==
  ASSUME NEW a \in SeqNum, NEW b \in SeqNum,
         Diff(a, b) >= 0, Diff(a, b) < Half - 1
  PROVE  /\ Diff(Plus(a, 1), b) = Diff(a, b) + 1
         /\ Diff(b, Plus(a, 1)) = -(Diff(a, b) + 1)
BY HalfAssumption DEF SeqNum, Space, Diff, Plus

\* Numbering one more packet keeps distances between numbers equal to
\* distances between packets, below half the space.
LEMMA NumberingStep ==
  ASSUME NEW n \in Nat, NEW w \in [0 .. n -> SeqNum],
         \A a, b \in 0 .. n :
            (a - b < Half /\ b - a < Half) => Diff(w[a], w[b]) = a - b
  PROVE  /\ Numbered(w, n) \in [0 .. n + 1 -> SeqNum]
         /\ \A a \in 0 .. n : Numbered(w, n)[a] = w[a]
         /\ \A a, b \in 0 .. n + 1 :
               (a - b < Half /\ b - a < Half) =>
                  Diff(Numbered(w, n)[a], Numbered(w, n)[b]) = a - b
<1>. DEFINE v == Numbered(w, n)
<1>1. 1 \in SeqNum /\ w[n] \in SeqNum
  BY HalfAssumption DEF SeqNum, Space
<1>2. Plus(w[n], 1) \in SeqNum
  BY <1>1, PlusType
<1>3. v \in [0 .. n + 1 -> SeqNum] /\ \A a \in 0 .. n : v[a] = w[a]
  BY <1>2 DEF Numbered
<1>4. v[n + 1] = Plus(w[n], 1)
  BY DEF Numbered
<1>. HIDE DEF v
<1>5. ASSUME NEW c \in 0 .. n, n + 1 - c < Half
      PROVE  /\ Diff(Plus(w[n], 1), w[c]) = n + 1 - c
             /\ Diff(w[c], Plus(w[n], 1)) = c - (n + 1)
  <2>1. Diff(w[n], w[c]) = n - c
    BY <1>5, HalfAssumption
  <2>2. w[c] \in SeqNum
    OBVIOUS
  <2>3. Diff(w[n], w[c]) >= 0 /\ Diff(w[n], w[c]) < Half - 1
    BY <1>5, <2>1, HalfAssumption
  <2>4. /\ Diff(Plus(w[n], 1), w[c]) = (n - c) + 1
        /\ Diff(w[c], Plus(w[n], 1)) = -((n - c) + 1)
    BY <1>1, <2>1, <2>2, <2>3, DiffStep
  <2>. QED
    BY <2>4
<1>6. SUFFICES ASSUME NEW a \in 0 .. n + 1, NEW b \in 0 .. n + 1,
                      a - b < Half, b - a < Half
               PROVE  Diff(v[a], v[b]) = a - b
  BY <1>3 DEF v
<1>7. CASE a <= n /\ b <= n
  BY <1>3, <1>6, <1>7
<1>8. CASE a = n + 1 /\ b <= n
  BY <1>3, <1>4, <1>5, <1>6, <1>8
<1>9. CASE a <= n /\ b = n + 1
  BY <1>3, <1>4, <1>5, <1>6, <1>9
<1>10. CASE a = n + 1 /\ b = n + 1
  BY <1>2, <1>4, <1>10, DiffSelf
<1>. QED
  BY <1>6, <1>7, <1>8, <1>9, <1>10
-----------------------------------------------------------------------------

-----------------------------------------------------------------------------

\* The initial state: one number assigned, nothing stashed.
LEMMA InitIInv == Init => IInv
<1>. SUFFICES ASSUME Init PROVE TypeOK /\ Undisturbed
  BY DEF IInv
<1>. USE DEF Init
<1>1. 0 \in SeqNum /\ Half \in Nat /\ Half > 0
  BY HalfAssumption DEF SeqNum, Space
<1>2. TypeOK
  <2>1. wire \in [0 .. sent -> SeqNum] /\ 0 .. sent = {0}
    BY <1>1
  <2>2. legOpen \in BOOLEAN /\ crossed \in BOOLEAN /\ stale \subseteq SeqNum
    OBVIOUS
  <2>3. sent \in 0 .. MaxSent /\ epoch \in 0 .. MaxEpochs /\ peerPos \in 0 .. sent
    BY DownlinkAssumption
  <2>4. /\ m \subseteq 0 .. sent - 1 /\ order \subseteq 0 .. sent - 1
        /\ flying \subseteq 0 .. sent - 1 /\ got \subseteq peerPos .. sent - 1
        /\ asked \subseteq 0 .. sent - 1
    OBVIOUS
  <2>. HIDE DEF Init
  <2>. QED
    BY <2>1, <2>2, <2>3, <2>4 DEF TypeOK
<1>3. Numbering
  BY <1>1, DiffSelf DEF Numbering
<1>4. StashIsRun
  BY DownlinkAssumption DEF StashIsRun
<1>. QED
  BY <1>1, <1>2, <1>3, <1>4 DEF Undisturbed, OrderListsMap

\* A state of an epoch that nothing has crossed into.
Calm == TypeOK /\ Undisturbed

\* What a numbered frame's acknowledgement covers of the stash is what was
\* numbered no later.
LEMMA AckFreesPrefix ==
  ASSUME Calm, NEW p \in 1 .. MaxSent, p <= peerPos, sent - p < Half,
         NEW q \in m
  PROVE  Acked(q, wire[p - 1]) <=> q < p
<1>1. /\ sent \in Nat /\ peerPos \in 0 .. sent /\ Half \in Nat
      /\ m \subseteq 0 .. sent - 1
  BY DownlinkAssumption, HalfAssumption DEF Calm, Undisturbed, TypeOK
<1>2. PICK low \in 0 .. sent : m = low .. sent - 1 /\ sent - low <= StashLimit
  BY DEF Calm, Undisturbed, StashIsRun
<1>3. q \in low .. sent - 1 /\ p - 1 \in 0 .. sent - 1 /\ MaxSent \in Nat
  BY <1>1, <1>2, DownlinkAssumption
<1>4. q - (p - 1) < Half /\ (p - 1) - q < Half
  BY <1>1, <1>2, <1>3, DownlinkAssumption
<1>5. Diff(wire[q], wire[p - 1]) = q - (p - 1)
  BY <1>1, <1>3, <1>4 DEF Calm, Undisturbed, Numbering
<1>. QED
  BY <1>3, <1>5 DEF Acked

\* put appends the new frame and drops at most the oldest one.
LEMMA PutKeepsRun ==
  ASSUME Calm, Put(sent), sent' = sent + 1,
         NEW low \in 0 .. sent, m = low .. sent - 1, sent - low <= StashLimit
  PROVE  /\ order' = m'
         /\ m' = IF sent + 1 - low <= StashLimit THEN low .. sent
                                                  ELSE low + 1 .. sent
<1>1. /\ sent \in Nat /\ Half \in Nat /\ StashLimit \in Nat /\ StashLimit >= 1
      /\ StashLimit < Half /\ order = m /\ wire \in [0 .. sent -> SeqNum]
  BY DownlinkAssumption, HalfAssumption DEF Calm, Undisturbed, TypeOK, OrderListsMap
<1>2. ASSUME NEW p \in m PROVE wire[p] # wire[sent]
  <2>1. p \in low .. sent - 1
    OBVIOUS
  <2>2. sent - p < Half /\ p - sent < Half /\ p \in 0 .. sent /\ p - sent # 0
    BY <1>1, <2>1
  <2>3. Diff(wire[p], wire[sent]) = p - sent
    BY <1>1, <2>2 DEF Calm, Undisturbed, Numbering
  <2>. QED
    BY <1>1, <2>2, <2>3, DiffSelf
<1>. DEFINE map == low .. sent
            rest(cut) == {p \in map : p >= cut}
<1>3. /\ ~ \E p \in m : wire[p] = wire[sent]
      /\ {p \in m : wire[p] # wire[sent]} \cup {sent} = map
      /\ order \cup {sent} = map
  BY <1>1, <1>2
<1>4. PICK cut \in 0 .. sent + 1 :
         /\ Enough(map, map, cut)
         /\ \A c \in 0 .. cut - 1 : ~ Enough(map, map, c)
         /\ m' = {p \in map : p \notin map \/ p >= cut}
         /\ order' = rest(cut)
  <2>. HIDE DEF map
  <2>. QED
    BY <1>3, Zenon DEF Put
<1>5. m' = rest(cut) /\ order' = m'
  BY <1>4
<1>6. ASSUME NEW c \in 0 .. sent + 1
      PROVE  rest(c) = IF c <= low THEN low .. sent ELSE c .. sent
  BY <1>1
<1>7. ASSUME NEW c \in 0 .. sent + 1
      PROVE  Enough(map, map, c) <=>
               (IF c <= low THEN sent + 1 - low ELSE sent + 1 - c) <= StashLimit
  <2>1. {p \in map : p \notin map \/ p >= c} = rest(c)
    OBVIOUS
  <2>2. Cardinality(rest(c))
          = IF c <= low THEN sent + 1 - low ELSE sent + 1 - c
    <3>1. CASE c <= low
      <4>1. low \in Int /\ sent \in Int /\ low <= sent /\ rest(c) = low .. sent
        BY <1>1, <1>6, <3>1
      <4>2. Cardinality(low .. sent) = IF low > sent THEN 0 ELSE sent - low + 1
        BY <4>1, FS_Interval
      <4>3. Cardinality(low .. sent) = sent + 1 - low
        BY <4>1, <4>2
      <4>. HIDE DEF rest
      <4>. QED
        BY <3>1, <4>1, <4>3
    <3>2. CASE c > low
      <4>1. c \in Int /\ sent \in Int /\ rest(c) = c .. sent
        BY <1>1, <1>6, <3>2
      <4>2. Cardinality(c .. sent) = IF c > sent THEN 0 ELSE sent - c + 1
        BY <4>1, FS_Interval
      <4>3. Cardinality(c .. sent) = sent + 1 - c /\ ~ (c <= low)
        BY <1>1, <3>2, <4>2
      <4>. HIDE DEF rest
      <4>. QED
        BY <4>1, <4>3
    <3>. QED
      BY <1>1, <3>1, <3>2
  <2>3. (\A p \in map : p < c) => sent < c
    BY <1>1
  <2>4. Enough(map, map, c) <=>
          (Cardinality(rest(c)) <= StashLimit \/ \A p \in map : p < c)
    BY <2>1 DEF Enough
  <2>5. sent < c => sent + 1 - c <= StashLimit /\ ~ (c <= low)
    BY <1>1
  <2>6. (sent < c) => \A p \in map : p < c
    BY <1>1
  <2>. HIDE DEF rest, map
  <2>. QED
    BY <2>2, <2>3, <2>4, <2>5
<1>8. CASE sent + 1 - low <= StashLimit
  <2>1. Enough(map, map, 0)
    BY <1>1, <1>7, <1>8
  <2>2. cut = 0
    BY <1>1, <1>4, <2>1
  <2>. QED
    BY <1>1, <1>5, <1>6, <1>8, <2>2
<1>9. CASE sent + 1 - low > StashLimit
  <2>1. sent - low = StashLimit /\ low + 1 \in 0 .. sent + 1
    BY <1>1, <1>9
  <2>2. Enough(map, map, low + 1)
    BY <1>1, <1>7, <2>1
  <2>3. cut <= low + 1
    BY <1>1, <1>4, <2>1, <2>2
  <2>4. ~ (cut <= low)
    BY <1>1, <1>4, <1>7, <1>9
  <2>5. cut = low + 1
    BY <2>1, <2>3, <2>4
  <2>. QED
    BY <1>1, <1>5, <1>6, <1>9, <2>1, <2>5
<1>. QED
  BY <1>1, <1>5, <1>8, <1>9

\* Numbering and stashing one more frame.
LEMMA SendKeeps == Calm /\ SendDown => Undisturbed'
<1>. SUFFICES ASSUME Calm, SendDown PROVE Undisturbed'
  OBVIOUS
<1>1. /\ sent \in Nat /\ sent < MaxSent /\ sent' = sent + 1
      /\ sent + 1 - peerPos < Half /\ peerPos \in 0 .. sent
      /\ wire \in [0 .. sent -> SeqNum]
      /\ wire' = Numbered(wire, sent)
      /\ UNCHANGED <<legOpen, got, peerPos, asked, past>>
      /\ flying' \subseteq flying \cup {sent}
      /\ StashLimit \in Nat
  BY DownlinkAssumption DEF SendDown, Calm, Undisturbed, TypeOK, peer
<1>2. wire' \in [0 .. sent' -> SeqNum] /\ Numbering'
  BY <1>1, NumberingStep DEF Calm, Undisturbed, Numbering
<1>3. PICK low \in 0 .. sent : /\ m = low .. sent - 1 /\ sent - low <= StashLimit
                               /\ low <= peerPos \/ sent - low = StashLimit
  BY DEF Calm, Undisturbed, StashIsRun
<1>4. Put(sent)
  BY DEF SendDown
<1>5. /\ order' = m'
      /\ m' = IF sent + 1 - low <= StashLimit THEN low .. sent
                                               ELSE low + 1 .. sent
  BY <1>1, <1>3, <1>4, PutKeepsRun
<1>6. StashIsRun'
  <2>1. CASE sent + 1 - low <= StashLimit
    <3>1. low \in 0 .. sent' /\ m' = low .. sent' - 1 /\ low <= peerPos'
      BY <1>1, <1>3, <1>5, <2>1
    <3>. QED
      BY <1>1, <2>1, <3>1 DEF StashIsRun
  <2>2. CASE sent + 1 - low > StashLimit
    <3>1. /\ low + 1 \in 0 .. sent' /\ m' = low + 1 .. sent' - 1
          /\ sent' - (low + 1) = StashLimit
      BY <1>1, <1>3, <1>5, <2>2
    <3>. QED
      BY <1>1, <3>1 DEF StashIsRun
  <2>. QED
    BY <1>1, <1>3, <2>1, <2>2
<1>. QED
  BY <1>1, <1>2, <1>5, <1>6 DEF Calm, Undisturbed, OrderListsMap

\* A cumulative acknowledgement frees a prefix of the run.
LEMMA AckKeeps ==
  ASSUME NEW p \in 1 .. MaxSent
  PROVE  Calm /\ HandleAck(p) => Undisturbed'
<1>. SUFFICES ASSUME Calm, HandleAck(p) PROVE Undisturbed'
  OBVIOUS
<1>1. /\ p <= peerPos /\ sent - p < Half /\ AckUpTo(wire[p - 1])
      /\ UNCHANGED <<sent, wire, legOpen, flying, got, peerPos, asked, past>>
      /\ order = m /\ sent \in Nat /\ peerPos \in 0 .. sent /\ p \in Nat
  BY DownlinkAssumption DEF HandleAck, Calm, Undisturbed, TypeOK, OrderListsMap, peer
<1>2. PICK low \in 0 .. sent : /\ m = low .. sent - 1 /\ sent - low <= StashLimit
                               /\ low <= peerPos \/ sent - low = StashLimit
  BY DEF Calm, Undisturbed, StashIsRun
<1>3. \A q \in m : Acked(q, wire[p - 1]) <=> q < p
  BY <1>1, AckFreesPrefix
<1>4. m' = {q \in m : q >= p} /\ order' = m'
  BY <1>1, <1>2, <1>3 DEF AckUpTo, KeptInOrder
<1>5. StashIsRun'
  <2>1. CASE p <= low
    <3>1. m' = low .. sent' - 1
      BY <1>1, <1>2, <1>4, <2>1
    <3>. QED
      BY <1>1, <1>2, <3>1 DEF StashIsRun
  <2>2. CASE p > low
    <3>1. /\ m' = p .. sent' - 1 /\ p \in 0 .. sent' /\ sent' - p <= StashLimit
          /\ p <= peerPos'
      BY <1>1, <1>2, <1>4, <2>2, DownlinkAssumption
    <3>. QED
      BY <3>1 DEF StashIsRun
  <2>. QED
    BY <1>1, <1>2, <2>1, <2>2
<1>. QED
  BY <1>1, <1>4, <1>5 DEF Calm, Undisturbed, OrderListsMap, Numbering

\* The peer's own steps move its position forward and leave the stash alone.
LEMMA PassesKeeps ==
  ASSUME Calm, NEW set, set \subseteq 0 .. sent - 1,
         NEW pos \in peerPos .. sent, Passes(set, pos),
         UNCHANGED <<sent, wire, stash, legOpen, past>>
  PROVE  Undisturbed'
<1>1. PICK n \in pos .. sent :
         /\ peerPos' = n /\ got' = {p \in set : p > n}
         /\ flying' = {p \in flying : p >= n}
         /\ asked' = {p \in asked : p >= n}
  BY DEF Passes
<1>2. /\ sent \in Nat /\ peerPos \in 0 .. sent /\ n \in 0 .. sent /\ n >= peerPos
      /\ Half \in Nat
  BY HalfAssumption DEF Calm, Undisturbed, TypeOK
<1>3. StashIsRun'
  <2>1. PICK low \in 0 .. sent : /\ m = low .. sent - 1
                                 /\ sent - low <= StashLimit
                                 /\ low <= peerPos \/ sent - low = StashLimit
    BY DEF Calm, Undisturbed, StashIsRun
  <2>2. low <= peerPos' \/ sent - low = StashLimit
    BY <1>1, <1>2, <2>1
  <2>. QED
    BY <2>1, <2>2 DEF StashIsRun, stash
<1>4. sent' - peerPos' < Half
  BY <1>1, <1>2 DEF Calm, Undisturbed
<1>. QED
  BY <1>3, <1>4 DEF Calm, Undisturbed, Numbering, OrderListsMap, stash

\* A handshake starts an empty run.
LEMMA ResetKeeps ==
  ASSUME ResetForHandshake
  PROVE  Undisturbed'
<1>1. /\ sent' = 0 /\ wire' = [k \in {0} |-> 0] /\ m' = {} /\ order' = {}
      /\ peerPos' = 0
  BY DEF ResetForHandshake
<1>2. 0 \in SeqNum /\ Half \in Nat /\ Half > 0
  BY HalfAssumption DEF SeqNum, Space
<1>3. Numbering'
  BY <1>1, <1>2, DiffSelf DEF Numbering
<1>4. StashIsRun'
  BY <1>1, DownlinkAssumption DEF StashIsRun
<1>. QED
  BY <1>1, <1>2, <1>3, <1>4 DEF Undisturbed, OrderListsMap

\* Steps that change neither the counter, the stash nor the peer's position.
LEMMA QuietKeeps ==
  ASSUME Calm, UNCHANGED <<sent, wire, stash, peerPos>>
  PROVE  Undisturbed'
BY DEF Calm, Undisturbed, Numbering, OrderListsMap, StashIsRun, stash

\* The types are kept in every epoch, also where the stash is no run any more.
LEMMA PassesType ==
  ASSUME TypeOK, NEW set, set \subseteq 0 .. sent - 1,
         NEW pos \in peerPos .. sent, Passes(set, pos),
         UNCHANGED <<sent, wire, stash, legOpen, past>>
  PROVE  TypeOK'
<1>1. PICK n \in pos .. sent :
         /\ peerPos' = n /\ got' = {p \in set : p > n}
         /\ flying' = {p \in flying : p >= n}
         /\ asked' = {p \in asked : p >= n}
  BY DEF Passes
<1>2. sent \in Nat /\ peerPos \in 0 .. sent /\ n \in 0 .. sent
  BY DEF TypeOK
<1>3. \A p \in got' : p \in n .. sent - 1
  BY <1>1, <1>2
<1>4. /\ got' \subseteq peerPos' .. sent' - 1
      /\ flying' \subseteq flying /\ asked' \subseteq asked
  BY <1>1, <1>3
<1>. QED
  BY <1>1, <1>2, <1>4 DEF TypeOK, stash, past

\* A frame more: the counter, the map and the list stay in range (put).
LEMMA SendType == TypeOK /\ SendDown => TypeOK'
<1>. SUFFICES ASSUME TypeOK, SendDown PROVE TypeOK'
  OBVIOUS
<1>1. /\ sent \in Nat /\ sent < MaxSent /\ sent' = sent + 1
      /\ peerPos \in 0 .. sent /\ wire \in [0 .. sent -> SeqNum]
      /\ wire' = Numbered(wire, sent)
      /\ UNCHANGED <<legOpen, got, peerPos, asked, stale, crossed, epoch>>
      /\ flying' \subseteq flying \cup {sent}
  BY DownlinkAssumption DEF SendDown, TypeOK, peer, past
<1>2. wire' \in [0 .. sent' -> SeqNum]
  <2>1. /\ sent \in 0 .. sent /\ wire[sent] \in SeqNum
        /\ 1 \in SeqNum
    BY <1>1, HalfAssumption DEF Space, SeqNum
  <2>2. Plus(wire[sent], 1) \in SeqNum
    BY <2>1, PlusType
  <2>3. ASSUME NEW k \in 0 .. sent + 1
        PROVE  (IF k <= sent THEN wire[k] ELSE Plus(wire[sent], 1)) \in SeqNum
    BY <1>1, <2>2
  <2>. QED
    BY <1>1, <2>3 DEF Numbered
<1>3. m' \subseteq m \cup {sent} /\ order' \subseteq order \cup {sent}
  BY DEF SendDown, Put
<1>4. /\ sent' \in 0 .. MaxSent /\ peerPos' \in 0 .. sent'
      /\ 0 .. sent - 1 \subseteq 0 .. sent' - 1 /\ sent \in 0 .. sent' - 1
  BY <1>1, DownlinkAssumption
<1>5. /\ flying' \subseteq 0 .. sent' - 1 /\ got' \subseteq peerPos' .. sent' - 1
      /\ asked' \subseteq 0 .. sent' - 1
  BY <1>1, <1>4 DEF TypeOK
<1>6. m' \subseteq 0 .. sent' - 1 /\ order' \subseteq 0 .. sent' - 1
  BY <1>3, <1>4 DEF TypeOK
<1>. QED
  BY <1>1, <1>2, <1>4, <1>5, <1>6 DEF TypeOK

\* A handshake: every variable starts over in range (resetForHandshake).
LEMMA ResetType == TypeOK /\ ResetForHandshake => TypeOK'
<1>. SUFFICES ASSUME TypeOK, ResetForHandshake PROVE TypeOK'
  OBVIOUS
<1>1. /\ sent' = 0 /\ wire' = [k \in {0} |-> 0] /\ m' = {} /\ order' = {}
      /\ flying' = {} /\ got' = {} /\ peerPos' = 0 /\ asked' = {}
      /\ stale' = stale \cup {wire[p - 1] : p \in 1 .. peerPos}
      /\ legOpen' = legOpen /\ crossed' = FALSE
      /\ epoch < MaxEpochs /\ epoch' = epoch + 1
  BY DEF ResetForHandshake
<1>2. 0 \in SeqNum
  BY HalfAssumption DEF SeqNum, Space
<1>3. wire' \in [0 .. sent' -> SeqNum]
  <2>1. 0 .. sent' = {0}
    BY <1>1
  <2>. QED
    BY <1>1, <1>2, <2>1
<1>4. ASSUME NEW p \in 1 .. peerPos PROVE wire[p - 1] \in SeqNum
  <2>1. p - 1 \in 0 .. sent
    BY DownlinkAssumption DEF TypeOK
  <2>. QED
    BY <2>1 DEF TypeOK
<1>5. stale' \subseteq SeqNum
  BY <1>1, <1>4 DEF TypeOK
<1>6. /\ sent' \in 0 .. MaxSent /\ epoch' \in 0 .. MaxEpochs
      /\ peerPos' \in 0 .. sent'
  BY <1>1, DownlinkAssumption DEF TypeOK
<1>7. legOpen' \in BOOLEAN /\ crossed' \in BOOLEAN
  BY <1>1, Zenon DEF TypeOK
<1>. QED
  BY <1>1, <1>3, <1>5, <1>6, <1>7 DEF TypeOK

\* Every step of every epoch keeps the types.
LEMMA TypeKeeps == TypeOK /\ [Next]_vars => TypeOK'
<1>. SUFFICES ASSUME TypeOK, [Next]_vars PROVE TypeOK'
  OBVIOUS
<1>. USE DEF stash, peer, past
<1>1. CASE SendDown
  BY <1>1, SendType
<1>2. CASE LegOpens \/ LegCloses
  BY <1>2 DEF LegOpens, LegCloses, TypeOK
<1>3. CASE ResetForHandshake
  BY <1>3, ResetType
<1>4. CASE \E p \in 1 .. MaxSent : HandleAck(p)
  BY <1>4 DEF HandleAck, AckUpTo, KeptInOrder, TypeOK
<1>5. CASE \E s \in stale : HandleStaleAck(s)
  BY <1>5 DEF HandleStaleAck, AckUpTo, KeptInOrder, TypeOK
<1>6. CASE \E set \in SUBSET asked : Resend(set)
  BY <1>6 DEF Resend, TypeOK
<1>7. CASE \E p \in flying : PeerReceives(p)
  <2>1. PICK p \in flying : PeerReceives(p)
    BY <1>7
  <2>2. got \cup {p} \subseteq 0 .. sent - 1 /\ peerPos \in peerPos .. sent
    BY DownlinkAssumption DEF TypeOK
  <2>. QED
    BY <2>1, <2>2, PassesType DEF PeerReceives
<1>8. CASE PeerAsks
  <2>1. Holes \subseteq 0 .. sent - 1
    BY DownlinkAssumption DEF Holes, TypeOK
  <2>2. asked' = asked \cup Holes
        /\ UNCHANGED <<sent, wire, m, order, legOpen, flying, got, peerPos, stale,
                       crossed, epoch>>
    BY <1>8 DEF PeerAsks
  <2>. QED
    BY <2>1, <2>2 DEF TypeOK
<1>9. CASE PeerSkips
  <2>1. PICK q \in got : Passes(got, q)
    BY <1>9 DEF PeerSkips
  <2>2. got \subseteq 0 .. sent - 1 /\ q \in peerPos .. sent
    BY DownlinkAssumption DEF TypeOK
  <2>. QED
    BY <1>9, <2>1, <2>2, PassesType DEF PeerSkips
<1>10. CASE UNCHANGED vars
  BY <1>10 DEF vars, TypeOK
<1>. QED
  BY <1>1, <1>2, <1>3, <1>4, <1>5, <1>6, <1>7, <1>8, <1>9, <1>10 DEF Next

\* Steps of an undisturbed epoch keep the run, unless one crosses a handshake.
LEMMA CalmKeeps ==
  ASSUME Calm, [Next]_vars, ~ crossed'
  PROVE  Undisturbed'
<1>. USE DEF stash, peer, past
<1>1. CASE SendDown
  BY <1>1, SendKeeps
<1>2. CASE LegOpens \/ LegCloses
  BY <1>2, QuietKeeps DEF LegOpens, LegCloses
<1>3. CASE ResetForHandshake
  BY <1>3, ResetKeeps
<1>4. CASE \E p \in 1 .. MaxSent : HandleAck(p)
  BY <1>4, AckKeeps
<1>5. CASE \E s \in stale : HandleStaleAck(s)
  BY <1>5 DEF HandleStaleAck
<1>6. CASE \E set \in SUBSET asked : Resend(set)
  BY <1>6, QuietKeeps DEF Resend
<1>7. CASE \E p \in flying : PeerReceives(p)
  <2>1. PICK p \in flying : PeerReceives(p)
    BY <1>7
  <2>2. got \cup {p} \subseteq 0 .. sent - 1 /\ peerPos \in peerPos .. sent
    BY DownlinkAssumption DEF Calm, TypeOK
  <2>. QED
    BY <2>1, <2>2, PassesKeeps DEF PeerReceives
<1>8. CASE PeerAsks
  BY <1>8, QuietKeeps DEF PeerAsks
<1>9. CASE PeerSkips
  <2>1. PICK q \in got : Passes(got, q)
    BY <1>9 DEF PeerSkips
  <2>2. got \subseteq 0 .. sent - 1 /\ q \in peerPos .. sent
    BY DownlinkAssumption DEF Calm, TypeOK
  <2>. QED
    BY <1>9, <2>1, <2>2, PassesKeeps DEF PeerSkips
<1>10. CASE UNCHANGED vars
  BY <1>10, QuietKeeps DEF vars
<1>. QED
  BY <1>1, <1>2, <1>3, <1>4, <1>5, <1>6, <1>7, <1>8, <1>9, <1>10 DEF Next

\* Only an acknowledgement that crosses a handshake disturbs an epoch, and
\* only the next handshake ends the disturbance.
LEMMA OnlyResetCalms ==
  ASSUME TypeOK, [Next]_vars, crossed, ~ crossed'
  PROVE  ResetForHandshake
BY DEF Next, vars, past, SendDown, LegOpens, LegCloses, HandleAck,
       HandleStaleAck, Resend, PeerReceives, PeerAsks, PeerSkips

\* Every step keeps the inductive invariant.
LEMMA NextKeeps == IInv /\ [Next]_vars => IInv'
<1>. SUFFICES ASSUME IInv, [Next]_vars PROVE IInv'
  OBVIOUS
<1>1. TypeOK'
  BY TypeKeeps DEF IInv
<1>2. ASSUME ~ crossed' PROVE Undisturbed'
  <2>1. CASE crossed
    BY <1>2, <2>1, OnlyResetCalms, ResetKeeps DEF IInv
  <2>2. CASE ~ crossed
    BY <1>2, <2>2, CalmKeeps DEF IInv, Calm
  <2>. QED
    BY <2>1, <2>2
<1>. QED
  BY <1>1, <1>2 DEF IInv

-----------------------------------------------------------------------------
(* Theorems                                                                *)

\* In every epoch that no acknowledgement of an earlier one has reached, the
\* stash is a run of frames that ends with the newest (put, ackUpTo).
THEOREM Safety == Spec => []IInv
BY InitIInv, NextKeeps, PTL DEF Spec

\* The types are kept in every epoch.
THEOREM TypeCorrect == Spec => []TypeOK
<1>1. IInv => TypeOK
  BY DEF IInv
<1>. QED
  BY Safety, <1>1, PTL

\* In such an epoch the insertion order lists the map exactly (put, ackUpTo).
THEOREM ListIsExact == Spec => [](~ crossed => OrderListsMap)
<1>1. IInv => (~ crossed => OrderListsMap)
  BY DEF IInv, Undisturbed
<1>. QED
  BY Safety, <1>1, PTL

\* In such an epoch the stash stays within its limit (the eviction loop of put).
THEOREM StashIsBounded == Spec => [](~ crossed => StashBound)
<1>1. IInv => (~ crossed => StashBound)
  <2>. SUFFICES ASSUME IInv, ~ crossed PROVE StashBound
    OBVIOUS
  <2>1. PICK low \in 0 .. sent : m = low .. sent - 1 /\ sent - low <= StashLimit
    BY DEF IInv, Undisturbed, StashIsRun
  <2>2. sent \in Nat /\ low \in Int /\ sent - 1 \in Int /\ StashLimit \in Nat
    BY <2>1, DownlinkAssumption DEF IInv, TypeOK
  <2>3. Cardinality(low .. sent - 1)
          = IF low > sent - 1 THEN 0 ELSE (sent - 1) - low + 1
    BY <2>2, FS_Interval
  <2>. QED
    BY <2>1, <2>2, <2>3 DEF StashBound
<1>. QED
  BY Safety, <1>1, PTL

\* Whatever the peer has not passed can be sent again, unless StashLimit newer
\* frames were sent since (ackUpTo, resendOne).
THEOREM UnackedIsRetained == Spec => []RetainsUnacked
<1>1. IInv => RetainsUnacked
  <2>. SUFFICES ASSUME IInv, ~ crossed,
                       NEW p \in peerPos .. sent - 1, sent - p <= StashLimit
                PROVE  p \in m
    BY DEF RetainsUnacked, CanServePeer
  <2>1. PICK low \in 0 .. sent : /\ m = low .. sent - 1
                                 /\ low <= peerPos \/ sent - low = StashLimit
    BY DEF IInv, Undisturbed, StashIsRun
  <2>2. sent \in Nat /\ peerPos \in 0 .. sent /\ StashLimit \in Nat
    BY DownlinkAssumption DEF IInv, TypeOK
  <2>. QED
    BY <2>1, <2>2
<1>. QED
  BY Safety, <1>1, PTL
=============================================================================
