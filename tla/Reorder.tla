------------------------------- MODULE Reorder -------------------------------
(***************************************************************************)
(* The uplink reassembler of a session: type Reorder of                    *)
(* icg/concentrator/reorder.go, driven as the session drives it.  Push is  *)
(* called for every data frame, Missing and then Expire on every tick      *)
(* (session.go, tick), Reset on every accepted handshake request.          *)
(*                                                                         *)
(* The peer numbers its packets with a counter that wraps; the k-th packet *)
(* of an epoch (the time between two handshakes) is the natural k here and *)
(* carries the wire number wire[k].  Packets reach Push late, repeatedly,  *)
(* in any order or never.  The map pend is the set of packets held: the    *)
(* key of a packet is its wire number, its value the packet itself.        *)
(*                                                                         *)
(* Time is kept as ages: the age of a timestamp is now minus the           *)
(* timestamp, Never when the timestamp is zero, and it stops growing where *)
(* no comparison can tell it from an older one.                            *)
(***************************************************************************)
EXTENDS SeqSpace, FiniteSets, Sequences

CONSTANTS MaxPend,          \* maxPend, the memory cap
          Settle,           \* settle, in ticks of Elapse
          RetransmitAfter,  \* retransmitAfter
          SkipAfter,        \* skipAfter
          Limit,            \* the limit the tick passes to Missing
          Bases,            \* wire numbers an epoch of the peer may start at
          MaxSent,          \* bound: packets the peer sends in an epoch
          MaxOffers,        \* bound: calls of Push
          MaxEpochs         \* bound: calls of Reset

ASSUME ReorderAssumption ==
  /\ MaxPend \in Nat \ {0}
  /\ Settle \in Nat
  /\ RetransmitAfter \in Nat \ {0}
  /\ SkipAfter \in Nat \ {0}
  /\ Limit \in Nat \ {0}
  /\ Bases \subseteq SeqNum /\ Bases # {}
  /\ MaxSent \in Nat /\ MaxOffers \in Nat /\ MaxEpochs \in Nat

VARIABLES
  \* the struct Reorder
  started,     \* latched onto a starting position
  next,        \* the wire number waited for
  pend,        \* packets held out of order
  maxSeen,     \* highest wire number seen
  firstAge,    \* age of firstSeen
  blockedAge,  \* age of blockedSince
  requestAge,  \* age of lastRequest
  stats,       \* Delivered, Duplicated, Late, Skipped
  \* what the last call returned
  out,         \* the packets delivered, in order
  missing,     \* the wire numbers to ask the peer for
  \* the peer
  sent,        \* packets numbered so far in this epoch
  wire,        \* wire[k] is the number of packet k; wire[sent] the next one
  \* history
  pos,         \* the packet whose wire number is next
  start,       \* the packet the reassembler latched onto
  past,        \* packets stepped over or delivered in earlier epochs
  delivered,   \* packets delivered in this epoch
  asked,       \* wire numbers requested in this epoch
  offers,      \* calls of Push
  discarded,   \* packets dropped by Reset
  epoch        \* calls of Reset

program == <<started, next, pend, maxSeen, firstAge, blockedAge, requestAge,
             stats, out, missing>>
peer    == <<sent, wire>>
history == <<pos, start, past, delivered, asked, offers, discarded, epoch>>
vars    == <<program, peer, history>>

Never == -1

Horizon == IF RetransmitAfter <= SkipAfter THEN SkipAfter ELSE RetransmitAfter

Packet == 0 .. MaxSent - 1

-----------------------------------------------------------------------------
Init ==
  /\ started = FALSE /\ next = 0 /\ pend = {} /\ maxSeen = 0
  /\ firstAge = Never /\ blockedAge = Never /\ requestAge = Never
  /\ stats = [Delivered |-> 0, Duplicated |-> 0, Late |-> 0, Skipped |-> 0]
  /\ out = <<>> /\ missing = {}
  /\ sent = 0 /\ \E b \in Bases : wire = [k \in {0} |-> b]
  /\ pos = 0 /\ start = 0 /\ past = 0
  /\ delivered = {} /\ asked = {}
  /\ offers = 0 /\ discarded = 0 /\ epoch = 0

-----------------------------------------------------------------------------
(* The peer and the clock                                                  *)

\* How far the peer is ahead of what this side has got to.  The signed
\* comparison only works while that stays below half the sequence space.
Lead == IF started THEN sent - pos ELSE sent

\* The peer numbers its next packet (client.go, NextTCPSeq).
Send ==
  /\ sent < MaxSent
  /\ Lead + 1 < Half
  /\ sent' = sent + 1
  /\ wire' = Numbered(wire, sent)
  /\ out' = <<>> /\ missing' = {}
  /\ UNCHANGED <<started, next, pend, maxSeen, firstAge, blockedAge,
                 requestAge, stats, history>>

Older(age, cap) == IF age = Never \/ age >= cap THEN age ELSE age + 1

\* One unit of time passes.
Elapse ==
  /\ firstAge'   = Older(firstAge, Settle)
  /\ blockedAge' = Older(blockedAge, Horizon)
  /\ requestAge' = Older(requestAge, RetransmitAfter)
  /\ out' = <<>> /\ missing' = {}
  /\ UNCHANGED <<started, next, pend, maxSeen, stats, peer, history>>

-----------------------------------------------------------------------------
(* Helpers of the methods                                                  *)

Keys(set) == {wire[p] : p \in set}

\* drain moves the k packets that are contiguous from the number nx on.
Run(set, nx, k) ==
  /\ \A i \in SeqNum : i < k => Plus(nx, i) \in Keys(set)
  /\ Plus(nx, k) \notin Keys(set)

\* Faulty variant of BlockedAgeOf: the timer is never cleared.
BlockedAgeAlways(set) == 0

\* drain: a new gap starts now, if something is still held.
BlockedAgeOf(set) == IF set = {} THEN Never ELSE 0

Moved(set, nx, k) ==
  {p \in set : Diff(wire[p], nx) >= 0 /\ Diff(wire[p], nx) < k}

\* The packets drain appends, one loop turn after the other.
Taken(set, nx, k) ==
  [i \in 1 .. k |-> CHOOSE p \in set : wire[p] = Plus(nx, i - 1)]

\* drain, over the map set with r.next = nx and k packets moved.
Drain(set, nx, k) ==
  /\ Run(set, nx, k)
  /\ next' = Plus(nx, k)
  /\ pend' = set \ Moved(set, nx, k)
  /\ out' = Taken(set, nx, k)
  /\ delivered' = delivered \cup Moved(set, nx, k)
  /\ blockedAge' = BlockedAgeOf(set \ Moved(set, nx, k))

\* Faulty variant of IsLowest: any held packet will do.
IsAny(low, set) == low \in set

\* lowest: no held number lies before that of packet low.
IsLowest(low, set) == \A p \in set : Diff(wire[p], wire[low]) >= 0

\* latch: start at the lowest number seen in the settle window.
Latch(set) ==
  \E low \in set : \E k \in SeqNum :
     /\ IsLowest(low, set)
     /\ Drain(set, wire[low], k)
     /\ started' = TRUE
     /\ stats' = [stats EXCEPT !.Delivered = @ + k]
     /\ start' = low /\ pos' = low + k

\* Faulty variant of SkippedBefore: counts gaps, not packets.
SkippedBeforeByGap(low) == IF wire[low] = next THEN 0 ELSE 1

SkippedBefore(low) ==
  LET n == Diff(wire[low], next) IN IF n > 0 THEN n ELSE 0

\* skipToLowest: step over everything before the lowest number held.
SkipToLowest(set) ==
  \E low \in set : \E k \in SeqNum :
     /\ IsLowest(low, set)
     /\ Drain(set, wire[low], k)
     /\ stats' = [stats EXCEPT !.Delivered = @ + k,
                               !.Skipped = @ + SkippedBefore(low)]
     /\ pos' = low + k
     /\ UNCHANGED <<started, start>>

\* MaxSeen after packet n came in.
HighestSeen(n) ==
  IF firstAge = Never \/ Diff(wire[n], maxSeen) > 0 THEN wire[n] ELSE maxSeen

\* Faulty variant of Held: the map is not looked up.
NeverHeld(n) == FALSE

\* _, dup := r.pend[seq]
Held(n) == wire[n] \in Keys(pend)

\* Faulty variant of OverCap: off by one.
OverCapByOne(set) == Cardinality(set) > MaxPend + 1

\* len(r.pend) > r.maxPend
OverCap(set) == Cardinality(set) > MaxPend

\* Nothing is delivered by this call.
Nothing == out' = <<>> /\ UNCHANGED <<started, next, start, pos, delivered>>

-----------------------------------------------------------------------------
(* Push.  Packet n comes off a leg: any packet sent in this epoch, any     *)
(* number of times, so long as it is not half the sequence space old.      *)

Arrives(n) ==
  /\ offers < MaxOffers
  /\ n < sent /\ sent - n < Half
  /\ offers' = offers + 1
  /\ maxSeen' = HighestSeen(n)
  /\ missing' = {}
  /\ UNCHANGED <<requestAge, peer, past, asked, discarded, epoch>>

PushSettlingDuplicate(n) ==
  /\ ~ started /\ Arrives(n) /\ Held(n)
  /\ stats' = [stats EXCEPT !.Duplicated = @ + 1] /\ Nothing
  /\ UNCHANGED <<firstAge, blockedAge, pend>>

\* The first packets are held until the settle window is over or the map full.
PushSettling(n) ==
  LET set == pend \cup {n}
      age == IF firstAge = Never THEN 0 ELSE firstAge
  IN  /\ ~ started /\ Arrives(n) /\ ~ Held(n)
      /\ firstAge' = age
      /\ IF age < Settle /\ ~ OverCap(set)
         THEN pend' = set /\ Nothing /\ UNCHANGED <<stats, blockedAge>>
         ELSE Latch(set)

PushLate(n) ==
  /\ started /\ Arrives(n) /\ Diff(wire[n], next) < 0
  /\ stats' = [stats EXCEPT !.Late = @ + 1] /\ Nothing
  /\ UNCHANGED <<firstAge, blockedAge, pend>>

\* The packet waited for: delivered with everything it was blocking.
PushNext(n) ==
  /\ started /\ Arrives(n) /\ wire[n] = next
  /\ \E k \in SeqNum :
        /\ Drain(pend \cup {n}, next, k)
        /\ stats' = [stats EXCEPT !.Delivered = @ + k]
        /\ pos' = n + k
  /\ UNCHANGED <<started, start, firstAge>>

PushDuplicate(n) ==
  /\ started /\ Arrives(n) /\ Diff(wire[n], next) > 0 /\ Held(n)
  /\ stats' = [stats EXCEPT !.Duplicated = @ + 1] /\ Nothing
  /\ UNCHANGED <<firstAge, blockedAge, pend>>

\* A packet ahead of a gap is held; over the cap the gap is given up at once.
PushAhead(n) ==
  LET set == pend \cup {n}
  IN  /\ started /\ Arrives(n) /\ Diff(wire[n], next) > 0 /\ ~ Held(n)
      /\ UNCHANGED firstAge
      /\ IF OverCap(set)
         THEN SkipToLowest(set)
         ELSE /\ pend' = set /\ Nothing
              /\ blockedAge' = IF blockedAge = Never THEN 0 ELSE blockedAge
              /\ UNCHANGED stats

Push(n) ==
  \/ PushSettlingDuplicate(n) \/ PushSettling(n) \/ PushLate(n)
  \/ PushNext(n) \/ PushDuplicate(n) \/ PushAhead(n)

-----------------------------------------------------------------------------
(* The tick: Missing, then Expire.                                         *)

\* Faulty variant of Gaps: the scan starts one past the number waited for.
GapsAfterNext ==
  {s \in SeqNum : /\ Diff(s, next) > 0 /\ Diff(s, next) <= Diff(maxSeen, next)
                  /\ s \notin Keys(pend)}

\* The absent numbers from next up to MaxSeen.
Gaps ==
  {s \in SeqNum : /\ Diff(s, next) >= 0 /\ Diff(s, next) <= Diff(maxSeen, next)
                  /\ s \notin Keys(pend)}

\* Faulty variant of Wanted: everything up to MaxSeen, held or not.
WantedHeldOrNot ==
  {s \in SeqNum : Diff(s, next) >= 0 /\ Diff(s, next) <= Diff(maxSeen, next)}

\* The first Limit of them.
Wanted ==
  {s \in Gaps :
     Cardinality({t \in Gaps : Diff(t, next) < Diff(s, next)}) < Limit}

\* Missing asks once per RetransmitAfter for as long as the gap persists.
MayAsk ==
  /\ started /\ pend # {} /\ blockedAge # Never
  /\ blockedAge >= RetransmitAfter
  /\ requestAge = Never \/ requestAge >= RetransmitAfter

Missing ==
  IF MayAsk
  THEN missing' = Wanted /\ requestAge' = 0 /\ asked' = asked \cup Wanted
  ELSE missing' = {} /\ UNCHANGED <<requestAge, asked>>

\* Faulty variant of SettleOver: the timer never latches.
SettleNeverOver == FALSE

SettleOver == ~ started /\ pend # {} /\ firstAge >= Settle

GapExpired ==
  started /\ pend # {} /\ blockedAge # Never /\ blockedAge >= SkipAfter

Expire ==
  \/ SettleOver /\ Latch(pend)
  \/ GapExpired /\ SkipToLowest(pend)
  \/ /\ ~ SettleOver /\ ~ GapExpired
     /\ Nothing /\ UNCHANGED <<stats, pend, blockedAge>>

Tick ==
  /\ Missing
  /\ Expire
  /\ UNCHANGED <<maxSeen, firstAge, peer, past, offers, discarded, epoch>>

-----------------------------------------------------------------------------
(* Reset: a handshake starts a new epoch on both sides.                    *)

Reset ==
  /\ epoch < MaxEpochs
  /\ started' = FALSE /\ next' = 0 /\ pend' = {} /\ maxSeen' = 0
  /\ firstAge' = Never /\ blockedAge' = Never /\ requestAge' = Never
  /\ out' = <<>> /\ missing' = {}
  /\ UNCHANGED <<stats, offers>>
  /\ sent' = 0 /\ \E b \in Bases : wire' = [k \in {0} |-> b]
  /\ past' = past + (pos - start) /\ pos' = 0 /\ start' = 0
  /\ delivered' = {} /\ asked' = {}
  /\ discarded' = discarded + Cardinality(pend) /\ epoch' = epoch + 1

-----------------------------------------------------------------------------
Next ==
  \/ Send \/ Elapse \/ Tick \/ Reset
  \/ \E n \in Packet : Push(n)

\* The session goroutine serves the 20 ms ticker for as long as it runs, and
\* the clock does not stop.
Fairness == WF_vars(Elapse) /\ WF_vars(Tick)

Spec == Init /\ [][Next]_vars

FairSpec == Spec /\ Fairness

\* Ack: the cumulative acknowledgement the session advertises.
Ack == Plus(next, Space - 1)

-----------------------------------------------------------------------------
(* Properties                                                              *)

Age(cap) == {Never} \cup 0 .. cap

\* Every variable stays in its range; in particular the sequence numbers stay
\* in the word and the ages are zero-or-running timers (type Reorder).
TypeOK ==
  /\ started \in BOOLEAN
  /\ next \in SeqNum /\ maxSeen \in SeqNum
  /\ pend \subseteq 0 .. sent - 1
  /\ firstAge \in Age(Settle) /\ blockedAge \in Age(Horizon)
  /\ requestAge \in Age(RetransmitAfter)
  /\ stats \in [Delivered : Nat, Duplicated : Nat, Late : Nat, Skipped : Nat]
  /\ out \in Seq(0 .. sent - 1) /\ missing \subseteq SeqNum
  /\ sent \in 0 .. MaxSent /\ wire \in [0 .. sent -> SeqNum]
  /\ pos \in 0 .. sent /\ start \in 0 .. pos /\ past \in Nat
  /\ delivered \subseteq 0 .. sent - 1 /\ asked \subseteq SeqNum
  /\ offers \in 0 .. MaxOffers /\ epoch \in 0 .. MaxEpochs
  /\ discarded \in Nat

\* Once latched, nothing deliverable is held back and nothing held lies behind
\* the position: a packet behind it would sit in the map for ever (drain).
HeldIsAhead == started => \A p \in pend : p > pos

\* No call leaves more than maxPend packets in the map, whatever the order of
\* arrival and however long a gap or the settle window lasts (Push).
MemoryBound == Cardinality(pend) <= MaxPend

\* The gap timer runs exactly while a latched reassembler holds something:
\* Missing and Expire both rely on it to find a gap (drain, Push, latch).
TimerRunsIffBlocked == (blockedAge # Never) <=> (started /\ pend # {})

\* Delivered and Skipped together account for every packet the position has
\* moved over, in this epoch and the earlier ones (the statistics operators
\* are told to trust: "a concentrator that silently skips is
\* indistinguishable from one that works").
PositionAccounted == stats.Delivered + stats.Skipped = past + (pos - start)

\* Every packet offered was delivered, is held, was counted as duplicate or
\* late, or was dropped by a handshake: Push loses nothing silently.
OffersAccounted ==
  offers = stats.Delivered + stats.Duplicated + stats.Late
           + Cardinality(pend) + discarded

\* While something is held, MaxSeen is the number of the highest held packet,
\* so Missing scans up to the last gap and no further.
MaxSeenIsHeld ==
  (started /\ pend # {}) =>
    \E p \in pend : wire[p] = maxSeen /\ \A q \in pend : q <= p

\* What a call delivers is in the order the peer sent it, comes after
\* everything delivered before and so is delivered once, also where the
\* sequence numbers wrap (Push, Expire).
DeliveredInOrder ==
  [][epoch' = epoch =>
       /\ \A i \in DOMAIN out' : \A j \in DOMAIN out' :
             i < j => out'[i] < out'[j]
       /\ \A i \in DOMAIN out' : \A d \in delivered : d < out'[i]]_vars

\* A gap the timer gives up on has been asked for first, packet by packet, as
\* far as one request reaches: the two stages "request retransmission, then
\* skip" (Missing before Expire in every tick).
AskedBeforeGivenUp ==
  [][(stats'.Skipped > stats.Skipped /\ offers' = offers) =>
       \A n \in Packet :
          pos <= n /\ n < out'[1] /\ n < pos + Limit => wire[n] \in asked']_vars

\* A retransmission request names only packets the peer has sent and that are
\* neither held nor delivered (Missing, against MaxSeen and the map).
AsksOnlyForGaps ==
  [][\A s \in missing' :
       \E n \in 0 .. sent - 1 : wire[n] = s /\ n \notin pend \cup delivered]_vars

\* A packet is not held for ever: it is delivered in the end, unless a
\* handshake discards it.  A packet lost for good does not stall the tunnel
\* (Expire).
HeldIsReleased == \A n \in Packet : (n \in pend) ~> (n \notin pend)

\* The reassembler implements ordered delivery over unbounded packet numbers:
\* the wrap-around of the wire numbers is never visible ("wrap-around is
\* handled without special cases", reorder.go:16).
Delivery == INSTANCE OrderedDelivery WITH held <- pend

ImplementsOrderedDelivery == Delivery!Spec

\* The inductive invariant behind the theorems of Reorder_proofs.

\* Distances between wire numbers are distances between packets, as long as
\* they are less than half the space apart.
Numbering ==
  \A a, b \in 0 .. sent :
     (a - b < Half /\ b - a < Half) => Diff(wire[a], wire[b]) = a - b

Position ==
  /\ Lead < Half
  /\ started => next = wire[pos]
  /\ ~ started => pos = 0 /\ start = 0 /\ delivered = {}
  /\ \A d \in delivered : d < pos

Bounded == IsFiniteSet(pend) /\ MemoryBound

SettleTimer == (firstAge = Never) => (~ started /\ pend = {})

\* Once a packet has come in, MaxSeen is the number of one that is not before
\* the position and that none of the held packets is beyond.
Highest ==
  firstAge # Never =>
    \E t \in 0 .. sent - 1 :
       /\ maxSeen = wire[t] /\ t >= pos - 1
       /\ \A p \in pend : p <= t
       /\ t \in pend \cup delivered

IInv ==
  /\ TypeOK /\ Numbering /\ Position /\ HeldIsAhead /\ Bounded
  /\ SettleTimer /\ TimerRunsIffBlocked /\ PositionAccounted /\ Highest
=============================================================================
