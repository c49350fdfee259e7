------------------------------ MODULE Downlink ------------------------------
(***************************************************************************)
(* The sending side of one sequence space of a session: the downlink       *)
(* counter, the stash that lets the peer ask again (type stash of          *)
(* icg/concentrator/stash.go) and the handlers of session.go that use      *)
(* them.  TCP and UDP have one such space each, with the same code.        *)
(*                                                                         *)
(* The k-th frame of an epoch is the natural k and carries the wire number *)
(* wire[k].  The stash's map is the set m of the frames it holds (the key  *)
(* of a frame is its wire number); its insertion order is the set order:   *)
(* frames are appended as they are numbered, so the head of the list is    *)
(* its smallest frame.                                                     *)
(*                                                                         *)
(* The peer is the device, which is not part of the repository: it passes  *)
(* frames in order, asks for the ones missing below one it has received,   *)
(* gives up on some, and acknowledges what it has passed.  Frames and      *)
(* messages are lost, repeated and overtaken at will.  The counters that   *)
(* are only displayed (Hits, Misses, FramesOut) are left out.              *)
(***************************************************************************)
EXTENDS SeqSpace, FiniteSets

CONSTANTS StashLimit,   \* Config.StashLimit
          MaxSent,      \* bound: frames numbered in an epoch
          MaxEpochs     \* bound: calls of resetForHandshake

ASSUME DownlinkAssumption ==
  /\ StashLimit \in Nat \ {0} /\ StashLimit < Half
  /\ MaxSent \in Nat /\ MaxEpochs \in Nat

VARIABLES
  \* the session
  sent,      \* frames numbered in this epoch; the next one is wire[sent]
  wire,      \* wire numbers; wire[sent] is downTCPSeq
  m,         \* the map of the stash
  order,     \* the insertion order of the stash
  legOpen,   \* some leg of the session is open
  \* the network and the peer
  flying,    \* frames written to a leg that the peer has not passed
  got,       \* frames received ahead of a gap
  peerPos,   \* the frame the peer waits for
  asked,     \* frames the peer has asked for and not passed
  stale,     \* acknowledgements of earlier epochs that may still arrive
  crossed,   \* history: one of those was handled in this epoch
  epoch      \* calls of resetForHandshake

stash == <<m, order>>
peer  == <<got, peerPos, asked>>
past  == <<stale, crossed, epoch>>
vars  == <<sent, wire, stash, legOpen, flying, peer, past>>

Packet == 0 .. MaxSent - 1

-----------------------------------------------------------------------------
Init ==
  /\ sent = 0 /\ wire = [k \in {0} |-> 0]
  /\ m = {} /\ order = {} /\ legOpen = FALSE
  /\ flying = {} /\ got = {} /\ peerPos = 0 /\ asked = {}
  /\ stale = {} /\ crossed = FALSE /\ epoch = 0

-----------------------------------------------------------------------------
(* The stash                                                               *)

\* Faulty variant of Enough: off by one.
EnoughByOne(map, list, cut) ==
  \/ Cardinality({p \in map : p \notin list \/ p >= cut}) <= StashLimit + 1
  \/ \A p \in list : p < cut

\* The eviction loop of put stops: the map is within the limit without the
\* frames before cut, or the list is used up.
Enough(map, list, cut) ==
  \/ Cardinality({p \in map : p \notin list \/ p >= cut}) <= StashLimit
  \/ \A p \in list : p < cut

\* put: frame k enters the map, and the oldest ones leave it over the limit.
Put(k) ==
  LET listed == \E p \in m : wire[p] = wire[k]
      map    == {p \in m : wire[p] # wire[k]} \cup {k}
      list   == IF listed THEN order ELSE order \cup {k}
  IN  \E cut \in 0 .. k + 1 :
         /\ Enough(map, list, cut)
         /\ \A c \in 0 .. cut - 1 : ~ Enough(map, list, c)
         /\ m' = {p \in map : p \notin list \/ p >= cut}
         /\ order' = {p \in list : p >= cut}

\* Faulty variant of Acked: the number waited for counts as received.
AckedByOne(p, s) == Diff(wire[p], s) <= 1

\* diff(q, seq) <= 0
Acked(p, s) == Diff(wire[p], s) <= 0

KeptInOrder(s) == {p \in order : ~ Acked(p, s)}

\* ackUpTo: everything listed at or below number s is freed.
AckUpTo(s) ==
  /\ m' = {p \in m : p \in order => ~ Acked(p, s)}
  /\ order' = KeptInOrder(s)

-----------------------------------------------------------------------------
(* The session's handlers                                                  *)

\* sendTCPDown, sendUDPDown: number the frame, stash it, and write it to the
\* leg the scheduler picks.  With no leg open it is only stashed.  (The peer
\* is never half the sequence space behind, and no frame stays in the stash
\* for a whole turn of the counter.)
SendDown ==
  /\ sent < MaxSent /\ sent + 1 - peerPos < Half
  /\ \A p \in m : sent - p < Space
  /\ sent' = sent + 1
  /\ wire' = Numbered(wire, sent)
  /\ Put(sent)
  /\ flying' = IF legOpen THEN flying \cup {sent} ELSE flying
  /\ UNCHANGED <<legOpen, peer, past>>

\* A leg attaches, or the last open one closes.
LegOpens ==
  /\ ~ legOpen /\ legOpen' = TRUE
  /\ UNCHANGED <<sent, wire, stash, flying, peer, past>>

LegCloses ==
  /\ legOpen /\ legOpen' = FALSE
  /\ UNCHANGED <<sent, wire, stash, flying, peer, past>>

\* A cumulative acknowledgement of frame p - 1 and everything before it: one
\* the peer sent at any earlier moment of this epoch.
HandleAck(p) ==
  /\ p <= peerPos /\ sent - p < Half
  /\ AckUpTo(wire[p - 1])
  /\ UNCHANGED <<sent, wire, legOpen, flying, peer, past>>

\* One that crossed a handshake: it is handled like any other.
HandleStaleAck(s) ==
  /\ AckUpTo(s)
  /\ crossed' = TRUE
  /\ UNCHANGED <<sent, wire, legOpen, flying, peer, stale, epoch>>

\* Faulty variant of Resend: the first number of a request is left out.
ResendAfterFirst(set) ==
  /\ flying' = IF legOpen
               THEN flying \cup {p \in set \cap m : \E q \in set : q < p}
               ELSE flying
  /\ UNCHANGED <<sent, wire, stash, legOpen, peer, past>>

\* serveRetransmit, resendOne: the frames still stashed go out again on the
\* leg that asked, if it is still open.
Resend(set) ==
  /\ flying' = IF legOpen THEN flying \cup (set \cap m) ELSE flying
  /\ UNCHANGED <<sent, wire, stash, legOpen, peer, past>>

\* A handshake is accepted: new stash, counter back to 0, peer reset with it.
ResetForHandshake ==
  /\ epoch < MaxEpochs /\ epoch' = epoch + 1
  /\ sent' = 0 /\ wire' = [k \in {0} |-> 0]
  /\ m' = {} /\ order' = {}
  /\ flying' = {} /\ got' = {} /\ peerPos' = 0 /\ asked' = {}
  /\ stale' = stale \cup {wire[p - 1] : p \in 1 .. peerPos}
  /\ crossed' = FALSE
  /\ UNCHANGED legOpen

-----------------------------------------------------------------------------
(* The peer                                                                *)

\* The peer has set of frames from pos on, and passes those in sequence.
Passes(set, pos) ==
  \E n \in pos .. sent :
     /\ \A i \in pos .. n - 1 : i \in set
     /\ n \notin set
     /\ peerPos' = n
     /\ got' = {p \in set : p > n}
     /\ flying' = {p \in flying : p >= n}
     /\ asked' = {p \in asked : p >= n}

PeerReceives(p) ==
  /\ Passes(got \cup {p}, peerPos)
  /\ UNCHANGED <<sent, wire, stash, legOpen, past>>

Holes == {p \in peerPos .. sent - 1 : p \notin got /\ \E q \in got : q > p}

PeerAsks ==
  /\ Holes # {}
  /\ asked' = asked \cup Holes
  /\ UNCHANGED <<sent, wire, stash, legOpen, flying, got, peerPos, past>>

\* The peer gives a gap up.
PeerSkips ==
  /\ \E q \in got : (\A p \in got : q <= p) /\ Passes(got, q)
  /\ UNCHANGED <<sent, wire, stash, legOpen, past>>

-----------------------------------------------------------------------------
Next ==
  \/ SendDown \/ LegOpens \/ LegCloses \/ ResetForHandshake
  \/ \E p \in 1 .. MaxSent : HandleAck(p)
  \/ \E s \in stale : HandleStaleAck(s)
  \/ \E set \in SUBSET asked : Resend(set)
  \/ \E p \in flying : PeerReceives(p)
  \/ PeerAsks \/ PeerSkips

\* The frame of set that was sent first, if any.
First(set) == {p \in set : \A q \in set : p <= q}

\* The session goroutine serves what it receives, the peer asks again for as
\* long as a gap persists, and legs that come back do not lose every copy of
\* the first frame it misses.
Fairness ==
  /\ WF_vars(PeerAsks)
  /\ WF_vars(LegOpens)
  /\ SF_vars(legOpen /\ \E p \in First(asked \cap m) : Resend({p}))
  /\ SF_vars(\E p \in First(Holes \cap flying) : PeerReceives(p))

Spec == Init /\ [][Next]_vars

FairSpec == Spec /\ Fairness

-----------------------------------------------------------------------------
(* Properties                                                              *)

\* Every variable stays in its range: the counter stays in the word, and the
\* stash holds frames of this epoch only (resetForHandshake).
TypeOK ==
  /\ sent \in 0 .. MaxSent /\ wire \in [0 .. sent -> SeqNum]
  /\ m \subseteq 0 .. sent - 1 /\ order \subseteq 0 .. sent - 1
  /\ legOpen \in BOOLEAN /\ crossed \in BOOLEAN
  /\ flying \subseteq 0 .. sent - 1 /\ got \subseteq peerPos .. sent - 1
  /\ asked \subseteq 0 .. sent - 1
  /\ peerPos \in 0 .. sent /\ stale \subseteq SeqNum /\ epoch \in 0 .. MaxEpochs

\* The insertion order lists exactly the frames of the map, after any mixture
\* of put, eviction and acknowledgement: a frame missing from the list could
\* never be evicted, one left over in it would make the list grow for ever.
OrderListsMap == order = m

\* The stash never exceeds its limit, however long the peer stays silent.
StashBound == Cardinality(m) <= StashLimit

\* What the stash is for: whatever the peer has not passed can be sent again,
\* unless StashLimit newer frames have been sent since.
CanServePeer ==
  \A p \in peerPos .. sent - 1 : sent - p <= StashLimit => p \in m

\* It can, across the wrap-around and with acknowledgements that come late,
\* twice or in any order (put, ackUpTo), in an epoch that has seen no
\* acknowledgement of an earlier one.
RetainsUnacked == ~ crossed => CanServePeer

\* A frame the peer misses below one it has received gets there in the end,
\* if it was lost, or sent while no leg was open: unless the peer gave it up,
\* StashLimit newer ones were sent meanwhile, a handshake intervened (there is
\* no hole after one) or an acknowledgement crossed one.
HoleIsFilled ==
  \A p \in Packet :
     (p \in Holes /\ ~ crossed)
        ~> (p \notin Holes \/ crossed \/ sent - p > StashLimit)

\* The inductive invariant of Downlink_proofs: in an epoch that no message
\* has crossed into, the stash is the run of frames from a low mark to the
\* newest.
Numbering ==
  \A a, b \in 0 .. sent :
     (a - b < Half /\ b - a < Half) => Diff(wire[a], wire[b]) = a - b

StashIsRun ==
  \E low \in 0 .. sent :
     /\ m = low .. sent - 1
     /\ sent - low <= StashLimit
     /\ low <= peerPos \/ sent - low = StashLimit

Undisturbed ==
  Numbering /\ OrderListsMap /\ StashIsRun /\ sent - peerPos < Half

IInv == TypeOK /\ (~ crossed => Undisturbed)
=============================================================================
