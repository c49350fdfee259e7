----------------------------- MODULE LegSelect -----------------------------
(***************************************************************************)
(* The legs of one session and the choice of a leg for what goes down      *)
(* (pickLeg, betterThan, observeRTT and the RTT exchange of                *)
(* icg/concentrator/session.go).  The session goroutine owns the table and *)
(* the measurements; the flag closed of a leg is set by the goroutine of   *)
(* its transport at any time, also between two steps of a choice.          *)
(*                                                                         *)
(* The loop of pickLeg visits the table in any order (a Go map), one leg a *)
(* step.  Times are in one unit; a leg that comes back is another leg.     *)
(* How attach and detach reach the session is module Registry.             *)
(***************************************************************************)
EXTENDS Integers, FiniteSets

CONSTANTS Leg,      \* transports; each attaches once
          TcpLeg,   \* those of kind "tcp"; the others are "udp"
          MaxRTT,   \* samples from here on are dropped (10 seconds)
          MaxClock, \* bound: the time runs from 1 to here
          MaxProbes \* bound: RTT answers sent on one leg

ASSUME LegSelectAssumption ==
  TcpLeg \subseteq Leg /\ "none" \notin Leg /\ MaxRTT \in Nat /\ MaxClock \in Nat

VARIABLES
  clock,   \* the time
  table,   \* Session.legs
  fresh,   \* legs not attached yet
  closed,  \* Leg.closed
  rtt,     \* Leg.rtt, 0 when not measured
  lastRx,  \* Leg.lastRx, 0 when nothing was received
  probes,  \* ServerMS of the RTT answers sent on a leg
  samples, \* history: the RTT samples of a leg
  scan     \* the choice in progress: [want, kind, todo, best, dead]

measured == <<rtt, lastRx, probes, samples>>
vars     == <<clock, table, fresh, closed, measured, scan>>

NoLeg   == "none"
AnyKind == "any"     \* kind == "" of pickLeg
Kinds   == {"tcp", "udp", AnyKind}

NoScan == [want |-> NoLeg, kind |-> AnyKind, todo |-> {}, best |-> NoLeg,
           dead |-> {}]

Kind(l) == IF l \in TcpLeg THEN "tcp" ELSE "udp"

Init ==
  /\ clock = 1 /\ table = {} /\ fresh = Leg
  /\ closed = [l \in Leg |-> FALSE]
  /\ rtt = [l \in Leg |-> 0] /\ lastRx = [l \in Leg |-> 0]
  /\ probes = [l \in Leg |-> {}] /\ samples = [l \in Leg |-> {}]
  /\ scan = NoScan

-----------------------------------------------------------------------------
(* Frames and measurements                                                 *)

Idle == scan = NoScan

\* Faulty variant of Smoothed: the old estimate loses its weight.
SmoothedTooFast(old, sample) == (old + sample) \div 8

\* observeRTT, with an earlier sample: 7/8 old, 1/8 new, in whole units.
Smoothed(old, sample) == (7 * old + sample) \div 8

Observed(old, sample) == IF old = 0 THEN sample ELSE Smoothed(old, sample)

\* handleFrame, for a frame that measures nothing.
HandleFrame(l) ==
  /\ Idle /\ l \in table
  /\ lastRx' = [lastRx EXCEPT ![l] = clock]
  /\ UNCHANGED <<clock, table, fresh, closed, rtt, probes, samples, scan>>

\* onRTTSync: the answer carries the time; it is not written to a closed leg.
OnRTTSync(l) ==
  /\ Idle /\ l \in table /\ Cardinality(probes[l]) < MaxProbes
  /\ lastRx' = [lastRx EXCEPT ![l] = clock]
  /\ probes' = [probes EXCEPT ![l] = IF closed[l] THEN @ ELSE @ \cup {clock}]
  /\ UNCHANGED <<clock, table, fresh, closed, rtt, samples, scan>>

\* HSRTTAck: the device echoes an answer, late or again as it may be, or a
\* body without our time in it (0).
OnRTTAck(l, stamp) ==
  LET sample == clock - stamp
  IN  /\ Idle /\ l \in table /\ stamp \in probes[l] \cup {0}
      /\ lastRx' = [lastRx EXCEPT ![l] = clock]
      /\ IF stamp # 0 /\ sample > 0 /\ sample < MaxRTT
         THEN /\ rtt' = [rtt EXCEPT ![l] = Observed(@, sample)]
              /\ samples' = [samples EXCEPT ![l] = @ \cup {sample}]
         ELSE UNCHANGED <<rtt, samples>>
      /\ UNCHANGED <<clock, table, fresh, closed, probes, scan>>

-----------------------------------------------------------------------------
(* The table                                                               *)

AttachLeg(l) ==
  /\ Idle /\ l \in fresh
  /\ fresh' = fresh \ {l} /\ table' = table \cup {l}
  /\ UNCHANGED <<clock, closed, measured, scan>>

\* Leg.Close, by the transport.
Close(l) ==
  /\ l \notin fresh /\ ~ closed[l]
  /\ closed' = [closed EXCEPT ![l] = TRUE]
  /\ UNCHANGED <<clock, table, fresh, measured, scan>>

\* detachLeg comes after Close.
DetachLeg(l) ==
  /\ Idle /\ l \in table /\ closed[l]
  /\ table' = table \ {l}
  /\ UNCHANGED <<clock, fresh, closed, measured, scan>>

-----------------------------------------------------------------------------
(* pickLeg                                                                 *)

\* Faulty variant of BetterThan: an unmeasured leg counts as the fastest.
BetterByRTT(l, m) ==
  rtt[l] < rtt[m] \/ (rtt[l] = rtt[m] /\ lastRx[l] > lastRx[m])

\* betterThan
BetterThan(l, m) ==
  CASE rtt[l] # 0 /\ rtt[m] = 0 -> TRUE
    [] rtt[l] = 0 /\ rtt[m] # 0 -> FALSE
    [] rtt[l] # 0 /\ rtt[m] # 0 /\ rtt[l] # rtt[m] -> rtt[l] < rtt[m]
    [] rtt[l] = rtt[m] -> lastRx[l] > lastRx[m]

\* The choice for a frame of some kind begins.
PickLeg(kind) ==
  /\ Idle
  /\ scan' = [want |-> kind, kind |-> kind, todo |-> table, best |-> NoLeg,
              dead |-> {l \in table : closed[l]}]
  /\ UNCHANGED <<clock, table, fresh, closed, measured>>

\* Faulty variant of Skipped: the flag closed is not looked at.
SkippedByKind(l) == scan.kind # AnyKind /\ Kind(l) # scan.kind

Skipped(l) == closed[l] \/ (scan.kind # AnyKind /\ Kind(l) # scan.kind)

\* One turn of the loop.
Visit(l) ==
  /\ l \in scan.todo
  /\ scan' = [scan EXCEPT
       !.todo = @ \ {l},
       !.best = IF Skipped(l) THEN @
                ELSE IF @ = NoLeg THEN l
                ELSE IF BetterThan(l, @) THEN l ELSE @]
  /\ UNCHANGED <<clock, table, fresh, closed, measured>>

Scanned == ~ Idle /\ scan.todo = {}

\* No leg of the kind asked for: any other.
Fallback ==
  /\ Scanned /\ scan.best = NoLeg /\ scan.kind # AnyKind
  /\ scan' = [scan EXCEPT !.kind = AnyKind, !.todo = table]
  /\ UNCHANGED <<clock, table, fresh, closed, measured>>

Decided == Scanned /\ (scan.best # NoLeg \/ scan.kind = AnyKind)

\* The frame is written to the leg chosen, unless that is closed by now
\* (writeRaw), or to none.
PickEnds ==
  /\ Decided /\ scan' = NoScan
  /\ UNCHANGED <<clock, table, fresh, closed, measured>>

Elapse ==
  /\ clock < MaxClock /\ clock' = clock + 1
  /\ UNCHANGED <<table, fresh, closed, measured, scan>>

-----------------------------------------------------------------------------
Next ==
  \/ \E l \in Leg : \/ HandleFrame(l) \/ OnRTTSync(l)
                    \/ AttachLeg(l) \/ Close(l) \/ DetachLeg(l)
                    \/ Visit(l)
  \/ \E l \in Leg : \E stamp \in probes[l] \cup {0} : OnRTTAck(l, stamp)
  \/ \E kind \in Kinds : PickLeg(kind)
  \/ Fallback \/ PickEnds \/ Elapse

Spec == Init /\ [][Next]_vars

-----------------------------------------------------------------------------
(* Properties                                                              *)

\* Every variable stays in its range.
TypeOK ==
  /\ clock \in Nat \ {0}
  /\ table \subseteq Leg /\ fresh \subseteq Leg
  /\ closed \in [Leg -> BOOLEAN]
  /\ rtt \in [Leg -> Nat] /\ lastRx \in [Leg -> Nat]
  /\ probes \in [Leg -> SUBSET Nat]
  /\ samples \in [Leg -> SUBSET (Nat \ {0})]
  /\ scan \in [want : Kinds \cup {NoLeg}, kind : Kinds, todo : SUBSET Leg,
               best : Leg \cup {NoLeg}, dead : SUBSET Leg]

\* The order the scheduler is to follow: measured legs first, then the lower
\* round trip, then the more recent packet.
Outranks(l, m) ==
  \/ rtt[l] # 0 /\ rtt[m] = 0
  \/ rtt[l] # 0 /\ rtt[l] < rtt[m]
  \/ rtt[l] = rtt[m] /\ lastRx[l] > lastRx[m]

Suits(l, kind) == kind = AnyKind \/ Kind(l) = kind

\* In whatever order the map is walked and legs close meanwhile, no open leg of
\* the kind that was looked for outranks the one chosen ("lowest-RTT-first").
PickIsBest ==
  Decided /\ scan.best # NoLeg =>
     \A l \in table : ~ closed[l] /\ Suits(l, scan.kind)
                         => ~ Outranks(l, scan.best)

\* A leg that was closed when the choice began is never chosen; a leg of the
\* other kind only when none of the kind asked for is left, and none at all
\* only when every leg of the table is closed ("better to deliver over the
\* wrong transport than to drop").
PickIsLive ==
  Decided =>
    /\ scan.best \notin scan.dead
    /\ scan.best # NoLeg /\ ~ Suits(scan.best, scan.want) =>
         \A l \in table : Suits(l, scan.want) => closed[l]
    /\ scan.best = NoLeg => \A l \in table : closed[l]

\* The smoothed round trip of a leg stays between the samples it was made of,
\* so that a measured leg never looks unmeasured again, however often the
\* division rounds down (observeRTT, betterThan's rtt != 0).
EstimateIsBetween ==
  \A l \in Leg :
     IF samples[l] = {} THEN rtt[l] = 0
     ELSE /\ \E s \in samples[l] : s <= rtt[l]
          /\ \E s \in samples[l] : rtt[l] <= s
=============================================================================
