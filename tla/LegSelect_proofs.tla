-------------------------- MODULE LegSelect_proofs --------------------------
(***************************************************************************)
(* Theorems about LegSelect, for any legs, any times and any measurements. *)
(***************************************************************************)
EXTENDS LegSelect, TLAPS

-----------------------------------------------------------------------------
(* The order betterThan defines                                            *)

\* On legs with times, betterThan is the order the properties speak of.
LEMMA BetterIsOutranks ==
  ASSUME TypeOK, NEW l \in Leg, NEW m \in Leg
  PROVE  BetterThan(l, m) <=> Outranks(l, m)
<1>1. /\ rtt[l] \in Nat /\ rtt[m] \in Nat
      /\ lastRx[l] \in Nat /\ lastRx[m] \in Nat
  BY DEF TypeOK
<1>2. CASE rtt[l] # 0 /\ rtt[m] = 0 BY <1>1, <1>2 DEF BetterThan, Outranks
<1>3. CASE rtt[l] = 0 /\ rtt[m] # 0 BY <1>1, <1>3 DEF BetterThan, Outranks
<1>4. CASE rtt[l] # 0 /\ rtt[m] # 0 /\ rtt[l] # rtt[m]
  BY <1>1, <1>4 DEF BetterThan, Outranks
<1>5. CASE rtt[l] = rtt[m] BY <1>1, <1>5 DEF BetterThan, Outranks
<1> QED BY <1>1, <1>2, <1>3, <1>4, <1>5

\* betterThan is a strict order: a leg never beats itself, and a leg that
\* beats the best so far beats whatever that one has beaten.
THEOREM BetterThanIsAnOrder ==
  ASSUME TypeOK, NEW l \in Leg, NEW m \in Leg, NEW n \in Leg
  PROVE  /\ ~ BetterThan(l, l)
         /\ BetterThan(l, m) /\ BetterThan(m, n) => BetterThan(l, n)
<1>1. ~ Outranks(l, l) BY DEF TypeOK, Outranks
<1>2. Outranks(l, m) /\ Outranks(m, n) => Outranks(l, n)
  BY DEF TypeOK, Outranks
<1> QED BY <1>1, <1>2, BetterIsOutranks

-----------------------------------------------------------------------------
(* The smoothed round trip                                                 *)

\* A weighted mean of two whole numbers, rounded down, is not below the
\* smaller nor above the larger.
LEMMA SmoothedIsBetween ==
  ASSUME NEW r \in Nat, NEW s \in Nat
  PROVE  /\ Smoothed(r, s) \in Nat
         /\ r <= s => r <= Smoothed(r, s) /\ Smoothed(r, s) <= s
         /\ s <= r => s <= Smoothed(r, s) /\ Smoothed(r, s) <= r
<1> DEFINE q == Smoothed(r, s)
<1>1. q \in Int /\ 8 * q <= 7 * r + s /\ 7 * r + s < 8 * q + 8
  BY DEF Smoothed
<1> HIDE DEF q
<1>2. q \in Nat BY <1>1
<1>3. r <= s => r <= q /\ q <= s BY <1>1
<1>4. s <= r => s <= q /\ q <= r BY <1>1
<1> QED BY <1>2, <1>3, <1>4 DEF q

-----------------------------------------------------------------------------
(* The invariant of the loop                                               *)

\* The legs the loop has been to.
Visited == table \ scan.todo

\* What the choice so far is worth: it is a leg of the table, fits, was open
\* when the choice began, and no open leg visited outranks it; with no choice
\* yet, no open leg visited fits.
ScanSound ==
  ~ Idle =>
    /\ scan.todo \subseteq table /\ scan.dead \subseteq table
    /\ scan.want \in Kinds
    /\ \A l \in scan.dead : closed[l]
    /\ scan.best # NoLeg =>
         /\ scan.best \in Visited /\ Suits(scan.best, scan.kind)
         /\ scan.best \notin scan.dead
    /\ scan.best # NoLeg =>
         \A l \in Visited : ~ closed[l] /\ Suits(l, scan.kind)
                              => ~ Outranks(l, scan.best)
    /\ scan.best = NoLeg =>
         \A l \in Visited : Suits(l, scan.kind) => closed[l]

\* Once any kind will do, no leg of the kind asked for was left.
FellBack ==
  ~ Idle /\ scan.kind # scan.want =>
     scan.kind = AnyKind /\ \A l \in table : Suits(l, scan.want) => closed[l]

\* The inductive invariant of the scheduler.
IInv == TypeOK /\ ScanSound /\ FellBack /\ EstimateIsBetween

-----------------------------------------------------------------------------
\* The initial state.
LEMMA InitInv == Init => IInv
<1> SUFFICES ASSUME Init PROVE IInv OBVIOUS
<1>1. TypeOK BY DEF Init, TypeOK, NoScan, Kinds, AnyKind, NoLeg
<1>2. ScanSound /\ FellBack BY DEF Init, ScanSound, FellBack, Idle
<1>3. EstimateIsBetween BY DEF Init, EstimateIsBetween
<1> QED BY <1>1, <1>2, <1>3 DEF IInv

\* While no choice is going on, whatever else happens keeps the loop's part.
LEMMA NotScanning ==
  ASSUME Idle, UNCHANGED scan
  PROVE  ScanSound' /\ FellBack'
  BY DEF Idle, ScanSound, FellBack, NoScan

\* Legs only go from open to closed.
LEMMA ClosingIsSound ==
  ASSUME IInv, UNCHANGED <<table, rtt, lastRx, scan>>, TypeOK',
         \A l \in Leg : closed[l] => closed'[l]
  PROVE  ScanSound' /\ FellBack'
<1>1. \A l \in table : l \in Leg BY DEF IInv, TypeOK
<1>2. ScanSound'
  BY <1>1 DEF IInv, ScanSound, Idle, Visited, Outranks, Suits, TypeOK
<1>3. FellBack' BY <1>1 DEF IInv, FellBack, Idle, Suits
<1> QED BY <1>2, <1>3

\* A sample is taken into account.
LEMMA Observing ==
  ASSUME IInv, NEW l \in Leg, NEW s \in Nat \ {0},
         rtt' = [rtt EXCEPT ![l] = Observed(@, s)],
         samples' = [samples EXCEPT ![l] = @ \cup {s}]
  PROVE  /\ rtt' \in [Leg -> Nat] /\ samples' \in [Leg -> SUBSET (Nat \ {0})]
         /\ EstimateIsBetween'
<1>1. /\ rtt \in [Leg -> Nat] /\ samples \in [Leg -> SUBSET (Nat \ {0})]
      /\ rtt[l] \in Nat
  BY DEF IInv, TypeOK
<1>2. Observed(rtt[l], s) \in Nat
  BY <1>1, SmoothedIsBetween DEF Observed
<1>3. rtt' \in [Leg -> Nat] /\ samples' \in [Leg -> SUBSET (Nat \ {0})]
  BY <1>1, <1>2
<1>4. /\ samples'[l] # {}
      /\ \E t \in samples'[l] : t <= rtt'[l]
      /\ \E t \in samples'[l] : rtt'[l] <= t
  <2>1. rtt'[l] = Observed(rtt[l], s) /\ samples'[l] = samples[l] \cup {s}
    BY <1>1
  <2>2. CASE samples[l] = {}
    <3>1. rtt[l] = 0 BY <2>2 DEF IInv, EstimateIsBetween
    <3> QED BY <2>1, <3>1 DEF Observed
  <2>3. CASE samples[l] # {}
    <3>1. PICK lo \in samples[l], hi \in samples[l] : lo <= rtt[l] /\ rtt[l] <= hi
      BY <2>3 DEF IInv, EstimateIsBetween
    <3>2. lo \in Nat \ {0} /\ hi \in Nat BY <1>1
    <3>3. rtt'[l] = Smoothed(rtt[l], s) /\ rtt'[l] \in Nat
      <4>1. rtt[l] # 0 BY <1>1, <3>1, <3>2
      <4>2. rtt'[l] = Smoothed(rtt[l], s) BY <2>1, <4>1 DEF Observed
      <4>3. Smoothed(rtt[l], s) \in Nat BY <1>1, SmoothedIsBetween
      <4> QED BY <4>2, <4>3
    <3>4. CASE rtt[l] <= s
      <4>1. rtt[l] <= rtt'[l] /\ rtt'[l] <= s
        BY <1>1, <3>3, <3>4, SmoothedIsBetween
      <4>2. lo <= rtt'[l] BY <1>1, <3>1, <3>2, <3>3, <4>1
      <4> QED BY <2>1, <4>1, <4>2
    <3>5. CASE s <= rtt[l]
      <4>1. s <= rtt'[l] /\ rtt'[l] <= rtt[l]
        BY <1>1, <3>3, <3>5, SmoothedIsBetween
      <4>2. rtt'[l] <= hi BY <1>1, <3>1, <3>2, <3>3, <4>1
      <4> QED BY <2>1, <4>1, <4>2
    <3> QED BY <1>1, <3>4, <3>5
  <2> QED BY <2>1, <2>2, <2>3
<1>5. \A m \in Leg : m # l => rtt'[m] = rtt[m] /\ samples'[m] = samples[m]
  BY <1>1
<1>6. EstimateIsBetween'
  BY <1>4, <1>5 DEF IInv, EstimateIsBetween
<1> QED BY <1>3, <1>6

\* One turn of the loop: what outranks the leg chosen so far outranks what
\* that one was chosen over.
LEMMA VisitStep ==
  ASSUME IInv, NEW l \in Leg, Visit(l)
  PROVE  IInv'
<1> DEFINE b == scan.best
<1>0. /\ TypeOK /\ ScanSound /\ ~ Idle /\ l \in scan.todo /\ l \in table
      /\ UNCHANGED <<clock, table, fresh, closed, measured>>
  BY DEF IInv, Visit, ScanSound, Idle, NoScan
<1>1. /\ scan'.todo = scan.todo \ {l} /\ scan'.kind = scan.kind
      /\ scan'.want = scan.want /\ scan'.dead = scan.dead
      /\ scan'.best = IF Skipped(l) THEN b
                      ELSE IF b = NoLeg THEN l
                      ELSE IF BetterThan(l, b) THEN l ELSE b
      /\ scan' \in [want : Kinds \cup {NoLeg}, kind : Kinds, todo : SUBSET Leg,
                    best : Leg \cup {NoLeg}, dead : SUBSET Leg]
  BY <1>0 DEF Visit, TypeOK
<1>2. TypeOK' BY <1>0, <1>1 DEF TypeOK, measured
<1>3. Visited' = Visited \cup {l} BY <1>0, <1>1 DEF Visited
<1>4. ~ Skipped(l) <=> ~ closed[l] /\ Suits(l, scan.kind)
  BY DEF Skipped, Suits
<1>5. ~ Idle'
  BY <1>0, <1>1, LegSelectAssumption
     DEF ScanSound, Idle, NoScan, Kinds, NoLeg, AnyKind
<1>6. \A k, m : (Outranks(k, m))' <=> Outranks(k, m)
  BY <1>0 DEF Outranks, measured
<1>7. ScanSound'
  <2>1. b # NoLeg => b \in Leg BY <1>0 DEF TypeOK
  <2>2. NoLeg \notin Leg BY LegSelectAssumption DEF NoLeg
  <2>3. /\ scan'.todo \subseteq table' /\ scan'.dead \subseteq table'
        /\ scan'.want \in Kinds /\ \A k \in scan'.dead : closed'[k]
    BY <1>0, <1>1 DEF ScanSound
  <2>4. scan'.best # NoLeg =>
          /\ scan'.best \in Visited' /\ Suits(scan'.best, scan'.kind)
          /\ scan'.best \notin scan'.dead
    BY <1>0, <1>1, <1>3, <1>4 DEF ScanSound
  <2>5. scan'.best = NoLeg =>
          \A k \in Visited' : Suits(k, scan'.kind) => closed'[k]
    BY <1>0, <1>1, <1>3, <1>4, <2>2 DEF ScanSound
  <2>6. ASSUME scan'.best # NoLeg, NEW k \in Visited',
               ~ closed[k], Suits(k, scan.kind)
        PROVE  ~ Outranks(k, scan'.best)
    <3>1. k \in Leg BY <1>0, <1>3 DEF Visited, TypeOK
    <3>2. CASE scan'.best = b
      <4>1. CASE k = l
        <5>1. ~ BetterThan(l, b) BY <1>1, <1>4, <2>2, <2>6, <3>2, <4>1,
                <1>0, BetterThanIsAnOrder DEF ScanSound, Visited
        <5> QED BY <1>0, <2>1, <2>6, <3>2, <4>1, <5>1, BetterIsOutranks
      <4>2. CASE k \in Visited BY <1>0, <2>6, <3>2, <4>2 DEF ScanSound
      <4> QED BY <1>3, <4>1, <4>2
    <3>3. CASE scan'.best = l /\ b = NoLeg
      <4>1. k = l BY <1>0, <1>3, <2>6, <3>3 DEF ScanSound
      <4> QED BY <1>0, <3>3, <4>1, BetterIsOutranks, BetterThanIsAnOrder
    <3>4. CASE scan'.best = l /\ b # NoLeg /\ BetterThan(l, b)
      <4>1. CASE k = l
        BY <1>0, <3>4, <4>1, BetterIsOutranks, BetterThanIsAnOrder
      <4>2. CASE k \in Visited
        <5>1. ~ Outranks(k, b) BY <1>0, <2>6, <3>4, <4>2 DEF ScanSound
        <5> QED BY <1>0, <2>1, <3>1, <3>4, <5>1, BetterIsOutranks,
                   BetterThanIsAnOrder
      <4> QED BY <1>3, <4>1, <4>2
    <3> QED BY <1>1, <3>2, <3>3, <3>4
  <2> QED BY <1>0, <1>1, <1>6, <2>3, <2>4, <2>5, <2>6 DEF ScanSound
<1>8. FellBack'
  BY <1>0, <1>1 DEF IInv, FellBack, Idle, Suits
<1>9. EstimateIsBetween'
  BY <1>0 DEF IInv, EstimateIsBetween, measured
<1> QED BY <1>2, <1>7, <1>8, <1>9 DEF IInv

\* The invariant is inductive.
LEMMA StepInv == IInv /\ [Next]_vars => IInv'
<1> SUFFICES ASSUME IInv, [Next]_vars PROVE IInv' OBVIOUS
<1>0. TypeOK /\ EstimateIsBetween BY DEF IInv
<1>1. CASE UNCHANGED vars
  <2>1. TypeOK' BY <1>0, <1>1 DEF TypeOK, vars, measured
  <2>2. ScanSound' /\ FellBack'
    BY <1>1, <2>1, ClosingIsSound DEF vars, measured
  <2>3. EstimateIsBetween'
    BY <1>0, <1>1 DEF EstimateIsBetween, vars, measured
  <2> QED BY <2>1, <2>2, <2>3 DEF IInv
<1>2. ASSUME NEW l \in Leg, HandleFrame(l) \/ OnRTTSync(l) PROVE IInv'
  <2>1. TypeOK'
    <3>1. lastRx' \in [Leg -> Nat] /\ probes' \in [Leg -> SUBSET Nat]
      BY <1>0, <1>2 DEF TypeOK, HandleFrame, OnRTTSync
    <3> QED BY <1>0, <1>2, <3>1 DEF TypeOK, HandleFrame, OnRTTSync
  <2>2. ScanSound' /\ FellBack'
    BY <1>2, NotScanning DEF HandleFrame, OnRTTSync
  <2>3. EstimateIsBetween'
    BY <1>0, <1>2 DEF EstimateIsBetween, HandleFrame, OnRTTSync
  <2> QED BY <2>1, <2>2, <2>3 DEF IInv
<1>3. ASSUME NEW l \in Leg, NEW stamp \in probes[l] \cup {0},
             OnRTTAck(l, stamp)
      PROVE  IInv'
  <2> DEFINE sample == clock - stamp
  <2>1. stamp \in Nat /\ sample \in Int BY <1>0, <1>3 DEF TypeOK
  <2>2. lastRx' \in [Leg -> Nat] BY <1>0, <1>3 DEF TypeOK, OnRTTAck
  <2>3. ScanSound' /\ FellBack' BY <1>3, NotScanning DEF OnRTTAck
  <2>4. /\ rtt' \in [Leg -> Nat] /\ samples' \in [Leg -> SUBSET (Nat \ {0})]
        /\ EstimateIsBetween'
    <3>1. CASE stamp # 0 /\ sample > 0 /\ sample < MaxRTT
      <4>1. sample \in Nat \ {0} BY <2>1, <3>1
      <4>2. /\ rtt' = [rtt EXCEPT ![l] = Observed(@, sample)]
            /\ samples' = [samples EXCEPT ![l] = @ \cup {sample}]
        BY <1>3, <3>1 DEF OnRTTAck
      <4> HIDE DEF sample
      <4> QED BY <4>1, <4>2, Observing
    <3>2. CASE ~ (stamp # 0 /\ sample > 0 /\ sample < MaxRTT)
      <4>1. UNCHANGED <<rtt, samples>> BY <1>3, <3>2 DEF OnRTTAck
      <4> QED BY <1>0, <4>1 DEF TypeOK, EstimateIsBetween
    <3> QED BY <3>1, <3>2
  <2>5. TypeOK' BY <1>0, <1>3, <2>2, <2>4 DEF TypeOK, OnRTTAck
  <2> QED BY <2>3, <2>4, <2>5 DEF IInv
<1>4. ASSUME NEW l \in Leg, AttachLeg(l) \/ DetachLeg(l) PROVE IInv'
  <2>1. TypeOK'
    BY <1>0, <1>4 DEF TypeOK, AttachLeg, DetachLeg, measured
  <2>2. ScanSound' /\ FellBack'
    BY <1>4, NotScanning DEF AttachLeg, DetachLeg
  <2>3. EstimateIsBetween'
    BY <1>0, <1>4 DEF EstimateIsBetween, AttachLeg, DetachLeg, measured
  <2> QED BY <2>1, <2>2, <2>3 DEF IInv
<1>5. ASSUME NEW l \in Leg, Close(l) PROVE IInv'
  <2>1. TypeOK' BY <1>0, <1>5 DEF TypeOK, Close, measured
  <2>2. \A m \in Leg : closed[m] => closed'[m]
    BY <1>0, <1>5 DEF TypeOK, Close
  <2>3. ScanSound' /\ FellBack'
    BY <1>5, <2>1, <2>2, ClosingIsSound DEF Close, measured
  <2>4. EstimateIsBetween'
    BY <1>0, <1>5 DEF EstimateIsBetween, Close, measured
  <2> QED BY <2>1, <2>3, <2>4 DEF IInv
<1>6. ASSUME NEW l \in Leg, Visit(l) PROVE IInv'
  BY <1>6, VisitStep
<1>7. ASSUME NEW kind \in Kinds, PickLeg(kind) PROVE IInv'
  <2>1. TypeOK'
    BY <1>0, <1>7 DEF TypeOK, PickLeg, measured, NoLeg, AnyKind, Kinds
  <2>2. /\ scan'.todo = table /\ scan'.best = NoLeg /\ scan'.want = kind
        /\ scan'.kind = kind /\ scan'.dead = {l \in table : closed[l]}
        /\ UNCHANGED <<table, closed>>
    BY <1>7 DEF PickLeg
  <2>3. ScanSound' BY <2>2 DEF ScanSound, Visited
  <2>4. FellBack' BY <2>2 DEF FellBack
  <2>5. EstimateIsBetween'
    BY <1>0, <1>7 DEF EstimateIsBetween, PickLeg, measured
  <2> QED BY <2>1, <2>3, <2>4, <2>5 DEF IInv
<1>8. CASE Fallback
  <2>1. TypeOK'
    BY <1>0, <1>8 DEF TypeOK, Fallback, measured, NoLeg, AnyKind, Kinds
  <2>2. /\ scan'.todo = table /\ scan'.best = NoLeg /\ scan'.kind = AnyKind
        /\ scan'.want = scan.want /\ scan'.dead = scan.dead
        /\ UNCHANGED <<table, closed>> /\ ~ Idle /\ scan.todo = {}
        /\ scan.best = NoLeg /\ scan.kind # AnyKind
    BY <1>0, <1>8 DEF Fallback, Scanned, TypeOK
  <2>3. ScanSound' BY <2>2 DEF IInv, ScanSound, Visited
  <2>4. FellBack' BY <2>2 DEF IInv, ScanSound, FellBack, Visited
  <2>5. EstimateIsBetween'
    BY <1>0, <1>8 DEF EstimateIsBetween, Fallback, measured
  <2> QED BY <2>1, <2>3, <2>4, <2>5 DEF IInv
<1>9. CASE PickEnds
  <2>1. TypeOK'
    BY <1>0, <1>9 DEF TypeOK, PickEnds, measured, NoScan, NoLeg, AnyKind, Kinds
  <2>2. ScanSound' /\ FellBack'
    BY <1>9 DEF PickEnds, ScanSound, FellBack, Idle
  <2>3. EstimateIsBetween'
    BY <1>0, <1>9 DEF EstimateIsBetween, PickEnds, measured
  <2> QED BY <2>1, <2>2, <2>3 DEF IInv
<1>10. CASE Elapse
  <2>1. TypeOK' BY <1>0, <1>10 DEF TypeOK, Elapse, measured
  <2>2. ScanSound' /\ FellBack'
    BY <1>10, <2>1, ClosingIsSound DEF Elapse, measured
  <2>3. EstimateIsBetween'
    BY <1>0, <1>10 DEF EstimateIsBetween, Elapse, measured
  <2> QED BY <2>1, <2>2, <2>3 DEF IInv
<1> QED
  BY <1>1, <1>2, <1>3, <1>4, <1>5, <1>6, <1>7, <1>8, <1>9, <1>10 DEF Next

-----------------------------------------------------------------------------
(* Theorems                                                                *)

\* The inductive invariant holds in every state: what pickLeg's loop knows
\* after each leg it has visited, while legs close under it.
THEOREM Safety == Spec => []IInv
  BY InitInv, StepInv, PTL DEF Spec

\* Every variable stays in its range.
THEOREM TypeCorrect == Spec => []TypeOK
<1>1. IInv => TypeOK BY DEF IInv
<1> QED BY <1>1, Safety, PTL

\* pickLeg returns a leg that no open leg of its kind outranks.
THEOREM BestLegIsPicked == Spec => []PickIsBest
<1>1. IInv => PickIsBest
  BY DEF IInv, ScanSound, PickIsBest, Decided, Scanned, Visited
<1> QED BY <1>1, Safety, PTL

\* pickLeg never returns a leg that was closed before, and crosses kinds or
\* returns nil only when it has to.
THEOREM LiveLegIsPicked == Spec => []PickIsLive
<1>1. IInv => PickIsLive
  <2> SUFFICES ASSUME IInv, Decided PROVE PickIsLive BY DEF PickIsLive
  <2>1. /\ ~ Idle /\ Visited = table /\ scan.dead \subseteq Leg
        /\ NoLeg \notin scan.dead
    BY LegSelectAssumption
       DEF IInv, TypeOK, Decided, Scanned, Visited, NoLeg
  <2>2. scan.best \notin scan.dead BY <2>1 DEF IInv, ScanSound
  <2>3. ASSUME scan.best # NoLeg, ~ Suits(scan.best, scan.want)
        PROVE  \A l \in table : Suits(l, scan.want) => closed[l]
    BY <2>1, <2>3 DEF IInv, ScanSound, FellBack
  <2>4. ASSUME scan.best = NoLeg PROVE \A l \in table : closed[l]
    BY <2>1, <2>4 DEF IInv, ScanSound, Decided, Suits
  <2> QED BY <2>2, <2>3, <2>4 DEF PickIsLive
<1> QED BY <1>1, Safety, PTL

\* The smoothed round trip of a leg stays within its samples (observeRTT).
THEOREM EstimateIsSound == Spec => []EstimateIsBetween
<1>1. IInv => EstimateIsBetween BY DEF IInv
<1> QED BY <1>1, Safety, PTL
=============================================================================
