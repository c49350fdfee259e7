---------------------------- MODULE TcpFlow_proofs ----------------------------
(***************************************************************************)
(* Theorems about TcpFlow, for any tuples, limits, capacities and bounds.  *)
(***************************************************************************)
EXTENDS TcpFlow, FiniteSetTheorems, SequenceTheorems, TLAPS

TupleOf(f) == flow[f].tuple

\* The names given to flows are those up to the counter; the rest is blank.
Allocated ==
  \A f \in Flow :
     /\ f > opened <=> flow[f].main = "none"
     /\ f <= opened => TupleOf(f) \in Tuple
     /\ f > opened => flow[f].writes = <<>> /\ ~ flow[f].done

\* A flow has no socket before adopt gave it one.
Undialed ==
  \A f \in Flow :
     flow[f].main \in {"none", "dialing", "dialed"} => flow[f].conn = "none"

\* What is in the map is there under its own tuple.
MapExact == \A t \in Live : flows[t] <= opened /\ TupleOf(flows[t]) = t

\* A flow that is not done is in the map of a running session.
Owned ==
  \A f \in Flow :
     f <= opened /\ ~ flow[f].done => running /\ flows[TupleOf(f)] = f

\* An open socket that is not in the map is one whose close the session
\* goroutine is in; it has not served anything since.
Leaving ==
  \A f \in Flow :
     flow[f].conn = "open" =>
        \/ flows[TupleOf(f)] = f
        \/ f \in waits /\ flows[TupleOf(f)] = None

\* What is closed together has different tuples.
Apart ==
  \A f, g \in waits : f <= opened /\ (TupleOf(f) = TupleOf(g) => f = g)

\* Items in the channel are of flows that were opened.
Posted == \A i \in DOMAIN out : out[i].flow <= opened

\* An enqueue waits for a flow that was opened.
Stalled == stall = NoStall \/ stall.flow <= opened

Reported(f) == \E i \in DOMAIN out : out[i].closed /\ out[i].flow = f

\* A flow in the map that is past its end has reported it.
Reports ==
  running /\ ~ srvDone =>
     \A t \in Live :
        flow[flows[t]].done \/ flow[flows[t]].main = "closing"
          => Reported(flows[t])

\* The inductive invariant of the proxy.
IInv ==
  /\ TypeOK /\ Allocated /\ Undialed /\ MapExact /\ Owned /\ Leaving /\ Apart
  /\ Posted /\ Stalled /\ Reports /\ FlowLimit

-----------------------------------------------------------------------------
(* The map within its limit                                                *)

\* There are finitely many tuples in the map.
LEMMA Finite == \A S \in SUBSET Tuple : IsFiniteSet(S)
  BY FS_Subset, TcpFlowAssumption

\* The map never has more entries than the limit allows, if it only shrinks.
LEMMA Shrinks ==
  ASSUME NEW S \in SUBSET Tuple, NEW T \in SUBSET S,
         Cardinality(S) <= MaxFlowsPerSession
  PROVE  Cardinality(T) <= MaxFlowsPerSession
<1>1. IsFiniteSet(S) /\ IsFiniteSet(T) /\ Cardinality(T) <= Cardinality(S)
  BY Finite, FS_Subset
<1>2. Cardinality(S) \in Nat /\ Cardinality(T) \in Nat
  BY <1>1, FS_CardinalityType
<1> QED BY <1>1, <1>2, TcpFlowAssumption

\* Adding a tuple below the limit.
LEMMA Grows ==
  ASSUME NEW S \in SUBSET Tuple, NEW t \in Tuple, t \notin S,
         ~ (Cardinality(S) >= MaxFlowsPerSession)
  PROVE  Cardinality(S \cup {t}) <= MaxFlowsPerSession
<1>1. IsFiniteSet(S) BY Finite
<1>2. Cardinality(S) \in Nat /\ Cardinality(S \cup {t}) = Cardinality(S) + 1
  BY <1>1, FS_AddElement, FS_CardinalityType
<1> QED BY <1>2, TcpFlowAssumption

\* The initial state.
LEMMA InitInv == Init => IInv
<1> SUFFICES ASSUME Init PROVE IInv OBVIOUS
<1> USE DEF Init, Flow, None
<1>1. TypeOK
  <2>1. flow \in [Flow -> FlowState]
    BY TcpFlowAssumption DEF FlowState
  <2>2. log \in [Flow -> LogState] BY TcpFlowAssumption DEF LogState
  <2>3. out \in Seq(Item) /\ Len(out) <= OutCap BY TcpFlowAssumption
  <2>4. flows \in [Tuple -> Flow \cup {None}] OBVIOUS
  <2>5. /\ opened \in 0 .. MaxFlows
        /\ chunks \in 0 .. MaxChunks /\ resets \in 0 .. MaxResets
    BY TcpFlowAssumption
  <2>6. \A f \in Flow : Len(flow[f].writes) <= QueueCap
    BY TcpFlowAssumption
  <2> QED BY <2>1, <2>2, <2>3, <2>4, <2>5, <2>6 DEF TypeOK
<1>2. Live = {} BY DEF Live
<1>3. Allocated BY DEF Allocated
<1>4. Undialed BY DEF Undialed
<1>5. MapExact /\ Reports BY <1>2 DEF MapExact, Reports
<1>6. Owned BY DEF Owned
<1>7. Leaving /\ Apart /\ Posted /\ Stalled
  BY DEF Leaving, Apart, Posted, Stalled
<1>8. FlowLimit BY <1>2, FS_EmptySet, TcpFlowAssumption DEF FlowLimit
<1> QED BY <1>1, <1>3, <1>4, <1>5, <1>6, <1>7, <1>8 DEF IInv

-----------------------------------------------------------------------------
(* One flow updated                                                        *)

Main == {"none", "dialing", "dialed", "reading", "posting", "ended",
         "closing", "over"}

\* The goroutines of a flow leave its tuple alone, and as long as it has not
\* been opened everything else; they open its socket when it has just been
\* dialed, and end it only after the report was posted.
Calm(r, q) ==
  /\ q.tuple = r.tuple
  /\ \/ q.conn = r.conn
     \/ q.conn = "closed" /\ r.conn = "open"
     \/ q.conn = "open" /\ ~ r.done /\ r.main = "dialed"
  /\ q.done = r.done \/ (q.done = TRUE /\ r.main = "closing")
  /\ q.main = "none" <=> r.main = "none"
  /\ q.main \in {"dialing", "dialed"} => q.conn = "none"
  /\ r.main = "none" => q.writes = r.writes /\ q.conn = r.conn

Quiet == \A f \in Flow : Calm(flow[f], flow'[f])

\* A record replaced by a calm one.
LEMMA OneUpdated ==
  ASSUME TypeOK, Undialed, NEW f \in Flow, NEW q \in FlowState,
         Len(q.writes) <= QueueCap, Calm(flow[f], q),
         flow' = [flow EXCEPT ![f] = q]
  PROVE  /\ flow' \in [Flow -> FlowState]
         /\ \A g \in Flow : Len(flow'[g].writes) <= QueueCap
         /\ Quiet
<1>1. \A g \in Flow : Calm(flow[g], flow[g])
  BY DEF Calm, Undialed
<1> QED BY <1>1 DEF TypeOK, Quiet

\* The map, the counter and the life of the session are as they were.
LEMMA QuietStep ==
  ASSUME IInv, TypeOK', Quiet, UNCHANGED <<running, flows, opened>>,
         waits' = waits \/ (Serving /\ waits' = {}),
         Posted', Stalled', Reports'
  PROVE  IInv'
<1> USE DEF IInv
<1>0. opened \in Nat /\ Flow \subseteq Nat BY DEF TypeOK, Flow
<1>1. Live' = Live /\ \A f \in Flow : TupleOf(f)' = TupleOf(f)
  BY DEF Live, TupleOf, Quiet, Calm
<1>2. Allocated' BY <1>0, <1>1 DEF Allocated, Quiet, Calm
<1>3. Undialed' BY DEF Undialed, Quiet, Calm
<1>4. MapExact'
  <2>1. \A t \in Live : flows[t] \in Flow BY DEF Live, TypeOK
  <2> QED BY <1>1, <2>1 DEF MapExact
<1>5. Owned' BY <1>1 DEF Owned, Quiet, Calm, TypeOK, FlowState
<1>6. Leaving'
  <2> SUFFICES ASSUME NEW f \in Flow, flow'[f].conn = "open"
               PROVE  \/ flows[TupleOf(f)] = f
                      \/ f \in waits' /\ flows[TupleOf(f)] = None
    BY <1>1 DEF Leaving
  <2>1. CASE flow[f].conn = "open"
    BY <2>1 DEF Leaving, Serving
  <2>2. CASE flow[f].conn # "open"
    <3>1. ~ flow[f].done /\ flow[f].main = "dialed"
      BY <2>2 DEF Quiet, Calm
    <3>2. f <= opened BY <1>0, <3>1 DEF Allocated
    <3> QED BY <3>1, <3>2 DEF Owned
  <2> QED BY <2>1, <2>2
<1>7. Apart' BY <1>1 DEF Apart, TypeOK
<1>8. FlowLimit' BY <1>1 DEF FlowLimit
<1> QED BY <1>2, <1>3, <1>4, <1>5, <1>6, <1>7, <1>8

\* What was reported stays so unless the session takes it.
LEMMA Reporting ==
  ASSUME IInv, TypeOK', UNCHANGED <<running, flows, opened>>,
         srvDone' = srvDone \/ srvDone' = TRUE,
         out' = out \/ \E it \in Item : it.flow <= opened
                                          /\ out' = Append(out, it),
         \A f \in Flow :
           (flow'[f].done \/ flow'[f].main = "closing") =>
              \/ flow[f].done \/ flow[f].main = "closing"
              \/ srvDone' \/ Reported(f)'
  PROVE  Posted' /\ Reports'
<1> USE DEF IInv
<1>1. Posted'
  <2>1. CASE out' = out BY <2>1 DEF Posted
  <2>2. ASSUME NEW it \in Item, it.flow <= opened, out' = Append(out, it)
        PROVE Posted'
    BY <2>2 DEF Posted, TypeOK
  <2> QED BY <2>1, <2>2
<1>2. \A f \in Flow : Reported(f) => Reported(f)'
  <2> SUFFICES ASSUME NEW f \in Flow, NEW i \in DOMAIN out,
                      out[i].closed /\ out[i].flow = f
               PROVE  i \in DOMAIN out' /\ out'[i] = out[i]
    BY DEF Reported
  <2>1. out \in Seq(Item) BY DEF TypeOK
  <2> HIDE DEF IInv
  <2> QED BY <2>1
<1>3. Reports'
  <2> SUFFICES ASSUME running, ~ srvDone', NEW t \in Live,
                      flow'[flows[t]].done \/ flow'[flows[t]].main = "closing"
               PROVE  Reported(flows[t])'
    BY DEF Reports, Live, Reported
  <2>1. flows[t] \in Flow BY DEF Live, TypeOK
  <2> QED BY <1>2, <2>1 DEF Reports
<1> QED BY <1>1, <1>3

-----------------------------------------------------------------------------
(* Steps that change the map                                               *)

\* Only flows that are leaving, and closed by now, are not in the map when
\* the session goroutine serves something.
LEMMA NoneLeaving ==
  ASSUME IInv, Serving, NEW f \in Flow, flow[f].conn = "open"
  PROVE  flows[TupleOf(f)] = f
  BY DEF IInv, Serving, Leaving

\* The flows of a set of tuples are closed, and leave the map unless the
\* session ends (Disconnect, HandleUpstream, ResetForHandshake, Shutdown).
LEMMA Removing ==
  ASSUME IInv, Serving, NEW D \in SUBSET Live,
         flow' = Closed(flow, {flows[t] : t \in D}),
         waits' = {flows[t] : t \in D}, opened' = opened,
         \/ /\ running' = running
            /\ flows' = [t \in Tuple |-> IF t \in D THEN None ELSE flows[t]]
         \/ running' = FALSE /\ flows' = flows /\ D = Live,
         UNCHANGED stall, TypeOK', Posted', Reports'
  PROVE  IInv'
<1> USE DEF IInv
<1> DEFINE F == {flows[t] : t \in D}
<1>0. /\ running /\ opened \in Nat /\ Flow \subseteq Nat
      /\ D \subseteq Tuple /\ \A t \in Live : flows[t] \in Flow
  BY DEF TypeOK, Flow, Serving, Live
<1>1. \A f \in Flow : /\ TupleOf(f)' = TupleOf(f)
                      /\ flow'[f].conn = flow[f].conn
                      /\ flow'[f].main = flow[f].main
                      /\ flow'[f].writes = flow[f].writes
                      /\ flow'[f].done <=> flow[f].done \/ f \in F
  BY DEF Closed, TypeOK, FlowState, TupleOf
<1>2. Live' \subseteq Live /\ \A t \in Live' : flows'[t] = flows[t]
  BY <1>0 DEF Live, TypeOK
<1>3. \A t \in D : TupleOf(flows[t]) = t /\ flows[t] <= opened BY DEF MapExact
<1>4. Allocated'
  <2> SUFFICES ASSUME NEW f \in Flow
               PROVE  /\ f > opened <=> flow'[f].main = "none"
                      /\ f <= opened => TupleOf(f)' \in Tuple
                      /\ f > opened => flow'[f].writes = <<>> /\ ~ flow'[f].done
    BY DEF Allocated
  <2>1. f \in F => f <= opened BY <1>3
  <2>2. /\ f > opened <=> flow[f].main = "none"
        /\ f <= opened => TupleOf(f) \in Tuple
        /\ f > opened => flow[f].writes = <<>> /\ ~ flow[f].done
    BY DEF Allocated
  <2>3. f \in Nat BY <1>0
  <2> HIDE DEF IInv, F
  <2>4. f > opened <=> flow'[f].main = "none" BY <1>1, <2>2
  <2>5. f <= opened => TupleOf(f)' \in Tuple BY <1>1, <2>2
  <2>6. f > opened => ~ (f <= opened) BY <1>0, <2>3
  <2>7. f > opened => flow'[f].writes = <<>> /\ ~ flow'[f].done
    BY <1>1, <2>1, <2>2, <2>6
  <2> QED BY <2>4, <2>5, <2>7
<1>5. Undialed' BY <1>1 DEF Undialed
<1>6. MapExact' BY <1>0, <1>1, <1>2 DEF MapExact
<1>7. Owned'
  <2> SUFFICES ASSUME NEW f \in Flow, f <= opened, ~ flow'[f].done
               PROVE  running' /\ flows'[TupleOf(f)] = f
    BY <1>1 DEF Owned
  <2>1. ~ flow[f].done /\ f \notin F BY <1>1
  <2>2. flows[TupleOf(f)] = f /\ TupleOf(f) \in Tuple
    BY <2>1 DEF Owned, Allocated
  <2>3. f # None BY DEF Flow, None
  <2>4. TupleOf(f) \in Live /\ TupleOf(f) \notin D
    BY <2>1, <2>2, <2>3 DEF Live
  <2> QED BY <2>2, <2>4, <1>0
<1>8. Leaving'
  <2> SUFFICES ASSUME NEW f \in Flow, flow[f].conn = "open"
               PROVE  \/ flows'[TupleOf(f)] = f
                      \/ f \in F /\ flows'[TupleOf(f)] = None
    BY <1>1 DEF Leaving
  <2>1. flows[TupleOf(f)] = f BY NoneLeaving
  <2>2. flow[f].main # "none" BY DEF Undialed
  <2>3. TupleOf(f) \in Tuple BY <2>2, <1>0 DEF Allocated
  <2> QED BY <2>1, <2>3
<1>9. Apart'
  <2> SUFFICES ASSUME NEW t \in D, NEW u \in D
               PROVE  /\ flows[t] <= opened
                      /\ flow'[flows[t]].tuple = flow'[flows[u]].tuple =>
                           flows[t] = flows[u]
    BY DEF Apart, TupleOf
  <2>1. flows[t] \in Flow /\ flows[u] \in Flow BY <1>0
  <2>2. flow'[flows[t]].tuple = t /\ flow'[flows[u]].tuple = u
    BY <1>1, <1>3, <2>1 DEF TupleOf
  <2> QED BY <1>3, <2>2
<1>10. FlowLimit'
  <2>1. Live \subseteq Tuple BY DEF Live
  <2> QED BY <2>1, <1>2, Shrinks DEF FlowLimit
<1>11. Stalled' BY DEF Stalled, Serving
<1> QED BY <1>4, <1>5, <1>6, <1>7, <1>8, <1>9, <1>10, <1>11

\* Removing flows keeps the reports of those that stay.
LEMMA RemovingReports ==
  ASSUME IInv, NEW D \in SUBSET Live,
         flow' = Closed(flow, {flows[t] : t \in D}), UNCHANGED srvDone,
         opened' = opened,
         \/ /\ running' = running
            /\ flows' = [t \in Tuple |-> IF t \in D THEN None ELSE flows[t]]
         \/ running' = FALSE,
         out' = out \/ (out # <<>> /\ out' = Tail(out)),
         \A i \in DOMAIN out : \A t \in Live \ D :
            out[i].closed /\ out[i].flow = flows[t] => out' = out \/ i # 1
  PROVE  Posted' /\ Reports'
<1> USE DEF IInv
<1>0. out # <<>> /\ out' = Tail(out) =>
        /\ \A i \in DOMAIN out : i # 1 => /\ i - 1 \in DOMAIN out'
                                         /\ out'[i - 1] = out[i]
        /\ \A i \in DOMAIN out' : i + 1 \in DOMAIN out /\ out'[i] = out[i + 1]
  BY DEF TypeOK
<1>1. Posted' BY <1>0 DEF Posted
<1>2. Reports'
  <2> SUFFICES ASSUME running', ~ srvDone, NEW t \in Live',
                      (flow[flows[t]].done \/ flow[flows[t]].main = "closing")'
               PROVE  Reported(flows[t])'
    BY DEF Reports
  <2>1. /\ running /\ t \in Live /\ t \notin D /\ flows'[t] = flows[t]
        /\ flows[t] \in Flow
    BY DEF Live, TypeOK
  <2>2. flows[t] \notin {flows[d] : d \in D}
    BY <2>1 DEF MapExact
  <2>3. flow'[flows[t]] = flow[flows[t]]
    BY <2>1, <2>2 DEF Closed
  <2>4. PICK i \in DOMAIN out : out[i].closed /\ out[i].flow = flows[t]
    BY <2>1, <2>3 DEF Reports, Reported
  <2>5. CASE out' = out BY <2>1, <2>4, <2>5 DEF Reported
  <2>6. CASE out' # out
    <3>1. i # 1 BY <2>1, <2>4, <2>6
    <3>2. i - 1 \in DOMAIN out' /\ out'[i - 1] = out[i]
      BY <1>0, <2>6, <3>1
    <3> QED BY <2>1, <2>4, <3>2 DEF Reported
  <2> QED BY <2>5, <2>6
<1> QED BY <1>1, <1>2

\* A flow is opened for a tuple without one (Connect, PayloadOpens).
LEMMA Opening ==
  ASSUME IInv, Serving, NEW t \in Tuple, flows[t] = None, ~ AtLimit,
         opened < MaxFlows, opened' = opened + 1,
         flows' = [flows EXCEPT ![t] = opened + 1],
         \A f \in Flow : f # opened + 1 => flow'[f] = flow[f],
         /\ flow'[opened + 1].tuple = t /\ flow'[opened + 1].main = "dialing"
         /\ flow'[opened + 1].conn = flow[opened + 1].conn
         /\ flow'[opened + 1].done = flow[opened + 1].done,
         waits' = {}, UNCHANGED <<running, stall, out, srvDone>>, TypeOK'
  PROVE  IInv'
<1> USE DEF IInv
<1> DEFINE n == opened + 1
<1>0. /\ running /\ opened \in Nat /\ n \in Flow /\ n # None
      /\ Flow \subseteq Nat
  BY TcpFlowAssumption DEF TypeOK, Flow, Serving, None
<1>1. /\ flow[n].main = "none" /\ ~ flow[n].done /\ flow[n].conn = "none"
  BY <1>0 DEF Allocated, Undialed
<1>2. /\ Live' = Live \cup {t} /\ t \notin Live /\ flows'[t] = n
      /\ \A u \in Live : flows'[u] = flows[u] /\ flows[u] \in Flow
                           /\ flows[u] # n
  BY <1>0 DEF Live, TypeOK, MapExact
<1>3. Allocated'
  <2> SUFFICES ASSUME NEW f \in Flow
               PROVE  /\ f > n <=> flow'[f].main = "none"
                      /\ f <= n => TupleOf(f)' \in Tuple
                      /\ f > n => flow'[f].writes = <<>> /\ ~ flow'[f].done
    BY DEF Allocated
  <2>1. CASE f = n BY <2>1, <1>0 DEF TupleOf
  <2>2. CASE f # n
    <3>1. (f > n <=> f > opened) /\ (f <= n <=> f <= opened)
      BY <1>0, <2>2
    <3> QED BY <2>2, <3>1 DEF Allocated, TupleOf
  <2> QED BY <2>1, <2>2
<1>4. Undialed' BY <1>1 DEF Undialed
<1>5. MapExact'
  <2> SUFFICES ASSUME NEW u \in Live'
               PROVE  (flows[u] <= opened /\ TupleOf(flows[u]) = u)'
    BY DEF MapExact
  <2>1. CASE u = t BY <2>1, <1>0, <1>2 DEF TupleOf
  <2>2. CASE u \in Live
    <3>1. flow'[flows[u]] = flow[flows[u]] /\ flows'[u] = flows[u]
      BY <1>2, <2>2
    <3>2. flows[u] <= opened /\ flow[flows[u]].tuple = u
      BY <2>2 DEF TupleOf, MapExact
    <3>3. flows[u] \in Nat BY <1>0, <1>2, <2>2
    <3> QED BY <1>0, <3>1, <3>2, <3>3 DEF TupleOf
  <2> QED BY <1>2, <2>1, <2>2
<1>6. Owned'
  <2> SUFFICES ASSUME NEW f \in Flow, f <= n, ~ flow'[f].done
               PROVE  flows'[TupleOf(f)'] = f
    BY <1>0 DEF Owned, TupleOf
  <2>1. CASE f = n BY <2>1, <1>2 DEF TupleOf
  <2>2. CASE f # n
    <3>1. f <= opened /\ ~ flow[f].done /\ TupleOf(f)' = TupleOf(f)
      BY <1>0, <2>2 DEF TupleOf
    <3>2. flows[TupleOf(f)] = f /\ TupleOf(f) \in Tuple
      BY <3>1 DEF Owned, Allocated
    <3>3. f # None BY DEF Flow, None
    <3> QED BY <3>1, <3>2, <3>3, <1>2 DEF Live
  <2> QED BY <2>1, <2>2
<1>7. Leaving'
  <2> SUFFICES ASSUME NEW f \in Flow, flow'[f].conn = "open"
               PROVE  flows'[TupleOf(f)'] = f
    BY DEF Leaving, TupleOf
  <2>1. f # n BY <1>1
  <2>2. flow[f].conn = "open" /\ TupleOf(f)' = TupleOf(f) BY <2>1 DEF TupleOf
  <2>3. flows[TupleOf(f)] = f BY <2>2, NoneLeaving
  <2>4. TupleOf(f) \in Tuple BY <2>2, <1>0 DEF Undialed, Allocated
  <2>5. f # None BY DEF Flow, None
  <2> QED BY <2>2, <2>3, <2>4, <2>5, <1>2 DEF Live
<1>8. Apart' BY DEF Apart
<1>9. Posted'
  <2>1. ASSUME NEW i \in DOMAIN out PROVE out[i].flow \in Flow
    <3>1. out[i] \in Item BY DEF TypeOK
    <3> QED BY <3>1 DEF Item
  <2>2. ASSUME NEW i \in DOMAIN out PROVE out[i].flow <= opened + 1
    <3>1. out[i].flow <= opened /\ out[i].flow \in Nat
      BY <1>0, <2>1 DEF Posted
    <3> HIDE DEF n
    <3> QED BY <1>0, <3>1
  <2> QED BY <2>2 DEF Posted
<1>10. Reports'
  <2> SUFFICES ASSUME running, ~ srvDone, NEW u \in Live',
                      \/ flow'[flows'[u]].done
                      \/ flow'[flows'[u]].main = "closing"
               PROVE  Reported(flows'[u])
    BY DEF Reports, Reported
  <2>1. u # t BY <1>1, <1>2
  <2>2. u \in Live /\ flow'[flows'[u]] = flow[flows[u]] /\ flows'[u] = flows[u]
    BY <1>2, <2>1
  <2> QED BY <2>2 DEF Reports
<1>11. FlowLimit'
  <2>1. Live \subseteq Tuple BY DEF Live
  <2> QED BY <2>1, <1>2, Grows DEF FlowLimit, AtLimit
<1>12. Stalled' BY DEF Stalled, Serving
<1> QED
  BY <1>3, <1>4, <1>5, <1>6, <1>7, <1>8, <1>9, <1>10, <1>11, <1>12

-----------------------------------------------------------------------------
(* Steps of the goroutines of one flow                                     *)

\* One flow changes calmly, and at most one item goes into the channel; a
\* flow that gets past its end has reported it, unless the server ends.
LEMMA GoroutineStep ==
  ASSUME IInv, NEW f \in Flow, NEW q \in FlowState, Len(q.writes) <= QueueCap,
         Calm(flow[f], q), flow' = [flow EXCEPT ![f] = q],
         UNCHANGED <<session, srvDone>>, log' \in [Flow -> LogState],
         \/ /\ out' = out
            /\ q.done \/ q.main = "closing" =>
                 flow[f].done \/ flow[f].main = "closing" \/ srvDone
         \/ /\ flow[f].main # "none" /\ Len(out) < OutCap
            /\ \E it \in Item :
                  /\ it.flow = f /\ out' = Append(out, it)
                  /\ q.done \/ q.main = "closing" =>
                       \/ flow[f].done \/ flow[f].main = "closing"
                       \/ it.closed
  PROVE  IInv'
<1> USE DEF IInv
<1>1. /\ flow' \in [Flow -> FlowState]
      /\ \A g \in Flow : Len(flow'[g].writes) <= QueueCap
      /\ Quiet
  BY OneUpdated
<1>2. out' \in Seq(Item) /\ Len(out') <= OutCap
  <2>1. out \in Seq(Item) /\ Len(out) <= OutCap /\ OutCap \in Nat
    BY TcpFlowAssumption DEF TypeOK
  <2>2. ASSUME NEW it \in Item, out' = Append(out, it), Len(out) < OutCap
        PROVE  out' \in Seq(Item) /\ Len(out') <= OutCap
    <3> HIDE DEF IInv
    <3> QED BY <2>1, <2>2
  <2> QED BY <2>1, <2>2
<1>3. TypeOK' BY <1>1, <1>2 DEF TypeOK, session, Flow, FlowState, LogState, Item
<1>4. flow'[f] = q /\ \A g \in Flow : g # f => flow'[g] = flow[g]
  BY DEF TypeOK
<1>5. out' = out \/ \E it \in Item : it.flow <= opened /\ out' = Append(out, it)
  <2>1. flow[f].main # "none" => f <= opened
    BY DEF Allocated, TypeOK, Flow
  <2> QED BY <2>1
<1>6. ASSUME NEW g \in Flow, flow'[g].done \/ flow'[g].main = "closing"
      PROVE  \/ flow[g].done \/ flow[g].main = "closing"
             \/ srvDone' \/ Reported(g)'
  <2>1. CASE g # f BY <1>4, <1>6, <2>1
  <2>2. CASE g = f /\ out' = out BY <1>4, <1>6, <2>2
  <2>3. CASE g = f /\ out' # out
    <3>1. PICK it \in Item :
             /\ it.flow = f /\ out' = Append(out, it)
             /\ q.done \/ q.main = "closing" =>
                  flow[f].done \/ flow[f].main = "closing" \/ it.closed
      BY <2>3
    <3>2. it.closed => Reported(f)'
      <4>1. Len(out) + 1 \in DOMAIN out' /\ out'[Len(out) + 1] = it
        BY <3>1 DEF TypeOK
      <4> QED BY <3>1, <4>1 DEF Reported
    <3> QED BY <1>4, <1>6, <2>3, <3>1, <3>2
  <2> QED BY <2>1, <2>2, <2>3
<1>7. Posted' /\ Reports' BY <1>3, <1>5, <1>6, Reporting DEF session
<1>8. Stalled' BY DEF Stalled, session
<1> QED BY <1>1, <1>3, <1>7, <1>8, QuietStep DEF session

\* The elements of a sequence and its rest.
LEMMA HeadAndTail ==
  ASSUME NEW S, NEW s \in Seq(S), s # <<>>
  PROVE  /\ Head(s) \in S /\ <<Head(s)>> \in Seq(S)
         /\ Tail(s) \in Seq(S) /\ Len(Tail(s)) = Len(s) - 1
         /\ \A r \in Seq(S) : Append(r, Head(s)) \in Seq(S)
<1>1. Head(s) \in S OBVIOUS
<1>2. Tail(s) \in Seq(S) /\ Len(Tail(s)) = Len(s) - 1 OBVIOUS
<1> QED BY <1>1, <1>2

\* The goroutine that dials and reads.
LEMMA MainStep ==
  ASSUME IInv, NEW f \in Flow, MainNext(f)
  PROVE  IInv'
<1>0. /\ flow[f] \in FlowState /\ Len(flow[f].writes) <= QueueCap
      /\ log[f] \in LogState /\ log \in [Flow -> LogState]
      /\ flow[f].main \in {"none", "dialing", "dialed"} => flow[f].conn = "none"
      /\ Len(out) <= OutCap
  BY DEF IInv, TypeOK, Undialed
<1>1. ASSUME NEW v \in Main, flow' = [flow EXCEPT ![f].main = v],
             flow[f].main \notin {"none"}, v # "none",
             v = "dialed" => flow[f].main = "dialing",
             v # "dialing",
             UNCHANGED <<session, srvDone>>, log' \in [Flow -> LogState],
             \/ /\ out' = out
                /\ v = "closing" => srvDone
             \/ /\ Len(out) < OutCap
                /\ \E it \in Item :
                      /\ it.flow = f /\ out' = Append(out, it)
                      /\ v = "closing" => it.closed
      PROVE  IInv'
  <2> DEFINE q == [flow[f] EXCEPT !.main = v]
  <2>1. q \in FlowState BY <1>0 DEF FlowState, Main
  <2>2. /\ q.main = v /\ q.conn = flow[f].conn /\ q.done = flow[f].done
        /\ q.tuple = flow[f].tuple /\ q.writes = flow[f].writes
    BY <1>0 DEF FlowState
  <2>3. Calm(flow[f], q) BY <1>0, <1>1, <2>2 DEF Calm
  <2>4. flow' = [flow EXCEPT ![f] = q] BY <1>1
  <2> HIDE DEF q
  <2>5. \/ /\ out' = out
           /\ q.done \/ q.main = "closing" =>
                flow[f].done \/ flow[f].main = "closing" \/ srvDone
        \/ /\ flow[f].main # "none" /\ Len(out) < OutCap
           /\ \E it \in Item :
                 /\ it.flow = f /\ out' = Append(out, it)
                 /\ q.done \/ q.main = "closing" =>
                      \/ flow[f].done \/ flow[f].main = "closing"
                      \/ it.closed
    BY <1>1, <2>2
  <2> QED BY <1>0, <1>1, <2>1, <2>2, <2>3, <2>4, <2>5, GoroutineStep
<1>2. CASE DialReturns(f)
  <2>1. CASE Moves(f, "dialing", "dialed")
    BY <1>0, <1>1, <1>2, <2>1 DEF DialReturns, Moves, Main
  <2>2. CASE Moves(f, "dialing", "ended")
    BY <1>0, <1>1, <1>2, <2>2 DEF DialReturns, Moves, Main
  <2> QED BY <1>2, <2>1, <2>2 DEF DialReturns
<1>3. CASE Adopt(f)
  <2>1. CASE MayAdopt(f)
    <3> DEFINE q == [flow[f] EXCEPT !.conn = "open", !.main = "reading",
                                    !.pump = "running"]
    <3>1. q \in FlowState BY <1>0 DEF FlowState
    <3>2. /\ q.main = "reading" /\ q.conn = "open" /\ q.done = flow[f].done
          /\ q.tuple = flow[f].tuple /\ q.writes = flow[f].writes
      BY <1>0 DEF FlowState
    <3>3. flow[f].main = "dialed" /\ ~ flow[f].done
      BY <1>3, <2>1 DEF Adopt, MayAdopt
    <3>4. Calm(flow[f], q) BY <3>2, <3>3 DEF Calm
    <3>5. flow' = [flow EXCEPT ![f] = q] BY <1>3, <2>1 DEF Adopt
    <3> HIDE DEF q
    <3> QED
      BY <1>0, <1>3, <3>1, <3>2, <3>3, <3>4, <3>5, GoroutineStep DEF Adopt
  <2>2. CASE ~ MayAdopt(f)
    BY <1>0, <1>1, <1>3, <2>2 DEF Adopt, Main
  <2> QED BY <2>1, <2>2
<1>4. CASE Read(f)
  <2>1. [log[f] EXCEPT !.read = @ + 1] \in LogState
    <3>1. log[f].read \in 0 .. MaxReads /\ log[f].read < MaxReads
      BY <1>0, <1>4 DEF Read, LogState
    <3>2. log[f].read + 1 \in 0 .. MaxReads BY <3>1, TcpFlowAssumption
    <3> QED BY <1>0, <3>2 DEF LogState
  <2>2. log' = [log EXCEPT ![f] = [log[f] EXCEPT !.read = @ + 1]]
    BY <1>4 DEF Read
  <2>3. log' \in [Flow -> LogState] BY <1>0, <2>1, <2>2
  <2> QED BY <1>1, <1>4, <2>3 DEF Read, Moves, Main
<1>5. CASE PostData(f)
  <2>1. [flow |-> f, closed |-> FALSE, n |-> log[f].read] \in Item
    BY <1>0 DEF Item, LogState
  <2> QED BY <1>0, <1>1, <1>5, <2>1 DEF PostData, Posts, Moves, Main
<1>6. CASE ReadEnds(f)
  BY <1>0, <1>1, <1>6 DEF ReadEnds, Moves, Main
<1>7. CASE PostEnd(f)
  <2>1. [flow |-> f, closed |-> TRUE, n |-> 0] \in Item
    BY TcpFlowAssumption DEF Item
  <2> QED BY <1>0, <1>1, <1>7, <2>1 DEF PostEnd, Posts, Moves, Main
<1>8. CASE MainCloses(f)
  <2> DEFINE q == [flow[f] EXCEPT !.main = "over", !.done = TRUE]
  <2>1. q \in FlowState BY <1>0 DEF FlowState
  <2>2. /\ q.main = "over" /\ q.conn = flow[f].conn /\ q.done = TRUE
        /\ q.tuple = flow[f].tuple /\ q.writes = flow[f].writes
    BY <1>0 DEF FlowState
  <2>3. flow[f].main = "closing" BY <1>8 DEF MainCloses
  <2>4. Calm(flow[f], q) BY <2>2, <2>3 DEF Calm
  <2>5. flow' = [flow EXCEPT ![f] = q] BY <1>8 DEF MainCloses
  <2> HIDE DEF q
  <2> QED
    BY <1>0, <1>8, <2>1, <2>2, <2>3, <2>4, <2>5, GoroutineStep DEF MainCloses
<1> QED BY <1>2, <1>3, <1>4, <1>5, <1>6, <1>7, <1>8 DEF MainNext

\* A flow's queue gets shorter, or its socket is closed.
LEMMA PumpUpdate ==
  ASSUME IInv, NEW f \in Flow, NEW q \in FlowState, q.main = flow[f].main,
         q.done = flow[f].done, q.tuple = flow[f].tuple,
         q.conn = flow[f].conn \/ (q.conn = "closed" /\ flow[f].conn = "open"),
         \/ q.writes = flow[f].writes
         \/ flow[f].writes # <<>> /\ Len(q.writes) <= QueueCap,
         flow' = [flow EXCEPT ![f] = q], UNCHANGED <<session, out, srvDone>>,
         log' \in [Flow -> LogState]
  PROVE  IInv'
<1>1. /\ Len(flow[f].writes) <= QueueCap
      /\ flow[f].main \in {"none", "dialing", "dialed"} => flow[f].conn = "none"
      /\ flow[f].main = "none" => flow[f].writes = <<>>
  BY DEF IInv, TypeOK, Undialed, Allocated
<1>2. Calm(flow[f], q) BY <1>1 DEF Calm
<1>3. Len(q.writes) <= QueueCap BY <1>1
<1>4. UNCHANGED <<session, srvDone>> /\ out' = out OBVIOUS
<1> QED BY <1>2, <1>3, <1>4, GoroutineStep

\* The write pump, and the closing of a socket.
LEMMA PumpStep ==
  ASSUME IInv, NEW f \in Flow, PumpNext(f) \/ CloseSocket(f)
  PROVE  IInv'
<1>0. /\ flow[f] \in FlowState /\ Len(flow[f].writes) <= QueueCap
      /\ log[f] \in LogState /\ log \in [Flow -> LogState]
      /\ flow[f].main \in {"none", "dialing", "dialed"} => flow[f].conn = "none"
      /\ flow[f].main = "none" => flow[f].writes = <<>>
  BY DEF IInv, TypeOK, Undialed, Allocated
<1>2. CASE PumpTakes(f)
  <2> DEFINE q == [flow[f] EXCEPT !.hand = <<Head(flow[f].writes)>>,
                                  !.writes = Tail(@)]
  <2>1. /\ flow[f].writes # <<>> /\ flow[f].writes \in Seq(0 .. MaxChunks)
    BY <1>0, <1>2 DEF PumpTakes, FlowState
  <2>2. /\ <<Head(flow[f].writes)>> \in Seq(0 .. MaxChunks)
        /\ Tail(flow[f].writes) \in Seq(0 .. MaxChunks)
        /\ Len(Tail(flow[f].writes)) <= QueueCap
    <3>1. /\ <<Head(flow[f].writes)>> \in Seq(0 .. MaxChunks)
          /\ Tail(flow[f].writes) \in Seq(0 .. MaxChunks)
          /\ Len(Tail(flow[f].writes)) = Len(flow[f].writes) - 1
      BY <2>1, HeadAndTail
    <3>2. Len(flow[f].writes) \in Nat /\ QueueCap \in Nat
      BY <2>1, TcpFlowAssumption
    <3>3. Len(Tail(flow[f].writes)) <= QueueCap BY <1>0, <3>1, <3>2
    <3> QED BY <3>1, <3>3
  <2>3. q \in FlowState BY <1>0, <2>2 DEF FlowState
  <2>4. /\ q.main = flow[f].main /\ q.conn = flow[f].conn
        /\ q.done = flow[f].done /\ q.tuple = flow[f].tuple
        /\ q.writes = Tail(flow[f].writes)
    BY <1>0 DEF FlowState
  <2>5. flow' = [flow EXCEPT ![f] = q] BY <1>2 DEF PumpTakes
  <2> HIDE DEF q
  <2>6. /\ UNCHANGED <<session, out, srvDone>>
        /\ log' \in [Flow -> LogState]
    BY <1>0, <1>2 DEF PumpTakes
  <2> QED BY <2>1, <2>2, <2>3, <2>4, <2>5, <2>6, PumpUpdate
<1>3. ASSUME NEW h \in {flow[f].hand, <<>>},
             NEW p \in {"running", "flushing", "over", flow[f].pump},
             NEW c \in {"closed", flow[f].conn},
             c = flow[f].conn \/ flow[f].conn = "open",
             flow' = [flow EXCEPT ![f] = [flow[f] EXCEPT !.hand = h, !.pump = p,
                                                         !.conn = c]],
             UNCHANGED <<session, out, srvDone>>, log' \in [Flow -> LogState]
      PROVE  IInv'
  <2> DEFINE q == [flow[f] EXCEPT !.hand = h, !.pump = p, !.conn = c]
  <2>0. /\ h \in Seq(0 .. MaxChunks) /\ c \in {"none", "open", "closed"}
        /\ p \in {"none", "running", "flushing", "over"}
    <3>1. <<>> \in Seq(0 .. MaxChunks) OBVIOUS
    <3> QED BY <1>0, <3>1 DEF FlowState
  <2>1. q \in FlowState BY <1>0, <2>0 DEF FlowState
  <2>2. /\ q.main = flow[f].main /\ q.conn = c
        /\ q.done = flow[f].done /\ q.tuple = flow[f].tuple
        /\ q.writes = flow[f].writes
    BY <1>0 DEF FlowState
  <2>3. flow' = [flow EXCEPT ![f] = q] BY <1>3
  <2> HIDE DEF q
  <2>4. q.conn = flow[f].conn \/ (q.conn = "closed" /\ flow[f].conn = "open")
    BY <1>3, <2>2
  <2> QED BY <1>3, <2>1, <2>2, <2>3, <2>4, PumpUpdate
<1>4. CASE PumpSeesDone(f)
  <2>1. [flow[f] EXCEPT !.pump = "flushing"] =
          [flow[f] EXCEPT !.hand = flow[f].hand, !.pump = "flushing",
                          !.conn = flow[f].conn]
    BY <1>0 DEF FlowState
  <2>2. flow' = [flow EXCEPT ![f] = [flow[f] EXCEPT !.pump = "flushing"]]
    BY <1>4 DEF PumpSeesDone
  <2> QED BY <1>0, <1>3, <1>4, <2>1, <2>2 DEF PumpSeesDone
<1>5. CASE PumpEnds(f)
  <2>1. [flow[f] EXCEPT !.pump = "over"] =
          [flow[f] EXCEPT !.hand = flow[f].hand, !.pump = "over",
                          !.conn = flow[f].conn]
    BY <1>0 DEF FlowState
  <2>2. flow' = [flow EXCEPT ![f] = [flow[f] EXCEPT !.pump = "over"]]
    BY <1>5 DEF PumpEnds
  <2> QED BY <1>0, <1>3, <1>5, <2>1, <2>2 DEF PumpEnds
<1>6. CASE Write(f)
  <2>1. [flow[f] EXCEPT !.hand = <<>>] =
          [flow[f] EXCEPT !.hand = <<>>, !.pump = flow[f].pump,
                          !.conn = flow[f].conn]
    BY <1>0 DEF FlowState
  <2>2. flow' = [flow EXCEPT ![f] = [flow[f] EXCEPT !.hand = <<>>]]
    BY <1>6 DEF Write
  <2>3. /\ flow[f].hand # <<>> /\ flow[f].hand \in Seq(0 .. MaxChunks)
        /\ log[f].written \in Seq(0 .. MaxChunks)
    BY <1>0, <1>6 DEF Write, FlowState, LogState
  <2>4. Append(log[f].written, Head(flow[f].hand)) \in Seq(0 .. MaxChunks)
    BY <2>3, HeadAndTail
  <2>5. [log[f] EXCEPT !.written = Append(@, Head(flow[f].hand))] \in LogState
    BY <1>0, <2>4 DEF LogState
  <2>6. log' = [log EXCEPT ![f] =
                  [log[f] EXCEPT !.written = Append(@, Head(flow[f].hand))]]
    BY <1>6 DEF Write
  <2>7. log' \in [Flow -> LogState] BY <1>0, <2>5, <2>6
  <2> QED BY <1>0, <1>3, <1>6, <2>1, <2>2, <2>7 DEF Write
<1>7. CASE WriteFails(f)
  <2>1. [flow[f] EXCEPT !.hand = <<>>, !.pump = "over"] =
          [flow[f] EXCEPT !.hand = <<>>, !.pump = "over", !.conn = flow[f].conn]
    BY <1>0 DEF FlowState
  <2>2. flow' = [flow EXCEPT ![f] =
                   [flow[f] EXCEPT !.hand = <<>>, !.pump = "over"]]
    BY <1>7 DEF WriteFails
  <2> QED BY <1>0, <1>3, <1>7, <2>1, <2>2 DEF WriteFails
<1>8. CASE CloseSocket(f)
  <2>1. [flow[f] EXCEPT !.conn = "closed"] =
          [flow[f] EXCEPT !.hand = flow[f].hand, !.pump = flow[f].pump,
                          !.conn = "closed"]
    BY <1>0 DEF FlowState
  <2>2. flow' = [flow EXCEPT ![f] = [flow[f] EXCEPT !.conn = "closed"]]
    BY <1>8 DEF CloseSocket
  <2> QED BY <1>0, <1>3, <1>8, <2>1, <2>2 DEF CloseSocket
<1> QED BY <1>2, <1>4, <1>5, <1>6, <1>7, <1>8 DEF PumpNext

-----------------------------------------------------------------------------
(* Steps of the session goroutine                                          *)

\* Notes in the log of a flow.
LEMMA Noted ==
  ASSUME TypeOK, NEW f \in Flow
  PROVE  /\ \A k \in 0 .. MaxChunks :
              /\ [log EXCEPT ![f].given = @ \cup {k}] \in [Flow -> LogState]
              /\ [log EXCEPT ![f].lost = @ \cup {k}] \in [Flow -> LogState]
         /\ \A k \in 0 .. MaxReads :
              [log EXCEPT ![f].sent = k] \in [Flow -> LogState]
         /\ [log EXCEPT ![f].told = TRUE] \in [Flow -> LogState]
         /\ [log EXCEPT ![f].byClient = TRUE] \in [Flow -> LogState]
<1>1. log[f] \in LogState /\ log \in [Flow -> LogState] BY DEF TypeOK
<1>2. ASSUME NEW k \in 0 .. MaxChunks
      PROVE  /\ [log EXCEPT ![f].given = @ \cup {k}] \in [Flow -> LogState]
             /\ [log EXCEPT ![f].lost = @ \cup {k}] \in [Flow -> LogState]
  <2>2. [log[f] EXCEPT !.given = @ \cup {k}] \in LogState
    BY <1>1 DEF LogState
  <2>3. [log[f] EXCEPT !.lost = @ \cup {k}] \in LogState
    BY <1>1 DEF LogState
  <2> QED BY <1>1, <2>2, <2>3
<1>3. ASSUME NEW k \in 0 .. MaxReads
      PROVE  [log EXCEPT ![f].sent = k] \in [Flow -> LogState]
  <2>1. [log[f] EXCEPT !.sent = k] \in LogState BY <1>1 DEF LogState
  <2> QED BY <1>1, <2>1
<1>4. [log EXCEPT ![f].told = TRUE] \in [Flow -> LogState]
  <2>1. [log[f] EXCEPT !.told = TRUE] \in LogState BY <1>1 DEF LogState
  <2> QED BY <1>1, <2>1
<1>5. [log EXCEPT ![f].byClient = TRUE] \in [Flow -> LogState]
  <2>1. [log[f] EXCEPT !.byClient = TRUE] \in LogState BY <1>1 DEF LogState
  <2> QED BY <1>1, <2>1
<1> QED BY <1>2, <1>3, <1>4, <1>5

\* Closing flows keeps the type.
LEMMA ClosedType ==
  ASSUME TypeOK, NEW S, flow' = Closed(flow, S)
  PROVE  /\ flow' \in [Flow -> FlowState]
         /\ \A f \in Flow : Len(flow'[f].writes) <= QueueCap
<1>1. ASSUME NEW f \in Flow
      PROVE  /\ [flow[f] EXCEPT !.done = TRUE] \in FlowState
             /\ [flow[f] EXCEPT !.done = TRUE].writes = flow[f].writes
  <2>1. flow[f] \in FlowState BY DEF TypeOK
  <2> QED BY <2>1 DEF FlowState
<1> QED BY <1>1 DEF Closed, TypeOK

\* One chunk more was served.
LEMMA Counting ==
  ASSUME TypeOK, chunks < MaxChunks
  PROVE  chunks \in 0 .. MaxChunks /\ chunks + 1 \in 0 .. MaxChunks
  BY TcpFlowAssumption DEF TypeOK

\* A queue with room takes a chunk.
LEMMA Queued ==
  ASSUME IInv, NEW f \in Flow, NEW k \in 0 .. MaxChunks,
         flow[f].main # "none", Len(flow[f].writes) < QueueCap,
         flow' = [flow EXCEPT ![f].writes = Append(@, k)]
  PROVE  /\ flow' \in [Flow -> FlowState]
         /\ \A g \in Flow : Len(flow'[g].writes) <= QueueCap
         /\ \A g \in Flow : /\ flow'[g].done = flow[g].done
                            /\ flow'[g].main = flow[g].main
         /\ Quiet
<1> DEFINE q == [flow[f] EXCEPT !.writes = Append(@, k)]
<1>0. /\ flow[f] \in FlowState /\ flow \in [Flow -> FlowState]
      /\ flow[f].writes \in Seq(0 .. MaxChunks)
      /\ flow[f].main \in {"dialing", "dialed"} => flow[f].conn = "none"
      /\ TypeOK /\ Undialed
  BY DEF IInv, TypeOK, Undialed, FlowState
<1>1. /\ Append(flow[f].writes, k) \in Seq(0 .. MaxChunks)
      /\ Len(Append(flow[f].writes, k)) <= QueueCap
  BY <1>0, TcpFlowAssumption
<1>2. q \in FlowState BY <1>0, <1>1 DEF FlowState
<1>3. /\ q.main = flow[f].main /\ q.conn = flow[f].conn
      /\ q.done = flow[f].done /\ q.tuple = flow[f].tuple
      /\ q.writes = Append(flow[f].writes, k)
  BY <1>0 DEF FlowState
<1>4. Calm(flow[f], q) BY <1>0, <1>3 DEF Calm
<1>5. flow' = [flow EXCEPT ![f] = q] OBVIOUS
<1> HIDE DEF q
<1>6. Len(q.writes) <= QueueCap BY <1>1, <1>3
<1>7. \A g \in Flow : /\ flow'[g].done = flow[g].done
                      /\ flow'[g].main = flow[g].main
  BY <1>0, <1>3, <1>5
<1> QED BY <1>0, <1>2, <1>4, <1>5, <1>6, <1>7, OneUpdated

\* The flows and the map stay, but for a queue; the channel stays.
LEMMA ServingStep ==
  ASSUME IInv, UNCHANGED <<running, flows, opened, out, srvDone, resets>>,
         waits' = waits \/ (Serving /\ waits' = {}),
         chunks' \in 0 .. MaxChunks,
         (stall = NoStall \/ stall \in [flow : Flow, chunk : 0 .. MaxChunks])',
         Stalled',
         log' \in [Flow -> LogState],
         \/ flow' = flow
         \/ \E f \in Flow : \E k \in 0 .. MaxChunks :
               /\ flow[f].main # "none" /\ Len(flow[f].writes) < QueueCap
               /\ flow' = [flow EXCEPT ![f].writes = Append(@, k)]
  PROVE  IInv'
<1>1. /\ flow' \in [Flow -> FlowState]
      /\ \A g \in Flow : Len(flow'[g].writes) <= QueueCap
      /\ \A g \in Flow : /\ flow'[g].done = flow[g].done
                         /\ flow'[g].main = flow[g].main
      /\ Quiet
  <2>1. CASE flow' = flow
    BY <2>1 DEF IInv, TypeOK, Quiet, Calm, Undialed
  <2> QED BY <2>1, Queued
<1>2. TypeOK' BY <1>1 DEF IInv, TypeOK, Flow
<1>3. Posted' /\ Reports'
  BY <1>1, <1>2, Reporting
<1> QED BY <1>1, <1>2, <1>3, QuietStep

\* A flow that is in the map has been opened.
LEMMA InMap ==
  ASSUME IInv, NEW t \in Tuple, flows[t] # None
  PROVE  /\ flows[t] \in Flow /\ flow[flows[t]].main # "none"
         /\ t \in Live /\ TupleOf(flows[t]) = t
<1>1. flows[t] \in Flow /\ t \in Live BY DEF IInv, TypeOK, Live
<1> QED BY <1>1 DEF IInv, MapExact, Allocated, TypeOK, Flow

\* CONNECT.
LEMMA ConnectStep ==
  ASSUME IInv, NEW t \in Tuple, Connect(t)
  PROVE  IInv'
<1>1. chunks' \in 0 .. MaxChunks /\ TypeOK
  BY Counting DEF IInv, Connect, Serve
<1>2. CASE UNCHANGED <<flows, opened, flow>>
  BY <1>1, <1>2, ServingStep
     DEF Connect, Serve, IInv, TypeOK, NoStall, Stalled
<1>3. CASE /\ flows[t] = None /\ ~ AtLimit /\ opened < MaxFlows
           /\ flows' = [flows EXCEPT ![t] = opened + 1]
           /\ opened' = opened + 1 /\ flow' = Opened(t)
  <2> DEFINE n == opened + 1
             q == [flow[n] EXCEPT !.tuple = t, !.main = "dialing"]
  <2>1. /\ n \in Flow /\ n \in 0 .. MaxFlows
        /\ flow \in [Flow -> FlowState] /\ flow[n] \in FlowState
    BY <1>1, <1>3, TcpFlowAssumption DEF TypeOK, Flow
  <2>2. /\ q \in FlowState /\ q.tuple = t /\ q.main = "dialing"
        /\ q.conn = flow[n].conn /\ q.done = flow[n].done
        /\ q.writes = flow[n].writes
    BY <2>1 DEF FlowState
  <2>3. flow' = [flow EXCEPT ![n] = q] BY <1>3, <2>1 DEF Opened
  <2> HIDE DEF q
  <2>4. /\ flow'[n] = q /\ \A f \in Flow : f # n => flow'[f] = flow[f]
        /\ flow' \in [Flow -> FlowState]
    BY <2>1, <2>2, <2>3
  <2>5. \A f \in Flow : Len(flow'[f].writes) <= QueueCap
    BY <1>1, <2>2, <2>4 DEF TypeOK
  <2>6. flows' \in [Tuple -> Flow \cup {None}]
    BY <1>1, <1>3, <2>1 DEF TypeOK
  <2>7. TypeOK'
    BY <1>1, <1>3, <2>1, <2>4, <2>5, <2>6
       DEF Connect, Serve, TypeOK, Flow, NoStall
  <2>8. Serving /\ waits' = {} /\ UNCHANGED <<running, stall, out, srvDone>>
    BY DEF Connect, Serve
  <2> QED BY <1>3, <2>2, <2>4, <2>7, <2>8, Opening
<1> QED BY <1>2, <1>3 DEF Connect

\* PAYLOAD for a tuple without a flow.
LEMMA PayloadOpensStep ==
  ASSUME IInv, NEW t \in Tuple, PayloadOpens(t)
  PROVE  IInv'
<1>1. /\ chunks' \in 0 .. MaxChunks /\ chunks \in 0 .. MaxChunks /\ TypeOK
  BY Counting DEF IInv, PayloadOpens, Serve
<1>2. CASE UNCHANGED <<flows, opened, flow, log>>
  BY <1>1, <1>2, ServingStep
     DEF PayloadOpens, Serve, IInv, TypeOK, NoStall, Stalled
<1>3. CASE /\ ~ AtLimit /\ opened < MaxFlows
           /\ flows' = [flows EXCEPT ![t] = opened + 1]
           /\ opened' = opened + 1 /\ Push(Opened(t), opened + 1, chunks)
  <2> DEFINE n == opened + 1
             q == [flow[n] EXCEPT !.tuple = t, !.main = "dialing",
                                  !.writes = Append(@, chunks)]
  <2>1. /\ n \in Flow /\ n \in 0 .. MaxFlows
        /\ flow \in [Flow -> FlowState] /\ flow[n] \in FlowState
    BY <1>1, <1>3, TcpFlowAssumption DEF TypeOK, Flow
  <2>2. flow[n].writes = <<>>
    BY <1>1, <2>1 DEF IInv, Allocated, TypeOK
  <2>3. /\ Append(flow[n].writes, chunks) \in Seq(0 .. MaxChunks)
        /\ Len(Append(flow[n].writes, chunks)) <= QueueCap
    BY <1>1, <2>2, TcpFlowAssumption
  <2>4. /\ q \in FlowState /\ q.tuple = t /\ q.main = "dialing"
        /\ q.conn = flow[n].conn /\ q.done = flow[n].done
        /\ q.writes = Append(flow[n].writes, chunks)
    BY <2>1, <2>3 DEF FlowState
  <2>5. flow' = [flow EXCEPT ![n] = q]
    <3>1. [flow[n] EXCEPT !.tuple = t, !.main = "dialing"].writes
            = flow[n].writes
      BY <2>1 DEF FlowState
    <3>2. Opened(t) = [flow EXCEPT ![n] = [flow[n] EXCEPT !.tuple = t,
                                                          !.main = "dialing"]]
      BY <2>1 DEF Opened
    <3>3. flow' = [Opened(t) EXCEPT ![n].writes = Append(@, chunks)]
      BY <1>3 DEF Push
    <3>4. Opened(t)[n] = [flow[n] EXCEPT !.tuple = t, !.main = "dialing"]
      BY <2>1, <3>2
    <3>5. q = [Opened(t)[n] EXCEPT !.writes = Append(@, chunks)]
      BY <2>1, <3>1, <3>4 DEF FlowState
    <3> HIDE DEF q
    <3> QED BY <2>1, <3>2, <3>3, <3>5
  <2> HIDE DEF q
  <2>6. /\ flow'[n] = q /\ \A f \in Flow : f # n => flow'[f] = flow[f]
        /\ flow' \in [Flow -> FlowState]
    BY <2>1, <2>4, <2>5
  <2>7. \A f \in Flow : Len(flow'[f].writes) <= QueueCap
    BY <1>1, <2>3, <2>4, <2>6 DEF TypeOK
  <2>8. flows' \in [Tuple -> Flow \cup {None}]
    BY <1>1, <1>3, <2>1 DEF TypeOK
  <2>9. log' \in [Flow -> LogState]
    BY <1>1, <1>3, <2>1, Noted DEF Push
  <2>10. TypeOK'
    BY <1>1, <1>3, <2>1, <2>6, <2>7, <2>8, <2>9
       DEF PayloadOpens, Serve, TypeOK, Flow, NoStall
  <2>11. /\ Serving /\ waits' = {} /\ UNCHANGED <<running, stall, out, srvDone>>
         /\ flows[t] = None
    BY DEF PayloadOpens, Serve
  <2> QED BY <1>3, <2>4, <2>6, <2>10, <2>11, Opening
<1> QED BY <1>2, <1>3 DEF PayloadOpens

\* PAYLOAD for a flow in the map, and the two ends of a stall.
LEMMA PayloadStep ==
  ASSUME IInv,
         (\E t \in Tuple : Payload(t)) \/ StallTimesOut \/ StallEnds
  PROVE  IInv'
<1>0. TypeOK /\ Allocated BY DEF IInv
<1>1. ASSUME NEW t \in Tuple, Payload(t) PROVE IInv'
  <2> DEFINE f == flows[t]
  <2>1. /\ chunks' \in 0 .. MaxChunks /\ chunks \in 0 .. MaxChunks
    BY <1>0, <1>1, Counting DEF Payload, Serve
  <2>2. f \in Flow /\ flow[f].main # "none" /\ f <= opened
    BY <1>1, InMap DEF Payload, IInv, MapExact
  <2>3. /\ UNCHANGED <<running, flows, opened, out, srvDone, resets>>
        /\ Serving /\ waits' = {}
    BY <1>1 DEF Payload, Serve
  <2>4. CASE UNCHANGED <<stall, flow, log>>
    BY <1>0, <2>1, <2>3, <2>4, ServingStep DEF TypeOK, NoStall, IInv, Stalled
  <2>5. CASE /\ Len(flow[f].writes) < QueueCap
             /\ Push(flow, f, chunks) /\ UNCHANGED stall
    <3>1. log' \in [Flow -> LogState] BY <1>0, <2>1, <2>2, <2>5, Noted DEF Push
    <3>2. flow' = [flow EXCEPT ![f].writes = Append(@, chunks)]
      BY <2>5 DEF Push
    <3> QED
      BY <1>0, <2>1, <2>2, <2>3, <2>5, <3>1, <3>2, ServingStep
         DEF TypeOK, NoStall, IInv, Stalled
  <2>6. CASE /\ stall' = [flow |-> f, chunk |-> chunks]
             /\ log' = [log EXCEPT ![f].given = @ \cup {chunks}]
             /\ UNCHANGED flow
    <3>1. log' \in [Flow -> LogState] BY <1>0, <2>1, <2>2, <2>6, Noted
    <3>2. stall' \in [flow : Flow, chunk : 0 .. MaxChunks] BY <2>1, <2>2, <2>6
    <3>3. Stalled' BY <2>2, <2>3, <2>6 DEF Stalled
    <3> QED BY <2>1, <2>3, <2>6, <3>1, <3>2, <3>3, ServingStep DEF Flow
  <2> QED BY <1>1, <2>4, <2>5, <2>6 DEF Payload
<1>2. CASE StallTimesOut \/ StallEnds
  <2> DEFINE f == stall.flow
             k == stall.chunk
  <2>1. /\ f \in Flow /\ k \in 0 .. MaxChunks /\ stall' = NoStall
        /\ chunks' \in 0 .. MaxChunks
        /\ UNCHANGED <<running, flows, opened, out, srvDone, resets, waits>>
    BY <1>0, <1>2 DEF TypeOK, StallTimesOut, StallEnds
  <2>0. Stalled' BY <2>1 DEF Stalled
  <2>7. flow[f].main # "none"
    BY <1>0, <1>2, <2>1
       DEF IInv, Stalled, Allocated, TypeOK, Flow, StallTimesOut, StallEnds
  <2>2. CASE /\ flow' = flow
             /\ log' = [log EXCEPT ![f].lost = @ \cup {k}]
    <3>1. log' \in [Flow -> LogState] BY <1>0, <2>1, <2>2, Noted
    <3> QED BY <2>0, <2>1, <2>2, <3>1, ServingStep DEF NoStall
  <2>3. CASE /\ Len(flow[f].writes) < QueueCap
             /\ flow' = [flow EXCEPT ![f].writes = Append(@, k)]
             /\ UNCHANGED log
    <3>1. log' \in [Flow -> LogState] BY <1>0, <2>3 DEF TypeOK
    <3> QED BY <2>0, <2>1, <2>3, <2>7, <3>1, ServingStep DEF NoStall
  <2> QED BY <1>2, <2>2, <2>3 DEF StallTimesOut, StallEnds
<1> QED BY <1>1, <1>2

\* DISCONNECT, a handshake, and the end of the session.
LEMMA ClosingStep ==
  ASSUME IInv,
         (\E t \in Tuple : Disconnect(t)) \/ ResetForHandshake \/ Shutdown
  PROVE  IInv'
<1>0. TypeOK /\ Live \subseteq Tuple BY DEF IInv, Live
<1>1. ASSUME NEW t \in Tuple, Disconnect(t) PROVE IInv'
  <2> DEFINE D == {t}
  <2>1. /\ t \in Live /\ Serving /\ flows[t] \in Flow
        /\ UNCHANGED <<running, opened, stall, resets, out, srvDone>>
    BY <1>0, <1>1 DEF Disconnect, Live, TypeOK
  <2>2. {flows[d] : d \in D} = {flows[t]} OBVIOUS
  <2>3. /\ flow' = Closed(flow, {flows[d] : d \in D})
        /\ waits' = {flows[d] : d \in D}
    BY <1>1, <2>2 DEF Disconnect
  <2>4. flows' = [u \in Tuple |-> IF u \in D THEN None ELSE flows[u]]
    BY <1>0, <1>1 DEF Disconnect, TypeOK
  <2>5. chunks' \in 0 .. MaxChunks BY <1>0, <1>1, Counting DEF Disconnect
  <2>6. log' \in [Flow -> LogState]
    BY <1>0, <1>1, <2>1, Noted DEF Disconnect
  <2>7. flows' \in [Tuple -> Flow \cup {None}] BY <1>0, <2>4 DEF TypeOK
  <2>8. waits' \subseteq Flow BY <2>1, <2>2, <2>3
  <2>9. TypeOK'
    BY <1>0, <2>1, <2>3, <2>5, <2>6, <2>7, <2>8, ClosedType
       DEF TypeOK, Flow, NoStall
  <2>10. D \in SUBSET Live BY <2>1
  <2> HIDE DEF D
  <2>11. Posted' /\ Reports'
    BY <2>1, <2>3, <2>4, <2>10, RemovingReports
  <2> QED BY <2>1, <2>3, <2>4, <2>9, <2>10, <2>11, Removing
<1>2. CASE ResetForHandshake
  <2>1. /\ Serving /\ UNCHANGED <<running, opened, stall, chunks, out, srvDone>>
        /\ log' = log /\ resets' \in 0 .. MaxResets
    BY <1>0, <1>2, TcpFlowAssumption DEF ResetForHandshake, TypeOK
  <2>2. /\ flow' = Closed(flow, {flows[d] : d \in Live})
        /\ waits' = {flows[d] : d \in Live}
    BY <1>2 DEF ResetForHandshake, LiveFlows
  <2>3. flows' = [u \in Tuple |-> IF u \in Live THEN None ELSE flows[u]]
    BY <1>0, <1>2 DEF ResetForHandshake, TypeOK, Live
  <2>4. flows' \in [Tuple -> Flow \cup {None}] BY <1>0, <2>3 DEF TypeOK
  <2>5. waits' \subseteq Flow BY <1>0, <2>2 DEF TypeOK, Live
  <2>6. TypeOK'
    BY <1>0, <2>1, <2>2, <2>4, <2>5, ClosedType DEF TypeOK, Flow, NoStall
  <2>7. Posted' /\ Reports' BY <2>1, <2>2, <2>3, RemovingReports
  <2> QED BY <2>1, <2>2, <2>3, <2>6, <2>7, Removing
<1>3. CASE Shutdown
  <2>1. /\ Serving /\ running' = FALSE
        /\ UNCHANGED <<flows, opened, stall, chunks, resets, out, srvDone>>
        /\ log' = log
    BY <1>3 DEF Shutdown
  <2>2. /\ flow' = Closed(flow, {flows[d] : d \in Live})
        /\ waits' = {flows[d] : d \in Live}
    BY <1>3 DEF Shutdown, LiveFlows
  <2>3. waits' \subseteq Flow BY <1>0, <2>2 DEF TypeOK, Live
  <2>4. TypeOK'
    BY <1>0, <2>1, <2>2, <2>3, ClosedType DEF TypeOK, Flow, NoStall
  <2>5. Posted' /\ Reports' BY <2>1, <2>2, RemovingReports
  <2> QED BY <2>1, <2>2, <2>4, <2>5, Removing
<1> QED BY <1>1, <1>2, <1>3

\* An item is taken from the channel.
LEMMA UpstreamStep ==
  ASSUME IInv, HandleUpstream
  PROVE  IInv'
<1> DEFINE u == Head(out)
           t == flow[u.flow].tuple
           g == flows[t]
<1>0. TypeOK /\ Allocated /\ Posted BY DEF IInv
<1>1. /\ Serving /\ out # <<>> /\ out' = Tail(out)
      /\ UNCHANGED <<running, opened, stall, chunks, resets, srvDone>>
  BY DEF HandleUpstream
<1>2. /\ out \in Seq(Item) /\ u \in Item /\ u = out[1] /\ 1 \in DOMAIN out
      /\ Tail(out) \in Seq(Item) /\ Len(Tail(out)) = Len(out) - 1
      /\ Len(out) \in Nat
  <2>1. out \in Seq(Item) BY <1>0 DEF TypeOK
  <2> QED BY <1>1, <2>1
<1>3. /\ u.flow \in Flow /\ u.n \in 0 .. MaxReads /\ u.flow <= opened
      /\ t \in Tuple
  BY <1>0, <1>2 DEF Item, Posted, Allocated, TupleOf
<1>4. out' \in Seq(Item) /\ Len(out') <= OutCap
  BY <1>0, <1>1, <1>2, TcpFlowAssumption DEF TypeOK
<1>5. CASE u.closed
  <2> DEFINE D == {t} \cap Live
  <2>1. D \in SUBSET Live OBVIOUS
  <2>2. {flows[d] : d \in D} = {g} \ {None}
    BY <1>3 DEF Live
  <2>3. /\ flow' = Closed(flow, {flows[d] : d \in D})
        /\ waits' = {flows[d] : d \in D}
    BY <1>5, <2>2 DEF HandleUpstream
  <2>4. flows' = [v \in Tuple |-> IF v \in D THEN None ELSE flows[v]]
    BY <1>0, <1>3, <1>5 DEF HandleUpstream, TypeOK, Live
  <2>5. flows' \in [Tuple -> Flow \cup {None}] BY <1>0, <2>4 DEF TypeOK
  <2>6. waits' \subseteq Flow BY <1>0, <1>3, <2>2, <2>3 DEF TypeOK
  <2>7. log' \in [Flow -> LogState]
    <3>1. log' = [log EXCEPT ![u.flow].told = TRUE]
      BY <1>5 DEF HandleUpstream
    <3> HIDE DEF u
    <3> QED BY <1>0, <1>3, <3>1, Noted
  <2>8. TypeOK'
    BY <1>0, <1>1, <1>4, <2>3, <2>5, <2>6, <2>7, ClosedType
       DEF TypeOK, Flow, NoStall
  <2>9. ASSUME NEW i \in DOMAIN out, NEW v \in Live \ D,
               out[i].closed, out[i].flow = flows[v]
        PROVE  i # 1
    <3>1. TupleOf(flows[v]) = v BY DEF IInv, MapExact
    <3>2. v # t OBVIOUS
    <3> QED BY <1>2, <2>9, <3>1, <3>2 DEF TupleOf
  <2> HIDE DEF D, u, t, g
  <2>10. Posted' /\ Reports'
    BY <1>1, <2>1, <2>3, <2>4, <2>9, RemovingReports
  <2> QED BY <1>1, <2>1, <2>3, <2>4, <2>8, <2>10, Removing
<1>6. CASE ~ u.closed
  <2>1. waits' = {} /\ UNCHANGED <<flow, flows>> BY <1>6 DEF HandleUpstream
  <2>2. log' \in [Flow -> LogState]
    <3>1. log' = [log EXCEPT ![u.flow].sent = u.n]
      BY <1>6 DEF HandleUpstream
    <3>2. ASSUME NEW f \in Flow, NEW k \in 0 .. MaxReads,
                 log' = [log EXCEPT ![f].sent = k]
          PROVE  log' \in [Flow -> LogState]
      BY <1>0, <3>2, Noted
    <3> HIDE DEF u
    <3> QED BY <1>3, <3>1, <3>2
  <2>3. TypeOK'
    BY <1>0, <1>1, <1>4, <2>1, <2>2 DEF TypeOK, Flow, NoStall
  <2>4. Quiet BY <2>1 DEF IInv, Quiet, Calm, Undialed
  <2>5. /\ \A i \in DOMAIN out : i # 1 => /\ i - 1 \in DOMAIN out'
                                         /\ out'[i - 1] = out[i]
        /\ \A i \in DOMAIN out' : i + 1 \in DOMAIN out /\ out'[i] = out[i + 1]
    <3> HIDE DEF u
    <3> QED BY <1>1, <1>2
  <2>6. Posted' BY <1>0, <1>1, <2>5 DEF Posted
  <2>7. Reports'
    <3> SUFFICES ASSUME running, ~ srvDone, NEW v \in Live,
                        \/ flow[flows[v]].done
                        \/ flow[flows[v]].main = "closing"
                 PROVE  Reported(flows[v])'
      BY <1>1, <2>1 DEF Reports, Live
    <3>1. PICK i \in DOMAIN out : out[i].closed /\ out[i].flow = flows[v]
      BY DEF IInv, Reports, Reported
    <3>2. i # 1 BY <1>2, <1>6, <3>1
    <3>3. i - 1 \in DOMAIN out' /\ out'[i - 1] = out[i] BY <2>5, <3>2
    <3> QED BY <2>1, <3>1, <3>3 DEF Reported
  <2>8. Stalled' BY <1>1 DEF IInv, Stalled
  <2> QED BY <1>1, <2>1, <2>3, <2>4, <2>6, <2>7, <2>8, QuietStep
<1> QED BY <1>5, <1>6

\* The server ends, or nothing happens.
LEMMA ServerStep ==
  ASSUME IInv, ServerStops \/ UNCHANGED vars
  PROVE  IInv'
<1>1. /\ UNCHANGED <<session, out, flow, log>>
      /\ srvDone' = srvDone \/ srvDone' = TRUE
  BY DEF ServerStops, vars
<1>2. UNCHANGED <<running, flows, opened, stall, waits, chunks, resets>>
  BY <1>1 DEF session
<1>3. TypeOK' BY <1>1, <1>2 DEF IInv, TypeOK, Flow, NoStall
<1>4. Quiet BY <1>1 DEF IInv, Quiet, Calm, Undialed
<1>5. Posted' /\ Reports' BY <1>1, <1>2, <1>3, Reporting
<1>6. Stalled' BY <1>2 DEF IInv, Stalled
<1> QED BY <1>2, <1>3, <1>4, <1>5, <1>6, QuietStep

\* Every step keeps the invariant.
LEMMA StepInv == IInv /\ [Next]_vars => IInv'
<1> SUFFICES ASSUME IInv, [Next]_vars PROVE IInv' OBVIOUS
<1>1. CASE SessionNext
  BY <1>1, ConnectStep, PayloadOpensStep, PayloadStep, ClosingStep, UpstreamStep
     DEF SessionNext
<1>2. ASSUME NEW f \in Flow, MainNext(f) \/ PumpNext(f) \/ CloseSocket(f)
      PROVE  IInv'
  BY <1>2, MainStep, PumpStep
<1>3. CASE ServerStops \/ UNCHANGED vars BY <1>3, ServerStep
<1> QED BY <1>1, <1>2, <1>3 DEF Next

-----------------------------------------------------------------------------
(* The stream to the upstream                                              *)

\* A pump exists from adopt on, and holds a chunk only while it runs.
PumpWorks ==
  \A f \in Flow :
     /\ flow[f].main \in {"none", "dialing", "dialed"} => flow[f].pump = "none"
     /\ \/ flow[f].hand = <<>>
        \/ Len(flow[f].hand) = 1 /\ flow[f].pump \in {"running", "flushing"}

\* Chunks are given as they are served, and lost only after they were given.
GivenServed ==
  \A f \in Flow :
     /\ \A k \in log[f].given : k < chunks
     /\ log[f].lost \subseteq log[f].given

\* The chunk an enqueue waits with is the last that was served, and is not
\* lost yet.
StallIsLast ==
  stall # NoStall =>
     /\ stall.chunk \in log[stall.flow].given \ log[stall.flow].lost
     /\ \A k \in 0 .. MaxChunks : k < chunks => k <= stall.chunk

Streams == PumpWorks /\ GivenServed /\ StallIsLast /\ StreamIsWritten

InStream(f) ==
  flow[f].pump # "over" =>
     /\ Elements(Stream(f)) = Accepted(f)
     /\ \A i, j \in DOMAIN Stream(f) : i < j => Stream(f)[i] < Stream(f)[j]

\* What the fields of a flow and its log are.
LEMMA Parts ==
  ASSUME TypeOK, NEW f \in Flow
  PROVE  /\ flow[f] \in FlowState /\ log[f] \in LogState
         /\ log[f].written \in Seq(0 .. MaxChunks)
         /\ flow[f].hand \in Seq(0 .. MaxChunks)
         /\ flow[f].writes \in Seq(0 .. MaxChunks)
         /\ Stream(f) \in Seq(0 .. MaxChunks)
         /\ log[f].given \subseteq 0 .. MaxChunks
         /\ log[f].lost \subseteq 0 .. MaxChunks
         /\ chunks \in 0 .. MaxChunks /\ chunks \in Nat
<1>1. flow[f] \in FlowState /\ log[f] \in LogState /\ chunks \in 0 .. MaxChunks
  BY DEF TypeOK
<1>2. /\ log[f].written \in Seq(0 .. MaxChunks)
      /\ flow[f].hand \in Seq(0 .. MaxChunks)
      /\ flow[f].writes \in Seq(0 .. MaxChunks)
      /\ log[f].given \subseteq 0 .. MaxChunks
      /\ log[f].lost \subseteq 0 .. MaxChunks
  BY <1>1 DEF FlowState, LogState
<1>3. log[f].written \o flow[f].hand \in Seq(0 .. MaxChunks)
  BY <1>2, ConcatProperties
<1>4. Stream(f) \in Seq(0 .. MaxChunks)
  BY <1>2, <1>3, ConcatProperties DEF Stream
<1> QED BY <1>1, <1>2, <1>4, TcpFlowAssumption

\* A larger chunk at the end of an increasing stream.
LEMMA Extends ==
  ASSUME NEW s \in Seq(0 .. MaxChunks), NEW k \in 0 .. MaxChunks,
         \A x \in Elements(s) : x < k,
         \A i, j \in DOMAIN s : i < j => s[i] < s[j]
  PROVE  /\ Elements(Append(s, k)) = Elements(s) \cup {k}
         /\ \A i, j \in DOMAIN Append(s, k) :
              i < j => Append(s, k)[i] < Append(s, k)[j]
<1> DEFINE q == Append(s, k)
           m == Len(s) + 1
<1>1. /\ Len(s) \in Nat /\ DOMAIN s = 1 .. Len(s)
      /\ q \in Seq(0 .. MaxChunks) /\ DOMAIN q = 1 .. Len(s) + 1
      /\ q[Len(s) + 1] = k /\ \A i \in 1 .. Len(s) : q[i] = s[i]
  BY AppendProperties, LenProperties
<1> HIDE DEF q
<1>2. m \in DOMAIN q /\ q[m] = k /\ \A i \in DOMAIN s : i \in DOMAIN q
  BY <1>1
<1>3. \A i \in DOMAIN q : i = m \/ i \in DOMAIN s BY <1>1
<1>4. \A i \in DOMAIN s : q[i] = s[i] /\ s[i] < k /\ i < m
  BY <1>1 DEF Elements
<1> HIDE DEF m
<1>5. Elements(q) = Elements(s) \cup {k}
  BY <1>2, <1>3, <1>4 DEF Elements
<1>6. ASSUME NEW i \in DOMAIN q, NEW j \in DOMAIN q, i < j
      PROVE  q[i] < q[j]
  <2>1. i # m
    BY <1>1, <1>6 DEF m
  <2> QED BY <1>2, <1>3, <1>4, <1>6, <2>1
<1> QED BY <1>5, <1>6 DEF q

\* A stream and what was accepted stay, or grow by the same chunk.
LEMMA StreamKept ==
  ASSUME NEW f \in Flow, InStream(f), Stream(f)' = Stream(f),
         Accepted(f)' = Accepted(f),
         flow'[f].pump # "over" => flow[f].pump # "over"
  PROVE  InStream(f)'
  BY DEF InStream

LEMMA StreamGrows ==
  ASSUME TypeOK, NEW f \in Flow, NEW k \in 0 .. MaxChunks, InStream(f),
         \A j \in Accepted(f) : j < k, Stream(f)' = Append(Stream(f), k),
         Accepted(f)' = Accepted(f) \cup {k}, flow'[f].pump = flow[f].pump
  PROVE  InStream(f)'
<1> SUFFICES ASSUME flow[f].pump # "over"
             PROVE  /\ Elements(Stream(f)') = Accepted(f)'
                    /\ \A i, j \in DOMAIN Stream(f)' :
                         i < j => Stream(f)'[i] < Stream(f)'[j]
  BY DEF InStream, Elements
<1>1. /\ Elements(Stream(f)) = Accepted(f)
      /\ \A i, j \in DOMAIN Stream(f) : i < j => Stream(f)[i] < Stream(f)[j]
  BY DEF InStream
<1>2. Stream(f) \in Seq(0 .. MaxChunks) BY Parts
<1>3. /\ Elements(Append(Stream(f), k)) = Elements(Stream(f)) \cup {k}
      /\ \A i, j \in DOMAIN Append(Stream(f), k) :
           i < j => Append(Stream(f), k)[i] < Append(Stream(f), k)[j]
  BY <1>1, <1>2, Extends
<1> QED BY <1>1, <1>3

\* The three places a chunk moves between: it is queued, taken and written.
LEMMA Queueing ==
  ASSUME NEW S, NEW w \in Seq(S), NEW h \in Seq(S), NEW q \in Seq(S), NEW k \in S
  PROVE  w \o h \o Append(q, k) = Append(w \o h \o q, k)
<1>1. w \o h \in Seq(S) BY ConcatProperties
<1>2. Append(q, k) = q \o <<k>> /\ <<k>> \in Seq(S) BY AppendIsConcat
<1>3. (w \o h) \o (q \o <<k>>) = ((w \o h) \o q) \o <<k>>
  BY <1>1, <1>2, ConcatAssociative
<1>4. (w \o h) \o q \in Seq(S) BY <1>1, ConcatProperties
<1>5. Append((w \o h) \o q, k) = ((w \o h) \o q) \o <<k>>
  BY <1>4, AppendIsConcat
<1> QED BY <1>2, <1>3, <1>5

LEMMA QueueingChunk ==
  ASSUME NEW w \in Seq(0 .. MaxChunks), NEW h \in Seq(0 .. MaxChunks),
         NEW q \in Seq(0 .. MaxChunks), NEW k \in 0 .. MaxChunks
  PROVE  w \o h \o Append(q, k) = Append(w \o h \o q, k)
<1>1. PICK S : S = 0 .. MaxChunks OBVIOUS
<1>2. w \in Seq(S) /\ h \in Seq(S) /\ q \in Seq(S) /\ k \in S BY <1>1
<1> QED BY <1>2, Queueing

LEMMA Taking ==
  ASSUME NEW S, NEW w \in Seq(S), NEW q \in Seq(S), q # <<>>
  PROVE  w \o <<Head(q)>> \o Tail(q) = w \o <<>> \o q
<1>1. Head(q) \in S /\ Tail(q) \in Seq(S) /\ <<Head(q)>> \in Seq(S)
  BY HeadTailProperties
<1>2. <<Head(q)>> \o Tail(q) = q /\ w \o <<>> = w BY ConcatEmptySeq
<1>3. (w \o <<Head(q)>>) \o Tail(q) = w \o (<<Head(q)>> \o Tail(q))
  BY <1>1, ConcatAssociative
<1> QED BY <1>2, <1>3

LEMMA Writing ==
  ASSUME NEW S, NEW w \in Seq(S), NEW x \in S, NEW q \in Seq(S)
  PROVE  Append(w, x) \o <<>> \o q = w \o <<x>> \o q
<1>1. Append(w, x) = w \o <<x>> /\ Append(w, x) \in Seq(S)
  BY AppendIsConcat, AppendProperties
<1> QED BY <1>1, ConcatEmptySeq

LEMMA Single ==
  ASSUME NEW S, NEW h \in Seq(S), Len(h) = 1
  PROVE  Head(h) \in S /\ h = <<Head(h)>>
<1>1. h # <<>>
  <2>1. Len(<<>>) = 0 OBVIOUS
  <2>2. h = <<>> => Len(h) = 0 BY <2>1
  <2> QED BY <2>2
<1>2. Head(h) \in S /\ Head(h) = h[1] BY <1>1, HeadTailProperties
<1>3. /\ <<Head(h)>> \in Seq(S) /\ Len(<<Head(h)>>) = 1
      /\ <<Head(h)>>[1] = h[1]
  BY <1>2
<1>4. \A i \in 1 .. Len(h) : h[i] = <<Head(h)>>[i] BY <1>3
<1>5. h = <<Head(h)>> BY <1>3, <1>4, SeqEqual
<1> QED BY <1>2, <1>5

\* Where the pieces of a stream are in it.
LEMMA JoinPlaces ==
  ASSUME NEW T, NEW x \in Seq(T), NEW y \in Seq(T), NEW z, z = x \o y
  PROVE  /\ z \in Seq(T)
         /\ Len(x) \in Nat /\ Len(y) \in Nat /\ Len(z) = Len(x) + Len(y)
         /\ DOMAIN x = 1 .. Len(x) /\ DOMAIN z = 1 .. Len(z)
         /\ \A i \in 1 .. Len(x) + Len(y) :
               z[i] = IF i <= Len(x) THEN x[i] ELSE y[i - Len(x)]
<1>1. /\ x \o y \in Seq(T) /\ Len(x \o y) = Len(x) + Len(y)
      /\ \A i \in 1 .. Len(x) + Len(y) :
            (x \o y)[i] = IF i <= Len(x) THEN x[i] ELSE y[i - Len(x)]
  BY ConcatProperties
<1>2. /\ z \in Seq(T) /\ Len(z) = Len(x) + Len(y)
      /\ \A i \in 1 .. Len(x) + Len(y) :
            z[i] = IF i <= Len(x) THEN x[i] ELSE y[i - Len(x)]
  BY <1>1
<1>3. /\ Len(x) \in Nat /\ Len(y) \in Nat
      /\ DOMAIN x = 1 .. Len(x) /\ DOMAIN z = 1 .. Len(z)
  BY <1>2, LenProperties
<1> QED BY <1>2, <1>3

LEMMA StreamPlaces ==
  ASSUME NEW T, NEW w \in Seq(T), NEW q \in Seq(T), NEW k \in T
  PROVE  \E s \in Seq(T) :
            /\ s = w \o <<k>> \o q
            /\ Len(w) \in Nat /\ Len(w) + 1 \in DOMAIN s /\ s[Len(w) + 1] = k
            /\ DOMAIN w = 1 .. Len(w)
            /\ \A i \in DOMAIN s : i \in Nat /\ i >= 1 /\ s[i] \in T
            /\ \A i \in DOMAIN w : i \in DOMAIN s /\ i < Len(w) + 1 /\ s[i] = w[i]
<1>1. PICK h \in Seq(T) : h = <<k>> /\ Len(h) = 1 /\ h[1] = k
  <2>1. <<k>> \in Seq(T) /\ Len(<<k>>) = 1 /\ <<k>>[1] = k OBVIOUS
  <2> QED BY <2>1
<1>1a. PICK a : a = w \o h OBVIOUS
<1>2. /\ a \in Seq(T)
      /\ Len(w) \in Nat /\ Len(h) \in Nat /\ Len(a) = Len(w) + Len(h)
      /\ DOMAIN w = 1 .. Len(w) /\ DOMAIN a = 1 .. Len(a)
      /\ \A i \in 1 .. Len(w) + Len(h) :
            a[i] = IF i <= Len(w) THEN w[i] ELSE h[i - Len(w)]
  BY <1>1a, JoinPlaces
<1>2a. PICK s : s = a \o q OBVIOUS
<1>3. /\ s \in Seq(T)
      /\ Len(a) \in Nat /\ Len(q) \in Nat /\ Len(s) = Len(a) + Len(q)
      /\ DOMAIN a = 1 .. Len(a) /\ DOMAIN s = 1 .. Len(s)
      /\ \A i \in 1 .. Len(a) + Len(q) :
            s[i] = IF i <= Len(a) THEN a[i] ELSE q[i - Len(a)]
  <2>1. a \in Seq(T) BY <1>2
  <2> QED BY <1>2a, <2>1, JoinPlaces
<1>4. s = w \o <<k>> \o q BY <1>1, <1>1a, <1>2a
<1>5. s[Len(w) + 1] = k
  <2>1. a[Len(w) + 1] = h[1] BY <1>1, <1>2
  <2>2. s[Len(w) + 1] = a[Len(w) + 1] BY <1>1, <1>2, <1>3
  <2> QED BY <1>1, <2>1, <2>2
<1>6. \A i \in 1 .. Len(w) : s[i] = w[i]
  BY <1>1, <1>2, <1>3
<1>7. Len(w) + 1 \in DOMAIN s BY <1>1, <1>2, <1>3
<1>8. \A i \in DOMAIN w : i \in DOMAIN s /\ i < Len(w) + 1 /\ s[i] = w[i]
  BY <1>1, <1>2, <1>3, <1>6
<1>9. \A i \in DOMAIN s : i \in Nat /\ i >= 1 /\ s[i] \in T
  <2>1. \A i \in 1 .. Len(s) : s[i] \in T BY <1>3, ElementOfSeq
  <2> QED BY <1>3, <2>1
<1> QED BY <1>2, <1>3, <1>4, <1>5, <1>7, <1>8, <1>9

\* Its stream, its pump and its log are as before, but for the pump's progress
\* with nothing in hand.
Undisturbed(f) ==
  /\ flow'[f].hand = flow[f].hand /\ flow'[f].writes = flow[f].writes
  /\ log'[f].given = log[f].given /\ log'[f].lost = log[f].lost
  /\ log'[f].written = log[f].written
  /\ flow'[f].pump # "over" => flow[f].pump # "over"
  /\ flow[f].hand # <<>> => flow'[f].pump = flow[f].pump
  /\ flow'[f].main \in {"none", "dialing", "dialed"} => flow'[f].pump = "none"

\* The parts of a flow and of its log that its stream depends on.
SameStream(r, q) ==
  /\ q.hand = r.hand /\ q.writes = r.writes /\ q.pump = r.pump
  /\ q.main \in {"none", "dialing", "dialed"} =>
       r.main \in {"none", "dialing", "dialed"}

SameLog(l, m) == m.given = l.given /\ m.lost = l.lost /\ m.written = l.written

\* What the flows have accepted stays, or gains a later chunk.
AcceptsNone == \A g \in Flow : Accepted(g)' = Accepted(g)

Accepts(f, k) ==
  /\ \A j \in Accepted(f) : j < k
  /\ Accepted(f)' = Accepted(f) \cup {k}
  /\ \A g \in Flow \ {f} : Accepted(g)' = Accepted(g)

\* A flow the session may put a chunk into the queue of.
Receiver(f) ==
  f > opened \/ f = stall.flow \/ \E t \in Tuple : f = flows[t]

AcceptStep ==
  \/ AcceptsNone
  \/ \E f \in Flow : \E k \in 0 .. MaxChunks : Receiver(f) /\ Accepts(f, k)

\* No stream moves.
LEMMA Still ==
  ASSUME TypeOK, Streams, UNCHANGED stall,
         chunks' = chunks \/ (stall = NoStall /\ chunks' = chunks + 1),
         \A f \in Flow : Undisturbed(f)
  PROVE  Streams' /\ AcceptsNone
<1>1. PumpWorks' BY DEF Streams, PumpWorks, Undisturbed
<1>2. GivenServed'
  <2> SUFFICES ASSUME NEW f \in Flow
               PROVE  /\ \A k \in log'[f].given : k < chunks'
                      /\ log'[f].lost \subseteq log'[f].given
    BY DEF GivenServed
  <2>1. /\ \A k \in log[f].given : k < chunks
        /\ log[f].lost \subseteq log[f].given
    BY DEF Streams, GivenServed
  <2>2. chunks \in Nat /\ log[f].given \subseteq Nat
    BY Parts, TcpFlowAssumption
  <2> QED BY <2>1, <2>2 DEF Undisturbed
<1>3. StallIsLast'
  <2>1. CASE stall = NoStall BY <2>1 DEF StallIsLast
  <2>2. CASE stall # NoStall
    <3>1. stall.flow \in Flow /\ chunks' = chunks BY <2>2 DEF TypeOK
    <3> QED BY <2>2, <3>1 DEF Streams, StallIsLast, Undisturbed
  <2> QED BY <2>1, <2>2
<1>4. ASSUME NEW f \in Flow PROVE InStream(f)'
  <2>1. InStream(f) BY DEF Streams, StreamIsWritten, InStream
  <2>2. Stream(f)' = Stream(f) /\ Accepted(f)' = Accepted(f)
    BY DEF Undisturbed, Stream, Accepted
  <2> QED BY <2>1, <2>2, StreamKept DEF Undisturbed
<1>5. StreamIsWritten' BY <1>4 DEF StreamIsWritten, InStream
<1>6. AcceptsNone BY DEF AcceptsNone, Undisturbed, Accepted
<1> QED BY <1>1, <1>2, <1>3, <1>5, <1>6 DEF Streams

LEMMA Aside ==
  ASSUME TypeOK, Streams, UNCHANGED stall,
         chunks' = chunks \/ (stall = NoStall /\ chunks' = chunks + 1),
         \A f \in Flow : SameStream(flow[f], flow'[f]) /\ SameLog(log[f], log'[f])
  PROVE  Streams' /\ AcceptsNone
<1>1. \A f \in Flow : Undisturbed(f)
  BY DEF Streams, PumpWorks, Undisturbed, SameStream, SameLog
<1> QED BY <1>1, Still

\* Only the pump of one flow moves, or its stream does.
LEMMA OneMoves ==
  ASSUME TypeOK, Streams, NEW f \in Flow, UNCHANGED <<stall, chunks>>,
         \A g \in Flow \ {f} : flow'[g] = flow[g] /\ log'[g] = log[g],
         log'[f].given = log[f].given, log'[f].lost = log[f].lost,
         flow[f].pump \in {"running", "flushing"},
         flow'[f].main = flow[f].main,
         \/ flow'[f].pump = "over" /\ flow'[f].hand = <<>>
         \/ /\ flow'[f].pump = flow[f].pump
            /\ flow'[f].hand = <<>> \/ Len(flow'[f].hand) = 1
            /\ Stream(f)' = Stream(f)
  PROVE  Streams'
<1>1. flow[f].main \notin {"none", "dialing", "dialed"}
  BY DEF Streams, PumpWorks
<1>2. PumpWorks'
  <2> SUFFICES ASSUME NEW g \in Flow
               PROVE  /\ flow'[g].main \in {"none", "dialing", "dialed"} =>
                           flow'[g].pump = "none"
                      /\ \/ flow'[g].hand = <<>>
                         \/ /\ Len(flow'[g].hand) = 1
                            /\ flow'[g].pump \in {"running", "flushing"}
    BY DEF PumpWorks
  <2>1. CASE g = f BY <1>1, <2>1
  <2>2. CASE g # f BY <2>2 DEF Streams, PumpWorks
  <2> QED BY <2>1, <2>2
<1>3. \A g \in Flow : log'[g].given = log[g].given /\ log'[g].lost = log[g].lost
  OBVIOUS
<1>4. GivenServed' BY <1>3 DEF Streams, GivenServed
<1>5. StallIsLast'
  <2>1. stall # NoStall => stall.flow \in Flow BY DEF TypeOK
  <2> QED BY <1>3, <2>1 DEF Streams, StallIsLast
<1>6. ASSUME NEW g \in Flow PROVE InStream(g)'
  <2>1. InStream(g) BY DEF Streams, StreamIsWritten, InStream
  <2>2. Accepted(g)' = Accepted(g) BY <1>3 DEF Accepted
  <2>3. CASE g # f
    <3>1. Stream(g)' = Stream(g) BY <2>3 DEF Stream
    <3> QED BY <2>1, <2>2, <2>3, <3>1, StreamKept
  <2>4. CASE g = f /\ flow'[f].pump = "over" BY <2>4 DEF InStream
  <2>5. CASE g = f /\ flow'[f].pump # "over"
    BY <2>1, <2>2, <2>5, StreamKept
  <2> QED BY <2>3, <2>4, <2>5
<1>7. StreamIsWritten' BY <1>6 DEF StreamIsWritten, InStream
<1> QED BY <1>2, <1>4, <1>5, <1>7 DEF Streams

\* The goroutine that dials and reads, and the closing of a socket.
LEMMA MainStreams ==
  ASSUME TypeOK, Streams, NEW f \in Flow, MainNext(f) \/ CloseSocket(f)
  PROVE  Streams'
<1>0. /\ flow \in [Flow -> FlowState] /\ flow[f] \in FlowState
      /\ log \in [Flow -> LogState] /\ log[f] \in LogState
  BY DEF TypeOK
<1>1. ASSUME NEW v \in Main, UNCHANGED session,
             flow' = [flow EXCEPT ![f].main = v],
             v \in {"none", "dialing", "dialed"} => flow[f].main = "dialing",
             \A g \in Flow : SameLog(log[g], log'[g])
      PROVE  Streams'
  <2>1. SameStream(flow[f], flow'[f])
    BY <1>0, <1>1 DEF SameStream, FlowState
  <2>2. \A g \in Flow : SameStream(flow[g], flow'[g])
    BY <1>0, <1>1, <2>1 DEF SameStream
  <2> QED BY <1>1, <2>2, Aside DEF session
<1>2. log' = log => \A g \in Flow : SameLog(log[g], log'[g]) BY DEF SameLog
<1>3. CASE DialReturns(f)
  BY <1>1, <1>2, <1>3 DEF DialReturns, Moves, Main
<1>4. CASE Adopt(f)
  <2>1. CASE MayAdopt(f)
    <3>1. flow[f].pump = "none" /\ flow[f].hand = <<>>
      BY <1>4 DEF Adopt, Streams, PumpWorks
    <3>2. flow' = [flow EXCEPT ![f] =
             [flow[f] EXCEPT !.conn = "open", !.main = "reading",
                             !.pump = "running"]]
      BY <1>4, <2>1 DEF Adopt
    <3>3. Undisturbed(f)
      BY <1>0, <1>4, <3>1, <3>2 DEF Adopt, Undisturbed, FlowState
    <3>4. \A g \in Flow \ {f} : Undisturbed(g)
      BY <1>0, <1>4, <3>2 DEF Adopt, Undisturbed, Streams, PumpWorks
    <3> QED BY <1>4, <3>3, <3>4, Still DEF Adopt, session
  <2>2. CASE ~ MayAdopt(f)
    BY <1>1, <1>2, <1>4, <2>2 DEF Adopt, Main
  <2> QED BY <2>1, <2>2
<1>5. CASE Read(f)
  <2>1. log' = [log EXCEPT ![f] = [log[f] EXCEPT !.read = @ + 1]]
    BY <1>5 DEF Read
  <2>2. \A g \in Flow : SameLog(log[g], log'[g])
    BY <1>0, <2>1 DEF SameLog, LogState
  <2> QED BY <1>1, <1>5, <2>2 DEF Read, Moves, Main
<1>6. CASE PostData(f)
  BY <1>1, <1>2, <1>6 DEF PostData, Moves, Main
<1>7. CASE ReadEnds(f)
  BY <1>1, <1>2, <1>7 DEF ReadEnds, Moves, Main
<1>8. CASE PostEnd(f)
  BY <1>1, <1>2, <1>8 DEF PostEnd, Moves, Main
<1>9. CASE MainCloses(f)
  <2>1. flow' = [flow EXCEPT ![f] =
                   [flow[f] EXCEPT !.main = "over", !.done = TRUE]]
    BY <1>9 DEF MainCloses
  <2>2. SameStream(flow[f], flow'[f])
    BY <1>0, <2>1 DEF SameStream, FlowState
  <2>3. \A g \in Flow : SameStream(flow[g], flow'[g])
    BY <1>0, <2>1, <2>2 DEF SameStream
  <2> QED BY <1>2, <1>9, <2>3, Aside DEF MainCloses, session
<1>10. CASE CloseSocket(f)
  <2>1. flow' = [flow EXCEPT ![f] = [flow[f] EXCEPT !.conn = "closed"]]
    BY <1>10 DEF CloseSocket
  <2>2. SameStream(flow[f], flow'[f])
    BY <1>0, <2>1 DEF SameStream, FlowState
  <2>3. \A g \in Flow : SameStream(flow[g], flow'[g])
    BY <1>0, <2>1, <2>2 DEF SameStream
  <2> QED BY <1>2, <1>10, <2>3, Aside DEF CloseSocket, session
<1> QED BY <1>3, <1>4, <1>5, <1>6, <1>7, <1>8, <1>9, <1>10 DEF MainNext

\* The write pump.
LEMMA PumpStreams ==
  ASSUME TypeOK, Streams, NEW f \in Flow, PumpNext(f)
  PROVE  Streams'
<1>0. /\ flow \in [Flow -> FlowState] /\ flow[f] \in FlowState
      /\ log \in [Flow -> LogState] /\ log[f] \in LogState
  BY DEF TypeOK
<1>1. /\ log[f].written \in Seq(0 .. MaxChunks)
      /\ flow[f].hand \in Seq(0 .. MaxChunks)
      /\ flow[f].writes \in Seq(0 .. MaxChunks)
      /\ 0 \in 0 .. MaxChunks
  BY Parts, TcpFlowAssumption
<1>2. \/ flow[f].hand = <<>>
      \/ Len(flow[f].hand) = 1 /\ flow[f].pump \in {"running", "flushing"}
  BY DEF Streams, PumpWorks
<1>3. CASE PumpTakes(f)
  <2>1. flow' = [flow EXCEPT ![f] =
           [flow[f] EXCEPT !.hand = <<Head(flow[f].writes)>>,
                           !.writes = Tail(flow[f].writes)]]
    BY <1>3 DEF PumpTakes
  <2>2. /\ flow'[f].hand = <<Head(flow[f].writes)>>
        /\ flow'[f].writes = Tail(flow[f].writes)
        /\ flow'[f].pump = flow[f].pump /\ flow'[f].main = flow[f].main
        /\ \A g \in Flow \ {f} : flow'[g] = flow[g]
    BY <1>0, <2>1 DEF FlowState
  <2>3. /\ flow[f].hand = <<>> /\ flow[f].writes # <<>>
        /\ flow[f].pump \in {"running", "flushing"}
        /\ log' = log /\ UNCHANGED <<stall, chunks>>
    BY <1>3 DEF PumpTakes, session
  <2>4. Stream(f)' = Stream(f)
    <3>1. log[f].written \o <<Head(flow[f].writes)>> \o Tail(flow[f].writes)
            = log[f].written \o <<>> \o flow[f].writes
      BY <1>1, <2>3, Taking
    <3>2. Stream(f) = log[f].written \o <<>> \o flow[f].writes
      BY <2>3 DEF Stream
    <3>3. Stream(f)' = log[f].written \o <<Head(flow[f].writes)>>
                         \o Tail(flow[f].writes)
      BY <2>2, <2>3 DEF Stream
    <3> QED BY <3>1, <3>2, <3>3
  <2>5. Len(flow'[f].hand) = 1 BY <2>2
  <2> QED BY <2>2, <2>3, <2>4, <2>5, OneMoves
<1>4. CASE Write(f)
  <2>1. flow' = [flow EXCEPT ![f] = [flow[f] EXCEPT !.hand = <<>>]]
    BY <1>4 DEF Write
  <2>2. log' = [log EXCEPT ![f] =
           [log[f] EXCEPT !.written = Append(@, Head(flow[f].hand))]]
    BY <1>4 DEF Write
  <2>3. /\ flow'[f].hand = <<>> /\ flow'[f].writes = flow[f].writes
        /\ flow'[f].pump = flow[f].pump /\ flow'[f].main = flow[f].main
        /\ \A g \in Flow \ {f} : flow'[g] = flow[g]
    BY <1>0, <2>1 DEF FlowState
  <2>4. /\ log'[f].written = Append(log[f].written, Head(flow[f].hand))
        /\ log'[f].given = log[f].given /\ log'[f].lost = log[f].lost
        /\ \A g \in Flow \ {f} : log'[g] = log[g]
    BY <1>0, <2>2 DEF LogState
  <2>5. /\ Len(flow[f].hand) = 1 /\ flow[f].pump \in {"running", "flushing"}
        /\ UNCHANGED <<stall, chunks>>
    BY <1>2, <1>4 DEF Write, session
  <2>6. Stream(f)' = Stream(f)
    <3>1. Head(flow[f].hand) \in 0 .. MaxChunks
          /\ flow[f].hand = <<Head(flow[f].hand)>>
      BY <1>1, <2>5, Single
    <3>2. Append(log[f].written, Head(flow[f].hand)) \o <<>> \o flow[f].writes
            = log[f].written \o <<Head(flow[f].hand)>> \o flow[f].writes
      <4>1. \A w, q \in Seq(0 .. MaxChunks) : \A x \in 0 .. MaxChunks :
              Append(w, x) \o <<>> \o q = w \o <<x>> \o q
        BY Writing
      <4> QED BY <1>1, <3>1, <4>1, Zenon
    <3>3. Stream(f)' = Append(log[f].written, Head(flow[f].hand))
                         \o <<>> \o flow[f].writes
      BY <2>3, <2>4 DEF Stream
    <3> QED BY <3>1, <3>2, <3>3 DEF Stream
  <2> QED BY <2>3, <2>4, <2>5, <2>6, OneMoves
<1>5. CASE WriteFails(f)
  <2>1. flow' = [flow EXCEPT ![f] =
                   [flow[f] EXCEPT !.hand = <<>>, !.pump = "over"]]
    BY <1>5 DEF WriteFails
  <2>2. /\ flow'[f].hand = <<>> /\ flow'[f].pump = "over"
        /\ flow'[f].main = flow[f].main
        /\ \A g \in Flow \ {f} : flow'[g] = flow[g]
    BY <1>0, <2>1 DEF FlowState
  <2>3. /\ flow[f].pump \in {"running", "flushing"}
        /\ log' = log /\ UNCHANGED <<stall, chunks>>
    BY <1>2, <1>5 DEF WriteFails, session
  <2> QED BY <2>2, <2>3, OneMoves
<1>6. ASSUME NEW p \in {"flushing", "over"}, flow[f].hand = <<>>,
             flow[f].pump \in {"running", "flushing"},
             flow' = [flow EXCEPT ![f] = [flow[f] EXCEPT !.pump = p]],
             log' = log, UNCHANGED session
      PROVE  Streams'
  <2>1. Undisturbed(f)
    BY <1>0, <1>6 DEF Undisturbed, FlowState, Streams, PumpWorks
  <2>2. \A g \in Flow \ {f} : Undisturbed(g)
    BY <1>0, <1>6 DEF Undisturbed, Streams, PumpWorks
  <2> QED BY <1>6, <2>1, <2>2, Still DEF session
<1>7. CASE PumpSeesDone(f) BY <1>6, <1>7 DEF PumpSeesDone
<1>8. CASE PumpEnds(f) BY <1>6, <1>8 DEF PumpEnds
<1> QED BY <1>3, <1>4, <1>5, <1>7, <1>8 DEF PumpNext

\* What was given was served, and is a number.
LEMMA Served ==
  ASSUME TypeOK, Streams
  PROVE  /\ \A g \in Flow : /\ \A j \in log[g].given : j < chunks
                            /\ log[g].lost \subseteq log[g].given
                            /\ log[g].given \subseteq Nat
         /\ chunks \in Nat
<1>1. 0 .. MaxChunks \subseteq Nat BY TcpFlowAssumption
<1>2. chunks \in Nat BY <1>1 DEF TypeOK
<1>3. \A g \in Flow : log[g].given \subseteq Nat
  <2>1. \A g \in Flow : log[g].given \subseteq 0 .. MaxChunks BY Parts
  <2> QED BY <1>1, <2>1
<1> QED BY <1>2, <1>3 DEF Streams, GivenServed

\* A chunk gets into the queue: at once, or after a stall.
LEMMA PushStreams ==
  ASSUME TypeOK, Streams, NEW f \in Flow, NEW k \in 0 .. MaxChunks,
         \/ /\ stall = NoStall /\ k = chunks /\ chunks' = chunks + 1
            /\ log'[f].given = log[f].given \cup {k}
         \/ /\ stall = [flow |-> f, chunk |-> k] /\ chunks' = chunks
            /\ log'[f].given = log[f].given,
         stall' = NoStall, log'[f].lost = log[f].lost,
         log'[f].written = log[f].written,
         \A g \in Flow \ {f} : flow'[g] = flow[g] /\ log'[g] = log[g],
         flow'[f].writes = Append(flow[f].writes, k),
         flow'[f].hand = flow[f].hand, flow'[f].pump = flow[f].pump,
         flow'[f].main \in {"none", "dialing", "dialed"} =>
           flow[f].main \in {"none", "dialing", "dialed"}
  PROVE  Streams' /\ Accepts(f, k)
<1>0. /\ \A g \in Flow : /\ \A j \in log[g].given : j < chunks
                         /\ log[g].lost \subseteq log[g].given
                         /\ log[g].given \subseteq Nat
      /\ chunks \in Nat /\ f # None
  BY Served DEF Flow, None
<1>1. /\ k \in log'[f].given /\ k \notin log[f].lost
      /\ log'[f].given = log[f].given \cup {k}
      /\ \A j \in log[f].given : j # k => j < k
      /\ k < chunks' /\ (chunks' = chunks \/ chunks' = chunks + 1)
  <2>1. CASE stall = NoStall
    BY <1>0, <2>1 DEF NoStall
  <2>2. CASE stall = [flow |-> f, chunk |-> k]
    <3>1. stall # NoStall BY <1>0, <2>2 DEF NoStall
    <3>2. /\ k \in log[f].given \ log[f].lost
          /\ \A j \in 0 .. MaxChunks : j < chunks => j <= k
      BY <2>2, <3>1 DEF Streams, StallIsLast
    <3>3. log[f].given \subseteq 0 .. MaxChunks BY Parts
    <3>4. chunks' = chunks /\ log'[f].given = log[f].given
      BY <2>2, <3>1
    <3>5. \A j \in log[f].given : j # k => j < k
      BY <1>0, <3>2, <3>3
    <3> QED BY <1>0, <3>2, <3>4, <3>5
  <2> QED BY <2>1, <2>2
<1>2. PumpWorks'
  <2> SUFFICES ASSUME NEW g \in Flow
               PROVE  /\ flow'[g].main \in {"none", "dialing", "dialed"} =>
                           flow'[g].pump = "none"
                      /\ \/ flow'[g].hand = <<>>
                         \/ /\ Len(flow'[g].hand) = 1
                            /\ flow'[g].pump \in {"running", "flushing"}
    BY DEF PumpWorks
  <2> QED BY DEF Streams, PumpWorks
<1>3. GivenServed'
  <2> SUFFICES ASSUME NEW g \in Flow
               PROVE  /\ \A j \in log'[g].given : j < chunks'
                      /\ log'[g].lost \subseteq log'[g].given
    BY DEF GivenServed
  <2>1. \A j \in log[g].given : j < chunks' BY <1>0, <1>1
  <2> QED BY <1>0, <1>1, <2>1
<1>4. StallIsLast' BY DEF StallIsLast
<1>5. \A g \in Flow : InStream(g)
  BY DEF Streams, StreamIsWritten, InStream
<1>5a. ASSUME NEW g \in Flow \ {f} PROVE Accepted(g)' = Accepted(g)
  <2>1. \A j : stall # [flow |-> g, chunk |-> j]
    BY <1>5a DEF NoStall, Flow, None
  <2>2. \A j : stall' # [flow |-> g, chunk |-> j]
    BY DEF NoStall, Flow, None
  <2> QED BY <2>1, <2>2 DEF Accepted
<1>6. ASSUME NEW g \in Flow \ {f} PROVE InStream(g)'
  <2>1. Accepted(g)' = Accepted(g) BY <1>5a
  <2>2. Stream(g)' = Stream(g) BY DEF Stream
  <2> QED BY <1>5, <2>1, <2>2, StreamKept
<1>6a. Accepts(f, k)
  <2>1. Accepted(f) \subseteq log[f].given /\ k \notin Accepted(f)
    <3>1. stall = [flow |-> f, chunk |-> k] => k \notin Accepted(f)
      BY DEF Accepted
    <3>2. stall = NoStall => k \notin log[f].given BY <1>0 DEF NoStall
    <3>3. stall # NoStall => stall = [flow |-> f, chunk |-> k] OBVIOUS
    <3> QED BY <3>1, <3>2, <3>3 DEF Accepted
  <2>2. \A j \in Accepted(f) : j < k BY <1>1, <2>1
  <2>3. Accepted(f)' = Accepted(f) \cup {k}
    <3>1. \A j : stall' # [flow |-> f, chunk |-> j]
      BY <1>0 DEF NoStall
    <3>2. \A j : j # k => stall # [flow |-> f, chunk |-> j]
      BY <1>0 DEF NoStall
    <3>3. \A j : j \in Accepted(f)' <=> j \in log'[f].given /\ j \notin log[f].lost
      BY <3>1 DEF Accepted
    <3>4. \A j : j # k =>
             (j \in Accepted(f) <=> j \in log[f].given /\ j \notin log[f].lost)
      BY <3>2 DEF Accepted
    <3> QED BY <1>1, <3>3, <3>4
  <2> QED BY <1>5a, <2>2, <2>3 DEF Accepts
<1>7. InStream(f)'
  <2>2. \A j \in Accepted(f) : j < k BY <1>6a DEF Accepts
  <2>3. Accepted(f)' = Accepted(f) \cup {k} BY <1>6a DEF Accepts
  <2>4. Stream(f)' = Append(Stream(f), k)
    <3>1. /\ log[f].written \in Seq(0 .. MaxChunks)
          /\ flow[f].hand \in Seq(0 .. MaxChunks)
          /\ flow[f].writes \in Seq(0 .. MaxChunks)
      BY Parts
    <3>2. k \in 0 .. MaxChunks BY <1>1
    <3>3. log[f].written \o flow[f].hand \o Append(flow[f].writes, k)
            = Append(Stream(f), k)
      BY <3>1, <3>2, QueueingChunk DEF Stream
    <3> QED BY <3>3 DEF Stream
  <2> QED BY <1>5, <2>2, <2>3, <2>4, StreamGrows
<1>8. StreamIsWritten' BY <1>6, <1>7 DEF StreamIsWritten, InStream
<1> QED BY <1>2, <1>3, <1>4, <1>6a, <1>8 DEF Streams

\* A stall begins, or ends without a place in the queue.
LEMMA StallStreams ==
  ASSUME TypeOK, Streams, NEW f \in Flow, NEW k \in 0 .. MaxChunks,
         flow' = flow, \A g \in Flow \ {f} : log'[g] = log[g],
         log'[f].written = log[f].written,
         \/ /\ stall = NoStall /\ k = chunks /\ chunks' = chunks + 1
            /\ stall' = [flow |-> f, chunk |-> k]
            /\ log'[f].given = log[f].given \cup {k}
            /\ log'[f].lost = log[f].lost
         \/ /\ stall = [flow |-> f, chunk |-> k] /\ chunks' = chunks
            /\ stall' = NoStall
            /\ log'[f].given = log[f].given
            /\ log'[f].lost = log[f].lost \cup {k}
  PROVE  Streams' /\ AcceptsNone
<1>0. /\ \A g \in Flow : /\ \A j \in log[g].given : j < chunks
                         /\ log[g].lost \subseteq log[g].given
                         /\ log[g].given \subseteq Nat
      /\ chunks \in Nat /\ f # None
  BY Served DEF Flow, None
<1>1. stall = NoStall => k \notin log[f].given BY <1>0 DEF NoStall
<1>2. stall # NoStall => k \in log[f].given
  BY DEF Streams, StallIsLast
<1>3. PumpWorks' BY DEF Streams, PumpWorks
<1>4. GivenServed'
  <2> SUFFICES ASSUME NEW g \in Flow
               PROVE  /\ \A j \in log'[g].given : j < chunks'
                      /\ log'[g].lost \subseteq log'[g].given
    BY DEF GivenServed
  <2>1. chunks' = chunks \/ chunks' = chunks + 1 OBVIOUS
  <2>2. \A j \in log[g].given : j < chunks' BY <1>0, <2>1
  <2>3. CASE g # f BY <1>0, <2>2, <2>3
  <2>4. CASE g = f /\ stall = NoStall
    <3>1. stall # [flow |-> f, chunk |-> k] BY <1>0, <2>4 DEF NoStall
    <3>2. k < chunks' BY <1>0, <3>1
    <3> QED BY <1>0, <2>2, <2>4, <3>1, <3>2
  <2>5. CASE g = f /\ stall # NoStall BY <1>0, <1>2, <2>2, <2>5
  <2> QED BY <2>3, <2>4, <2>5
<1>5. StallIsLast'
  <2> SUFFICES ASSUME stall' # NoStall
               PROVE  /\ stall'.chunk \in log'[stall'.flow].given
                                            \ log'[stall'.flow].lost
                      /\ \A j \in 0 .. MaxChunks :
                           j < chunks' => j <= stall'.chunk
    BY DEF StallIsLast
  <2>1. /\ k = chunks /\ chunks' = chunks + 1 /\ stall = NoStall
        /\ stall'.flow = f /\ stall'.chunk = k
        /\ log'[f].given = log[f].given \cup {k} /\ log'[f].lost = log[f].lost
    OBVIOUS
  <2>2. \A j \in 0 .. MaxChunks : j < chunks' => j <= k BY <1>0, <2>1
  <2>3. k \notin log[f].lost BY <1>0, <1>1, <2>1
  <2> QED BY <2>1, <2>2, <2>3
<1>5a. ASSUME NEW g \in Flow PROVE Accepted(g)' = Accepted(g)
  <2>1. CASE g # f
    <3>1. \A j : /\ stall # [flow |-> g, chunk |-> j]
                 /\ stall' # [flow |-> g, chunk |-> j]
      BY <2>1 DEF NoStall, Flow, None
    <3> QED BY <2>1, <3>1 DEF Accepted
  <2>2. CASE g = f
    <3>1. \A j : NoStall # [flow |-> f, chunk |-> j]
      BY <1>0 DEF NoStall
    <3>2. \A j : [flow |-> f, chunk |-> k] = [flow |-> f, chunk |-> j] => j = k
      OBVIOUS
    <3>3. Accepted(f)' = Accepted(f)
      BY <1>1, <1>2, <3>1, <3>2 DEF Accepted
    <3> QED BY <2>2, <3>3
  <2> QED BY <2>1, <2>2
<1>6. ASSUME NEW g \in Flow PROVE InStream(g)'
  <2>1. InStream(g) BY DEF Streams, StreamIsWritten, InStream
  <2>2. Stream(g)' = Stream(g) BY DEF Stream
  <2> QED BY <1>5a, <2>1, <2>2, StreamKept
<1>7. StreamIsWritten' BY <1>6 DEF StreamIsWritten, InStream
<1> QED BY <1>3, <1>4, <1>5, <1>5a, <1>7 DEF Streams, AcceptsNone

\* A flow closed, or opened, has the stream it had.
LEMMA ClosedStreams ==
  ASSUME TypeOK, NEW S, flow' = Closed(flow, S)
  PROVE  \A g \in Flow : SameStream(flow[g], flow'[g])
<1>1. ASSUME NEW g \in Flow
      PROVE  /\ SameStream(flow[g], flow[g])
             /\ SameStream(flow[g], [flow[g] EXCEPT !.done = TRUE])
  <2>1. flow[g] \in FlowState BY DEF TypeOK
  <2> QED BY <2>1 DEF FlowState, SameStream
<1> QED BY <1>1 DEF Closed

LEMMA OpenedStreams ==
  ASSUME IInv, NEW t, opened < MaxFlows
  PROVE  /\ opened + 1 \in Flow
         /\ \A g \in Flow : SameStream(flow[g], Opened(t)[g])
         /\ Opened(t) \in [Flow -> [tuple : {t} \cup (Tuple \cup {None}),
                 conn : {"none", "open", "closed"}, done : BOOLEAN,
                 writes : Seq(0 .. MaxChunks), hand : Seq(0 .. MaxChunks),
                 main : Main, pump : {"none", "running", "flushing", "over"}]]
<1> DEFINE n == opened + 1
           q == [flow[n] EXCEPT !.tuple = t, !.main = "dialing"]
<1>1. /\ n \in Flow /\ n > opened /\ flow \in [Flow -> FlowState]
  BY TcpFlowAssumption DEF IInv, TypeOK, Flow
<1>2. flow[n] \in FlowState /\ flow[n].main = "none"
  BY <1>1 DEF IInv, Allocated
<1>3. Opened(t) = [flow EXCEPT ![n] = q] BY <1>1 DEF Opened
<1>4. SameStream(flow[n], q) BY <1>2 DEF SameStream, FlowState
<1>5. \A g \in Flow : SameStream(flow[g], flow[g]) BY DEF SameStream
<1>6. q \in [tuple : {t} \cup (Tuple \cup {None}),
             conn : {"none", "open", "closed"}, done : BOOLEAN,
             writes : Seq(0 .. MaxChunks), hand : Seq(0 .. MaxChunks),
             main : Main, pump : {"none", "running", "flushing", "over"}]
  BY <1>2 DEF FlowState, Main
<1>7. \A g \in Flow : flow[g] \in
        [tuple : {t} \cup (Tuple \cup {None}),
         conn : {"none", "open", "closed"}, done : BOOLEAN,
         writes : Seq(0 .. MaxChunks), hand : Seq(0 .. MaxChunks),
         main : Main, pump : {"none", "running", "flushing", "over"}]
  BY <1>1 DEF FlowState, Main
<1> HIDE DEF q
<1>8. \A g \in Flow : Opened(t)[g] = IF g = n THEN q ELSE flow[g]
  BY <1>1, <1>3
<1> QED BY <1>1, <1>3, <1>4, <1>5, <1>6, <1>7, <1>8

\* The session goroutine serves a chunk, ends a stall, takes an item from the
\* channel, or closes flows.
LEMMA ServeStreams ==
  ASSUME IInv, Streams, SessionNext
  PROVE  Streams' /\ AcceptStep
<1>0. /\ TypeOK /\ flow \in [Flow -> FlowState] /\ log \in [Flow -> LogState]
      /\ \A g \in Flow : flow[g] \in FlowState /\ log[g] \in LogState
  BY DEF IInv, TypeOK
<1>1. \A g \in Flow : /\ SameStream(flow[g], flow[g]) /\ SameLog(log[g], log[g])
                      /\ SameLog(log[g], [log[g] EXCEPT !.told = TRUE])
                      /\ SameLog(log[g], [log[g] EXCEPT !.byClient = TRUE])
                      /\ \A n : SameLog(log[g], [log[g] EXCEPT !.sent = n])
  BY <1>0 DEF SameStream, SameLog, LogState
<1>2. stall = NoStall /\ chunks < MaxChunks => chunks \in 0 .. MaxChunks
  BY <1>0 DEF TypeOK
<1>3. ASSUME NEW t \in Tuple, Connect(t) PROVE Streams' /\ AcceptStep
  <2>1. /\ stall = NoStall /\ stall' = stall /\ chunks' = chunks + 1
        /\ log' = log
    BY <1>3 DEF Connect, Serve, Serving
  <2>2. CASE flow' = flow BY <1>0, <1>1, <2>1, <2>2, Aside DEF AcceptStep
  <2>3. CASE opened < MaxFlows /\ flow' = Opened(t)
    BY <1>0, <1>1, <2>1, <2>3, OpenedStreams, Aside DEF AcceptStep
  <2> QED BY <1>3, <2>2, <2>3 DEF Connect
<1>4. ASSUME NEW t \in Tuple, Payload(t) PROVE Streams' /\ AcceptStep
  <2> DEFINE f == flows[t]
  <2>1. /\ stall = NoStall /\ chunks' = chunks + 1 /\ f \in Flow
        /\ chunks \in 0 .. MaxChunks
    BY <1>0, <1>2, <1>4 DEF Payload, Serve, Serving, TypeOK
  <2>2. CASE UNCHANGED <<stall, flow, log>>
    BY <1>0, <1>1, <2>1, <2>2, Aside DEF AcceptStep
  <2>3. CASE Push(flow, f, chunks) /\ UNCHANGED stall
    <3>1. /\ flow' = [flow EXCEPT ![f] = [flow[f] EXCEPT
                                            !.writes = Append(@, chunks)]]
          /\ log' = [log EXCEPT ![f] = [log[f] EXCEPT
                                            !.given = @ \cup {chunks}]]
      BY <2>3 DEF Push
    <3>2. /\ flow'[f].writes = Append(flow[f].writes, chunks)
          /\ flow'[f].hand = flow[f].hand /\ flow'[f].pump = flow[f].pump
          /\ flow'[f].main = flow[f].main
          /\ \A g \in Flow \ {f} : flow'[g] = flow[g]
      BY <1>0, <2>1, <3>1 DEF FlowState
    <3>3. /\ log'[f].given = log[f].given \cup {chunks}
          /\ log'[f].lost = log[f].lost /\ log'[f].written = log[f].written
          /\ \A g \in Flow \ {f} : log'[g] = log[g]
      BY <1>0, <2>1, <3>1 DEF LogState
    <3>4. Receiver(f) BY <1>4 DEF Receiver
    <3> HIDE DEF f
    <3>5. Streams' /\ Accepts(f, chunks)
      BY <1>0, <2>1, <2>3, <3>2, <3>3, PushStreams
    <3> QED BY <2>1, <3>4, <3>5 DEF AcceptStep
  <2>4. CASE /\ stall' = [flow |-> f, chunk |-> chunks]
             /\ log' = [log EXCEPT ![f].given = @ \cup {chunks}]
             /\ UNCHANGED flow
    <3>1. /\ log'[f].given = log[f].given \cup {chunks}
          /\ log'[f].lost = log[f].lost /\ log'[f].written = log[f].written
          /\ \A g \in Flow \ {f} : log'[g] = log[g]
      BY <1>0, <2>1, <2>4 DEF LogState
    <3> HIDE DEF f
    <3> QED BY <1>0, <2>1, <2>4, <3>1, StallStreams DEF AcceptStep
  <2> QED BY <1>4, <2>2, <2>3, <2>4 DEF Payload
<1>5. ASSUME NEW t \in Tuple, PayloadOpens(t) PROVE Streams' /\ AcceptStep
  <2> DEFINE f == opened + 1
  <2>1. /\ stall = NoStall /\ stall' = stall /\ chunks' = chunks + 1
        /\ chunks \in 0 .. MaxChunks
    BY <1>0, <1>2, <1>5 DEF PayloadOpens, Serve, Serving
  <2>2. CASE UNCHANGED <<flow, log>> BY <1>0, <1>1, <2>1, <2>2, Aside DEF AcceptStep
  <2>3. CASE opened < MaxFlows /\ Push(Opened(t), opened + 1, chunks)
    <3>1. /\ f \in Flow /\ \A g \in Flow : SameStream(flow[g], Opened(t)[g])
          /\ Opened(t) \in [Flow -> [tuple : {t} \cup (Tuple \cup {None}),
                 conn : {"none", "open", "closed"}, done : BOOLEAN,
                 writes : Seq(0 .. MaxChunks), hand : Seq(0 .. MaxChunks),
                 main : Main, pump : {"none", "running", "flushing", "over"}]]
      BY <2>3, OpenedStreams
    <3>2. PICK fl : fl = Opened(t) OBVIOUS
    <3>3. /\ flow' = [fl EXCEPT ![f] = [fl[f] EXCEPT !.writes = Append(@, chunks)]]
          /\ log' = [log EXCEPT ![f] = [log[f] EXCEPT !.given = @ \cup {chunks}]]
      BY <2>3, <3>2 DEF Push
    <3>4. /\ flow'[f].writes = Append(fl[f].writes, chunks)
          /\ flow'[f].hand = fl[f].hand /\ flow'[f].pump = fl[f].pump
          /\ flow'[f].main = fl[f].main
          /\ \A g \in Flow \ {f} : flow'[g] = fl[g]
      BY <3>1, <3>2, <3>3
    <3>5. /\ log'[f].given = log[f].given \cup {chunks}
          /\ log'[f].lost = log[f].lost /\ log'[f].written = log[f].written
          /\ \A g \in Flow \ {f} : log'[g] = log[g]
      BY <1>0, <3>1, <3>3 DEF LogState
    <3>6. \A g \in Flow \ {f} : fl[g] = flow[g]
      BY <1>0, <3>1, <3>2 DEF Opened
    <3>7. SameStream(flow[f], fl[f]) BY <3>1, <3>2
    <3>8. f \in Flow /\ Receiver(f)
      BY <1>0, <3>1 DEF Receiver, TypeOK
    <3> HIDE DEF f
    <3>9. /\ flow'[f].writes = Append(flow[f].writes, chunks)
          /\ flow'[f].hand = flow[f].hand /\ flow'[f].pump = flow[f].pump
          /\ flow'[f].main \in {"none", "dialing", "dialed"} =>
               flow[f].main \in {"none", "dialing", "dialed"}
          /\ \A g \in Flow \ {f} : flow'[g] = flow[g] /\ log'[g] = log[g]
      BY <3>4, <3>5, <3>6, <3>7 DEF SameStream
    <3>10. Streams' /\ Accepts(f, chunks)
      BY <1>0, <2>1, <3>5, <3>8, <3>9, PushStreams
    <3> QED BY <2>1, <3>8, <3>10 DEF AcceptStep
  <2> QED BY <1>5, <2>2, <2>3 DEF PayloadOpens
<1>6. ASSUME NEW t \in Tuple, Disconnect(t) PROVE Streams' /\ AcceptStep
  <2> DEFINE f == flows[t]
  <2>1. /\ stall = NoStall /\ stall' = stall /\ chunks' = chunks + 1
        /\ flow' = Closed(flow, {f})
        /\ log' = [log EXCEPT ![f] = [log[f] EXCEPT !.byClient = TRUE]]
    BY <1>6 DEF Disconnect, Serving
  <2>2. \A g \in Flow : SameLog(log[g], log'[g]) BY <1>0, <1>1, <2>1
  <2> QED BY <1>0, <2>1, <2>2, ClosedStreams, Aside DEF AcceptStep
<1>7. CASE StallTimesOut \/ StallEnds
  <2>1. /\ stall # NoStall /\ stall' = NoStall /\ chunks' = chunks
        /\ stall.flow \in Flow /\ stall.chunk \in 0 .. MaxChunks
        /\ stall = [flow |-> stall.flow, chunk |-> stall.chunk]
    BY <1>0, <1>7 DEF StallTimesOut, StallEnds, TypeOK
  <2>2. PICK f \in Flow, k \in 0 .. MaxChunks :
           f = stall.flow /\ k = stall.chunk
    BY <2>1
  <2>3. CASE flow' = flow /\ log' = [log EXCEPT ![f].lost = @ \cup {k}]
    <3>1. /\ log'[f].lost = log[f].lost \cup {k}
          /\ log'[f].given = log[f].given /\ log'[f].written = log[f].written
          /\ \A g \in Flow \ {f} : log'[g] = log[g]
      BY <1>0, <2>3 DEF LogState
    <3> QED BY <1>0, <2>1, <2>2, <2>3, <3>1, StallStreams DEF AcceptStep
  <2>4. CASE log' = log /\ flow' = [flow EXCEPT ![f].writes = Append(@, k)]
    <3>1. /\ flow'[f].writes = Append(flow[f].writes, k)
          /\ flow'[f].hand = flow[f].hand /\ flow'[f].pump = flow[f].pump
          /\ flow'[f].main = flow[f].main
          /\ \A g \in Flow \ {f} : flow'[g] = flow[g]
      BY <1>0, <2>4 DEF FlowState
    <3>2. Streams' /\ Accepts(f, k)
      BY <1>0, <2>1, <2>2, <2>4, <3>1, PushStreams
    <3> QED BY <2>2, <3>2 DEF AcceptStep, Receiver
  <2> QED BY <1>7, <2>2, <2>3, <2>4 DEF StallTimesOut, StallEnds
<1>8. CASE HandleUpstream
  <2> DEFINE u == Head(out)
  <2>1. stall' = stall /\ chunks' = chunks BY <1>8 DEF HandleUpstream
  <2>2. CASE u.closed
    <3>1. PICK S : flow' = Closed(flow, S) BY <1>8, <2>2 DEF HandleUpstream
    <3>2. log' = [log EXCEPT ![u.flow] = [log[u.flow] EXCEPT !.told = TRUE]]
      BY <1>8, <2>2 DEF HandleUpstream
    <3>3. \A g \in Flow : SameLog(log[g], log'[g]) BY <1>0, <1>1, <3>2
    <3> QED BY <1>0, <2>1, <3>1, <3>3, ClosedStreams, Aside DEF AcceptStep
  <2>3. CASE ~ u.closed
    <3>1. /\ flow' = flow
          /\ log' = [log EXCEPT ![u.flow] = [log[u.flow] EXCEPT !.sent = u.n]]
      BY <1>8, <2>3 DEF HandleUpstream
    <3>2. \A g \in Flow : SameLog(log[g], log'[g]) BY <1>0, <1>1, <3>1
    <3> QED BY <1>0, <1>1, <2>1, <3>1, <3>2, Aside DEF AcceptStep
  <2> QED BY <2>2, <2>3
<1>9. CASE ResetForHandshake \/ Shutdown
  <2>1. /\ stall' = stall /\ chunks' = chunks /\ log' = log
        /\ flow' = Closed(flow, LiveFlows)
    BY <1>9 DEF ResetForHandshake, Shutdown
  <2> QED BY <1>0, <1>1, <2>1, ClosedStreams, Aside DEF AcceptStep
<1> QED BY <1>3, <1>4, <1>5, <1>6, <1>7, <1>8, <1>9 DEF SessionNext

\* It holds at first.
LEMMA InitStreams == Init => Streams
<1> SUFFICES ASSUME Init PROVE Streams OBVIOUS
<1>1. \A f \in Flow : /\ flow[f].hand = <<>> /\ flow[f].writes = <<>>
                      /\ flow[f].pump = "none" /\ flow[f].main = "none"
                      /\ log[f].written = <<>> /\ log[f].given = {}
                      /\ log[f].lost = {}
  BY DEF Init
<1>2. PumpWorks /\ GivenServed BY <1>1 DEF PumpWorks, GivenServed
<1>3. StallIsLast BY DEF Init, StallIsLast
<1>4. StreamIsWritten
  <2> SUFFICES ASSUME NEW f \in Flow
               PROVE  /\ Elements(Stream(f)) = Accepted(f)
                      /\ \A i, j \in DOMAIN Stream(f) :
                           i < j => Stream(f)[i] < Stream(f)[j]
    BY DEF StreamIsWritten
  <2>1. Stream(f) = <<>> BY <1>1 DEF Stream
  <2>2. Accepted(f) = {} BY <1>1 DEF Accepted
  <2>3. DOMAIN <<>> = {} OBVIOUS
  <2> QED BY <2>1, <2>2, <2>3 DEF Elements
<1> QED BY <1>2, <1>3, <1>4 DEF Streams

\* Every step keeps the streams.
LEMMA StepStreams == IInv /\ Streams /\ [Next]_vars => Streams'
<1> SUFFICES ASSUME IInv, Streams, [Next]_vars PROVE Streams' OBVIOUS
<1>0. TypeOK BY DEF IInv
<1>1. CASE SessionNext BY <1>1, ServeStreams
<1>2. CASE ServerStops \/ UNCHANGED vars
  <2>1. UNCHANGED <<stall, chunks, flow, log>>
    BY <1>2 DEF ServerStops, vars, session
  <2>2. \A f \in Flow : SameStream(flow[f], flow'[f]) /\ SameLog(log[f], log'[f])
    BY <2>1 DEF SameStream, SameLog
  <2> QED BY <1>0, <2>1, <2>2, Aside
<1>3. ASSUME NEW f \in Flow, MainNext(f) \/ PumpNext(f) \/ CloseSocket(f)
      PROVE  Streams'
  BY <1>0, <1>3, MainStreams, PumpStreams
<1> QED BY <1>1, <1>2, <1>3 DEF Next

-----------------------------------------------------------------------------
(* The channel to the client                                               *)

\* What a channel o holds at the places W are the numbers after lo up to hi,
\* in their order.
Ordered(o, W, lo, hi) ==
  /\ lo <= hi
  /\ {o[i].n : i \in W} = lo + 1 .. hi
  /\ \A i, j \in W : i < j => o[i].n < o[j].n

\* The next number at the end.
LEMMA OrderedAppend ==
  ASSUME NEW o, NEW q, NEW m \in Nat, NEW W, NEW lo \in Nat, NEW hi \in Int,
         Ordered(o, W, lo, hi), \A i \in W : i \in Nat /\ i < m /\ q[i] = o[i],
         q[m].n = hi + 1
  PROVE  Ordered(q, W \cup {m}, lo, hi + 1)
<1>1. /\ lo <= hi /\ {o[i].n : i \in W} = lo + 1 .. hi
      /\ \A i, j \in W : i < j => o[i].n < o[j].n
  BY DEF Ordered
<1>2. \A i \in W : o[i].n \in lo + 1 .. hi BY <1>1
<1>3. {q[i].n : i \in W \cup {m}} = lo + 1 .. hi + 1
  <2>1. ASSUME NEW x
        PROVE  (\E i \in W \cup {m} : x = q[i].n)
                 <=> (\E i \in W : x = o[i].n) \/ x = hi + 1
    OBVIOUS
  <2>2. {q[i].n : i \in W \cup {m}} = {o[i].n : i \in W} \cup {hi + 1}
    BY <2>1
  <2>3. (lo + 1 .. hi) \cup {hi + 1} = lo + 1 .. hi + 1 BY <1>1
  <2> QED BY <1>1, <2>2, <2>3
<1>4. ASSUME NEW i \in W \cup {m}, NEW j \in W \cup {m}, i < j
      PROVE  q[i].n < q[j].n
  <2>1. i \in W
    <3>1. j <= m BY <1>4
    <3> QED BY <1>4, <3>1
  <2>2. CASE j \in W BY <1>1, <1>4, <2>1, <2>2
  <2>3. CASE j = m
    <3>1. q[i] = o[i] /\ o[i].n \in lo + 1 .. hi BY <1>2, <2>1
    <3> QED BY <2>3, <3>1
  <2> QED BY <2>2, <2>3
<1> QED BY <1>1, <1>3, <1>4 DEF Ordered

\* The first number taken from the front.
LEMMA OrderedHead ==
  ASSUME NEW o, NEW W, NEW lo \in Nat, NEW hi \in Int, Ordered(o, W, lo, hi),
         1 \in W, \A i \in W : i \in Nat /\ i >= 1
  PROVE  o[1].n \in Nat /\ o[1].n = lo + 1 /\ Ordered(o, W \ {1}, o[1].n, hi)
<1>1. /\ lo <= hi /\ {o[i].n : i \in W} = lo + 1 .. hi
      /\ \A i, j \in W : i < j => o[i].n < o[j].n
  BY DEF Ordered
<1>2. \A i \in W : o[i].n \in lo + 1 .. hi BY <1>1
<1>3. o[1].n = lo + 1
  <2>1. o[1].n \in lo + 1 .. hi BY <1>2
  <2>2. lo + 1 \in lo + 1 .. hi BY <2>1
  <2>3. PICK j \in W : o[j].n = lo + 1 BY <1>1, <2>2
  <2>4. j = 1 \/ 1 < j OBVIOUS
  <2>5. o[1].n <= lo + 1 BY <1>1, <2>1, <2>3, <2>4
  <2> QED BY <2>1, <2>5
<1>4. lo + 1 <= hi BY <1>2, <1>3
<1>5. {o[i].n : i \in W \ {1}} = o[1].n + 1 .. hi
  <2>1. ASSUME NEW i \in W \ {1} PROVE o[i].n \in o[1].n + 1 .. hi
    <3>1. 1 < i OBVIOUS
    <3>2. o[1].n < o[i].n BY <1>1, <3>1
    <3>3. o[i].n \in lo + 1 .. hi BY <1>2
    <3> QED BY <1>3, <3>2, <3>3
  <2>2. ASSUME NEW x \in o[1].n + 1 .. hi
        PROVE  \E i \in W \ {1} : o[i].n = x
    <3>1. x \in lo + 1 .. hi /\ x # o[1].n BY <1>3
    <3>2. PICK i \in W : o[i].n = x BY <1>1, <3>1
    <3> QED BY <3>1, <3>2
  <2> QED BY <2>1, <2>2
<1> QED BY <1>1, <1>3, <1>4, <1>5 DEF Ordered

\* The places moved up by one.
LEMMA OrderedTail ==
  ASSUME NEW o, NEW q, NEW W, NEW V, NEW lo, NEW hi, Ordered(o, W, lo, hi),
         \A i \in V : i \in Nat /\ i + 1 \in W /\ q[i] = o[i + 1],
         \A i \in W : i \in Nat /\ i - 1 \in V
  PROVE  Ordered(q, V, lo, hi)
<1>1. /\ lo <= hi /\ {o[i].n : i \in W} = lo + 1 .. hi
      /\ \A i, j \in W : i < j => o[i].n < o[j].n
  BY DEF Ordered
<1>2. \A i \in W : q[i - 1] = o[i]
  <2> SUFFICES ASSUME NEW i \in W PROVE q[i - 1] = o[i] OBVIOUS
  <2>1. i - 1 \in V /\ (i - 1) + 1 = i OBVIOUS
  <2> QED BY <2>1
<1>3. {q[i].n : i \in V} = {o[i].n : i \in W}
  <2>1. ASSUME NEW x
        PROVE  (\E i \in V : x = q[i].n) <=> (\E i \in W : x = o[i].n)
    BY <1>2
  <2> QED BY <2>1
<1>4. ASSUME NEW i \in V, NEW j \in V, i < j PROVE q[i].n < q[j].n
  <2>1. i + 1 \in W /\ j + 1 \in W /\ i + 1 < j + 1 BY <1>4
  <2> QED BY <1>1, <2>1
<1> QED BY <1>1, <1>3, <1>4 DEF Ordered

\* The channel of every flow, while the server runs.
ClientOrder ==
  \A f \in Flow : Ordered(out, Waiting(f), log[f].sent, ReadsPosted(f))

\* What the numbers are.
LEMMA ChannelNumbers ==
  ASSUME TypeOK
  PROVE  /\ Len(out) \in Nat /\ DOMAIN out = 1 .. Len(out) /\ out \in Seq(Item)
         /\ \A i \in DOMAIN out : out[i] \in Item /\ out[i].flow \in Flow
                                  /\ out[i].closed \in BOOLEAN
         /\ \A f \in Flow :
              /\ flow[f] \in FlowState /\ log[f] \in LogState
              /\ log[f].read \in Nat /\ log[f].sent \in Nat
              /\ ReadsPosted(f) \in Int
              /\ \A i \in Waiting(f) : i \in Nat /\ i >= 1 /\ i <= Len(out)
<1>1. /\ Len(out) \in Nat /\ DOMAIN out = 1 .. Len(out) /\ out \in Seq(Item)
      /\ \A i \in DOMAIN out : out[i] \in Item
  BY LenProperties, ElementOfSeq DEF TypeOK
<1>2. \A i \in DOMAIN out : out[i].flow \in Flow /\ out[i].closed \in BOOLEAN
  BY <1>1 DEF Item
<1>3. ASSUME NEW f \in Flow
      PROVE  /\ flow[f] \in FlowState /\ log[f] \in LogState
             /\ log[f].read \in Nat /\ log[f].sent \in Nat
             /\ ReadsPosted(f) \in Int
             /\ \A i \in Waiting(f) : i \in Nat /\ i >= 1 /\ i <= Len(out)
  <2>1. flow[f] \in FlowState /\ log[f] \in LogState BY DEF TypeOK
  <2>2. log[f].read \in 0 .. MaxReads /\ log[f].sent \in 0 .. MaxReads
    BY <2>1 DEF LogState
  <2>3. log[f].read \in Nat /\ log[f].sent \in Nat
    BY <2>2, TcpFlowAssumption
  <2>4. ReadsPosted(f) \in Int BY <2>3 DEF ReadsPosted
  <2>5. \A i \in Waiting(f) : i \in Nat /\ i >= 1 /\ i <= Len(out)
    BY <1>1 DEF Waiting
  <2> QED BY <2>1, <2>3, <2>4, <2>5
<1> QED BY <1>1, <1>2, <1>3

\* The channel is not touched, and no read is posted or sent.
LEMMA ChannelKept ==
  ASSUME ClientOrder, UNCHANGED out,
         \A f \in Flow : log'[f].sent = log[f].sent
                         /\ ReadsPosted(f)' = ReadsPosted(f)
  PROVE  ClientOrder'
<1>1. \A f \in Flow : Waiting(f)' = Waiting(f) BY DEF Waiting
<1> QED BY <1>1 DEF ClientOrder

\* A read, or the end of an upstream, is posted (PostData, PostEnd).
LEMMA ChannelGrows ==
  ASSUME TypeOK, ClientOrder, NEW f \in Flow, NEW it \in Item, it.flow = f,
         out' = Append(out, it), log' = log,
         ~ it.closed => it.n = ReadsPosted(f) + 1,
         \A g \in Flow : ReadsPosted(g)' =
           IF g = f /\ ~ it.closed THEN ReadsPosted(g) + 1 ELSE ReadsPosted(g)
  PROVE  ClientOrder'
<1> DEFINE m == Len(out) + 1
<1>1. /\ Len(out) \in Nat /\ DOMAIN out = 1 .. Len(out) /\ out \in Seq(Item)
      /\ \A g \in Flow :
           /\ log[g].sent \in Nat /\ ReadsPosted(g) \in Int
           /\ \A i \in Waiting(g) : i \in Nat /\ i >= 1 /\ i <= Len(out)
  BY ChannelNumbers
<1>2. /\ DOMAIN out' = 1 .. m /\ out'[m] = it
      /\ \A i \in 1 .. Len(out) : out'[i] = out[i]
  <2>1. /\ out' \in Seq(Item) /\ Len(out') = m /\ out'[m] = it
        /\ \A i \in 1 .. Len(out) : out'[i] = out[i]
    BY <1>1, AppendProperties
  <2> QED BY <2>1, LenProperties
<1>3. m \in Nat /\ \A i \in 1 .. m : i = m \/ i \in 1 .. Len(out)
  BY <1>1
<1>4. \A i \in 1 .. Len(out) : i < m /\ i \in 1 .. m /\ i # m BY <1>1
<1>5. m \in 1 .. m BY <1>1
<1> HIDE DEF m
<1>6. ASSUME NEW g \in Flow
      PROVE  Ordered(out', Waiting(g)', log[g].sent, ReadsPosted(g)')
  <2>1. Ordered(out, Waiting(g), log[g].sent, ReadsPosted(g))
    BY DEF ClientOrder
  <2>2. \A i \in Waiting(g) : i \in Nat /\ i < m /\ out'[i] = out[i]
    BY <1>1, <1>2, <1>4
  <2>3. CASE g = f /\ ~ it.closed
    <3>1. Waiting(g)' = Waiting(g) \cup {m}
      BY <1>1, <1>2, <1>3, <1>4, <1>5, <2>3 DEF Waiting
    <3>2. out'[m].n = ReadsPosted(g) + 1 BY <1>2, <2>3
    <3>3. Ordered(out', Waiting(g) \cup {m}, log[g].sent, ReadsPosted(g) + 1)
      <4>1. m \in Nat /\ log[g].sent \in Nat /\ ReadsPosted(g) \in Int
        BY <1>1, <1>3
      <4>2. \A i \in Waiting(g) : i \in Nat /\ i < m /\ out'[i] = out[i]
        BY <2>2
      <4> QED BY <2>1, <3>2, <4>1, <4>2, OrderedAppend
    <3> QED BY <2>3, <3>1, <3>3
  <2>4. CASE ~ (g = f /\ ~ it.closed)
    <3>1. Waiting(g)' = Waiting(g)
      BY <1>1, <1>2, <1>3, <1>4, <1>5, <2>4 DEF Waiting
    <3>2. Ordered(out', Waiting(g), log[g].sent, ReadsPosted(g))
      BY <2>1, <2>2 DEF Ordered
    <3> QED BY <2>4, <3>1, <3>2
  <2> QED BY <2>3, <2>4
<1> QED BY <1>6 DEF ClientOrder

\* What HandleUpstream does to the channel, and to what is noted.
LEMMA ItemTaken ==
  ASSUME TypeOK, HandleUpstream
  PROVE  /\ Len(out) \in Nat /\ DOMAIN out = 1 .. Len(out) /\ 1 \in DOMAIN out
         /\ out[1] = Head(out) /\ out[1].flow \in Flow
         /\ DOMAIN out' = 1 .. Len(out) - 1
         /\ \A i \in 1 .. Len(out) - 1 :
               out'[i] = out[i + 1] /\ i + 1 \in 1 .. Len(out) /\ 1 < i + 1 /\ i \in Nat
         /\ stall = NoStall /\ stall' = stall /\ opened' = opened
         /\ \A g \in Flow :
              /\ flow'[g].main = flow[g].main /\ ReadsPosted(g)' = ReadsPosted(g)
              /\ log'[g].read = log[g].read /\ log'[g].written = log[g].written
              /\ log'[g].sent = (IF g = out[1].flow /\ ~ out[1].closed THEN out[1].n
                                                                  ELSE log[g].sent)
              /\ log'[g].told = (log[g].told \/ (g = out[1].flow /\ out[1].closed))
<1> DEFINE u == out[1]
<1>1. /\ Len(out) \in Nat /\ DOMAIN out = 1 .. Len(out) /\ out \in Seq(Item)
      /\ \A i \in DOMAIN out : out[i].flow \in Flow /\ out[i].closed \in BOOLEAN
      /\ \A g \in Flow : log[g] \in LogState /\ flow[g] \in FlowState
  BY ChannelNumbers
<1>2. /\ out # <<>> /\ out' = Tail(out) /\ Len(out) >= 1
      /\ stall = NoStall /\ stall' = stall /\ opened' = opened
  <2>1. /\ out # <<>> /\ out' = Tail(out)
        /\ stall = NoStall /\ stall' = stall /\ opened' = opened
    BY DEF HandleUpstream, Serving
  <2> QED BY <1>1, <2>1, EmptySeq
<1>3. /\ DOMAIN out' = 1 .. Len(out) - 1
      /\ \A i \in 1 .. Len(out) - 1 : out'[i] = out[i + 1]
  BY <1>1, <1>2, HeadTailProperties, LenProperties
<1>4. u = Head(out) /\ u.flow \in Flow /\ 1 \in DOMAIN out
  BY <1>1, <1>2
<1>5. \A g \in Flow : flow'[g].main = flow[g].main
  <2>1. CASE u.closed
    <3>1. PICK S : flow' = Closed(flow, S)
      BY <1>4, <2>1 DEF HandleUpstream
    <3> QED BY <1>1, <3>1 DEF Closed, FlowState
  <2>2. CASE ~ u.closed BY <1>4, <2>2 DEF HandleUpstream
  <2> QED BY <2>1, <2>2
<1>6. \A g \in Flow :
         /\ log'[g].read = log[g].read /\ log'[g].written = log[g].written
         /\ log'[g].sent = (IF g = u.flow /\ ~ u.closed THEN u.n ELSE log[g].sent)
         /\ log'[g].told = (log[g].told \/ (g = u.flow /\ u.closed))
  <2>1. log \in [Flow -> LogState] BY DEF TypeOK
  <2>2. PICK f \in Flow : f = u.flow BY <1>4
  <2>3. PICK n : n = u.n OBVIOUS
  <2>4. CASE u.closed
    <3> DEFINE l == [log[f] EXCEPT !.told = TRUE]
    <3>1. log' = [log EXCEPT ![f] = l] BY <1>4, <2>2, <2>4 DEF HandleUpstream
    <3>2. /\ l.read = log[f].read /\ l.sent = log[f].sent /\ l.told = TRUE
          /\ l.written = log[f].written
      BY <1>1 DEF LogState
    <3> HIDE DEF l
    <3>3. \A g \in Flow : log'[g] = IF g = f THEN l ELSE log[g] BY <2>1, <3>1
    <3>4. \A g \in Flow : log[g].told \in BOOLEAN BY <1>1 DEF LogState
    <3> HIDE DEF u
    <3> QED BY <2>2, <2>4, <3>2, <3>3, <3>4
  <2>5. CASE ~ u.closed
    <3> DEFINE l == [log[f] EXCEPT !.sent = n]
    <3>1. log' = [log EXCEPT ![f] = l]
      BY <1>4, <2>2, <2>3, <2>5 DEF HandleUpstream
    <3>2. /\ l.read = log[f].read /\ l.sent = n /\ l.told = log[f].told
          /\ l.written = log[f].written
      BY <1>1 DEF LogState
    <3> HIDE DEF l
    <3>3. \A g \in Flow : log'[g] = IF g = f THEN l ELSE log[g] BY <2>1, <3>1
    <3>4. \A g \in Flow : log[g].told \in BOOLEAN BY <1>1 DEF LogState
    <3> HIDE DEF u
    <3> QED BY <2>2, <2>3, <2>5, <3>2, <3>3, <3>4
  <2> QED BY <2>4, <2>5
<1>7. \A g \in Flow : ReadsPosted(g)' = ReadsPosted(g)
  BY <1>5, <1>6 DEF ReadsPosted
<1>8. \A i \in 1 .. Len(out) - 1 : i + 1 \in 1 .. Len(out) /\ 1 < i + 1 /\ i \in Nat
  BY <1>1
<1> QED BY <1>1, <1>2, <1>3, <1>4, <1>5, <1>6, <1>7, <1>8

\* The first item is taken from the channel (HandleUpstream).
LEMMA ChannelShrinks ==
  ASSUME TypeOK, ClientOrder, HandleUpstream
  PROVE  ClientOrder'
<1> DEFINE u == out[1]
<1>1. \A g \in Flow :
         /\ log[g].sent \in Nat /\ ReadsPosted(g) \in Int
         /\ \A i \in Waiting(g) : i \in Nat /\ i >= 1 /\ i <= Len(out)
  BY ChannelNumbers
<1>2. Len(out) \in Nat /\ DOMAIN out = 1 .. Len(out) BY ItemTaken
<1>3. /\ DOMAIN out' = 1 .. Len(out) - 1
      /\ \A i \in 1 .. Len(out) - 1 : out'[i] = out[i + 1]
  BY ItemTaken
<1>4. u = Head(out) /\ u.flow \in Flow /\ 1 \in DOMAIN out BY ItemTaken
<1>6. \A g \in Flow :
         log'[g].sent = IF g = u.flow /\ ~ u.closed THEN u.n ELSE log[g].sent
  BY ItemTaken
<1>7. \A g \in Flow : ReadsPosted(g)' = ReadsPosted(g) BY ItemTaken
<1>8. \A i \in 1 .. Len(out) - 1 : i + 1 \in 1 .. Len(out) /\ i + 1 # 1
                                   /\ i \in Nat
  BY <1>2
<1>9. \A i \in 1 .. Len(out) : i # 1 => i - 1 \in 1 .. Len(out) - 1
                                        /\ (i - 1) + 1 = i
  BY <1>2
<1>10. ASSUME NEW g \in Flow
       PROVE  Ordered(out', Waiting(g)', log'[g].sent, ReadsPosted(g)')
  <2> DEFINE W == Waiting(g) \ {1}
  <2>1. Ordered(out, Waiting(g), log[g].sent, ReadsPosted(g))
    BY DEF ClientOrder
  <2>2. 1 \in Waiting(g) <=> g = u.flow /\ ~ u.closed
    BY <1>4 DEF Waiting
  <2>3. Ordered(out, W, log'[g].sent, ReadsPosted(g))
    <3>1. CASE g = u.flow /\ ~ u.closed
      <4>1. 1 \in Waiting(g) BY <2>2, <3>1
      <4>2. Ordered(out, Waiting(g) \ {1}, out[1].n, ReadsPosted(g))
        BY <1>1, <2>1, <4>1, OrderedHead
      <4>3. log'[g].sent = out[1].n BY <1>6, <3>1
      <4> QED BY <4>2, <4>3
    <3>2. CASE ~ (g = u.flow /\ ~ u.closed)
      <4>1. W = Waiting(g) BY <2>2, <3>2
      <4>2. log'[g].sent = log[g].sent BY <1>6, <3>2
      <4> QED BY <2>1, <4>1, <4>2
    <3> QED BY <3>1, <3>2
  <2>4. \A i \in Waiting(g)' : i \in Nat /\ i + 1 \in W /\ out'[i] = out[i + 1]
    BY <1>1, <1>2, <1>3, <1>8 DEF Waiting
  <2>5. \A i \in W : i \in Nat /\ i - 1 \in Waiting(g)'
    <3> SUFFICES ASSUME NEW i \in W PROVE i \in Nat /\ i - 1 \in Waiting(g)'
      OBVIOUS
    <3>1. i \in 1 .. Len(out) /\ i # 1 BY <1>1, <1>2
    <3>2. i - 1 \in 1 .. Len(out) - 1 /\ out'[i - 1] = out[i]
      BY <1>3, <1>9, <3>1
    <3> QED BY <1>1, <1>2, <1>3, <3>2 DEF Waiting
  <2>6. PICK V : V = Waiting(g)' OBVIOUS
  <2> HIDE DEF W
  <2>7. Ordered(out', V, log'[g].sent, ReadsPosted(g))
    BY <2>3, <2>4, <2>5, <2>6, OrderedTail
  <2> QED BY <1>7, <2>6, <2>7
<1> QED BY <1>10 DEF ClientOrder

\* What a log says of the reads, and of what the upstream has got.
SameReads(l, m) == m.sent = l.sent /\ m.read = l.read /\ m.told = l.told

SamePipes(l, m) == SameReads(l, m) /\ m.written = l.written

\* A flow whose upstream is gone, and reported to be.
PastEnd(r) == r.main \in {"closing", "over"}

SameMain(r, q) ==
  /\ q.main = "posting" <=> r.main = "posting"
  /\ PastEnd(r) => PastEnd(q)

\* No read happens, is posted or is sent.
SameClient(f) == SameReads(log[f], log'[f]) /\ SameMain(flow[f], flow'[f])

LEMMA ChannelAside ==
  ASSUME ClientOrder, UNCHANGED out, \A f \in Flow : SameClient(f)
  PROVE  ClientOrder'
<1>1. \A f \in Flow : ReadsPosted(f)' = ReadsPosted(f)
  BY DEF SameClient, SameReads, SameMain, ReadsPosted
<1> QED BY <1>1, ChannelKept DEF SameClient, SameReads

\* The session goroutine, unless it takes an item from the channel.
LEMMA ServeAside ==
  ASSUME IInv, SessionNext
  PROVE  \/ HandleUpstream
         \/ out' = out /\ \A g \in Flow : /\ SameMain(flow[g], flow'[g])
                                          /\ SamePipes(log[g], log'[g])
<1> DEFINE Goal == out' = out /\ \A g \in Flow : /\ SameMain(flow[g], flow'[g])
                                                 /\ SamePipes(log[g], log'[g])
<1>0. /\ TypeOK /\ flow \in [Flow -> FlowState] /\ log \in [Flow -> LogState]
      /\ \A g \in Flow : flow[g] \in FlowState /\ log[g] \in LogState
  BY DEF IInv, TypeOK
<1>1. /\ \A g \in Flow : SameMain(flow[g], flow[g]) /\ SamePipes(log[g], log[g])
      /\ \A r, q : q.main = r.main => SameMain(r, q)
  BY DEF SameMain, SamePipes, SameReads, PastEnd
<1>2. ASSUME NEW S, flow' = Closed(flow, S)
      PROVE  \A g \in Flow : SameMain(flow[g], flow'[g])
  <2>1. \A g \in Flow : flow'[g].main = flow[g].main
    BY <1>0, <1>2 DEF Closed, FlowState
  <2> QED BY <1>1, <2>1
<1>3. ASSUME NEW f \in Flow, NEW q, flow' = [flow EXCEPT ![f] = q],
             q.main = flow[f].main
      PROVE  \A g \in Flow : SameMain(flow[g], flow'[g])
  <2>1. \A g \in Flow : flow'[g].main = flow[g].main BY <1>0, <1>3
  <2> QED BY <1>1, <2>1
<1>3a. ASSUME NEW f \in Flow, NEW l, log' = [log EXCEPT ![f] = l],
              SamePipes(log[f], l)
       PROVE  \A g \in Flow : SamePipes(log[g], log'[g])
  BY <1>0, <1>1, <1>3a
<1>3b. ASSUME NEW g \in Flow, NEW k
       PROVE  /\ SamePipes(log[g], [log[g] EXCEPT !.given = @ \cup {k}])
              /\ SamePipes(log[g], [log[g] EXCEPT !.lost = @ \cup {k}])
              /\ SamePipes(log[g], [log[g] EXCEPT !.byClient = TRUE])
  BY <1>0 DEF LogState, SamePipes, SameReads
<1>4. ASSUME NEW t, opened < MaxFlows
      PROVE  /\ opened + 1 \in Flow /\ flow[opened + 1].main = "none"
             /\ Opened(t)[opened + 1].main = "dialing"
             /\ \A g \in Flow : g # opened + 1 => Opened(t)[g] = flow[g]
             /\ Opened(t) = [g \in Flow |-> Opened(t)[g]]
             /\ [Opened(t)[opened + 1] EXCEPT !.writes = Append(@, chunks)].main
                  = "dialing"
  <2> DEFINE n == opened + 1
             q == [flow[n] EXCEPT !.tuple = t, !.main = "dialing"]
  <2>1. n \in Flow /\ n > opened
    BY <1>0, <1>4, TcpFlowAssumption DEF TypeOK, Flow
  <2>2. flow[n].main = "none" BY <2>1 DEF IInv, Allocated
  <2>3. Opened(t) = [flow EXCEPT ![n] = q] BY <1>0, <2>1 DEF Opened
  <2>4. /\ q.main = "dialing"
        /\ [q EXCEPT !.writes = Append(@, chunks)].main = "dialing"
    BY <1>0, <2>1 DEF FlowState
  <2> HIDE DEF q
  <2> QED BY <1>0, <2>1, <2>2, <2>3, <2>4
<1>5. ASSUME NEW t \in Tuple, Connect(t) PROVE Goal
  <2>1. log' = log /\ out' = out BY <1>5 DEF Connect, Serve
  <2>2. CASE flow' = flow BY <1>1, <2>1, <2>2
  <2>3. CASE opened < MaxFlows /\ flow' = Opened(t)
    <3>1. \A g \in Flow : SameMain(flow[g], flow'[g])
      BY <1>1, <1>4, <2>3 DEF SameMain, PastEnd
    <3> QED BY <1>1, <2>1, <3>1
  <2> QED BY <1>5, <2>2, <2>3 DEF Connect
<1>6. ASSUME NEW t \in Tuple, Payload(t) PROVE Goal
  <2>1. PICK f \in Flow : f = flows[t]
    BY <1>0, <1>6 DEF Payload, TypeOK
  <2>2. out' = out BY <1>6 DEF Payload, Serve
  <2>3. \A g \in Flow : SameMain(flow[g], flow'[g])
    <3>1. \/ flow' = flow
          \/ flow' = [flow EXCEPT ![f] =
                        [flow[f] EXCEPT !.writes = Append(@, chunks)]]
      BY <1>6, <2>1 DEF Payload, Push
    <3>2. [flow[f] EXCEPT !.writes = Append(@, chunks)].main = flow[f].main
      BY <1>0 DEF FlowState
    <3> QED BY <1>1, <1>3, <3>1, <3>2
  <2>4. \A g \in Flow : SamePipes(log[g], log'[g])
    <3>1. \/ log' = log
          \/ log' = [log EXCEPT ![f] =
                       [log[f] EXCEPT !.given = @ \cup {chunks}]]
      BY <1>6, <2>1 DEF Payload, Push
    <3> QED BY <1>1, <1>3a, <1>3b, <3>1
  <2> QED BY <2>2, <2>3, <2>4
<1>7. ASSUME NEW t \in Tuple, PayloadOpens(t) PROVE Goal
  <2>1. out' = out BY <1>7 DEF PayloadOpens, Serve
  <2>2. CASE UNCHANGED <<flow, log>> BY <1>1, <2>1, <2>2
  <2>3. CASE opened < MaxFlows /\ Push(Opened(t), opened + 1, chunks)
    <3>1. PICK f \in Flow, fl \in {Opened(t)} : f = opened + 1 /\ fl = Opened(t)
      BY <1>4, <2>3
    <3>2. /\ flow' = [fl EXCEPT ![f] = [fl[f] EXCEPT !.writes = Append(@, chunks)]]
          /\ log' = [log EXCEPT ![f] = [log[f] EXCEPT !.given = @ \cup {chunks}]]
      BY <2>3, <3>1 DEF Push
    <3>3. \A g \in Flow : SameMain(flow[g], flow'[g])
      BY <1>1, <1>4, <2>3, <3>1, <3>2 DEF SameMain, PastEnd
    <3>4. \A g \in Flow : SamePipes(log[g], log'[g])
      BY <1>3a, <1>3b, <3>2
    <3> QED BY <2>1, <3>3, <3>4
  <2> QED BY <1>7, <2>2, <2>3 DEF PayloadOpens
<1>8. ASSUME NEW t \in Tuple, Disconnect(t) PROVE Goal
  <2>1. PICK f \in Flow : f = flows[t]
    BY <1>0, <1>8 DEF Disconnect, TypeOK
  <2>2. /\ out' = out /\ flow' = Closed(flow, {f})
        /\ log' = [log EXCEPT ![f] = [log[f] EXCEPT !.byClient = TRUE]]
    BY <1>8, <2>1 DEF Disconnect
  <2>3. \A g \in Flow : SamePipes(log[g], log'[g])
    BY <1>3a, <1>3b, <2>2
  <2> QED BY <1>2, <2>2, <2>3
<1>9. ASSUME StallTimesOut \/ StallEnds PROVE Goal
  <2>1. PICK f \in Flow : f = stall.flow
    BY <1>0, <1>9 DEF StallTimesOut, StallEnds, TypeOK
  <2>2. out' = out BY <1>9 DEF StallTimesOut, StallEnds
  <2>3. \A g \in Flow : SameMain(flow[g], flow'[g])
    <3>1. \/ flow' = flow
          \/ flow' = [flow EXCEPT ![f] =
                        [flow[f] EXCEPT !.writes = Append(@, stall.chunk)]]
      BY <1>9, <2>1 DEF StallTimesOut, StallEnds
    <3>2. [flow[f] EXCEPT !.writes = Append(@, stall.chunk)].main = flow[f].main
      BY <1>0 DEF FlowState
    <3> QED BY <1>1, <1>3, <3>1, <3>2
  <2>4. \A g \in Flow : SamePipes(log[g], log'[g])
    <3>1. \/ log' = log
          \/ log' = [log EXCEPT ![f] =
                       [log[f] EXCEPT !.lost = @ \cup {stall.chunk}]]
      BY <1>9, <2>1 DEF StallTimesOut, StallEnds
    <3> QED BY <1>1, <1>3a, <1>3b, <3>1
  <2> QED BY <2>2, <2>3, <2>4
<1>10. ASSUME ResetForHandshake \/ Shutdown PROVE Goal
  <2>1. out' = out /\ log' = log /\ flow' = Closed(flow, LiveFlows)
    BY <1>10 DEF ResetForHandshake, Shutdown
  <2> QED BY <1>1, <1>2, <2>1
<1> QED BY <1>5, <1>6, <1>7, <1>8, <1>9, <1>10 DEF SessionNext

LEMMA ServeOrder ==
  ASSUME IInv, ClientOrder, SessionNext
  PROVE  ClientOrder'
<1>1. CASE HandleUpstream BY <1>1, ChannelShrinks DEF IInv
<1>2. CASE ~ HandleUpstream
  BY <1>2, ServeAside, ChannelAside DEF SameClient, SamePipes
<1> QED BY <1>1, <1>2

\* The goroutine that dials and reads: how the state of one flow moves.
LEMMA MainMoves ==
  ASSUME TypeOK, NEW f \in Flow, NEW v, flow' = [flow EXCEPT ![f].main = v]
  PROVE  flow'[f].main = v /\ \A g \in Flow \ {f} : flow'[g].main = flow[g].main
<1>0. flow \in [Flow -> FlowState] /\ flow[f] \in FlowState BY DEF TypeOK
<1>1. flow' = [flow EXCEPT ![f] = [flow[f] EXCEPT !.main = v]] OBVIOUS
<1>2. [flow[f] EXCEPT !.main = v].main = v BY <1>0 DEF FlowState
<1> QED BY <1>0, <1>1, <1>2

\* A step of it that neither reads nor posts.
LEMMA MainAside ==
  ASSUME TypeOK, NEW f \in Flow,
         DialReturns(f) \/ Adopt(f) \/ ReadEnds(f) \/ MainCloses(f)
  PROVE  /\ UNCHANGED <<session, out, srvDone, log>>
         /\ \A g \in Flow : SameMain(flow[g], flow'[g])
<1>0. flow \in [Flow -> FlowState] /\ flow[f] \in FlowState BY DEF TypeOK
<1>1. UNCHANGED <<session, out, srvDone, log>>
  BY DEF DialReturns, Adopt, ReadEnds, MainCloses
<1>2. \A g \in Flow \ {f} : flow'[g].main = flow[g].main
  BY <1>0, MainMoves DEF DialReturns, Adopt, ReadEnds, MainCloses, Moves, FlowState
<1>3. SameMain(flow[f], flow'[f])
  <2>1. CASE DialReturns(f) \/ ReadEnds(f)
    BY <2>1, MainMoves DEF DialReturns, ReadEnds, Moves, SameMain, PastEnd
  <2>2. CASE Adopt(f)
    <3>1. flow'[f].main \in {"reading", "over"} /\ flow[f].main = "dialed"
      BY <1>0, <2>2 DEF Adopt, FlowState
    <3> QED BY <3>1 DEF SameMain, PastEnd
  <2>3. CASE MainCloses(f)
    <3>1. flow' = [flow EXCEPT ![f] =
                     [flow[f] EXCEPT !.main = "over", !.done = TRUE]]
      BY <2>3 DEF MainCloses
    <3>2. flow[f].main = "closing" /\ flow'[f].main = "over"
      BY <1>0, <2>3, <3>1 DEF MainCloses, FlowState
    <3> QED BY <3>2 DEF SameMain, PastEnd
  <2> QED BY <2>1, <2>2, <2>3
<1> QED BY <1>1, <1>2, <1>3 DEF SameMain, PastEnd

\* A read, or one that is posted: all that changes for the client.
LEMMA MainReads ==
  ASSUME TypeOK, NEW f \in Flow, Read(f)
  PROVE  /\ UNCHANGED <<session, out, srvDone>>
         /\ log'[f].read = log[f].read + 1 /\ log'[f].sent = log[f].sent
         /\ log'[f].told = log[f].told /\ log'[f].written = log[f].written
         /\ log'[f].given = log[f].given /\ log'[f].lost = log[f].lost
         /\ \A g \in Flow \ {f} : log'[g] = log[g] /\ flow'[g].main = flow[g].main
         /\ flow[f].main = "reading" /\ flow'[f].main = "posting"
         /\ \A g \in Flow : ReadsPosted(g)' = ReadsPosted(g)
<1>0. /\ log \in [Flow -> LogState] /\ log[f] \in LogState
      /\ log[f].read \in Nat
  BY ChannelNumbers DEF TypeOK
<1>1. log' = [log EXCEPT ![f] = [log[f] EXCEPT !.read = @ + 1]]
  BY DEF Read
<1>2. /\ log'[f].read = log[f].read + 1 /\ log'[f].sent = log[f].sent
      /\ log'[f].told = log[f].told /\ log'[f].written = log[f].written
      /\ log'[f].given = log[f].given /\ log'[f].lost = log[f].lost
      /\ \A g \in Flow \ {f} : log'[g] = log[g]
  BY <1>0, <1>1 DEF LogState
<1>3. /\ flow[f].main = "reading" /\ flow'[f].main = "posting"
      /\ \A g \in Flow \ {f} : flow'[g].main = flow[g].main
  BY MainMoves DEF Read, Moves
<1>4. \A g \in Flow : ReadsPosted(g)' = ReadsPosted(g)
  BY <1>0, <1>2, <1>3 DEF ReadsPosted
<1> QED BY <1>2, <1>3, <1>4 DEF Read

LEMMA MainPosts ==
  ASSUME TypeOK, NEW f \in Flow, PostData(f)
  PROVE  /\ UNCHANGED <<session, srvDone, log>>
         /\ flow[f].main = "posting" /\ flow'[f].main = "reading"
         /\ \A g \in Flow \ {f} : flow'[g].main = flow[g].main
         /\ ReadsPosted(f)' = ReadsPosted(f) + 1
         /\ \A g \in Flow \ {f} : ReadsPosted(g)' = ReadsPosted(g)
         /\ \/ srvDone /\ UNCHANGED out
            \/ \E it \in Item : /\ it.flow = f /\ ~ it.closed
                                 /\ it.n = ReadsPosted(f) + 1
                                 /\ out' = Append(out, it)
<1> DEFINE it == [flow |-> f, closed |-> FALSE, n |-> log[f].read]
<1>0. log[f] \in LogState /\ log[f].read \in Nat /\ log[f].read \in 0 .. MaxReads
  BY ChannelNumbers DEF LogState
<1>1. it \in Item /\ it.flow = f /\ ~ it.closed /\ it.n = log[f].read
  BY <1>0 DEF Item
<1>2. /\ UNCHANGED <<session, srvDone, log>>
      /\ (srvDone /\ UNCHANGED out) \/ out' = Append(out, it)
  BY DEF PostData, Posts
<1>3. /\ flow[f].main = "posting" /\ flow'[f].main = "reading"
      /\ \A g \in Flow \ {f} : flow'[g].main = flow[g].main
  BY MainMoves DEF PostData, Moves
<1> HIDE DEF it
<1>4. /\ ReadsPosted(f) = log[f].read - 1 /\ ReadsPosted(f)' = log[f].read
      /\ \A g \in Flow \ {f} : ReadsPosted(g)' = ReadsPosted(g)
  BY <1>0, <1>2, <1>3 DEF ReadsPosted
<1>5. ReadsPosted(f)' = ReadsPosted(f) + 1 /\ it.n = ReadsPosted(f) + 1
  BY <1>0, <1>1, <1>4
<1> QED BY <1>1, <1>2, <1>3, <1>4, <1>5

LEMMA MainReports ==
  ASSUME TypeOK, NEW f \in Flow, PostEnd(f)
  PROVE  /\ UNCHANGED <<session, srvDone, log>>
         /\ flow[f].main = "ended" /\ flow'[f].main = "closing"
         /\ \A g \in Flow \ {f} : flow'[g].main = flow[g].main
         /\ \A g \in Flow : ReadsPosted(g)' = ReadsPosted(g)
         /\ \/ srvDone /\ UNCHANGED out
            \/ \E it \in Item : /\ it.flow = f /\ it.closed
                                 /\ out' = Append(out, it)
<1> DEFINE it == [flow |-> f, closed |-> TRUE, n |-> 0]
<1>1. it \in Item /\ it.flow = f /\ it.closed
  BY TcpFlowAssumption DEF Item
<1>2. /\ UNCHANGED <<session, srvDone, log>>
      /\ (srvDone /\ UNCHANGED out) \/ out' = Append(out, it)
  BY DEF PostEnd, Posts
<1>3. /\ flow[f].main = "ended" /\ flow'[f].main = "closing"
      /\ \A g \in Flow \ {f} : flow'[g].main = flow[g].main
  BY MainMoves DEF PostEnd, Moves
<1> HIDE DEF it
<1>4. \A g \in Flow : ReadsPosted(g)' = ReadsPosted(g)
  BY <1>2, <1>3 DEF ReadsPosted
<1> QED BY <1>1, <1>2, <1>3, <1>4

LEMMA MainOrder ==
  ASSUME TypeOK, ClientOrder, ~ srvDone, NEW f \in Flow, MainNext(f)
  PROVE  ClientOrder'
<1>1. CASE DialReturns(f) \/ Adopt(f) \/ ReadEnds(f) \/ MainCloses(f)
  <2>1. /\ UNCHANGED <<out, log>>
        /\ \A g \in Flow : SameMain(flow[g], flow'[g])
    BY <1>1, MainAside
  <2> QED BY <2>1, ChannelAside DEF SameClient, SameReads
<1>2. CASE Read(f) BY <1>2, MainReads, ChannelKept
<1>3. CASE PostData(f)
  <2>1. PICK it \in Item : /\ it.flow = f /\ ~ it.closed
                           /\ it.n = ReadsPosted(f) + 1
                           /\ out' = Append(out, it)
    BY <1>3, MainPosts
  <2>2. /\ log' = log
        /\ \A g \in Flow : ReadsPosted(g)' =
             IF g = f /\ ~ it.closed THEN ReadsPosted(g) + 1 ELSE ReadsPosted(g)
    BY <1>3, <2>1, MainPosts
  <2> QED BY <2>1, <2>2, ChannelGrows
<1>4. CASE PostEnd(f)
  <2>1. PICK it \in Item : /\ it.flow = f /\ it.closed
                           /\ out' = Append(out, it)
    BY <1>4, MainReports
  <2>2. /\ log' = log
        /\ \A g \in Flow : ReadsPosted(g)' =
             IF g = f /\ ~ it.closed THEN ReadsPosted(g) + 1 ELSE ReadsPosted(g)
    BY <1>4, <2>1, MainReports
  <2> QED BY <2>1, <2>2, ChannelGrows
<1> QED BY <1>1, <1>2, <1>3, <1>4 DEF MainNext

\* The write pump and the closing of a socket: no read is touched.
LEMMA PumpAside ==
  ASSUME TypeOK, NEW f \in Flow, PumpNext(f) \/ CloseSocket(f)
  PROVE  /\ UNCHANGED <<session, out, srvDone>>
         /\ \A g \in Flow : SameClient(g)
         /\ Write(f) \/ log' = log
<1>0. /\ flow \in [Flow -> FlowState] /\ log \in [Flow -> LogState]
      /\ \A g \in Flow : flow[g] \in FlowState /\ log[g] \in LogState
  BY DEF TypeOK
<1>1. UNCHANGED <<session, out, srvDone>>
  BY DEF PumpNext, PumpTakes, PumpSeesDone, PumpEnds, Write, WriteFails,
         CloseSocket
<1>2. ASSUME NEW r, flow' = [flow EXCEPT ![f] = r], r.main = flow[f].main
      PROVE  \A g \in Flow : flow'[g].main = flow[g].main
  BY <1>0, <1>2
<1>3. \A g \in Flow : flow'[g].main = flow[g].main
  <2> USE <1>0 DEF FlowState
  <2>1. CASE PumpTakes(f)
    <3>1. flow' = [flow EXCEPT ![f] =
                     [flow[f] EXCEPT !.hand = <<Head(flow[f].writes)>>,
                                     !.writes = Tail(@)]]
      BY <2>1 DEF PumpTakes
    <3> QED BY <1>2, <3>1
  <2>2. CASE PumpSeesDone(f)
    <3>1. flow' = [flow EXCEPT ![f] = [flow[f] EXCEPT !.pump = "flushing"]]
      BY <2>2 DEF PumpSeesDone
    <3> QED BY <1>2, <3>1
  <2>3. CASE PumpEnds(f)
    <3>1. flow' = [flow EXCEPT ![f] = [flow[f] EXCEPT !.pump = "over"]]
      BY <2>3 DEF PumpEnds
    <3> QED BY <1>2, <3>1
  <2>4. CASE Write(f)
    <3>1. flow' = [flow EXCEPT ![f] = [flow[f] EXCEPT !.hand = <<>>]]
      BY <2>4 DEF Write
    <3> QED BY <1>2, <3>1
  <2>5. CASE WriteFails(f)
    <3>1. flow' = [flow EXCEPT ![f] =
                     [flow[f] EXCEPT !.hand = <<>>, !.pump = "over"]]
      BY <2>5 DEF WriteFails
    <3> QED BY <1>2, <3>1
  <2>6. CASE CloseSocket(f)
    <3>1. flow' = [flow EXCEPT ![f] = [flow[f] EXCEPT !.conn = "closed"]]
      BY <2>6 DEF CloseSocket
    <3> QED BY <1>2, <3>1
  <2> QED BY <2>1, <2>2, <2>3, <2>4, <2>5, <2>6 DEF PumpNext
<1>4. log' = log \/ Write(f)
  BY DEF PumpNext, PumpTakes, PumpSeesDone, PumpEnds, WriteFails, CloseSocket
<1>5. \A g \in Flow : SameReads(log[g], log'[g])
  <2>1. CASE log' = log BY <2>1 DEF SameReads
  <2>2. CASE Write(f)
    <3> DEFINE w == Append(log[f].written, Head(flow[f].hand))
    <3>1. log' = [log EXCEPT ![f] = [log[f] EXCEPT !.written = w]]
      BY <2>2 DEF Write
    <3> HIDE DEF w
    <3>2. SameReads(log[f], [log[f] EXCEPT !.written = w])
      BY <1>0 DEF LogState, SameReads
    <3> QED BY <1>0, <3>1, <3>2 DEF SameReads
  <2> QED BY <1>4, <2>1, <2>2
<1> QED BY <1>1, <1>3, <1>4, <1>5 DEF SameClient, SameMain, PastEnd

LEMMA PumpOrder ==
  ASSUME TypeOK, ClientOrder, NEW f \in Flow, PumpNext(f) \/ CloseSocket(f)
  PROVE  ClientOrder'
BY PumpAside, ChannelAside

\* Every step keeps the channel in order.
LEMMA StepOrder == IInv /\ DownInOrder /\ [Next]_vars => DownInOrder'
<1> SUFFICES ASSUME IInv, DownInOrder, [Next]_vars, ~ srvDone'
             PROVE  ClientOrder'
  BY DEF DownInOrder, ClientOrder, Ordered
<1>0. TypeOK BY DEF IInv
<1>1. CASE ServerStops BY <1>1, <1>0 DEF ServerStops
<1>2. CASE UNCHANGED vars
  <2>1. UNCHANGED <<out, srvDone, flow, log>> BY <1>2 DEF vars
  <2>2. ClientOrder BY <2>1 DEF DownInOrder, ClientOrder, Ordered
  <2> QED
    BY <2>1, <2>2, ChannelAside DEF SameClient, SameReads, SameMain, PastEnd
<1>3. ASSUME ~ srvDone PROVE ClientOrder
  BY <1>3 DEF DownInOrder, ClientOrder, Ordered
<1>4. CASE SessionNext
  <2>1. srvDone' = srvDone
    BY <1>4 DEF SessionNext, Connect, Payload, PayloadOpens, Serve, Disconnect,
                StallTimesOut, StallEnds, HandleUpstream, ResetForHandshake,
                Shutdown
  <2> QED BY <1>3, <1>4, <2>1, ServeOrder
<1>5. ASSUME NEW f \in Flow, MainNext(f) PROVE ClientOrder'
  <2>1. srvDone' = srvDone
    BY <1>5 DEF MainNext, DialReturns, Adopt, Read, PostData, ReadEnds, PostEnd,
                MainCloses
  <2> QED BY <1>0, <1>3, <1>5, <2>1, MainOrder
<1>6. ASSUME NEW f \in Flow, PumpNext(f) \/ CloseSocket(f) PROVE ClientOrder'
  <2>1. srvDone' = srvDone
    BY <1>6 DEF PumpNext, PumpTakes, PumpSeesDone, PumpEnds, Write, WriteFails,
                CloseSocket
  <2> QED BY <1>0, <1>3, <1>6, <2>1, PumpOrder
<1> QED BY <1>1, <1>2, <1>4, <1>5, <1>6 DEF Next

\* It holds at first.
LEMMA InitOrder == Init => DownInOrder
<1> SUFFICES ASSUME Init, NEW f \in Flow
             PROVE  /\ log[f].sent <= ReadsPosted(f)
                    /\ {out[i].n : i \in Waiting(f)}
                         = log[f].sent + 1 .. ReadsPosted(f)
                    /\ \A i, j \in Waiting(f) : i < j => out[i].n < out[j].n
  BY DEF DownInOrder
<1>1. /\ log[f].sent = 0 /\ log[f].read = 0 /\ flow[f].main = "none"
      /\ out = <<>>
  BY DEF Init
<1>2. Waiting(f) = {} BY <1>1 DEF Waiting
<1>3. ReadsPosted(f) = 0 BY <1>1 DEF ReadsPosted
<1>4. 0 + 1 .. 0 = {} OBVIOUS
<1> QED BY <1>1, <1>2, <1>3, <1>4

-----------------------------------------------------------------------------
(* The pipes                                                               *)

\* The end of a flow is the last of its items, and its reads come in order.
InTurn ==
  \A i, j \in DOMAIN out :
     i < j /\ out[i].flow = out[j].flow =>
        ~ out[i].closed /\ (out[j].closed \/ out[i].n < out[j].n)

\* The channel holds reads that were posted and not sent yet, and ends of
\* flows that are past their end, which the client has not heard of.
NotSentYet ==
  \A i \in DOMAIN out :
     LET f == out[i].flow
     IN  /\ ~ log[f].told
         /\ out[i].closed => PastEnd(flow[f])
         /\ ~ out[i].closed => log[f].sent < out[i].n /\ out[i].n <= ReadsPosted(f)

SentWasPosted == \A f \in Flow : log[f].sent <= ReadsPosted(f)

\* A flow the client was told the end of is past it and gets no more chunks.
ToldIsOut ==
  \A f \in Flow :
     log[f].told => f <= opened /\ PastEnd(flow[f]) /\ ~ Receiver(f)

Fifo == InTurn /\ NotSentYet /\ SentWasPosted /\ ToldIsOut

\* Nobody becomes a receiver but a flow that is opened now.
LEMMA Receivers ==
  ASSUME TypeOK, SessionNext, NEW f \in Flow, ~ Receiver(f)
  PROVE  opened' \in Nat /\ opened <= opened' /\ ~ Receiver(f)'
<1>0. /\ opened \in Nat /\ f \in Nat /\ f # None /\ f <= opened
      /\ f # stall.flow /\ \A t \in Tuple : f # flows[t]
      /\ flows \in [Tuple -> Flow \cup {None}]
  BY DEF Receiver, TypeOK, Flow, None
<1>1. /\ opened' \in {opened, opened + 1}
      /\ stall'.flow \in {stall.flow, None} \/ \E t \in Tuple : stall'.flow = flows[t]
      /\ \A t \in Tuple : flows'[t] \in {flows[t], None, opened + 1}
  <2>1. NoStall.flow = None BY DEF NoStall
  <2>2. ASSUME NEW t \in Tuple, NEW v
        PROVE  \A x \in Tuple : [flows EXCEPT ![t] = v][x] \in {flows[x], v}
    BY <1>0
  <2>3. ASSUME NEW t \in Tuple,
               Connect(t) \/ Payload(t) \/ PayloadOpens(t) \/ Disconnect(t)
        PROVE  <1>1
    <3>1. CASE Connect(t)
      <4>1. stall' = stall BY <3>1 DEF Connect
      <4>2. \/ opened' = opened /\ flows' = flows
            \/ opened' = opened + 1 /\ flows' = [flows EXCEPT ![t] = opened + 1]
        BY <3>1 DEF Connect
      <4>3. \A x \in Tuple : flows'[x] \in {flows[x], None, opened + 1}
        <5>1. CASE flows' = flows BY <5>1
        <5>2. CASE flows' = [flows EXCEPT ![t] = opened + 1]
          <6>1. PICK n : n = opened + 1 OBVIOUS
          <6>2. \A x \in Tuple : flows'[x] \in {flows[x], n} BY <2>2, <5>2, <6>1
          <6> QED BY <6>1, <6>2
        <5> QED BY <4>2, <5>1, <5>2
      <4> QED BY <4>1, <4>2, <4>3
    <3>2. CASE Payload(t)
      <4>1. opened' = opened /\ flows' = flows BY <3>2 DEF Payload
      <4>2. stall'.flow \in {stall.flow, flows[t]} BY <3>2 DEF Payload
      <4> QED BY <4>1, <4>2
    <3>3. CASE PayloadOpens(t)
      <4>1. stall' = stall BY <3>3 DEF PayloadOpens
      <4>2. \/ opened' = opened /\ flows' = flows
            \/ opened' = opened + 1 /\ flows' = [flows EXCEPT ![t] = opened + 1]
        BY <3>3 DEF PayloadOpens
      <4>3. \A x \in Tuple : flows'[x] \in {flows[x], None, opened + 1}
        <5>1. CASE flows' = flows BY <5>1
        <5>2. CASE flows' = [flows EXCEPT ![t] = opened + 1]
          <6>1. PICK n : n = opened + 1 OBVIOUS
          <6>2. \A x \in Tuple : flows'[x] \in {flows[x], n} BY <2>2, <5>2, <6>1
          <6> QED BY <6>1, <6>2
        <5> QED BY <4>2, <5>1, <5>2
      <4> QED BY <4>1, <4>2, <4>3
    <3>4. CASE Disconnect(t)
      <4>1. /\ stall' = stall /\ opened' = opened
            /\ flows' = [flows EXCEPT ![t] = None]
        BY <3>4 DEF Disconnect
      <4>2. \A x \in Tuple : flows'[x] \in {flows[x], None}
        BY <2>2, <4>1
      <4> QED BY <4>1, <4>2
    <3> QED BY <2>3, <3>1, <3>2, <3>3, <3>4
  <2>4. CASE StallTimesOut \/ StallEnds
    BY <2>1, <2>4 DEF StallTimesOut, StallEnds
  <2>5. CASE HandleUpstream
    <3>1. \A t : \A x \in Tuple : [flows EXCEPT ![t] = None][x] \in {flows[x], None}
      BY <1>0
    <3> QED BY <2>5, <3>1 DEF HandleUpstream
  <2>6. CASE ResetForHandshake \/ Shutdown
    BY <2>6 DEF ResetForHandshake, Shutdown
  <2> QED BY <2>3, <2>4, <2>5, <2>6 DEF SessionNext
<1> QED BY <1>0, <1>1 DEF Receiver

\* The channel is as it was, and nothing is sent.
LEMMA FifoAside ==
  ASSUME TypeOK, Fifo, UNCHANGED out,
         \A f \in Flow : /\ log'[f].sent = log[f].sent
                         /\ log'[f].told = log[f].told
                         /\ ReadsPosted(f)' \in {ReadsPosted(f), ReadsPosted(f) + 1}
                         /\ PastEnd(flow[f]) => PastEnd(flow'[f]),
         UNCHANGED session \/ SessionNext
  PROVE  Fifo'
<1>0. /\ \A i \in DOMAIN out : out[i].flow \in Flow /\ out[i] \in Item
      /\ \A f \in Flow : ReadsPosted(f) \in Int /\ log[f].sent \in Nat
      /\ \A i \in DOMAIN out : out[i].n \in Int
  BY ChannelNumbers, TcpFlowAssumption DEF Item
<1>1. InTurn' BY DEF Fifo, InTurn
<1>2. NotSentYet' BY <1>0 DEF Fifo, NotSentYet
<1>3. SentWasPosted' BY <1>0 DEF Fifo, SentWasPosted
<1>4. ToldIsOut'
  <2> SUFFICES ASSUME NEW f \in Flow, log[f].told
               PROVE  f <= opened' /\ PastEnd(flow'[f]) /\ ~ Receiver(f)'
    BY DEF ToldIsOut
  <2>1. f <= opened /\ PastEnd(flow[f]) /\ ~ Receiver(f)
    BY DEF Fifo, ToldIsOut
  <2>2. CASE UNCHANGED session BY <2>1, <2>2 DEF session, Receiver
  <2>3. CASE SessionNext
    <3>1. opened' \in Nat /\ opened <= opened' /\ ~ Receiver(f)'
      BY <2>1, <2>3, Receivers
    <3>2. f <= opened' BY <2>1, <3>1 DEF TypeOK, Flow
    <3> QED BY <2>1, <3>1, <3>2
  <2> QED BY <2>2, <2>3
<1> QED BY <1>1, <1>2, <1>3, <1>4 DEF Fifo

\* A read is posted, or the end (PostData, PostEnd).
LEMMA FifoGrows ==
  ASSUME TypeOK, Fifo, NEW f \in Flow, NEW it \in Item, it.flow = f,
         out' = Append(out, it), UNCHANGED <<session, log>>,
         ~ PastEnd(flow[f]), it.closed => PastEnd(flow'[f]),
         ~ it.closed => it.n = ReadsPosted(f) + 1 /\ ReadsPosted(f)' = it.n,
         it.closed => ReadsPosted(f)' = ReadsPosted(f),
         \A g \in Flow \ {f} : /\ ReadsPosted(g)' = ReadsPosted(g)
                               /\ flow'[g].main = flow[g].main
  PROVE  Fifo'
<1> DEFINE m == Len(out) + 1
<1>0. /\ Len(out) \in Nat /\ DOMAIN out = 1 .. Len(out) /\ out \in Seq(Item)
      /\ \A i \in DOMAIN out : out[i].flow \in Flow /\ out[i] \in Item
      /\ \A g \in Flow : ReadsPosted(g) \in Int /\ log[g].sent \in Nat
      /\ \A i \in DOMAIN out : out[i].n \in Int
  BY ChannelNumbers, TcpFlowAssumption DEF Item
<1>1. /\ DOMAIN out' = 1 .. m /\ out'[m] = it
      /\ \A i \in 1 .. Len(out) : out'[i] = out[i]
  <2>1. /\ out' \in Seq(Item) /\ Len(out') = m /\ out'[m] = it
        /\ \A i \in 1 .. Len(out) : out'[i] = out[i]
    BY <1>0, AppendProperties
  <2> QED BY <2>1, LenProperties
<1>2. /\ m \in Nat /\ m \in 1 .. m /\ \A i \in 1 .. m : i = m \/ i \in 1 .. Len(out)
      /\ \A i \in 1 .. Len(out) : i < m /\ ~ m < i
      /\ ~ m < m
  BY <1>0
<1> HIDE DEF m
<1>3. ~ log[f].told BY DEF Fifo, ToldIsOut
<1>4. ReadsPosted(f) <= ReadsPosted(f)' BY <1>0
<1>5. \A i \in 1 .. Len(out) :
         out[i].flow = f => ~ out[i].closed /\ out[i].n <= ReadsPosted(f)
  BY <1>0 DEF Fifo, NotSentYet
<1>6. InTurn'
  <2> SUFFICES ASSUME NEW i \in 1 .. m, NEW j \in 1 .. m, i < j,
                      out'[i].flow = out'[j].flow
               PROVE  ~ out'[i].closed /\ (out'[j].closed \/ out'[i].n < out'[j].n)
    BY <1>1 DEF InTurn
  <2>1. i \in 1 .. Len(out) /\ out'[i] = out[i] BY <1>1, <1>2
  <2>2. CASE j \in 1 .. Len(out) BY <1>0, <1>1, <2>1, <2>2 DEF Fifo, InTurn
  <2>3. CASE j = m
    <3>1. ~ out[i].closed /\ out[i].n <= ReadsPosted(f) /\ out[i].n \in Int
      BY <1>0, <1>1, <1>5, <2>1, <2>3
    <3>2. it.closed \/ out[i].n < it.n BY <1>0, <3>1
    <3> QED BY <1>1, <2>1, <2>3, <3>1, <3>2
  <2> QED BY <1>2, <2>2, <2>3
<1>7. NotSentYet'
  <2> SUFFICES ASSUME NEW i \in 1 .. m, NEW g, g = out'[i].flow
               PROVE  /\ ~ log[g].told
                      /\ out'[i].closed => PastEnd(flow'[g])
                      /\ ~ out'[i].closed =>
                           log[g].sent < out'[i].n /\ out'[i].n <= ReadsPosted(g)'
    BY <1>1 DEF NotSentYet
  <2>1. CASE i = m
    <3>1. log[f].sent <= ReadsPosted(f) BY DEF Fifo, SentWasPosted
    <3>2. ~ it.closed => log[f].sent < it.n /\ it.n <= ReadsPosted(f)'
      BY <1>0, <3>1
    <3> QED BY <1>1, <1>3, <2>1, <3>2
  <2>2. CASE i \in 1 .. Len(out)
    <3>1. /\ g \in Flow /\ out'[i] = out[i] /\ ~ log[g].told
          /\ out[i].closed => PastEnd(flow[g])
          /\ ~ out[i].closed => log[g].sent < out[i].n /\ out[i].n <= ReadsPosted(g)
      BY <1>0, <1>1, <2>2 DEF Fifo, NotSentYet
    <3>2. CASE g = f BY <1>0, <1>4, <1>5, <2>2, <3>1, <3>2
    <3>3. CASE g # f BY <3>1, <3>3 DEF PastEnd
    <3> QED BY <3>2, <3>3
  <2> QED BY <1>2, <2>1, <2>2
<1>8. SentWasPosted'
  <2> SUFFICES ASSUME NEW g \in Flow PROVE log[g].sent <= ReadsPosted(g)'
    BY DEF SentWasPosted
  <2>1. log[g].sent <= ReadsPosted(g) BY DEF Fifo, SentWasPosted
  <2> QED BY <1>0, <1>4, <2>1
<1>9. ToldIsOut'
  <2> SUFFICES ASSUME NEW g \in Flow, log[g].told
               PROVE  g <= opened /\ PastEnd(flow'[g]) /\ ~ Receiver(g)
    BY DEF ToldIsOut, session, Receiver
  <2>1. g <= opened /\ PastEnd(flow[g]) /\ ~ Receiver(g) BY DEF Fifo, ToldIsOut
  <2> QED BY <1>3, <2>1 DEF PastEnd
<1> QED BY <1>6, <1>7, <1>8, <1>9 DEF Fifo

\* The first item is taken from the channel (HandleUpstream).
LEMMA FifoShrinks ==
  ASSUME IInv, Fifo, HandleUpstream
  PROVE  Fifo'
<1> DEFINE u == out[1]
<1>0. TypeOK BY DEF IInv
<1>1. /\ Len(out) \in Nat /\ DOMAIN out = 1 .. Len(out) /\ 1 \in DOMAIN out
      /\ u = Head(out) /\ u.flow \in Flow
      /\ DOMAIN out' = 1 .. Len(out) - 1
      /\ \A i \in 1 .. Len(out) - 1 :
            out'[i] = out[i + 1] /\ i + 1 \in 1 .. Len(out) /\ 1 < i + 1 /\ i \in Nat
      /\ stall = NoStall /\ stall' = stall /\ opened' = opened
      /\ \A g \in Flow :
           /\ flow'[g].main = flow[g].main /\ ReadsPosted(g)' = ReadsPosted(g)
           /\ log'[g].sent = (IF g = u.flow /\ ~ u.closed THEN u.n ELSE log[g].sent)
           /\ log'[g].told = (log[g].told \/ (g = u.flow /\ u.closed))
  BY <1>0, ItemTaken
<1>2. \A i \in 1 .. Len(out) :
         /\ ~ log[out[i].flow].told /\ out[i].flow \in Flow
         /\ out[i].closed => PastEnd(flow[out[i].flow])
         /\ ~ out[i].closed => /\ log[out[i].flow].sent < out[i].n
                               /\ out[i].n <= ReadsPosted(out[i].flow)
         /\ i > 1 /\ out[i].flow = u.flow =>
              ~ u.closed /\ (out[i].closed \/ u.n < out[i].n)
  <2>1. \A i \in DOMAIN out : out[i].flow \in Flow BY <1>0, ChannelNumbers
  <2> QED BY <1>1, <2>1 DEF Fifo, NotSentYet, InTurn
<1>3. InTurn'
  <2> SUFFICES ASSUME NEW i \in 1 .. Len(out) - 1, NEW j \in 1 .. Len(out) - 1,
                      i < j, out'[i].flow = out'[j].flow
               PROVE  ~ out'[i].closed /\ (out'[j].closed \/ out'[i].n < out'[j].n)
    BY <1>1 DEF InTurn
  <2>1. i + 1 < j + 1 BY <1>1
  <2> QED BY <1>1, <2>1 DEF Fifo, InTurn
<1>4. NotSentYet'
  <2> SUFFICES ASSUME NEW i \in 1 .. Len(out) - 1, NEW g, g = out'[i].flow
               PROVE  /\ ~ log'[g].told
                      /\ out'[i].closed => PastEnd(flow'[g])
                      /\ ~ out'[i].closed =>
                           log'[g].sent < out'[i].n /\ out'[i].n <= ReadsPosted(g)'
    BY <1>1 DEF NotSentYet
  <2>1. PICK j \in 1 .. Len(out) : j = i + 1 /\ j > 1 /\ out'[i] = out[j]
    BY <1>1
  <2>2. PICK it : it = out[j] OBVIOUS
  <2>3. /\ ~ log[g].told /\ g \in Flow /\ g = it.flow /\ out'[i] = it
        /\ it.closed => PastEnd(flow[g])
        /\ ~ it.closed => log[g].sent < it.n /\ it.n <= ReadsPosted(g)
        /\ g = u.flow => ~ u.closed /\ (it.closed \/ u.n < it.n)
    BY <1>2, <2>1, <2>2
  <2>4. /\ flow'[g].main = flow[g].main /\ ReadsPosted(g)' = ReadsPosted(g)
        /\ log'[g].sent = (IF g = u.flow /\ ~ u.closed THEN u.n ELSE log[g].sent)
        /\ log'[g].told = (log[g].told \/ (g = u.flow /\ u.closed))
    BY <1>1, <2>3
  <2> HIDE DEF u
  <2>5. ~ log'[g].told BY <2>3, <2>4
  <2>6. PastEnd(flow[g]) => PastEnd(flow'[g]) BY <2>4 DEF PastEnd
  <2>7. ~ it.closed => log'[g].sent < it.n BY <2>3, <2>4
  <2> QED BY <2>3, <2>4, <2>5, <2>6, <2>7
<1>5. SentWasPosted'
  BY <1>1, <1>2 DEF Fifo, SentWasPosted
<1>6. ToldIsOut'
  <2> SUFFICES ASSUME NEW g \in Flow, log'[g].told
               PROVE  g <= opened' /\ PastEnd(flow'[g]) /\ ~ Receiver(g)'
    BY DEF ToldIsOut
  <2>1. CASE log[g].told
    <3>1. g <= opened /\ PastEnd(flow[g]) /\ ~ Receiver(g)
      BY <2>1 DEF Fifo, ToldIsOut
    <3>2. ~ Receiver(g)'
      <4>1. SessionNext BY DEF SessionNext
      <4> QED BY <1>0, <3>1, <4>1, Receivers
    <3> QED BY <1>1, <3>1, <3>2 DEF PastEnd
  <2>2. CASE g = u.flow /\ u.closed
    <3>1. g <= opened /\ PastEnd(flow[g]) BY <1>1, <1>2, <2>2 DEF IInv, Posted
    <3>2. flows' = [flows EXCEPT ![TupleOf(g)] = None]
      BY <1>1, <2>2 DEF HandleUpstream, TupleOf
    <3>3. g # None /\ NoStall.flow = None /\ opened \in Nat
      BY <1>0 DEF Flow, None, NoStall, TypeOK
    <3>4. ASSUME NEW t \in Tuple PROVE flows'[t] # g
      <4>1. flows \in [Tuple -> Flow \cup {None}] BY <1>0 DEF TypeOK
      <4>2. CASE t = TupleOf(g) BY <3>2, <3>3, <4>1, <4>2
      <4>3. CASE t # TupleOf(g)
        <5>1. flows'[t] = flows[t] BY <3>2, <4>1, <4>3
        <5>2. flows[t] = g => TupleOf(g) = t
          BY <3>3 DEF IInv, MapExact, Live
        <5> QED BY <4>3, <5>1, <5>2
      <4> QED BY <4>2, <4>3
    <3>5. ~ Receiver(g)' BY <1>1, <3>1, <3>3, <3>4 DEF Receiver, Flow
    <3> QED BY <1>1, <3>1, <3>5 DEF PastEnd
  <2> QED BY <1>1, <2>1, <2>2
<1> QED BY <1>3, <1>4, <1>5, <1>6 DEF Fifo

\* It holds at first.
LEMMA InitFifo == Init => Fifo
<1> SUFFICES ASSUME Init PROVE Fifo OBVIOUS
<1>1. out = <<>> /\ DOMAIN out = {} BY DEF Init
<1>2. \A f \in Flow : /\ log[f].sent = 0 /\ ReadsPosted(f) = 0 /\ ~ log[f].told
  BY DEF Init, ReadsPosted
<1> QED BY <1>1, <1>2 DEF Fifo, InTurn, NotSentYet, SentWasPosted, ToldIsOut

\* Every step keeps it.
LEMMA StepFifo == IInv /\ Fifo /\ [Next]_vars => Fifo'
<1> SUFFICES ASSUME IInv, Fifo, [Next]_vars PROVE Fifo' OBVIOUS
<1>0. TypeOK /\ \A f \in Flow : ReadsPosted(f) \in Int
  BY ChannelNumbers DEF IInv
<1>1. ASSUME out' = out, \A f \in Flow : SameClient(f), UNCHANGED session \/ SessionNext
      PROVE  Fifo'
  <2>1. \A f \in Flow : ReadsPosted(f)' = ReadsPosted(f)
    BY <1>1 DEF SameClient, SameReads, SameMain, ReadsPosted
  <2> QED
    BY <1>0, <1>1, <2>1, FifoAside DEF SameClient, SameReads, SameMain
<1>2. CASE SessionNext
  <2>1. CASE HandleUpstream BY <2>1, FifoShrinks
  <2>2. CASE ~ HandleUpstream
    BY <1>1, <1>2, <2>2, ServeAside DEF SameClient, SamePipes
  <2> QED BY <2>1, <2>2
<1>3. CASE ServerStops \/ UNCHANGED vars
  <2>1. UNCHANGED <<session, out, flow, log>> BY <1>3 DEF ServerStops, vars
  <2> QED BY <1>1, <2>1 DEF SameClient, SameReads, SameMain, PastEnd
<1>4. ASSUME NEW f \in Flow, PumpNext(f) \/ CloseSocket(f) PROVE Fifo'
  BY <1>0, <1>1, <1>4, PumpAside
<1>5. ASSUME NEW f \in Flow, MainNext(f) PROVE Fifo'
  <2>1. CASE DialReturns(f) \/ Adopt(f) \/ ReadEnds(f) \/ MainCloses(f)
    BY <1>0, <1>1, <2>1, MainAside DEF SameClient, SameReads
  <2>2. CASE Read(f)
    <3>1. \A g \in Flow : /\ log'[g].sent = log[g].sent
                          /\ log'[g].told = log[g].told
                          /\ ReadsPosted(g)' = ReadsPosted(g)
                          /\ PastEnd(flow[g]) => PastEnd(flow'[g])
      BY <1>0, <2>2, MainReads DEF PastEnd
    <3> QED BY <1>0, <2>2, <3>1, MainReads, FifoAside
  <2>3. CASE PostData(f)
    <3>1. CASE UNCHANGED out
      <4>1. \A g \in Flow : /\ log'[g].sent = log[g].sent
                            /\ log'[g].told = log[g].told
                            /\ ReadsPosted(g)' \in {ReadsPosted(g), ReadsPosted(g) + 1}
                            /\ PastEnd(flow[g]) => PastEnd(flow'[g])
        BY <1>0, <2>3, MainPosts DEF PastEnd
      <4> QED BY <1>0, <2>3, <3>1, <4>1, MainPosts, FifoAside
    <3>2. CASE ~ UNCHANGED out
      <4>1. PICK it \in Item : /\ it.flow = f /\ ~ it.closed
                               /\ it.n = ReadsPosted(f) + 1
                               /\ out' = Append(out, it)
        BY <1>0, <2>3, <3>2, MainPosts
      <4>2. /\ UNCHANGED <<session, log>> /\ ~ PastEnd(flow[f])
            /\ ReadsPosted(f)' = it.n
            /\ \A g \in Flow \ {f} : /\ ReadsPosted(g)' = ReadsPosted(g)
                                     /\ flow'[g].main = flow[g].main
        BY <1>0, <2>3, <4>1, MainPosts DEF PastEnd
      <4> QED BY <1>0, <4>1, <4>2, FifoGrows
    <3> QED BY <3>1, <3>2
  <2>4. CASE PostEnd(f)
    <3>1. CASE UNCHANGED out
      <4>1. \A g \in Flow : /\ log'[g].sent = log[g].sent
                            /\ log'[g].told = log[g].told
                            /\ ReadsPosted(g)' = ReadsPosted(g)
                            /\ PastEnd(flow[g]) => PastEnd(flow'[g])
        BY <1>0, <2>4, MainReports DEF PastEnd
      <4> QED BY <1>0, <2>4, <3>1, <4>1, MainReports, FifoAside
    <3>2. CASE ~ UNCHANGED out
      <4>1. PICK it \in Item : /\ it.flow = f /\ it.closed
                               /\ out' = Append(out, it)
        BY <1>0, <2>4, <3>2, MainReports
      <4>2. /\ UNCHANGED <<session, log>> /\ ~ PastEnd(flow[f]) /\ PastEnd(flow'[f])
            /\ ReadsPosted(f)' = ReadsPosted(f)
            /\ \A g \in Flow \ {f} : /\ ReadsPosted(g)' = ReadsPosted(g)
                                     /\ flow'[g].main = flow[g].main
        BY <1>0, <2>4, MainReports DEF PastEnd
      <4> QED BY <1>0, <4>1, <4>2, FifoGrows
    <3> QED BY <3>1, <3>2
  <2> QED BY <1>5, <2>1, <2>2, <2>3, <2>4 DEF MainNext
<1> QED BY <1>2, <1>3, <1>4, <1>5 DEF Next

\* Nothing moves in the pipes.
LEMMA PipesRest ==
  ASSUME AcceptsNone, UNCHANGED srvDone,
         \A g \in Flow : SamePipes(log[g], log'[g])
  PROVE  UNCHANGED Pipes!vars
BY DEF Pipes!vars, AcceptsNone, SamePipes, SameReads

\* The steps of a pipe, as the log of one flow shows them.
LEMMA PipeAccepts ==
  ASSUME NEW f \in Flow, NEW k \in 0 .. MaxChunks, Accepts(f, k), ~ log[f].told,
         UNCHANGED srvDone, \A g \in Flow : SamePipes(log[g], log'[g])
  PROVE  Pipes!Accept(f, k)
<1>1. Accepted(f)' = Accepted(f) \cup {k} /\ \A j \in Accepted(f) : j < k
  BY DEF Accepts
<1>2. \A g \in Flow \ {f} : Accepted(g)' = Accepted(g)
  BY DEF Accepts
<1>3. [g \in Flow |-> Accepted(g)]'
        = [[g \in Flow |-> Accepted(g)] EXCEPT ![f] = @ \cup {k}]
  BY <1>1, <1>2
<1> QED BY <1>1, <1>3 DEF Pipes!Accept, SamePipes, SameReads

LEMMA PipeWrites ==
  ASSUME NEW f \in Flow, NEW k \in Accepted(f),
         \A i \in DOMAIN log[f].written : log[f].written[i] < k,
         \A j \in Accepted(f) :
            j < k => \E i \in DOMAIN log[f].written : log[f].written[i] = j,
         AcceptsNone, UNCHANGED srvDone, \A g \in Flow : SameReads(log[g], log'[g]),
         log'[f].written = Append(log[f].written, k),
         \A g \in Flow \ {f} : log'[g].written = log[g].written
  PROVE  Pipes!Write(f, k)
<1>1. [g \in Flow |-> log[g].written]'
        = [[g \in Flow |-> log[g].written] EXCEPT ![f] = Append(@, k)]
  OBVIOUS
<1>2. [g \in Flow |-> Accepted(g)]' = [g \in Flow |-> Accepted(g)]
  BY DEF AcceptsNone
<1> QED BY <1>1, <1>2 DEF Pipes!Write, SameReads

LEMMA PipeReads ==
  ASSUME NEW f \in Flow, ~ log[f].told, AcceptsNone, UNCHANGED srvDone,
         log'[f].read = log[f].read + 1,
         \A g \in Flow \ {f} : log'[g].read = log[g].read,
         \A g \in Flow : /\ log'[g].sent = log[g].sent /\ log'[g].told = log[g].told
                         /\ log'[g].written = log[g].written
  PROVE  Pipes!Read(f)
<1>1. [g \in Flow |-> log[g].read]'
        = [[g \in Flow |-> log[g].read] EXCEPT ![f] = @ + 1]
  OBVIOUS
<1>2. [g \in Flow |-> Accepted(g)]' = [g \in Flow |-> Accepted(g)]
  BY DEF AcceptsNone
<1> QED BY <1>1, <1>2 DEF Pipes!Read

LEMMA PipeSends ==
  ASSUME NEW f \in Flow, ~ log[f].told, AcceptsNone, UNCHANGED srvDone,
         NEW n \in log[f].sent + 1 .. log[f].read, n = log[f].sent + 1 \/ srvDone,
         log'[f].sent = n, \A g \in Flow \ {f} : log'[g].sent = log[g].sent,
         \A g \in Flow : /\ log'[g].read = log[g].read /\ log'[g].told = log[g].told
                         /\ log'[g].written = log[g].written
  PROVE  Pipes!Send(f, n)
<1>1. [g \in Flow |-> log[g].sent]'
        = [[g \in Flow |-> log[g].sent] EXCEPT ![f] = n]
  OBVIOUS
<1>2. [g \in Flow |-> Accepted(g)]' = [g \in Flow |-> Accepted(g)]
  BY DEF AcceptsNone
<1> QED BY <1>1, <1>2 DEF Pipes!Send

LEMMA PipeTells ==
  ASSUME NEW f \in Flow, ~ log[f].told, AcceptsNone, UNCHANGED srvDone,
         log[f].sent = log[f].read \/ srvDone,
         log'[f].told = TRUE, \A g \in Flow \ {f} : log'[g].told = log[g].told,
         \A g \in Flow : /\ log'[g].read = log[g].read /\ log'[g].sent = log[g].sent
                         /\ log'[g].written = log[g].written
  PROVE  Pipes!Tell(f)
<1>1. [g \in Flow |-> log[g].told]'
        = [[g \in Flow |-> log[g].told] EXCEPT ![f] = TRUE]
  OBVIOUS
<1>2. [g \in Flow |-> Accepted(g)]' = [g \in Flow |-> Accepted(g)]
  BY DEF AcceptsNone
<1> QED BY <1>1, <1>2 DEF Pipes!Tell

\* The session goroutine gives a flow a chunk, or leaves the pipes alone.
LEMMA ServePipes ==
  ASSUME IInv, Streams, Fifo, SessionNext, ~ HandleUpstream
  PROVE  Pipes!Next \/ UNCHANGED Pipes!vars
<1>1. /\ AcceptStep /\ \A g \in Flow : SamePipes(log[g], log'[g])
      /\ UNCHANGED srvDone
  <2>1. UNCHANGED srvDone
    BY DEF SessionNext, Connect, Payload, PayloadOpens, Serve, Disconnect,
           StallTimesOut, StallEnds, ResetForHandshake, Shutdown
  <2> QED BY <2>1, ServeStreams, ServeAside
<1>2. CASE AcceptsNone BY <1>1, <1>2, PipesRest
<1>3. CASE ~ AcceptsNone
  <2>1. PICK f \in Flow, k \in 0 .. MaxChunks : Receiver(f) /\ Accepts(f, k)
    BY <1>1, <1>3 DEF AcceptStep
  <2>2. log[f].told \in BOOLEAN BY DEF IInv, TypeOK, LogState
  <2>3. ~ log[f].told BY <2>1 DEF Fifo, ToldIsOut
  <2>4. Pipes!Accept(f, k) BY <1>1, <2>1, <2>3, PipeAccepts
  <2> QED BY <2>4 DEF Pipes!Next
<1> QED BY <1>2, <1>3

\* It sends the client a read, or tells it of an end.
LEMMA TakePipes ==
  ASSUME IInv, Streams, DownInOrder, Fifo, HandleUpstream
  PROVE  Pipes!Next
<1>0. TypeOK BY DEF IInv
<1>1. PICK u : u = out[1] OBVIOUS
<1>2. PICK f \in Flow : f = u.flow BY <1>0, <1>1, ItemTaken
<1>3. /\ 1 \in DOMAIN out /\ DOMAIN out = 1 .. Len(out) /\ Len(out) \in Nat
      /\ \A g \in Flow :
           /\ log'[g].read = log[g].read /\ log'[g].written = log[g].written
           /\ log'[g].sent = (IF g = f /\ ~ u.closed THEN u.n ELSE log[g].sent)
           /\ log'[g].told = (log[g].told \/ (g = f /\ u.closed))
  BY <1>0, <1>1, <1>2, ItemTaken
<1>4. AcceptsNone /\ UNCHANGED srvDone
  <2>1. stall' = stall /\ srvDone' = srvDone BY DEF HandleUpstream
  <2>2. \A g \in Flow : log'[g].given = log[g].given /\ log'[g].lost = log[g].lost
    <3>1. log \in [Flow -> LogState] BY <1>0 DEF TypeOK
    <3>2. u = Head(out) BY <1>0, <1>1, ItemTaken
    <3>3. \/ log' = [log EXCEPT ![f] = [log[f] EXCEPT !.told = TRUE]]
          \/ log' = [log EXCEPT ![f] = [log[f] EXCEPT !.sent = u.n]]
      BY <1>2, <3>2 DEF HandleUpstream
    <3>4. PICK l : /\ log' = [log EXCEPT ![f] = l]
                   /\ l.given = log[f].given /\ l.lost = log[f].lost
      BY <3>1, <3>3 DEF LogState
    <3> QED BY <3>1, <3>4
  <2> QED BY <2>1, <2>2 DEF AcceptsNone, Accepted
<1>5. /\ log[f].sent \in Nat /\ log[f].read \in Nat /\ ReadsPosted(f) \in Int
      /\ log[f].told \in BOOLEAN /\ u \in Item /\ u.n \in Int /\ u.closed \in BOOLEAN
      /\ \A g \in Flow : log[g].told \in BOOLEAN
  <2>1. u \in Item BY <1>0, <1>1, <1>3, ChannelNumbers
  <2>2. u.n \in 0 .. MaxReads /\ u.closed \in BOOLEAN BY <2>1 DEF Item
  <2>3. \A g \in Flow : log[g].told \in BOOLEAN BY <1>0 DEF TypeOK, LogState
  <2> QED BY <1>0, <2>1, <2>2, <2>3, ChannelNumbers
<1>6. /\ ~ log[f].told
      /\ ~ u.closed => log[f].sent < u.n /\ u.n <= ReadsPosted(f)
      /\ u.closed => PastEnd(flow[f])
  BY <1>1, <1>2, <1>3 DEF Fifo, NotSentYet
<1>7. ~ srvDone => Ordered(out, Waiting(f), log[f].sent, ReadsPosted(f))
  BY DEF DownInOrder, Ordered
<1>8. CASE ~ u.closed
  <2>1. u.n \in log[f].sent + 1 .. log[f].read
    <3>1. ReadsPosted(f) <= log[f].read BY <1>5 DEF ReadsPosted
    <3> QED BY <1>5, <1>6, <1>8, <3>1
  <2>2. u.n = log[f].sent + 1 \/ srvDone
    <3>1. 1 \in Waiting(f) BY <1>1, <1>2, <1>3, <1>8 DEF Waiting
    <3>2. \A i \in Waiting(f) : i \in Nat /\ i >= 1 BY <1>0, ChannelNumbers
    <3> QED BY <1>1, <1>5, <1>7, <3>1, <3>2, OrderedHead
  <2>3. Pipes!Send(f, u.n)
    <3>1. /\ log'[f].sent = u.n /\ \A g \in Flow \ {f} : log'[g].sent = log[g].sent
          /\ \A g \in Flow : log'[g].told = log[g].told
      BY <1>3, <1>5, <1>8
    <3> QED BY <1>3, <1>4, <1>6, <2>1, <2>2, <3>1, PipeSends
  <2> QED BY <2>1, <2>3 DEF Pipes!Next
<1>9. CASE u.closed
  <2>1. log[f].sent = log[f].read \/ srvDone
    <3> SUFFICES ASSUME ~ srvDone PROVE log[f].sent = log[f].read
      OBVIOUS
    <3>1. Waiting(f) = {}
      <4> SUFFICES ASSUME NEW i \in DOMAIN out, out[i].flow = f PROVE out[i].closed
        BY DEF Waiting
      <4>1. CASE i = 1 BY <1>1, <1>9, <4>1
      <4>2. CASE 1 < i
        BY <1>1, <1>2, <1>3, <1>9, <4>2 DEF Fifo, InTurn
      <4> QED BY <1>3, <4>1, <4>2
    <3>2. log[f].sent + 1 .. ReadsPosted(f) = {} /\ log[f].sent <= ReadsPosted(f)
      BY <1>7, <3>1 DEF Ordered
    <3>3. log[f].sent = ReadsPosted(f)
      <4>1. log[f].sent < ReadsPosted(f)
              => log[f].sent + 1 \in log[f].sent + 1 .. ReadsPosted(f)
        BY <1>5
      <4> QED BY <1>5, <3>2, <4>1
    <3>4. flow[f].main # "posting" BY <1>6, <1>9 DEF PastEnd
    <3> QED BY <1>5, <3>3, <3>4 DEF ReadsPosted
  <2>2. Pipes!Tell(f)
    <3>1. /\ log'[f].told = TRUE /\ \A g \in Flow \ {f} : log'[g].told = log[g].told
          /\ \A g \in Flow : log'[g].sent = log[g].sent
      BY <1>3, <1>5, <1>9
    <3> QED BY <1>3, <1>4, <1>6, <2>1, <3>1, PipeTells
  <2> QED BY <2>2 DEF Pipes!Next
<1> QED BY <1>8, <1>9

\* The goroutine that reads has read, or does nothing to the pipes.
LEMMA MainPipes ==
  ASSUME IInv, Fifo, NEW f \in Flow, MainNext(f)
  PROVE  Pipes!Next \/ UNCHANGED Pipes!vars
<1>0. TypeOK BY DEF IInv
<1>1. CASE UNCHANGED <<session, srvDone, log>>
  <2>1. AcceptsNone BY <1>1 DEF AcceptsNone, Accepted, session
  <2> QED BY <1>1, <2>1, PipesRest DEF SamePipes, SameReads
<1>2. CASE Read(f)
  <2>1. AcceptsNone
    <3>1. \A g \in Flow : log'[g].given = log[g].given /\ log'[g].lost = log[g].lost
      BY <1>0, <1>2, MainReads
    <3>2. stall' = stall BY <1>0, <1>2, MainReads DEF session
    <3> QED BY <3>1, <3>2 DEF AcceptsNone, Accepted
  <2>2. ~ log[f].told
    <3>1. flow[f].main = "reading" BY <1>0, <1>2, MainReads
    <3> QED BY <3>1 DEF Fifo, ToldIsOut, PastEnd
  <2>3. Pipes!Read(f) BY <1>0, <1>2, <2>1, <2>2, MainReads, PipeReads
  <2> QED BY <2>3 DEF Pipes!Next
<1>3. CASE ~ Read(f)
  <2>1. UNCHANGED <<session, srvDone, log>>
    BY <1>0, <1>3, MainAside, MainPosts, MainReports DEF MainNext
  <2> QED BY <1>1, <2>1
<1> QED BY <1>2, <1>3

\* The write pump writes what comes next, or does nothing to the pipes.
LEMMA PumpPipes ==
  ASSUME IInv, Streams, NEW f \in Flow, PumpNext(f) \/ CloseSocket(f)
  PROVE  Pipes!Next \/ UNCHANGED Pipes!vars
<1>0. TypeOK BY DEF IInv
<1>1. /\ UNCHANGED <<session, srvDone>> /\ \A g \in Flow : SameReads(log[g], log'[g])
      /\ Write(f) \/ log' = log
  BY <1>0, PumpAside DEF SameClient
<1>2. CASE log' = log
  <2>1. AcceptsNone BY <1>1, <1>2 DEF AcceptsNone, Accepted, session
  <2> QED BY <1>1, <1>2, <2>1, PipesRest DEF SamePipes, SameReads
<1>3. CASE Write(f)
  <2>1. /\ log[f].written \in Seq(0 .. MaxChunks)
        /\ flow[f].writes \in Seq(0 .. MaxChunks)
        /\ flow[f].hand \in Seq(0 .. MaxChunks)
        /\ log \in [Flow -> LogState] /\ log[f] \in LogState
    BY <1>0, Parts DEF TypeOK
  <2>2. Len(flow[f].hand) = 1 /\ flow[f].pump # "over"
    BY <1>3 DEF Write, Streams, PumpWorks
  <2>3. PICK k \in 0 .. MaxChunks : k = Head(flow[f].hand) /\ flow[f].hand = <<k>>
    BY <2>1, <2>2, Single
  <2>4. PICK w \in Seq(0 .. MaxChunks) : w = log[f].written
    BY <2>1
  <2>5. /\ log'[f].written = Append(w, k)
        /\ log'[f].given = log[f].given /\ log'[f].lost = log[f].lost
        /\ \A g \in Flow \ {f} : log'[g] = log[g]
    <3>1. log' = [log EXCEPT ![f] = [log[f] EXCEPT !.written = Append(w, k)]]
      BY <1>3, <2>3, <2>4 DEF Write
    <3> QED BY <2>1, <3>1 DEF LogState
  <2>6. AcceptsNone
    <3>1. stall' = stall BY <1>1 DEF session
    <3>2. \A g \in Flow : log'[g].given = log[g].given /\ log'[g].lost = log[g].lost
      BY <2>5
    <3> QED BY <3>1, <3>2 DEF AcceptsNone, Accepted
  <2>7. PICK S \in Seq(0 .. MaxChunks) :
           /\ S = w \o <<k>> \o flow[f].writes
           /\ Len(w) \in Nat /\ Len(w) + 1 \in DOMAIN S /\ S[Len(w) + 1] = k
           /\ DOMAIN w = 1 .. Len(w)
           /\ \A i \in DOMAIN S : i \in Nat /\ i >= 1 /\ S[i] \in 0 .. MaxChunks
           /\ \A i \in DOMAIN w : i \in DOMAIN S /\ i < Len(w) + 1 /\ S[i] = w[i]
    <3>1. PICK q : q = flow[f].writes OBVIOUS
    <3>2. PICK T : T = 0 .. MaxChunks OBVIOUS
    <3>3. w \in Seq(T) /\ q \in Seq(T) /\ k \in T
      BY <2>1, <3>1, <3>2
    <3>4. \E s \in Seq(T) :
            /\ s = w \o <<k>> \o q
            /\ Len(w) \in Nat /\ Len(w) + 1 \in DOMAIN s /\ s[Len(w) + 1] = k
            /\ DOMAIN w = 1 .. Len(w)
            /\ \A i \in DOMAIN s : i \in Nat /\ i >= 1 /\ s[i] \in T
            /\ \A i \in DOMAIN w : i \in DOMAIN s /\ i < Len(w) + 1 /\ s[i] = w[i]
      BY <3>3, StreamPlaces
    <3> QED BY <3>1, <3>2, <3>4
  <2>8. /\ Elements(S) = Accepted(f)
        /\ \A i, j \in DOMAIN S : i < j => S[i] < S[j]
        /\ \A i \in DOMAIN S : S[i] \in Int
    <3>1. S = Stream(f) BY <2>3, <2>4, <2>7 DEF Stream
    <3>2. \A i \in DOMAIN S : S[i] \in Int
      <4>1. 0 .. MaxChunks \subseteq Int OBVIOUS
      <4>2. \A i \in DOMAIN S : S[i] \in 0 .. MaxChunks BY <2>7
      <4> QED BY <4>1, <4>2
    <3> QED BY <2>2, <3>1, <3>2 DEF Streams, StreamIsWritten
  <2>9. k \in Accepted(f) BY <2>7, <2>8 DEF Elements
  <2>10. \A i \in DOMAIN w : w[i] < k BY <2>7, <2>8
  <2>11. ASSUME NEW j \in Accepted(f), j < k PROVE \E i \in DOMAIN w : w[i] = j
    <3>1. PICK i \in DOMAIN S : S[i] = j BY <2>8 DEF Elements
    <3>2. ~ (Len(w) + 1 < i) /\ i # Len(w) + 1
      <4>1. PICK m \in DOMAIN S : m = Len(w) + 1 /\ S[m] = k BY <2>7
      <4>2. S[i] < S[m] BY <2>11, <3>1, <4>1
      <4>3. S[i] \in Int /\ S[m] \in Int BY <2>8
      <4>4. ~ (S[m] < S[i]) /\ S[m] # S[i] BY <4>2, <4>3
      <4>5. ~ (m < i) /\ i # m BY <2>8, <4>4
      <4> QED BY <4>1, <4>5
    <3>3. i \in DOMAIN w BY <2>7, <3>2
    <3> QED BY <2>7, <3>1, <3>3
  <2>12. Pipes!Write(f, k)
    <3>1. \A i \in DOMAIN log[f].written : log[f].written[i] < k
      BY <2>4, <2>10
    <3>2. \A j \in Accepted(f) :
             j < k => \E i \in DOMAIN log[f].written : log[f].written[i] = j
      BY <2>4, <2>11
    <3>3. /\ log'[f].written = Append(log[f].written, k)
          /\ \A g \in Flow \ {f} : log'[g].written = log[g].written
      BY <2>4, <2>5
    <3> QED BY <1>1, <2>6, <2>9, <3>1, <3>2, <3>3, PipeWrites
  <2> QED BY <2>12 DEF Pipes!Next
<1> QED BY <1>1, <1>2, <1>3

\* Every step is a step of the pipes, or none.
LEMMA StepPipes ==
  IInv /\ Streams /\ DownInOrder /\ Fifo /\ [Next]_vars
    => [Pipes!Next]_(Pipes!vars)
<1> SUFFICES ASSUME IInv, Streams, DownInOrder, Fifo, [Next]_vars
             PROVE  Pipes!Next \/ UNCHANGED Pipes!vars
  OBVIOUS
<1>1. CASE SessionNext BY <1>1, ServePipes, TakePipes
<1>2. CASE ServerStops
  <2>1. UNCHANGED <<session, log>> /\ srvDone' = TRUE BY <1>2 DEF ServerStops
  <2>2. Pipes!Stop
    BY <2>1 DEF Pipes!Stop, Accepted, session
  <2> QED BY <2>2 DEF Pipes!Next
<1>3. CASE UNCHANGED vars
  <2>1. UNCHANGED <<session, log, srvDone>> BY <1>3 DEF vars
  <2>2. AcceptsNone BY <2>1 DEF AcceptsNone, Accepted, session
  <2> QED BY <2>1, <2>2, PipesRest DEF SamePipes, SameReads
<1>4. ASSUME NEW f \in Flow, MainNext(f) \/ PumpNext(f) \/ CloseSocket(f)
      PROVE  Pipes!Next \/ UNCHANGED Pipes!vars
  BY <1>4, MainPipes, PumpPipes
<1> QED BY <1>1, <1>2, <1>3, <1>4 DEF Next

\* The pipes are empty at first.
LEMMA InitPipes == Init => Pipes!Init
<1> SUFFICES ASSUME Init PROVE Pipes!Init OBVIOUS
<1>1. \A f \in Flow : Accepted(f) = {} BY DEF Init, Accepted
<1> QED BY <1>1 DEF Init, Pipes!Init

-----------------------------------------------------------------------------
(* Theorems                                                                *)

\* The inductive invariant holds in every state: how the map, the flows, the
\* channel and the close in progress belong together (tcpflow.go).
THEOREM Safety == Spec => []IInv
  BY InitInv, StepInv, PTL DEF Spec

\* Every variable stays in its range, and no queue and no channel exceeds its
\* capacity (enqueue, postUpstream).
THEOREM TypeCorrect == Spec => []TypeOK
<1>1. IInv => TypeOK BY DEF IInv
<1> QED BY <1>1, Safety, PTL

\* A session never has more flows than its limit, whoever opens them (openFlow
\* is reached from CONNECT and from PAYLOAD).
THEOREM FlowsAreLimited == Spec => []FlowLimit
<1>1. IInv => FlowLimit BY DEF IInv
<1> QED BY <1>1, Safety, PTL

\* No socket is open behind the session's back: one that is not being closed
\* belongs to the flow its tuple has, also when a dial returns after the
\* DISCONNECT, the handshake or the shutdown (adopt).
THEOREM NoSocketIsOrphaned == Spec => []NoOrphanSocket
<1>1. IInv => NoOrphanSocket
  <2> SUFFICES ASSUME IInv, NEW f \in Flow, flow[f].conn = "open",
                      ~ flow[f].done
               PROVE  running /\ flows[TupleOf(f)] = f
    BY DEF NoOrphanSocket, TupleOf
  <2>1. flow[f].main # "none" BY DEF IInv, Undialed
  <2>2. f <= opened BY <2>1 DEF IInv, Allocated, TypeOK, Flow
  <2> QED BY <2>2 DEF IInv, Owned
<1> QED BY <1>1, Safety, PTL

\* A tuple has at most one open socket, also when it is used again while an
\* earlier dial is in flight (openFlow, adopt, close).
THEOREM TupleHasOneSocket == Spec => []OneSocketPerTuple
<1>1. IInv => OneSocketPerTuple
  <2> SUFFICES ASSUME IInv, NEW f \in Flow, NEW g \in Flow,
                      flow[f].conn = "open", flow[g].conn = "open",
                      TupleOf(f) = TupleOf(g)
               PROVE  f = g
    BY DEF OneSocketPerTuple, TupleOf
  <2>1. f # None /\ g # None BY DEF Flow, None
  <2>2. CASE flows[TupleOf(f)] = None
    <3>1. f \in waits /\ g \in waits BY <2>1, <2>2 DEF IInv, Leaving
    <3> QED BY <3>1 DEF IInv, Apart
  <2>3. CASE flows[TupleOf(f)] # None
    BY <2>3 DEF IInv, Leaving
  <2> QED BY <2>2, <2>3
<1> QED BY <1>1, Safety, PTL

\* A flow that died while it is in the map has its report in the channel, so
\* that the session removes it and tells the client (postUpstream,
\* handleUpstream).
THEOREM DeadFlowsAreReported == Spec => []DeadFlowIsReported
<1>1. IInv => DeadFlowIsReported
  BY DEF IInv, DeadFlowIsReported, Reports, Reported
<1> QED BY <1>1, Safety, PTL

\* What the session gives a flow reaches its upstream whole, once and in order,
\* but for the chunks enqueue gave up on (enqueue, writePump, close).
THEOREM UpstreamGetsTheStream == Spec => []StreamIsWritten
<1>1. IInv /\ Streams /\ [Next]_vars => (IInv /\ Streams)'
  BY StepInv, StepStreams
<1>2. Init => IInv /\ Streams BY InitInv, InitStreams
<1>3. Streams => StreamIsWritten BY DEF Streams
<1> QED BY <1>1, <1>2, <1>3, PTL DEF Spec

\* Until the server ends, what an upstream sent goes to the client once, in
\* order and without a gap, through a channel that may be full, and across
\* handshakes and reused tuples (postUpstream, handleUpstream).
THEOREM ClientGetsTheStream == Spec => []DownInOrder
<1>1. IInv /\ DownInOrder /\ [Next]_vars => (IInv /\ DownInOrder)'
  BY StepInv, StepOrder
<1>2. Init => IInv /\ DownInOrder BY InitInv, InitOrder
<1> QED BY <1>1, <1>2, PTL DEF Spec

\* Each flow is a pair of byte pipes: the upstream gets the accepted chunks in
\* order, the client every read in order and the end after the last, and no
\* chunk is accepted for a flow whose end was told; no order of connects,
\* closes, stalls, reports and handshakes shows (tcpflow.go, handleUpstream).
THEOREM FlowsAreBytePipes == Spec => ImplementsBytePipes
<1> DEFINE Inv == IInv /\ Streams /\ DownInOrder /\ Fifo
<1>1. Init => Inv BY InitInv, InitStreams, InitOrder, InitFifo
<1>2. Inv /\ [Next]_vars => Inv'
  BY StepInv, StepStreams, StepOrder, StepFifo
<1>3. Inv /\ [Next]_vars => [Pipes!Next]_(Pipes!vars) BY StepPipes
<1> HIDE DEF Inv
<1> QED
  BY <1>1, <1>2, <1>3, InitPipes, PTL DEF Spec, Pipes!Spec, ImplementsBytePipes
=============================================================================
