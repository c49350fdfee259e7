--------------------------- MODULE Registry_proofs ---------------------------
(***************************************************************************)
(* Theorems about Registry, for any devices, connections, peers,           *)
(* capacities, timeouts and bounds.                                        *)
(***************************************************************************)
EXTENDS Registry, SequenceTheorems, FiniteSetTheorems, TLAPS

\* A goroutine that blocks on a session's channel has a session to block on,
\* and the table is emptied as a whole.
Bound ==
  /\ \A c \in Conn :
       /\ conn[c].at \in {"attaching", "posting", "detaching"} =>
            conn[c].sess # None
       /\ conn[c].at = "none" => conn[c].sess = None
  /\ reader.at \in {"attaching", "posting"} => peers[reader.peer] # None
  /\ reader.at = "resetting" => reader.todo = InTable
  /\ reader.at = "binding" => InTable = {}
  /\ IsFiniteSet(InTable)

TypeInv == TypeOK /\ Bound

-----------------------------------------------------------------------------
(* The sessions made                                                       *)

\* The sessions are numbered in the order they were made.
LEMMA Numbers ==
  ASSUME TypeOK
  PROVE  /\ Len(session) \in Nat /\ Made = 1 .. Len(session)
         /\ \A s \in Made : session[s] \in SessionState
  BY LenProperties, ElementOfSeq DEF TypeOK, Made

\* A function on 1 .. n is a sequence.
LEMMA SeqOfFun ==
  ASSUME NEW S, NEW n \in Nat, NEW f \in [1 .. n -> S]
  PROVE  f \in Seq(S) /\ Len(f) = n
<1>1. f \in Seq(S) BY SeqDef
<1>2. Len(f) \in Nat /\ 1 .. Len(f) = 1 .. n BY <1>1, LenProperties
<1> QED BY <1>1, <1>2

\* What the sessions are after a step, as TypeOK has it.
SessionsOK ==
  /\ session \in Seq(SessionState) /\ Len(session) <= MaxSessions
  /\ \A s \in Made : Len(session[s].in) <= InCap

\* One session replaced.
Updated(s, q) == session' = [session EXCEPT ![s] = q]

LEMMA OneUpdated ==
  ASSUME TypeOK, NEW s \in Made, NEW q \in SessionState, Len(q.in) <= InCap,
         Updated(s, q)
  PROVE  /\ SessionsOK' /\ Made' = Made /\ session'[s] = q
         /\ \A r \in Made \ {s} : session'[r] = session[r]
<1>1. s \in 1 .. Len(session) /\ session \in Seq(SessionState)
  BY Numbers DEF TypeOK
<1>2. /\ session' \in Seq(SessionState) /\ Len(session') = Len(session)
      /\ \A j \in 1 .. Len(session) :
            session'[j] = IF j = s THEN q ELSE session[j]
  BY <1>1, ExceptSeq DEF Updated
<1>3. Made' = 1 .. Len(session) BY <1>2, LenProperties DEF Made
<1>4. Made = 1 .. Len(session) BY Numbers
<1> QED BY <1>1, <1>2, <1>3, <1>4 DEF SessionsOK, TypeOK

\* Every session replaced.
LEMMA AllUpdated ==
  ASSUME TypeOK, NEW F, F \in [Made -> SessionState],
         \A s \in Made : Len(F[s].in) <= InCap, session' = F
  PROVE  SessionsOK' /\ Made' = Made
<1>1. Len(session) \in Nat /\ Made = 1 .. Len(session) BY Numbers
<1>2. session' \in Seq(SessionState) /\ Len(session') = Len(session)
  BY <1>1, SeqOfFun
<1>3. Made' = Made BY <1>1, <1>2, LenProperties DEF Made
<1> QED BY <1>2, <1>3 DEF SessionsOK, TypeOK

-----------------------------------------------------------------------------
(* What the ways into a session's channel do to it                         *)

\* attachLeg and detachLeg queue the change, or the server has stopped.
Sent(r, q, m) ==
  /\ q \in SessionState /\ Len(q.in) <= InCap
  /\ q.life = r.life /\ q.idle = r.idle /\ q.legs = r.legs
  /\ q.in = Append(r.in, m) \/ (stopping /\ q = r)

LEMMA SendEffect ==
  ASSUME TypeOK, NEW s \in Made, NEW kind \in {"add", "drop"}, NEW l \in Leg,
         Send(s, kind, l)
  PROVE  \E q : Sent(session[s], q, [kind |-> kind, leg |-> l]) /\ Updated(s, q)
<1> DEFINE m == [kind |-> kind, leg |-> l]
           r == session[s]
<1>1. r \in SessionState /\ Len(r.in) <= InCap BY Numbers DEF TypeOK
<1>2. m \in Msg BY DEF Msg
<1>3. CASE HasRoom(s) /\ session' = [session EXCEPT ![s].in = Append(@, m)]
  <2> DEFINE q == [r EXCEPT !.in = Append(@, m)]
  <2>1. q \in SessionState /\ Len(q.in) <= InCap
    <3>1. Append(r.in, m) \in Seq(Msg) /\ Len(Append(r.in, m)) = Len(r.in) + 1
      BY <1>1, <1>2, AppendProperties DEF SessionState
    <3>2. Len(r.in) \in Nat /\ Len(r.in) < InCap /\ InCap \in Nat
      BY <1>1, <1>3, LenProperties, RegistryAssumption
         DEF SessionState, HasRoom
    <3>3. q.in = Append(r.in, m) BY <1>1 DEF SessionState
    <3>4. Len(q.in) <= InCap BY <3>1, <3>2, <3>3
    <3>5. q \in SessionState BY <1>1, <3>1 DEF SessionState
    <3> QED BY <3>4, <3>5
  <2>2. /\ q.life = r.life /\ q.idle = r.idle /\ q.legs = r.legs
        /\ q.in = Append(r.in, m)
    BY <1>1 DEF SessionState
  <2>3. Updated(s, q) BY <1>3 DEF Updated
  <2> QED BY <2>1, <2>2, <2>3 DEF Sent
<1>4. CASE (stopping \/ ~ HasRoom(s)) /\ UNCHANGED session
  <2>1. stopping BY <1>4 DEF Send, CanSend
  <2>2. Updated(s, r)
    BY <1>4 DEF Updated, TypeOK
  <2> QED BY <1>1, <2>1, <2>2 DEF Sent
<1> QED BY <1>3, <1>4 DEF Send

\* post notes the time, and queues the frame if there is room for it.
Noted(r, q, l) ==
  /\ q \in SessionState /\ Len(q.in) <= InCap
  /\ q.life = r.life /\ q.idle = 1 /\ q.legs = r.legs
  /\ q.in = r.in \/ q.in = Append(r.in, [kind |-> "frame", leg |-> l])

LEMMA PostEffect ==
  ASSUME TypeOK, NEW s \in Made, NEW l \in Leg, Post(s, l)
  PROVE  \E q : Noted(session[s], q, l) /\ Updated(s, q)
<1> DEFINE m == [kind |-> "frame", leg |-> l]
           r == session[s]
<1>1. /\ r \in SessionState /\ Len(r.in) <= InCap
      /\ r.in \in Seq(Msg) /\ Len(r.in) \in Nat
  BY Numbers, LenProperties DEF TypeOK, SessionState
<1>2. m \in Msg BY DEF Msg
<1>3. 1 \in 0 .. SessionIdle + 2 BY RegistryAssumption
<1>4. PICK x : /\ x = r.in \/ (HasRoom(s) /\ x = Append(r.in, m))
               /\ Updated(s, [r EXCEPT !.idle = 1, !.in = x])
  <2>1. CASE session' = [session EXCEPT ![s].idle = Stamped(s),
                                        ![s].in = Queued(s, l)]
    <3>1. Updated(s, [r EXCEPT !.idle = 1, !.in = Queued(s, l)])
      BY <2>1, Numbers DEF Updated, Stamped, TypeOK
    <3> QED BY <3>1 DEF Queued
  <2>2. CASE stopping /\ session' = [session EXCEPT ![s].idle = Stamped(s)]
    <3>1. [r EXCEPT !.idle = 1, !.in = r.in] = [r EXCEPT !.idle = 1]
      BY <1>1 DEF SessionState
    <3>2. Updated(s, [r EXCEPT !.idle = 1])
      BY <2>2 DEF Updated, Stamped
    <3> QED BY <3>1, <3>2
  <2> QED BY <2>1, <2>2 DEF Post
<1> DEFINE q == [r EXCEPT !.idle = 1, !.in = x]
<1>5. x \in Seq(Msg) /\ Len(x) <= InCap
  <2>1. /\ Append(r.in, m) \in Seq(Msg)
        /\ Len(Append(r.in, m)) = Len(r.in) + 1
    BY <1>1, <1>2, AppendProperties
  <2>2. InCap \in Nat /\ (HasRoom(s) <=> Len(r.in) < InCap)
    BY RegistryAssumption DEF HasRoom
  <2>3. CASE x = r.in BY <1>1, <2>3
  <2>4. CASE HasRoom(s) /\ x = Append(r.in, m)
    <3> HIDE DEF m
    <3> QED BY <1>1, <2>1, <2>2, <2>4
  <2> QED BY <1>4, <2>3, <2>4
<1>6. /\ q \in SessionState /\ q.in = x /\ q.life = r.life /\ q.idle = 1
      /\ q.legs = r.legs
  BY <1>1, <1>3, <1>5 DEF SessionState
<1> QED BY <1>4, <1>5, <1>6 DEF Noted

\* The session goroutine works off one message.
Taken(r, q) ==
  /\ q \in SessionState /\ Len(q.in) <= InCap
  /\ q.life = r.life /\ q.idle = r.idle
  /\ r.in # <<>> /\ q.in = Tail(r.in) /\ q.legs = LegsAfter(r.legs, Head(r.in))

LEMMA TakeEffect ==
  ASSUME TypeOK, NEW s \in Made, Take(s)
  PROVE  \E q : Taken(session[s], q) /\ Updated(s, q)
<1> DEFINE r == session[s]
           q == [r EXCEPT !.in = Tail(r.in), !.legs = LegsAfter(r.legs, Head(r.in))]
<1>1. /\ r \in SessionState /\ Len(r.in) <= InCap
      /\ r.in \in Seq(Msg) /\ r.legs \subseteq Leg /\ r.in # <<>>
  BY Numbers DEF TypeOK, SessionState, Take
<1>2. /\ Head(r.in) \in Msg /\ Tail(r.in) \in Seq(Msg)
      /\ Len(Tail(r.in)) = Len(r.in) - 1 /\ Len(r.in) \in Nat
  BY <1>1, HeadTailProperties, LenProperties
<1>3. LegsAfter(r.legs, Head(r.in)) \subseteq Leg
  BY <1>1, <1>2 DEF LegsAfter, Msg
<1>4. /\ q \in SessionState /\ q.in = Tail(r.in) /\ q.life = r.life
      /\ q.idle = r.idle /\ q.legs = LegsAfter(r.legs, Head(r.in))
  BY <1>1, <1>2, <1>3 DEF SessionState
<1>5. Updated(s, q) BY <1>1, Numbers DEF Updated, Take, TypeOK
<1>6. Len(q.in) <= InCap BY <1>1, <1>2, <1>4, RegistryAssumption
<1> QED BY <1>1, <1>4, <1>5, <1>6 DEF Taken

\* The session of an icg_id: found, or made as the next one.
LEMMA LookupEffect ==
  ASSUME TypeOK, NEW i \in Id, NEW s \in 1 .. MaxSessions, Lookup(i, s)
  PROVE  /\ SessionsOK' /\ Made \subseteq Made' /\ s \in Made' /\ s # None
         /\ registry' \in [Id -> {None} \cup Made'] /\ registry'[i] = s
         /\ \A j \in Id \ {i} : registry'[j] = registry[j]
         /\ \A r \in Made : session'[r] = session[r]
         /\ \/ s \in Made /\ s = registry[i] /\ UNCHANGED <<registry, session>>
            \/ /\ s \notin Made /\ registry[i] = None
               /\ Made' = Made \cup {s} /\ session'[s] = NewSession
<1>1. Len(session) \in Nat /\ Made = 1 .. Len(session) BY Numbers
<1>2. CASE Known(i) /\ s = registry[i] /\ UNCHANGED <<registry, session>>
  <2>1. s \in Made /\ s # None BY <1>2 DEF TypeOK, Known, None
  <2> QED BY <1>1, <1>2, <2>1 DEF TypeOK, SessionsOK, Made
<1>3. CASE /\ ~ Known(i) /\ s = Len(session) + 1
           /\ session' = Append(session, NewSession)
           /\ registry' = [registry EXCEPT ![i] = s]
  <2>1. NewSession \in SessionState /\ Len(NewSession.in) <= InCap
    BY RegistryAssumption DEF NewSession, SessionState, NoPost
  <2>2. /\ session' \in Seq(SessionState) /\ Len(session') = Len(session) + 1
        /\ \A r \in 1 .. Len(session) : session'[r] = session[r]
        /\ session'[s] = NewSession
    <3> HIDE DEF NewSession
    <3> QED BY <1>3, <2>1, AppendProperties DEF TypeOK
  <2>3. Made' = 1 .. Len(session) + 1
    BY <2>2, LenProperties DEF Made
  <2>4. Made' = Made \cup {s} /\ s \notin Made /\ s # None
    BY <1>1, <1>3, <2>3 DEF None
  <2>5. Len(session') <= MaxSessions
    BY <1>3, <2>2, RegistryAssumption
  <2>6. \A r \in Made' : Len(session'[r].in) <= InCap
    BY <1>1, <2>1, <2>2, <2>4 DEF TypeOK
  <2>7. /\ registry' \in [Id -> {None} \cup Made'] /\ registry'[i] = s
        /\ \A j \in Id \ {i} : registry'[j] = registry[j]
    BY <1>3, <2>4 DEF TypeOK
  <2> QED BY <1>1, <1>3, <2>2, <2>4, <2>5, <2>6, <2>7 DEF SessionsOK, Known
<1> QED BY <1>2, <1>3 DEF Lookup

-----------------------------------------------------------------------------
(* Types                                                                   *)

\* The initial state.
LEMMA TypeInit == Init => TypeInv
<1> SUFFICES ASSUME Init PROVE TypeInv OBVIOUS
<1> USE DEF Init, None
<1>1. Made = {} BY DEF Made
<1>2. InTable = {} BY DEF InTable
<1>3. session \in Seq(SessionState) /\ Len(session) <= MaxSessions
  BY RegistryAssumption
<1>4. conn \in [Conn -> ConnState]
  <2>1. [at |-> "none", sess |-> None, quiet |-> 0] \in ConnState
    BY RegistryAssumption DEF ConnState
  <2> QED BY <2>1
<1>5. reader \in ReaderState BY DEF ReaderState
<1>6. Cardinality(InTable) <= MaxPeers /\ IsFiniteSet(InTable)
  BY <1>2, FS_EmptySet, RegistryAssumption
<1>7. TypeOK BY <1>1, <1>3, <1>4, <1>5, <1>6 DEF TypeOK
<1>8. Bound BY <1>2, <1>6 DEF Bound
<1> QED BY <1>7, <1>8 DEF TypeInv

\* One connection moves.
LEMMA ConnMoved ==
  ASSUME TypeOK, NEW c \in Conn, NEW q, conn' = [conn EXCEPT ![c] = q],
         Made \subseteq Made', q \in ConnState'
  PROVE  /\ conn' \in [Conn -> ConnState'] /\ conn'[c] = q
         /\ \A d \in Conn \ {c} : conn'[d] = conn[d]
<1>1. ConnState \subseteq ConnState' BY DEF ConnState
<1> QED BY <1>1 DEF TypeOK

\* The steps of a connection's goroutine: where it was, where it goes, and the
\* session it is bound to.
ConnStep(c) ==
  /\ UNCHANGED <<stopping, peers, reader>>
  /\ SessionsOK' /\ Made \subseteq Made' /\ registry' \in [Id -> {None} \cup Made']
  /\ \E q \in ConnState' :
        /\ conn' = [conn EXCEPT ![c] = q]
        /\ q.at \in {"attaching", "posting", "detaching"} => q.sess # None
        /\ q.at # "none"

LEMMA ConnStepType ==
  ASSUME TypeInv, NEW c \in Conn, ConnStep(c)
  PROVE  TypeInv'
<1> PICK q \in ConnState' :
      /\ conn' = [conn EXCEPT ![c] = q]
      /\ q.at \in {"attaching", "posting", "detaching"} => q.sess # None
      /\ q.at # "none"
  BY DEF ConnStep
<1>1. /\ conn' \in [Conn -> ConnState'] /\ conn'[c] = q
      /\ \A d \in Conn \ {c} : conn'[d] = conn[d]
  BY ConnMoved DEF ConnStep, TypeInv
<1>2. InTable' = InTable BY DEF InTable, ConnStep
<1>3. TypeOK'
  BY <1>1, <1>2 DEF TypeInv, TypeOK, ConnStep, SessionsOK, ReaderState
<1>4. Bound' BY <1>1, <1>2 DEF TypeInv, Bound, ConnStep
<1> QED BY <1>3, <1>4 DEF TypeInv

\* serveTCPConn.
LEMMA TcpType ==
  ASSUME TypeInv, NEW c \in Conn, TcpNext(c)
  PROVE  TypeInv'
<1> DEFINE r == conn[c]
<1>0. TypeOK /\ Bound BY DEF TypeInv
<1>1. r \in ConnState BY <1>0 DEF TypeOK
<1>2. 0 \in 0 .. ReadTimeout BY RegistryAssumption
<1>3. SessionsOK /\ registry \in [Id -> {None} \cup Made]
  BY <1>0 DEF TypeOK, SessionsOK
<1>4. c \in Leg BY DEF Leg
<1>5. ASSUME UNCHANGED session PROVE Made' = Made /\ SessionsOK'
  BY <1>3, <1>5 DEF Made, SessionsOK
<1>6. ASSUME Made' = Made PROVE ConnState' = ConnState
  BY <1>6 DEF ConnState
<1>7. r.at \in {"attaching", "posting", "detaching"} => r.sess \in Made
  BY <1>0, <1>1 DEF Bound, ConnState
<1>8. CASE Accept(c)
  <2> DEFINE q == [r EXCEPT !.at = "reading", !.quiet = 0]
  <2>1. conn' = [conn EXCEPT ![c] = q] BY <1>0, <1>8 DEF Accept, TypeOK
  <2>2. q \in ConnState /\ q.at = "reading" BY <1>1, <1>2 DEF ConnState
  <2> HIDE DEF q
  <2>3. ConnStep(c)
    BY <1>3, <1>5, <1>6, <1>8, <2>1, <2>2 DEF ConnStep, Accept
  <2> QED BY <2>3, ConnStepType
<1>9. CASE TcpAttach(c)
  <2> DEFINE q == [r EXCEPT !.at = "posting"]
  <2>1. conn' = [conn EXCEPT ![c] = q] BY <1>9 DEF TcpAttach, Goto
  <2>2. r.sess \in Made BY <1>7, <1>9 DEF TcpAttach
  <2>3. q \in ConnState /\ q.at = "posting" /\ q.sess # None
    BY <1>1, <1>9, <1>0 DEF ConnState, TcpAttach, Bound
  <2>4. SessionsOK' /\ Made' = Made
    BY <1>0, <1>4, <1>9, <2>2, SendEffect, OneUpdated DEF TcpAttach, Sent
  <2> HIDE DEF q
  <2>5. ConnStep(c)
    BY <1>3, <1>6, <1>9, <2>1, <2>3, <2>4 DEF ConnStep, TcpAttach
  <2> QED BY <2>5, ConnStepType
<1>10. CASE TcpFrame(c)
  <2> DEFINE q == [r EXCEPT !.at = "posting"]
  <2>1. conn' = [conn EXCEPT ![c] = q] BY <1>10 DEF TcpFrame, Goto
  <2>2. q \in ConnState /\ q.at = "posting" /\ q.sess # None
    BY <1>1, <1>10 DEF ConnState, TcpFrame
  <2> HIDE DEF q
  <2>3. ConnStep(c)
    BY <1>3, <1>5, <1>6, <1>10, <2>1, <2>2 DEF ConnStep, TcpFrame
  <2> QED BY <2>3, ConnStepType
<1>11. CASE TcpPost(c)
  <2> DEFINE q == [r EXCEPT !.at = "reading", !.quiet = 0]
  <2>1. conn' = [conn EXCEPT ![c] = q] BY <1>0, <1>11 DEF TcpPost, TypeOK
  <2>2. r.sess \in Made BY <1>7, <1>11 DEF TcpPost
  <2>3. q \in ConnState /\ q.at = "reading"
    BY <1>1, <1>2 DEF ConnState
  <2>4. SessionsOK' /\ Made' = Made
    BY <1>0, <1>4, <1>11, <2>2, PostEffect, OneUpdated DEF TcpPost, Noted
  <2> HIDE DEF q
  <2>5. ConnStep(c)
    BY <1>3, <1>6, <1>11, <2>1, <2>3, <2>4 DEF ConnStep, TcpPost
  <2> QED BY <2>5, ConnStepType
<1>12. CASE ReadEnds(c)
  <2> DEFINE q == [r EXCEPT !.at = IF r.sess = None THEN "done"
                                                    ELSE "detaching"]
  <2>1. conn' = [conn EXCEPT ![c] = q] BY <1>12 DEF ReadEnds, Goto
  <2>2. /\ q \in ConnState /\ q.at \in {"done", "detaching"}
        /\ q.at = "detaching" => q.sess # None
    BY <1>1 DEF ConnState
  <2> HIDE DEF q
  <2>3. ConnStep(c)
    BY <1>3, <1>5, <1>6, <1>12, <2>1, <2>2 DEF ConnStep, ReadEnds
  <2> QED BY <2>3, ConnStepType
<1>13. CASE TcpDetach(c)
  <2> DEFINE q == [r EXCEPT !.at = "done"]
  <2>1. conn' = [conn EXCEPT ![c] = q] BY <1>13 DEF TcpDetach, Goto
  <2>2. r.sess \in Made BY <1>7, <1>13 DEF TcpDetach
  <2>3. q \in ConnState /\ q.at = "done" BY <1>1 DEF ConnState
  <2>4. SessionsOK' /\ Made' = Made
    BY <1>0, <1>4, <1>13, <2>2, SendEffect, OneUpdated
       DEF TcpDetach, Detaches, Sent
  <2> HIDE DEF q
  <2>5. ConnStep(c)
    BY <1>3, <1>6, <1>13, <2>1, <2>3, <2>4 DEF ConnStep, TcpDetach
  <2> QED BY <2>5, ConnStepType
<1>14. ASSUME NEW i \in Id, TcpFirstFrame(c, i) PROVE TypeInv'
  <2> PICK s \in 1 .. MaxSessions :
        /\ Lookup(i, s)
        /\ conn' = [conn EXCEPT ![c].at = "attaching", ![c].sess = s]
    BY <1>14 DEF TcpFirstFrame
  <2> DEFINE q == [r EXCEPT !.at = "attaching", !.sess = s]
  <2>1. conn' = [conn EXCEPT ![c] = q] BY <1>0 DEF TypeOK
  <2>2. /\ SessionsOK' /\ Made \subseteq Made' /\ s \in Made' /\ s # None
        /\ registry' \in [Id -> {None} \cup Made']
    BY <1>0, LookupEffect
  <2>3. q \in ConnState' /\ q.at = "attaching" /\ q.sess = s
    BY <1>1, <2>2 DEF ConnState
  <2> HIDE DEF q
  <2>4. ConnStep(c)
    BY <1>14, <2>1, <2>2, <2>3 DEF ConnStep, TcpFirstFrame
  <2> QED BY <2>4, ConnStepType
<1> QED
  BY <1>8, <1>9, <1>10, <1>11, <1>12, <1>13, <1>14 DEF TcpNext

\* A peer in the table or none, as TypeOK has it.
TableOK ==
  /\ peers \in [Peer -> {None} \cup Made]
  /\ IsFiniteSet(InTable) /\ Cardinality(InTable) <= MaxPeers

\* The table after an entry was added below the limit, or removed.
LEMMA TableChanges ==
  ASSUME TypeInv, NEW p \in Peer, NEW s \in {None} \cup Made', Made \subseteq Made',
         peers' = [peers EXCEPT ![p] = s], s # None => ~ TableFull
  PROVE  /\ TableOK' /\ peers'[p] = s
         /\ \A q \in Peer \ {p} : peers'[q] = peers[q]
         /\ InTable' = IF s = None THEN InTable \ {p} ELSE InTable \cup {p}
<1>1. /\ peers' \in [Peer -> {None} \cup Made'] /\ peers'[p] = s
      /\ \A q \in Peer \ {p} : peers'[q] = peers[q]
  BY DEF TypeInv, TypeOK
<1>2. InTable' = IF s = None THEN InTable \ {p} ELSE InTable \cup {p}
  BY <1>1 DEF InTable
<1>3. /\ IsFiniteSet(InTable) /\ Cardinality(InTable) <= MaxPeers
      /\ Cardinality(InTable) \in Nat /\ MaxPeers \in Nat
  BY FS_CardinalityType, RegistryAssumption DEF TypeInv, TypeOK, Bound
<1>4. CASE s = None
  <2>1. /\ IsFiniteSet(InTable \ {p})
        /\ Cardinality(InTable \ {p}) <= Cardinality(InTable)
        /\ Cardinality(InTable \ {p}) \in Nat
    BY <1>3, FS_Subset, FS_CardinalityType
  <2> QED BY <1>1, <1>2, <1>3, <1>4, <2>1 DEF TableOK
<1>5. CASE s # None
  <2>1. Cardinality(InTable) < MaxPeers BY <1>3, <1>5 DEF TableFull
  <2>2. /\ IsFiniteSet(InTable \cup {p})
        /\ Cardinality(InTable \cup {p}) <= Cardinality(InTable) + 1
        /\ Cardinality(InTable \cup {p}) \in Nat
    <3>1. /\ IsFiniteSet(InTable \cup {p})
          /\ \/ Cardinality(InTable \cup {p}) = Cardinality(InTable)
             \/ Cardinality(InTable \cup {p}) = Cardinality(InTable) + 1
      BY <1>3, FS_AddElement
    <3> QED BY <1>3, <3>1
  <2> QED BY <1>1, <1>2, <1>3, <1>5, <2>1, <2>2 DEF TableOK
<1> QED BY <1>4, <1>5

\* The steps of the UDP reader: the table after it, and where the reader goes.
ReaderStep ==
  /\ UNCHANGED <<stopping, conn>>
  /\ SessionsOK' /\ Made \subseteq Made' /\ registry' \in [Id -> {None} \cup Made']
  /\ TableOK' /\ reader' \in ReaderState
  /\ reader'.at \in {"attaching", "posting"} => peers'[reader'.peer] # None
  /\ reader'.at = "resetting" => reader'.todo = InTable'
  /\ reader'.at = "binding" => InTable' = {}

LEMMA ReaderStepType ==
  ASSUME TypeInv, ReaderStep
  PROVE  TypeInv'
<1>1. ConnState \subseteq ConnState' BY DEF ConnState, ReaderStep
<1>2. conn' \in [Conn -> ConnState'] BY <1>1 DEF TypeInv, TypeOK, ReaderStep
<1>3. TypeOK'
  BY <1>2 DEF TypeInv, TypeOK, ReaderStep, SessionsOK, TableOK, ReaderState
<1>4. Bound' BY DEF TypeInv, Bound, ReaderStep, TableOK
<1> QED BY <1>3, <1>4 DEF TypeInv

\* Bind enters a new peer below the limit.
LEMMA BindEffect ==
  ASSUME TypeInv, NEW p \in Peer, NEW i \in Id, Bind(p, i), ~ TableFull
  PROVE  /\ SessionsOK' /\ Made \subseteq Made'
         /\ registry' \in [Id -> {None} \cup Made']
         /\ TableOK' /\ peers'[p] # None
<1>1. PICK s \in 1 .. MaxSessions :
        Lookup(i, s) /\ peers' = [peers EXCEPT ![p] = s]
  BY DEF Bind
<1>2. /\ SessionsOK' /\ Made \subseteq Made' /\ s \in Made' /\ s # None
      /\ registry' \in [Id -> {None} \cup Made']
  BY <1>1, LookupEffect DEF TypeInv
<1>3. TableOK' /\ peers'[p] = s BY <1>1, <1>2, TableChanges
<1> QED BY <1>2, <1>3

\* serveUDP.
LEMMA UdpType ==
  ASSUME TypeInv,
         UdpMoves \/ \E p \in Peer, i \in Id : UdpFrame(p, i)
  PROVE  TypeInv'
<1>0. TypeOK /\ Bound BY DEF TypeInv
<1>1. reader \in ReaderState BY <1>0 DEF TypeOK
<1>2. SessionsOK /\ TableOK /\ registry \in [Id -> {None} \cup Made]
  BY <1>0 DEF TypeOK, Bound, SessionsOK, TableOK
<1>3. ASSUME UNCHANGED session PROVE Made' = Made /\ SessionsOK'
  BY <1>2, <1>3 DEF Made, SessionsOK
<1>4. ASSUME Made' = Made, UNCHANGED peers PROVE TableOK' /\ InTable' = InTable
  BY <1>2, <1>4 DEF TableOK, InTable
<1>5. ASSUME NEW p \in Peer, NEW i \in Id, UdpFrame(p, i) PROVE TypeInv'
  <2>1. CASE UdpFrameKnown(p)
    <3>1. /\ reader' \in ReaderState /\ reader'.at = "posting"
          /\ reader'.peer = p
      BY <1>1, <2>1 DEF UdpFrameKnown, ReaderState
    <3>2. ReaderStep
      BY <1>2, <1>3, <1>4, <2>1, <3>1 DEF ReaderStep, UdpFrameKnown
    <3> QED BY <3>2, ReaderStepType
  <2>2. CASE UdpFrameNew(p, i)
    <3>1. /\ reader' \in ReaderState /\ reader'.at = "attaching"
          /\ reader'.peer = p
      BY <2>2 DEF UdpFrameNew, ReaderState
    <3>2. /\ SessionsOK' /\ Made \subseteq Made'
          /\ registry' \in [Id -> {None} \cup Made']
          /\ TableOK' /\ peers'[p] # None
      BY <2>2, BindEffect DEF UdpFrameNew
    <3>3. ReaderStep BY <2>2, <3>1, <3>2 DEF ReaderStep, UdpFrameNew
    <3> QED BY <3>3, ReaderStepType
  <2>3. CASE UdpFrameFull(p, i)
    <3>1. InTable \subseteq Peer BY DEF InTable
    <3>2. /\ reader' \in ReaderState /\ reader'.at = "resetting"
          /\ reader'.todo = InTable
      BY <2>3, <3>1 DEF UdpFrameFull, ReaderState
    <3>3. ReaderStep
      BY <1>2, <1>3, <1>4, <2>3, <3>2 DEF ReaderStep, UdpFrameFull
    <3> QED BY <3>3, ReaderStepType
  <2> QED BY <1>5, <2>1, <2>2, <2>3 DEF UdpFrame
<1>6. ASSUME NEW q \in Peer, UdpReset(q) PROVE TypeInv'
  <2>1. q \in InTable /\ peers[q] \in Made /\ peers[q] # None
    BY <1>0, <1>6 DEF UdpReset, Bound, InTable, TypeOK
  <2>2. q \in Leg BY DEF Leg
  <2>3. SessionsOK' /\ Made' = Made
    BY <1>0, <1>6, <2>1, <2>2, SendEffect, OneUpdated DEF UdpReset, Sent
  <2>4. TableOK' /\ InTable' = InTable \ {q}
    BY <1>6, <2>3, TableChanges DEF UdpReset
  <2>5. /\ reader' \in ReaderState /\ reader'.todo = reader.todo \ {q}
        /\ reader'.at = IF reader.todo = {q} THEN "binding" ELSE "resetting"
    BY <1>1, <1>6 DEF UdpReset, ReaderState
  <2>6. reader.todo = InTable BY <1>0, <1>6 DEF UdpReset, Bound
  <2>7. ReaderStep
    BY <1>2, <1>6, <2>3, <2>4, <2>5, <2>6 DEF ReaderStep, UdpReset
  <2> QED BY <2>7, ReaderStepType
<1>7. CASE UdpBind
  <2>1. reader.peer \in Peer /\ reader.id \in Id BY <1>1 DEF ReaderState
  <2>2. ~ TableFull
    <3>1. InTable = {} BY <1>0, <1>7 DEF UdpBind, Bound
    <3> QED BY <3>1, FS_EmptySet, RegistryAssumption DEF TableFull
  <2>3. /\ SessionsOK' /\ Made \subseteq Made'
        /\ registry' \in [Id -> {None} \cup Made']
        /\ TableOK' /\ peers'[reader.peer] # None
    BY <1>7, <2>1, <2>2, BindEffect DEF UdpBind
  <2>4. /\ reader' \in ReaderState /\ reader'.at = "attaching"
        /\ reader'.peer = reader.peer
    BY <1>1, <1>7 DEF UdpBind, ReaderState
  <2>5. ReaderStep BY <1>7, <2>3, <2>4 DEF ReaderStep, UdpBind
  <2> QED BY <2>5, ReaderStepType
<1>8. CASE UdpAttach \/ UdpPost
  <2> DEFINE s == peers[reader.peer]
  <2>1. reader.peer \in Peer /\ reader.peer \in Leg
    BY <1>1 DEF ReaderState, Leg
  <2>2. s \in Made /\ s # None
    BY <1>0, <1>8, <2>1 DEF UdpAttach, UdpPost, Bound, TypeOK
  <2>3. SessionsOK' /\ Made' = Made
    <3>1. CASE UdpAttach
      BY <1>0, <2>1, <2>2, <3>1, SendEffect, OneUpdated DEF UdpAttach, Sent
    <3>2. CASE UdpPost
      BY <1>0, <2>1, <2>2, <3>2, PostEffect, OneUpdated DEF UdpPost, Noted
    <3> QED BY <1>8, <3>1, <3>2
  <2>4. /\ reader' \in ReaderState /\ reader'.at \in {"posting", "read"}
        /\ reader'.peer = reader.peer
    BY <1>1, <1>8 DEF UdpAttach, UdpPost, ReaderState
  <2>5. UNCHANGED <<stopping, registry, conn, peers>>
    BY <1>8 DEF UdpAttach, UdpPost
  <2>6. ReaderStep
    BY <1>2, <1>4, <2>2, <2>3, <2>4, <2>5 DEF ReaderStep
  <2> QED BY <2>6, ReaderStepType
<1>9. CASE UdpEnds
  <2>1. reader' \in ReaderState /\ reader'.at = "ended"
    BY <1>1, <1>9 DEF UdpEnds, ReaderState
  <2>2. ReaderStep
    BY <1>2, <1>3, <1>4, <1>9, <2>1 DEF ReaderStep, UdpEnds
  <2> QED BY <2>2, ReaderStepType
<1> QED BY <1>5, <1>6, <1>7, <1>8, <1>9 DEF UdpMoves

\* The steps that leave the reader, its table and the sessions' number alone.
LEMMA RestStepType ==
  ASSUME TypeInv, stopping' \in BOOLEAN, UNCHANGED <<peers, reader>>,
         SessionsOK', Made' = Made, registry' \in [Id -> {None} \cup Made],
         conn' \in [Conn -> ConnState],
         \A c \in Conn : conn'[c].at = conn[c].at /\ conn'[c].sess = conn[c].sess
  PROVE  TypeInv'
<1>1. InTable' = InTable BY DEF InTable
<1>2. ConnState' = ConnState BY DEF ConnState
<1>3. TypeOK'
  BY <1>1, <1>2 DEF TypeInv, TypeOK, SessionsOK, ReaderState
<1>4. Bound' BY <1>1 DEF TypeInv, Bound
<1> QED BY <1>3, <1>4 DEF TypeInv

\* sess.stop() for the sessions reaped.
LEMMA StopEffect ==
  ASSUME TypeOK
  PROVE  /\ StopReaped \in [Made -> SessionState]
         /\ \A s \in Made :
              /\ StopReaped[s].in = session[s].in
              /\ StopReaped[s].legs = session[s].legs
              /\ StopReaped[s].idle = session[s].idle
              /\ StopReaped[s].life =
                   IF s \in {registry[i] : i \in Reaped}
                        /\ session[s].life = "running"
                   THEN "cancelled" ELSE session[s].life
<1>1. ASSUME NEW s \in Made
      PROVE  LET q == [session[s] EXCEPT !.life = "cancelled"]
             IN  /\ q \in SessionState /\ q.in = session[s].in
                 /\ q.legs = session[s].legs /\ q.idle = session[s].idle
                 /\ q.life = "cancelled"
  <2>1. session[s] \in SessionState BY Numbers
  <2> QED BY <2>1 DEF SessionState
<1>2. \A s \in Made : session[s] \in SessionState BY Numbers
<1> QED BY <1>1, <1>2 DEF StopReaped

Aged(r) == IF r.idle \in 1 .. SessionIdle + 1
           THEN [r EXCEPT !.idle = @ + 1] ELSE r

\* A session grows older.
LEMMA AgedEffect ==
  ASSUME NEW r \in SessionState
  PROVE  /\ Aged(r) \in SessionState /\ Aged(r).in = r.in
         /\ Aged(r).legs = r.legs /\ Aged(r).life = r.life
         /\ Aged(r).idle = IF r.idle \in 1 .. SessionIdle + 1
                           THEN r.idle + 1 ELSE r.idle
<1>1. r.idle \in 1 .. SessionIdle + 1 => r.idle + 1 \in 0 .. SessionIdle + 2
  BY RegistryAssumption
<1> QED BY <1>1 DEF Aged, SessionState

\* Time passes on a connection.
LEMMA QuietEffect ==
  ASSUME TypeOK, Elapse
  PROVE  /\ conn' \in [Conn -> ConnState]
         /\ \A c \in Conn :
              /\ conn'[c].at = conn[c].at /\ conn'[c].sess = conn[c].sess
              /\ conn'[c].quiet = IF conn[c].at = "reading"
                                  THEN conn[c].quiet + 1 ELSE conn[c].quiet
<1> SUFFICES ASSUME NEW c \in Conn
             PROVE  /\ conn'[c] \in ConnState
                    /\ conn'[c].at = conn[c].at /\ conn'[c].sess = conn[c].sess
                    /\ conn'[c].quiet = IF conn[c].at = "reading"
                                        THEN conn[c].quiet + 1 ELSE conn[c].quiet
  BY DEF Elapse
<1>1. conn[c] \in ConnState BY DEF TypeOK
<1>2. conn'[c] = IF conn[c].at = "reading"
                 THEN [conn[c] EXCEPT !.quiet = @ + 1] ELSE conn[c]
  BY DEF Elapse
<1>3. conn[c].at = "reading" => conn[c].quiet + 1 \in 0 .. ReadTimeout
  <2>1. conn[c].quiet \in 0 .. ReadTimeout /\ ReadTimeout \in Nat
    BY <1>1, RegistryAssumption DEF ConnState
  <2>2. conn[c].at = "reading" => conn[c].quiet # ReadTimeout
    BY DEF Elapse, Due
  <2> QED BY <2>1, <2>2
<1> QED BY <1>1, <1>2, <1>3 DEF ConnState

LEMMA ElapseSessions ==
  ASSUME TypeOK, Elapse
  PROVE  /\ SessionsOK' /\ Made' = Made
         /\ \A s \in Made : session'[s] = Aged(session[s])
<1>1. session' = [s \in Made |-> Aged(session[s])] BY DEF Elapse, Aged
<1>2. \A s \in Made : /\ session[s] \in SessionState
                      /\ Len(session[s].in) <= InCap
  BY Numbers DEF TypeOK
<1> DEFINE F == [s \in Made |-> Aged(session[s])]
<1>3. F \in [Made -> SessionState] /\ \A s \in Made : Len(F[s].in) <= InCap
  BY <1>2, AgedEffect
<1> HIDE DEF F
<1>4. SessionsOK' /\ Made' = Made BY <1>1, <1>3, AllUpdated DEF F
<1> QED BY <1>1, <1>4

LEMMA ReapSessions ==
  ASSUME TypeOK, session' = StopReaped
  PROVE  SessionsOK' /\ Made' = Made
<1>1. \A s \in Made : Len(StopReaped[s].in) <= InCap
  BY StopEffect DEF TypeOK
<1> QED BY <1>1, StopEffect, AllUpdated

\* The session ends.
LEMMA EndEffect ==
  ASSUME TypeOK, NEW s \in Made, SessionEnds(s)
  PROVE  /\ SessionsOK' /\ Made' = Made /\ session'[s].life = "ended"
         /\ session'[s].idle = session[s].idle
         /\ \A r \in Made \ {s} : session'[r] = session[r]
<1> DEFINE q == [session[s] EXCEPT !.life = "ended"]
<1>1. session[s] \in SessionState /\ Len(session[s].in) <= InCap
  BY Numbers DEF TypeOK
<1>2. /\ q \in SessionState /\ Len(q.in) <= InCap /\ q.life = "ended"
      /\ q.idle = session[s].idle
  BY <1>1 DEF SessionState
<1>3. Updated(s, q) BY DEF SessionEnds, Updated
<1> HIDE DEF q
<1> QED BY <1>2, <1>3, OneUpdated

\* Types are kept.
LEMMA TypeStep == TypeInv /\ [Next]_vars => TypeInv'
<1> SUFFICES ASSUME TypeInv, [Next]_vars PROVE TypeInv' OBVIOUS
<1>0. TypeOK BY DEF TypeInv
<1>1. /\ stopping \in BOOLEAN /\ SessionsOK /\ conn \in [Conn -> ConnState]
      /\ registry \in [Id -> {None} \cup Made]
  BY <1>0 DEF TypeOK, SessionsOK
<1>2. ASSUME NEW c \in Conn, TcpNext(c) PROVE TypeInv' BY <1>2, TcpType
<1>3. CASE UdpMoves \/ \E p \in Peer, i \in Id : UdpFrame(p, i)
  BY <1>3, UdpType
<1>4. ASSUME NEW s \in Made, SessionNext(s) PROVE TypeInv'
  <2>1. SessionsOK' /\ Made' = Made
    <3>1. CASE Take(s)
      BY <1>0, <3>1, TakeEffect, OneUpdated DEF Taken
    <3>2. CASE SessionEnds(s) BY <1>0, <3>2, EndEffect
    <3> QED BY <1>4, <3>1, <3>2 DEF SessionNext
  <2>2. UNCHANGED <<stopping, registry, conn, peers, reader>>
    BY <1>4 DEF SessionNext, Take, SessionEnds
  <2> QED BY <1>1, <2>1, <2>2, RestStepType
<1>5. CASE Reap
  <2>1. SessionsOK' /\ Made' = Made BY <1>0, <1>5, ReapSessions DEF Reap
  <2>2. registry' \in [Id -> {None} \cup Made] BY <1>1, <1>5 DEF Reap
  <2> QED BY <1>1, <1>5, <2>1, <2>2, RestStepType DEF Reap
<1>6. CASE Elapse
  BY <1>0, <1>1, <1>6, ElapseSessions, QuietEffect, RestStepType DEF Elapse
<1>7. CASE Stop \/ UNCHANGED vars
  <2>1. SessionsOK' /\ Made' = Made
    BY <1>1, <1>7 DEF Stop, vars, SessionsOK, Made
  <2> QED BY <1>1, <1>7, <2>1, RestStepType DEF Stop, vars
<1> QED BY <1>2, <1>3, <1>4, <1>5, <1>6, <1>7 DEF Next

LEMMA TypeAlways == Spec => []TypeInv
  BY TypeInit, TypeStep, PTL DEF Spec

-----------------------------------------------------------------------------
(* One session for each device                                             *)

\* The sessions known and their lives are as they were.
SameLives ==
  /\ registry' = registry /\ Made' = Made
  /\ \A s \in Made : session'[s].life = session[s].life

\* What a step can do to the map and the lives of the sessions.
LEMMA LivesStep ==
  ASSUME TypeInv, [Next]_vars
  PROVE  /\ stopping => stopping'
         /\ \/ \E i \in Id : \E s \in 1 .. MaxSessions : Lookup(i, s)
            \/ SameLives
            \/ (\E s \in Made : SessionEnds(s)) /\ UNCHANGED <<stopping, registry>>
            \/ Reap
<1>0. TypeOK /\ Bound BY DEF TypeInv
<1>1. ASSUME NEW s \in Made, NEW q, Updated(s, q), q \in SessionState,
             Len(q.in) <= InCap, q.life = session[s].life, registry' = registry
      PROVE  SameLives
  BY <1>0, <1>1, OneUpdated DEF SameLives
<1>2. ASSUME UNCHANGED <<registry, session>> PROVE SameLives
  BY <1>2 DEF SameLives, Made
<1>3. ASSUME NEW c \in Conn, TcpNext(c)
      PROVE  SameLives \/ \E i \in Id : \E s \in 1 .. MaxSessions : Lookup(i, s)
  <2> DEFINE s == conn[c].sess
  <2>1. conn[c] \in ConnState /\ c \in Leg BY <1>0 DEF TypeOK, Leg
  <2>2. conn[c].at \in {"attaching", "posting", "detaching"} => s \in Made
    BY <1>0, <2>1 DEF Bound, ConnState
  <2>3. CASE TcpAttach(c)
    BY <1>0, <1>1, <2>1, <2>2, <2>3, SendEffect DEF TcpAttach, Sent
  <2>4. CASE TcpDetach(c)
    BY <1>0, <1>1, <2>1, <2>2, <2>4, SendEffect
       DEF TcpDetach, Detaches, Sent
  <2>5. CASE TcpPost(c)
    BY <1>0, <1>1, <2>1, <2>2, <2>5, PostEffect DEF TcpPost, Noted
  <2>6. CASE Accept(c) \/ TcpFrame(c) \/ ReadEnds(c)
    BY <1>2, <2>6 DEF Accept, TcpFrame, ReadEnds
  <2>7. ASSUME NEW i \in Id, TcpFirstFrame(c, i)
        PROVE  \E n \in 1 .. MaxSessions : Lookup(i, n)
    BY <2>7 DEF TcpFirstFrame
  <2> QED BY <1>3, <2>3, <2>4, <2>5, <2>6, <2>7 DEF TcpNext
<1>4. ASSUME UdpMoves \/ \E p \in Peer, i \in Id : UdpFrame(p, i)
      PROVE  SameLives \/ \E i \in Id : \E s \in 1 .. MaxSessions : Lookup(i, s)
  <2> DEFINE s == peers[reader.peer]
  <2>1. /\ reader \in ReaderState /\ reader.peer \in Leg
        /\ reader.peer \in Peer
    BY <1>0 DEF TypeOK, ReaderState, Leg
  <2>2. reader.at \in {"attaching", "posting"} => s \in Made
    BY <1>0, <2>1 DEF Bound, TypeOK
  <2>3. CASE UdpAttach
    BY <1>0, <1>1, <2>1, <2>2, <2>3, SendEffect DEF UdpAttach, Sent
  <2>4. CASE UdpPost
    BY <1>0, <1>1, <2>1, <2>2, <2>4, PostEffect DEF UdpPost, Noted
  <2>5. ASSUME NEW q \in Peer, UdpReset(q) PROVE SameLives
    <3>1. q \in Leg /\ peers[q] \in Made
      BY <1>0, <2>5 DEF UdpReset, Bound, InTable, TypeOK, Leg
    <3> QED BY <1>0, <1>1, <2>5, <3>1, SendEffect DEF UdpReset, Sent
  <2>6. CASE UdpBind \/ \E p \in Peer, i \in Id : UdpFrameNew(p, i)
    BY <2>1, <2>6 DEF UdpBind, UdpFrameNew, Bind, ReaderState
  <2>7. CASE UdpEnds \/ \E p \in Peer, i \in Id : UdpFrameKnown(p)
                                                  \/ UdpFrameFull(p, i)
    BY <1>2, <2>7 DEF UdpEnds, UdpFrameKnown, UdpFrameFull
  <2> QED
    BY <1>4, <2>3, <2>4, <2>5, <2>6, <2>7 DEF UdpMoves, UdpFrame
<1>5. ASSUME NEW s \in Made, Take(s) PROVE SameLives
  BY <1>0, <1>1, <1>5, TakeEffect DEF Take, Taken
<1>6. CASE Elapse
  <2>1. \A s \in Made : session'[s].life = session[s].life
    BY <1>0, <1>6, ElapseSessions, AgedEffect, Numbers
  <2> QED BY <1>0, <1>6, <2>1, ElapseSessions DEF SameLives, Elapse
<1>7. CASE Stop \/ UNCHANGED vars
  BY <1>2, <1>7 DEF Stop, vars
<1>8. stopping => stopping'
  BY DEF Next, TcpNext, UdpMoves, SessionNext, UdpFrame, Accept, TcpAttach,
         TcpFrame, TcpPost, ReadEnds, TcpDetach, TcpFirstFrame, UdpBind,
         UdpAttach, UdpPost, UdpEnds, UdpReset, UdpFrameKnown, UdpFrameNew,
         UdpFrameFull, Take, SessionEnds, Reap, Elapse, Stop, vars
<1>9. ASSUME NEW s \in Made, SessionEnds(s)
      PROVE  UNCHANGED <<stopping, registry>>
  BY <1>9 DEF SessionEnds
<1> QED
  BY <1>3, <1>4, <1>5, <1>6, <1>7, <1>8, <1>9 DEF Next, SessionNext

\* Making a session enters it in the map; reaping takes it out and stops it.
LEMMA OwnStep == TypeInv /\ OneSession /\ [Next]_vars => OneSession'
<1> SUFFICES ASSUME TypeInv, OneSession, [Next]_vars, ~ stopping'
             PROVE  OneSession'
  BY DEF OneSession
<1>0. TypeOK /\ ~ stopping BY LivesStep DEF TypeInv
<1>1. /\ \A s \in Made : session[s].life = "running" =>
                            \E i \in Id : registry[i] = s
      /\ \A i \in Id : registry[i] # None =>
           /\ registry[i] \in Made /\ session[registry[i]].life = "running"
           /\ \A j \in Id : registry[j] = registry[i] => j = i
  BY <1>0 DEF OneSession, TypeOK
<1>2. ASSUME NEW i \in Id, NEW s \in 1 .. MaxSessions, Lookup(i, s)
      PROVE  OneSession'
  <2>1. CASE s \in Made /\ UNCHANGED <<registry, session>>
    BY <1>1, <2>1 DEF OneSession, Made
  <2>2. CASE /\ s \notin Made /\ registry[i] = None
             /\ Made' = Made \cup {s} /\ session'[s] = NewSession
    <3>1. /\ s # None /\ registry'[i] = s
          /\ \A j \in Id \ {i} : registry'[j] = registry[j]
          /\ \A r \in Made : session'[r] = session[r]
      BY <1>0, <1>2, LookupEffect
    <3>2. session'[s].life = "running" BY <2>2 DEF NewSession
    <3>3. ASSUME NEW r \in Made', session'[r].life = "running"
          PROVE  \E j \in Id : registry'[j] = r
      <4>1. CASE r = s BY <3>1, <4>1
      <4>2. CASE r \in Made
        <5>1. PICK j \in Id : registry[j] = r
          BY <1>1, <3>1, <3>3, <4>2
        <5>2. r # None BY <1>0, <4>2, Numbers DEF None
        <5>3. j # i BY <2>2, <5>1, <5>2
        <5> QED BY <3>1, <5>1, <5>3
      <4> QED BY <2>2, <4>1, <4>2
    <3>4. ASSUME NEW j \in Id, registry'[j] # None
          PROVE  /\ session'[registry'[j]].life = "running"
                 /\ \A k \in Id : registry'[k] = registry'[j] => k = j
      <4>1. CASE j = i
        BY <1>1, <2>2, <3>1, <3>2, <4>1
      <4>2. CASE j # i
        <5>1. registry[j] \in Made /\ registry'[j] = registry[j]
          BY <1>1, <3>1, <3>4, <4>2
        <5> QED BY <1>1, <2>2, <3>1, <3>4, <4>2, <5>1
      <4> QED BY <4>1, <4>2
    <3> QED BY <3>3, <3>4 DEF OneSession
  <2> QED BY <1>0, <1>2, <2>1, <2>2, LookupEffect
<1>3. CASE SameLives
  BY <1>1, <1>3 DEF SameLives, OneSession
<1>4. ASSUME NEW s \in Made, SessionEnds(s), registry' = registry
      PROVE  OneSession'
  <2>1. session[s].life = "cancelled" BY <1>0, <1>4 DEF SessionEnds
  <2>2. \A i \in Id : registry[i] # s BY <1>0, <1>1, <2>1, Numbers DEF None
  <2>3. /\ Made' = Made /\ session'[s].life = "ended"
        /\ \A r \in Made \ {s} : session'[r] = session[r]
    BY <1>0, <1>4, EndEffect
  <2> QED BY <1>1, <1>4, <2>2, <2>3 DEF OneSession
<1>5. CASE Reap
  <2> DEFINE Gone == {registry[i] : i \in Reaped}
  <2>1. /\ session' = StopReaped /\ Made' = Made
        /\ \A i \in Id :
              registry'[i] = IF i \in Reaped THEN None ELSE registry[i]
    BY <1>0, <1>5, ReapSessions DEF Reap
  <2>2. \A r \in Made :
           /\ r \in Gone /\ session[r].life = "running"
                => session'[r].life = "cancelled"
           /\ r \notin Gone => session'[r].life = session[r].life
           /\ session'[r].life = "running" => session[r].life = "running"
    BY <1>0, <2>1, StopEffect
  <2>3. Reaped \subseteq Id /\ \A i \in Reaped : registry[i] # None
    BY DEF Reaped
  <2>4. \A j \in Id : registry[j] # None /\ registry[j] \in Gone => j \in Reaped
    BY <1>1, <2>3
  <2>5. ASSUME NEW r \in Made, session'[r].life = "running"
        PROVE  \E j \in Id : registry'[j] = r
    <3>1. r \notin Gone /\ session[r].life = "running" BY <2>2, <2>5
    <3>2. PICK j \in Id : registry[j] = r BY <1>1, <3>1
    <3>3. j \notin Reaped BY <3>1, <3>2
    <3> QED BY <2>1, <3>2, <3>3
  <2>6. ASSUME NEW j \in Id, registry'[j] # None
        PROVE  /\ session'[registry'[j]].life = "running"
               /\ \A k \in Id : registry'[k] = registry'[j] => k = j
    <3>1. j \notin Reaped /\ registry'[j] = registry[j] BY <2>1, <2>6
    <3>2. registry[j] \notin Gone BY <2>4, <2>6, <3>1
    <3>3. session'[registry[j]].life = "running"
      BY <1>1, <2>2, <2>6, <3>1, <3>2
    <3> QED BY <1>1, <2>1, <2>6, <3>1, <3>3
  <2> HIDE DEF Gone
  <2> QED BY <2>1, <2>5, <2>6 DEF OneSession
<1> QED BY <1>2, <1>3, <1>4, <1>5, LivesStep

-----------------------------------------------------------------------------
(* The reaper and the read deadline                                        *)

\* What a leg that waits for its next frame brought was posted after its last
\* deadline was set.
Recent ==
  \A c \in Conn :
     (conn[c].at = "reading" /\ conn[c].sess # None) =>
        session[conn[c].sess].idle <= conn[c].quiet + 1

\* A session's age is kept or reset by everything but the clock.
LEMMA AgesStep ==
  ASSUME TypeInv, [Next]_vars, ~ Elapse, NEW s \in Made
  PROVE  s \in Made' /\ session'[s].idle \in {1, session[s].idle}
<1>0. TypeOK /\ Bound BY DEF TypeInv
<1>1. ASSUME NEW r \in Made, NEW q, Updated(r, q), q \in SessionState,
             Len(q.in) <= InCap, q.idle \in {1, session[r].idle}
      PROVE  s \in Made' /\ session'[s].idle \in {1, session[s].idle}
  BY <1>0, <1>1, OneUpdated
<1>2. ASSUME UNCHANGED session
      PROVE  s \in Made' /\ session'[s].idle \in {1, session[s].idle}
  BY <1>2 DEF Made
<1>3. ASSUME NEW i \in Id, NEW n \in 1 .. MaxSessions, Lookup(i, n)
      PROVE  s \in Made' /\ session'[s].idle \in {1, session[s].idle}
  BY <1>0, <1>3, LookupEffect
<1>4. ASSUME NEW c \in Conn, TcpNext(c)
      PROVE  s \in Made' /\ session'[s].idle \in {1, session[s].idle}
  <2>1. conn[c] \in ConnState /\ c \in Leg BY <1>0 DEF TypeOK, Leg
  <2>2. conn[c].at \in {"attaching", "posting", "detaching"} =>
          conn[c].sess \in Made
    BY <1>0, <2>1 DEF Bound, ConnState
  <2>3. CASE TcpAttach(c)
    BY <1>0, <1>1, <2>1, <2>2, <2>3, SendEffect DEF TcpAttach, Sent
  <2>4. CASE TcpDetach(c)
    BY <1>0, <1>1, <2>1, <2>2, <2>4, SendEffect
       DEF TcpDetach, Detaches, Sent
  <2>5. CASE TcpPost(c)
    BY <1>0, <1>1, <2>1, <2>2, <2>5, PostEffect DEF TcpPost, Noted
  <2>6. CASE Accept(c) \/ TcpFrame(c) \/ ReadEnds(c)
    BY <1>2, <2>6 DEF Accept, TcpFrame, ReadEnds
  <2>7. CASE \E i \in Id : TcpFirstFrame(c, i)
    BY <1>3, <2>7 DEF TcpFirstFrame
  <2> QED BY <1>4, <2>3, <2>4, <2>5, <2>6, <2>7 DEF TcpNext
<1>5. ASSUME UdpMoves \/ \E p \in Peer, i \in Id : UdpFrame(p, i)
      PROVE  s \in Made' /\ session'[s].idle \in {1, session[s].idle}
  <2>1. /\ reader \in ReaderState /\ reader.peer \in Leg
        /\ reader.peer \in Peer /\ reader.id \in Id
    BY <1>0 DEF TypeOK, ReaderState, Leg
  <2>2. reader.at \in {"attaching", "posting"} => peers[reader.peer] \in Made
    BY <1>0, <2>1 DEF Bound, TypeOK
  <2>3. CASE UdpAttach
    BY <1>0, <1>1, <2>1, <2>2, <2>3, SendEffect DEF UdpAttach, Sent
  <2>4. CASE UdpPost
    BY <1>0, <1>1, <2>1, <2>2, <2>4, PostEffect DEF UdpPost, Noted
  <2>5. ASSUME NEW q \in Peer, UdpReset(q)
        PROVE  s \in Made' /\ session'[s].idle \in {1, session[s].idle}
    <3>1. q \in Leg /\ peers[q] \in Made
      BY <1>0, <2>5 DEF UdpReset, Bound, InTable, TypeOK, Leg
    <3> QED BY <1>0, <1>1, <2>5, <3>1, SendEffect DEF UdpReset, Sent
  <2>6. CASE UdpBind \/ \E p \in Peer, i \in Id : UdpFrameNew(p, i)
    BY <1>3, <2>1, <2>6 DEF UdpBind, UdpFrameNew, Bind
  <2>7. CASE UdpEnds \/ \E p \in Peer, i \in Id : UdpFrameKnown(p)
                                                  \/ UdpFrameFull(p, i)
    BY <1>2, <2>7 DEF UdpEnds, UdpFrameKnown, UdpFrameFull
  <2> QED
    BY <1>5, <2>3, <2>4, <2>5, <2>6, <2>7 DEF UdpMoves, UdpFrame
<1>6. ASSUME NEW r \in Made, Take(r)
      PROVE  s \in Made' /\ session'[s].idle \in {1, session[s].idle}
  BY <1>0, <1>1, <1>6, TakeEffect DEF Taken
<1>7. ASSUME NEW r \in Made, SessionEnds(r)
      PROVE  s \in Made' /\ session'[s].idle \in {1, session[s].idle}
  BY <1>0, <1>7, EndEffect
<1>8. CASE Reap
  BY <1>0, <1>8, ReapSessions, StopEffect DEF Reap
<1>9. CASE Stop \/ UNCHANGED vars
  BY <1>2, <1>9 DEF Stop, vars
<1> QED
  BY <1>3, <1>4, <1>5, <1>6, <1>7, <1>8, <1>9 DEF Next, SessionNext

\* A connection that reads with a session was doing so before, or has just
\* posted a frame to it.
LEMMA ReadersStep ==
  ASSUME TypeInv, [Next]_vars, ~ Elapse, NEW c \in Conn,
         conn'[c].at = "reading", conn'[c].sess # None
  PROVE  conn'[c].sess = conn[c].sess
         /\ \/ conn[c].at = "reading" /\ conn'[c].quiet = conn[c].quiet
            \/ conn[c].at = "posting" /\ TcpPost(c) /\ conn'[c].quiet = 0
<1>0. TypeOK /\ Bound BY DEF TypeInv
<1>1. \A d \in Conn : conn[d] \in ConnState /\ conn[d] = conn[d]
  BY <1>0 DEF TypeOK
<1>2. CASE UNCHANGED conn
  BY <1>1, <1>2 DEF TypeInv, Bound
<1>3. ASSUME NEW d \in Conn, TcpNext(d)
      PROVE  conn'[c].sess = conn[c].sess
             /\ \/ conn[c].at = "reading" /\ conn'[c].quiet = conn[c].quiet
                \/ conn[c].at = "posting" /\ TcpPost(c) /\ conn'[c].quiet = 0
  <2>1. PICK q : conn' = [conn EXCEPT ![d] = q]
    BY <1>0, <1>3 DEF TcpNext, Accept, TcpAttach, TcpFrame, TcpPost, ReadEnds,
                      TcpDetach, TcpFirstFrame, Goto, TypeOK
  <2>2. CASE d # c BY <1>0, <1>2, <2>1, <2>2 DEF TypeOK
  <2>3. CASE d = c
    <3>1. ~ Accept(c)
      <4>1. conn[c].at = "none" => conn[c].sess = None BY <1>0 DEF Bound
      <4>2. Accept(c) => conn'[c].sess = conn[c].sess
        BY <1>0, <1>1 DEF Accept, TypeOK, ConnState
      <4> QED BY <4>1, <4>2 DEF Accept
    <3>2. CASE TcpAttach(c) \/ TcpFrame(c) \/ ReadEnds(c) \/ TcpDetach(c)
      <4>1. conn'[c].at \in {"posting", "done", "detaching"}
        BY <1>0, <1>1, <3>2
           DEF TcpAttach, TcpFrame, ReadEnds, TcpDetach, Goto, TypeOK, ConnState
      <4> QED BY <4>1
    <3>3. CASE TcpPost(c)
      BY <1>0, <1>1, <3>3 DEF TcpPost, TypeOK, ConnState
    <3>4. CASE \E i \in Id : TcpFirstFrame(c, i)
      <4>1. conn'[c].at = "attaching"
        BY <1>0, <1>1, <3>4 DEF TcpFirstFrame, TypeOK, ConnState
      <4> QED BY <4>1
    <3> QED BY <1>3, <2>3, <3>1, <3>2, <3>3, <3>4 DEF TcpNext
  <2> QED BY <2>2, <2>3
<1>4. CASE ~ \E d \in Conn : TcpNext(d)
  <2>1. UNCHANGED conn
    BY <1>4 DEF Next, UdpMoves, SessionNext, UdpFrame, UdpBind, UdpAttach,
         UdpPost, UdpEnds, UdpReset, UdpFrameKnown, UdpFrameNew, UdpFrameFull,
         Take, SessionEnds, Reap, Stop, vars
  <2> QED BY <1>2, <2>1
<1> QED BY <1>3, <1>4

LEMMA RecentStep == TypeInv /\ Recent /\ [Next]_vars => Recent'
<1> SUFFICES ASSUME TypeInv, Recent, [Next]_vars,
                    NEW c \in Conn, conn'[c].at = "reading", conn'[c].sess # None
             PROVE  session'[conn'[c].sess].idle <= conn'[c].quiet + 1
  BY DEF Recent
<1> DEFINE s == conn[c].sess
<1>0. TypeOK /\ Bound BY DEF TypeInv
<1>1. conn[c] \in ConnState BY <1>0 DEF TypeOK
<1>2. conn[c].quiet \in Nat BY <1>1, RegistryAssumption DEF ConnState
<1>3. CASE Elapse
  <2>1. /\ conn[c].at = "reading" /\ conn'[c].sess = s
        /\ conn'[c].quiet = conn[c].quiet + 1
    BY <1>0, <1>3, QuietEffect
  <2>2. s \in Made BY <1>1, <2>1 DEF ConnState
  <2>3. session[s] \in SessionState /\ session'[s] = Aged(session[s])
    BY <1>0, <1>3, <2>2, ElapseSessions, Numbers
  <2>4. session[s].idle \in Nat BY <2>3, RegistryAssumption DEF SessionState
  <2>5. session'[s].idle <= session[s].idle + 1
    BY <2>3, <2>4, AgedEffect
  <2>6. session[s].idle <= conn[c].quiet + 1 BY <2>1 DEF Recent
  <2>7. session'[s].idle \in Nat BY <2>3, <2>4, AgedEffect
  <2> QED BY <1>2, <2>1, <2>4, <2>5, <2>6, <2>7
<1>4. CASE ~ Elapse
  <2>1. /\ conn'[c].sess = s /\ s \in Made
        /\ \/ conn[c].at = "reading" /\ conn'[c].quiet = conn[c].quiet
           \/ conn[c].at = "posting" /\ TcpPost(c) /\ conn'[c].quiet = 0
    BY <1>1, <1>4, ReadersStep DEF ConnState
  <2>2. session'[s].idle \in {1, session[s].idle} BY <1>4, <2>1, AgesStep
  <2>3. CASE conn[c].at = "reading"
    BY <1>2, <2>1, <2>2, <2>3 DEF Recent
  <2>4. CASE TcpPost(c) /\ conn'[c].quiet = 0
    <3>1. session'[s].idle = 1
      <4>1. c \in Leg BY DEF Leg
      <4>2. PICK q : Noted(session[s], q, c) /\ Updated(s, q)
        BY <1>0, <2>1, <2>4, <4>1, PostEffect DEF TcpPost
      <4> QED BY <1>0, <2>1, <4>2, OneUpdated DEF Noted
    <3> QED BY <2>1, <2>4, <3>1
  <2> QED BY <2>1, <2>3, <2>4
<1> QED BY <1>3, <1>4

\* The session of a leg that reads is not idle long enough to be reaped.
LEMMA KeptStep ==
  ASSUME TypeInv, Recent, [Next]_vars, NEW s \in Made,
         session[s].life = "running", session'[s].life = "cancelled",
         NEW c \in Conn
  PROVE  ~ (conn[c].sess = s /\ conn[c].at = "reading")
<1>0. TypeOK BY DEF TypeInv
<1>1. ~ SameLives BY DEF SameLives
<1>2. ~ \E i \in Id : \E n \in 1 .. MaxSessions : Lookup(i, n)
  BY <1>0, LookupEffect
<1>3. ~ \E r \in Made : SessionEnds(r)
  BY <1>0, EndEffect
<1>4. Reap BY <1>1, <1>2, <1>3, LivesStep
<1>5. Idle(s)
  <2>1. s \in {registry[i] : i \in Reaped}
    BY <1>0, <1>4, StopEffect DEF Reap
  <2> QED BY <2>1 DEF Reaped
<1> SUFFICES ASSUME conn[c].sess = s, conn[c].at = "reading" PROVE FALSE
  OBVIOUS
<1>6. conn[c].quiet \in 0 .. ReadTimeout BY <1>0 DEF TypeOK, ConnState
<1>7. session[s].idle <= conn[c].quiet + 1
  BY <1>0, Numbers DEF Recent, None
<1>8. session[s].idle \in Nat
  BY <1>0, Numbers, RegistryAssumption DEF SessionState
<1> QED BY <1>5, <1>6, <1>7, <1>8, RegistryAssumption DEF Idle

-----------------------------------------------------------------------------
(* The table of legs                                                       *)

\* A frame in the channel changes nothing; an added or dropped leg is the last
\* word on that leg.
LEMMA AppendWillBeIn ==
  ASSUME NEW r \in SessionState, NEW q \in SessionState, NEW m \in Msg,
         q.in = Append(r.in, m), q.legs = r.legs, NEW l
  PROVE  WillBeIn(q, l) <=> IF m.leg = l /\ m.kind # "frame"
                            THEN m.kind = "add" ELSE WillBeIn(r, l)
<1> DEFINE n == Len(r.in)
<1>1. r.in \in Seq(Msg) BY DEF SessionState
<1>2. n \in Nat /\ DOMAIN r.in = 1 .. n BY <1>1, LenProperties
<1>3. /\ q.in \in Seq(Msg) /\ Len(q.in) = n + 1
      /\ \A i \in 1 .. n : q.in[i] = r.in[i]
      /\ q.in[n + 1] = m
  BY <1>1, AppendProperties
<1>4. DOMAIN q.in = 1 .. n + 1 BY <1>3, LenProperties
<1> HIDE DEF n
<1>5. CASE m.leg = l /\ m.kind # "frame"
  <2>1. n + 1 \in Changes(q, l) /\ \A k \in Changes(q, l) : k <= n + 1
    BY <1>2, <1>3, <1>4, <1>5 DEF Changes
  <2>2. \A k \in Changes(q, l) :
           (\A j \in Changes(q, l) : j <= k) => k = n + 1
    BY <1>2, <1>4, <2>1 DEF Changes
  <2>3. WillBeIn(q, l) <=> q.in[n + 1].kind = "add"
    BY <2>1, <2>2 DEF WillBeIn
  <2> QED BY <1>3, <1>5, <2>3
<1>6. CASE ~ (m.leg = l /\ m.kind # "frame")
  <2>1. Changes(q, l) = Changes(r, l)
    BY <1>2, <1>3, <1>4, <1>6 DEF Changes
  <2>2. \A k \in Changes(r, l) : q.in[k] = r.in[k]
    BY <1>2, <1>3 DEF Changes
  <2>3. WillBeIn(q, l) <=> WillBeIn(r, l)
    BY <2>1, <2>2 DEF WillBeIn
  <2> QED BY <1>6, <2>3
<1> QED BY <1>5, <1>6

\* Working off a message leaves what the table will be.
LEMMA TakenWillBeIn ==
  ASSUME NEW r \in SessionState, NEW q, Taken(r, q), NEW l
  PROVE  WillBeIn(q, l) <=> WillBeIn(r, l)
<1> DEFINE n == Len(r.in)
           h == r.in[1]
<1>1. r.in \in Seq(Msg) /\ r.in # <<>> BY DEF SessionState, Taken
<1>2. n \in Nat /\ n > 0 /\ DOMAIN r.in = 1 .. n
  BY <1>1, LenProperties, EmptySeq
<1>3. /\ q.in \in Seq(Msg) /\ Len(q.in) = n - 1
      /\ \A i \in 1 .. n - 1 : q.in[i] = r.in[i + 1]
  BY <1>1, HeadTailProperties DEF Taken
<1>4. DOMAIN q.in = 1 .. n - 1 BY <1>3, LenProperties
<1>5. h \in Msg /\ h = Head(r.in) BY <1>1, <1>2, ElementOfSeq
<1>6. q.legs = LegsAfter(r.legs, h) BY <1>5 DEF Taken
<1> DEFINE C == Changes(q, l)
           D == Changes(r, l)
<1> HIDE DEF n
<1>7. /\ \A k \in C : k \in 1 .. n - 1 /\ k + 1 \in D /\ q.in[k] = r.in[k + 1]
      /\ \A k \in D : k \in 1 .. n /\ (k # 1 => k - 1 \in C)
      /\ 1 \in D <=> (h.leg = l /\ h.kind # "frame")
  <2>1. \A k \in 1 .. n - 1 :
           /\ k + 1 \in 1 .. n
           /\ k \in C <=> (q.in[k].leg = l /\ q.in[k].kind # "frame")
           /\ q.in[k] = r.in[k + 1]
    BY <1>2, <1>3, <1>4 DEF Changes
  <2>2. \A k \in 1 .. n : k \in D <=> (r.in[k].leg = l /\ r.in[k].kind # "frame")
    BY <1>2 DEF Changes
  <2>3. C \subseteq 1 .. n - 1 /\ D \subseteq 1 .. n
    BY <1>2, <1>4 DEF Changes
  <2>4. \A k \in D : k # 1 => k - 1 \in 1 .. n - 1 /\ (k - 1) + 1 = k
    BY <1>2, <2>3
  <2>5. \A k \in D : k # 1 => k - 1 \in C
    BY <2>1, <2>2, <2>3, <2>4
  <2>6. \A k \in C : k + 1 \in D BY <2>1, <2>2, <2>3
  <2>7. 1 \in 1 .. n BY <1>2
  <2> HIDE DEF C, D
  <2> QED BY <2>1, <2>2, <2>3, <2>5, <2>6, <2>7
<1>8. CASE C # {}
  <2>1. D # {} BY <1>7, <1>8
  <2>2. ASSUME NEW k \in C, q.in[k].kind = "add", \A j \in C : j <= k
        PROVE  \E i \in D : r.in[i].kind = "add" /\ \A j \in D : j <= i
    <3>1. k \in Int /\ k >= 1 /\ k + 1 \in D /\ r.in[k + 1].kind = "add"
      BY <1>2, <1>7, <2>2
    <3>2. ASSUME NEW j \in D PROVE j <= k + 1
      BY <1>2, <1>7, <2>2, <3>1
    <3> QED BY <3>1, <3>2
  <2>3. ASSUME NEW i \in D, r.in[i].kind = "add", \A j \in D : j <= i
        PROVE  \E k \in C : q.in[k].kind = "add" /\ \A j \in C : j <= k
    <3>1. PICK c \in C : TRUE BY <1>8
    <3>2. c + 1 \in D /\ c \in 1 .. n - 1 BY <1>7
    <3>3. i # 1 /\ i \in 1 .. n
      <4>1. c + 1 <= i BY <2>3, <3>2
      <4>2. i \in 1 .. n BY <1>7
      <4> QED BY <1>2, <3>2, <4>1, <4>2
    <3>4. i - 1 \in C /\ (i - 1) + 1 = i BY <1>7, <3>3
    <3>5. q.in[i - 1].kind = "add" BY <1>7, <2>3, <3>4
    <3>6. ASSUME NEW j \in C PROVE j <= i - 1
      <4>1. j + 1 \in D /\ j \in 1 .. n - 1 BY <1>7
      <4>2. j + 1 <= i BY <2>3, <4>1
      <4> QED BY <1>2, <3>3, <4>1, <4>2
    <3> QED BY <3>4, <3>5, <3>6
  <2> HIDE DEF C, D
  <2> QED BY <1>8, <2>1, <2>2, <2>3 DEF WillBeIn, C, D
<1>9. CASE C = {}
  <2>1. \A k \in D : k = 1 BY <1>7, <1>9
  <2>2. WillBeIn(q, l) <=> l \in q.legs BY <1>9 DEF WillBeIn
  <2>3. CASE h.leg = l /\ h.kind # "frame"
    <3>1. D = {1} BY <1>7, <2>1, <2>3
    <3>2. WillBeIn(r, l) <=> h.kind = "add" BY <3>1 DEF WillBeIn
    <3>3. h.kind \in {"add", "drop"} BY <1>5, <2>3 DEF Msg
    <3>4. l \in q.legs <=> h.kind = "add"
      BY <1>6, <2>3, <3>3 DEF LegsAfter
    <3> QED BY <2>2, <3>2, <3>4
  <2>4. CASE ~ (h.leg = l /\ h.kind # "frame")
    <3>1. D = {} BY <1>7, <2>1, <2>4
    <3>2. WillBeIn(r, l) <=> l \in r.legs BY <3>1 DEF WillBeIn
    <3>3. l \in q.legs <=> l \in r.legs
      BY <1>5, <1>6, <2>4 DEF LegsAfter, Msg
    <3> QED BY <2>2, <3>2, <3>3
  <2> QED BY <2>3, <2>4
<1> QED BY <1>8, <1>9

\* A leg is added or dropped together with its transport.
LEMMA SentFollows ==
  ASSUME TypeOK, ~ stopping, LegTableFollows, NEW s \in Made, NEW q, NEW l \in Leg,
         NEW kind \in {"add", "drop"}, Updated(s, q),
         Sent(session[s], q, [kind |-> kind, leg |-> l]),
         \A r \in Made : \A k \in Leg :
            Attached(r, k)' <=> IF r = s /\ k = l THEN kind = "add"
                                ELSE Attached(r, k)
  PROVE  LegTableFollows'
<1>1. Made' = Made /\ session'[s] = q
      /\ \A r \in Made \ {s} : session'[r] = session[r]
  BY OneUpdated DEF Sent
<1> SUFFICES ASSUME NEW r \in Made, session'[r].life = "running", NEW k \in Leg
             PROVE  WillBeIn(session'[r], k) <=> Attached(r, k)'
  BY <1>1 DEF LegTableFollows
<1>2. CASE r # s BY <1>1, <1>2 DEF LegTableFollows
<1>3. CASE r = s
  <2>1. session[s].life = "running" BY <1>1, <1>3 DEF Sent
  <2>2. session[s] \in SessionState BY Numbers
  <2> DEFINE m == [kind |-> kind, leg |-> l]
  <2>3. m \in Msg /\ m.leg = l /\ m.kind = kind /\ kind # "frame" BY DEF Msg
  <2>4. q \in SessionState /\ q.in = Append(session[s].in, m)
        /\ q.legs = session[s].legs
    BY DEF Sent
  <2> HIDE DEF m
  <2>5. WillBeIn(q, k) <=> IF m.leg = k /\ m.kind # "frame"
                           THEN m.kind = "add" ELSE WillBeIn(session[s], k)
    BY <2>2, <2>3, <2>4, AppendWillBeIn
  <2>6. WillBeIn(session[s], k) <=> Attached(s, k)
    BY <2>1 DEF LegTableFollows
  <2> QED BY <1>1, <1>3, <2>3, <2>5, <2>6
<1> QED BY <1>2, <1>3

\* Nothing changes about what the tables will be.
LEMMA SameFollows ==
  ASSUME ~ stopping, LegTableFollows, Made' = Made,
         \A r \in Made : \A k \in Leg :
            /\ session'[r].life = "running" => session[r].life = "running"
            /\ WillBeIn(session'[r], k) <=> WillBeIn(session[r], k)
            /\ Attached(r, k)' <=> Attached(r, k)
  PROVE  LegTableFollows'
  BY DEF LegTableFollows

\* A frame is posted.
LEMMA PostFollows ==
  ASSUME TypeOK, ~ stopping, LegTableFollows, NEW s \in Made, NEW l \in Leg,
         Post(s, l),
         \A r \in Made : \A k \in Leg : Attached(r, k)' <=> Attached(r, k)
  PROVE  LegTableFollows'
<1>1. PICK q : Noted(session[s], q, l) /\ Updated(s, q) BY PostEffect
<1>2. /\ Made' = Made /\ session'[s] = q
      /\ \A r \in Made \ {s} : session'[r] = session[r]
  BY <1>1, OneUpdated DEF Noted
<1>3. session[s] \in SessionState BY Numbers
<1>4. ASSUME NEW k PROVE WillBeIn(q, k) <=> WillBeIn(session[s], k)
  <2> DEFINE m == [kind |-> "frame", leg |-> l]
  <2>1. CASE q.in = session[s].in
    BY <1>1, <2>1 DEF WillBeIn, Changes, Noted
  <2>2. CASE q.in = Append(session[s].in, m)
    <3>1. m \in Msg /\ m.kind = "frame" BY DEF Msg
    <3> HIDE DEF m
    <3> QED BY <1>1, <1>3, <2>2, <3>1, AppendWillBeIn DEF Noted
  <2> QED BY <1>1, <2>1, <2>2 DEF Noted
<1>5. \A r \in Made : \A k \in Leg :
         /\ session'[r].life = "running" => session[r].life = "running"
         /\ WillBeIn(session'[r], k) <=> WillBeIn(session[r], k)
  BY <1>1, <1>2, <1>4 DEF Noted
<1> QED BY <1>2, <1>5, SameFollows

\* A session is looked up; a new one knows no leg yet.
LEMMA LookupFollows ==
  ASSUME TypeOK, ~ stopping, LegTableFollows, NEW i \in Id,
         NEW s \in 1 .. MaxSessions, Lookup(i, s),
         \A r \in Made : \A k \in Leg : Attached(r, k)' <=> Attached(r, k),
         s \notin Made => \A k \in Leg : ~ Attached(s, k)'
  PROVE  LegTableFollows'
<1>1. CASE s \in Made /\ UNCHANGED session
  BY <1>1, SameFollows DEF Made
<1>2. CASE s \notin Made /\ Made' = Made \cup {s} /\ session'[s] = NewSession
  <2>1. \A k : ~ WillBeIn(NewSession, k)
    BY DEF WillBeIn, Changes, NewSession
  <2>2. \A r \in Made : session'[r] = session[r] BY LookupEffect
  <2> QED BY <1>2, <2>1, <2>2 DEF LegTableFollows
<1> QED BY <1>1, <1>2, LookupEffect


\* serveTCPConn.
LEMMA TcpFollows ==
  ASSUME TypeInv, ~ stopping, LegTableFollows, NEW c \in Conn, TcpNext(c)
  PROVE  LegTableFollows'
<1> DEFINE s == conn[c].sess
<1>0. TypeOK /\ Bound BY DEF TypeInv
<1>1. /\ conn[c] \in ConnState /\ c \in Leg /\ c \notin Peer
      /\ \A r \in Made : r # None
  BY <1>0, Numbers, RegistryAssumption DEF TypeOK, Leg, None
<1>2. conn[c].at \in {"attaching", "posting", "detaching"} => s \in Made
  BY <1>0, <1>1 DEF Bound, ConnState
<1>3. UNCHANGED <<peers, reader>>
  BY DEF TcpNext, Accept, TcpAttach, TcpFrame, TcpPost, ReadEnds, TcpDetach,
         TcpFirstFrame
<1>4. ASSUME NEW q, conn' = [conn EXCEPT ![c] = q]
      PROVE  \A r : \A k \in Leg :
                Attached(r, k)' <=>
                  IF k = c
                  THEN q.sess = r /\ q.at \in {"posting", "reading", "detaching"}
                  ELSE Attached(r, k)
  BY <1>0, <1>1, <1>3, <1>4 DEF Attached, TypeOK
<1>5. \A r : Attached(r, c) <=>
         s = r /\ conn[c].at \in {"posting", "reading", "detaching"}
  BY <1>1 DEF Attached
<1>6. ASSUME UNCHANGED session,
             \A r \in Made : \A k \in Leg : Attached(r, k)' <=> Attached(r, k)
      PROVE  LegTableFollows'
  BY <1>6, SameFollows DEF Made
<1>7. CASE Accept(c)
  <2> DEFINE q == [conn[c] EXCEPT !.at = "reading", !.quiet = 0]
  <2>1. conn' = [conn EXCEPT ![c] = q] BY <1>0, <1>7 DEF Accept, TypeOK
  <2>2. q.sess = None /\ s = None
    BY <1>0, <1>1, <1>7 DEF Accept, Bound, ConnState
  <2> HIDE DEF q
  <2>3. \A r \in Made : ~ Attached(r, c)' /\ ~ Attached(r, c)
    BY <1>1, <1>4, <1>5, <2>1, <2>2
  <2>4. \A r \in Made : \A k \in Leg : Attached(r, k)' <=> Attached(r, k)
    BY <1>4, <2>1, <2>3
  <2> QED BY <1>6, <1>7, <2>4 DEF Accept
<1>8. CASE TcpAttach(c)
  <2> DEFINE q == [conn[c] EXCEPT !.at = "posting"]
  <2>1. conn' = [conn EXCEPT ![c] = q] BY <1>8 DEF TcpAttach, Goto
  <2>2. q.sess = s /\ q.at = "posting" /\ conn[c].at = "attaching"
    BY <1>1, <1>8 DEF TcpAttach, ConnState
  <2> HIDE DEF q
  <2>3. \A r \in Made : \A k \in Leg :
           Attached(r, k)' <=> IF r = s /\ k = c THEN "add" = "add"
                               ELSE Attached(r, k)
    BY <1>4, <1>5, <2>1, <2>2
  <2>4. PICK p : Sent(session[s], p, [kind |-> "add", leg |-> c])
                 /\ Updated(s, p)
    BY <1>0, <1>1, <1>2, <1>8, SendEffect DEF TcpAttach
  <2>5. s \in Made BY <1>2, <2>2
  <2> HIDE DEF s
  <2> QED BY <1>0, <1>1, <2>3, <2>4, <2>5, SentFollows
<1>9. CASE TcpFrame(c)
  <2> DEFINE q == [conn[c] EXCEPT !.at = "posting"]
  <2>1. conn' = [conn EXCEPT ![c] = q] BY <1>9 DEF TcpFrame, Goto
  <2>2. q.sess = s /\ q.at = "posting" /\ conn[c].at = "reading"
    BY <1>1, <1>9 DEF TcpFrame, ConnState
  <2> HIDE DEF q
  <2> QED BY <1>4, <1>5, <1>6, <1>9, <2>1, <2>2 DEF TcpFrame
<1>10. CASE TcpPost(c)
  <2> DEFINE q == [conn[c] EXCEPT !.at = "reading", !.quiet = 0]
  <2>1. conn' = [conn EXCEPT ![c] = q] BY <1>0, <1>10 DEF TcpPost, TypeOK
  <2>2. q.sess = s /\ q.at = "reading" /\ conn[c].at = "posting"
    BY <1>1, <1>10 DEF TcpPost, ConnState
  <2> HIDE DEF q
  <2>3. \A r \in Made : \A k \in Leg : Attached(r, k)' <=> Attached(r, k)
    BY <1>4, <1>5, <2>1, <2>2
  <2> QED BY <1>0, <1>1, <1>2, <1>10, <2>3, PostFollows DEF TcpPost
<1>11. CASE ReadEnds(c)
  <2> DEFINE q == [conn[c] EXCEPT !.at = IF s = None THEN "done"
                                                     ELSE "detaching"]
  <2>1. conn' = [conn EXCEPT ![c] = q] BY <1>11 DEF ReadEnds, Goto
  <2>2. /\ q.sess = s /\ q.at = (IF s = None THEN "done" ELSE "detaching")
        /\ conn[c].at = "reading"
    BY <1>1, <1>11 DEF ReadEnds, ConnState
  <2> HIDE DEF q
  <2>3. \A r \in Made : Attached(r, c)' <=> Attached(r, c)
    BY <1>1, <1>4, <1>5, <2>1, <2>2
  <2>4. \A r \in Made : \A k \in Leg : Attached(r, k)' <=> Attached(r, k)
    BY <1>4, <2>1, <2>3
  <2> QED BY <1>6, <1>11, <2>4 DEF ReadEnds
<1>12. CASE TcpDetach(c)
  <2> DEFINE q == [conn[c] EXCEPT !.at = "done"]
  <2>1. conn' = [conn EXCEPT ![c] = q] BY <1>12 DEF TcpDetach, Goto
  <2>2. q.sess = s /\ q.at = "done" /\ conn[c].at = "detaching"
    BY <1>1, <1>12 DEF TcpDetach, ConnState
  <2> HIDE DEF q
  <2>3. \A r \in Made : \A k \in Leg :
           Attached(r, k)' <=> IF r = s /\ k = c THEN "drop" = "add"
                               ELSE Attached(r, k)
    BY <1>4, <1>5, <2>1, <2>2
  <2>4. PICK p : Sent(session[s], p, [kind |-> "drop", leg |-> c])
                 /\ Updated(s, p)
    BY <1>0, <1>1, <1>2, <1>12, SendEffect DEF TcpDetach, Detaches
  <2>5. s \in Made BY <1>2, <2>2
  <2> HIDE DEF s
  <2> QED BY <1>0, <1>1, <2>3, <2>4, <2>5, SentFollows
<1>13. ASSUME NEW i \in Id, TcpFirstFrame(c, i) PROVE LegTableFollows'
  <2> PICK n \in 1 .. MaxSessions :
        /\ Lookup(i, n)
        /\ conn' = [conn EXCEPT ![c].at = "attaching", ![c].sess = n]
    BY <1>13 DEF TcpFirstFrame
  <2> DEFINE q == [conn[c] EXCEPT !.at = "attaching", !.sess = n]
  <2>1. conn' = [conn EXCEPT ![c] = q] BY <1>0 DEF TypeOK
  <2>2. q.at = "attaching" /\ s = None
    BY <1>1, <1>13 DEF ConnState, TcpFirstFrame
  <2> HIDE DEF q
  <2>3. \A r \in Made : \A k \in Leg : Attached(r, k)' <=> Attached(r, k)
    BY <1>1, <1>4, <1>5, <2>1, <2>2
  <2>4. n \notin Made => \A k \in Leg : ~ Attached(n, k)'
    <3>1. ASSUME n \notin Made, NEW k \in Leg, k # c PROVE ~ Attached(n, k)
      <4>1. n # None BY DEF None
      <4> QED BY <1>0, <3>1, <4>1 DEF Attached, TypeOK, ConnState
    <3> QED BY <1>4, <2>1, <2>2, <3>1
  <2> QED BY <1>0, <2>3, <2>4, LookupFollows
<1> QED
  BY <1>7, <1>8, <1>9, <1>10, <1>11, <1>12, <1>13 DEF TcpNext

\* serveUDP.
LEMMA UdpFollows ==
  ASSUME TypeInv, ~ stopping, LegTableFollows,
         UdpMoves \/ \E p \in Peer, i \in Id : UdpFrame(p, i)
  PROVE  LegTableFollows'
<1> DEFINE u == reader.peer
           Rest(r, k) == peers[k] = r /\ ~ (reader.at = "attaching" /\ u = k)
<1>0. TypeOK /\ Bound BY DEF TypeInv
<1>1. /\ reader \in ReaderState /\ u \in Peer /\ reader.id \in Id
      /\ Peer \subseteq Leg /\ \A r \in Made : r # None
      /\ \A k \in Peer : k \notin Conn
  BY <1>0, Numbers, RegistryAssumption DEF TypeOK, ReaderState, Leg, None
<1>2. UNCHANGED conn
  BY DEF UdpMoves, UdpFrame, UdpBind, UdpAttach, UdpPost, UdpEnds, UdpReset,
         UdpFrameKnown, UdpFrameNew, UdpFrameFull
<1>3. \A r : \A k \in Leg \ Peer : Attached(r, k)' <=> Attached(r, k)
  BY <1>2 DEF Attached
<1>4. \A r : \A k \in Peer :
         /\ Attached(r, k) <=> Rest(r, k)
         /\ Attached(r, k)' <=>
              peers'[k] = r /\ ~ (reader'.at = "attaching" /\ reader'.peer = k)
  BY <1>1 DEF Attached
<1>5. ASSUME UNCHANGED session, UNCHANGED peers, reader.at # "attaching",
             reader'.at # "attaching"
      PROVE  LegTableFollows'
  <2>1. \A r \in Made : \A k \in Leg : Attached(r, k)' <=> Attached(r, k)
    BY <1>3, <1>4, <1>5
  <2> QED BY <1>5, <2>1, SameFollows DEF Made
<1>6. ASSUME NEW p \in Peer, NEW i \in Id, Bind(p, i), peers[p] = None,
             reader'.at = "attaching", reader'.peer = p, reader.at # "attaching"
      PROVE  LegTableFollows'
  <2> PICK n \in 1 .. MaxSessions :
        Lookup(i, n) /\ peers' = [peers EXCEPT ![p] = n]
    BY <1>6 DEF Bind
  <2>1. /\ peers'[p] = n
        /\ \A k \in Peer \ {p} : peers'[k] = peers[k]
    BY <1>0, <1>6 DEF TypeOK
  <2>2. \A r \in Made : \A k \in Leg : Attached(r, k)' <=> Attached(r, k)
    BY <1>1, <1>3, <1>4, <1>6, <2>1
  <2>3. n \notin Made => \A k \in Leg : ~ Attached(n, k)'
    <3>1. ASSUME n \notin Made, NEW k \in Leg, k # p PROVE ~ Attached(n, k)
      <4>1. n # None BY DEF None
      <4> QED BY <1>0, <3>1, <4>1 DEF Attached, TypeOK, ConnState
    <3>2. ~ Attached(n, p)' BY <1>4, <1>6
    <3>3. \A k \in Leg : k # p => (Attached(n, k)' <=> Attached(n, k))
      BY <1>3, <1>4, <1>6, <2>1
    <3> QED BY <3>1, <3>2, <3>3
  <2> QED BY <1>0, <2>2, <2>3, LookupFollows
<1>7. ASSUME NEW p \in Peer, NEW i \in Id, UdpFrame(p, i)
      PROVE  LegTableFollows'
  <2>1. CASE UdpFrameKnown(p)
    <3>1. reader'.at = "posting" BY <1>1, <2>1 DEF UdpFrameKnown, ReaderState
    <3> QED BY <1>5, <2>1, <3>1 DEF UdpFrameKnown
  <2>2. CASE UdpFrameNew(p, i)
    BY <1>6, <2>2 DEF UdpFrameNew
  <2>3. CASE UdpFrameFull(p, i)
    BY <1>5, <2>3 DEF UdpFrameFull
  <2> QED BY <1>7, <2>1, <2>2, <2>3 DEF UdpFrame
<1>8. ASSUME NEW p \in Peer, UdpReset(p) PROVE LegTableFollows'
  <2>1. peers[p] \in Made
    BY <1>0, <1>8 DEF UdpReset, Bound, InTable, TypeOK
  <2> PICK s \in Made : s = peers[p] BY <2>1
  <2>2. /\ peers'[p] = None
        /\ \A k \in Peer \ {p} : peers'[k] = peers[k]
    BY <1>0, <1>8 DEF UdpReset, TypeOK
  <2>3. reader.at = "resetting" /\ reader'.at # "attaching"
    BY <1>1, <1>8 DEF UdpReset, ReaderState
  <2>4. \A r \in Made : \A k \in Leg :
           Attached(r, k)' <=> IF r = s /\ k = p THEN "drop" = "add"
                               ELSE Attached(r, k)
    BY <1>1, <1>3, <1>4, <2>2, <2>3
  <2>5. p \in Leg BY <1>1
  <2>6. PICK q : Sent(session[s], q, [kind |-> "drop", leg |-> p])
                 /\ Updated(s, q)
    BY <1>0, <1>8, <2>1, <2>5, SendEffect DEF UdpReset
  <2> HIDE DEF u, Rest
  <2> QED BY <1>0, <2>4, <2>5, <2>6, SentFollows
<1>9. CASE UdpBind
  <2>1. peers[u] = None
    BY <1>0, <1>1, <1>9 DEF UdpBind, Bound, InTable
  <2>2. reader'.at = "attaching" /\ reader'.peer = u
    BY <1>1, <1>9 DEF UdpBind, ReaderState
  <2> QED BY <1>1, <1>6, <1>9, <2>1, <2>2 DEF UdpBind
<1>10. CASE UdpAttach
  <2> DEFINE s == peers[u]
  <2>1. s \in Made
    BY <1>0, <1>1, <1>10 DEF UdpAttach, Bound, TypeOK
  <2>2. reader'.at = "posting" /\ reader.at = "attaching" /\ peers' = peers
    BY <1>1, <1>10 DEF UdpAttach, ReaderState
  <2>3. \A r \in Made : \A k \in Leg :
           Attached(r, k)' <=> IF r = s /\ k = u THEN "add" = "add"
                               ELSE Attached(r, k)
    BY <1>1, <1>3, <1>4, <2>2
  <2>4. PICK q : Sent(session[s], q, [kind |-> "add", leg |-> u])
                 /\ Updated(s, q)
    BY <1>0, <1>1, <1>10, <2>1, SendEffect DEF UdpAttach
  <2>5. u \in Leg BY <1>1
  <2> HIDE DEF s, u, Rest
  <2> QED BY <1>0, <2>1, <2>3, <2>4, <2>5, SentFollows
<1>11. CASE UdpPost
  <2>1. peers[u] \in Made /\ u \in Leg
    BY <1>0, <1>1, <1>11 DEF UdpPost, Bound, TypeOK
  <2>2. reader'.at = "read" /\ reader.at = "posting" /\ peers' = peers
    BY <1>1, <1>11 DEF UdpPost, ReaderState
  <2>3. \A r \in Made : \A k \in Leg : Attached(r, k)' <=> Attached(r, k)
    BY <1>3, <1>4, <2>2
  <2> QED BY <1>0, <1>11, <2>1, <2>3, PostFollows DEF UdpPost
<1>12. CASE UdpEnds
  BY <1>12 DEF UdpEnds
<1> QED BY <1>7, <1>8, <1>9, <1>10, <1>11, <1>12 DEF UdpMoves

\* The table follows.
LEMMA FollowsStep ==
  TypeInv /\ LegTableFollows /\ [Next]_vars => LegTableFollows'
<1> SUFFICES ASSUME TypeInv, LegTableFollows, [Next]_vars, ~ stopping'
             PROVE  LegTableFollows'
  BY DEF LegTableFollows
<1>0. TypeOK /\ ~ stopping BY LivesStep DEF TypeInv
<1>1. ASSUME UNCHANGED <<conn, peers, reader>>
      PROVE  \A r : \A k \in Leg : Attached(r, k)' <=> Attached(r, k)
  BY <1>1 DEF Attached
<1>2. ASSUME UNCHANGED <<conn, peers, reader>>, Made' = Made,
             \A r \in Made :
                /\ session'[r].life = "running" => session[r].life = "running"
                /\ session'[r].in = session[r].in
                /\ session'[r].legs = session[r].legs
      PROVE  LegTableFollows'
  <2>1. \A r \in Made : \A k \in Leg :
           WillBeIn(session'[r], k) <=> WillBeIn(session[r], k)
    BY <1>2 DEF WillBeIn, Changes
  <2> QED BY <1>0, <1>1, <1>2, <2>1, SameFollows
<1>3. ASSUME NEW c \in Conn, TcpNext(c) PROVE LegTableFollows'
  BY <1>0, <1>3, TcpFollows
<1>4. CASE UdpMoves \/ \E p \in Peer, i \in Id : UdpFrame(p, i)
  BY <1>0, <1>4, UdpFollows
<1>5. ASSUME NEW s \in Made, Take(s) PROVE LegTableFollows'
  <2>1. PICK q : Taken(session[s], q) /\ Updated(s, q)
    BY <1>0, <1>5, TakeEffect
  <2>2. /\ Made' = Made /\ session'[s] = q
        /\ \A r \in Made \ {s} : session'[r] = session[r]
    BY <1>0, <2>1, OneUpdated DEF Taken
  <2>3. \A k : WillBeIn(q, k) <=> WillBeIn(session[s], k)
    BY <1>0, <2>1, Numbers, TakenWillBeIn
  <2>4. q.life = session[s].life BY <2>1 DEF Taken
  <2> QED BY <1>0, <1>1, <1>5, <2>2, <2>3, <2>4, SameFollows DEF Take
<1>6. ASSUME NEW s \in Made, SessionEnds(s) PROVE LegTableFollows'
  <2>1. /\ Made' = Made /\ session'[s].life = "ended"
        /\ \A r \in Made \ {s} : session'[r] = session[r]
    BY <1>0, <1>6, EndEffect
  <2>2. \A r : \A k \in Leg : Attached(r, k)' <=> Attached(r, k)
    BY <1>1, <1>6 DEF SessionEnds
  <2> QED BY <1>0, <2>1, <2>2 DEF LegTableFollows
<1>7. CASE Reap
  <2>1. session' = StopReaped /\ Made' = Made
    BY <1>0, <1>7, ReapSessions DEF Reap
  <2>2. \A r \in Made :
           /\ session'[r].life = "running" => session[r].life = "running"
           /\ session'[r].in = session[r].in
           /\ session'[r].legs = session[r].legs
    BY <1>0, <2>1, StopEffect
  <2> QED BY <1>2, <1>7, <2>1, <2>2 DEF Reap
<1>8. CASE Elapse
  <2>1. /\ Made' = Made
        /\ \A s \in Made : /\ session'[s] = Aged(session[s])
                           /\ session[s] \in SessionState
    BY <1>0, <1>8, ElapseSessions, Numbers
  <2>2. \A s \in Made : /\ session'[s].life = session[s].life
                        /\ session'[s].in = session[s].in
                        /\ session'[s].legs = session[s].legs
    BY <2>1, AgedEffect
  <2>3. \A r : \A k \in Leg : Attached(r, k)' <=> Attached(r, k)
    <3>1. \A c \in Conn : conn'[c].at = conn[c].at /\ conn'[c].sess = conn[c].sess
      BY <1>0, <1>8, QuietEffect
    <3> QED BY <1>8, <3>1 DEF Attached, Elapse
  <2>4. \A r \in Made : \A k \in Leg :
           WillBeIn(session'[r], k) <=> WillBeIn(session[r], k)
    BY <2>2 DEF WillBeIn, Changes
  <2> QED BY <1>0, <2>1, <2>2, <2>3, <2>4, SameFollows
<1>9. CASE UNCHANGED vars
  BY <1>2, <1>9 DEF vars, Made
<1>10. ~ Stop BY DEF Stop
<1> QED
  BY <1>3, <1>4, <1>5, <1>6, <1>7, <1>8, <1>9, <1>10 DEF Next, SessionNext

-----------------------------------------------------------------------------
(* Theorems                                                                *)

\* The parts of the inductive invariant: the types with what goroutines are
\* bound to, the map against the lives, the ages against the deadlines, and
\* the tables of legs against the transports.
IInv == TypeInv /\ OneSession /\ Recent /\ LegTableFollows

\* The inductive invariant holds in every state of the registry: it says how
\* the map, the sessions and the goroutines of the legs belong together
\* (session, attachLeg, detachLeg, post, reapSessions, serveUDP).
THEOREM Safety == Spec => []IInv
<1>1. Init => IInv
  <2> SUFFICES ASSUME Init PROVE IInv OBVIOUS
  <2>1. Made = {} BY DEF Init, Made
  <2>2. OneSession BY <2>1 DEF Init, OneSession
  <2>3. Recent BY DEF Init, Recent
  <2>4. LegTableFollows BY <2>1 DEF LegTableFollows
  <2> QED BY <2>2, <2>3, <2>4, TypeInit DEF IInv
<1>2. IInv /\ [Next]_vars => IInv'
  BY TypeStep, OwnStep, RecentStep, FollowsStep DEF IInv
<1> QED BY <1>1, <1>2, PTL DEF Spec

\* Every variable stays in its range: no channel outgrows its capacity and the
\* UDP reader's table its limit.
THEOREM TypeCorrect == Spec => []TypeOK
<1>1. IInv => TypeOK BY DEF IInv, TypeInv
<1> QED BY <1>1, Safety, PTL

\* A device has one session, in the map for as long as it runs, whichever of
\* the goroutines and the reaper comes first.
THEOREM DeviceHasOneSession == Spec => []OneSession
<1>1. IInv => OneSession BY DEF IInv
<1> QED BY <1>1, Safety, PTL

\* With its channel worked off, the table of a session that runs is the set of
\* the legs that are attached, for any number of connections and peers, any
\* capacity of the channel and across the resets of the UDP reader's table.
THEOREM LegTablesFollow == Spec => []LegTableFollows
<1>1. IInv => LegTableFollows BY DEF IInv
<1> QED BY <1>1, Safety, PTL

\* The reaper spares the session of a TCP leg that waits for its next frame,
\* whenever the read deadline is not longer than the idle limit.
THEOREM ReaperSparesLegs == Spec => LegKeepsSession
<1>1. IInv /\ [Next]_vars =>
        [\A s \in Made :
           (session[s].life = "running" /\ session'[s].life = "cancelled") =>
             \A c \in Conn : ~ (conn[c].sess = s /\ conn[c].at = "reading")]_vars
  BY KeptStep DEF IInv
<1> QED BY <1>1, Safety, PTL DEF Spec, LegKeepsSession
=============================================================================
