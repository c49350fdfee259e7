------------------------------ MODULE Registry ------------------------------
(***************************************************************************)
(* Who owns a device: the map of sessions and the goroutines that share it *)
(* (icg/concentrator/server.go, and the in channel of session.go).         *)
(*                                                                         *)
(*   - one goroutine per TCP connection (serveTCPConn), bound to a session *)
(*     by its first frame for as long as it is connected;                  *)
(*   - one reader per UDP port (serveUDP), with a table of peers that is   *)
(*     emptied when it is full;                                            *)
(*   - one goroutine per session (run), which owns the table of legs and   *)
(*     changes it only for the messages it takes from its channel in;      *)
(*   - the reaper (reapSessions), which stops sessions that are idle.      *)
(*                                                                         *)
(* One unit of Elapse is long (tens of seconds) against the steps of the   *)
(* goroutines: time passes only when none of them can move.                *)
(***************************************************************************)
EXTENDS Naturals, Sequences, FiniteSets

CONSTANTS Id,           \* values of the header's icg_id
          Conn,         \* TCP connections; each connects once
          Peer,         \* source addresses seen by the UDP port
          MaxPeers,     \* maxPeers, the size of the UDP reader's table
          InCap,        \* capacity of the channel in
          ReadTimeout,  \* readTimeout of a TCP leg, in units of Elapse
          SessionIdle,  \* Config.SessionIdle, in the same units
          MaxSessions   \* bound: sessions created

ASSUME RegistryAssumption ==
  /\ MaxPeers \in Nat \ {0} /\ InCap \in Nat \ {0} /\ MaxSessions \in Nat
  /\ ReadTimeout \in Nat \ {0} /\ SessionIdle \in Nat
  /\ ReadTimeout <= SessionIdle
  /\ Conn \cap Peer = {}

VARIABLES
  stopping,  \* the server's context is cancelled
  registry,  \* Server.sessions: the session of each icg_id, 0 if none
  session,   \* every session made: [life, idle, in, legs]
  conn,      \* the goroutine of each connection: [at, sess, quiet]
  peers,     \* the UDP reader's table: peer -> session, 0 if not there
  reader     \* the UDP reader: [at, peer, id, todo]

vars == <<stopping, registry, session, conn, peers, reader>>

None   == 0
NoPost == 0     \* idle of a session nothing was ever posted to
Made   == DOMAIN session
Leg    == Conn \cup Peer
Msg    == [kind : {"frame", "add", "drop"}, leg : Leg]

NewSession == [life |-> "running", idle |-> NoPost, in |-> <<>>, legs |-> {}]

Init ==
  /\ stopping = FALSE
  /\ registry = [i \in Id |-> None]
  /\ session = <<>>
  /\ conn = [c \in Conn |-> [at |-> "none", sess |-> None, quiet |-> 0]]
  /\ peers = [p \in Peer |-> None]
  /\ \E p \in Peer, i \in Id :
        reader = [at |-> "read", peer |-> p, id |-> i, todo |-> {}]

-----------------------------------------------------------------------------
(* Session: lookup and the three ways into its channel                     *)

Known(i) == registry[i] # None

\* session: the session s of icg_id i, made and started if there is none.
Lookup(i, s) ==
  \/ Known(i) /\ s = registry[i] /\ UNCHANGED <<registry, session>>
  \/ /\ ~ Known(i) /\ s = Len(session) + 1
     /\ session' = Append(session, NewSession)
     /\ registry' = [registry EXCEPT ![i] = s]

\* The bound leaves a session over for the reader while it empties its table.
MayMake(i) ==
  Known(i) \/ Len(session) + Cardinality({"resetting", "binding"} \cap {reader.at})
                < MaxSessions

HasRoom(s) == Len(session[s].in) < InCap

\* Faulty variant of CanSend: does not see the server stop.
CanSendStillRunning(s) == HasRoom(s)

\* attachLeg and detachLeg block until there is room or the server stops.
CanSend(s) == HasRoom(s) \/ stopping

\* With both arms ready the select takes either.
Send(s, kind, l) ==
  /\ CanSend(s)
  /\ \/ /\ HasRoom(s)
        /\ session' = [session EXCEPT ![s].in =
                         Append(@, [kind |-> kind, leg |-> l])]
     \/ (stopping \/ ~ HasRoom(s)) /\ UNCHANGED session

\* Faulty variant of Stamped: only a frame that is queued counts as activity.
StampedIfQueued(s) == IF HasRoom(s) THEN 1 ELSE session[s].idle

\* post notes the time whether or not the frame is queued (lastRxUnixNano).
Stamped(s) == 1

\* post drops the frame when the channel is full.
Queued(s, l) ==
  IF HasRoom(s) THEN Append(session[s].in, [kind |-> "frame", leg |-> l])
                ELSE session[s].in

Post(s, l) ==
  \/ session' = [session EXCEPT ![s].idle = Stamped(s), ![s].in = Queued(s, l)]
  \/ stopping /\ session' = [session EXCEPT ![s].idle = Stamped(s)]

-----------------------------------------------------------------------------
(* serveTCPConn                                                            *)

Goto(c, at) == conn' = [conn EXCEPT ![c].at = at]

Accept(c) ==
  /\ ~ stopping /\ conn[c].at = "none"
  /\ conn' = [conn EXCEPT ![c].at = "reading", ![c].quiet = 0]
  /\ UNCHANGED <<stopping, registry, session, peers, reader>>

\* The first frame names the session.
TcpFirstFrame(c, i) ==
  /\ conn[c].at = "reading" /\ conn[c].sess = None /\ MayMake(i)
  /\ \E s \in 1 .. MaxSessions :
        /\ Lookup(i, s)
        /\ conn' = [conn EXCEPT ![c].at = "attaching", ![c].sess = s]
  /\ UNCHANGED <<stopping, peers, reader>>

TcpAttach(c) ==
  /\ conn[c].at = "attaching"
  /\ Send(conn[c].sess, "add", c)
  /\ Goto(c, "posting")
  /\ UNCHANGED <<stopping, registry, peers, reader>>

TcpFrame(c) ==
  /\ conn[c].at = "reading" /\ conn[c].sess # None
  /\ Goto(c, "posting")
  /\ UNCHANGED <<stopping, registry, session, peers, reader>>

\* The read deadline is set anew once the frame is posted.
TcpPost(c) ==
  /\ conn[c].at = "posting"
  /\ Post(conn[c].sess, c)
  /\ conn' = [conn EXCEPT ![c].at = "reading", ![c].quiet = 0]
  /\ UNCHANGED <<stopping, registry, peers, reader>>

\* The peer hangs up, the framing fails or the read deadline passes.
ReadEnds(c) ==
  /\ conn[c].at = "reading"
  /\ Goto(c, IF conn[c].sess = None THEN "done" ELSE "detaching")
  /\ UNCHANGED <<stopping, registry, session, peers, reader>>

\* Faulty variant of Detaches: gives up when the channel is full.
DetachesIfRoom(c) ==
  \/ Send(conn[c].sess, "drop", c)
  \/ ~ HasRoom(conn[c].sess) /\ UNCHANGED session

Detaches(c) == Send(conn[c].sess, "drop", c)

TcpDetach(c) ==
  /\ conn[c].at = "detaching"
  /\ Detaches(c)
  /\ Goto(c, "done")
  /\ UNCHANGED <<stopping, registry, peers, reader>>

-----------------------------------------------------------------------------
(* serveUDP                                                                *)

InTable == {p \in Peer : peers[p] # None}

\* A frame from peer p: the reader knows it, ...
UdpFrameKnown(p) ==
  /\ reader.at = "read" /\ ~ stopping /\ peers[p] # None
  /\ reader' = [reader EXCEPT !.at = "posting", !.peer = p]
  /\ UNCHANGED <<stopping, registry, session, conn, peers>>

TableFull == Cardinality(InTable) >= MaxPeers

\* looks its session up, ...
Bind(p, i) ==
  \E s \in 1 .. MaxSessions :
     /\ Lookup(i, s)
     /\ peers' = [peers EXCEPT ![p] = s]

UdpFrameNew(p, i) ==
  /\ reader.at = "read" /\ ~ stopping /\ peers[p] = None /\ ~ TableFull
  /\ MayMake(i) /\ Bind(p, i)
  /\ reader' = [at |-> "attaching", peer |-> p, id |-> i, todo |-> {}]
  /\ UNCHANGED <<stopping, conn>>

\* or empties its table first.
UdpFrameFull(p, i) ==
  /\ reader.at = "read" /\ ~ stopping /\ peers[p] = None /\ TableFull
  /\ Len(session) < MaxSessions
  /\ reader' = [at |-> "resetting", peer |-> p, id |-> i, todo |-> InTable]
  /\ UNCHANGED <<stopping, registry, session, conn, peers>>

UdpFrame(p, i) ==
  UdpFrameKnown(p) \/ UdpFrameNew(p, i) \/ UdpFrameFull(p, i)

\* The table is emptied, one blocking detachLeg after the other.
UdpReset(q) ==
  /\ reader.at = "resetting" /\ q \in reader.todo
  /\ Send(peers[q], "drop", q)
  /\ peers' = [peers EXCEPT ![q] = None]
  /\ reader' = [reader EXCEPT !.todo = @ \ {q},
                              !.at = IF reader.todo = {q} THEN "binding" ELSE @]
  /\ UNCHANGED <<stopping, registry, conn>>

UdpBind ==
  /\ reader.at = "binding" /\ Bind(reader.peer, reader.id)
  /\ reader' = [reader EXCEPT !.at = "attaching"]
  /\ UNCHANGED <<stopping, conn>>

UdpAttach ==
  /\ reader.at = "attaching"
  /\ Send(peers[reader.peer], "add", reader.peer)
  /\ reader' = [reader EXCEPT !.at = "posting"]
  /\ UNCHANGED <<stopping, registry, conn, peers>>

UdpPost ==
  /\ reader.at = "posting"
  /\ Post(peers[reader.peer], reader.peer)
  /\ reader' = [reader EXCEPT !.at = "read"]
  /\ UNCHANGED <<stopping, registry, conn, peers>>

\* The listeners are closed when the server stops.
UdpEnds ==
  /\ stopping /\ reader.at = "read"
  /\ reader' = [reader EXCEPT !.at = "ended"]
  /\ UNCHANGED <<stopping, registry, session, conn, peers>>

-----------------------------------------------------------------------------
(* run: the session goroutine                                              *)

LegsAfter(legs, msg) ==
  CASE msg.kind = "add"   -> legs \cup {msg.leg}
    [] msg.kind = "drop"  -> legs \ {msg.leg}
    [] msg.kind = "frame" -> legs

\* A cancelled session may still take messages: its select has both arms.
Take(s) ==
  /\ session[s].life # "ended" /\ session[s].in # <<>>
  /\ session' = [session EXCEPT ![s].in = Tail(@),
                                ![s].legs = LegsAfter(@, Head(session[s].in))]
  /\ UNCHANGED <<stopping, registry, conn, peers, reader>>

SessionEnds(s) ==
  /\ session[s].life = "cancelled" \/ (session[s].life = "running" /\ stopping)
  /\ session' = [session EXCEPT ![s].life = "ended"]
  /\ UNCHANGED <<stopping, registry, conn, peers, reader>>

-----------------------------------------------------------------------------
(* reapSessions, the clock and the end of the server                       *)

\* IdleFor() > SessionIdle; idle is one more than the age of the last post.
Idle(s) == session[s].idle > SessionIdle + 1

Reaped == {i \in Id : registry[i] # None /\ Idle(registry[i])}

\* Faulty variant of StopReaped: the sessions are forgotten, not stopped.
StopNone == session

\* sess.stop()
StopReaped ==
  [s \in Made |-> IF s \in {registry[i] : i \in Reaped}
                       /\ session[s].life = "running"
                  THEN [session[s] EXCEPT !.life = "cancelled"]
                  ELSE session[s]]

Reap ==
  /\ ~ stopping /\ Reaped # {}
  /\ session' = StopReaped
  /\ registry' = [i \in Id |-> IF i \in Reaped THEN None ELSE registry[i]]
  /\ UNCHANGED <<stopping, conn, peers, reader>>

ConnMoves(c) ==
  \/ conn[c].at = "posting"
  \/ conn[c].at \in {"attaching", "detaching"} /\ CanSend(conn[c].sess)

ReaderMoves ==
  \/ reader.at \in {"posting", "binding"}
  \/ reader.at = "attaching" /\ CanSend(peers[reader.peer])
  \/ reader.at = "resetting" /\ \E q \in reader.todo : CanSend(peers[q])

SessionMoves(s) ==
  \/ session[s].life = "running" /\ session[s].in # <<>>
  \/ session[s].life = "cancelled"

Due(c) == conn[c].at = "reading" /\ conn[c].quiet = ReadTimeout

Elapse ==
  /\ \A c \in Conn : ~ ConnMoves(c) /\ ~ Due(c)
  /\ ~ ReaderMoves
  /\ \A s \in Made : ~ SessionMoves(s)
  /\ conn' = [c \in Conn |-> IF conn[c].at = "reading"
                             THEN [conn[c] EXCEPT !.quiet = @ + 1]
                             ELSE conn[c]]
  /\ session' = [s \in Made |->
                   IF session[s].idle \in 1 .. SessionIdle + 1
                   THEN [session[s] EXCEPT !.idle = @ + 1] ELSE session[s]]
  /\ UNCHANGED <<stopping, registry, peers, reader>>

Stop ==
  /\ ~ stopping /\ stopping' = TRUE
  /\ UNCHANGED <<registry, session, conn, peers, reader>>

-----------------------------------------------------------------------------
TcpNext(c) ==
  \/ Accept(c) \/ TcpAttach(c) \/ TcpFrame(c) \/ TcpPost(c)
  \/ ReadEnds(c) \/ TcpDetach(c)
  \/ \E i \in Id : TcpFirstFrame(c, i)

UdpMoves ==
  \/ UdpBind \/ UdpAttach \/ UdpPost \/ UdpEnds
  \/ \E q \in Peer : UdpReset(q)

SessionNext(s) == Take(s) \/ SessionEnds(s)

Next ==
  \/ \E c \in Conn : TcpNext(c)
  \/ \E p \in Peer, i \in Id : UdpFrame(p, i)
  \/ UdpMoves
  \/ \E s \in Made : SessionNext(s)
  \/ Reap \/ Elapse \/ Stop

\* The goroutines are scheduled and the clock goes on.  A frame that never
\* comes is not promised.  Of a session's two arms the select takes each one
\* sooner or later.
Fairness ==
  /\ \A c \in Conn :
        /\ WF_vars(TcpAttach(c)) /\ WF_vars(TcpPost(c)) /\ WF_vars(TcpDetach(c))
        /\ WF_vars(Due(c) /\ ReadEnds(c))
  /\ WF_vars(UdpMoves) /\ WF_vars(Elapse)
  /\ \A s \in 1 .. MaxSessions :
        /\ WF_vars(s \in Made /\ Take(s))
        /\ WF_vars(s \in Made /\ SessionEnds(s))

\* The devices go away: no connection stays open for ever.
DevicesLeave == \A c \in Conn : SF_vars(ReadEnds(c))

Spec == Init /\ [][Next]_vars

FairSpec == Spec /\ Fairness

LeavingSpec == FairSpec /\ DevicesLeave

-----------------------------------------------------------------------------
(* Properties                                                              *)

SessionState ==
  [life : {"running", "cancelled", "ended"}, idle : 0 .. SessionIdle + 2,
   in : Seq(Msg), legs : SUBSET Leg]

ConnState ==
  [at : {"none", "reading", "attaching", "posting", "detaching", "done"},
   sess : {None} \cup Made, quiet : 0 .. ReadTimeout]

ReaderState ==
  [at : {"read", "posting", "binding", "attaching", "resetting", "ended"},
   peer : Peer, id : Id, todo : SUBSET Peer]

\* Every variable stays in its range; in particular no channel outgrows its
\* capacity and the UDP table its limit (serveUDP, post).
TypeOK ==
  /\ stopping \in BOOLEAN
  /\ registry \in [Id -> {None} \cup Made]
  /\ session \in Seq(SessionState) /\ Len(session) <= MaxSessions
  /\ \A s \in Made : Len(session[s].in) <= InCap
  /\ conn \in [Conn -> ConnState]
  /\ peers \in [Peer -> {None} \cup Made] /\ Cardinality(InTable) <= MaxPeers
  /\ reader \in ReaderState

\* A device has one session: until the server stops, the sessions that run are
\* exactly those in the map, and no two icg_ids share one (session,
\* reapSessions: the map and the life of a session change together).
OneSession ==
  ~ stopping =>
    /\ \A s \in Made : session[s].life = "running" =>
          \E i \in Id : registry[i] = s
    /\ \A i \in Id : registry[i] # None =>
          /\ session[registry[i]].life = "running"
          /\ \A j \in Id : registry[j] = registry[i] => j = i

\* The changes of the leg table that wait in a session's channel.
Changes(r, l) ==
  {n \in DOMAIN r.in : r.in[n].leg = l /\ r.in[n].kind # "frame"}

\* Leg l is in the table of session r once its channel is worked off.
WillBeIn(r, l) ==
  IF Changes(r, l) = {} THEN l \in r.legs
  ELSE \E n \in Changes(r, l) : /\ r.in[n].kind = "add"
                                /\ \A m \in Changes(r, l) : m <= n

Attached(s, l) ==
  \/ l \in Conn /\ conn[l].sess = s
       /\ conn[l].at \in {"posting", "reading", "detaching"}
  \/ l \in Peer /\ peers[l] = s
       /\ ~ (reader.at = "attaching" /\ reader.peer = l)

\* The leg table follows the transports: with the channel worked off, a
\* session that runs knows exactly the legs whose goroutine has attached them
\* and not yet detached them.  No path is missing and none is left behind to
\* send downlink data into (attachLeg, detachLeg, run).
LegTableFollows ==
  ~ stopping =>
    \A s \in Made : session[s].life = "running" =>
      \A l \in Leg : WillBeIn(session[s], l) <=> Attached(s, l)

\* The reaper never takes a session from under a TCP leg that is bound to it
\* and waits for its next frame: such a leg times out first, and every frame
\* it brought counts, shed or not (reapSessions, post, readTimeout).
LegKeepsSession ==
  [][\A s \in Made :
       (session[s].life = "running" /\ session'[s].life = "cancelled") =>
         \A c \in Conn : ~ (conn[c].sess = s /\ conn[c].at = "reading")]_vars

\* "The legs re-register on their next datagram" (server.go:453): a table
\* reset ends.  It does not when a peer's session was reaped and its channel
\* has filled up since.
ResetEnds == (reader.at = "resetting") ~> (reader.at # "resetting")

Returned ==
  /\ stopping /\ reader.at = "ended"
  /\ \A c \in Conn : conn[c].at \in {"none", "done"}
  /\ \A s \in Made : session[s].life = "ended"

\* Run returns after a stop: every goroutine it waits for ends, also one that
\* blocks on the channel of a session nobody serves (attachLeg, detachLeg).
\* It needs devices that go away: nothing closes an accepted connection, and
\* one that keeps talking keeps serveTCPConn reading.
StopEndsServer == stopping ~> Returned
=============================================================================
