------------------------------- MODULE TcpFlow -------------------------------
(***************************************************************************)
(* The transparent TCP proxy of one session (icg/concentrator/tcpflow.go   *)
(* and the parts of session.go that drive it).  Four kinds of goroutine    *)
(* share a flow: the session goroutine, which serves the reassembled       *)
(* uplink and the channel out; the goroutine that dials the upstream and   *)
(* then reads it; the write pump; and whichever of them closes it.         *)
(*                                                                         *)
(* A flow is named by the order in which it was opened, so that a tuple    *)
(* used twice gives two flows.  The numbering, stashing and sending of the *)
(* downlink frames (sendTCPDown) is module Downlink; here a frame is noted *)
(* in log.  Upstream hosts and the device are the environment: they may    *)
(* refuse, stall, send, end or reset whenever they like.  One step of the  *)
(* session goroutine serves one reassembled chunk; opcodes and empty       *)
(* payloads that change nothing are left out.                              *)
(***************************************************************************)
EXTENDS Naturals, Sequences, FiniteSets

CONSTANTS Tuple,               \* 5-tuples of LAN connections
          MaxFlowsPerSession,  \* Config.MaxFlowsPerSession
          QueueCap,            \* capacity of tcpFlow.writes (64)
          OutCap,              \* capacity of Session.out (512)
          MaxFlows,            \* bound: flows opened in all
          MaxChunks,           \* bound: chunks reassembled from the uplink
          MaxReads,            \* bound: chunks read from one upstream
          MaxResets            \* bound: handshakes

ASSUME TcpFlowAssumption ==
  /\ IsFiniteSet(Tuple)
  /\ MaxFlowsPerSession \in Nat \ {0} /\ QueueCap \in Nat \ {0}
  /\ OutCap \in Nat \ {0}
  /\ MaxFlows \in Nat /\ MaxChunks \in Nat /\ MaxReads \in Nat
  /\ MaxResets \in Nat

VARIABLES
  \* the session goroutine
  running,  \* it has not left its loop
  flows,    \* the map flows: the flow of each tuple, or None
  opened,   \* stats.TCPFlows
  stall,    \* the flow and chunk an enqueue is waiting with, or none
  waits,    \* flows whose close the session goroutine is in
  out,      \* the channel out
  chunks,   \* chunks served so far; also numbers the payloads
  resets,   \* handshakes accepted
  srvDone,  \* the server's context is cancelled
  \* the flows and their goroutines
  flow,     \* flow[f]: the struct tcpFlow and the state of its goroutines
  log       \* log[f]: what happened to the bytes of flow f

session == <<running, flows, opened, stall, waits, chunks, resets>>
vars    == <<session, out, srvDone, flow, log>>

Flow == 1 .. MaxFlows
None == 0

NoStall == [flow |-> None, chunk |-> 0]

Live == {t \in Tuple : flows[t] # None}

-----------------------------------------------------------------------------
Init ==
  /\ running = TRUE /\ flows = [t \in Tuple |-> None] /\ opened = 0
  /\ stall = NoStall /\ waits = {} /\ out = <<>>
  /\ chunks = 0 /\ resets = 0 /\ srvDone = FALSE
  /\ flow = [f \in Flow |->
       [tuple |-> None, conn |-> "none", done |-> FALSE,
        writes |-> <<>>, main |-> "none", pump |-> "none", hand |-> <<>>]]
  /\ log = [f \in Flow |->
       [given |-> {}, lost |-> {}, written |-> <<>>,
        read |-> 0, sent |-> 0, told |-> FALSE, byClient |-> FALSE]]

-----------------------------------------------------------------------------
(* close.  The caller that gets there first marks the flow closed and done *)
(* and then closes the socket; any other caller waits for it (once.Do).    *)

Closed(fl, set) ==
  [f \in Flow |-> IF f \in set THEN [fl[f] EXCEPT !.done = TRUE] ELSE fl[f]]

CloseSocket(f) ==
  /\ flow[f].done /\ flow[f].conn = "open"
  /\ flow' = [flow EXCEPT ![f].conn = "closed"]
  /\ UNCHANGED <<session, out, srvDone, log>>

-----------------------------------------------------------------------------
(* The session goroutine                                                   *)

\* It is in its select: not in an enqueue, and not in a close.
Serving ==
  running /\ stall = NoStall /\ \A f \in waits : flow[f].conn # "open"

AtLimit == Cardinality(Live) >= MaxFlowsPerSession

\* openFlow, for a tuple without a flow: the struct and its dial goroutine.
Opened(t) ==
  [flow EXCEPT ![opened + 1].tuple = t, ![opened + 1].main = "dialing"]

\* f.writes <- b
Push(fl, f, k) ==
  /\ flow' = [fl EXCEPT ![f].writes = Append(@, k)]
  /\ log' = [log EXCEPT ![f].given = @ \cup {k}]

Serve ==
  /\ Serving /\ chunks < MaxChunks /\ chunks' = chunks + 1
  /\ waits' = {}
  /\ UNCHANGED <<running, resets, out, srvDone>>

\* CONNECT.  At the limit the client gets a DISCONNECT.
Connect(t) ==
  /\ Serve
  /\ \/ /\ flows[t] = None /\ ~ AtLimit /\ opened < MaxFlows
        /\ flows' = [flows EXCEPT ![t] = opened + 1]
        /\ opened' = opened + 1 /\ flow' = Opened(t)
     \/ /\ flows[t] # None \/ AtLimit
        /\ UNCHANGED <<flows, opened, flow>>
  /\ UNCHANGED <<stall, log>>

\* Faulty variant of Payload: a full queue loses its head.
PayloadOverwrites(t) ==
  LET f == flows[t]
  IN  /\ Serve /\ f # None
      /\ \/ flow[f].done /\ UNCHANGED <<flow, log>>
         \/ /\ ~ flow[f].done /\ Len(flow[f].writes) < QueueCap
            /\ Push(flow, f, chunks)
         \/ /\ ~ flow[f].done /\ Len(flow[f].writes) >= QueueCap
            /\ Push([flow EXCEPT ![f].writes = Tail(@)], f, chunks)
      /\ UNCHANGED <<flows, opened, stall>>

\* PAYLOAD, for a tuple with a flow: enqueue, as far as it gets at once.
Payload(t) ==
  LET f == flows[t]
  IN  /\ Serve /\ f # None
      /\ \/ flow[f].done /\ UNCHANGED <<stall, flow, log>>
         \/ /\ ~ flow[f].done /\ Len(flow[f].writes) < QueueCap
            /\ Push(flow, f, chunks) /\ UNCHANGED stall
         \/ /\ ~ flow[f].done /\ Len(flow[f].writes) >= QueueCap
            /\ stall' = [flow |-> f, chunk |-> chunks]
            /\ log' = [log EXCEPT ![f].given = @ \cup {chunks}]
            /\ UNCHANGED flow
      /\ UNCHANGED <<flows, opened>>

\* PAYLOAD for a tuple without one: its CONNECT was skipped, open it now.
PayloadOpens(t) ==
  /\ Serve /\ flows[t] = None
  /\ \/ AtLimit /\ UNCHANGED <<flows, opened, flow, log>>
     \/ /\ ~ AtLimit /\ opened < MaxFlows
        /\ flows' = [flows EXCEPT ![t] = opened + 1]
        /\ opened' = opened + 1 /\ Push(Opened(t), opened + 1, chunks)
  /\ UNCHANGED stall

\* DISCONNECT
Disconnect(t) ==
  LET f == flows[t]
  IN  /\ Serving /\ chunks < MaxChunks /\ chunks' = chunks + 1
      /\ f # None
      /\ flow' = Closed(flow, {f}) /\ waits' = {f}
      /\ flows' = [flows EXCEPT ![t] = None]
      /\ log' = [log EXCEPT ![f].byClient = TRUE]
      /\ UNCHANGED <<running, opened, stall, resets, out, srvDone>>

\* Faulty variant of StallTimesOut: no time.After.
StallLasts == stall # NoStall /\ FALSE /\ UNCHANGED vars

\* enqueue gives up after two seconds: the chunk is lost.
StallTimesOut ==
  /\ stall # NoStall /\ stall' = NoStall
  /\ log' = [log EXCEPT ![stall.flow].lost = @ \cup {stall.chunk}]
  /\ UNCHANGED <<running, flows, opened, waits, chunks, resets, out, srvDone,
                 flow>>

\* enqueue gets its place in the queue, or sees the flow go away.
StallEnds ==
  /\ stall # NoStall /\ stall' = NoStall
  /\ \/ /\ Len(flow[stall.flow].writes) < QueueCap
        /\ flow' = [flow EXCEPT ![stall.flow].writes = Append(@, stall.chunk)]
        /\ UNCHANGED log
     \/ /\ flow[stall.flow].done /\ UNCHANGED flow
        /\ log' = [log EXCEPT ![stall.flow].lost = @ \cup {stall.chunk}]
  /\ UNCHANGED <<running, flows, opened, waits, chunks, resets, out, srvDone>>

\* handleUpstream: forward a chunk, or tell the client that the upstream is
\* gone and drop whatever flow its tuple has now.
HandleUpstream ==
  LET u == Head(out)
      t == flow[u.flow].tuple
      g == flows[t]
  IN  /\ Serving /\ out # <<>> /\ out' = Tail(out)
      /\ IF u.closed
         THEN /\ log' = [log EXCEPT ![u.flow].told = TRUE]
              /\ flow' = Closed(flow, {g} \ {None}) /\ waits' = {g} \ {None}
              /\ flows' = [flows EXCEPT ![t] = None]
         ELSE /\ log' = [log EXCEPT ![u.flow].sent = u.n]
              /\ waits' = {} /\ UNCHANGED <<flow, flows>>
      /\ UNCHANGED <<running, opened, stall, chunks, resets, srvDone>>

LiveFlows == {flows[t] : t \in Live}

\* Faulty variant of ResetForHandshake: the old flows are forgotten, not closed.
ResetForgets ==
  /\ Serving /\ resets < MaxResets /\ resets' = resets + 1
  /\ waits' = {} /\ flows' = [t \in Tuple |-> None]
  /\ UNCHANGED <<running, opened, stall, chunks, out, srvDone, flow, log>>

\* A handshake is accepted: resetForHandshake closes and forgets every flow.
\* The channel out is not drained.
ResetForHandshake ==
  /\ Serving /\ resets < MaxResets /\ resets' = resets + 1
  /\ flow' = Closed(flow, LiveFlows) /\ waits' = LiveFlows
  /\ flows' = [t \in Tuple |-> None]
  /\ UNCHANGED <<running, opened, stall, chunks, out, srvDone, log>>

\* Faulty variant of Shutdown: the sockets are left to the read pumps.
ShutdownOnlyLeaves ==
  /\ Serving /\ running' = FALSE
  /\ UNCHANGED <<flows, opened, stall, waits, chunks, resets, out, srvDone,
                 flow, log>>

\* The session was stopped (by the reaper, or with the server): shutdown
\* closes the flows, and nobody serves out from here on.
Shutdown ==
  /\ Serving /\ running' = FALSE
  /\ flow' = Closed(flow, LiveFlows) /\ waits' = LiveFlows
  /\ UNCHANGED <<flows, opened, stall, chunks, resets, out, srvDone, log>>

ServerStops ==
  /\ ~ srvDone /\ srvDone' = TRUE
  /\ UNCHANGED <<session, out, flow, log>>

-----------------------------------------------------------------------------
(* The goroutine that dials and then reads                                 *)

Moves(f, from, to) == flow[f].main = from /\ flow' = [flow EXCEPT ![f].main = to]

\* Faulty variant of Posts: the item is dropped when the channel is full.
PostsOrDrops(item) == out' = IF Len(out) < OutCap THEN Append(out, item) ELSE out

\* Faulty variant of Posts: the end of the server is not looked at.
PostsForever(item) == Len(out) < OutCap /\ out' = Append(out, item)

\* postUpstream: wait for room in the channel, or for the server to end.
Posts(item) ==
  \/ Len(out) < OutCap /\ out' = Append(out, item)
  \/ srvDone /\ UNCHANGED out

DialReturns(f) ==
  /\ Moves(f, "dialing", "dialed") \/ Moves(f, "dialing", "ended")
  /\ UNCHANGED <<session, out, srvDone, log>>

\* Faulty variant of MayAdopt: the closed flag is not looked at.
MayAlwaysAdopt(f) == TRUE

MayAdopt(f) == ~ flow[f].done

\* adopt: unless the flow was closed meanwhile, it gets the socket, a write
\* pump and a reader.
Adopt(f) ==
  /\ flow[f].main = "dialed"
  /\ flow' = IF MayAdopt(f)
             THEN [flow EXCEPT ![f].conn = "open", ![f].main = "reading",
                               ![f].pump = "running"]
             ELSE [flow EXCEPT ![f].main = "over"]
  /\ UNCHANGED <<session, out, srvDone, log>>

\* conn.Read returns bytes.
Read(f) ==
  /\ flow[f].conn = "open" /\ log[f].read < MaxReads
  /\ Moves(f, "reading", "posting")
  /\ log' = [log EXCEPT ![f].read = @ + 1]
  /\ UNCHANGED <<session, out, srvDone>>

PostData(f) ==
  /\ Moves(f, "posting", "reading")
  /\ Posts([flow |-> f, closed |-> FALSE, n |-> log[f].read])
  /\ UNCHANGED <<session, srvDone, log>>

\* conn.Read fails: the upstream ended or reset, or the socket was closed.
ReadEnds(f) ==
  /\ Moves(f, "reading", "ended")
  /\ UNCHANGED <<session, out, srvDone, log>>

\* Faulty variant of PostEnd: a failed dial is not reported.
PostEndIfDialed(f) ==
  /\ Moves(f, "ended", "closing")
  /\ IF flow[f].conn = "none" THEN UNCHANGED out
     ELSE Posts([flow |-> f, closed |-> TRUE, n |-> 0])
  /\ UNCHANGED <<session, srvDone, log>>

\* The end of the upstream, or the failure to dial it, is reported and then
\* the flow is closed.
PostEnd(f) ==
  /\ Moves(f, "ended", "closing")
  /\ Posts([flow |-> f, closed |-> TRUE, n |-> 0])
  /\ UNCHANGED <<session, srvDone, log>>

MainCloses(f) ==
  /\ flow[f].main = "closing"
  /\ flow' = [flow EXCEPT ![f].main = "over", ![f].done = TRUE]
  /\ UNCHANGED <<session, out, srvDone, log>>

-----------------------------------------------------------------------------
(* The write pump.  Its select may see the queue or the end first.         *)

PumpTakes(f) ==
  /\ flow[f].pump \in {"running", "flushing"}
  /\ flow[f].hand = <<>> /\ flow[f].writes # <<>>
  /\ flow' = [flow EXCEPT ![f].hand = <<Head(flow[f].writes)>>,
                          ![f].writes = Tail(@)]
  /\ UNCHANGED <<session, out, srvDone, log>>

PumpSeesDone(f) ==
  /\ flow[f].pump = "running" /\ flow[f].hand = <<>> /\ flow[f].done
  /\ flow' = [flow EXCEPT ![f].pump = "flushing"]
  /\ UNCHANGED <<session, out, srvDone, log>>

PumpEnds(f) ==
  /\ flow[f].pump = "flushing" /\ flow[f].hand = <<>> /\ flow[f].writes = <<>>
  /\ flow' = [flow EXCEPT ![f].pump = "over"]
  /\ UNCHANGED <<session, out, srvDone, log>>

\* conn.Write succeeds; a slow upstream takes as long as it likes.
Write(f) ==
  /\ flow[f].hand # <<>> /\ flow[f].conn = "open"
  /\ flow' = [flow EXCEPT ![f].hand = <<>>]
  /\ log' = [log EXCEPT ![f].written = Append(@, Head(flow[f].hand))]
  /\ UNCHANGED <<session, out, srvDone>>

\* conn.Write fails: the upstream reset, or the socket was closed.
WriteFails(f) ==
  /\ flow[f].hand # <<>>
  /\ flow' = [flow EXCEPT ![f].hand = <<>>, ![f].pump = "over"]
  /\ UNCHANGED <<session, out, srvDone, log>>

-----------------------------------------------------------------------------
SessionNext ==
  \/ \E t \in Tuple : Connect(t) \/ Payload(t) \/ PayloadOpens(t) \/ Disconnect(t)
  \/ StallTimesOut \/ StallEnds
  \/ HandleUpstream \/ ResetForHandshake \/ Shutdown

MainNext(f) ==
  DialReturns(f) \/ Adopt(f) \/ Read(f) \/ PostData(f) \/ ReadEnds(f)
    \/ PostEnd(f) \/ MainCloses(f)

PumpNext(f) ==
  PumpTakes(f) \/ PumpSeesDone(f) \/ PumpEnds(f) \/ Write(f) \/ WriteFails(f)

Next ==
  \/ SessionNext \/ ServerStops
  \/ \E f \in Flow : MainNext(f) \/ PumpNext(f) \/ CloseSocket(f)

\* Goroutines run; the dialer has a timeout; a read or write on a closed
\* socket returns.  Nothing is assumed of an upstream that stays silent or
\* takes no bytes.  Senders blocked on a channel are served in turn.
Fairness ==
  /\ WF_vars(HandleUpstream) /\ WF_vars(StallTimesOut)
  /\ WF_vars(srvDone /\ Shutdown)
  /\ \A f \in Flow :
       /\ WF_vars(DialReturns(f)) /\ WF_vars(Adopt(f))
       /\ SF_vars(PostData(f)) /\ SF_vars(PostEnd(f))
       /\ WF_vars(MainCloses(f)) /\ WF_vars(CloseSocket(f))
       /\ WF_vars(flow[f].conn = "closed" /\ ReadEnds(f))
       /\ WF_vars(flow[f].conn = "closed" /\ WriteFails(f))
       /\ WF_vars(PumpTakes(f)) /\ WF_vars(PumpSeesDone(f)) /\ WF_vars(PumpEnds(f))

Spec == Init /\ [][Next]_vars

FairSpec == Spec /\ Fairness

-----------------------------------------------------------------------------
(* Properties                                                              *)

FlowState ==
  [tuple : Tuple \cup {None}, conn : {"none", "open", "closed"}, done : BOOLEAN,
   writes : Seq(0 .. MaxChunks), hand : Seq(0 .. MaxChunks),
   main : {"none", "dialing", "dialed", "reading", "posting", "ended",
           "closing", "over"},
   pump : {"none", "running", "flushing", "over"}]

LogState ==
  [given : SUBSET (0 .. MaxChunks), lost : SUBSET (0 .. MaxChunks),
   written : Seq(0 .. MaxChunks), read : 0 .. MaxReads, sent : 0 .. MaxReads,
   told : BOOLEAN, byClient : BOOLEAN]

Item == [flow : Flow, closed : BOOLEAN, n : 0 .. MaxReads]

\* Every variable stays in its range; in particular no queue and no channel
\* exceeds its capacity.
TypeOK ==
  /\ running \in BOOLEAN /\ srvDone \in BOOLEAN
  /\ flows \in [Tuple -> Flow \cup {None}] /\ opened \in 0 .. MaxFlows
  /\ stall = NoStall \/ stall \in [flow : Flow, chunk : 0 .. MaxChunks]
  /\ waits \subseteq Flow
  /\ chunks \in 0 .. MaxChunks /\ resets \in 0 .. MaxResets
  /\ out \in Seq(Item) /\ Len(out) <= OutCap
  /\ flow \in [Flow -> FlowState]
  /\ \A f \in Flow : Len(flow[f].writes) <= QueueCap
  /\ log \in [Flow -> LogState]

\* What went into the queue of f; chunks are numbered in the order they come.
Accepted(f) ==
  {k \in log[f].given : /\ k \notin log[f].lost
                        /\ stall # [flow |-> f, chunk |-> k]}

\* What the upstream of f has got or will get, in order.
Stream(f) == log[f].written \o flow[f].hand \o flow[f].writes

Elements(s) == {s[i] : i \in DOMAIN s}

\* A session never has more flows than its limit.
FlowLimit == Cardinality(Live) <= MaxFlowsPerSession

\* A socket that nobody is closing belongs to the flow its tuple has in a
\* running session: whatever order the dial, the DISCONNECT, the handshake and
\* the shutdown come in, no socket is left open behind the session's back
\* ("this socket must not be left open").
NoOrphanSocket ==
  \A f \in Flow :
     (flow[f].conn = "open" /\ ~ flow[f].done) =>
        running /\ flows[flow[f].tuple] = f

\* There is one upstream socket per tuple, also when the client closes a tuple
\* and uses it again while the first dial is still in flight.
OneSocketPerTuple ==
  \A f, g \in Flow :
     (/\ flow[f].conn = "open" /\ flow[g].conn = "open"
      /\ flow[f].tuple = flow[g].tuple) => f = g

\* A flow that died by itself and is still in the map has its report waiting
\* in the channel: the session will remove it, and tell the client.
DeadFlowIsReported ==
  \A t \in Live :
     (running /\ ~ srvDone /\ flow[flows[t]].done) =>
        \E i \in DOMAIN out : out[i].closed /\ out[i].flow = flows[t]

\* Every chunk the session gave to the flow is written, waits in the queue, or
\* is one that enqueue gave up on after two seconds: all once and in their
\* order, with no other hole, whatever the pump, the stall and the close do in
\* between.
StreamIsWritten ==
  \A f \in Flow :
     flow[f].pump # "over" =>
        /\ Elements(Stream(f)) = Accepted(f)
        /\ \A i, j \in DOMAIN Stream(f) : i < j => Stream(f)[i] < Stream(f)[j]

\* Where the channel holds bytes of flow f, and how many reads were posted.
Waiting(f) == {i \in DOMAIN out : out[i].flow = f /\ ~ out[i].closed}

ReadsPosted(f) == log[f].read - (IF flow[f].main = "posting" THEN 1 ELSE 0)

\* What the upstream sends goes to the client in order and without a gap,
\* until the server ends: the channel never loses or reorders a chunk, also
\* when it is full and across a handshake (postUpstream).  The refinement of
\* BytePipes below rests on it.
DownInOrder ==
  ~ srvDone =>
    \A f \in Flow :
       /\ log[f].sent <= ReadsPosted(f)
       /\ {out[i].n : i \in Waiting(f)} = log[f].sent + 1 .. ReadsPosted(f)
       /\ \A i, j \in Waiting(f) : i < j => out[i].n < out[j].n

\* Each flow is a pair of byte pipes: tuples used twice, closes, a full queue,
\* a full channel and handshakes never show, but in that a pipe may stop
\* (enqueue, writePump, postUpstream, handleUpstream).
Pipes == INSTANCE BytePipes WITH
           Chunk   <- 0 .. MaxChunks,
           given   <- [f \in Flow |-> Accepted(f)],
           written <- [f \in Flow |-> log[f].written],
           read    <- [f \in Flow |-> log[f].read],
           sent    <- [f \in Flow |-> log[f].sent],
           told    <- [f \in Flow |-> log[f].told],
           over    <- srvDone

ImplementsBytePipes == Pipes!Spec

\* The client is told of the end of every upstream and of every failed dial,
\* as long as the session runs.
EndIsTold ==
  \A f \in Flow :
     flow[f].main = "ended" ~> (log[f].told \/ ~ running \/ srvDone)

\* Whatever is read from an upstream goes to the client as long as the session
\* runs, although the channel may be full and the session goroutine held up in
\* an enqueue or a close: the reader, the pump and the session never wait for
\* each other for good (postUpstream, enqueue, handleUpstream).
ReadsAreSent ==
  \A f \in Flow, n \in 1 .. MaxReads :
     (log[f].read >= n) ~> (log[f].sent >= n \/ ~ running \/ srvDone)

\* Stopping a session releases its sockets, those still being dialled too
\* (stop: "ends the session goroutine and releases its sockets").
StopReleasesSockets ==
  ~ running ~> [](\A f \in Flow : flow[f].conn # "open")

\* When the server ends, every goroutine of every flow ends.
ServerStopEndsGoroutines ==
  srvDone ~> \A f \in Flow : /\ flow[f].main \in {"none", "over"}
                             /\ flow[f].pump \in {"none", "over"}

\* The comment in writePump: what was queued before the close is flushed, "the
\* upstream is entitled to see it" (tcpflow.go:284).  So when the client's
\* DISCONNECT shuts the socket, nothing is left for the pump to write, unless
\* the upstream has failed it before.
QueuedBeforeCloseIsWritten ==
  \A f \in Flow :
     (log[f].byClient /\ flow[f].conn = "closed") =>
        flow[f].pump = "over" \/ (flow[f].hand = <<>> /\ flow[f].writes = <<>>)
=============================================================================
