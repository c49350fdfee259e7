# Verification of the ICG concentrator

This directory models `icgd`, the Go concentrator for ZTE's ICG tunnel, in
TLA+. TLC checks the models on small instances; TLAPS proves the theorems in
the `_proofs` modules for every value of the constants. `PROJECT.json` lists
the components, the runs, the mutants that show each property can fail, the
lines each definition models, the hazards, and the theorems.

    tlc -workers 2 -config MCReorder.cfg MCReorder.tla     # any MC*.cfg
    tlapm Reorder_proofs.tla                               # any *_proofs.tla

## The system

A device (the CPE) opens several tunnels ("legs"), TCP and UDP, over several
WANs to one concentrator. Frames of one direction and one protocol are numbered
in one 32-bit sequence space, whatever leg carries them; the receiver puts them
in order, asks for what is missing and gives up after a while. The concentrator
terminates the LAN connections of the device and opens its own sockets towards
the internet.

| Component | Code | State | Operations | Interacts with |
|---|---|---|---|---|
| Uplink reassembler | `icg/concentrator/reorder.go` | position, packets held, three timers, statistics | `Push`, `Missing`, `Expire`, `Ack`, `Reset` | called by the session for every frame and every tick; output feeds the proxies |
| Stash and downlink counter | `stash.go`, `session.go`, `tcpflow.go` | map and insertion order of sent frames, next number | `put`, `get`, `ackUpTo`, retransmission | filled by the proxies, served to the device |
| TCP proxy | `tcpflow.go` | flow map; per flow a write queue, a socket, a done channel | connect, payload, disconnect, dial, pumps, close | the session's channel `out`; upstream hosts |
| UDP NAT | `udpflow.go`, `ipv4.go` | socket per tuple | send, read, reap | as the TCP proxy |
| Session | `session.go` | handshake state, legs, everything above | one goroutine with a select over `in`, `out`, a ticker | transports post to `in`, flows to `out` |
| Leg scheduler | `session.go` | RTT per leg, leg table | `pickLeg`, `betterThan`, `observeRTT` | chooses the leg of each downlink frame |
| Server | `server.go` | session map, UDP peer tables | accept, serve, reap, stop | makes and stops sessions |
| Handshake, admission | `session.go`, `client/client.go` | state, admitted | request, answer, confirm, keepalive, refusal | resets reassembler, stash and flows |
| Frame codec, stream reader | `icg/frame.go`, `body.go`, `opcode.go` | stream buffer | encode, parse, resynchronise | every transport |
| Notices, snapshots, HTTP, UI | `notices.go`, `snapshot.go`, `http.go`, `ui.go` | rings and copies for display | publish, render | read only |
| Client library | `client/client.go` | numbering, handshake state | handshake, flow, collect | test peer of the concentrator |
| Commands and tooling | `cmd/icgd`, `cmd/icg-probe`, `emu`, `deploy` | none of their own | start, probe, install | - |

What is hard here: sequence numbers that wrap, packets that come late, twice or
never, and timers that must neither skip what is not missing nor stall for ever;
four goroutines per TCP flow with sockets, queues and a dial in flight when the
flow is closed; sessions that are reaped while transports still hold them;
bounded channels on which somebody blocks; a handshake that resets everything
on requests that arrive on legs with no order between them; messages of one
epoch (the time between two handshakes) that arrive in the next.
`PROJECT.json`, "hazards", lists each at its line.

What makes each component correct:

- reassembler: ordered delivery, each packet once; every packet and every step
  of the position accounted for; bounded memory; asked for before given up;
  nothing held for ever;
- stash: bounded; map and list agree; what the peer lacks can be sent again;
- TCP proxy: no byte lost or reordered in the queues; no socket left open behind
  the session; every read and every end gets to the client, whoever waits for
  whom;
- server: one session per device; a leg table that follows the transports; no
  session reaped from under a leg in use; a stop that ends;
- handshake: it ends, or fails at a broken leg; the session mirrors the device;
  only a request of another leg or a new run of the device makes it forget data;
- UDP NAT: sockets of silent tuples reaped, none leaked; replies in order; every
  reader ends; the parsers cut inside the packet;
- leg scheduler: the best leg of the kind asked for, and only one that was open
  when the choice began; estimates within what was measured;
- stream reader: every frame returned, once, in order, whatever the cuts and the
  noise, and no giving up while there is one;
- client: what is sent again counts once; what it returns of a flow has no hole.

## The modules

| Module | Models | Extends |
|---|---|---|
| `SeqSpace` | the sequence space: signed difference `Diff`, addition `Plus`, for a word of `2 * Half` values | |
| `OrderedDelivery` | abstract specification: ordered delivery over unbounded packet numbers | |
| `Reorder` | the reassembler as the session drives it | `SeqSpace`; refines `OrderedDelivery` |
| `Downlink` | counter, stash, acknowledgement and retransmission, and the peer | `SeqSpace` |
| `BytePipes` | abstract specification: a byte pipe in each direction for every flow | |
| `TcpFlow` | session goroutine, dialer/reader, write pump and closer of TCP flows | refines `BytePipes` |
| `Registry` | session map, `serveTCPConn`, `serveUDP`, channel `in`, reaper, clock, stop | |
| `Handshake` | device and session over several TCP legs | |
| `UdpNat` | the UDP NAT of a session: parsers, table, sockets and their readers, idle reaping | |
| `LegSelect` | the leg table, RTT measurement and the choice of a leg, one leg of the walk a step | |
| `Stream` | the stream reader of a TCP leg, byte by byte, and the sender below it | |
| `Client` | the legs' readers of the client library, its channel, and the two calls that collect a flow | `Stream`, `SeqSpace` |
| `Reorder_proofs`, `Downlink_proofs`, `TcpFlow_proofs`, `Registry_proofs`, `Handshake_proofs`, `UdpNat_proofs`, `LegSelect_proofs`, `Client_proofs` | theorems | the component and `TLAPS` |
| `MC...` | values of the constants for TLC | the component |

Each module names the code of its actions; `PROJECT.json`, "map", gives the
lines. Definitions marked "Faulty variant of X" are not part of a
specification: they are plausible mistakes, and the list of mutants says which
property each one violates when it replaces X.

### SeqSpace and Reorder

A packet is a natural, the k-th the peer sends in an epoch; `wire[k]` is its
wrapping number. `next`, `maxSeen` and the keys of the map are wire numbers, as
in the code; the history variables (`pos`, `start`, `delivered`, ...) are in
packet numbers and only properties read them. `Push` has an action per branch:
settling, late, next, duplicate, ahead, over the cap. `Tick` is `Missing`
followed by `Expire`, in the order of `Session.tick`. Timestamps are ages that
stop growing where no comparison can tell them apart; `Elapse` is the passing
of time. Left out: the counter `Requested`, the defaults of `ReorderConfig`,
and the second reading of the clock inside `drain`, taken as equal to the
first. Assumed: the peer's packets in flight span less than half the sequence
space, which is what the signed difference is for. `Arrives` offers only
packets of the present epoch. `Push` has no such guard: a data frame of an
earlier epoch that is still in flight on another leg would be taken by its
number, and what that does to the position is not covered.

`DeliveredInOrder`, `OffersAccounted` and `PositionAccounted` are what the rest
of the system trusts the reassembler for; `TimerRunsIffBlocked`, `MaxSeenIsHeld`,
`AsksOnlyForGaps` and `AskedBeforeGivenUp` are about the two stages "request
retransmission, then skip". A request names at most `Limit` numbers (50 in the
code), so `AskedBeforeGivenUp` speaks of the first `Limit` packets of a gap.
`ImplementsOrderedDelivery` says all of it at once:
with the wire numbers hidden, only ordered delivery is left.

### Downlink

`m` and `order` are the map and list of `stash`; `SendDown` numbers, stashes
and sends a frame (`sendTCPDown`, `sendUDPDown`), also while no leg is open;
`HandleAck` and `Resend` are the handlers of `session.go`. The peer is the
device, which is not in the repository: it passes frames in order, asks for
gaps, gives up on some, and acknowledges what it has passed. An acknowledgement
may come late, twice, or after a handshake (`HandleStaleAck`); the history
variable `crossed` remembers that one of the last kind was handled in this
epoch. The downlink numbers of an epoch start at 0. Bounds beside the counters:
the peer is less than half the space behind, and no frame stays stashed for a
whole turn of the counter. Display counters are left out. `ResetForHandshake`
resets session and peer in one step. The code resets its side at every request
on every leg, the device once (PROTOCOL.md, section 6, item 3): frames sent
between the first and the last of those requests belong to an epoch the peer is
not in, and no run covers a reset of the session alone.

`RetainsUnacked` is the point of the stash: what the peer has not passed can be
sent again unless `StashLimit` newer frames came. It holds in every epoch that
no message has crossed into. `HoleIsFilled` is its live half.

### TcpFlow

A flow is named by the order in which flows are opened, so a tuple used twice
is two flows. The session goroutine (`Connect`, `Payload`, `PayloadOpens`,
`Disconnect`, `HandleUpstream`, `ResetForHandshake`, `Shutdown`), the goroutine
that dials and then reads (`DialReturns`, `Adopt`, `Read`, `PostData`,
`ReadEnds`, `PostEnd`, `MainCloses`), the write pump (`PumpTakes`, `Write`, ...)
and `CloseSocket` interleave freely. An `enqueue` that finds the queue full
leaves the session goroutine in `stall` until there is room, the flow is done or
two seconds have passed. One step serves one reassembled chunk; payloads that
are empty and opcodes that change nothing are left out; flows closed together
at a reset are marked done in one step. `handleUpstream` closes whatever flow
the tuple has now, so the late end of a first use of a tuple closes the second:
the code does so and the model with it.

The history `log[f]` notes what the session gave to a flow (`given`), what
`enqueue` gave up on (`lost`) and what the upstream got (`written`).
`StreamIsWritten` ties them together: the chunks a two-second stall dropped are
the only holes, and everything else is written, in the pump's hand or in the
queue, in its order. `ImplementsBytePipes` says what a flow promises to both
ends: the upstream gets the next chunk not lost, the client the next read, and
of the end it hears once, after the last read; no chunk is accepted afterwards.
The server's end is the one exception: from then on a post may be dropped
(`postUpstream`). A pipe may stop at any point, as a closed socket makes it; that
it does not stop without the client hearing of it is `EndIsTold`.
`NoOrphanSocket` and `OneSocketPerTuple` are about the dial
that returns after the flow was closed.

### Registry

One goroutine per TCP connection, one UDP reader, one per session, and the
reaper. A transport looks a session up, attaches, posts, detaches, with the
channel `in` (capacity `InCap`) between them: `attachLeg` and `detachLeg` block
or see the server stop, `post` drops. A session that has ended takes nothing
from its channel any more; the transports that still hold it do not know.
`Elapse` is one unit of minutes and happens only when no goroutine can move.
The end of the context and the closing of the listeners are one step. Left out:
notices, the bad-datagram table, the `closed` flag of a leg and write deadlines.
Connections have distinct remote addresses, one frame comes per datagram, and
`MayMake` keeps the bound on sessions from blocking a table reset.

A frame from a UDP peer whose session was reaped goes to the old session's
channel until the table is emptied; `registry_wedge` shows what that leads to.

`LegKeepsSession` rests on `ReadTimeout <= SessionIdle` (90 seconds against five
minutes by default): a TCP leg that says nothing is gone before its session is.
Between the lookup of a connection's session and its first post the reaper may
still take the session; that window is in the hazard list.

### Handshake

`Handshake` of the client library, one send at a time: `Call` begins it,
`SendRequest` is one turn of its first loop, `Accept` and `TimesOut` are
`WaitFor`, `SendConfirm` a turn of the second loop. Both loops go over every TCP
leg, and `SendFails` is the error either returns as soon as the send on one leg
fails, whatever was sent on the others. A call that failed may be made again, as
the device does once a second; the code of `Handshake` asks once. A send on a leg
that has just broken may also succeed and be lost, and a leg that breaks takes
with it what was in flight on it. Data then goes on any leg.

The session answers every request it admits and resets itself at each. A leg
keeps order, legs are not ordered with each other. A stranger with the same
icg_id sends any frame at all (`StrangerSends`): a request under its own MAC
address, which `checkAdmission` may refuse, but also confirms, keepalives and
data, which `handleFrame` serves without a look at `admitted`. Admission is the
condition for an answer; RTT synchronisation, tunnel ids and the wording of
refusals are left out, and what the session has taken is the set `got`.

Limits. Every frame that arrives is handled: `post` drops frames when the
session's channel is full, which `Registry` has and `Handshake` has not. The last
call the bound allows is not timed out, so that an answer that comes is seen.
The real device skips tunnels that are down; that is not in the repository,
except as the repeated call.

### UdpNat

A socket is named by the order in which it is opened. The session goroutine
delivers a tunnelled packet (`DeliverUDP`, `DropUDP` for what the parsers
refuse), sends replies down (`HandleUpstream`), reaps (`ReapFlows`), and closes
all at a handshake or when it ends; each socket has a reader (`Read`, `Post`,
`ReadFails`), which blocks when the channel `out` is full. A packet is the set
of header fields that `parseIPv4` and `parseUDP` look at, with any values.
`parseIPv4` refuses a total length that is too large, not one that ends in the
header, and slices by it; nobody recovers, so that packet ends the program
(`Panic`, after which `fatal` holds it). `OnlyShortTotalsPanic` says that no other
packet does, whatever its size and lengths. `lastUse` is renewed by uplink datagrams only, as in the code: a tuple that only receives is
reaped. Left out: replies without data, which the reader ignores, and the
encoding of a reply with its checksums.

A read error other than the close ends the reader (on a connected socket an
ICMP refusal is one) and leaves the tuple in the table; `udp_deaf` shows it.

### LegSelect

`pickLeg` walks a Go map, in an order nobody knows, while transports set the
flag `closed` of legs: `Visit` is one turn of the loop, `Close` may come between
two. `scan` is the choice in progress, with the legs that were closed when it
began (`dead`, a history). `OnRTTAck` takes a sample from the time the device
echoes, late, twice or empty; `Smoothed` is the code's integer arithmetic. A leg
that returns is another leg (the hazard list has the case of a reused key).

`PickIsBest` states the order on its own (`Outranks`), not by `betterThan`; that
one pass over the map finds the best rests on `betterThan` being a strict order,
which the proofs establish. A leg is measured only when the device starts an RTT
exchange, not by the traffic it gets, and the estimate of a leg that has fallen
silent does not age; no property says otherwise.

### Stream and Client

`Stream` is the reader of a TCP leg: `Fill` takes any number of the bytes that
have arrived, `Decode` and `Resynced` go byte by byte. The magic has two bytes
instead of four and the length one instead of four; a body may look like a
header. The noise between frames may be a cut magic, or a magic with a length no
frame has, but not a complete plausible header (`StreamAssumption`): no reader
could tell that from a frame.

`Client` puts a TCP leg and a UDP leg, whose datagrams may be lost, late or
repeated, in front of the channel `Frames` and one call. The concentrator
numbers its frames in one space for all flows and may send a frame again on any
leg. `CountFlowData` counts each number once and does not end at a DISCONNECT;
`CollectFlowData` holds what comes by number and assembles from the lowest.
`CollectedIsStream` says what that gives: a piece of the flow without a hole. It
does not say more, because the code does not: the piece ends at a number another
flow used, begins at the lowest number that has arrived, and with `done = nil`
the call returns at the first DISCONNECT even when earlier payload is still on
the way. The handshake and the sending side of the client are in `Handshake` and
`Reorder`.

## Runs

| Run | Instance | Shows |
|---|---|---|
| `reorder` | 4-bit numbers, 5 packets from 0 or 14, 5 offers, 2 epochs, cap 2 | the properties of the reassembler, with fairness of clock and ticker: `HeldIsReleased` |
| `downlink` | 3-bit numbers, 9 frames, limit 3, 2 epochs | bound, retention, `HoleIsFilled` |
| `tcpflow` | 1 flow, 3 chunks up, 2 down, queues of 1, 1 handshake | a pair of byte pipes (`ImplementsBytePipes`), no byte lost in the queues; every read sent on, every end told; stops that end |
| `tcpflow_reuse` | 2 tuples, 2 flows, limit 1, 1 handshake | closes racing dials; symmetry over the tuples, safety only |
| `tcpflow_flush` (violation) | 1 flow, 3 chunks, queue of 1 | a DISCONNECT shuts the socket while a chunk is queued |
| `registry` | 1 connection, 2 peers, 2 ids, table of 1, channel of 1, 2 sessions | one session per device, leg table, reaper, stop |
| `registry_wedge` (violation) | no connection, 2 peers, 1 id | a table reset blocks on the channel of a reaped session |
| `handshake` | 2 legs, a stranger with 1 frame of any kind, 2 calls, 1 restart, 1 broken leg | the handshake ends or fails at a broken leg, is mirrored, and forgets nothing on a leg |
| `udpnat` | 2 inside hosts, 1 outside, limit 1, 2 sockets, channel of 1, 7 packets that are refused and 1 that panics, 1 handshake | no socket leaked, replies in order, silence closes, readers end; the parsers |
| `udp_deaf` (violation) | the same packets, limit 2, no handshake | a socket in the table whose reader has returned |
| `legs` | 2 TCP legs and a UDP leg, times 1 to 3, samples up to 2; symmetry over the TCP legs | the best live leg in every order of the walk; sound estimates |
| `client` | stream with 3 frames, noise twice, cut anywhere; or 3 numbers over the wrap, 2 TCP frames, 2 datagrams and one call | every frame once and in order; counting and assembling |

Why the bounds are enough. In `reorder` the cap (2) is passed, a gap spans the
wrap, three packets can be out of order, and time passes every threshold. In
`downlink` the numbers wrap, the limit is reached and there are more frames
than limit and half space together. Queues and channels of one slot make every
"full" branch reachable with few items; two flows are what a reused tuple and a
limit need; two sessions are what a reap and a fresh start need. Two legs and a
retry give every order of requests, confirms and data that matters, since the
session's handling of a frame depends on its state alone. Two sockets with a
limit of one are a tuple that is reaped and used again while its first reader
still posts. Three legs of two kinds, some measured, are all the cases of
`betterThan` and of the fallback, and a best leg that is beaten later in the
walk; that three do for any number is what the proof of `PickIsBest` says. In
`client` the stream is disturbed while no call runs (the reader does not depend
on the call) and frames are striped over both legs while one does, so that
either instance stays small; a frame's length, noise and a body that looks like
a header can straddle any two reads. Deadlock is checked
in `reorder` and `downlink`; in the other modules the server ends, or the bounded
traffic of the device does, and the runs say so with `CHECK_DEADLOCK FALSE`.

Symmetry is used only in `tcpflow_reuse` and `legs`, which check no liveness.

### Fairness

- Reorder: the ticker fires and the clock goes on (`Session.run`).
- Downlink: the peer asks for as long as it has a gap, a leg comes back, and
  the first frame missing is not lost every time (strong fairness: an assumption
  on the network, without which no retransmission scheme delivers).
- TcpFlow: goroutines run, the dialer has a timeout, operations on a closed
  socket return, and a sender blocked on a channel gets its turn (strong
  fairness: Go serves blocked senders in order). Nothing is assumed of
  upstreams that stay silent or take no bytes.
- Registry: goroutines and clock; each arm of a session's select is taken
  sooner or later. `DevicesLeave` in addition says that no connection stays
  open for ever. `StopEndsServer` needs it: nothing closes an accepted
  connection on a stop, so a device that sends at least once per read timeout
  keeps `Run` waiting.
- UdpNat: goroutines run, the ticker fires, the clock goes on, a read on a
  closed socket returns, and blocked senders are served in turn (strong
  fairness). Outside hosts promise nothing, and no packet that panics has to come.
- Client: the goroutine of the TCP leg runs, and bytes that were sent arrive.
  Nothing is assumed of datagrams, of the concentrator or of the caller.
- Handshake: the session works off what the legs bring, TCP delivers on a leg
  that lives, and the device calls (again after a failure, within the bound),
  goes through its loops and reads its legs. Nothing is assumed of legs that
  break, waits that time out, restarts and strangers.

### Where code and comments disagree

Three runs end in a violation; `PROJECT.json`, "findings", quotes the line each
one contradicts: `close`, called for the client's DISCONNECT, shuts the socket
before the flush that the write pump promises (`tcpflow_flush`: the first PAYLOAD
is in the queue, the socket open and the upstream healthy when the DISCONNECT
comes); a UDP table reset waits on the channel of a session that may
be gone (`registry_wedge`); a UDP tuple whose socket had a read error gets no
reply any more (`udp_deaf`).

More behaviours follow from the actions and are worth knowing, although no
run is about them. `Ack` does not distinguish what was delivered from what was
given up. The stash cannot tell an acknowledgement of an earlier epoch from one
of the present epoch, whose numbers start at 0 again; `RetainsUnacked` therefore
excludes the epochs that one has reached. `enqueue` drops a chunk although its
flow stays open, which leaves a hole in the stream. And a handshake on several
legs resets the session once per leg, the device once: `NothingForgotten` says
what may be lost that way.

- The comment at tcpflow.go:25-27 says that "a slow or blocked upstream socket can
  never stall the session goroutine". With the queue full, `enqueue` waits up to
  two seconds (`stall` in `TcpFlow`), and all other flows and the keepalives with
  it. `ReadsAreSent` says what holds: reads get to the client all the same.
- The comment at ipv4.go:52-53 tolerates a total length short of the buffer; one
  that is short of the header as well panics at line 67 (`Panic` in `UdpNat`).
- `handleFrame` (session.go:266-293) never looks at `admitted`: the data, confirms
  and acknowledgements of a device whose request was refused are served
  (`StrangerSends` in `Handshake`).
- `Client.Handshake` returns an error as soon as a send on one leg fails, also
  between the confirms, when the session is in BOTH_OK already (`SendFails`).
- A tuple that is used again may lose its second flow to the late end of the
  first. `DeadFlowIsReported` holds in spite of it; `ImplementsBytePipes`, checked
  for one flow and proved for any number, admits it, since a pipe may stop.

## Theorems

Proved for every width of the sequence numbers, every limit, timeout and bound,
and any number of devices, legs, tuples and sessions:

- `Reorder_proofs`: `WordArithmetic` (the sequence space is uint32 addition and
  the signed difference `int32(a - b)`), the lemmas on distances, and every
  safety and action property of the module
  (`MemoryBound`, `HeldIsAhead`, `TimerRunsIffBlocked`, `PositionAccounted`,
  `OffersAccounted`, `MaxSeenIsHeld`, `DeliveredInOrder`, `AsksOnlyForGaps`,
  `AskedBeforeGivenUp`) and the refinement of `OrderedDelivery`.
- `Downlink_proofs`: for every epoch that no message has crossed into,
  `OrderListsMap` (map and insertion order hold the same frames; no run checks
  it), `StashBound` and `RetainsUnacked`.
- `TcpFlow_proofs`: the capacities of queues and channel, the limit on flows,
  `NoOrphanSocket`, `OneSocketPerTuple`, `DeadFlowIsReported`,
  `StreamIsWritten`, `DownInOrder` and the refinement of `BytePipes`.
- `Registry_proofs`: `OneSession`, `LegTableFollows` and `LegKeepsSession`.
- `Handshake_proofs`: `NothingForgotten`.
- `UdpNat_proofs`: `SocketsAreMapped`, `RepliesInOrder`, `OnlyShortTotalsPanic`.
- `LegSelect_proofs`: `PickIsBest`, `PickIsLive`, `EstimateIsBetween`, and that
  `betterThan` is a strict order.
- `Client_proofs`: `ReadsWhatWasSent`, for a magic of any bytes and length, any
  noise that `StreamAssumption` admits and any buffer that holds a frame;
  `CountedOnce` and `CollectedIsStream`.

So every safety and action property that a passing run checks is also proved.
Each component has `Safety`, its inductive invariant, and most have `TypeCorrect`.

Assumptions: the `ASSUME`s of the modules (positive widths, limits and
capacities; finitely many tuples and packets; the stash
limit is less than half the sequence space, 8192 against 2^31 by default; the
read deadline of a TCP leg is not longer than the idle limit of a session; the
read buffer has room for the longest frame, 2 * `MaxBodyLen` in the code; noise
shows no magic with a plausible length; a frame's header in the body is the
number and the kind, `SubHdrLen = 2` elements in the model; the concentrator
has numbered less than half the space, without which no client could tell the
lowest number). Two
theorems have a hypothesis of their own. `GapsAreAskedFirst` needs
`RetransmitAfter <= SkipAfter` (60 ms against 1.5 s by default): with the
settings the other way round the skip comes first. `AdmittedDataStays` needs
`AllowedDevices = {Device}`: with the empty list, the default, any device that
presents the icg_id resets the session, as the code means it to; what holds
then is the part of `Safety` that speaks of the device's own legs.

The argument for the reassembler. None of the properties is inductive alone,
because the code compares wire numbers and the properties speak of packets.
`Numbering` bridges the two: as long as two packets are less than half the space
apart, the difference of their wire numbers is the difference of the packets;
`Position` keeps the packets that matter within that window and ties `next` to
`pos`. `HeldIsAhead` then makes "late", "next" and "ahead" in `Push` mean what
they say; `TimerRunsIffBlocked` and `SettleTimer` are needed to know that `drain`
and `Expire` run with something held; `Highest` keeps `maxSeen` at a packet that
was really offered. The lemmas on `drain` (`RunOfPackets`, `DrainReleases`) show
that the run it delivers is the longest run of consecutive packets at hand,
from which the invariant, the order of delivery and the step of the abstract
specification follow together.

`OffersAccounted` is inductive beside that invariant because a call releases
exactly as many packets as it takes out of the map: `Released` has the
cardinality of the run, and a packet that goes into the map was not there
(`Held` looks it up by wire number). `AsksOnlyForGaps` leads back from the
number `Missing` computes to a packet (`GapIsPacket`). `AskedBeforeGivenUp`
needs one more invariant, `AskedFor`: a request that is younger than the gap
has named the first `Limit` packets in front of everything held. A request that
is older than the gap is also older than `RetransmitAfter` when the gap expires,
so that tick asks again before it skips.

The argument for the stash. In an undisturbed epoch its content is always a run
of consecutive frames ending with the newest (`StashIsRun`), either reaching
down to what the peer has passed or exactly `StashLimit` long. `put` drops only
the oldest of the run, an acknowledgement frees a prefix, and everything else
leaves it alone. An acknowledgement that crosses a handshake may leave a hole;
the next handshake restores the invariant.

The argument for the proxy. Who owns a socket is spread over the map, the flag
`done`, the state of the dialing goroutine and the close the session goroutine
is in, so the invariant ties them together: a flow that is not done is in the
map of a running session (`Owned`), a flow has no socket before `adopt`
(`Undialed`), and an open socket that is no longer in the map is one the session
goroutine is closing right now (`Leaving`), which keeps it from serving the next
CONNECT until that socket is closed. `Reports` adds that a flow posts its end
before it closes itself. A step of a flow's own goroutines is `Calm`: it touches
neither the tuple nor the map, opens only what was dialed and not closed, and
closes only what was reported; every other step closes a set of tuples
(`Removing`) or opens one (`Opening`).

The order of the bytes needs invariants of its own. Upwards (`Streams`): what
was written, what the pump has in hand and what is queued are one increasing
sequence of exactly the chunks given and not lost; the chunk an `enqueue` waits
with is the last one served (`StallIsLast`), so it goes to the end. Downwards
(`ClientOrder`): of each flow, what the client has got, what is posted in the
channel and what a blocked reader holds are consecutive numbers without a gap
(`Ordered`); a post goes to the end and the session takes from the front.

The refinement of `BytePipes` adds what `DownInOrder` leaves open (`Fifo`), since
it ends with the server and does not speak of ends: nothing was sent that was not
posted (`SentWasPosted`); the end of a flow is behind all its reads (`InTurn`);
what waits was not sent before and its flow was not reported as ended
(`NotSentYet`); and a flow that was reported is past its end and out of the map,
so that it accepts no chunk (`ToldIsOut`). Then each step is at most one step of
a pipe: serving a CONNECT or PAYLOAD accepts (`AcceptStep`), the pump's write is
the upstream's next chunk because `StreamIsWritten` orders what is written before
what is in hand, a reader reads, `HandleUpstream` sends or tells, and closes,
dials, posts and handshakes change no pipe (`StepPipes`).

The argument for the registry. `OneSession` is about the map and the lives of
sessions only, but who is bound to a session (`Bound`) is needed to know that
every message goes to one that was made. `Recent` says that a connection that
reads has been quiet for at least as long as its session was idle, up to one
tick; with the assumption on the two limits that is why the reaper spares the
session, without any lock between the transport and the reaper.
`LegTableFollows` is stated with the channel worked off: `AppendWillBeIn` and
`TakenWillBeIn` say that posting appends the last word on a leg and taking a
message changes nothing of what the table will be. So attach and detach may be
late, but no interleaving of connections, peers, resets and a full channel lets
the table end up wrong.

The argument for the handshake. On each leg of the device no request follows
data of the same run, neither in flight nor behind what was taken already
(`LegsInOrder`), because the device asks only before it confirms and sends only
after; a request that resets the session therefore finds only data of other
legs or of earlier runs (`ForgottenRightly`). A stranger's legs bring
requests with another MAC address only (`StrangersAsk`), which the admission
check refuses; its other frames reset nothing.

The argument for the NAT: `TableExact` says that table and sockets name each
other, in both directions, as long as the session runs; one path that closes
without deleting, or deletes without closing, breaks it. `InOrder` adds the
replies: those a socket has read are posted once, in the order they were read,
whether or not its tuple is still in the table. `OnlyShortTotalsPanic` comes from
the parsers alone: `DataIsInside` is the arithmetic of the length fields, and
`Panic` is the only action that touches `fatal`.

The argument for the scheduler: a choice in progress is sound when the best so far outranks every
live leg already visited (`ScanSound`), which the next leg preserves because
`betterThan` is transitive, and which a leg that closes meanwhile cannot break;
measurements do not change during a choice, since the session goroutine makes
both. The rounded mean lies between the old estimate and the sample.

The argument for the stream reader. `Layout` says what the unread bytes are: for
each frame k not yet returned there is a sequence `rest[k]`, what is left of the
stream after it, which is the rest of some noise, the next frame and
`rest[k + 1]`; for the last frame returned it is `buf \o wire`. The sender appends
at the end of every `rest[k]` (`RestGrows`); moving bytes from the wire into the
buffer changes none; the reader only ever looks at the first. Three lemmas decide
what it does there, with any part of those bytes in the buffer: noise with a
frame behind it never decodes (`NoiseIsNoFrame`, the assumption on noise carried
over to every suffix of it); a frame decodes to its body or waits for its rest
(`FrameDecodes`); and the search for a magic, which may stop at a false one, drops
bytes that may straddle the next read, or find nothing, never goes past the
beginning of the next frame (`ResyncStops`). That the reader gives up only at the
end (`FillFailsAtEnd`) needs in addition that whatever waits for more bytes fits
into the buffer, and that what is left of a frame that has arrived as a whole
cannot wait. The invariant names a sequence for each frame, so TLC cannot
enumerate it; the run checks what follows from it.

The argument for the client. `SentInv` says that the i-th body has the i-th number
from `FirstSeq`; `NumbersInARow` that these are distinct and ordered by `Diff`,
because there are less than half the space. All that is on a leg, in `Frames` or
held was numbered (`AirInv`, `ChannelInv`, `CountInv`, `HeldInv`), so numbers and
frames are in bijection (`OneFramePerNumber`), and a repetition finds its number
taken. For `CollectedIsStream` no induction over the data is needed: `Lowest` is
the number of the first frame that arrived (`LowestIsFirst`), the run of numbers
is as long as the row of frames from it (`RunIsPiece`), and so the sequences that
the two sides flatten are equal, element by element.

Only model-checked: liveness under fairness (`HeldIsReleased`, `HoleIsFilled`,
`EndIsTold`, `ReadsAreSent`, `StopReleasesSockets`,
`ServerStopEndsGoroutines`, `StopEndsServer`, `SessionMirrors`, `HandshakeEnds`,
`SilenceClosesAll`, `PumpsEnd`, `EveryFrameIsRead`), which is beyond the prover.
Of the last one the safety half is proved: `FramesAreRead` says that a reader
that has returned an error had returned every frame. Not proved, because it does
not hold: anything about the stash of an epoch that a stale acknowledgement has
reached.

## Plan

Done, in order of importance: `Reorder`, `Downlink`, `TcpFlow`, `Registry`,
`Handshake`, `UdpNat`, `LegSelect`, `Stream`, `Client`. Next:

1. Legs whose key is reused (the late detach of an old connection removes the
   new leg), composed with `Registry` and with `Downlink`'s `legOpen`.
2. `Codec`: sequence lists, RTT bodies and flow headers as pure operators
   against reference definitions, with the width of the integers.
3. `Notices` (the ring, the collapsing of repeats, the cap on bad peers) and
   `EgressGuard`.

## Not modelled

HTTP and UI rendering, snapshots (copies for display), logging, installation
scripts, the emulation harness (it runs the device's own binary), and the probe
(a sequence of client calls that prints what it sees). Tunnelled ICMP is only
counted by the code. The device is modelled from what the code expects of it.
