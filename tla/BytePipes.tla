------------------------------ MODULE BytePipes ------------------------------
(***************************************************************************)
(* What the TCP proxy promises for each of its flows, without tuples, map, *)
(* goroutines, queues, channel or sockets: a pipe in each direction.  The  *)
(* upstream gets chunks the session accepted, in their order; the client   *)
(* gets the reads of the upstream, one after the other, and hears of the   *)
(* end after the last of them and only once.  When the server is over, the *)
(* pipe to the client may skip.  A pipe may stop for good at any point.    *)
(***************************************************************************)
EXTENDS Naturals, Sequences

CONSTANTS Flow,   \* the flows
          Chunk   \* the chunks, numbered as they come from the client

VARIABLES given,    \* given[f]: the chunks accepted for the upstream of f
          written,  \* written[f]: those it has got, in order
          read,     \* read[f]: how often the upstream of f was read
          sent,     \* sent[f]: the last of these reads that was sent down
          told,     \* told[f]: the client has heard of the end
          over      \* the server is over

vars == <<given, written, read, sent, told, over>>

Init ==
  /\ given = [f \in Flow |-> {}] /\ written = [f \in Flow |-> <<>>]
  /\ read = [f \in Flow |-> 0] /\ sent = [f \in Flow |-> 0]
  /\ told = [f \in Flow |-> FALSE] /\ over = FALSE

\* A chunk is accepted, later than all before it.
Accept(f, k) ==
  /\ ~ told[f] /\ \A j \in given[f] : j < k
  /\ given' = [given EXCEPT ![f] = @ \cup {k}]
  /\ UNCHANGED <<written, read, sent, told, over>>

\* The upstream gets the first chunk it has not got yet.
Write(f, k) ==
  /\ k \in given[f] /\ \A i \in DOMAIN written[f] : written[f][i] < k
  /\ \A j \in given[f] : j < k => \E i \in DOMAIN written[f] : written[f][i] = j
  /\ written' = [written EXCEPT ![f] = Append(@, k)]
  /\ UNCHANGED <<given, read, sent, told, over>>

Read(f) ==
  /\ ~ told[f] /\ read' = [read EXCEPT ![f] = @ + 1]
  /\ UNCHANGED <<given, written, sent, told, over>>

\* Read n goes to the client.
Send(f, n) ==
  /\ ~ told[f] /\ n \in sent[f] + 1 .. read[f]
  /\ n = sent[f] + 1 \/ over
  /\ sent' = [sent EXCEPT ![f] = n]
  /\ UNCHANGED <<given, written, read, told, over>>

\* The client hears of the end.
Tell(f) ==
  /\ ~ told[f] /\ (sent[f] = read[f] \/ over)
  /\ told' = [told EXCEPT ![f] = TRUE]
  /\ UNCHANGED <<given, written, read, sent, over>>

Stop == over' = TRUE /\ UNCHANGED <<given, written, read, sent, told>>

Next ==
  \/ Stop
  \/ \E f \in Flow :
       \/ Read(f) \/ Tell(f)
       \/ \E k \in Chunk : Accept(f, k) \/ Write(f, k)
       \/ \E n \in sent[f] + 1 .. read[f] : Send(f, n)

Spec == Init /\ [][Next]_vars
=============================================================================
