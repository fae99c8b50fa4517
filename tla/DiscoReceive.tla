---------------------------- MODULE DiscoReceive ----------------------------
(* The way of a packet through a node: disco's receiver reads it, hands it over *)
(* an unbuffered channel to the goroutine of the peer it names, which answers a *)
(* ping through disco's sender, or puts a pong in the channel of an endpoint    *)
(* (room for one), whose goroutine takes it between its own pings.  Meanwhile    *)
(* the engine adds and closes peers and endpoints; whoever waits on a channel    *)
(* whose reader is gone waits for ever.                                          *)
EXTENDS Naturals

CONSTANTS
    Peers,      \* peer objects
    Endpoints,  \* endpoint objects
    Owner,      \* the peer of an endpoint
    NoEndpoint

ASSUME OwnerAssumption ==
    /\ Peers # {}
    /\ Owner \in [Endpoints -> Peers]
    /\ NoEndpoint \notin Endpoints

VARIABLES
    closed,     \* the closed channel of disco
    table,      \* peers in disco's table
    stored,     \* endpoints in the table of their peer
    pclosed,    \* peers whose closed channel is closed
    eclosed,    \* endpoints whose closed channel is closed
    rcv,        \* disco.runReceiver: where it is, and the packet it holds
    prun,       \* discoPeer.run of every peer: the same
    erun,       \* discoPeerEndpoint.run of every endpoint: where it is
    srun,       \* disco.runSender: where it is
    recvChan    \* packets in the channel of an endpoint

vars == <<closed, table, stored, pclosed, eclosed, rcv, prun, erun, srun, recvChan>>
tables == <<closed, table, stored, pclosed, eclosed>>

EndpointsOf(p) == {e \in Endpoints : Owner[e] = p}

\* A packet: who it is from, what it is once decrypted ("bad": it cannot be), and
\* which endpoint of that peer a pong is for.
Packets ==
    [peer : Peers, kind : {"ping", "bad"}, ep : {NoEndpoint}]
        \cup {[peer |-> Owner[e], kind |-> "pong", ep |-> e] : e \in Endpoints}
NoPacket == CHOOSE pkt \in Packets : pkt.kind = "bad"

At(l, pkt) == [at |-> l, pkt |-> pkt]

Init ==
    /\ closed = FALSE
    /\ table = {}
    /\ stored = {}
    /\ pclosed = {}
    /\ eclosed = {}
    /\ rcv = At("read", NoPacket)
    /\ prun = [p \in Peers |-> At("none", NoPacket)]
    /\ erun = [e \in Endpoints |-> "none"]
    /\ srun = "recv"
    /\ recvChan = [e \in Endpoints |-> 0]

-----------------------------------------------------------------------------
(* disco.runReceiver *)

\* A packet is read and its peer looked up; one that does not unmarshal or whose
\* sender is unknown is dropped.  (The look at closed and the look-up are one step:
\* what the others do in between they could as well have done before the read.)
ReadFrom(pkt) ==
    /\ rcv.at = "read"
    /\ ~closed
    /\ pkt.peer \in table
    /\ rcv' = At("deliver", pkt)
    /\ UNCHANGED <<tables, prun, erun, srun, recvChan>>

\* Close of disco closes the connection, which ends the read.
ReceiverReturns ==
    /\ rcv.at = "read"
    /\ closed
    /\ rcv' = At("stopped", NoPacket)
    /\ UNCHANGED <<tables, prun, erun, srun, recvChan>>

\* The rendezvous of EnqueueReceivedPacket with the select of the peer's run, which
\* goes back to its select if the packet cannot be decrypted.
EnqueueReceivedPacket(p) ==
    /\ rcv.at = "deliver"
    /\ rcv.pkt.peer = p
    /\ prun[p].at = "select"
    /\ IF rcv.pkt.kind = "bad" THEN UNCHANGED prun
       ELSE prun' = [prun EXCEPT ![p] = At("handle", rcv.pkt)]
    /\ rcv' = At("read", NoPacket)
    /\ UNCHANGED <<tables, erun, srun, recvChan>>

-----------------------------------------------------------------------------
(* discoPeer.run *)

\* The packet in hand is forgotten when the goroutine is back at its select.
PeerGoto(p, l) ==
    prun' = [prun EXCEPT ![p] = At(l, IF l = "enqueue" THEN prun[p].pkt ELSE NoPacket)]

PeerReturns(p) ==
    /\ prun[p].at = "select"
    /\ p \in pclosed
    /\ PeerGoto(p, "stopped")
    /\ UNCHANGED <<tables, rcv, erun, srun, recvChan>>

\* handlePing: the pong goes to the sender, which must be there to take it; then
\* the endpoint of the ping's address, if there is one, is told (ReceivePing
\* changes only the endpoint's ticker).
handlePing(p) ==
    /\ prun[p].at = "handle"
    /\ prun[p].pkt.kind = "ping"
    /\ srun = "recv"
    /\ srun' = "write"
    /\ PeerGoto(p, "select")
    /\ UNCHANGED <<tables, rcv, erun, recvChan>>

\* Mutant: a pong for an endpoint that is gone ends the goroutine.
LoadEndpointOrReturn(p) ==
    /\ prun[p].at = "handle"
    /\ prun[p].pkt.kind = "pong"
    /\ PeerGoto(p, IF prun[p].pkt.ep \in stored THEN "enqueue" ELSE "stopped")
    /\ UNCHANGED <<tables, rcv, erun, srun, recvChan>>

\* A pong for an endpoint that is gone is dropped.
LoadEndpoint(p) ==
    /\ prun[p].at = "handle"
    /\ prun[p].pkt.kind = "pong"
    /\ PeerGoto(p, IF prun[p].pkt.ep \in stored THEN "enqueue" ELSE "select")
    /\ UNCHANGED <<tables, rcv, erun, srun, recvChan>>

\* EnqueueReceivedPacket of the endpoint: it waits for room.
EnqueuePong(p) ==
    /\ prun[p].at = "enqueue"
    /\ recvChan[prun[p].pkt.ep] < 1
    /\ recvChan' = [recvChan EXCEPT ![prun[p].pkt.ep] = @ + 1]
    /\ PeerGoto(p, "select")
    /\ UNCHANGED <<tables, rcv, erun, srun>>

-----------------------------------------------------------------------------
(* discoPeerEndpoint.run, and disco.runSender *)

EndpointGoto(e, l) == erun' = [erun EXCEPT ![e] = l]

Tick(e) ==
    /\ erun[e] = "select"
    /\ EndpointGoto(e, "send")
    /\ UNCHANGED <<tables, rcv, prun, srun, recvChan>>

\* sendDiscoPing: the rendezvous with the sender.
SendPing(e) ==
    /\ erun[e] = "send"
    /\ srun = "recv"
    /\ srun' = "write"
    /\ EndpointGoto(e, "select")
    /\ UNCHANGED <<tables, rcv, prun, recvChan>>

TakePong(e) ==
    /\ erun[e] = "select"
    /\ recvChan[e] > 0
    /\ recvChan' = [recvChan EXCEPT ![e] = @ - 1]
    /\ UNCHANGED <<tables, rcv, prun, erun, srun>>

EndpointReturns(e) ==
    /\ erun[e] = "select"
    /\ e \in eclosed
    /\ EndpointGoto(e, "stopped")
    /\ UNCHANGED <<tables, rcv, prun, srun, recvChan>>

\* Mutant: the sender ends with disco.
WriteToThenReturn ==
    /\ srun = "write"
    /\ srun' = IF closed THEN "stopped" ELSE "recv"
    /\ UNCHANGED <<tables, rcv, prun, erun, recvChan>>

\* The packet is written, or the write fails; nothing ever closes sendChan.
WriteTo ==
    /\ srun = "write"
    /\ srun' = "recv"
    /\ UNCHANGED <<tables, rcv, prun, erun, recvChan>>

-----------------------------------------------------------------------------
(* The engine's calls, as far as the goroutines above can see them *)

AddPeer(p) ==
    /\ prun[p].at = "none"
    /\ ~closed
    /\ table' = table \cup {p}
    /\ PeerGoto(p, "select")
    /\ UNCHANGED <<closed, stored, pclosed, eclosed, rcv, erun, srun, recvChan>>

\* SetEndpoints makes and stores an endpoint.
AddEndpoint(e) ==
    /\ erun[e] = "none"
    /\ prun[Owner[e]].at # "none"
    /\ Owner[e] \notin pclosed
    /\ stored' = stored \cup {e}
    /\ EndpointGoto(e, "select")
    /\ UNCHANGED <<closed, table, pclosed, eclosed, rcv, prun, srun, recvChan>>

\* SetEndpoints or Close of the peer takes an endpoint out of the table ...
TakeOutEndpoint(e) ==
    /\ e \in stored
    /\ stored' = stored \ {e}
    /\ UNCHANGED <<closed, table, pclosed, eclosed, rcv, prun, erun, srun, recvChan>>

\* ... and then closes it.
CloseEndpoint(e) ==
    /\ erun[e] # "none"
    /\ e \notin stored
    /\ e \notin eclosed
    /\ eclosed' = eclosed \cup {e}
    /\ UNCHANGED <<closed, table, stored, pclosed, rcv, prun, erun, srun, recvChan>>

\* Close of a peer: its channel first; its endpoints follow.
ClosePeer(p) ==
    /\ prun[p].at # "none"
    /\ p \notin pclosed
    /\ pclosed' = pclosed \cup {p}
    /\ UNCHANGED <<closed, table, stored, eclosed, rcv, prun, erun, srun, recvChan>>

\* onClose takes a closed peer out of the table at the end of its Close; Close of
\* disco takes every peer out before it closes it.
TakeOutPeer(p) ==
    /\ p \in table
    /\ closed \/ (p \in pclosed /\ EndpointsOf(p) \cap stored = {})
    /\ table' = table \ {p}
    /\ UNCHANGED <<closed, stored, pclosed, eclosed, rcv, prun, erun, srun, recvChan>>

Close ==
    /\ ~closed
    /\ closed' = TRUE
    /\ UNCHANGED <<table, stored, pclosed, eclosed, rcv, prun, erun, srun, recvChan>>

-----------------------------------------------------------------------------
Next ==
    \/ \E pkt \in Packets : ReadFrom(pkt)
    \/ ReceiverReturns \/ WriteTo \/ Close
    \/ \E p \in Peers :
        \/ EnqueueReceivedPacket(p) \/ PeerReturns(p) \/ handlePing(p)
        \/ LoadEndpoint(p) \/ EnqueuePong(p)
        \/ AddPeer(p) \/ ClosePeer(p) \/ TakeOutPeer(p)
    \/ \E e \in Endpoints :
        \/ Tick(e) \/ SendPing(e) \/ TakePong(e) \/ EndpointReturns(e)
        \/ AddEndpoint(e) \/ TakeOutEndpoint(e) \/ CloseEndpoint(e)

\* Goroutines run; the select of an endpoint picks the channel of pongs again and
\* again although its ticker is ready too, and sendChan serves its senders in turn.
Fairness ==
    /\ WF_vars(ReceiverReturns) /\ WF_vars(WriteTo)
    /\ \A p \in Peers :
        /\ WF_vars(EnqueueReceivedPacket(p)) /\ SF_vars(handlePing(p))
        /\ WF_vars(LoadEndpoint(p)) /\ WF_vars(EnqueuePong(p))
    /\ \A e \in Endpoints : SF_vars(SendPing(e)) /\ SF_vars(TakePong(e))

Spec == Init /\ [][Next]_vars /\ Fairness

-----------------------------------------------------------------------------
(* Type invariant: among others, no channel holds more than it has room for.     *)
TypeOK ==
    /\ closed \in BOOLEAN
    /\ table \in SUBSET Peers
    /\ stored \in SUBSET Endpoints
    /\ pclosed \in SUBSET Peers
    /\ eclosed \in SUBSET Endpoints
    /\ rcv \in [at : {"read", "deliver", "stopped"}, pkt : Packets]
    /\ prun \in [Peers -> [at : {"none", "select", "handle", "enqueue", "stopped"},
                           pkt : Packets]]
    /\ erun \in [Endpoints -> {"none", "select", "send", "stopped"}]
    /\ srun \in {"recv", "write", "stopped"}
    /\ recvChan \in [Endpoints -> 0..1]

\* Nobody takes the peer's packets any more: the goroutine of the peer, which was closed,
\* has returned, or it waits for room in the channel of an endpoint that was closed and
\* whose goroutine has.
Gone(p) ==
    \/ p \in pclosed /\ prun[p].at = "stopped"
    \/ /\ prun[p].at = "enqueue"
       /\ LET e == prun[p].pkt.ep IN
          e \in eclosed /\ erun[e] = "stopped" /\ recvChan[e] > 0

(* The one receiver of a node waits for good only for a goroutine that has returned after *)
(* a close, never for a slow or busy one, also of a peer that is being closed, and with   *)
(* the same exception the receiver of a closed disco ends.  The exception is real: a peer  *)
(* closed between its look-up and the delivery (disco.go:143-151) leaves the receiver in   *)
(* EnqueueReceivedPacket, which looks at no closed channel (discoPeer.go:218-219), and     *)
(* then no packet of any peer is read again, nor does the receiver end with disco.         *)
ReceiverMovesOn ==
    /\ \A p \in Peers :
           rcv.at = "deliver" /\ rcv.pkt.peer = p ~> rcv.at # "deliver" \/ Gone(p)
    /\ closed ~> rcv.at = "stopped" \/ (rcv.at = "deliver" /\ Gone(rcv.pkt.peer))

(* A ping or pong handed to Send is always taken, also after disco was closed: the *)
(* sender goroutine outlives disco, or the goroutines that send would never end.   *)
SendReturns ==
    /\ \A e \in Endpoints : erun[e] = "send" ~> erun[e] # "send"
    /\ \A p \in Peers : (prun[p].at = "handle" /\ prun[p].pkt.kind = "ping")
                            ~> ~(prun[p].at = "handle" /\ prun[p].pkt.kind = "ping")

=============================================================================
