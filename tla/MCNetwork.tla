------------------------------ MODULE MCNetwork ------------------------------
(* The way of packets into a node, and of the news about its addresses, checked in one    *)
(* run: the split connection, the XDP controller, and the process that keeps them up to   *)
(* date and closes them.  The models share no state, and a behaviour is one of a single   *)
(* component: turn says of which.                                                         *)
EXTENDS Daemon

CONSTANTS
    None, Children, Packets, Filter, Cap, Bufs, Late,
    Ifaces, Recvs, MaxIndex, MaxFails

VARIABLES
    turn,
    pc, queue, held, contents, pool, connClosed, late,
    index, made, fails, xdpClosed, caller, set, refresh, fn, watcher, iface, attached,
    ended, subscribed, ch

\* The bundler of the engine: disco packets go to the first child, all others to the
\* second, whose filter accepts everything there.  Here it leaves one kind out, for the
\* case that no filter accepts a packet.
MCChildren == <<"disco", "stun">>
MCFilter == [disco |-> {"ping"}, stun |-> {"ping", "binding"}]

Split == INSTANCE SplitConn WITH closed <- connClosed
XDP == INSTANCE XDPController WITH closed <- xdpClosed

ASSUME SplitAssumption == Split!Assumption
ASSUME XDPAssumption == XDP!Assumption

splitVars == <<pc, queue, held, contents, pool, connClosed, late>>
xdpVars == <<index, made, fails, xdpClosed, caller, set, refresh, fn, watcher, iface,
             attached, ended, subscribed, ch>>
mcVars == <<turn, splitVars, xdpVars, vars>>

MCInit == turn \in {"split", "xdp", "process"} /\ Split!Init /\ XDP!Init /\ Init

MCNext ==
    /\ UNCHANGED turn
    /\ \/ turn = "split" /\ Split!Next /\ UNCHANGED <<xdpVars, vars>>
       \/ turn = "xdp" /\ XDP!Next /\ UNCHANGED <<splitVars, vars>>
       \/ turn = "process" /\ Next /\ UNCHANGED <<splitVars, xdpVars>>

\* The fairness of the component that runs.
MCFairness ==
    /\ \A c \in Split!Conns :
           /\ WF_splitVars(turn = "split" /\ Split!Reader(c))
           /\ WF_splitVars(turn = "split" /\ Split!Fail(c))
    /\ WF_splitVars(turn = "split" /\ Split!Packet)
    /\ WF_xdpVars(turn = "xdp" /\ XDP!Refresher) /\ WF_xdpVars(turn = "xdp" /\ XDP!LastToken)
    /\ \A r \in Recvs :
           /\ WF_xdpVars(turn = "xdp" /\ XDP!Goroutine(r))
           /\ WF_xdpVars(turn = "xdp" /\ XDP!Watcher(r))

MCSpec == MCInit /\ [][MCNext]_mcVars /\ MCFairness

-----------------------------------------------------------------------------
\* A read returns a packet of its own child from a buffer that was not written again
\* (splitconn.go:63-66, 81-90), and the queues stay within their capacity.
ReadIntact == Split!TypeOK /\ Split!ReadIntact

\* No program is attached where that of an earlier receiver still is, and the channels of
\* the alarm stay within their capacity.
NeverBusy == XDP!TypeOK /\ XDP!NeverBusy

\* A packet in a queue is read although its reader may have joined the next flight, and
\* every interface gets a receiver, through failures and the panic of a late wake-up.
EventuallyReceiving ==
    /\ turn = "split" => Split!EventuallyRead
    /\ turn = "xdp" => XDP!EventuallyReceiving

\* Close ends every ReadFrom, that of a child that waits in another's flight too, and
\* after Close of the XDP controller no program stays attached, although the engine may
\* refresh the closed controller until its own channel is closed and empty.
CloseStops ==
    /\ turn = "split" => Split!ReadReturns
    /\ turn = "xdp" => XDP!CloseStops
=============================================================================
