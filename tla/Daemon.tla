------------------------------- MODULE Daemon -------------------------------
(* The agent process (tetrad/main.go): how it notices that the addresses or routes of   *)
(* the node have changed, and how it ends.  A goroutine reads netlink messages          *)
(* (pkg/monitor) and wakes a subscriber over a channel with room for one token; a        *)
(* combinator joins these tokens with those of a ticker over channels without room       *)
(* (pkg/alarm); a loop in main calls Trigger; the engine's goroutine refreshes the        *)
(* receiver's and the sender's view of the node (pkg/hijack).  When the process is told   *)
(* to stop the loop ends and Close takes the engine apart while all others go on.         *)
EXTENDS Naturals, Sequences

CONSTANT MaxMoves   \* bound: how often the node's addresses or routes change

ASSUME DaemonAssumption == MaxMoves \in Nat

VARIABLES
    addrs,      \* the addresses and routes of the node: the number of the change
    socket,     \* netlink messages wait to be received
    mon,        \* the monitor's goroutine; "new": netlink is not dialled yet
    token, subClosed,   \* the channel of its subscriber
    tick,       \* the goroutine of the ticker
    comb, combClosed,   \* the goroutine of the combinator; its closed channel
    loop,       \* the loop in main
    trigger,    \* a token in reconfigTriggerCh
    run,        \* the goroutine of the engine
    recvAddrs, router,  \* the receiver's addresses, the sender's routes
    missedRecv, missedSend, \* since their last refresh it failed, a message was lost, or
                            \* nobody had asked for it yet
    stop,       \* the context is done
    main,       \* the main goroutine: "manager", "close", or "return"
    closed,     \* how many of CloseOrder are closed
    end         \* how the process ended

netlink == <<addrs, socket, mon>>
alarm == <<token, subClosed, tick, comb, combClosed>>
engine == <<trigger, run>>
views == <<recvAddrs, router, missedRecv, missedSend>>
ending == <<stop, main, closed, end>>
vars == <<netlink, alarm, loop, engine, views, ending>>

\* The engine has been made: the receiver and the sender were refreshed, and the first
\* reconfiguration is asked for.  The monitor is not there yet.
Init ==
    /\ addrs = 0 /\ recvAddrs = 0 /\ router = 0 /\ missedRecv = FALSE /\ missedSend = FALSE
    /\ socket = FALSE /\ mon = "new" /\ token = FALSE /\ subClosed = FALSE
    /\ tick = "new" /\ comb = "new" /\ combClosed = FALSE
    /\ loop = "new" /\ trigger = TRUE /\ run = "wait"
    /\ stop = FALSE /\ main = "manager" /\ closed = 0 /\ end = "no"

\* Mutant: the channel of the triggers is closed first.
CloseOrderTriggerFirst == <<"trigger", "disco", "wireguard", "collector", "hijack">>

\* Close of the engine.
CloseOrder == <<"disco", "wireguard", "collector", "hijack", "trigger">>
Closed(part) == \E i \in 1..closed : CloseOrder[i] = part

Alive == end = "no"
Ends(how) ==
    /\ Alive
    /\ end' = how
    /\ UNCHANGED <<netlink, alarm, loop, engine, views, stop, main, closed>>

-----------------------------------------------------------------------------
(* The node, and the monitor *)

\* What is lost is missed by both views.
Loses(lost) ==
    /\ missedRecv' = (missedRecv \/ lost) /\ missedSend' = (missedSend \/ lost)
    /\ UNCHANGED <<recvAddrs, router>>

\* A change, and the message about it, if there is a socket for it.
Change ==
    /\ Alive /\ addrs < MaxMoves
    /\ addrs' = addrs + 1 /\ socket' = (mon # "new")
    /\ Loses(mon = "new")
    /\ UNCHANGED <<mon, alarm, loop, engine, ending>>

\* main dials netlink and starts the monitor, then a goroutine of its own subscribes to it,
\* makes the ticker and the combinator, and becomes the loop.
Dial ==
    /\ Alive /\ mon = "new"
    /\ mon' = "receive"
    /\ UNCHANGED <<addrs, socket, alarm, loop, engine, views, ending>>

Subscribe ==
    /\ Alive /\ comb = "new" /\ mon # "new"
    /\ tick' = "wait" /\ comb' = "select" /\ loop' = "select"
    /\ UNCHANGED <<netlink, token, subClosed, combClosed, engine, views, ending>>

\* Receive fails, perhaps because messages were dropped.  The monitor sleeps for 10 s.
ReceiveFails ==
    /\ Alive /\ mon = "receive" /\ socket
    /\ socket' = FALSE /\ Loses(TRUE)
    /\ UNCHANGED <<addrs, mon, alarm, loop, engine, ending>>

Receive ==
    /\ Alive /\ mon = "receive" /\ socket
    /\ socket' = FALSE /\ mon' = "range"
    /\ UNCHANGED <<addrs, alarm, loop, engine, views, ending>>

\* WakeUpAll finds the subscriber in the map, or not: it may not be there yet.
InMap == comb \in {"select", "send", "delete"}

RangeSubscriber ==
    /\ Alive /\ mon = "range"
    /\ mon' = IF InMap THEN "wake" ELSE "receive"
    /\ Loses(comb = "new")
    /\ UNCHANGED <<addrs, socket, alarm, loop, engine, ending>>

Wake ==
    /\ Alive /\ mon = "wake" /\ ~subClosed
    /\ token' = TRUE /\ mon' = "receive"
    /\ UNCHANGED <<addrs, socket, subClosed, tick, comb, combClosed, loop, engine, views, ending>>

WakePanics == mon = "wake" /\ subClosed /\ Ends("wakePanics")

-----------------------------------------------------------------------------
(* The ticker, the combinator and the loop of main *)

\* The ticker goes on to send, or ends if it is closed.
Tick ==
    /\ Alive /\ tick = "wait"
    /\ tick' = IF comb = "done" THEN "done" ELSE "send"
    /\ UNCHANGED <<netlink, token, subClosed, comb, combClosed, loop, engine, views, ending>>

\* The combinator takes a tick or a token, or sees that it is closed, at random if it can
\* do several.
TakeTick ==
    /\ Alive /\ comb = "select" /\ tick = "send"
    /\ tick' = "wait" /\ comb' = "send"
    /\ UNCHANGED <<netlink, token, subClosed, combClosed, loop, engine, views, ending>>

TakeToken ==
    /\ Alive /\ comb = "select" /\ token
    /\ token' = FALSE /\ comb' = "send"
    /\ UNCHANGED <<netlink, subClosed, tick, combClosed, loop, engine, views, ending>>

\* Its deferred calls: the subscriber leaves the map and its channel is closed, then the
\* ticker is.
CombinatorEnds ==
    /\ Alive
    /\ \/ comb = "select" /\ combClosed /\ comb' = "delete"
       \/ comb = "delete" /\ comb' = "close"
       \/ comb = "close" /\ comb' = "done"
    /\ subClosed' = (comb' = "done")
    /\ UNCHANGED <<netlink, token, tick, combClosed, loop, engine, views, ending>>

LoopReceives ==
    /\ Alive /\ loop = "select" /\ comb = "send"
    /\ loop' = "trigger" /\ comb' = "select"
    /\ UNCHANGED <<netlink, token, subClosed, tick, combClosed, engine, views, ending>>

\* The loop sees the end of the context and closes the combinator.
LoopEnds ==
    /\ Alive /\ loop = "select" /\ stop
    /\ loop' = "done" /\ combClosed' = TRUE
    /\ UNCHANGED <<netlink, token, subClosed, tick, comb, engine, views, ending>>

\* Mutant: a trigger in the middle of a reconfiguration is left out.
LoopTriggersIdle ==
    /\ Alive /\ loop = "trigger" /\ ~Closed("trigger")
    /\ trigger' = (trigger \/ run = "wait") /\ loop' = "select"
    /\ UNCHANGED <<netlink, alarm, run, views, ending>>

\* engine.Trigger
LoopTriggers ==
    /\ Alive /\ loop = "trigger" /\ ~Closed("trigger")
    /\ trigger' = TRUE /\ loop' = "select"
    /\ UNCHANGED <<netlink, alarm, run, views, ending>>

-----------------------------------------------------------------------------
(* The engine *)

\* The status of a peer has changed.
discoStatusCallback ==
    /\ Alive /\ ~Closed("trigger")
    /\ trigger' = TRUE
    /\ UNCHANGED <<netlink, alarm, loop, run, views, ending>>

\* The loop or a callback sends on the closed channel.
TriggerPanics == Closed("trigger") /\ Ends("triggerPanics")

runReconfig ==
    /\ Alive /\ run = "wait" /\ trigger
    /\ trigger' = FALSE /\ run' = "recv"
    /\ UNCHANGED <<netlink, alarm, loop, views, ending>>

\* The receiver lists the addresses of the interfaces.  If that fails it keeps what it had;
\* if it then fails to list the interfaces it has the addresses and starts no receivers.
RefreshReceiver(ok) ==
    /\ Alive /\ run = "recv"
    /\ recvAddrs' \in IF ok THEN {addrs} ELSE {recvAddrs, addrs}
    /\ missedRecv' = ~ok
    /\ run' = "send"
    /\ UNCHANGED <<netlink, alarm, loop, trigger, router, missedSend, ending>>

\* Before it lists them, the receiver that XDP programs feed (the one in use unless
\* TETRAPOD_DISABLE_XDP is set) wakes the watchers of the interfaces: a send on the channel
\* of one that has just left panics.  XDPController says when that is.
RefreshPanics == run = "recv" /\ Ends("refreshPanics")

\* The sender reads the routes five times, of which the last counts.
RefreshSender(ok) ==
    /\ Alive /\ run = "send"
    /\ router' = IF ok THEN addrs ELSE router
    /\ missedSend' = ~ok
    /\ run' = "peers"
    /\ UNCHANGED <<netlink, alarm, loop, trigger, recvAddrs, missedRecv, ending>>

\* The rest of reconfig: SetPeers, then WireGuard.
Reconfigured ==
    /\ Alive /\ run = "peers"
    /\ run' = "wait"
    /\ UNCHANGED <<netlink, alarm, loop, trigger, views, ending>>

\* AddPeer of a closed disco returns nil for a peer it does not have; SetPeers uses it.
SetPeersPanics == run = "peers" /\ Closed("disco") /\ Ends("peersPanic")

-----------------------------------------------------------------------------
(* main *)

Signal ==
    /\ Alive /\ ~stop
    /\ stop' = TRUE
    /\ UNCHANGED <<netlink, alarm, loop, engine, views, main, closed, end>>

\* The monitor or the manager fails: os.Exit runs no deferred call.
ManagerFails == main = "manager" /\ Ends("failed")

\* The configuration says whether the engine is closed.
ManagerStops ==
    /\ Alive /\ main = "manager" /\ stop /\ mon # "new"
    /\ main' \in {"close", "return"}
    /\ UNCHANGED <<netlink, alarm, loop, engine, views, stop, closed, end>>

Close ==
    /\ Alive /\ main = "close"
    /\ closed' = closed + 1
    /\ main' = IF closed' = Len(CloseOrder) THEN "return" ELSE main
    /\ UNCHANGED <<netlink, alarm, loop, engine, views, stop, end>>

Exit == main = "return" /\ Ends("exit")

-----------------------------------------------------------------------------
Monitor == Dial \/ ReceiveFails \/ Receive \/ RangeSubscriber \/ Wake \/ WakePanics
Combinator == TakeTick \/ TakeToken \/ CombinatorEnds
Loop == Subscribe \/ LoopReceives \/ LoopEnds \/ LoopTriggers
Engine ==
    \/ runReconfig \/ (\E ok \in BOOLEAN : RefreshReceiver(ok) \/ RefreshSender(ok))
    \/ RefreshPanics \/ Reconfigured \/ SetPeersPanics
Main == ManagerFails \/ ManagerStops \/ Close \/ Exit

Next ==
    \/ Change \/ Signal
    \/ Monitor \/ Tick \/ Combinator \/ Loop
    \/ discoStatusCallback \/ TriggerPanics \/ Engine
    \/ Main

Spec == Init /\ [][Next]_vars

-----------------------------------------------------------------------------
(* The type of the state.                                                              *)
Flags ==
    /\ socket \in BOOLEAN /\ token \in BOOLEAN /\ subClosed \in BOOLEAN
    /\ combClosed \in BOOLEAN /\ trigger \in BOOLEAN /\ stop \in BOOLEAN
    /\ missedRecv \in BOOLEAN /\ missedSend \in BOOLEAN

Places ==
    /\ mon \in {"new", "receive", "range", "wake"} /\ tick \in {"new", "wait", "send", "done"}
    /\ comb \in {"new", "select", "send", "delete", "close", "done"}
    /\ loop \in {"new", "select", "trigger", "done"}
    /\ run \in {"wait", "recv", "send", "peers"}
    /\ main \in {"manager", "close", "return"}
    /\ end \in {"no", "failed", "exit", "wakePanics", "refreshPanics", "triggerPanics",
               "peersPanic"}

TypeOK ==
    /\ Flags /\ Places
    /\ addrs \in 0..MaxMoves /\ recvAddrs \in 0..MaxMoves /\ router \in 0..MaxMoves
    /\ closed \in 0..Len(CloseOrder)

\* The word of a change is under way to the engine's goroutine.
OnTheWay ==
    socket \/ mon \in {"range", "wake"} \/ token \/ comb = "send" \/ loop = "trigger" \/ trigger

(* No change of the node's addresses or routes is lost on the way from the kernel to the *)
(* receiver and the sender, through a channel that drops tokens when it is full, two      *)
(* that block, and another that drops: while the loop runs, what they do not know yet is  *)
(* still on its way, unless a message was lost, a refresh failed, or it changed after the *)
(* engine's first refresh and before the monitor had dialled and its subscriber was there *)
(* (main.go:147-171): then the ticker of 30 s finds it.                                   *)
NoLostChange ==
    loop # "done" =>
        /\ recvAddrs # addrs => OnTheWay \/ run = "recv" \/ missedRecv
        /\ router # addrs => OnTheWay \/ run \in {"recv", "send"} \/ missedSend

(* Of the sends on closed channels only one may end the process before it is told to      *)
(* stop: that of a Refresh which wakes the watcher of an interface that goes away         *)
(* (alarm.go:52-65).  The monitor's wake-up, the triggers, and the use of a peer that a    *)
(* closed disco has not given panic after the signal only; and the channel of the          *)
(* triggers, on which the loop and the callbacks send without regard to Close, panics only *)
(* after Close has closed everything else: the namespace is deleted and the receivers are  *)
(* told to end by then (tetraengine.go:351-367), though their watchers may not have        *)
(* detached yet.                                                                           *)
PanicsLate ==
    /\ end \in {"wakePanics", "triggerPanics", "peersPanic"} => stop
    /\ end = "triggerPanics" =>
           \A part \in {"disco", "wireguard", "collector", "hijack"} : Closed(part)
=============================================================================
