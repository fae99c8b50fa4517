------------------------- MODULE DiscoPeerEndpoint -------------------------
(* One endpoint of a peer (disco/discoPeerEndpoint.go) with its packet        *)
(* manager (disco/pktmgr/pktmgr.go), over a network that loses, duplicates    *)
(* and reorders.  The endpoint pings when its ticker wakes it; a pong makes    *)
(* it connected, a ping without a pong for 400 ms makes it connecting again.   *)
(*                                                                            *)
(* Goroutines: run (pings, pongs), one timeout per ping, the peer's goroutine  *)
(* (EnqueueReceivedPacket, ReceivePing), the status subscribers that call       *)
(* SetPriority, and the ticker.  What a goroutine does under statusLock is one  *)
(* step; what it does before it takes the lock is another.                      *)
EXTENDS Integers, Sequences, FiniteSets

CONSTANTS
    Ids,        \* ping ids; packetID has 2^32 values, none reused while in use
    NoId,
    Timely,     \* TRUE: no ping times out while its answer is still under way
    MaxFlips    \* bound: changes of the network between up and down

ASSUME DiscoPeerEndpointAssumption ==
    /\ Ids # {}
    /\ IsFiniteSet(Ids)
    /\ NoId \notin Ids
    /\ Timely \in BOOLEAN
    /\ MaxFlips \in Nat

VARIABLES
    pending,    \* packet manager: ids without an answer, oldest first
    armed,      \* ids whose timeout goroutine still sleeps
    dropping,   \* ids taken by their timeout, whose dropCallback is to come
    acking,     \* the id run has acknowledged, its status update still to come
    recvChan,   \* pongs the peer has queued, at most one
    wakeCh,     \* the ticker's token
    tick,       \* state and priority of the ticker
    status,     \* the state subscribers see
    priority,
    checked,    \* a ReceivePing has passed its check and waits for the lock
    quiet,      \* the last reinitialisation is less than 30 s ago
    closed, running,
    pings, pongs,   \* the network: ids on their way out and back
    up, flips

vars == <<pending, armed, dropping, acking, recvChan, wakeCh, tick, status,
          priority, checked, quiet, closed, running, pings, pongs, up, flips>>
manager == <<pending, armed, dropping>>
statusVars == <<tick, status, priority>>
network == <<pings, pongs, up, flips>>

Priorities == {"Primary", "Sub"}
ConnStates == {"Connecting", "Connected"}

Range(seq) == {seq[i] : i \in 1..Len(seq)}

\* An id of which some trace is left anywhere.
InUse(id) ==
    id \in Range(pending) \cup armed \cup dropping \cup Range(recvChan)
           \cup pings \cup pongs \cup {acking}

Init ==
    /\ pending = <<>>
    /\ armed = {}
    /\ dropping = {}
    /\ acking = NoId
    /\ recvChan = <<>>
    /\ wakeCh = TRUE
    /\ tick = [state |-> "Connecting", priority |-> "Primary"]
    /\ status = "Connecting"
    /\ priority = "Primary"
    /\ checked = FALSE
    /\ quiet = FALSE
    /\ closed = FALSE
    /\ running = TRUE
    /\ pings = {}
    /\ pongs = {}
    /\ up \in BOOLEAN
    /\ flips = 0

-----------------------------------------------------------------------------
(* The ticker *)

Wake ==
    /\ ~wakeCh
    /\ wakeCh' = TRUE
    /\ UNCHANGED <<manager, acking, recvChan, statusVars, checked, quiet, closed,
                   running, network>>

\* ticker.SetState; the interval is the subject of module Ticker.
SetState(s, p) == tick' = [state |-> s, priority |-> p]

-----------------------------------------------------------------------------
(* run *)

RunIdle == running /\ acking = NoId

\* sendDiscoPing: AddPacket starts the timeout, then the packet is sent.
sendDiscoPing(id) ==
    /\ RunIdle
    /\ wakeCh
    /\ ~InUse(id)
    /\ wakeCh' = FALSE
    /\ pending' = Append(pending, id)
    /\ armed' = armed \cup {id}
    /\ pings' = IF up THEN pings \cup {id} ELSE pings
    /\ UNCHANGED <<dropping, acking, recvChan, statusVars, checked, quiet, closed,
                   running, pongs, up, flips>>

PositionOf(id) == CHOOSE i \in 1..Len(pending) : pending[i] = id

\* What RecvAck of an answered id leaves: it and every older ping are deleted.
After(id) ==
    [i \in 1..(Len(pending) - PositionOf(id)) |-> pending[i + PositionOf(id)]]

\* What LoadAndDelete of a pending id leaves.
Without(id) ==
    [i \in 1..(Len(pending) - 1) |->
        IF i < PositionOf(id) THEN pending[i] ELSE pending[i + 1]]

\* Mutant: RecvAck leaves the entry for its timeout to find.
RecvAckLoadsOnly ==
    /\ RunIdle
    /\ recvChan # <<>>
    /\ Head(recvChan) \in Range(pending)
    /\ acking' = Head(recvChan)
    /\ pending' = <<Head(recvChan)>> \o After(Head(recvChan))
    /\ recvChan' = Tail(recvChan)
    /\ UNCHANGED <<armed, dropping, wakeCh, statusVars, checked, quiet, closed,
                   running, network>>

RecvAck ==
    /\ RunIdle
    /\ recvChan # <<>>
    /\ Head(recvChan) \in Range(pending)
    /\ acking' = Head(recvChan)
    /\ pending' = After(Head(recvChan))
    /\ recvChan' = Tail(recvChan)
    /\ UNCHANGED <<armed, dropping, wakeCh, statusVars, checked, quiet, closed,
                   running, network>>

\* A pong that comes too late, or twice: RecvAck finds no entry.
RecvUnknown ==
    /\ RunIdle
    /\ recvChan # <<>>
    /\ Head(recvChan) \notin Range(pending)
    /\ recvChan' = Tail(recvChan)
    /\ UNCHANGED <<manager, acking, wakeCh, statusVars, checked, quiet, closed,
                   running, network>>

\* Mutant: a pong changes the status but not the ticker.
handlePongStatusOnly ==
    /\ acking # NoId
    /\ status' = "Connected"
    /\ acking' = NoId
    /\ UNCHANGED <<manager, recvChan, wakeCh, tick, priority, checked, quiet, closed,
                   running, network>>

\* handlePong, the part under statusLock.
handlePong ==
    /\ acking # NoId
    /\ SetState("Connected", priority)
    /\ status' = "Connected"
    /\ acking' = NoId
    /\ UNCHANGED <<manager, recvChan, wakeCh, priority, checked, quiet, closed,
                   running, network>>

\* Mutant: a break that leaves the select and not the loop.
RunStopsBreaks ==
    /\ RunIdle
    /\ closed
    /\ UNCHANGED vars

\* select may prefer another ready channel, but not for ever.
RunStops ==
    /\ RunIdle
    /\ closed
    /\ running' = FALSE
    /\ UNCHANGED <<manager, acking, recvChan, wakeCh, statusVars, checked, quiet,
                   closed, network>>

-----------------------------------------------------------------------------
(* The timeout goroutines *)

\* Is the answer to id still under way?
Underway(id) == id \in pings \cup pongs \cup Range(recvChan)

\* 400 ms have passed: LoadAndDelete takes the entry, if it is still there.
Timeout(id) ==
    /\ id \in armed
    /\ Timely => ~Underway(id)
    /\ armed' = armed \ {id}
    /\ IF id \in Range(pending)
       THEN pending' = Without(id) /\ dropping' = dropping \cup {id}
       ELSE UNCHANGED <<pending, dropping>>
    /\ UNCHANGED <<acking, recvChan, wakeCh, statusVars, checked, quiet, closed,
                   running, network>>

\* Mutant: a drop changes the status but not the ticker.
dropCallbackStatusOnly(id) ==
    /\ id \in dropping
    /\ dropping' = dropping \ {id}
    /\ status' = "Connecting"
    /\ UNCHANGED <<pending, armed, acking, recvChan, wakeCh, tick, priority,
                   checked, quiet, closed, running, network>>

\* dropCallback, under statusLock.
dropCallback(id) ==
    /\ id \in dropping
    /\ dropping' = dropping \ {id}
    /\ SetState("Connecting", priority)
    /\ status' = "Connecting"
    /\ UNCHANGED <<pending, armed, acking, recvChan, wakeCh, priority, checked,
                   quiet, closed, running, network>>

-----------------------------------------------------------------------------
(* Calls from the peer *)

\* SetPriority, from any status subscriber of the peer.
SetPriority(p) ==
    /\ priority' = p
    /\ SetState(status, p)
    /\ UNCHANGED <<manager, acking, recvChan, wakeCh, status, checked, quiet,
                   closed, running, network>>

\* ReceivePing looks at the status before it takes the lock ...
ReceivePingCheck ==
    /\ ~checked
    /\ status = "Connecting"
    /\ checked' = TRUE
    /\ UNCHANGED <<manager, acking, recvChan, wakeCh, statusVars, quiet, closed,
                   running, network>>

\* ... and under the lock restarts the ticker, at most every 30 s.
ReceivePing ==
    /\ checked
    /\ checked' = FALSE
    /\ IF quiet THEN UNCHANGED <<tick, quiet>>
                ELSE quiet' = TRUE /\ SetState("Connecting", priority)
    /\ UNCHANGED <<manager, acking, recvChan, wakeCh, status, priority, closed,
                   running, network>>

\* 30 s have passed since the last reinitialisation.
QuietEnds ==
    /\ quiet
    /\ quiet' = FALSE
    /\ UNCHANGED <<manager, acking, recvChan, wakeCh, statusVars, checked, closed,
                   running, network>>

\* EnqueueReceivedPacket: the peer's goroutine blocks while the channel is full.
\* The network may deliver a pong once more.
EnqueueReceivedPacket(id, again) ==
    /\ id \in pongs
    /\ recvChan = <<>>
    /\ recvChan' = <<id>>
    /\ pongs' = IF again THEN pongs ELSE pongs \ {id}
    /\ UNCHANGED <<manager, acking, wakeCh, statusVars, checked, quiet, closed,
                   running, pings, up, flips>>

Close ==
    /\ ~closed
    /\ closed' = TRUE
    /\ UNCHANGED <<manager, acking, recvChan, wakeCh, statusVars, checked, quiet,
                   running, network>>

-----------------------------------------------------------------------------
(* The network and the peer at its other end *)

\* The other side answers a ping (discoPeer.handlePing of the remote node).
Answer(id) ==
    /\ id \in pings
    /\ pings' = pings \ {id}
    /\ pongs' = pongs \cup {id}
    /\ UNCHANGED <<manager, acking, recvChan, wakeCh, statusVars, checked, quiet,
                   closed, running, up, flips>>

\* A packet is lost: any packet of a network that is down or not Timely.
Lose(id) ==
    /\ ~up \/ ~Timely
    /\ id \in pings \cup pongs
    /\ pings' = pings \ {id}
    /\ pongs' = pongs \ {id}
    /\ UNCHANGED <<manager, acking, recvChan, wakeCh, statusVars, checked, quiet,
                   closed, running, up, flips>>

Flip ==
    /\ flips < MaxFlips
    /\ flips' = flips + 1
    /\ up' = ~up
    /\ UNCHANGED <<manager, acking, recvChan, wakeCh, statusVars, checked, quiet,
                   closed, running, pings, pongs>>

Next ==
    \/ Wake
    \/ \E id \in Ids : \/ sendDiscoPing(id)
                       \/ Timeout(id)
                       \/ dropCallback(id)
                       \/ \E again \in BOOLEAN :
                              (again => ~Timely) /\ EnqueueReceivedPacket(id, again)
                       \/ Answer(id)
                       \/ Lose(id)
    \/ RecvAck
    \/ RecvUnknown
    \/ handlePong
    \/ RunStops
    \/ \E p \in Priorities : SetPriority(p)
    \/ ReceivePingCheck
    \/ ReceivePing
    \/ QuietEnds
    \/ Close
    \/ Flip

Spec == Init /\ [][Next]_vars

(* Every goroutine that can run does, the ticker keeps ticking (KeepsTicking of *)
(* module Ticker), a network that is up delivers, one that is down loses.  A     *)
(* network changes at most MaxFlips times, so it ends up either way.             *)
Fairness ==
    /\ WF_vars(Wake)
    /\ WF_vars(\E id \in Ids : sendDiscoPing(id))
    /\ WF_vars(RecvAck) /\ WF_vars(RecvUnknown) /\ WF_vars(handlePong)
    /\ SF_vars(RunStops)
    /\ WF_vars(ReceivePing)
    /\ \A id \in Ids : /\ WF_vars(Timeout(id))
                       /\ WF_vars(dropCallback(id))
                       /\ SF_vars(EnqueueReceivedPacket(id, FALSE))
                       /\ WF_vars(up /\ Answer(id))
                       /\ WF_vars(~up /\ Lose(id))

FairSpec == Spec /\ Fairness

-----------------------------------------------------------------------------
(* Every variable has its type.                                                *)
TypeOK ==
    /\ pending \in Seq(Ids)
    /\ armed \in SUBSET Ids
    /\ dropping \in SUBSET Ids
    /\ acking \in Ids \cup {NoId}
    /\ recvChan \in Seq(Ids)
    /\ wakeCh \in BOOLEAN
    /\ tick \in [state : ConnStates, priority : Priorities]
    /\ status \in ConnStates
    /\ priority \in Priorities
    /\ checked \in BOOLEAN
    /\ quiet \in BOOLEAN
    /\ closed \in BOOLEAN
    /\ running \in BOOLEAN
    /\ pings \in SUBSET Ids
    /\ pongs \in SUBSET Ids
    /\ up \in BOOLEAN
    /\ flips \in 0..MaxFlips

(* The ticker never relaxes to the slow pace of a connected endpoint while the  *)
(* status says connecting, and it runs at the priority last set: three groups   *)
(* of goroutines set both, one of them after a check made without the lock.      *)
TickerFollowsStatus ==
    /\ tick.state = "Connected" => status = "Connected"
    /\ tick.priority = priority

(* A ping is accounted for once: it is pending, or acknowledged, or dropped,     *)
(* although its pong and its timeout race for the entry; and while it is pending *)
(* its timeout is still to come, so no ping stays pending for ever.              *)
AccountedOnce ==
    /\ \A i, j \in 1..Len(pending) : i # j => pending[i] # pending[j]
    /\ Range(pending) \subseteq armed
    /\ Range(pending) \cap dropping = {}
    /\ acking \notin Range(pending) \cup dropping

(* On a network that stays up an endpoint that is not closed connects and stays *)
(* connected, and its ticker with it (test "simple" and the end of "re-connect").*)
StaysConnected ==
    <>[]up => <>closed \/ <>[](status = "Connected" /\ tick.state = "Connected")

(* On a network that stays down it notices, and keeps trying at the fast pace    *)
(* (the middle of test "re-connect").                                            *)
NoticesLoss ==
    <>[]~up => <>closed \/ <>[](status = "Connecting" /\ tick.state = "Connecting")

(* Close ends the goroutine that sends pings.                                    *)
CloseStops == closed ~> ~running

=============================================================================
