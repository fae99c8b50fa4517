---------------------------- MODULE XDPController ----------------------------
(* The receivers of a node's network interfaces (xdprecv, with bgsingleflight and    *)
(* alarm).  Every Refresh wakes the watchers of the running receivers and starts a    *)
(* goroutine for every interface that has none.  The goroutine attaches an XDP        *)
(* program and copies packets until the receiver is closed; its watcher closes the    *)
(* receiver when a health check fails or the controller is closed, and then leaves    *)
(* the alarm.  Close of the engine closes the controller some time before the channel  *)
(* whose tokens make the engine call Refresh: a closed controller is refreshed again.  *)
(* The data path is not modelled.                                                     *)
EXTENDS Naturals, FiniteSets

CONSTANTS
    Ifaces,         \* names of interfaces
    MaxIndex,       \* bound: how often interfaces are made
    MaxFails,       \* bound: how many calls to the kernel fail for no visible reason
    Recvs           \* receivers at one time, those that are going away included

Assumption ==
    /\ Ifaces # {} /\ Recvs # {}
    /\ MaxIndex \in Nat \ {0} /\ MaxFails \in Nat

VARIABLES
    index,      \* the index of each interface, or 0: it is not there
    made,       \* the last index given
    fails,      \* the unexplained failures so far
    closed,     \* the controller's closed channel is closed
    caller,     \* the engine's goroutine, which calls Refresh: it "runs", or the
                \* channel of the triggers is closed and it is at its "last" token
    set,        \* the group: the interfaces with a goroutine
    refresh,    \* where Refresh is: its label, the subscribers it has yet to visit, the
                \* one it is about to wake, the interfaces it has yet to start
    fn,         \* per receiver: where its goroutine is
    watcher,    \* per receiver: where its watcher is
    iface,      \* per receiver: its interface, by name and by index
    attached,   \* the receivers whose program is attached
    ended,      \* the receivers whose closed channel is closed
    subscribed, \* the receivers whose watcher is in the map of the alarm
    ch          \* the tokens in the channel of each subscriber

world == <<index, made, fails, closed, caller>>
recv == <<fn, watcher, iface, attached, ended>>
alarm == <<subscribed, ch>>
vars == <<world, set, refresh, recv, alarm>>

NoIface == [name |-> "none", idx |-> 0]
Idle == [at |-> "idle", todo |-> {}, waking |-> {}, ifaces |-> {}]
There == {[name |-> i, idx |-> index[i]] : i \in {j \in Ifaces : index[j] # 0}}
Free(r) == fn[r] = "none" /\ watcher[r] = "none"

ProcessInit ==
    /\ set = {}
    /\ refresh = Idle
    /\ fn = [r \in Recvs |-> "none"]
    /\ watcher = [r \in Recvs |-> "none"]
    /\ iface = [r \in Recvs |-> NoIface]
    /\ attached = {}
    /\ ended = {}
    /\ subscribed = {}
    /\ ch = [r \in Recvs |-> 0]

Init ==
    /\ index = [i \in Ifaces |-> 0]
    /\ made = 0
    /\ fails = 0
    /\ closed = FALSE
    /\ caller = "runs"
    /\ ProcessInit

-----------------------------------------------------------------------------
(* The kernel *)

LinkAdd(i) ==
    /\ index[i] = 0 /\ made < MaxIndex
    /\ made' = made + 1
    /\ index' = [index EXCEPT ![i] = made + 1]
    /\ UNCHANGED <<fails, closed, caller, set, refresh, recv, alarm>>

LinkDelete(i) ==
    /\ index[i] # 0
    /\ index' = [index EXCEPT ![i] = 0]
    /\ UNCHANGED <<made, fails, closed, caller, set, refresh, recv, alarm>>

Failing ==
    fails < MaxFails /\ fails' = fails + 1 /\ UNCHANGED <<index, made, closed, caller>>

-----------------------------------------------------------------------------
(* Refresh *)

\* WakeUpAll: Range visits the subscribers that are in the map from the beginning, unless
\* they leave it.  Refresh does not look at the closed channel.
StartRefresh ==
    /\ refresh.at = "idle" /\ caller = "runs"
    /\ refresh' = [Idle EXCEPT !.at = "wake", !.todo = subscribed]
    /\ UNCHANGED <<world, set, recv, alarm>>

Visit(r) ==
    /\ refresh.at = "wake" /\ refresh.waking = {} /\ r \in refresh.todo
    /\ refresh' = [refresh EXCEPT !.todo = @ \ {r},
                                  !.waking = IF r \in subscribed THEN {r} ELSE {}]
    /\ UNCHANGED <<world, set, recv, alarm>>

\* A send that is not waited for: a full channel has a token already.
Wake(r) ==
    /\ refresh.at = "wake" /\ refresh.waking = {r}
    /\ watcher[r] # "closed"
    /\ ch' = [ch EXCEPT ![r] = 1]
    /\ refresh' = [refresh EXCEPT !.waking = {}]
    /\ UNCHANGED <<world, set, recv, subscribed>>

\* The watcher left the map after Refresh had found it there, and has closed its channel:
\* a send on a closed channel panics.  The kernel detaches the programs of the process,
\* and the process is started again, unless it was about to end.
Panic ==
    /\ refresh.at = "wake"
    /\ \E r \in refresh.waking : watcher[r] = "closed"
    /\ set' = {} /\ refresh' = Idle
    /\ fn' = [r \in Recvs |-> "none"] /\ watcher' = [r \in Recvs |-> "none"]
    /\ iface' = [r \in Recvs |-> NoIface]
    /\ attached' = {} /\ ended' = {} /\ subscribed' = {}
    /\ ch' = [r \in Recvs |-> 0]
    /\ caller' = IF closed THEN "last" ELSE caller
    /\ UNCHANGED <<index, made, fails, closed>>

\* The interfaces are listed, or Refresh returns the error.
List ==
    /\ refresh.at = "wake" /\ refresh.waking = {} /\ refresh.todo = {}
    /\ \/ refresh' = [refresh EXCEPT !.at = "run", !.ifaces = There] /\ UNCHANGED world
       \/ Failing /\ refresh' = Idle
    /\ UNCHANGED <<set, recv, alarm>>

\* group.Run: nothing is done for an interface whose goroutine is still there.
RunAgain(f) ==
    /\ refresh.at = "run" /\ f \in refresh.ifaces /\ f.name \in set
    /\ refresh' = [refresh EXCEPT !.ifaces = @ \ {f}]
    /\ UNCHANGED <<world, set, recv, alarm>>

\* A receiver is a new object: which of the free ones it is makes no difference.
Run(f, r) ==
    /\ refresh.at = "run" /\ f \in refresh.ifaces /\ f.name \notin set
    /\ Free(r) /\ r = CHOOSE q \in Recvs : Free(q)
    /\ set' = set \cup {f.name}
    /\ fn' = [fn EXCEPT ![r] = "new"]
    /\ iface' = [iface EXCEPT ![r] = f]
    /\ refresh' = [refresh EXCEPT !.ifaces = @ \ {f}]
    /\ UNCHANGED <<world, watcher, attached, ended, alarm>>

Refreshed ==
    /\ refresh.at = "run" /\ refresh.ifaces = {}
    /\ refresh' = Idle
    /\ UNCHANGED <<world, set, recv, alarm>>

-----------------------------------------------------------------------------
(* The goroutine of an interface *)

\* NewXDPReceiver: the program is attached to the index that was listed, and the watcher
\* is started.  The kernel takes one program per interface.
Attach(r) ==
    /\ fn[r] = "new"
    /\ index[iface[r].name] = iface[r].idx
    /\ \A q \in attached : iface[q] # iface[r]
    /\ attached' = attached \cup {r}
    /\ fn' = [fn EXCEPT ![r] = "recv"]
    /\ watcher' = [watcher EXCEPT ![r] = "start"]
    /\ UNCHANGED <<world, set, refresh, iface, ended, alarm>>

AttachFails(r) ==
    /\ fn[r] = "new"
    /\ \/ /\ index[iface[r].name] # iface[r].idx \/ \E q \in attached : iface[q] = iface[r]
          /\ UNCHANGED world
       \/ Failing
    /\ fn' = [fn EXCEPT ![r] = "exit"]
    /\ UNCHANGED <<set, refresh, watcher, iface, attached, ended, alarm>>

\* Recv of a closed receiver fails.
RecvFails(r) ==
    /\ fn[r] = "recv" /\ r \in ended
    /\ fn' = [fn EXCEPT ![r] = "exit"]
    /\ UNCHANGED <<world, set, refresh, watcher, iface, attached, ended, alarm>>

\* The goroutine leaves the group.  It also cancels the context of its watcher, which has
\* closed the receiver then and does not look at the context again.
Exit(r) ==
    /\ fn[r] = "exit"
    /\ set' = set \ {iface[r].name}
    /\ fn' = [fn EXCEPT ![r] = "none"]
    /\ UNCHANGED <<world, refresh, watcher, iface, attached, ended, alarm>>

-----------------------------------------------------------------------------
(* The watcher of a receiver *)

Watching(r, from, to) ==
    /\ watcher[r] = from
    /\ watcher' = [watcher EXCEPT ![r] = to]
    /\ UNCHANGED <<set, refresh, fn, iface>>

Subscribe(r) ==
    /\ Watching(r, "start", "select")
    /\ subscribed' = subscribed \cup {r}
    /\ ch' = [ch EXCEPT ![r] = 0]
    /\ UNCHANGED <<world, attached, ended>>

Woken(r) ==
    /\ ch[r] > 0
    /\ Watching(r, "select", "check")
    /\ ch' = [ch EXCEPT ![r] = 0]
    /\ UNCHANGED <<world, attached, ended, subscribed>>

\* Mutant: the watcher does not wait for the end of the controller.
SeesNothing(r) == FALSE /\ UNCHANGED vars

SeesClosed(r) ==
    /\ closed
    /\ Watching(r, "select", "close")
    /\ UNCHANGED <<world, attached, ended, alarm>>

\* RunHealthCheck looks for an interface of the name, whatever its index.
Healthy(r) ==
    /\ Watching(r, "check", "select")
    /\ index[iface[r].name] # 0
    /\ UNCHANGED <<world, attached, ended, alarm>>

Unhealthy(r) ==
    /\ Watching(r, "check", "close")
    /\ \/ index[iface[r].name] = 0 /\ UNCHANGED world
       \/ Failing
    /\ UNCHANGED <<attached, ended, alarm>>

\* Mutant: the receiver is closed first and its program detached last.
EndFirst(r) ==
    /\ Watching(r, "close", "detached")
    /\ ended' = ended \cup {r}
    /\ UNCHANGED <<world, attached, alarm>>

\* Close of the receiver: the program is detached, then Recv is told.
Detach(r) ==
    /\ Watching(r, "close", "detached")
    /\ attached' = attached \ {r}
    /\ UNCHANGED <<world, ended, alarm>>

End(r) ==
    /\ Watching(r, "detached", "unsubscribe")
    /\ ended' = ended \cup {r}
    /\ attached' = attached \ {r}
    /\ UNCHANGED <<world, alarm>>

\* Close of the subscriber: it leaves the map, then closes its channel.
Unsubscribe(r) ==
    /\ Watching(r, "unsubscribe", "left")
    /\ subscribed' = subscribed \ {r}
    /\ UNCHANGED <<world, attached, ended, ch>>

CloseChannel(r) ==
    /\ Watching(r, "left", "closed")
    /\ UNCHANGED <<world, attached, ended, alarm>>

\* Nothing refers to the receiver any more.
Collect(r) ==
    /\ watcher[r] = "closed" /\ fn[r] = "none" /\ r \notin refresh.waking
    /\ watcher' = [watcher EXCEPT ![r] = "none"]
    /\ iface' = [iface EXCEPT ![r] = NoIface]
    /\ ended' = ended \ {r}
    /\ ch' = [ch EXCEPT ![r] = 0]
    /\ refresh' = [refresh EXCEPT !.todo = @ \ {r}]
    /\ UNCHANGED <<world, set, fn, attached, subscribed>>

Close ==
    /\ ~closed
    /\ closed' = TRUE
    /\ UNCHANGED <<index, made, fails, caller, set, refresh, recv, alarm>>

\* Close of the engine has come to the channel of the triggers, and the engine's goroutine
\* to the last token: it starts no other Refresh and returns after the one under way.
LastToken ==
    /\ closed /\ caller = "runs"
    /\ caller' = "last"
    /\ UNCHANGED <<index, made, fails, closed, set, refresh, recv, alarm>>

-----------------------------------------------------------------------------
Refresher ==
    \/ StartRefresh \/ List \/ Refreshed \/ Panic
    \/ \E r \in Recvs : Visit(r) \/ Wake(r)
    \/ \E f \in refresh.ifaces : RunAgain(f) \/ \E r \in Recvs : Run(f, r)

Goroutine(r) == Attach(r) \/ AttachFails(r) \/ RecvFails(r) \/ Exit(r)

Watcher(r) ==
    \/ Subscribe(r) \/ Woken(r) \/ SeesClosed(r) \/ Healthy(r) \/ Unhealthy(r)
    \/ Detach(r) \/ End(r) \/ Unsubscribe(r) \/ CloseChannel(r) \/ Collect(r)

Next ==
    \/ \E i \in Ifaces : LinkAdd(i) \/ LinkDelete(i)
    \/ Refresher
    \/ \E r \in Recvs : Goroutine(r) \/ Watcher(r)
    \/ Close \/ LastToken

\* Refresh is called again and again (a ticker and the netlink monitor trigger the
\* engine), Close of the engine comes to its end, and goroutines run.
Fairness ==
    /\ WF_vars(Refresher) /\ WF_vars(LastToken)
    /\ \A r \in Recvs : WF_vars(Goroutine(r)) /\ WF_vars(Watcher(r))

Spec == Init /\ [][Next]_vars /\ Fairness

-----------------------------------------------------------------------------
\* The type of the state; the channel of a subscriber holds one token.
TypeOK ==
    /\ index \in [Ifaces -> 0 .. MaxIndex] /\ made \in 0 .. MaxIndex
    /\ fails \in 0 .. MaxFails /\ closed \in BOOLEAN
    /\ caller \in {"runs", "last"}
    /\ set \subseteq Ifaces
    /\ refresh.at \in {"idle", "wake", "run"}
    /\ fn \in [Recvs -> {"none", "new", "recv", "exit"}]
    /\ watcher \in [Recvs -> {"none", "start", "select", "check", "close", "detached",
                              "unsubscribe", "left", "closed"}]
    /\ \A r \in Recvs : iface[r].name \in Ifaces \cup {"none"} /\ iface[r].idx \in 0 .. MaxIndex
    /\ attached \subseteq Recvs /\ ended \subseteq Recvs /\ subscribed \subseteq Recvs
    /\ ch \in [Recvs -> 0 .. 1]

\* A program is never attached to an interface on which one of an earlier receiver still
\* is: the goroutine leaves the group after its receiver has detached
\* (bgsingleflight.go:26, xdprecv.go:207-224), though another goroutine closes it.
NeverBusy ==
    \A r \in Recvs, q \in attached : fn[r] = "new" => iface[q].name # iface[r].name

\* Every interface gets a receiver: of its index, or by its name only, when it was made
\* again before the watcher of the last one looked (xdprecv.go:199); whatever fails on
\* the way, and when a panic ends the process.
Receiving(i) == \E r \in attached : fn[r] = "recv" /\ iface[r].name = i

EventuallyReceiving ==
    \A i \in Ifaces : (index[i] # 0) ~> (index[i] = 0 \/ closed \/ Receiving(i))

\* After Close everything ends and nothing can start again: no program stays attached
\* (xdpcontroller.go:122) and no goroutine is left, those that a Refresh started which was
\* under way, or which a token left in the channel of the triggers made the engine call on
\* the closed controller, included.
Over ==
    /\ caller = "last" /\ refresh.at = "idle"
    /\ set = {} /\ attached = {} /\ subscribed = {}

CloseStops == closed ~> Over
=============================================================================
