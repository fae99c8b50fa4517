---------------------------- MODULE TetraEngine ----------------------------
(* The engine of a node (tetraengine/tetraengine.go).  Reconfig stores a          *)
(* configuration and asks for a reconfiguration over a channel with room for one   *)
(* token; so do the callbacks of peers whose active endpoint changed, and Trigger, *)
(* called every 30 seconds.  One goroutine takes the tokens, gives the peers to     *)
(* disco and the result to WireGuard.                                               *)
EXTENDS Naturals

CONSTANTS
    Peers,      \* peers a configuration may name
    Answering,  \* the peers among them that answer pings
    Addrs,      \* addresses of endpoints
    OwnAddrs,   \* the addresses among them that the node may be seen at
    Configs,    \* configurations: what each says of every peer
    Absent,     \* ... a peer that it does not name
    None,
    MaxConfigs  \* bound: calls of Reconfig

ASSUME EngineAssumption ==
    /\ Answering \subseteq Peers
    /\ OwnAddrs \subseteq Addrs
    /\ Configs \subseteq [Peers -> {Absent} \cup SUBSET Addrs]
    /\ [p \in Peers |-> Absent] \in Configs
    /\ None \notin Addrs
    /\ \A as \in SUBSET Addrs : as # Absent
    /\ MaxConfigs \in Nat

VARIABLES
    currentConfig, configs,     \* configs: calls so far
    caller,         \* the goroutine in Reconfig: between its two steps or not
    keyParses,      \* the private key of every configuration, one of main's, parses
    trigger,        \* a token in reconfigTriggerCh
    run,            \* the reconfiguration goroutine
    cfg, statuses,  \* its locals
    peers,          \* disco's peers and their endpoints
    active,         \* their active endpoints
    wg,             \* the endpoints WireGuard was given; Absent: not a peer
    applied,        \* the configuration WireGuard was given last
    latestHash,     \* latestDiscoStatusHash
    cb, seen,       \* the status callback of every peer, and the statuses it read
    globalEndpoints \* the addresses the node is seen at, as far as it knows

configuring == <<currentConfig, configs, caller, keyParses>>
reconfiguring == <<run, cfg, statuses, peers, wg, applied>>
watching == <<latestHash, cb, seen>>
vars == <<configuring, trigger, reconfiguring, active, watching, globalEndpoints>>

NoPeers == [p \in Peers |-> Absent]

Init ==
    /\ currentConfig = NoPeers      \* main gives New a configuration without peers
    /\ configs = 0
    /\ caller = "idle"
    /\ keyParses \in BOOLEAN      \* an operator may give it; nothing looks at it before
    /\ trigger = TRUE
    /\ run = "wait"
    /\ cfg = NoPeers
    /\ statuses = NoPeers
    /\ peers = NoPeers
    /\ active = [p \in Peers |-> None]
    /\ wg = NoPeers
    /\ applied = NoPeers
    /\ latestHash = None
    /\ cb = [p \in Peers |-> "wait"]
    /\ seen = [p \in Peers |-> NoPeers]
    /\ globalEndpoints = {}

-----------------------------------------------------------------------------
(* Reconfig and Trigger *)

Reconfig(c) ==
    /\ caller = "idle"
    /\ configs < MaxConfigs
    /\ configs' = configs + 1
    /\ currentConfig' = c
    /\ caller' = "trigger"
    /\ UNCHANGED <<keyParses, trigger, reconfiguring, active, watching, globalEndpoints>>

\* Mutant: the channel has no room; a token the loop does not wait for is lost.
ReconfigTriggersUnbuffered ==
    /\ caller = "trigger"
    /\ caller' = "idle"
    /\ trigger' = (trigger \/ run = "wait")
    /\ UNCHANGED <<currentConfig, configs, keyParses, reconfiguring, active, watching,
                   globalEndpoints>>

\* triggerReconfig: a token that finds the channel full is not needed.
ReconfigTriggers ==
    /\ caller = "trigger"
    /\ caller' = "idle"
    /\ trigger' = TRUE
    /\ UNCHANGED <<currentConfig, configs, keyParses, reconfiguring, active, watching,
                   globalEndpoints>>

\* Mutant: only the collector is triggered.
TriggerCollector ==
    /\ UNCHANGED vars

\* Called every 30 seconds; what it makes the collector do is in Collector.
Trigger ==
    /\ trigger' = TRUE
    /\ UNCHANGED <<configuring, reconfiguring, active, watching, globalEndpoints>>

\* endpointsCallback learns the node's addresses; it triggers nothing.
endpointsCallback(as) ==
    /\ globalEndpoints' = as
    /\ UNCHANGED <<configuring, trigger, reconfiguring, active, watching>>

-----------------------------------------------------------------------------
(* runReconfig *)

TakeTrigger ==
    /\ run = "wait"
    /\ trigger
    /\ trigger' = FALSE
    /\ run' = "load"
    /\ UNCHANGED <<configuring, cfg, statuses, peers, wg, applied, active, watching,
                   globalEndpoints>>

LoadConfig ==
    /\ run = "load"
    /\ keyParses
    /\ cfg' = currentConfig
    /\ run' = "disco"
    /\ UNCHANGED <<configuring, trigger, statuses, peers, wg, applied, active, watching,
                   globalEndpoints>>

\* The private key does not parse: the error is logged, before disco is given anything.
LoadConfigFails ==
    /\ run = "load"
    /\ ~keyParses
    /\ run' = "wait"
    /\ UNCHANGED <<configuring, trigger, cfg, statuses, peers, wg, applied, active, watching,
                   globalEndpoints>>

\* Mutant: the endpoints are taken as they are.
reconfigDiscoUnfiltered ==
    /\ run = "disco"
    /\ peers' = cfg
    /\ active' = [p \in Peers |->
                    IF peers[p] = Absent \/ cfg[p] = Absent THEN None ELSE active[p]]
    /\ run' = "status"
    /\ UNCHANGED <<configuring, trigger, cfg, statuses, wg, applied, watching, globalEndpoints>>

\* reconfigDisco: endpoints at one of the node's own public addresses are left out.
\* A peer that disco gets anew has no active endpoint yet.
reconfigDisco ==
    /\ run = "disco"
    /\ peers' = [p \in Peers |-> IF cfg[p] = Absent THEN Absent ELSE cfg[p] \ globalEndpoints]
    /\ active' = [p \in Peers |->
                    IF peers[p] = Absent \/ cfg[p] = Absent THEN None ELSE active[p]]
    /\ run' = "status"
    /\ UNCHANGED <<configuring, trigger, cfg, statuses, wg, applied, watching, globalEndpoints>>

\* What GetAllStatuses returns.
AllStatuses == [p \in Peers |-> IF peers[p] = Absent THEN Absent ELSE active[p]]

GetAllStatuses ==
    /\ run = "status"
    /\ statuses' = AllStatuses
    /\ run' = "apply"
    /\ UNCHANGED <<configuring, trigger, cfg, peers, wg, applied, active, watching,
                   globalEndpoints>>

\* wgEngine.Reconfig succeeds.  A peer without an active endpoint keeps the
\* endpoint WireGuard knows.
Apply ==
    /\ run = "apply"
    /\ wg' = [p \in Peers |-> CASE cfg[p] = Absent -> Absent
                                [] statuses[p] \in Addrs -> statuses[p]
                                [] wg[p] = Absent -> None
                                [] OTHER -> wg[p]]
    /\ applied' = cfg
    /\ run' = "wait"
    /\ cfg' = NoPeers
    /\ statuses' = NoPeers
    /\ UNCHANGED <<configuring, trigger, peers, active, watching, globalEndpoints>>

\* It fails: the error is logged, and nobody asks for another try.
ApplyFails ==
    /\ run = "apply"
    /\ run' = "wait"
    /\ cfg' = NoPeers
    /\ statuses' = NoPeers
    /\ UNCHANGED <<configuring, trigger, peers, wg, applied, active, watching, globalEndpoints>>

-----------------------------------------------------------------------------
(* Statuses of peers: the callback of every peer runs in a goroutine of its own *)

\* Another endpoint of the peer becomes the active one.
Activate(p, a) ==
    /\ p \in Answering
    /\ peers[p] # Absent
    /\ a \in peers[p]
    /\ a # active[p]
    /\ active' = [active EXCEPT ![p] = a]
    /\ UNCHANGED <<configuring, trigger, reconfiguring, watching, globalEndpoints>>

\* The callback runs for every new status, a new round-trip time of the same
\* endpoint included: it may start at any time.
hasDiscoStatusUpdate(p) ==
    /\ cb[p] = "wait"
    /\ peers[p] # Absent
    /\ active[p] # None
    /\ cb' = [cb EXCEPT ![p] = "compare"]
    /\ seen' = [seen EXCEPT ![p] = AllStatuses]
    /\ UNCHANGED <<configuring, trigger, reconfiguring, active, latestHash, globalEndpoints>>

Compare(p) ==
    /\ cb[p] = "compare"
    /\ IF latestHash = seen[p]
       THEN /\ cb' = [cb EXCEPT ![p] = "wait"]
            /\ seen' = [seen EXCEPT ![p] = NoPeers]
       ELSE /\ cb' = [cb EXCEPT ![p] = "store"]
            /\ UNCHANGED seen
    /\ UNCHANGED <<configuring, trigger, reconfiguring, active, latestHash, globalEndpoints>>

StoreHash(p) ==
    /\ cb[p] = "store"
    /\ latestHash' = seen[p]
    /\ cb' = [cb EXCEPT ![p] = "trigger"]
    /\ seen' = [seen EXCEPT ![p] = NoPeers]
    /\ UNCHANGED <<configuring, trigger, reconfiguring, active, globalEndpoints>>

CallbackTriggers(p) ==
    /\ cb[p] = "trigger"
    /\ trigger' = TRUE
    /\ cb' = [cb EXCEPT ![p] = "wait"]
    /\ UNCHANGED <<configuring, reconfiguring, active, latestHash, seen, globalEndpoints>>

-----------------------------------------------------------------------------
Reconfigures ==
    \/ TakeTrigger \/ LoadConfig \/ LoadConfigFails \/ reconfigDisco \/ GetAllStatuses
    \/ Apply \/ ApplyFails

StatusCallback(p) ==
    hasDiscoStatusUpdate(p) \/ Compare(p) \/ StoreHash(p) \/ CallbackTriggers(p)

Next ==
    \/ \E c \in Configs : Reconfig(c)
    \/ ReconfigTriggers \/ Trigger
    \/ Reconfigures
    \/ \E p \in Peers : StatusCallback(p) \/ \E a \in Addrs : Activate(p, a)
    \/ \E as \in SUBSET OwnAddrs : endpointsCallback(as)

\* Goroutines run, Trigger is called again and again, and not every call of
\* WireGuard fails.
Fairness ==
    /\ WF_vars(ReconfigTriggers) /\ WF_vars(Trigger)
    /\ WF_vars(Reconfigures) /\ SF_vars(Apply)

Spec == Init /\ [][Next]_vars /\ Fairness

-----------------------------------------------------------------------------
Statuses == [Peers -> Addrs \cup {None, Absent}]

(* Type invariant.                                                                  *)
TypeOK ==
    /\ currentConfig \in Configs /\ cfg \in Configs /\ applied \in Configs
    /\ configs \in 0..MaxConfigs
    /\ caller \in {"idle", "trigger"} /\ keyParses \in BOOLEAN
    /\ trigger \in BOOLEAN
    /\ run \in {"wait", "load", "disco", "status", "apply"}
    /\ peers \in [Peers -> {Absent} \cup SUBSET Addrs]
    /\ active \in [Peers -> Addrs \cup {None}]
    /\ statuses \in Statuses /\ wg \in Statuses
    /\ latestHash \in Statuses \cup {None}
    /\ cb \in [Peers -> {"wait", "compare", "store", "trigger"}]
    /\ seen \in [Peers -> Statuses]
    /\ globalEndpoints \in SUBSET OwnAddrs

\* Nothing is on its way that would start another reconfiguration.
Quiet == run = "wait" /\ ~trigger /\ caller = "idle"

(* No Reconfig is lost in the channel of one token: when the loop waits, no token is *)
(* there and no caller is about to send one, disco has the peers of the current       *)
(* configuration; unless the private key does not parse, when every reconfiguration    *)
(* ends before it gives disco anything.                                               *)
NoLostReconfig ==
    Quiet /\ keyParses => \A p \in Peers :
        IF currentConfig[p] = Absent THEN peers[p] = Absent
        ELSE peers[p] # Absent /\ peers[p] \subseteq currentConfig[p]

(* Every configuration that stays is given to WireGuard in the end, although a failed *)
(* reconfiguration is only logged; none is, ever, if the private key does not parse.   *)
EventuallyApplied ==
    keyParses => \A c \in Configs : <>[](currentConfig = c) => <>[](applied = c)

(* Every active endpoint that stays is given to WireGuard in the end.  The callbacks  *)
(* do not see to it: two of them that store their hashes in the other order leave an  *)
(* old one, and the change back to it asks for no reconfiguration.                    *)
EventuallyUsed ==
    \A p \in Answering, a \in Addrs :
        <>[](active[p] = a /\ peers[p] # Absent) => <>[](wg[p] = a)

(* In the end nothing is pinged at an address the node itself is seen at, although    *)
(* learning the address asks for no reconfiguration.                                  *)
NATAvoided ==
    \A a \in OwnAddrs :
        <>[](a \in globalEndpoints) =>
            <>[](\A p \in Peers : peers[p] = Absent \/ a \notin peers[p])

=============================================================================
