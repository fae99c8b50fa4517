------------------------------ MODULE Collector ------------------------------
(* How a node learns its own addresses and publishes them (pkg/stun, pkg/endpoints, *)
(* and endpointsCallback and notify of tetraengine).  One goroutine per address      *)
(* family asks a STUN server whenever it is triggered; with an answer it goes all    *)
(* the way to the engine's callback, through cells both goroutines store and load.   *)
EXTENDS Naturals

CONSTANTS
    Addrs,      \* addresses
    None,
    Configs,    \* configurations, as the addresses each gives the node's tunnel
    Local,      \* the addresses of the node's interfaces
    Nats        \* what a STUN server may see: the address of each family, or None

Families == {"v4", "v6"}
Mapped == [Families -> Addrs \cup {None}]
NoMapped == [f \in Families |-> None]

Assumption ==
    /\ None \notin Addrs
    /\ Configs # {} /\ Configs \subseteq SUBSET Addrs
    /\ Local \subseteq Addrs
    /\ Nats # {} /\ Nats \subseteq Mapped

VARIABLES
    nat,                    \* what a STUN server sees now
    trigger,                \* the trigger channels of the STUN goroutines
    pc,                     \* where they are
    addr,                   \* addrV4 and addrV6 of the collector
    loaded,                 \* per goroutine: what it has loaded of them
    endpoints, globalEndpoints,     \* of the engine
    currentConfig,
    cfg,                    \* per goroutine: the configuration notify has loaded
    callback,               \* a callback is registered with Notify
    told                    \* what it was told last

vars == <<nat, trigger, pc, addr, loaded, endpoints, globalEndpoints, currentConfig,
          cfg, callback, told>>
world == <<nat, currentConfig, callback>>

SomeConfig == CHOOSE c \in Configs : TRUE

Init ==
    /\ nat \in Nats
    /\ trigger = [f \in Families |-> FALSE]
    /\ pc = [f \in Families |-> "do"]
    /\ addr = NoMapped
    /\ loaded = [f \in Families |-> NoMapped]
    /\ endpoints = {}
    /\ globalEndpoints = {}
    /\ currentConfig \in Configs
    /\ cfg = [f \in Families |-> SomeConfig]
    /\ callback = FALSE
    /\ told = [addresses |-> {}, endpoints |-> {}]

Goto(f, l) == pc' = [pc EXCEPT ![f] = l]
Known(m) == {m[f] : f \in Families} \ {None}

-----------------------------------------------------------------------------
(* The world *)

Move(n) ==
    /\ n # nat
    /\ nat' = n
    /\ UNCHANGED <<trigger, pc, addr, loaded, endpoints, globalEndpoints, currentConfig,
                   cfg, callback, told>>

\* Reconfig stores a configuration; it publishes nothing.
Reconfig(c) ==
    /\ currentConfig' = c
    /\ UNCHANGED <<nat, trigger, pc, addr, loaded, endpoints, globalEndpoints, cfg,
                   callback, told>>

\* The controller registers its callback, with answers perhaps gone already.
Notify ==
    /\ ~callback
    /\ callback' = TRUE
    /\ UNCHANGED <<nat, trigger, pc, addr, loaded, endpoints, globalEndpoints,
                   currentConfig, cfg, told>>

\* Every 30 seconds, and when an interface changes.
Trigger ==
    /\ trigger' = [f \in Families |-> TRUE]
    /\ UNCHANGED <<world, pc, addr, loaded, endpoints, globalEndpoints, cfg, told>>

-----------------------------------------------------------------------------
(* STUN.run *)

Triggered(f) ==
    /\ pc[f] = "wait"
    /\ trigger[f]
    /\ trigger' = [trigger EXCEPT ![f] = FALSE]
    /\ Goto(f, "do")
    /\ UNCHANGED <<world, addr, loaded, endpoints, globalEndpoints, cfg, told>>

\* The request times out or cannot be sent: what was learned before stays.
Fails(f) ==
    /\ pc[f] = "do"
    /\ Goto(f, "wait")
    /\ UNCHANGED <<world, trigger, addr, loaded, endpoints, globalEndpoints, cfg, told>>

\* The answer: notifyV4 and notifyV6 store it.
Answers(f) ==
    /\ pc[f] = "do"
    /\ nat[f] # None
    /\ addr' = [addr EXCEPT ![f] = nat[f]]
    /\ Goto(f, "load4")
    /\ UNCHANGED <<world, trigger, loaded, endpoints, globalEndpoints, cfg, told>>

-----------------------------------------------------------------------------
(* Collector.notify *)

LoadV4(f) ==
    /\ pc[f] = "load4"
    /\ loaded' = [loaded EXCEPT ![f]["v4"] = addr["v4"]]
    /\ Goto(f, "load6")
    /\ UNCHANGED <<world, trigger, addr, endpoints, globalEndpoints, cfg, told>>

LoadV6(f) ==
    /\ pc[f] = "load6"
    /\ loaded' = [loaded EXCEPT ![f]["v6"] = addr["v6"]]
    /\ Goto(f, "store")
    /\ UNCHANGED <<world, trigger, addr, endpoints, globalEndpoints, cfg, told>>

-----------------------------------------------------------------------------
(* endpointsCallback and notify of the engine *)

StoreEndpoints(f) ==
    /\ pc[f] = "store"
    /\ endpoints' = Local \cup Known(loaded[f])
    /\ Goto(f, "storeGlobal")
    /\ UNCHANGED <<world, trigger, addr, loaded, globalEndpoints, cfg, told>>

StoreGlobal(f) ==
    /\ pc[f] = "storeGlobal"
    /\ globalEndpoints' = Known(loaded[f])
    /\ loaded' = [loaded EXCEPT ![f] = NoMapped]
    /\ Goto(f, "config")
    /\ UNCHANGED <<world, trigger, addr, endpoints, cfg, told>>

\* The private key parses here: with one that does not notify ends, and nobody is ever told
\* anything (TetraEngine has that case of the same configuration).
LoadConfig(f) ==
    /\ pc[f] = "config"
    /\ cfg' = [cfg EXCEPT ![f] = currentConfig]
    /\ Goto(f, "tell")
    /\ UNCHANGED <<world, trigger, addr, loaded, endpoints, globalEndpoints, told>>

\* notify loads the endpoints stored last, by whichever goroutine, and calls the
\* callback; the addresses of the tunnel are no endpoints of it.
Tell(f) ==
    /\ pc[f] = "tell"
    /\ told' = IF callback
               THEN [addresses |-> cfg[f], endpoints |-> endpoints \ cfg[f]]
               ELSE told
    /\ cfg' = [cfg EXCEPT ![f] = SomeConfig]
    /\ Goto(f, "wait")
    /\ UNCHANGED <<world, trigger, addr, loaded, endpoints, globalEndpoints>>

-----------------------------------------------------------------------------
Run(f) ==
    \/ Triggered(f) \/ Fails(f) \/ Answers(f) \/ LoadV4(f) \/ LoadV6(f)
    \/ StoreEndpoints(f) \/ StoreGlobal(f) \/ LoadConfig(f) \/ Tell(f)

Next ==
    \/ \E n \in Nats : Move(n)
    \/ \E c \in Configs : Reconfig(c)
    \/ Notify \/ Trigger
    \/ \E f \in Families : Run(f)

\* Goroutines run, Trigger is called again and again, and a server that can be
\* reached answers now and then.
Fairness ==
    /\ WF_vars(Notify) /\ WF_vars(Trigger)
    /\ \A f \in Families : WF_vars(Run(f)) /\ SF_vars(Answers(f))

Spec == Init /\ [][Next]_vars /\ Fairness

-----------------------------------------------------------------------------
(* Type invariant; a node never publishes an address of its own tunnel as a way to   *)
(* reach it.                                                                          *)
TypeOK ==
    /\ nat \in Nats
    /\ trigger \in [Families -> BOOLEAN]
    /\ pc \in [Families -> {"do", "wait", "load4", "load6", "store", "storeGlobal",
                            "config", "tell"}]
    /\ addr \in Mapped
    /\ loaded \in [Families -> Mapped]
    /\ endpoints \in SUBSET Addrs
    /\ globalEndpoints \in SUBSET Addrs
    /\ currentConfig \in Configs
    /\ cfg \in [Families -> Configs]
    /\ callback \in BOOLEAN
    /\ told \in [addresses : SUBSET Addrs, endpoints : SUBSET Addrs]
    /\ told.addresses \cap told.endpoints = {}

(* If the configuration and the addresses stay, both are published in the end, although  *)
(* Reconfig publishes nothing, the two goroutines call back in either order, and the  *)
(* callback may be registered after the first answers.                                *)
EventuallyTold ==
    \A n \in Nats, c \in Configs :
        Known(n) # {} /\ <>[](nat = n /\ currentConfig = c) =>
            <>[](told.addresses = c /\ Known(n) \subseteq c \cup told.endpoints)

=============================================================================
