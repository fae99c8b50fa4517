------------------------------ MODULE MCPublish ------------------------------
(* How a node's addresses get into its PeerNode: the collector, up to the callback of     *)
(* the engine, and the reconciler, from the callback on.  The reconciler's model takes a   *)
(* configuration from a callback at any time, whatever the collector knows, so a behaviour *)
(* is one of either; turn says which, and the other does not move.                         *)
EXTENDS PeerNodeSync

CONSTANTS a1, a2, a3, t1, t2, Tunnels, Nats

VARIABLES
    turn,
    nat, trigger, stunPC, addr, mapped, endpoints, globalEndpoints, currentConfig, cfg,
    registered, told

\* The addresses of the tunnel; a NAT that gives the node another address, and an IPv6
\* address at times.
MCTunnels == {{t1}, {t2}}
MCNats == {[v4 |-> a1, v6 |-> None], [v4 |-> a2, v6 |-> a3]}

Collector == INSTANCE Collector WITH
    Addrs <- {a1, a2, a3, t1, t2}, Local <- {t1}, Configs <- Tunnels,
    pc <- stunPC, loaded <- mapped, callback <- registered

ASSUME CollectorAssumption == Collector!Assumption

collectorVars == <<nat, trigger, stunPC, addr, mapped, endpoints, globalEndpoints,
                   currentConfig, cfg, registered, told>>

MCInit ==
    /\ turn \in {"collector", "sync"}
    /\ Collector!Init /\ Init
    /\ turn = "sync" => nat.v4 = a1 /\ currentConfig = {t1}
    /\ turn = "collector" => actual = CHOOSE c \in Configs : TRUE

MCNext ==
    /\ UNCHANGED turn
    /\ \/ turn = "collector" /\ Collector!Next /\ UNCHANGED vars
       \/ turn = "sync" /\ Next /\ UNCHANGED collectorVars

MCSpec ==
    /\ MCInit /\ [][MCNext]_<<turn, collectorVars, vars>>
    /\ \/ turn = "collector" /\ Collector!Fairness
       \/ turn = "sync" /\ Fairness

-----------------------------------------------------------------------------
\* If the configuration and the addresses of the node stay, the callback is told both in
\* the end, never an address of the node's own tunnel as a way to reach it, and the
\* PeerNode ends up with what the callback was told last.
LastPublished ==
    /\ turn = "collector" => []Collector!TypeOK /\ Collector!EventuallyTold
    /\ turn = "sync" => EventuallyPublished
=============================================================================
