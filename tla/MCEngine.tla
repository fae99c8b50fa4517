------------------------------ MODULE MCEngine ------------------------------
(* The engine of a node: once with configurations and own addresses that change and no   *)
(* peer that answers, once with two peers that answer, one of them at two addresses, and  *)
(* none of the node's own; in each the private key parses or not.  turn says which.        *)
EXTENDS TetraEngine, TLC

CONSTANTS p1, p2, a1, a2

VARIABLE turn

\* The configurations of the first; those of the second.
MCThreeConfigs == {(p1 :> as) @@ (p2 :> Absent) : as \in {Absent, {a1}, {a1, a2}}}
MCTwoPeers == {[p \in Peers |-> Absent], (p1 :> {a1, a2}) @@ (p2 :> {a1})}

Status == INSTANCE TetraEngine WITH
    Answering <- Peers, OwnAddrs <- {}, Configs <- MCTwoPeers, MaxConfigs <- 1

MCInit == turn \in {"config", "status"} /\ Init

MCNext ==
    /\ UNCHANGED turn
    /\ \/ turn = "config" /\ Next
       \/ turn = "status" /\ Status!Next

MCSpec ==
    /\ MCInit /\ [][MCNext]_<<turn, vars>>
    /\ \/ turn = "config" /\ Fairness
       \/ turn = "status" /\ Status!Fairness

-----------------------------------------------------------------------------
\* Every configuration that stays, and every active endpoint that stays, is given to
\* WireGuard in the end.
EventuallyInUse ==
    /\ turn = "config" => EventuallyApplied
    /\ turn = "status" => Status!EventuallyUsed
=============================================================================
