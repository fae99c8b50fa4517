------------------------------- MODULE MCPaths -------------------------------
(* Two paths that must be there in the end: the network of a node's pods, which two     *)
(* ADDs at a time set up, and a peer with two endpoints, which picks the active one.      *)
(* Neither reads the state of the other; turn says which of them moves.                 *)
EXTENDS PodNetwork

CONSTANTS Endpoints, MaxRTT, NoEndpoint

VARIABLES
    turn,
    rtt, endpoints, endpointStatusMap, priority, activeEndpoint, callback, todo, minRTT,
    minID

Peer == INSTANCE DiscoPeerStatus WITH pc <- callback

ASSUME PeerAssumption == Peer!StatusAssumption

peerVars == <<rtt, endpoints, endpointStatusMap, priority, activeEndpoint, callback, todo,
              minRTT, minID>>

\* The one whose turn it is not has nothing to do that fairness could ask for: the peer
\* has no endpoints, the ADDs are done.
MCInit ==
    /\ turn \in {"peer", "network"}
    /\ Peer!Fresh /\ endpoints = (IF turn = "peer" THEN Endpoints ELSE {})
    /\ Clean /\ pc = [p \in Pods |-> IF turn = "network" THEN "idle" ELSE "done"]

MCNext ==
    /\ UNCHANGED turn
    /\ \/ turn = "peer" /\ Peer!Next /\ UNCHANGED vars
       \/ turn = "network" /\ Next /\ UNCHANGED peerVars

MCSpec ==
    /\ MCInit /\ [][MCNext]_<<turn, vars, peerVars>>
    /\ Fairness /\ Peer!Fairness

-----------------------------------------------------------------------------
\* The endpoint that stays the fastest becomes the active one for good.
FastestUsed == turn = "peer" => Peer!BestBecomesActive

\* Every ADD succeeds in the end.
AddsSucceed == turn = "network" => EventuallyAdded
=============================================================================
