------------------------------- MODULE MCNode -------------------------------
(* What a node keeps about its peers and must never get wrong: an endpoint's account of  *)
(* its pings over a network that loses, duplicates and delays as it likes; the tables of *)
(* peers and of endpoints; the WireGuard device, the differences it is given, and the     *)
(* tunnels that come of the claims of two other nodes; and the routes to the extra CIDRs  *)
(* of its pods.  None of the models reads the state of another, so a behaviour is one of  *)
(* a single component; turn says which, and the rest does not move.                       *)
EXTENDS DiscoPeerEndpoint, TLC

CONSTANTS Keys, Setter, Closer, MaxPeers,
          Addrs, NoAddr, Closers, MaxId,
          x, y, net, t1, t2, t3,
          MaxKey, IPs, Eps, DiffEps, Configs, Link, NoRoute, Multicast, MaxPartial,
          Others, Self, Specs, Invalid, Claims, Owner, AddressClaims, Prefixes, KeyOf,
          Nobody, Pending, MaxEdits, MaxFaults, MaxLag,
          p1, p2, a, b,
          Pods, CIDRs, MaxFails

VARIABLES
    turn,
    discoClosed, peers, keyOf, made, open, temporal, discoPanicked, want, discoPC, cur,
    discoTodo,
    peerClosed, endpointIDCounter, endpointToEndpointID, endpoints, openEndpoints,
    panicked, pc, todo, taking, target, addrs, id, pe,
    device, ifAddrs, routes, prevConfig, keyed, step, config, failed, doubtful, partial,
    current, expected, before,
    node, claim, pendingNodes, pendingClaims, cacheNodes, cacheClaims, queued, reconcile,
    listed, unlisted, peerConfigs, ownAddrs, engine, steady, edits, faults,
    wgDevice, wgConfig, wgKeyed, shared, wgDoubtful, wgPartial,
    pod, podClaim, route, add, extraRoutes, routesSet, fails, forced, inherited

Disco == INSTANCE Disco WITH
    closed <- discoClosed, panicked <- discoPanicked, pc <- discoPC, todo <- discoTodo

DiscoPeer == INSTANCE DiscoPeer WITH closed <- peerClosed, open <- openEndpoints

WG == INSTANCE WGEngine WITH addrs <- ifAddrs

\* Configurations of three peers that differ in prefixes, endpoints and peers: a prefix
\* moves between them, an endpoint comes and goes.  t1 is a single address; the network
\* of t2 is a prefix of a peer at times, the one of t3 never.
Peer(ep, ips) == [ep |-> ep, allowedIPs |-> ips]
Gone == [ep |-> 0, allowedIPs |-> {"no peer"}]
MCConfigs ==
    {[peers |-> p, addrs |-> as] :
        p \in {<<Peer(1, {x}), Peer(0, {y}), Gone>>, <<Peer(0, {}), Peer(1, {x, y}), Gone>>,
               <<Peer(2, {x, y}), Gone, Gone>>, <<Gone, Peer(2, {x}), Peer(0, {y})>>},
        as \in {{t1}, {t2, t3}}}

MCLink == (t1 :> NoRoute) @@ (t2 :> y) @@ (t3 :> net)

\* One prefix, which a claim of either peer can have.
MCOwner == (a :> p1) @@ (b :> p2)
MCKeyOf == (p1 :> 1) @@ (p2 :> 2)

Tunnels == INSTANCE Tunnels WITH
    Peers <- Others, None <- Nobody, CIDRs <- Prefixes,
    pc <- reconcile, peers <- listed, todo <- unlisted, addrs <- ownAddrs,
    device <- wgDevice, prevConfig <- wgConfig, keyed <- wgKeyed,
    doubtful <- wgDoubtful, partial <- wgPartial

Extra == INSTANCE ExtraRoutes WITH None <- Nobody, claim <- podClaim, pc <- add

ASSUME NodeAssumption ==
    /\ Disco!Assumption /\ DiscoPeer!Assumption
    /\ WG!Assumption /\ WG!DiffAssumption
    /\ Tunnels!Assumption /\ Tunnels!TunnelsAssumption
    /\ Extra!Assumption

discoVars == <<discoClosed, peers, keyOf, made, open, temporal, discoPanicked, want,
               discoPC, discoTodo, cur>>
peerVars == <<peerClosed, endpointIDCounter, endpointToEndpointID, endpoints,
              openEndpoints, panicked, pc, todo, taking, target, addrs, id, pe>>
wgVars == <<device, ifAddrs, routes, prevConfig, keyed, step, config, failed, doubtful,
            partial>>
diffVars == <<current, expected, before>>
tunnelVars == <<node, claim, pendingNodes, pendingClaims, cacheNodes, cacheClaims, queued,
                reconcile, listed, unlisted, peerConfigs, ownAddrs, engine, steady, edits,
                faults, wgDevice, wgConfig, wgKeyed, shared, wgDoubtful, wgPartial>>
extraVars == <<pod, podClaim, route, add, extraRoutes, routesSet, fails, forced, inherited>>

\* DiffEps bounds the pairs of configurations, not what an engine is given.
DiffDevices == {d \in WG!Devices : \A k \in WG!PublicKeys : d[k].ep \in DiffEps}
DiffConfigs == {c \in DiffDevices : WG!Disjoint(c)}

\* Every pair of configurations, and every device that implements the first: an endpoint
\* the configuration does not name may be any on the device.
ChoosePair ==
    /\ expected = current /\ before = current
    /\ before' \in {d \in DiffDevices : WG!Implements(d, current)}
    /\ expected' \in DiffConfigs
    /\ UNCHANGED current

MCInit ==
    /\ turn \in {"endpoint", "disco", "peer", "wireguard", "diff", "tunnels",
                "extra"}
    /\ Init /\ (turn # "endpoint" => up)
    /\ Disco!Init /\ DiscoPeer!Init /\ WG!Init /\ Extra!Init
    /\ IF turn = "diff" THEN current \in DiffConfigs ELSE current = WG!NoPeers
    /\ expected = current /\ before = current
    /\ Tunnels!TunnelsInit /\ (turn # "tunnels" => claim[a] = x)

MCNext ==
    /\ UNCHANGED turn
    /\ \/ /\ turn = "endpoint" /\ Next
          /\ UNCHANGED <<discoVars, peerVars, wgVars, diffVars, tunnelVars, extraVars>>
       \/ /\ turn = "disco" /\ Disco!Next
          /\ UNCHANGED <<vars, peerVars, wgVars, diffVars, tunnelVars, extraVars>>
       \/ /\ turn = "peer" /\ DiscoPeer!Next
          /\ UNCHANGED <<vars, discoVars, wgVars, diffVars, tunnelVars, extraVars>>
       \/ /\ turn = "wireguard" /\ WG!Next
          /\ UNCHANGED <<vars, discoVars, peerVars, diffVars, tunnelVars, extraVars>>
       \/ /\ turn = "diff" /\ ChoosePair
          /\ UNCHANGED <<vars, discoVars, peerVars, wgVars, tunnelVars, extraVars>>
       \/ /\ turn = "tunnels" /\ Tunnels!TunnelsNext
          /\ UNCHANGED <<vars, discoVars, peerVars, wgVars, diffVars, extraVars>>
       \/ /\ turn = "extra" /\ Extra!Next
          /\ UNCHANGED <<vars, discoVars, peerVars, wgVars, diffVars, tunnelVars>>

MCSpec ==
    /\ MCInit
    /\ [][MCNext]_<<turn, vars, discoVars, peerVars, wgVars, diffVars, tunnelVars, extraVars>>

-----------------------------------------------------------------------------
\* The table of peers: a peer whose goroutines run is in it, or in the hands of a goroutine
\* that will store or close it (disco.go:112-141); between calls an open disco has exactly
\* the peers asked for; a closed one ends with no peer in the table and none open.
PeersKept ==
    /\ Disco!TypeOK
    /\ Disco!NoLostPeer /\ Disco!TableIsWanted /\ Disco!ClosedMeansEmpty

\* The life of an endpoint: every one whose goroutines run is found by a later SetEndpoints
\* or Close; none is closed twice, though both and a second Close range over one map; a
\* closed peer ends with none, stored or running (discoPeer.go:141-165, 288-318); between
\* calls the two maps of an open peer are inverse to each other.
EndpointsKept ==
    /\ DiscoPeer!TypeOK
    /\ DiscoPeer!NoOrphans /\ DiscoPeer!ClosedOnce
    /\ DiscoPeer!ClosedMeansEmpty /\ DiscoPeer!MapsAgree

\* No goroutine runs for a peer or an endpoint that the tables do not lead to.
TablesKept == (turn = "disco" => PeersKept) /\ (turn = "peer" => EndpointsKept)

\* What the engine believes of the device is so, whatever failed and restarted, and a
\* Reconfig without a failure leaves the peers, addresses and routes of its configuration,
\* except of peers that a configuration which failed half-way was to change and none has
\* changed since.
DeviceFollows == turn = "wireguard" =>
    WG!TypeOK /\ WG!PrevConfigTrue /\ WG!ReconfigDone

(* The difference between two configurations, given to a device that implements the *)
(* one, makes it implement the other, although every update takes its prefixes away *)
(* from other peers and the changes are made one peer at a time.  It is empty only  *)
(* between configurations that are the same, and names every peer at most once and  *)
(* none that did not change.                                                        *)
DiffImplements == turn = "diff" =>
    LET diff == WG!diffConfigs(expected, current, TRUE)
        peerDiff == WG!diffPeers(expected, current)
    IN  /\ WG!Implements(WG!ConfigureDevice(before, diff, Len(diff.peers)), expected)
        /\ peerDiff = << >> => expected = current
        /\ \A i, j \in 1..Len(peerDiff) : peerDiff[i].key = peerDiff[j].key => i = j
        /\ \A i \in 1..Len(peerDiff) :
               expected[peerDiff[i].key] # current[peerDiff[i].key]

\* At rest the device sends the packets for a claimed prefix to the node of the claim, the
\* peers in doubt apart.
ClaimsFollowed == turn = "tunnels" => Tunnels!TypeOK /\ Tunnels!TunnelsFollowClaims

\* The extra CIDRs of a pod are routed to it from its ADD to its end.
RoutesKept == turn = "extra" => Extra!RoutesKept
=============================================================================
