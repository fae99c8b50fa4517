------------------------------- MODULE Tunnels -------------------------------
(* What becomes of the claims of the other nodes on the WireGuard device: the       *)
(* controller of PeersSync, the engine that applies its configuration whenever it    *)
(* gets to it, and the device.  A claim that moves from one peer to another while     *)
(* Reconcile lists the claims peer by peer gives a configuration with its prefix at   *)
(* both; the device keeps it at the one it is given last, and the next difference     *)
(* takes it from the one that lost it.                                               *)
EXTENDS PeersSync

CONSTANTS MaxKey, IPs, Eps,     \* those of WGDiff
          MaxPartial,           \* bound: configurations of the device that fail half-way
          KeyOf                 \* per peer: the place of its public key in the order of keys

VARIABLES
    device,             \* peers of the device
    prevConfig, keyed,  \* what the engine believes of it
    shared,             \* prefixes a configuration on the device has named for two peers
    doubtful,           \* the peers that a configuration which failed half-way was to change,
                        \* and none has changed since
    partial             \* how often that happened

wireguard == <<device, prevConfig, keyed, shared, doubtful, partial>>

WG == INSTANCE WGDiff

TunnelsAssumption ==
    /\ KeyOf \in [Peers -> WG!PublicKeys]
    /\ \A p, q \in Peers : KeyOf[p] = KeyOf[q] => p = q
    /\ CIDRs \subseteq IPs
    /\ MaxPartial \in Nat

TunnelsInit ==
    /\ Init
    /\ device = WG!NoPeers /\ prevConfig = WG!NoPeers /\ keyed = FALSE
    /\ shared = {} /\ doubtful = {} /\ partial = 0

\* toWGConfig of the engine's current configuration; no peer answers pings yet.
Configured(k) == {p \in Peers : KeyOf[p] = k /\ engine.Peers[p] # None}
WGConfig ==
    [k \in WG!PublicKeys |->
        IF Configured(k) = {} THEN WG!NoPeer
        ELSE [ep |-> WG!NilEp,
              allowedIPs |-> UNION {engine.Peers[p].AllowedIPs : p \in Configured(k)}]]

Diff == WG!diffConfigs(WGConfig, prevConfig, keyed)
SharedNow ==
    {x \in CIDRs : \E k, l \in WG!PublicKeys :
        k # l /\ x \in WGConfig[k].allowedIPs /\ x \in WGConfig[l].allowedIPs}

\* The engine's goroutine applies the configuration it finds, by the difference d.
Applies(d) ==
    /\ d.hasDiff
    /\ device' = WG!ConfigureDevice(device, d, Len(d.peers))
    /\ prevConfig' = WGConfig /\ keyed' = TRUE
    /\ shared' = (IF d.replacePeers THEN {} ELSE shared) \cup SharedNow
    /\ doubtful' = IF d.replacePeers THEN {} ELSE doubtful \ WG!KeysIn(d)
    /\ UNCHANGED <<vars, partial>>

\* Mutant: the first configuration does not replace the peers of the device.
ApplyKeepsPeers == LET d == Diff IN Applies([d EXCEPT !.replacePeers = FALSE])

Apply == LET d == Diff IN Applies(d)

\* The kernel makes n of the changes and refuses the next; the engine believes what it did
\* before.  (A call that changes nothing leaves everything as it is.)
ApplyFailsHalfway(n) ==
    LET d == Diff IN
    /\ n < Len(d.peers) /\ (n > 0 \/ d.replacePeers)
    /\ partial < MaxPartial
    /\ partial' = partial + 1
    /\ device' = WG!ConfigureDevice(device, d, n)
    /\ shared' = shared \cup SharedNow
    /\ doubtful' = doubtful \cup WG!KeysIn(d)
    /\ UNCHANGED <<vars, prevConfig, keyed>>

\* The process starts again; the device stays.
RestartProcess ==
    /\ Restart
    /\ prevConfig' = WG!NoPeers /\ keyed' = FALSE
    /\ UNCHANGED <<device, shared, doubtful, partial>>

Controller ==
    \/ \E n \in Nodes, s \in Specs \cup {Invalid, None} : EditNode(n, s)
    \/ \E c \in Claims, s \in CIDRs \cup {Pending, None} : EditClaim(c, s)
    \/ DeliverNodes \/ DeliverClaims
    \/ ListPeers \/ (\E p \in Peers : ListClaims(p)) \/ getSelfAddresses \/ ListFails \/ Reconfig

TunnelsNext ==
    \/ Controller /\ UNCHANGED wireguard
    \/ Apply \/ (\E n \in 0..MaxKey : ApplyFailsHalfway(n)) \/ RestartProcess

TunnelsSpec == TunnelsInit /\ [][TunnelsNext]_<<vars, wireguard>>

-----------------------------------------------------------------------------
\* The peer the device sends the packets for x to.
SentTo(x) == {p \in Peers : x \in device[KeyOf[p]].allowedIPs}

\* Nothing is under way: the caches are up to date, the last Reconcile is over and its
\* configuration applied.
AtRest ==
    /\ pendingNodes = <<>> /\ pendingClaims = <<>> /\ ~queued /\ pc = "idle"
    /\ ~Diff.hasDiff /\ node[Self] # None

\* The peer is one that a configuration which failed half-way was to change.
InDoubt(p) == KeyOf[p] \in doubtful

(* At rest the packets for the prefix of a claim go to the node of the claim, and those *)
(* for a prefix nobody claims to nobody, although Reconcile lists the claims of the      *)
(* peers at different moments (peerssync_controller.go:107-150) and the device is only   *)
(* given differences.  A prefix that was once given to two peers at a time may be with   *)
(* nobody, never with a wrong peer.  And a configuration that failed half-way leaves     *)
(* only the peers it was to change in doubt, until one changes them (wgengine.go:180-191): *)
(* such a peer may lack its prefix or hold one that is claimed by another or by nobody.    *)
TunnelsFollowClaims ==
    AtRest => \A x \in CIDRs :
        LET owners == {p \in Peers : node[p] \in Specs
                                     /\ \E c \in Claims : Owner[c] = p /\ claim[c] = x}
        IN  /\ \A p \in SentTo(x) : p \in owners \/ InDoubt(p)
            /\ \A p \in owners : p \in SentTo(x) \/ x \in shared \/ InDoubt(p)
=============================================================================
