------------------------------ MODULE WGEngine ------------------------------
(* The WireGuard engine (tetraengine/wgengine/wgengine.go): Reconfig brings the   *)
(* device, its addresses and its routes to a configuration.  For the device it     *)
(* relies on prevConfig, what it believes to have configured; addresses and routes *)
(* are read back from the kernel.  Every netlink call may fail on its own, the     *)
(* configuration of the device in the middle; the process may end at any point and *)
(* start again with the device as it is.                                           *)
EXTENDS WGDiff

CONSTANTS
    Configs,    \* configurations: the peers, and the addresses of the interface
    Link,       \* the prefix of an address, for which the kernel makes a route, or
    NoRoute,    \* ... none
    Multicast,  \* the route ff00::/8 the kernel keeps for IPv6
    MaxPartial  \* bound: configurations of the device that fail half-way

Addresses == UNION {c.addrs : c \in Configs}
Scopes == {"host", "link", "universe"}    \* 254, 253 and 0
Dsts == (IPs \cup Addresses \cup {Link[a] : a \in Addresses} \cup {Multicast}) \ {NoRoute}

\* A prefix allowed to two peers is left to Tunnels: no device does what such a
\* configuration says.  A claim is of one owner, so no peer is allowed an address of the node.
Assumption ==
    /\ Configs \subseteq [peers : Devices, addrs : SUBSET Addresses]
    /\ \A c \in Configs : Disjoint(c.peers)
    /\ Addresses \cap IPs = {}
    /\ NoRoute \notin IPs \cup Addresses \cup {Multicast}
    /\ MaxPartial \in Nat

VARIABLES
    device,         \* peers of the device
    addrs,          \* addresses of the interface
    routes,         \* routes to the interface
    prevConfig,     \* what the engine last configured the device with
    keyed,          \* the engine has configured the private key
    step,           \* where Reconfig is
    config,         \* its argument
    failed,         \* a call of this Reconfig has failed
    doubtful,       \* the peers that a configuration which failed half-way was to change, and
                    \* none has changed since
    partial         \* how often that happened

vars == <<device, addrs, routes, prevConfig, keyed, step, config, failed, doubtful, partial>>

Route(dst, scope) == [dst |-> dst, scope |-> scope]

NoConfig == [peers |-> NoPeers, addrs |-> {}]

Init ==
    /\ device = NoPeers
    /\ addrs = {}
    /\ routes = {Route(Multicast, "universe")}
    /\ prevConfig = NoPeers
    /\ keyed = FALSE
    /\ step = "idle"
    /\ config = NoConfig
    /\ failed = FALSE
    /\ doubtful = {}
    /\ partial = 0

Routed == {r.dst : r \in routes}

-----------------------------------------------------------------------------
Reconfig(c) ==
    /\ step = "idle"
    /\ config' = c
    /\ failed' = FALSE
    /\ step' = "wireguard"
    /\ UNCHANGED <<device, addrs, routes, prevConfig, keyed, doubtful, partial>>

Diff == diffConfigs(config.peers, prevConfig, keyed)

NoDiff ==
    /\ step = "wireguard"
    /\ ~Diff.hasDiff
    /\ step' = "addresses"
    /\ UNCHANGED <<device, addrs, routes, prevConfig, keyed, config, failed, doubtful, partial>>

reconfigWireguard ==
    /\ step = "wireguard"
    /\ Diff.hasDiff
    /\ device' = ConfigureDevice(device, Diff, Len(Diff.peers))
    /\ doubtful' = IF Diff.replacePeers THEN {} ELSE doubtful \ KeysIn(Diff)
    /\ prevConfig' = config.peers
    /\ keyed' = TRUE
    /\ step' = "addresses"
    /\ UNCHANGED <<addrs, routes, config, failed, partial>>

\* Mutant: what the engine believes changes although the call failed.
WireguardFailsKeyed ==
    /\ step = "wireguard"
    /\ Diff.hasDiff
    /\ prevConfig' = config.peers
    /\ keyed' = TRUE
    /\ step' = "idle"
    /\ failed' = TRUE
    /\ UNCHANGED <<device, addrs, routes, config, doubtful, partial>>

\* The namespace cannot be entered or the call is refused: Reconfig returns.
WireguardFails ==
    /\ step = "wireguard"
    /\ Diff.hasDiff
    /\ step' = "idle"
    /\ failed' = TRUE
    /\ UNCHANGED <<device, addrs, routes, prevConfig, keyed, config, doubtful, partial>>

\* The kernel makes some of the changes and refuses the next.  (The first of all is that it
\* forgets the peers it has, if they are to be replaced.)
WireguardFailsHalfway(n) ==
    /\ step = "wireguard"
    /\ Diff.hasDiff
    /\ n < Len(Diff.peers) /\ (n > 0 \/ Diff.replacePeers)
    /\ partial < MaxPartial
    /\ partial' = partial + 1
    /\ device' = ConfigureDevice(device, Diff, n)
    /\ doubtful' = doubtful \cup KeysIn(Diff)
    /\ step' = "idle"
    /\ failed' = TRUE
    /\ UNCHANGED <<addrs, routes, prevConfig, keyed, config>>

-----------------------------------------------------------------------------
\* The kernel's routes for addresses: one of host scope to each, and one of link scope
\* to each prefix.  They come and go with the addresses.
Kernel(as) ==
    {Route(a, "host") : a \in as}
        \cup {Route(Link[a], "link") : a \in {a \in as : Link[a] # NoRoute}}
RoutesWith(as) == (routes \ (Kernel(addrs) \ Kernel(as))) \cup (Kernel(as) \ Kernel(addrs))

\* reconfigAddresses: bad are the calls that fail; the others are made.
reconfigAddresses(bad) ==
    /\ step = "addresses"
    /\ bad \subseteq (addrs \ config.addrs) \cup (config.addrs \ addrs)
    /\ addrs' = (config.addrs \ (bad \ addrs)) \cup (addrs \cap bad)
    /\ routes' = RoutesWith(addrs')
    /\ failed' = (failed \/ bad # {})
    /\ step' = "routes"
    /\ UNCHANGED <<device, prevConfig, keyed, config, doubtful, partial>>

\* generateRoutesFromWGConfig
Desired == UNION {config.peers[k].allowedIPs : k \in {k \in PublicKeys : Has(config.peers, k)}}

RoutesTo(dst) == {r \in routes : r.dst = dst}

\* diffRoutes: a route is deleted if nobody wants its destination, or if another one
\* to it was found before.
Deletes(deleted) ==
    /\ \A r \in routes : r.dst \notin Desired => r \in deleted
    /\ \A dst \in Desired \cap Routed : \E r \in routes : RoutesTo(dst) \ deleted = {r}

\* reconfigRoutes: routes are deleted, the one for multicast and those of scope 254
\* apart, and added; bad are the destinations for which the calls fail.
reconfigRoutes ==
    /\ step = "routes"
    /\ \E deleted \in SUBSET routes :
        LET called == {r \in deleted : r.dst # Multicast /\ r.scope # "host"}
            added == Desired \ Routed
        IN  /\ Deletes(deleted)
            /\ \E bad \in SUBSET ({r.dst : r \in called} \cup added) :
                /\ routes' = (routes \ {r \in called : r.dst \notin bad})
                                \cup {Route(d, "universe") : d \in added \ bad}
                /\ failed' = (failed \/ bad # {})
    /\ step' = "idle"
    /\ UNCHANGED <<device, addrs, prevConfig, keyed, config, doubtful, partial>>

\* The process ends and starts again, with the interface as it is.
Restart ==
    /\ prevConfig' = NoPeers
    /\ keyed' = FALSE
    /\ step' = "idle"
    /\ failed' = TRUE
    /\ UNCHANGED <<device, addrs, routes, config, doubtful, partial>>

-----------------------------------------------------------------------------
Next ==
    \/ \E c \in Configs : Reconfig(c)
    \/ NoDiff \/ reconfigWireguard \/ WireguardFails
    \/ \E n \in 0..MaxKey : WireguardFailsHalfway(n)
    \/ \E bad \in SUBSET Addresses : reconfigAddresses(bad)
    \/ reconfigRoutes \/ Restart

Spec == Init /\ [][Next]_vars

-----------------------------------------------------------------------------
(* Type invariant.                                                                  *)
TypeOK ==
    /\ device \in Devices
    /\ addrs \in SUBSET Addresses
    /\ routes \in SUBSET [dst : Dsts, scope : Scopes]
    /\ prevConfig \in Devices
    /\ keyed \in BOOLEAN
    /\ step \in {"idle", "wireguard", "addresses", "routes"}
    /\ config \in Configs \cup {NoConfig}
    /\ failed \in BOOLEAN
    /\ doubtful \in SUBSET PublicKeys
    /\ partial \in 0..MaxPartial

(* What the engine believes of a peer on the device is so, whatever failed and however  *)
(* often the process started again, unless the peer is doubtful: a configuration that    *)
(* failed half-way was to change it, and none has changed it since.  The doubt is real    *)
(* and may last: prevConfig is that of before the failure (wgengine.go:180-191), so a     *)
(* configuration that says of the peer what prevConfig says has no difference there       *)
(* (util.go:84-108) and succeeds, though the peer lacks a prefix or has one of another     *)
(* peer.  Only a configuration that says something else of it, or a restart, ends that.    *)
PrevConfigTrue == keyed => \A k \in PublicKeys \ doubtful : Follows(device, prevConfig, k)

(* A Reconfig of which no call failed leaves the interface with the peers, addresses *)
(* and routes of its configuration and no others, the doubtful peers apart, and with  *)
(* the local routes of the addresses, although the list of routes it works from holds *)
(* those of every table.                                                              *)
ReconfigDone ==
    step = "idle" /\ ~failed /\ config # NoConfig =>
        /\ \A k \in PublicKeys \ doubtful : Follows(device, config.peers, k)
        /\ addrs = config.addrs
        /\ {r.dst : r \in {r \in routes : r.scope # "host"}} = Desired \cup {Multicast}
        /\ {r.dst : r \in {r \in routes : r.scope = "host"}} = addrs

=============================================================================
