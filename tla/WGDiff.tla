------------------------------- MODULE WGDiff -------------------------------
(* The difference between two WireGuard configurations (tetraengine/wgengine/     *)
(* util.go), and what a device makes of it.  A peer's public key is a number:      *)
(* the keys are compared as base64 strings.                                        *)
EXTENDS Naturals, Sequences, FiniteSetsExt

CONSTANTS
    MaxKey,     \* public keys are 1..MaxKey
    IPs,        \* prefixes a peer may be allowed
    Eps         \* addresses of endpoints

DiffAssumption == MaxKey \in Nat \ {0} /\ 0 \notin Eps /\ "no peer" \notin IPs

PublicKeys == 1..MaxKey
NilEp == 0

\* A peer in a configuration or on a device, and the lack of one.
PeerConfigs == [ep : Eps \cup {NilEp}, allowedIPs : SUBSET IPs]
NoPeer == [ep |-> NilEp, allowedIPs |-> {"no peer"}]
Devices == [PublicKeys -> PeerConfigs \cup {NoPeer}]
NoPeers == [k \in PublicKeys |-> NoPeer]

Has(config, k) == config[k] # NoPeer

\* No prefix is allowed to two peers.
Disjoint(config) ==
    \A k, l \in PublicKeys : k # l /\ Has(config, k) /\ Has(config, l) =>
        config[k].allowedIPs \cap config[l].allowedIPs = {}

KeysOf(config) == {k \in PublicKeys : Has(config, k)}

Update(config, k) == [key |-> k, remove |-> FALSE, peer |-> config[k]]
Removal(config, k) == [key |-> k, remove |-> TRUE, peer |-> config[k]]

-----------------------------------------------------------------------------
\* A round of the merge.  Both lists are sorted by key, so the next peer of each is the
\* least of those left; r.diff is the difference so far.
SkipExpected(r) == [r EXCEPT !.expected = @ \ {Min(@)}]
SkipCurrent(r) == [r EXCEPT !.current = @ \ {Min(@)}]
Adds(r, change) == [r EXCEPT !.diff = Append(@, change)]

\* Mutant: the peers left of the current configuration are not removed.
RoundKeepsTail(expected, current, r) ==
    LET e == Min(r.expected)
        c == Min(r.current)
    IN  CASE r.expected = {} -> r
          [] r.expected # {} /\ r.current # {} /\ e > c ->
                SkipCurrent(Adds(r, Removal(current, c)))
          [] r.expected # {} /\ (r.current = {} \/ e < c) ->
                SkipExpected(Adds(r, Update(expected, e)))
          [] OTHER ->
                SkipExpected(SkipCurrent(
                    IF expected[e] # current[c] THEN Adds(r, Update(expected, e)) ELSE r))

Round(expected, current, r) ==
    LET e == Min(r.expected)
        c == Min(r.current)
    IN  CASE r.expected = {} /\ r.current = {} -> r
          [] r.current # {} /\ (r.expected = {} \/ e > c) ->
                SkipCurrent(Adds(r, Removal(current, c)))
          [] r.expected # {} /\ (r.current = {} \/ e < c) ->
                SkipExpected(Adds(r, Update(expected, e)))
          [] OTHER ->
                SkipExpected(SkipCurrent(
                    IF expected[e] # current[c] THEN Adds(r, Update(expected, e)) ELSE r))

\* The merge of the two sorted lists: a round takes the least key left, so there are at
\* most as many as keys.
diffPeers(expected, current) ==
    LET merged[n \in 0..MaxKey] ==
            IF n = 0
            THEN [expected |-> KeysOf(expected), current |-> KeysOf(current), diff |-> << >>]
            ELSE Round(expected, current, merged[n - 1])
    IN  merged[MaxKey].diff

\* diffConfigs: the peers on the device are replaced if the engine knows of none.
\* keyed: the current configuration has the private key and port of the expected one.
diffConfigs(expected, current, keyed) ==
    [replacePeers |-> current = NoPeers,
     peers |-> diffPeers(expected, current),
     hasDiff |-> ~keyed \/ diffPeers(expected, current) # << >>]

-----------------------------------------------------------------------------
(* The device (the kernel's WireGuard) *)

\* An update replaces the prefixes of a peer, which other peers lose; without an
\* endpoint the one the device knows stays.
ConfigurePeer(device, d) ==
    IF d.remove THEN [device EXCEPT ![d.key] = NoPeer]
    ELSE [k \in PublicKeys |->
            CASE k = d.key ->
                    [ep |-> IF d.peer.ep = NilEp /\ Has(device, k) THEN device[k].ep
                            ELSE d.peer.ep,
                     allowedIPs |-> d.peer.allowedIPs]
              [] k # d.key /\ Has(device, k) ->
                    [device[k] EXCEPT !.allowedIPs = @ \ d.peer.allowedIPs]
              [] OTHER -> NoPeer]

\* The first n changes of a difference are made.
ConfigureDevice(device, diff, n) ==
    LET made[i \in 0..n] ==
            IF i = 0 THEN IF diff.replacePeers THEN NoPeers ELSE device
            ELSE ConfigurePeer(made[i - 1], diff.peers[i])
    IN  made[n]

\* The peers a difference changes.
KeysIn(diff) == {diff.peers[i].key : i \in 1..Len(diff.peers)}

\* The device does what the configuration says of a peer, and of all.
Follows(device, config, k) ==
    /\ Has(device, k) <=> Has(config, k)
    /\ Has(config, k) =>
        /\ device[k].allowedIPs = config[k].allowedIPs
        /\ config[k].ep = NilEp \/ device[k].ep = config[k].ep

Implements(device, config) == \A k \in PublicKeys : Follows(device, config, k)

=============================================================================
