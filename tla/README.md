# A TLA+ verification of tetrapod

tetrapod is a peer-to-peer, full-mesh, encrypted container network. A control
plane gives address ranges to nodes and pods. An agent on every node (tetrad)
publishes the node, learns of the others, finds a working path to each of them
and configures WireGuard accordingly. CNI plugins ask the agent for the
addresses of pods.

This directory models the parts of it whose correctness depends on the order in
which things happen. `PROJECT.json` maps every definition to the lines it
models, and lists the hazards, runs, mutants, findings and theorems.

To check a run: `tlc -workers 2 -config X.cfg M`, where X and M are the "cfg" and
the "module" of the run in `PROJECT.json`. To check the proofs:
`tlapm AllocationProofs.tla`, and likewise for the other seven modules whose names
end in `Proofs`.

## Inventory

### Components and how they interact

    users --> CIDRClaim, CIDRBlock, CIDRClaimTemplate, PeerNode (API server)
                 |  watches, cached reads              ^  writes
                 v                                     |
      CIDR claim controller (control plane)     agent controllers (tetrad)
                                                  |         ^         |
                             CNI plugins --> CNI server     |         | Reconfig
                                                            | Notify  v
                             STUN, collector --> engine (tetraengine)
                                                  |   ^         |
                                    SetPeers      v   | status  v
                                                 disco       WireGuard engine
                                                  |             |
                              split connection <--+          kernel
                                   |
                              packet hijacking (XDP controller, raw sockets)

| component | state | operations | what is hard | what makes it correct |
|---|---|---|---|---|
| CIDR claim controller | none of its own: statuses of claims | Reconcile: Get, List blocks, List claims, Patch | objects change between the reads and the patch; cached reads lag; answers are lost; nothing watches blocks | no address for two claims; a CIDR lies in its block; every claim is observed, and bound if there is room |
| address arithmetic | none | FreeBlocks, FindSubBlock | used blocks that overlap, enclose or miss the base; exact fits | exactly the free addresses; the first fitting block |
| ping ticker | interval, state, priority, reset channel | SetState, Close, its goroutine | a reset while the channel is full; doubling after a change of state | the back-off stays within limits; no reset is lost; ticks never stop |
| disco endpoint, packet manager | pending pings, status under a lock | ping, pong, timeout, ReceivePing, SetPriority, Close | a timeout against a late pong; a network that loses, duplicates, reorders | every ping counts once; the ticker's pace fits the status; connects and notices loss |
| status cells | value, condition variable, subscribers | set, close, NotifyStatus | a change while the callback runs without the mutex | no missed wakeup; the last value is reported |
| disco peer | two maps of endpoints, statuses | SetEndpoints, updateStatus, receive loop, Close | unlocked maps; concurrent computations of the best endpoint | no endpoint outlives the peer; the best endpoint becomes active |
| disco | table of peers, send channel | SetPeers, AddPeer, receiver, sender, Close | temporal peers; Close during SetPeers; unbuffered channels between goroutines | the table ends as wanted; who waits for good waits for a goroutine that a close has ended, and what can wait so is known |
| engine | current configuration, own addresses, status hash, one-slot trigger | Reconfig, Trigger, reconfig, callbacks | a token that stands for many requests; a hash compared without a lock; failed reconfigurations | the last configuration and the active endpoints reach WireGuard, if the private key parses |
| WireGuard engine | prevConfig | Reconfig (device, addresses, routes) | every call can fail, the device's in the middle; restarts | the difference leads to the wanted device; prevConfig is true but of the peers a failed call was to change |
| STUN and collector | two cells | STUN loops, notify, Trigger | two goroutines publish the same pair | the addresses of both families are learned and told |
| agent controllers | an atomic cell (PeerNodeSync) | Reconcile of CIDRClaimer, PeerNodeSync, PeersSync, ExtraPodCIDRSync | stale caches, missing watches, conflicts, garbage collection, restarts | claims, PeerNode and engine follow what they are computed from |
| CNI server | none | GetPodCIDRs, GetExtraPodCIDRs | retries over changing claims | an answer is ready and complete |
| split connection | queues, buffers, one flight | ReadFrom, Close | a reader of one child does the reading for another | packets arrive unspoiled; nobody sleeps on a packet or past Close |
| XDP controller, alarm, bgsingleflight | group, receivers, subscribers | Refresh, Close, receivers and watchers | interfaces come and go; goroutines of one receiver overlap with the next | one program per interface; every interface is received from |
| agent process, monitor, alarms | one-token channels, the node's addresses as last read | trigger loop, combinator, Refresh, signal, Close | a change during a refresh; everything goes on while Close takes it apart | no change of the node is lost; no panic before the end but one |
| CNI plugins route-pods and tetra-extra-routes | veths, rules and routes in the kernel | ADD, CHECK | ADDs at the same time, failures, kills; look, then make | the network is complete in the end and never up without its firewall; routes lead to their pod |
| other CNI plugins, raw sockets, packets, set-up | none | sequential I/O | | not modelled |

### Not modelled

* The PeerNode controller of the control plane: its Reconcile is empty.
* Encoding and encryption of disco packets: a packet that cannot be decrypted is
  a lost packet.
* Raw sockets, BPF, the ring buffers of XDP receivers, the raw sender, network
  namespaces: I/O. Of the packets' way only the split connection and disco's
  channels are modelled.
* The CNI plugins hostvrf, nsexec and tetra-pod-ipam, and the set-up in the
  programs' `main`: a few sequential calls to netlink and the Kubernetes client
  library, with nothing that another process changes in between. Of route-pods
  the configuration without a firewall, of which nothing is promised.
* The set-up of the WireGuard interface, and Close of the collector. In `Collector` a
  private key that does not parse, with which nothing is ever published.

The API server, the informers, the work queue, `controllerutil`, the garbage
collector, the kernel, `sync.Map`, `sync.Pool` and `singleflight` are not part of
the repository. They are modelled by what the code relies on and are marked
external in the map.

## Modules

A step of a model is what happens between two points at which another actor can
act: a lock taken, an operation on a concurrent map or an atomic cell, a channel
operation, a read of a cache, a write to the API server.

### Control plane

* `IPAddrUtil`: prefix blocks, `FreeBlocks` and `FindSubBlock`. An address is a
  number below 2^AddrBits; the library the code uses is modelled by the set of
  addresses of a prefix block.
* `CIDRClaim`: the API server (`api`, `blocks`), the watch streams and caches
  (`watch`, `cache`, `blockWatch`, `blockCache`), the work queue and its timers,
  and the one worker. A reconcile is `Get`, `ListBlocks`, `Allocate` (List of the
  claims, isReady, allocate, all on one read) and `Patch`. The status patch is a
  merge patch against the object that was read: only fields that differ are
  written, without a version. `Patch` may be refused, or be written with its
  answer lost. Users create, edit and delete claims and blocks at any point.
* `AddressPool`: the abstract specification. Claims hold sets of addresses; a step
  gives one claim a range that no other claim has an address of, or takes it back.
  `CIDRClaim` implements it under the mapping `Held`: the addresses of the CIDR in
  the stored status of a claim (`ImplementsPool`).

### disco

* `Ticker`: the goroutine, `SetState`, `C`, `Close`, with intervals in
  milliseconds.
* `StatusNotify`: the status cell that endpoints and peers share.
* `DiscoPeerEndpoint`: run, the timeouts, ReceivePing, SetPriority, and the
  network. It uses the ticker through what `Ticker` shows (it keeps ticking).
* `DiscoPeer`: `SetEndpoints` against `Close`, one map operation per step.
* `DiscoPeerStatus`: `updateStatus`, run by several goroutines.
* `Disco`: the table of peers. `DiscoReceive`: the goroutines and channels a
  packet passes, with peers and endpoints that are added and closed.

### Engine

* `TetraEngine`: Reconfig, Trigger, the one-slot channel, reconfig, status
  callbacks. `Collector`: from the STUN answer to the agent's callback.
* `WGDiff`: `diffPeers`, round by round, and `diffConfigs` as operators, and what a
  device makes of a difference, change by change. The front of a sorted list is the least
  of the keys left. `WGEngine` uses it: Reconfig with failures, and restarts. A
  ConfigureDevice that fails has made any number of its changes before; the peers it was
  to change are `doubtful` until another configuration changes them, which prevConfig, the
  last one that succeeded, may not know to be necessary.
* `SplitConn`: ReadFrom of all children. `XDPController`: Refresh, the receivers'
  goroutines and watchers, the alarm and the single-flight group. A closed controller is
  refreshed again until the engine's channel of triggers is closed and empty (`caller`).
* `Tunnels` composes `PeersSync`, the engine's step from its current configuration to
  the device, and `WGDiff`. It extends `PeersSync`, whose variable `engine` it applies
  to a device at any moment: from claims of other nodes to where packets go, also when a
  configuration of the device fails half-way.

### Agent

* `PeerNodeSync`, `PeersSync`, `CIDRClaimer`, `ExtraPodCIDRSync`: one controller
  each. A read of a cache is a step, and so is a write. CreateOrUpdate reads the
  cache, writes only a difference, and conflicts when the object has changed.
* `CNIServer`: the two calls with their retries.
* `Daemon`: the process. The start: the engine refreshes before netlink is dialled and the
  loop has subscribed to the monitor. From a netlink message over the monitor, its subscriber, the
  combinator with the ticker, the loop in main and the trigger to the Refresh of
  receiver and sender; and the end: signal, manager, deferred Close of the engine,
  part by part, with all other goroutines going on. The outcomes in which Go panics
  (a send on a closed channel, a nil peer) are actions of their own; when the wake-up in
  the receiver's Refresh is one, `XDPController` says in detail, and here it may be at any.

### CNI plugins

* `PodNetwork`: ADDs of route-pods, one call to the kernel or to iptables per step.
  AppendUnique is two steps, look and append. Any ADD can fail or be killed at any
  step, and the runtime runs it again.
* `ExtraRoutes`: ADDs of tetra-extra-routes, with pods that come and go and the routes
  the kernel deletes with a veth. `forced` and `inherited` are history variables,
  which no action of the code reads.

The `MC` modules give constants that are not plain sets, state the properties that
compare an operator with its reference definition, and put the components of one
part of the system side by side:

| module | components |
|---|---|
| `MCCIDRClaim` | constants of `CIDRClaim`; extended by the next two |
| `MCAllocation` | `CIDRClaim` with fresh reads, the inputs of `IPAddrUtil`, `CNIServer` |
| `MCClaims` | `CIDRClaim` with a lagging cache, `CIDRClaimer`, `ExtraPodCIDRSync` |
| `MCEndpoint` | `StatusNotify`, `Ticker`, `DiscoPeerEndpoint` with answers in time |
| `MCNode` | `DiscoPeerEndpoint` with late answers, `DiscoPeer`, `Disco`, `WGEngine`, `WGDiff`, `Tunnels`, `ExtraRoutes` |
| `MCPaths` | `DiscoPeerStatus`, and `PodNetwork`, which it extends |
| `MCPublish` | `Collector`, and `PeerNodeSync`, which it extends |
| `MCEngine` | `TetraEngine` twice: many configurations, in the variables of the module it extends, and two peers |
| `MCNetwork` | `SplitConn`, `XDPController`, `Daemon` |
| `MCDiscoReceive`, `MCPeersSync` | one component each |

The components of such a module share no variable. Each has an open model of the
others as its environment (the CNI server's claims come and go as they like, the
endpoint's ticker ticks at any time), so the product of two of them would show
nothing that each alone does not. A behaviour is therefore one of a single
component: the variable `turn`, chosen at the start, says which, the rest stays
in its initial state, and fairness is that of the chosen component. A property
`Prop == turn = "x" => X!Prop` speaks of the behaviours of X. An
invariant that holds in the initial state of X in any case may leave the condition out.
Components that do share
state are composed in a module of their own: `DiscoPeerEndpoint` (endpoint, packet
manager, network), `WGEngine` over `WGDiff`, `Tunnels`, `Daemon`.

## Runs

Each property has a mutant: a plausible mistake in a mapped definition under which
TLC finds the property violated, listed in `PROJECT.json`.

| run | shows | bounds, and why they are enough |
|---|---|---|
| `allocation` | `NoOverlap`, `RecordedInBlock` and the refinement `ImplementsPool` with up-to-date reads | 2 claims, 2 blocks, sizes 1 and 2, 4 operations of users and failures: delete, create again, edit and lose an answer within one reconcile |
| | `FirstFit`: `FreeBlocks` and `FindSubBlock` against set-level definitions; no claim for one address gets a network address | bases of 4 and 8 addresses, up to 3 used blocks of any shape: enclosing, outside, overlapping, used up |
| | `RepliesSound` of the CNI server | 3 templates, 3 changes of claims or pod during a call |
| `claims` | `NoneForgotten`, `ClaimsSettled`: every claim is observed, and bound if there is room | 2 claims for one block that has room for one, 3 operations; a cache one event behind |
| | `MakersSettled`: the claims that exist are the ones wanted | for the node 2 templates, two configurations of the agent, 1 edit, 1 failure; for pods 1 pod, 2 templates, 3 edits, 1 failure |
| `node` | `TickerFollowsStatus`, `AccountedOnce` of an endpoint | 2 pings at a time, the network changing once; timeouts and pongs in any order |
| | `TablesKept` of a peer: no orphan, no double Close, none left after Close | 2 addresses, 1 setter, 2 closers, 6 endpoints made |
| | `TablesKept` of disco: no peer lost, the table as wanted, empty after Close | 2 keys, 5 peers made |
| | `DeviceFollows` of WireGuard: prevConfig is true of the device, Reconfig does what it says | 3 keys, of which 1 or 2 have a peer, every call failing, the device's after any of its peers; one failure half-way, with configurations before and after it |
| | `DiffImplements`: differences are right and minimal | all pairs of configurations of 3 keys and 2 prefixes: removal before, between and after kept peers |
| | `ClaimsFollowed`: at rest packets for a claimed prefix go to its node | 2 peers, one prefix that either can claim, 2 edits, a restart, one failure half-way, a cache one event behind: a prefix that moves during a Reconcile or between a failed and a complete configuration |
| | `RoutesKept`: from ADD to the end of the pod its extra CIDRs lead to it | 3 pods, 2 CIDRs, 2 failures: a CIDR released by one pod and claimed by the next |
| `endpoint` | `FollowsNetwork`, `CloseStops` | 2 pings, 2 changes of the network: up, down and up again |
| | `SleepsInformed`, `ReportsChanges`, `ToldOrDone` of the status cell | 2 subscribers, 3 values, 3 changes: a change during a callback, and back |
| | `ResetTakesEffect`, `KeepsTicking` of the ticker | the code's own constants |
| `disco_receive` | `ReceiverMovesOn`, `SendReturns` | 2 peers, one with an endpoint: one peer can hold up the other; each may be closed, and taken out of the table, at any point |
| `paths` | `FastestUsed`: the endpoint that stays the fastest becomes active for good | 2 endpoints, 2 round-trip times |
| | `HostShielded`, `AddsSucceed` of the pods' network | 2 ADDs at a time, 2 failures or kills, both families with all six rules |
| `engine` | `NoLostReconfig`, `NATAvoided`, `EventuallyInUse` (of configurations) | 1 peer, 3 configurations, 4 calls: two configurations during one reconfiguration; a private key that parses or not |
| | `EventuallyInUse` (of active endpoints) | 2 peers whose callbacks overlap |
| `publish` | `LastPublished`, up to the agent's callback | both families, a NAT whose address changes, two configurations |
| | `NoLostEvent`, `LastPublished`, from there to the API server | 2 callers, 2 changes, 1 foreign edit, 1 failure, a cache 2 events behind |
| `peers` | `SteadyStaysConfigured`, `EventuallyConfigured` | 2 peers and the node itself, 3 claims, 3 edits, 1 failure |
| `network` | `ReadIntact`, `EventuallyReceiving` (of packets), `CloseStops` of the split connection | 2 children, queues of 1 (5 in the code; empty, full and overflowing all occur), packets of 3 kinds, as many buffers as can be in use and one more |
| | `NeverBusy`, `EventuallyReceiving` (of interfaces), `CloseStops` of the XDP controller | 1 interface made twice, 2 receivers at a time, 1 unexplained failure, a Close at any point and any Refresh after it; interfaces do not interact |
| | `NoLostChange`, `PanicsLate` of the process | 1 change of the node, at any point of the start or of a refresh of the old state; the signal at any point |
| `cidrclaim_lagging` | a finding, below | 2 claims, one block with room for one, a cache one event behind |
| `extra_pod_long` | a finding, below | 1 pod with a long name, 2 templates |

Type invariants: those of `CIDRClaim`, `DiscoPeerEndpoint`, `StatusNotify`, `Daemon`,
`PeersSync`, `PeerNodeSync`, `PodNetwork` and `TetraEngine` are theorems of their own;
those of `SplitConn`, `XDPController`, `Disco`, `DiscoPeer` and `WGEngine` are conjuncts of properties
that are proved, and `TunnelTypes` in `NodeProofs` gives the types of what `Tunnels` adds to
`PeersSync`; that of `Collector` is a conjunct of a property that is checked. `CNIServer` and `Ticker` state theirs as documentation: the inductive
invariants of their proofs carry the types these need, as `RouteTypes` in `NodeProofs`
does for `ExtraRoutes`, which states none. `CIDRClaimer`, `ExtraPodCIDRSync`,
`DiscoReceive` and `DiscoPeerStatus`, of which the runs check temporal properties only,
state theirs as documentation; the proofs about the first two carry the types they need
(`NodeTypes`, `PodTypes`).

Every bounded counter is a constant whose name starts with Max (`MaxOps`,
`MaxEdits`, `MaxFaults`, `MaxLag`...), or `Late` in `SplitConn`, and bounds what
the environment does, never what the code does. `MaxId` and `MaxPeers` count the
objects that calls of SetEndpoints and SetPeers make and so bound how often those
are called. Where the environment may use up its bound and leave the code with
nothing to do, the configuration says `CHECK_DEADLOCK FALSE`.

## Fairness

* Goroutines that can run do (weak fairness). A select that finds several channels
  ready picks at random, so a branch that is ready again and again is taken (strong
  fairness): the ticker's timer, the closed channels, the pongs of an endpoint.
* Informers deliver, the work queue hands out every request (it is first in first
  out: strong fairness for each key), and a failed reconcile is queued again.
  Failures of the environment are bounded, or, for patches and WireGuard calls,
  not every attempt fails (strong fairness of the one that works).
* The agent calls Trigger every 30 seconds (tetrad/main.go, the combinator of a
  ticker and the netlink monitor): fairness of `Trigger`, of the STUN loops and of
  the XDP controller's Refresh, until Close of the engine has come to its end.
* A network that is up delivers; one that is down loses. It changes finitely often.
* `SplitConn` assumes that packets of some kind keep arriving. It is needed: see
  below.
* The CNI plugins run, and the container runtime runs an ADD that failed again (weak
  fairness of the steps of each pod's ADD); failures and kills are bounded.
* None is assumed in `Daemon`, `Tunnels` and `ExtraRoutes`: their properties are
  invariants.
* No fairness is assumed of users, of the control plane's answers in `CIDRClaimer`,
  of Close, or of restarts.

## What is proved

TLAPS proves the following for every value of the constants that satisfies the
assumptions stated in the modules. Those are: sorts are distinct and bounds are numbers
(`StatusNotifyAssumption`, `DaemonAssumption`, `PeersSyncAssumption`, `SyncAssumption`, `PodNetworkAssumption`, `NodeAssumption`, `XDPAssumption`);
blocks are pairwise disjoint prefix blocks (`CIDRClaimAssumption`); the ids of pings are
a finite set (`DiscoPeerEndpointAssumption`); what does not exist is no claim (`Assumption` of
`CIDRClaimer` and of `ExtraPodCIDRSync`); every claim is of a node
(`PeersSyncAssumption`), every peer has a public key of its own (`TunnelsAssumption`, part of
`NodeAssumption`); configurations map peers to sets of endpoints and one has no peer
(`EngineAssumption`); the configurations of the WireGuard engine allow no prefix to two
peers nor an address of the node to a peer (`WGEngine`'s `Assumption`, part of
`NodeAssumption`: claims have one owner, and what becomes of a prefix that is on the move
is in `Tunnels`); and there are more buffers than can be in use at a time
(`SplitAssumption`: the pool of the code makes a new one when it is empty).

The argument is the same everywhere: the property is not inductive, so the invariant
adds what the code relies on between two steps, and one lemma per group of actions
shows that it is kept.

* `AllocationProofs`
  * `TypeCorrect`: for any lag of the caches.
  * `FirstFitHolds`, of any base, any blocks in use and any width of an address; its part
    about claims with `MaxLag = 0`. The provers know nothing of powers of two:
    2^n is the number of subsets of n elements, and there are twice as many of n + 1
    (`PowerNext`). So a larger power is a multiple of a smaller one (`PowersDivide`), two
    prefix blocks are nested or apart (`NestedOrDisjoint`), and every block of free
    addresses lies in a largest one (`InLargest`), all of which are apart. A free block of
    the size asked for that is not in the first large enough one comes after all of it,
    hence first fit. No claim has the network address of its block: for one address it is
    in use, and no larger block is it (`AllocateFromIsFree`).
  * `NoOverlapWhenFresh`, `InBlockWhenFresh`: with `MaxLag = 0`. The assumption is
    needed, since `cidrclaim_lagging` shows that the invariant fails for a cache one
    event behind. `NoOverlap` is not inductive: what the worker is about to patch has
    to be known as well. The invariant adds
    - `Sync`: the last undelivered event of a claim, or else the cache, is what the
      API server stores;
    - `Seen`: the claim under reconciliation has the status that was read, or none,
      for users only ever take statuses away (delete, create again) and there is one
      worker;
    - `Proposal`: before the patch, the new status keeps block and CIDR as they were
      read, or its CIDR lies in its block, is not the network address of it and is
      disjoint from what others hold.

    `Allocate` establishes `Proposal` because the List of claims is fresh
    (`FreshRead`, from `Sync`), `FreeBlocks` returns free blocks of the base
    (`FreeBlocksAreFree`), and claims of other blocks are elsewhere. Until the patch
    no other claim gains a status. The patch itself is a case split on which
    fields the merge leaves out (`PatchKeepsInv`).
  * `ImplementsPoolWhenFresh`: `Spec => ImplementsPool`, the refinement of
    `AddressPool`, also with `MaxLag = 0`. A step writes at most one claim
    (`OneClaimMoves`), and a write after which no two claims overlap is an `Acquire`
    or a `Release` of the pool (`WriteIsPoolStep`); that none overlap is
    `NoOverlapWhenFresh`.
  * `RepliesReady`: a reply of the CNI server is complete because the try that gives it
    has read the pod itself (`TryIsFresh`): what an earlier try found or missed plays
    no part.
  * `NoClaimForgotten`, `NoTemplateForgotten`, `NoPodForgotten`: what the liveness
    properties of the three controllers of claims need without fairness. Whatever is not
    as a Reconcile would leave it is queued, under way, or has an event still to come
    that queues it, however far the caches are behind. A write leaves an event of each
    object that it changes, and a delivery queues what it changes (`AppendShows`,
    `TailShows`), so a Reconcile that leaves an object alone has read it as it is stored,
    or is followed by another (`KnownUnlessShown`). For the CIDRClaim controller a patch
    that is accepted ends the matter by itself (`PatchFinishes`); a Reconcile of a pod
    answers for the templates it has still to see to (`InWork`). A write to a name that
    two templates, or two pods, share leaves an event in which a version of the claim with
    the pod's labels goes (`PodWriteSettles`, `AppendShown`, `TailShown`), and so a request
    for the pod that lost it.
* `NodeProofs`
  * `TypeCorrect`, and `PingsAccountedOnce`: a pong's RecvAck and a timeout's
    LoadAndDelete take an entry out of the same sequence, and a new ping has an id
    that is nowhere else; the lemmas say what each removes.
  * `TickerConsistent`: status and ticker are only changed together under the lock.
  * `PodsStayRouted`: what an ADD has yet to route is claimed for its pod
    (`ClaimedToRoute`), what it has dealt with is routed to the pod or was routed
    elsewhere before (`RoutedOrLeft`), and no route outlives the veth it leads to.
    Without a forced deletion a route that is there is that of the claim, so nothing is
    inherited (`NothingInherited`).
  * `TablesAreKept`, from two theorems about one table each.
    `PeersAreKept`: a peer that is open is in the table, or in the hands of the
    goroutine that will store or close it (`PeersHeld`); what a call has yet to visit
    covers what it has yet to change (`SettingGoesOn`, `ClosingGoesOn`); a peer is
    closed before its onClose runs, which may find another peer under the key.
    `EndpointsAreKept`: ids are drawn before they are used and never twice
    (`IdsAreFresh`), so what a Range finds is open and is closed once
    (`StoredIsOpen`); after the channel is closed some goroutine still comes to every
    stored endpoint, or SetEndpoints has yet to look at the channel (`CloseCovers`);
    before that only SetEndpoints acts, and the maps differ by what it has in its
    hands (`MapsMatch`).
  * `DifferencesImplement`: the merge is followed round by round. What is left of the two
    lists has the keys both have in step (`InStep`), so a key that is left in one only is
    missing in the other configuration; the changes so far are those of the keys taken,
    one each (`Names`), and a round takes the least key left, so that `MaxKey` rounds
    are enough (`RoundKeepsNames`). On the device every change makes its own peer right
    and takes nothing from a peer that is (`ChangeMakes`), because the configuration
    allows no prefix twice.
  * `DeviceIsFollowed`: peer by peer. A difference, whole or half of it, changes the
    device only at the peers it names (`FollowsIsDoes`, `DiffNamesChanged`), all of which
    are doubtful after a failure; a complete one makes those it names right, and what it
    does not name was right before or is doubtful still. Routes: those of host scope are
    those of the addresses, and the one for multicast stays (`RoutesInv`).
  * `ClaimsAreFollowed`, for configurations that may allow a prefix to two peers, which
    the assumption of `DeviceIsFollowed` excludes. On the device, what a difference does
    to one prefix at one peer is what its last change of that peer or of that prefix says
    (`ChangeGives`, `DiffGives`). So a peer, unless it is doubtful, of the device is allowed nothing that its last
    configuration does not allow it, and lacks only prefixes that are in `shared`
    (`Believed`); every difference keeps this, whatever the earlier ones took from the
    wrong peer (`ApplyKeepsBelief`), and also a part of one (`HalfKeepsBelief`). That the last configuration is the one of the stored
    objects is `ExpectedWhenQuiet`, brought over by an instance of `PeersSyncProofs`;
    and at rest no prefix is that of two claims, so a prefix is allowed to one peer
    (`RestFollowsClaims`).

  Recursive definitions are unfolded by `Iteration`, that repeating an operation gives the
  function the definition names, and followed by `Upwards`, induction over a set.
* `EndpointPartsProofs`
  * `TypeCorrect`, `NoMissedWakeup`, `NoIdleCallback` of the status cell: the invariant
    relates where a subscriber is to what it reported last. A subscriber compares and
    goes to sleep in one critical section, and every change broadcasts in another.
  * `ResetsTakeEffect` of the ticker: inductive together with `Limits`, that no interval
    exceeds the limit, and `LimitOfPriority`, that the limit is that of the priority.
* `NetworkProofs`
  * `TypeCorrect` of the process: with `Counts`, which relates the place of the main
    goroutine to what it has closed.
  * `NoChangeLost`: inductive together with `Subscribed`. The combinator leaves the
    alarm only after the loop has ended, and the engine takes its token before it
    reads, so a change made during the read leaves another token or a wake-up that
    is still to be passed on. Messages the kernel drops, refreshes that fail and changes
    before the monitor has its subscriber are excepted, as in the property.
  * `NoEarlyPanic`, of every panic but that of the receiver's Refresh, which needs no
    signal: `Orderly` says that nothing is taken apart before the signal, and
    `LastTrigger` that whoever panics on the triggers finds all five parts closed;
    `Counts` bounds them.
  * `PacketsReadIntact`: a buffer lies in one place only, in a reader's hands, in a
    queue or in the pool (`OnePlace`), there is one flight at a time (`OneFlight`), and
    a queue holds packets its child's filter takes (`Sorted`).
  * `NeverAttachedTwice` of the XDP controller: the group has the interface of every
    goroutine and one goroutine per interface (`OneEach`); a program is attached only
    while its goroutine receives, because the receiver is detached before Recv is told
    (`EndsDetached`). It holds through the panics of `WakeUpAll`.
* `PeersSyncProofs`
  * `TypeCorrect`, with `Listed`: claims are looked up only for PeerNodes that were
    listed.
  * `SteadyKept`: a claim that nobody touches is in both caches, in every event on its
    way, and in what the Reconcile under way has put together or has yet to list.
  * `ExpectedWhenQuiet`: when nothing is under way the engine has what the stored objects
    ask for. This is the part of `EventuallyConfigured` that needs no fairness. The
    invariant `UpToDate` says that unless another Reconcile is queued, the one under way
    has read what the caches show, list by list, and the last one was given it: an event
    that changes a cache, also between two lists of one Reconcile, queues another, and
    so does a Reconcile that fails.
* `PeerNodeSyncProofs`
  * `TypeCorrect`, with `Loaded`: no PeerNode is written before there is a configuration.
  * `EventNotLost`: Notify stores before it sends, and the reconciler loads after it
    was called.
* `PodNetworkProofs`
  * `TypeCorrect`.
  * `HostIsShielded`: what the kernel and iptables have only grows (`StepGrows`), so
    what an ADD has found or made stays however many others run, fail or are
    killed (`Progress`). A rule is appended when those before it are there, and an ADD
    comes to each family at the first rule (`FromTheFirst`).
* `TetraEngineProofs`
  * `TypeCorrect`.
  * `ReconfigNotLost`: unless a token is there or a caller is about to send one, the
    configuration the loop has loaded is the current one; it takes the token first and
    loads second. Nothing is claimed for a private key that does not parse.

Only model-checked:

* all liveness properties: fairness and ENABLED are out of the prover's reach. Every
  INVARIANT of the runs that are expected to pass is a theorem;
* the properties of `DiscoPeerStatus`, `Collector` and `DiscoReceive`, which are temporal, and
  `MakersSettled` of `CIDRClaimer` and `ExtraPodCIDRSync` but for the safety part above.

## Findings

The two runs that expect a violation. Each states what a line of the repository says.

1. `cidrclaim_lagging`: two claims get the same addresses when the List of claims is
   served from a cache that does not show the last patch yet.
2. `extra_pod_long`: the templates of a pod with a name of more than 44 bytes share one
   claim name, so that the reconcile never settles.

Met while modelling, each visible in the models but stated by no property:

* a ready claim whose size is edited is reported as observed and keeps its old size
  (`isReady` does not look at the size);
* a patch computed for a deleted claim lands on its successor of the same name, which
  may become ready in a block its selector excludes;
* `reconfigRoutes` keeps the routes of scope 254, the host scope, where its comment
  says link scope (253): the kernel's own routes of the interface are deleted;
* GetPodCIDRs fills templateNames once, outside the retried function, so a claim it saw
  in an earlier try and that is gone by now counts as found (this is why completeness
  is stated of GetExtraPodCIDRs only);
* a packet in a child's queue of the split connection waits for the next packet of any
  kind, when its reader had looked too early;
* the health check of an XDP receiver passes for an interface that was made again under
  its name;
* `WakeUpAll` may send on a channel that a subscriber has just closed, which ends the
  process. The monitor's can do so only after the signal to stop (`PanicsLate`); that of
  the engine's Refresh at any time, when an interface goes away (xdpcontroller.go:66,
  alarm.go:52-65; `Panic` of `XDPController`, `RefreshPanics` of `Daemon`);
* Close closes the XDP controller before the channel of the triggers: a token that is
  there still makes the engine refresh the closed controller, which attaches programs
  again; their watchers find the closed channel and detach them (tetraengine.go:352-364,
  232; xdpcontroller.go:65-66, 122; `CloseStops`);
* a peer of disco that is closed after the receiver looked it up, and before it hands it
  the packet, leaves the receiver in EnqueueReceivedPacket for ever, as the goroutine
  that would take the packet has returned (disco.go:143-151, discoPeer.go:218-219,
  257-260): no packet of any peer is read again, and the receiver does not end with disco
  either. The same when the peer's goroutine waits for an endpoint that was closed (the
  exception `Gone` in `ReceiverMovesOn`);
* after a ConfigureDevice that failed half-way prevConfig is still that of before it
  (wgengine.go:180-191). If the next configuration says of a peer what prevConfig says, no
  difference is found for it (util.go:84-108) and Reconfig succeeds, with the peer lacking
  a prefix or holding that of another, until a later configuration changes the peer or the
  process starts again (the exception `doubtful` in `DeviceFollows` and `InDoubt` in
  `ClaimsFollowed`);
* the engine refreshes receiver and sender before the process listens to netlink
  (main.go:147-171): a change in between is found only by the ticker of 30 s;
* a private key that the operator gave and that does not parse is not refused at the start
  (main.go:136-151): every reconfiguration only logs an error, and nothing is published
  (tetraengine.go:236-240, 117-122; `LoadConfigFails`);
* two pods of one name in two namespaces may also share the names of their claims, when
  the name is longer than 44 bytes and the cut takes what differs
  (extrapodcidrsync_controller.go:149-157): each takes the claim from the other, for ever;
* Close closes disco before the goroutine that reconfigures has stopped: an orderly
  end of the process may turn into a panic before the namespace is deleted
  (`SetPeersPanics` of `Daemon`);
* a prefix that moves from one peer to another while PeersSync lists their claims is
  configured for both. The device keeps it at one of them, and the next difference is
  made against the configuration, not against the device: it may take the prefix from
  both, and nobody has it until the process starts again or the configuration of its
  peer changes (the exception in `TunnelsFollowClaims`, recorded by `shared`);
* tetra-extra-routes leaves a route that leads to the veth of another pod alone. When a
  pod is deleted by force its claims are free before its sandbox is gone; the next
  pod with the same CIDR ends up without a route, although its ADD succeeded (the
  exception in `RoutesKept`, recorded by `forced` and `inherited`);
* an ADD of route-pods fails when another one makes the same pair, moves it or makes the
  same chain between its look and its call; only the runtime's retry makes up for it;
* a STUN answer may arrive before the engine has its configuration, and AddPeer returns
  nil to SetPeers after a Close (action `UseNil` of `Disco`): both end the process;
* Close of an endpoint does not close its ticker, whose goroutine stays.

## Plan

Done, in this order: the allocator and its proofs; the ticker, status cell and
endpoint with proofs; peers and disco; the engine and WireGuard; the agent's
controllers and the CNI server; the split connection and the XDP controller; the
abstract pool of addresses with its refinement, checked and proved; the composition
from claims to tunnels; the process and its end with proofs; the CNI plugins that several
ADDs run at a time; proofs of the safety invariants of every component. There are eight
proof modules, one per part of the system that is checked together, or per component
where the component has a run of its own.

Next: a composition of the endpoints of two nodes: both connect and agree.
