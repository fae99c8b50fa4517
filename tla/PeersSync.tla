------------------------------ MODULE PeersSync ------------------------------
(***************************************************************************)
(* How a node learns of the others: the PeersSync controller of the agent  *)
(* (tetrad/controllers/peerssync_controller.go).                           *)
(*                                                                         *)
(* Any event of a PeerNode or a CIDRClaim puts the one request in the work *)
(* queue.  Reconcile lists the PeerNodes, then, for each of the others,    *)
(* the claims it selects, then its own addresses, and hands the engine the *)
(* configuration put together from these lists.  Each list is a read of a  *)
(* cache that lags behind the API server, at a moment of its own, and the  *)
(* two kinds of objects have caches of their own.                          *)
(*                                                                         *)
(* A PeerNode is a model value for its endpoints and keys; Invalid is one  *)
(* whose selector does not parse.  Labels and selectors are Owner: a       *)
(* PeerNode selects the claims of its node.                                *)
(***************************************************************************)
EXTENDS Naturals, Sequences

CONSTANTS
  Peers, Self,      \* the other nodes, and this one
  Specs, Invalid,   \* what a PeerNode says
  Claims,           \* names of CIDRClaims
  Owner,            \* Owner[c]: the node whose labels claim c carries
  AddressClaims,    \* claims that are addresses of nodes, not of pods
  CIDRs,            \* CIDRs a claim may get
  None, Pending,    \* an object that does not exist; a claim that is not ready
  MaxEdits,         \* bound: changes of objects
  MaxFaults,        \* bound: failed lists and restarts
  MaxLag            \* bound: watch events a cache is behind

VARIABLES
  node, claim,                  \* the objects at the API server
  pendingNodes, pendingClaims,  \* events under way, each the objects after it
  cacheNodes, cacheClaims,      \* the caches
  queued,                       \* is the request in the work queue?
  pc,                           \* "idle", "claims", "self", "reconfig"
  peers,                        \* the PeerNodes listed
  todo,                         \* the peers whose claims are not listed yet
  peerConfigs, addrs,           \* the configuration being put together
  engine,                       \* the configuration the engine has
  steady,                       \* claims in use by the engine and left alone since
  edits, faults

api == <<node, claim, pendingNodes, pendingClaims, steady, edits>>
caches == <<cacheNodes, cacheClaims>>
local == <<peers, todo, peerConfigs, addrs>>
vars == <<api, caches, queued, pc, local, engine, faults>>

Nodes == Peers \cup {Self}
PeerConfigs == [spec : Specs, Addresses : SUBSET CIDRs, AllowedIPs : SUBSET CIDRs]
NoPeers == [p \in Peers |-> None]
NoNodes == [n \in Nodes |-> None]

\* Every claim is of a node; a PeerNode that is there and parses is neither of the two
\* special values.
Assumption ==
  /\ Owner \in [Claims -> Peers \cup {Self}] /\ Self \notin Peers
  /\ AddressClaims \subseteq Claims
  /\ {Invalid, None} \cap Specs = {} /\ None \notin PeerConfigs
  /\ MaxEdits \in Nat /\ MaxFaults \in Nat /\ MaxLag \in Nat

ASSUME PeersSyncAssumption == Assumption

EmptyConfig == [Peers |-> NoPeers, Addresses |-> {}]

\* The agent starts in a cluster that is set up: every node has its PeerNode,
\* the CIDRs are given out.
Init ==
  /\ node \in [Nodes -> Specs]
  /\ claim \in {f \in [Claims -> CIDRs \cup {None}] :
                \A x \in CIDRs : \E c \in Claims : \A d \in Claims : f[d] = x <=> d = c}
  /\ pendingNodes = <<>> /\ pendingClaims = <<>>
  /\ cacheNodes = node /\ cacheClaims = claim
  /\ queued = TRUE /\ pc = "idle"
  /\ peers = NoNodes /\ todo = {} /\ peerConfigs = NoPeers /\ addrs = {}
  /\ engine = EmptyConfig /\ steady = {}
  /\ edits = 0 /\ faults = 0

\* Reconcile returns: its lists are gone.
Return ==
  /\ pc' = "idle"
  /\ peers' = NoNodes /\ todo' = {} /\ peerConfigs' = NoPeers /\ addrs' = {}

-----------------------------------------------------------------------------
(* The API server and the caches *)

\* A PeerNode is created, changed or deleted.
EditNode(n, s) ==
  /\ edits < MaxEdits /\ Len(pendingNodes) < MaxLag /\ node[n] # s
  /\ node' = [node EXCEPT ![n] = s]
  /\ pendingNodes' = Append(pendingNodes, node')
  /\ steady' = {c \in steady : Owner[c] # n}
  /\ edits' = edits + 1
  /\ UNCHANGED <<claim, pendingClaims, caches, queued, pc, local, engine, faults>>

\* A claim is created, bound or deleted; no CIDR is given to two claims.
EditClaim(c, s) ==
  /\ edits < MaxEdits /\ Len(pendingClaims) < MaxLag /\ claim[c] # s
  /\ s \in CIDRs => \A d \in Claims \ {c} : claim[d] # s
  /\ claim' = [claim EXCEPT ![c] = s]
  /\ pendingClaims' = Append(pendingClaims, claim')
  /\ steady' = steady \ {c}
  /\ edits' = edits + 1
  /\ UNCHANGED <<node, pendingNodes, caches, queued, pc, local, engine, faults>>

\* A controller that does not watch the PeerNodes.
DeliverNodesUnwatched ==
  /\ pendingNodes # <<>>
  /\ cacheNodes' = Head(pendingNodes)
  /\ pendingNodes' = Tail(pendingNodes)
  /\ UNCHANGED <<node, claim, pendingClaims, cacheClaims, queued, pc, local, engine, steady, edits, faults>>

DeliverNodes ==
  /\ pendingNodes # <<>>
  /\ cacheNodes' = Head(pendingNodes)
  /\ pendingNodes' = Tail(pendingNodes)
  /\ queued' = TRUE
  /\ UNCHANGED <<node, claim, pendingClaims, cacheClaims, pc, local, engine, steady, edits, faults>>

DeliverClaims ==
  /\ pendingClaims # <<>>
  /\ cacheClaims' = Head(pendingClaims)
  /\ pendingClaims' = Tail(pendingClaims)
  /\ queued' = TRUE
  /\ UNCHANGED <<node, claim, pendingNodes, cacheNodes, pc, local, engine, steady, edits, faults>>

\* The agent starts again, its engine with it; the first list makes an event
\* of every object.
Restart ==
  /\ faults < MaxFaults
  /\ cacheNodes' = node /\ cacheClaims' = claim
  /\ pendingNodes' = <<>> /\ pendingClaims' = <<>>
  /\ queued' = (\E n \in Nodes : node[n] # None \/ \E c \in Claims : claim[c] # None)
  /\ Return
  /\ engine' = EmptyConfig /\ steady' = {}
  /\ faults' = faults + 1
  /\ UNCHANGED <<node, claim, edits>>

-----------------------------------------------------------------------------
(* Reconcile *)

Ready(claims, c) == claims[c] \in CIDRs

\* A Reconcile that goes on without a PeerNode of its own.
ListPeersAnyway ==
  /\ pc = "idle" /\ queued
  /\ queued' = FALSE
  /\ peers' = IF cacheNodes[Self] = None THEN NoNodes ELSE cacheNodes
  /\ todo' = {p \in Peers : peers'[p] # None}
  /\ peerConfigs' = NoPeers
  /\ pc' = "claims"
  /\ UNCHANGED <<api, caches, addrs, engine, faults>>

\* The list of PeerNodes; without one of its own the node does nothing.
ListPeers ==
  /\ pc = "idle" /\ queued
  /\ queued' = FALSE
  /\ IF cacheNodes[Self] = None
     THEN Return
     ELSE /\ peers' = cacheNodes
          /\ todo' = {p \in Peers : cacheNodes[p] # None}
          /\ pc' = "claims"
          /\ UNCHANGED <<peerConfigs, addrs>>
  /\ UNCHANGED <<api, caches, engine, faults>>

\* The claims of one peer.  A PeerNode with an invalid selector is skipped.
ListClaims(p) ==
  /\ pc = "claims" /\ p \in todo
  /\ todo' = todo \ {p}
  /\ LET mine == {c \in Claims : Owner[c] = p /\ Ready(cacheClaims, c)}
     IN  peerConfigs' = IF peers[p] = Invalid THEN peerConfigs
           ELSE [peerConfigs EXCEPT ![p] =
                  [spec |-> peers[p],
                   Addresses |-> {cacheClaims[c] : c \in mine \cap AddressClaims},
                   AllowedIPs |-> {cacheClaims[c] : c \in mine}]]
  /\ UNCHANGED <<api, caches, queued, pc, peers, addrs, engine, faults>>

getSelfAddresses ==
  /\ pc = "claims" /\ todo = {}
  /\ addrs' = {cacheClaims[c] : c \in {d \in AddressClaims : Owner[d] = Self /\ Ready(cacheClaims, d)}}
  /\ pc' = "reconfig"
  /\ UNCHANGED <<api, caches, queued, peers, todo, peerConfigs, engine, faults>>

\* A list fails; the error puts the request back.
ListFails ==
  /\ pc = "claims" /\ faults < MaxFaults
  /\ Return
  /\ queued' = TRUE
  /\ faults' = faults + 1
  /\ UNCHANGED <<api, caches, engine>>

InUse(config, c) ==
  /\ Owner[c] \in Peers /\ Ready(claim, c) /\ config.Peers[Owner[c]] # None
  /\ claim[c] \in config.Peers[Owner[c]].AllowedIPs

\* The engine gets the configuration.  (steady only records, for the property
\* below, what it uses that the caches agree with the API server about.)
Reconfig ==
  /\ pc = "reconfig"
  /\ engine' = [Peers |-> peerConfigs, Addresses |-> addrs]
  /\ steady' = IF pendingNodes = <<>> /\ pendingClaims = <<>>
               THEN steady \cup {c \in Claims : InUse(engine', c) /\ node[Owner[c]] \in Specs}
               ELSE steady
  /\ Return
  /\ UNCHANGED <<node, claim, pendingNodes, pendingClaims, edits, caches, queued, faults>>

Next ==
  \/ \E n \in Nodes, s \in Specs \cup {Invalid, None} : EditNode(n, s)
  \/ \E c \in Claims, s \in CIDRs \cup {Pending, None} : EditClaim(c, s)
  \/ DeliverNodes \/ DeliverClaims \/ Restart
  \/ ListPeers \/ (\E p \in Peers : ListClaims(p)) \/ getSelfAddresses \/ ListFails \/ Reconfig

\* The watches deliver and the worker works; nobody has to edit anything.
Fairness ==
  /\ WF_vars(DeliverNodes) /\ WF_vars(DeliverClaims)
  /\ WF_vars(ListPeers) /\ WF_vars(getSelfAddresses) /\ WF_vars(Reconfig)
  /\ WF_vars(\E p \in Peers : ListClaims(p))

Spec == Init /\ [][Next]_vars /\ Fairness

-----------------------------------------------------------------------------
(* Properties *)

NodeStates == [Nodes -> Specs \cup {Invalid, None}]
ClaimStates == [Claims -> CIDRs \cup {Pending, None}]

\* Every variable has its type.
TypeOK ==
  /\ node \in NodeStates /\ cacheNodes \in NodeStates /\ peers \in NodeStates
  /\ claim \in ClaimStates /\ cacheClaims \in ClaimStates
  /\ pendingNodes \in Seq(NodeStates) /\ pendingClaims \in Seq(ClaimStates)
  /\ queued \in BOOLEAN /\ pc \in {"idle", "claims", "reconfig"}
  /\ todo \subseteq Peers /\ steady \subseteq Claims
  /\ peerConfigs \in [Peers -> PeerConfigs \cup {None}] /\ addrs \subseteq CIDRs
  /\ engine.Peers \in [Peers -> PeerConfigs \cup {None}] /\ engine.Addresses \subseteq CIDRs
  /\ edits \in 0..MaxEdits /\ faults \in 0..MaxFaults

\* What the engine uses and nobody touches stays in use: no Reconcile takes
\* the prefix of a claim from a peer while neither the claim nor the peer's
\* PeerNode changes, although every list is of another moment, other objects
\* come and go, and the node's own PeerNode may vanish.
SteadyStaysConfigured == \A c \in steady : InUse(engine, c)

\* What the objects say the engine should have.
Expected ==
  LET mine(n) == {c \in Claims : Owner[c] = n /\ Ready(claim, c)}
  IN [Peers |-> [p \in Peers |->
        IF node[p] \in {None, Invalid} THEN None
        ELSE [spec |-> node[p],
              Addresses |-> {claim[c] : c \in mine(p) \cap AddressClaims},
              AllowedIPs |-> {claim[c] : c \in mine(p)}]],
      Addresses |-> {claim[c] : c \in mine(Self) \cap AddressClaims}]

\* When the objects stop changing the engine ends up with exactly what they
\* say, whatever mixture of old and new the lists of a Reconcile gave; only a
\* node without a PeerNode of its own keeps what it had.
EventuallyConfigured == <>[](node[Self] = None \/ engine = Expected)
=============================================================================
