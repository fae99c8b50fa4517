-------------------------- MODULE PeersSyncProofs --------------------------
(***************************************************************************)
(* Proofs about PeersSync, for any nodes, claims and CIDRs, any lag of the *)
(* two caches, and any number of edits and faults.                         *)
(***************************************************************************)
EXTENDS PeersSync, SequenceTheorems, TLAPS

-----------------------------------------------------------------------------
(* Types *)

LEMMA OwnersAreNodes == Owner \in [Claims -> Peers \cup {Self}] /\ Self \notin Peers
BY PeersSyncAssumption DEF Assumption

LEMMA BoundsAreNumbers == MaxEdits \in Nat /\ MaxFaults \in Nat /\ MaxLag \in Nat
BY PeersSyncAssumption DEF Assumption

LEMMA ValuesDiffer == {Invalid, None} \cap Specs = {} /\ None \notin PeerConfigs
BY PeersSyncAssumption DEF Assumption

(* Only PeerNodes that are there have their claims listed.                 *)
Listed == \A p \in todo : peers[p] # None

(* The API server and the caches keep their types.                         *)
LEMMA EnvironmentKeepsType ==
  ASSUME TypeOK,
         \/ \E n \in Nodes, s \in Specs \cup {Invalid, None} : EditNode(n, s)
         \/ \E c \in Claims, s \in CIDRs \cup {Pending, None} : EditClaim(c, s)
         \/ DeliverNodes \/ DeliverClaims \/ Restart
  PROVE  TypeOK'
<1> USE BoundsAreNumbers DEF TypeOK, api, caches, local
<1>1. ASSUME NEW n \in Nodes, NEW s \in Specs \cup {Invalid, None}, EditNode(n, s)
      PROVE  TypeOK'
  <2>1. node' \in NodeStates
    BY <1>1 DEF EditNode, NodeStates
  <2>2. pendingNodes' \in Seq(NodeStates)
    BY <1>1, <2>1 DEF EditNode
  <2>3. steady' \subseteq Claims /\ edits' \in 0..MaxEdits
    BY <1>1 DEF EditNode
  <2> QED
    BY <1>1, <2>1, <2>2, <2>3 DEF EditNode
<1>2. ASSUME NEW c \in Claims, NEW s \in CIDRs \cup {Pending, None}, EditClaim(c, s)
      PROVE  TypeOK'
  <2>1. claim' \in ClaimStates
    BY <1>2 DEF EditClaim, ClaimStates
  <2>2. pendingClaims' \in Seq(ClaimStates)
    BY <1>2, <2>1 DEF EditClaim
  <2>3. steady' \subseteq Claims /\ edits' \in 0..MaxEdits
    BY <1>2 DEF EditClaim
  <2> QED
    BY <1>2, <2>1, <2>2, <2>3 DEF EditClaim
<1>3. CASE DeliverNodes
  <2>1. Head(pendingNodes) \in NodeStates /\ Tail(pendingNodes) \in Seq(NodeStates)
    BY <1>3 DEF DeliverNodes
  <2> QED
    BY <1>3, <2>1 DEF DeliverNodes
<1>4. CASE DeliverClaims
  <2>1. Head(pendingClaims) \in ClaimStates /\ Tail(pendingClaims) \in Seq(ClaimStates)
    BY <1>4 DEF DeliverClaims
  <2> QED
    BY <1>4, <2>1 DEF DeliverClaims
<1>5. CASE Restart
  BY <1>5 DEF Restart, Return, NoNodes, NoPeers, EmptyConfig, NodeStates
<1> QED
  BY <1>1, <1>2, <1>3, <1>4, <1>5

(* So does Reconcile.                                                      *)
LEMMA ReconcileKeepsType ==
  ASSUME TypeOK, Listed,
         \/ ListPeers \/ (\E p \in Peers : ListClaims(p))
         \/ getSelfAddresses \/ ListFails \/ Reconfig
  PROVE  TypeOK'
<1> USE BoundsAreNumbers DEF TypeOK, api, caches, local
<1>1. NoNodes \in NodeStates /\ NoPeers \in [Peers -> PeerConfigs \cup {None}]
  BY DEF NoNodes, NoPeers, NodeStates
<1>2. CASE ListPeers
  BY <1>1, <1>2 DEF ListPeers, Return
<1>3. ASSUME NEW p \in Peers, ListClaims(p)
      PROVE  TypeOK'
  <2> DEFINE mine == {c \in Claims : Owner[c] = p /\ Ready(cacheClaims, c)}
  <2>1. peerConfigs' \in [Peers -> PeerConfigs \cup {None}]
    <3>1. CASE peers[p] = Invalid
      BY <1>3, <3>1 DEF ListClaims
    <3>2. CASE peers[p] # Invalid
      <4>1. /\ {cacheClaims[c] : c \in mine \cap AddressClaims} \subseteq CIDRs
            /\ {cacheClaims[c] : c \in mine} \subseteq CIDRs
        BY DEF Ready
      <4>2. peers[p] \in Specs
        BY <1>3, <3>2 DEF ListClaims, Listed, NodeStates, Nodes
      <4> QED
        BY <1>3, <3>2, <4>1, <4>2 DEF ListClaims, PeerConfigs
    <3> QED
      BY <3>1, <3>2
  <2> QED
    BY <1>3, <2>1 DEF ListClaims
<1>4. CASE getSelfAddresses
  BY <1>4 DEF getSelfAddresses, Ready
<1>5. CASE ListFails
  BY <1>1, <1>5 DEF ListFails, Return
<1>6. CASE Reconfig
  BY <1>1, <1>6 DEF Reconfig, Return
<1> QED
  BY <1>2, <1>3, <1>4, <1>5, <1>6

LEMMA InitTypes == Init => TypeOK /\ Listed
BY BoundsAreNumbers DEF Init, TypeOK, Listed, NodeStates, ClaimStates, NoNodes, NoPeers,
   EmptyConfig

LEMMA StepKeepsTypes == TypeOK /\ Listed /\ [Next]_vars => TypeOK' /\ Listed'
<1>1. TypeOK /\ Listed /\ [Next]_vars => TypeOK'
  BY EnvironmentKeepsType, ReconcileKeepsType DEF Next, vars, api, caches, local, TypeOK
<1>2. TypeOK /\ Listed /\ [Next]_vars => Listed'
  BY DEF Listed, Next, vars, api, caches, local, EditNode, EditClaim, DeliverNodes,
     DeliverClaims, Restart, ListPeers, ListClaims, getSelfAddresses, ListFails, Reconfig,
     Return
<1> QED
  BY <1>1, <1>2

(* Every variable has its type.  The controller looks claims up only for    *)
(* PeerNodes it has listed, so what it puts together is a configuration     *)
(* (peerssync_controller.go:81-170).                                        *)
THEOREM TypeCorrect == Spec => [](TypeOK /\ Listed)
BY InitTypes, StepKeepsTypes, PTL DEF Spec

-----------------------------------------------------------------------------
(* What is left alone stays in use *)

(* The last event under way, or else the cache, is what the API server has.  *)
Sync ==
  /\ IF pendingNodes = <<>> THEN cacheNodes = node
                            ELSE pendingNodes[Len(pendingNodes)] = node
  /\ IF pendingClaims = <<>> THEN cacheClaims = claim
                             ELSE pendingClaims[Len(pendingClaims)] = claim

(* The caches show claim c and the PeerNode of its node as they are, and so   *)
(* will every event under way.                                               *)
Known(c) ==
  /\ node[Owner[c]] \in Specs
  /\ cacheNodes[Owner[c]] = node[Owner[c]]
  /\ \A i \in 1..Len(pendingNodes) : pendingNodes[i][Owner[c]] = node[Owner[c]]
  /\ cacheClaims[c] = claim[c]
  /\ \A i \in 1..Len(pendingClaims) : pendingClaims[i][c] = claim[c]

(* A Reconcile under way has listed the PeerNode as it is, and has put the    *)
(* prefix into the configuration of the peer or has the peer still to do.     *)
Kept(c) ==
  pc # "idle" =>
    /\ peers[Owner[c]] = node[Owner[c]]
    /\ \/ Owner[c] \in todo
       \/ /\ peerConfigs[Owner[c]] # None
          /\ claim[c] \in peerConfigs[Owner[c]].AllowedIPs

AllListed == pc = "reconfig" => todo = {}

Inv ==
  /\ Sync /\ AllListed
  /\ SteadyStaysConfigured
  /\ \A c \in steady : Known(c) /\ Kept(c)

(* An edit of a PeerNode takes the claims of its node out of steady.          *)
LEMMA EditNodeKeepsInv ==
  ASSUME TypeOK, Inv, NEW n \in Nodes, NEW s \in Specs \cup {Invalid, None}, EditNode(n, s)
  PROVE  Inv'
<1> USE DEF caches, local
<1>1. /\ node' \in NodeStates /\ pendingNodes' = Append(pendingNodes, node')
      /\ pendingNodes \in Seq(NodeStates)
      /\ \A m \in Nodes \ {n} : node'[m] = node[m]
  BY DEF EditNode, TypeOK, NodeStates
<1>2. /\ Len(pendingNodes') = Len(pendingNodes) + 1 /\ Len(pendingNodes) \in Nat
      /\ pendingNodes'[Len(pendingNodes) + 1] = node'
      /\ \A i \in 1..Len(pendingNodes) : pendingNodes'[i] = pendingNodes[i]
  BY <1>1
<1>3. Sync'
  BY <1>1, <1>2 DEF EditNode, Sync, Inv
<1>4. ASSUME NEW c \in steady'
      PROVE  InUse(engine, c)' /\ Known(c)' /\ Kept(c)'
  <2>1. c \in steady /\ Owner[c] # n /\ c \in Claims
    BY <1>4 DEF EditNode, TypeOK
  <2>2. node'[Owner[c]] = node[Owner[c]]
    BY <1>1, <2>1, OwnersAreNodes DEF Nodes
  <2>3. InUse(engine, c)' /\ Kept(c)'
    BY <2>1, <2>2 DEF EditNode, Inv, SteadyStaysConfigured, InUse, Ready, Kept
  <2>4. Known(c)'
    BY <1>2, <2>1, <2>2 DEF EditNode, Inv, Known
  <2> QED
    BY <2>3, <2>4
<1>5. AllListed'
  BY DEF EditNode, Inv, AllListed
<1> QED
  BY <1>3, <1>4, <1>5 DEF Inv, SteadyStaysConfigured

(* An edit of a claim takes it out of steady.                                 *)
LEMMA EditClaimKeepsInv ==
  ASSUME TypeOK, Inv, NEW d \in Claims, NEW s \in CIDRs \cup {Pending, None}, EditClaim(d, s)
  PROVE  Inv'
<1> USE DEF caches, local
<1>1. /\ claim' \in ClaimStates /\ pendingClaims' = Append(pendingClaims, claim')
      /\ pendingClaims \in Seq(ClaimStates)
      /\ \A c \in Claims \ {d} : claim'[c] = claim[c]
  BY DEF EditClaim, TypeOK, ClaimStates
<1>2. /\ Len(pendingClaims') = Len(pendingClaims) + 1 /\ Len(pendingClaims) \in Nat
      /\ pendingClaims'[Len(pendingClaims) + 1] = claim'
      /\ \A i \in 1..Len(pendingClaims) : pendingClaims'[i] = pendingClaims[i]
  BY <1>1
<1>3. Sync'
  BY <1>1, <1>2 DEF EditClaim, Sync, Inv
<1>4. ASSUME NEW c \in steady'
      PROVE  InUse(engine, c)' /\ Known(c)' /\ Kept(c)'
  <2>1. c \in steady /\ claim'[c] = claim[c]
    BY <1>1, <1>4 DEF EditClaim, TypeOK
  <2>2. InUse(engine, c)' /\ Kept(c)'
    BY <2>1 DEF EditClaim, Inv, SteadyStaysConfigured, InUse, Ready, Kept
  <2>3. Known(c)'
    BY <1>2, <2>1 DEF EditClaim, Inv, Known
  <2> QED
    BY <2>2, <2>3
<1>5. AllListed'
  BY DEF EditClaim, Inv, AllListed
<1> QED
  BY <1>3, <1>4, <1>5 DEF Inv, SteadyStaysConfigured

(* What Head and Tail return.                                                 *)
LEMMA HeadAndTail ==
  ASSUME NEW S, NEW events \in Seq(S), events # <<>>
  PROVE  /\ Len(events) \in Nat \ {0}
         /\ Head(events) = events[1]
         /\ Len(Tail(events)) = Len(events) - 1
         /\ \A i \in 1..Len(Tail(events)) : Tail(events)[i] = events[i + 1]
         /\ Tail(events) = <<>> <=> Len(events) = 1
<1>1. Len(events) \in Nat \ {0}
  BY EmptySeq
<1>2. Head(events) = events[1]
  BY <1>1
<1>3. /\ Tail(events) \in Seq(S) /\ Len(Tail(events)) = Len(events) - 1
      /\ \A i \in 1..Len(Tail(events)) : Tail(events)[i] = events[i + 1]
  BY HeadTailProperties
<1>4. Tail(events) = <<>> <=> Len(Tail(events)) = 0
  BY <1>3, EmptySeq
<1> QED
  BY <1>1, <1>2, <1>3, <1>4

(* A cache takes the oldest event.                                            *)
LEMMA DeliveryKeepsInv == ASSUME TypeOK, Inv, DeliverNodes \/ DeliverClaims PROVE Inv'
<1> USE DEF local
<1>1. CASE DeliverNodes
  <2>1. /\ Len(pendingNodes) \in Nat \ {0}
        /\ cacheNodes' = pendingNodes[1]
        /\ Len(pendingNodes') = Len(pendingNodes) - 1
        /\ \A i \in 1..Len(pendingNodes') : pendingNodes'[i] = pendingNodes[i + 1]
        /\ pendingNodes' = <<>> <=> Len(pendingNodes) = 1
    <3>1. pendingNodes \in Seq(NodeStates) /\ pendingNodes # <<>>
      BY <1>1 DEF DeliverNodes, TypeOK
    <3>2. pendingNodes' = Tail(pendingNodes) /\ cacheNodes' = Head(pendingNodes)
      BY <1>1 DEF DeliverNodes
    <3> QED
      BY <3>1, <3>2, HeadAndTail, Zenon
  <2>2. Sync'
    BY <1>1, <2>1 DEF DeliverNodes, Sync, Inv
  <2>3. ASSUME NEW c \in steady
        PROVE  Known(c)'
    BY <1>1, <2>1 DEF DeliverNodes, Inv, Known
  <2> QED
    BY <1>1, <2>2, <2>3 DEF DeliverNodes, Inv, AllListed, SteadyStaysConfigured, InUse,
       Ready, Kept
<1>2. CASE DeliverClaims
  <2>1. /\ Len(pendingClaims) \in Nat \ {0}
        /\ cacheClaims' = pendingClaims[1]
        /\ Len(pendingClaims') = Len(pendingClaims) - 1
        /\ \A i \in 1..Len(pendingClaims') : pendingClaims'[i] = pendingClaims[i + 1]
        /\ pendingClaims' = <<>> <=> Len(pendingClaims) = 1
    <3>1. pendingClaims \in Seq(ClaimStates) /\ pendingClaims # <<>>
      BY <1>2 DEF DeliverClaims, TypeOK
    <3>2. pendingClaims' = Tail(pendingClaims) /\ cacheClaims' = Head(pendingClaims)
      BY <1>2 DEF DeliverClaims
    <3> QED
      BY <3>1, <3>2, HeadAndTail, Zenon
  <2>2. Sync'
    BY <1>2, <2>1 DEF DeliverClaims, Sync, Inv
  <2>3. ASSUME NEW c \in steady
        PROVE  Known(c)'
    BY <1>2, <2>1 DEF DeliverClaims, Inv, Known
  <2> QED
    BY <1>2, <2>2, <2>3 DEF DeliverClaims, Inv, AllListed, SteadyStaysConfigured, InUse,
       Ready, Kept
<1> QED
  BY <1>1, <1>2

(* A list of the claims of a peer finds those that stay, and takes nothing     *)
(* from the other peers.                                                      *)
LEMMA ListClaimsKeepsInv ==
  ASSUME TypeOK, Inv, NEW p \in Peers, ListClaims(p)
  PROVE  Inv'
<1> USE DEF api, caches
<1>1. ASSUME NEW c \in steady
      PROVE  Kept(c)'
  <2>1. /\ peers[Owner[c]] = node[Owner[c]] /\ node[Owner[c]] \in Specs
        /\ cacheClaims[c] = claim[c] /\ claim[c] \in CIDRs
        /\ Owner[c] \in Peers /\ c \in Claims
    BY <1>1 DEF ListClaims, Inv, Kept, Known, SteadyStaysConfigured, InUse, Ready, TypeOK
  <2>2. CASE Owner[c] = p
    <3> DEFINE mine == {d \in Claims : Owner[d] = p /\ Ready(cacheClaims, d)}
               allowed == {cacheClaims[d] : d \in mine}
               new == [spec |-> peers[p],
                       Addresses |-> {cacheClaims[d] : d \in mine \cap AddressClaims},
                       AllowedIPs |-> allowed]
    <3>1. claim[c] \in allowed
      BY <2>1, <2>2 DEF Ready
    <3>2. peers[p] # Invalid
      BY <2>1, <2>2, ValuesDiffer
    <3>3. peerConfigs'[p] = new
      BY <3>2 DEF ListClaims, TypeOK
    <3>4. new \in PeerConfigs
      BY <2>1, <2>2 DEF PeerConfigs, Ready
    <3>5. peerConfigs'[p] # None /\ claim[c] \in peerConfigs'[p].AllowedIPs
      BY <3>1, <3>3, <3>4, ValuesDiffer
    <3> QED
      BY <2>1, <2>2, <3>5 DEF ListClaims, Kept
  <2>3. CASE Owner[c] # p
    <3>1. peerConfigs'[Owner[c]] = peerConfigs[Owner[c]]
      BY <2>1, <2>3 DEF ListClaims, TypeOK
    <3> QED
      BY <1>1, <2>3, <3>1 DEF ListClaims, Inv, Kept
  <2> QED
    BY <2>2, <2>3
<1>2. Sync' /\ AllListed'
  BY DEF ListClaims, Inv, Sync, AllListed
<1>3. ASSUME NEW c \in steady
      PROVE  InUse(engine, c)' /\ Known(c)'
  BY <1>3 DEF ListClaims, Inv, SteadyStaysConfigured, InUse, Ready, Known
<1> QED
  BY <1>1, <1>2, <1>3 DEF ListClaims, Inv, SteadyStaysConfigured

(* The new configuration has what stays; what becomes steady with it is what    *)
(* the caches show as it is.                                                  *)
LEMMA ReconfigKeepsInv == ASSUME TypeOK, Inv, Reconfig PROVE Inv'
<1> USE DEF caches, local
<1>1. Sync' /\ AllListed'
  BY DEF Reconfig, Return, Inv, Sync, AllListed
<1>2. ASSUME NEW c \in steady
      PROVE  InUse(engine, c)' /\ Known(c)'
  <2>1. /\ Owner[c] \in Peers /\ claim[c] \in CIDRs /\ Known(c)
        /\ peerConfigs[Owner[c]] # None
        /\ claim[c] \in peerConfigs[Owner[c]].AllowedIPs
    BY DEF Reconfig, Inv, AllListed, Kept, SteadyStaysConfigured, InUse, Ready
  <2>2. engine'.Peers = peerConfigs
    BY DEF Reconfig
  <2> QED
    BY <2>1, <2>2 DEF Reconfig, InUse, Ready, Known
<1>3. ASSUME NEW c \in steady', c \notin steady
      PROVE  InUse(engine, c)' /\ Known(c)'
  <2>1. /\ pendingNodes = <<>> /\ pendingClaims = <<>>
        /\ InUse(engine', c) /\ node[Owner[c]] \in Specs
    BY <1>3 DEF Reconfig
  <2>2. cacheNodes = node /\ cacheClaims = claim
    BY <2>1 DEF Inv, Sync
  <2>3. Len(pendingNodes) = 0 /\ Len(pendingClaims) = 0
    BY <2>1
  <2> QED
    BY <2>1, <2>2, <2>3 DEF Reconfig, InUse, Ready, Known
<1>4. pc' = "idle"
  BY DEF Reconfig, Return
<1> QED
  BY <1>1, <1>2, <1>3, <1>4 DEF Inv, Kept, SteadyStaysConfigured

(* The other steps of the agent.                                             *)
LEMMA AgentKeepsInv ==
  ASSUME TypeOK, Inv, Restart \/ ListPeers \/ getSelfAddresses \/ ListFails
  PROVE  Inv'
<1> USE DEF api, caches, local
<1>1. CASE Restart
  BY <1>1 DEF Restart, Return, Inv, Sync, AllListed, SteadyStaysConfigured
<1>2. CASE ListPeers
  <2>1. ASSUME NEW c \in steady
        PROVE  Kept(c)'
    <3>1. cacheNodes[Owner[c]] = node[Owner[c]] /\ node[Owner[c]] \in Specs
      BY DEF Inv, Known
    <3>2. Owner[c] \in Peers /\ cacheNodes[Owner[c]] # None
      BY <3>1, ValuesDiffer DEF Inv, SteadyStaysConfigured, InUse
    <3> QED
      BY <1>2, <3>1, <3>2 DEF ListPeers, Return, Kept
  <2> QED
    BY <1>2, <2>1 DEF ListPeers, Return, Inv, Sync, AllListed, SteadyStaysConfigured,
       InUse, Ready, Known
<1>3. CASE getSelfAddresses
  BY <1>3 DEF getSelfAddresses, Inv, Sync, AllListed, SteadyStaysConfigured, InUse, Ready,
     Known, Kept
<1>4. CASE ListFails
  BY <1>4 DEF ListFails, Return, Inv, Sync, AllListed, SteadyStaysConfigured, InUse, Ready,
     Known, Kept
<1> QED
  BY <1>1, <1>2, <1>3, <1>4

LEMMA InitInv == Init => Inv
BY DEF Init, Inv, Sync, AllListed, SteadyStaysConfigured

LEMMA StepKeepsInv == TypeOK /\ Inv /\ [Next]_vars => Inv'
<1> SUFFICES ASSUME TypeOK, Inv, [Next]_vars PROVE Inv'
  OBVIOUS
<1>1. CASE UNCHANGED vars
  BY <1>1 DEF vars, api, caches, local, Inv, Sync, AllListed, SteadyStaysConfigured,
     InUse, Ready, Known, Kept
<1>2. CASE Next
  BY <1>2, EditNodeKeepsInv, EditClaimKeepsInv, DeliveryKeepsInv, ListClaimsKeepsInv,
     ReconfigKeepsInv, AgentKeepsInv DEF Next
<1> QED
  BY <1>1, <1>2

(* No Reconcile takes the prefix of a claim from a peer while neither the      *)
(* claim nor the PeerNode of its node changes, for any number of other        *)
(* objects that come and go meanwhile and any lag of the caches               *)
(* (peerssync_controller.go:60-170).                                          *)
THEOREM SteadyKept == Spec => []SteadyStaysConfigured
<1>1. Inv => SteadyStaysConfigured
  BY DEF Inv
<1> QED
  BY <1>1, InitInv, StepKeepsInv, TypeCorrect, PTL DEF Spec

-----------------------------------------------------------------------------
(* What the engine has when nothing is under way *)

(* What the caches say the engine should have for a peer, and for the node.    *)
Mine(n) == {c \in Claims : Owner[c] = n /\ Ready(cacheClaims, c)}
Shown(p) ==
  IF cacheNodes[p] \in {None, Invalid} THEN None
  ELSE [spec |-> cacheNodes[p],
        Addresses |-> {cacheClaims[c] : c \in Mine(p) \cap AddressClaims},
        AllowedIPs |-> {cacheClaims[c] : c \in Mine(p)}]
ShownSelf == {cacheClaims[c] : c \in Mine(Self) \cap AddressClaims}

(* The last Reconcile is over and nothing has changed since it began.          *)
InUseAsShown ==
  pc = "idle" /\ ~queued =>
    \/ cacheNodes[Self] = None
    \/ engine = [Peers |-> [p \in Peers |-> Shown(p)], Addresses |-> ShownSelf]

(* A Reconcile is under way and nothing has changed since it began: it puts    *)
(* together what the caches say.                                              *)
ListedAsShown ==
  pc # "idle" /\ ~queued =>
    /\ peers = cacheNodes
    /\ \A p \in Peers : peerConfigs[p] = IF p \in todo THEN None ELSE Shown(p)
    /\ pc = "reconfig" => addrs = ShownSelf

(* Reconcile starts with an empty configuration.                              *)
StartsEmpty == pc = "idle" => peerConfigs = NoPeers

(* No CIDR is that of two claims.                                             *)
Unique == \A c, d \in Claims : claim[c] \in CIDRs /\ claim[c] = claim[d] => c = d

UpToDate == InUseAsShown /\ ListedAsShown /\ StartsEmpty /\ Unique

LEMMA InitUpToDate == Init => UpToDate
<1> SUFFICES ASSUME Init PROVE Unique
  BY DEF Init, UpToDate, InUseAsShown, ListedAsShown, StartsEmpty
<1>1. ASSUME NEW c \in Claims, NEW d \in Claims, claim[c] \in CIDRs, claim[c] = claim[d]
      PROVE  c = d
  <2>1. PICK o \in Claims : \A e \in Claims : claim[e] = claim[c] <=> e = o
    BY <1>1 DEF Init
  <2> QED
    BY <1>1, <2>1
<1> QED
  BY <1>1 DEF Unique

(* Whatever changes in a cache puts the request in the queue; a list fails and *)
(* it goes back.  Only an agent that finds no object at its start has nothing  *)
(* queued.                                                                    *)
LEMMA EnvironmentKeepsUpToDate ==
  ASSUME TypeOK, UpToDate,
         \/ \E n \in Nodes, s \in Specs \cup {Invalid, None} : EditNode(n, s)
         \/ \E c \in Claims, s \in CIDRs \cup {Pending, None} : EditClaim(c, s)
         \/ DeliverNodes \/ DeliverClaims \/ Restart \/ ListFails
  PROVE  UpToDate'
<1> USE DEF caches, local, api
<1>1. ASSUME NEW n \in Nodes, NEW s \in Specs \cup {Invalid, None}, EditNode(n, s)
      PROVE  UpToDate'
  BY <1>1 DEF EditNode, UpToDate, InUseAsShown, ListedAsShown, StartsEmpty, Unique, Shown,
     ShownSelf, Mine, Ready
<1>2. ASSUME NEW c \in Claims, NEW s \in CIDRs \cup {Pending, None}, EditClaim(c, s)
      PROVE  UpToDate'
  <2>1. claim' = [claim EXCEPT ![c] = s] /\ claim \in ClaimStates
        /\ (s \in CIDRs => \A d \in Claims \ {c} : claim[d] # s)
    BY <1>2 DEF EditClaim, TypeOK
  <2>2. Unique'
    BY <2>1 DEF UpToDate, Unique, ClaimStates
  <2> QED
    BY <1>2, <2>2 DEF EditClaim, UpToDate, InUseAsShown, ListedAsShown, StartsEmpty, Shown,
       ShownSelf, Mine, Ready
<1>3. CASE DeliverNodes
  BY <1>3 DEF DeliverNodes, UpToDate, InUseAsShown, ListedAsShown, StartsEmpty, Unique
<1>4. CASE DeliverClaims
  BY <1>4 DEF DeliverClaims, UpToDate, InUseAsShown, ListedAsShown, StartsEmpty, Unique
<1>5. CASE Restart
  <2>1. Self \in Nodes /\ cacheNodes' = node
    BY <1>5 DEF Restart, Nodes
  <2>2. ~queued' => cacheNodes'[Self] = None
    BY <1>5, <2>1 DEF Restart
  <2> QED
    BY <1>5, <2>2 DEF Restart, Return, UpToDate, InUseAsShown, ListedAsShown, StartsEmpty,
       Unique
<1>6. CASE ListFails
  BY <1>6 DEF ListFails, Return, UpToDate, InUseAsShown, ListedAsShown, StartsEmpty, Unique
<1> QED
  BY <1>1, <1>2, <1>3, <1>4, <1>5, <1>6

(* A Reconcile during which nothing changes lists what the caches say.         *)
LEMMA ListsKeepUpToDate ==
  ASSUME TypeOK, Listed, UpToDate, AllListed,
         ListPeers \/ (\E p \in Peers : ListClaims(p)) \/ getSelfAddresses \/ Reconfig
  PROVE  UpToDate'
<1> USE DEF caches, local, api
<1>0. ASSUME UNCHANGED <<cacheNodes, cacheClaims>>
      PROVE  ShownSelf' = ShownSelf /\ \A p \in Peers : Shown(p)' = Shown(p)
  BY <1>0 DEF Shown, ShownSelf, Mine, Ready
<1>1. CASE ListPeers
  <2>1. CASE cacheNodes[Self] = None
    BY <1>1, <2>1 DEF ListPeers, Return, UpToDate, InUseAsShown, ListedAsShown, StartsEmpty,
       Unique
  <2>2. CASE cacheNodes[Self] # None
    <3>1. /\ peers' = cacheNodes /\ cacheNodes' = cacheNodes /\ peerConfigs' = NoPeers
          /\ todo' = {p \in Peers : cacheNodes[p] # None} /\ pc' = "claims"
          /\ cacheClaims' = cacheClaims
      BY <1>1, <2>2 DEF ListPeers, UpToDate, StartsEmpty
    <3>2. ASSUME NEW p \in Peers
          PROVE  peerConfigs'[p] = IF p \in todo' THEN None ELSE Shown(p)
      BY <3>1 DEF NoPeers, Shown
    <3>3. ListedAsShown'
      BY <1>0, <3>1, <3>2 DEF ListedAsShown
    <3> QED
      BY <1>1, <3>1, <3>3 DEF ListPeers, UpToDate, InUseAsShown, StartsEmpty, Unique
  <2> QED
    BY <2>1, <2>2
<1>2. ASSUME NEW p \in Peers, ListClaims(p)
      PROVE  UpToDate'
  <2>1. /\ pc = "claims" /\ pc' = "claims" /\ p \in todo /\ todo' = todo \ {p}
        /\ UNCHANGED <<cacheNodes, cacheClaims, claim, queued, peers, engine>>
    BY <1>2 DEF ListClaims
  <2>2. ASSUME ~queued', NEW q \in Peers
        PROVE  peerConfigs'[q] = IF q \in todo' THEN None ELSE Shown(q)
    <3>1. /\ peers = cacheNodes
          /\ peerConfigs[q] = IF q \in todo THEN None ELSE Shown(q)
      BY <2>1, <2>2 DEF UpToDate, ListedAsShown
    <3>2. CASE q # p
      <4>1. peerConfigs'[q] = peerConfigs[q]
        BY <1>2, <3>2 DEF ListClaims, TypeOK
      <4> QED
        BY <2>1, <3>1, <3>2, <4>1
    <3>3. CASE q = p /\ peers[p] = Invalid
      <4>1. peerConfigs' = peerConfigs
        BY <1>2, <3>3 DEF ListClaims
      <4> QED
        BY <2>1, <3>1, <3>3, <4>1 DEF Shown
    <3>4. CASE q = p /\ peers[p] # Invalid
      <4>1. peers[p] \notin {None, Invalid}
        BY <2>1, <3>4 DEF Listed
      <4>2. peerConfigs'[p] = [spec |-> peers[p],
                   Addresses |-> {cacheClaims[c] : c \in Mine(p) \cap AddressClaims},
                   AllowedIPs |-> {cacheClaims[c] : c \in Mine(p)}]
        BY <1>2, <3>4 DEF ListClaims, TypeOK, Mine
      <4> QED
        BY <2>1, <3>1, <3>4, <4>1, <4>2 DEF Shown
    <3> QED
      BY <3>2, <3>3, <3>4
  <2>3. ListedAsShown'
    BY <1>0, <2>1, <2>2 DEF UpToDate, ListedAsShown
  <2> QED
    BY <2>1, <2>3 DEF UpToDate, InUseAsShown, StartsEmpty, Unique
<1>3. CASE getSelfAddresses
  <2>1. addrs' = ShownSelf
    <3>1. AddressClaims \subseteq Claims
      BY PeersSyncAssumption DEF Assumption
    <3> QED
      BY <1>3, <3>1 DEF getSelfAddresses, ShownSelf, Mine
  <2> QED
    BY <1>0, <1>3, <2>1 DEF getSelfAddresses, UpToDate, InUseAsShown, ListedAsShown,
       StartsEmpty, Unique
<1>4. CASE Reconfig
  <2>1. pc = "reconfig" /\ engine' = [Peers |-> peerConfigs, Addresses |-> addrs]
        /\ pc' = "idle" /\ peerConfigs' = NoPeers
        /\ UNCHANGED <<cacheNodes, cacheClaims, claim, queued>>
    BY <1>4 DEF Reconfig, Return
  <2>2. ASSUME ~queued
        PROVE  engine' = [Peers |-> [p \in Peers |-> Shown(p)], Addresses |-> ShownSelf]
    <3>1. addrs = ShownSelf /\ \A p \in Peers : peerConfigs[p] = Shown(p)
      BY <2>1, <2>2 DEF UpToDate, ListedAsShown, AllListed
    <3>2. peerConfigs = [p \in Peers |-> Shown(p)]
      BY <3>1 DEF TypeOK
    <3> QED
      BY <2>1, <3>1, <3>2
  <2> QED
    BY <1>0, <2>1, <2>2 DEF UpToDate, InUseAsShown, ListedAsShown, StartsEmpty, Unique
<1> QED
  BY <1>1, <1>2, <1>3, <1>4

LEMMA StepKeepsUpToDate ==
  TypeOK /\ Listed /\ Inv /\ UpToDate /\ [Next]_vars => UpToDate'
<1> SUFFICES ASSUME TypeOK, Listed, AllListed, UpToDate, [Next]_vars PROVE UpToDate'
  BY DEF Inv
<1>1. CASE UNCHANGED vars
  BY <1>1 DEF vars, api, caches, local, UpToDate, InUseAsShown, ListedAsShown, StartsEmpty,
     Unique, Shown, ShownSelf, Mine, Ready
<1>2. CASE Next
  BY <1>2, EnvironmentKeepsUpToDate, ListsKeepUpToDate DEF Next
<1> QED
  BY <1>1, <1>2

(* Nothing is under way: the caches are up to date and no Reconcile is due.    *)
Quiet == pendingNodes = <<>> /\ pendingClaims = <<>> /\ ~queued /\ pc = "idle"

LEMMA QuietMeansExpected ==
  ASSUME Inv, UpToDate, Quiet
  PROVE  node[Self] = None \/ engine = Expected
<1>1. cacheNodes = node /\ cacheClaims = claim
  BY DEF Quiet, Inv, Sync
<1> QED
  BY <1>1 DEF Quiet, UpToDate, InUseAsShown, Expected, Shown, ShownSelf, Mine

(* Whenever nothing is under way, the engine has exactly what the objects say, *)
(* whatever mixture of old and new the lists of earlier Reconciles gave; only  *)
(* a node without a PeerNode of its own keeps what it had.  Nothing that        *)
(* changes during a Reconcile is lost, because its event queues the next one    *)
(* (peerssync_controller.go:60-170, 225-246).                                 *)
THEOREM ExpectedWhenQuiet == Spec => [](Quiet => node[Self] = None \/ engine = Expected)
<1>1. Inv /\ UpToDate => (Quiet => node[Self] = None \/ engine = Expected)
  BY QuietMeansExpected
<1> QED
  BY <1>1, InitInv, StepKeepsInv, InitUpToDate, StepKeepsUpToDate, TypeCorrect, PTL DEF Spec

=============================================================================
