-------------------------- MODULE TetraEngineProofs --------------------------
(* Proofs about TetraEngine, for any peers, addresses, configurations and number of *)
(* calls of Reconfig.                                                              *)
EXTENDS TetraEngine, TLAPS

-----------------------------------------------------------------------------
(* Types *)

\* Disco's peers are what a configuration says of them, without some addresses.
Endpoints == {Absent} \cup SUBSET Addrs

LEMMA ConfigType ==
    /\ \A c \in Configs : c \in [Peers -> Endpoints]
    /\ NoPeers \in Configs /\ NoPeers \in Statuses
BY EngineAssumption DEF NoPeers, Statuses, Endpoints

LEMMA StatusType == TypeOK => AllStatuses \in Statuses
BY DEF TypeOK, AllStatuses, Statuses

(* The calls from outside keep the types.                                          *)
LEMMA CallsKeepType ==
    ASSUME TypeOK,
           \/ \E c \in Configs : Reconfig(c)
           \/ ReconfigTriggers \/ Trigger
           \/ \E as \in SUBSET OwnAddrs : endpointsCallback(as)
    PROVE  TypeOK'
<1> USE EngineAssumption DEF TypeOK, configuring, reconfiguring, watching, Statuses
<1>1. CASE \E c \in Configs : Reconfig(c)
  BY <1>1 DEF Reconfig
<1>2. CASE ReconfigTriggers \/ Trigger
  BY <1>2 DEF ReconfigTriggers, Trigger
<1>3. CASE \E as \in SUBSET OwnAddrs : endpointsCallback(as)
  BY <1>3 DEF endpointsCallback
<1> QED
  BY <1>1, <1>2, <1>3

(* The reconfiguration keeps them.                                                 *)
LEMMA ReconfiguresKeepsType == ASSUME TypeOK, Reconfigures PROVE TypeOK'
<1> USE DEF TypeOK, configuring, watching
<1>1. CASE TakeTrigger \/ LoadConfig \/ LoadConfigFails
  BY <1>1 DEF TakeTrigger, LoadConfig, LoadConfigFails
<1>2. CASE reconfigDisco
  <2>1. peers' \in [Peers -> Endpoints]
    BY <1>2, ConfigType DEF reconfigDisco, Endpoints
  <2>2. active' \in [Peers -> Addrs \cup {None}]
    BY <1>2 DEF reconfigDisco
  <2> QED
    BY <1>2, <2>1, <2>2 DEF reconfigDisco, Endpoints
<1>3. CASE GetAllStatuses
  BY <1>3, StatusType DEF GetAllStatuses
<1>4. CASE Apply
  <2>1. wg' \in Statuses
    BY <1>4 DEF Apply, Statuses
  <2> QED
    BY <1>4, <2>1, ConfigType DEF Apply
<1>5. CASE ApplyFails
  BY <1>5, ConfigType DEF ApplyFails
<1> QED
  BY <1>1, <1>2, <1>3, <1>4, <1>5 DEF Reconfigures

(* The callbacks and the peers keep them.                                          *)
LEMMA CallbacksKeepType ==
    ASSUME TypeOK, NEW p \in Peers,
           StatusCallback(p) \/ \E a \in Addrs : Activate(p, a)
    PROVE  TypeOK'
<1> USE DEF TypeOK, configuring, reconfiguring
<1>1. CASE \E a \in Addrs : Activate(p, a)
  BY <1>1 DEF Activate, watching
<1>2. CASE hasDiscoStatusUpdate(p)
  BY <1>2, StatusType DEF hasDiscoStatusUpdate
<1>3. CASE Compare(p)
  BY <1>3, ConfigType DEF Compare
<1>4. CASE StoreHash(p)
  BY <1>4, ConfigType DEF StoreHash
<1>5. CASE CallbackTriggers(p)
  BY <1>5 DEF CallbackTriggers
<1> QED
  BY <1>1, <1>2, <1>3, <1>4, <1>5 DEF StatusCallback

(* Every variable has its type.                                                     *)
THEOREM TypeCorrect == Spec => []TypeOK
<1>1. Init => TypeOK
  BY ConfigType, EngineAssumption DEF Init, TypeOK, Endpoints, NoPeers
<1>2. TypeOK /\ [Next]_vars => TypeOK'
  <2>1. CASE UNCHANGED vars
    BY <2>1 DEF vars, configuring, reconfiguring, watching, TypeOK, Statuses
  <2> QED
    BY <2>1, CallsKeepType, ReconfiguresKeepsType, CallbacksKeepType DEF Next
<1> QED
  BY <1>1, <1>2, PTL DEF Spec

-----------------------------------------------------------------------------
(* No Reconfig is lost *)

\* Disco has the peers of a configuration, at no other addresses than it names.
Has(c) ==
    \A p \in Peers :
        IF c[p] = Absent THEN peers[p] = Absent
        ELSE peers[p] # Absent /\ peers[p] \subseteq c[p]

(* Unless somebody is about to start another reconfiguration, the one under way has    *)
(* the current configuration: it will load it, has loaded it, or has given it to disco. *)
Inv ==
    ~trigger /\ caller = "idle" /\ keyParses =>
        /\ run = "disco" => cfg = currentConfig
        /\ run \in {"status", "apply", "wait"} => Has(currentConfig)

(* What reconfigDisco gives to disco is what it has loaded, the node's own addresses    *)
(* left out: a peer may lose all its endpoints and is a peer still.                    *)
LEMMA DiscoHasConfig == ASSUME TypeOK, reconfigDisco PROVE Has(cfg)'
<1>1. cfg \in [Peers -> Endpoints] /\ cfg' = cfg
  BY ConfigType DEF TypeOK, reconfigDisco
<1>2. SUFFICES ASSUME NEW p \in Peers
               PROVE  IF cfg[p] = Absent THEN peers'[p] = Absent
                      ELSE peers'[p] # Absent /\ peers'[p] \subseteq cfg[p]
  BY <1>1 DEF Has
<1>3. peers'[p] = IF cfg[p] = Absent THEN Absent ELSE cfg[p] \ globalEndpoints
  BY DEF reconfigDisco
<1>4. cfg[p] # Absent => cfg[p] \ globalEndpoints \in SUBSET Addrs
  BY <1>1 DEF Endpoints
<1> QED
  BY <1>3, <1>4, EngineAssumption

LEMMA InvKept == TypeOK /\ Inv /\ [Next]_vars => Inv'
<1> SUFFICES ASSUME TypeOK, Inv, [Next]_vars
             PROVE  Inv'
  OBVIOUS
<1> USE DEF Inv, configuring, reconfiguring, watching
\* A caller, a callback and Trigger have asked, or are about to.
<1>1. CASE \E c \in Configs : Reconfig(c)
  BY <1>1 DEF Reconfig
<1>2. CASE ReconfigTriggers \/ Trigger \/ \E p \in Peers : CallbackTriggers(p)
  BY <1>2 DEF ReconfigTriggers, Trigger, CallbackTriggers
\* The reconfiguration.
<1>3. CASE TakeTrigger
  BY <1>3 DEF TakeTrigger
<1>4. CASE LoadConfig \/ LoadConfigFails
  BY <1>4 DEF LoadConfig, LoadConfigFails
<1>5. CASE reconfigDisco
  <2>1. run = "disco" /\ run' = "status" /\ UNCHANGED <<cfg, currentConfig, trigger, caller, keyParses>>
    BY <1>5 DEF reconfigDisco
  <2>2. Has(cfg)'
    BY <1>5, DiscoHasConfig
  <2>3. cfg = currentConfig => Has(currentConfig)'
    BY <2>1, <2>2 DEF Has
  <2> QED
    BY <2>1, <2>3
<1>6. CASE GetAllStatuses \/ Apply \/ ApplyFails
  BY <1>6 DEF GetAllStatuses, Apply, ApplyFails, Has
\* What moves neither the configuration nor disco's peers.
<1>7. CASE UNCHANGED <<configuring, trigger, reconfiguring>>
  BY <1>7 DEF Has
<1>8. CASE \E p \in Peers : \/ hasDiscoStatusUpdate(p) \/ Compare(p) \/ StoreHash(p)
                            \/ \E a \in Addrs : Activate(p, a)
  BY <1>7, <1>8 DEF hasDiscoStatusUpdate, Compare, StoreHash, Activate
<1>9. CASE \E as \in SUBSET OwnAddrs : endpointsCallback(as)
  BY <1>7, <1>9 DEF endpointsCallback
<1> QED
  BY <1>1, <1>2, <1>3, <1>4, <1>5, <1>6, <1>7, <1>8, <1>9
  DEF Next, Reconfigures, StatusCallback, vars

(* No Reconfig is lost in the channel of one token, however Reconfig, Trigger, the       *)
(* callbacks and the loop interleave, and although WireGuard's reconfigurations fail, if *)
(* the private key parses (tetraengine.go, triggerReconfig, runReconfig and reconfig).   *)
THEOREM ReconfigNotLost == Spec => []NoLostReconfig
<1>1. Init => Inv
  BY DEF Init, Inv
<1>2. Inv => NoLostReconfig
  BY DEF Inv, NoLostReconfig, Quiet, Has
<1> QED
  BY <1>1, <1>2, InvKept, TypeCorrect, PTL DEF Spec
=============================================================================
