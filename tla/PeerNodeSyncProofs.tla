------------------------- MODULE PeerNodeSyncProofs -------------------------
(* Proofs about PeerNodeSync, for any configurations and callers, any number of      *)
(* changes, edits and faults, and a cache however far behind.                        *)
EXTENDS PeerNodeSync, SequenceTheorems, TLAPS

Objects == PeerNodes \cup {None}

\* A Reconcile goes on only with a configuration: no PeerNode is ever written without.
Loaded == pc # "idle" => loaded # None

-----------------------------------------------------------------------------
(* Types *)

LEMMA HeadAndTail ==
    ASSUME NEW s \in Seq(Objects), s # << >>
    PROVE  /\ Head(s) \in Objects /\ Tail(s) \in Seq(Objects)
           /\ Len(Tail(s)) = Len(s) - 1 /\ Len(s) \in Nat
BY HeadTailProperties, LenProperties

(* A write appends one event.                                                        *)
LEMMA WriteKeepsType ==
    ASSUME TypeOK, NEW o \in Objects, Len(pending) < MaxLag, Write(o)
    PROVE  /\ server' \in Objects /\ version' \in Nat
           /\ pending' \in Seq(Objects) /\ Len(pending') <= MaxLag
<1>1. pending \in Seq(Objects) /\ version \in Nat
  BY DEF TypeOK, Objects
<1>2. Len(Append(pending, o)) = Len(pending) + 1 /\ Len(pending) \in Nat
  BY <1>1
<1> QED
  BY <1>1, <1>2, SyncAssumption DEF Write

(* The callback, the channel, the queue and the read keep the types.                 *)
LEMMA CallbackKeepsType ==
    ASSUME TypeOK, Loaded,
           \/ \E c \in Configs : Change(c)
           \/ \E t \in Callers : Callback(t) \/ CallbackSends(t)
           \/ Enqueue \/ LoadPeerConfig \/ Get
    PROVE  TypeOK' /\ Loaded'
<1> USE SyncAssumption DEF TypeOK, Loaded, callback, reconcile, api
<1>1. CASE \E c \in Configs : Change(c)
  BY <1>1 DEF Change
<1>2. CASE \E t \in Callers : Callback(t) \/ CallbackSends(t)
  BY <1>2 DEF Callback, CallbackSends
<1>3. CASE Enqueue \/ LoadPeerConfig
  BY <1>3 DEF Enqueue, LoadPeerConfig
<1>4. CASE Get
  BY <1>4 DEF Get
<1> QED
  BY <1>1, <1>2, <1>3, <1>4

(* So do the writes, the watch, and a restart.                                       *)
LEMMA WritesKeepType ==
    ASSUME TypeOK, Loaded,
           \/ Upsert \/ UpsertRefused \/ UpsertFails \/ Deliver \/ Restart
           \/ \E c \in Configs \cup {None} : Edit(c)
    PROVE  TypeOK' /\ Loaded'
<1> DEFINE Written == /\ server' \in Objects /\ version' \in Nat
                      /\ pending' \in Seq(Objects) /\ Len(pending') <= MaxLag
<1>1. \A c \in Configs : [config |-> c, version |-> version + 1] \in Objects
  BY DEF Objects, PeerNodes, TypeOK
<1>2. None \in Objects
  BY DEF Objects
<1>3. pc \in {"create", "update"} => loaded \in Configs
  BY DEF Loaded, TypeOK
<1>4. CASE Upsert
  <2>1. Written
    BY <1>1, <1>3, <1>4, WriteKeepsType DEF Upsert
  <2> QED
    BY <1>4, <2>1 DEF Upsert, TypeOK, Loaded, Objects, callback
<1>5. CASE UpsertRefused
  BY <1>5 DEF UpsertRefused, TypeOK, Loaded, callback, api
<1>6. CASE UpsertFails
  <2>1. Written
    BY <1>1, <1>3, <1>6, WriteKeepsType DEF UpsertFails, api, TypeOK, Objects
  <2>2. faults' \in 0..MaxFaults
    BY <1>6, SyncAssumption DEF UpsertFails, TypeOK
  <2> QED
    BY <1>6, <2>1, <2>2 DEF UpsertFails, TypeOK, Loaded, Objects, callback
<1>7. CASE Deliver
  <2>1. cache' \in Objects /\ pending' \in Seq(Objects) /\ Len(pending') <= MaxLag
    <3>1. pending \in Seq(Objects) /\ Len(pending) <= MaxLag
      BY DEF TypeOK, Objects
    <3> QED
      BY <1>7, <3>1, HeadAndTail, SyncAssumption DEF Deliver
  <2> QED
    BY <1>7, <2>1 DEF Deliver, TypeOK, Loaded, Objects, callback, reconcile
<1>8. CASE \E c \in Configs \cup {None} : Edit(c)
  <2>1. Written
    BY <1>1, <1>2, <1>8, WriteKeepsType DEF Edit
  <2>2. edits' \in 0..MaxEdits
    BY <1>8, SyncAssumption DEF Edit, TypeOK
  <2> QED
    BY <1>8, <2>1, <2>2 DEF Edit, TypeOK, Loaded, Objects, callback, reconcile
<1>9. CASE Restart
  <2>1. pending' \in Seq(Objects) /\ Len(pending') <= MaxLag
    BY <1>9, SyncAssumption DEF Restart
  <2>2. faults' \in 0..MaxFaults /\ caller' \in [Callers -> {"idle", "send"}]
    BY <1>9, SyncAssumption DEF Restart, TypeOK
  <2> QED
    BY <1>9, <2>1, <2>2 DEF Restart, TypeOK, Loaded, Objects
<1> QED
  BY <1>4, <1>5, <1>6, <1>7, <1>8, <1>9

(* Every variable has its type, and no PeerNode is written before the engine has reported *)
(* a configuration.                                                                    *)
THEOREM TypeCorrect == Spec => [](TypeOK /\ Loaded)
<1>1. Init => TypeOK /\ Loaded
  <2> SUFFICES ASSUME Init PROVE TypeOK /\ Loaded
    OBVIOUS
  <2>1. pending \in Seq(PeerNodes \cup {None}) /\ Len(pending) <= MaxLag
    BY SyncAssumption DEF Init
  <2>2. ch \in BOOLEAN /\ queued \in BOOLEAN
    BY Zenon DEF Init
  <2> QED
    BY <2>1, <2>2, SyncAssumption DEF Init, TypeOK, Loaded
<1>2. TypeOK /\ Loaded /\ [Next]_vars => (TypeOK /\ Loaded)'
  <2>1. CASE UNCHANGED vars
    BY <2>1 DEF vars, callback, reconcile, api, TypeOK, Loaded
  <2> QED
    BY <2>1, CallbackKeepsType, WritesKeepType DEF Next
<1> QED
  BY <1>1, <1>2, PTL DEF Spec

-----------------------------------------------------------------------------
(* No event is lost *)

(* NoLostEvent is inductive: the callback stores before it sends, the channel drops an    *)
(* event only when it holds one, the queue has one request for all events, and a          *)
(* Reconcile loads the cell after it has taken the request.                              *)
LEMMA EventKept == TypeOK /\ NoLostEvent /\ [Next]_vars => NoLostEvent'
<1> SUFFICES ASSUME TypeOK, NoLostEvent, [Next]_vars
             PROVE  NoLostEvent'
  OBVIOUS
<1> USE DEF NoLostEvent, callback, reconcile, api
<1>1. CASE \E t \in Callers : Callback(t) \/ CallbackSends(t)
  BY <1>1 DEF Callback, CallbackSends, TypeOK
<1>2. CASE Enqueue \/ LoadPeerConfig
  BY <1>2 DEF Enqueue, LoadPeerConfig
<1>3. CASE Upsert \/ UpsertRefused \/ UpsertFails
  BY <1>3 DEF Upsert, UpsertRefused, UpsertFails
<1>4. CASE \/ Get \/ Deliver \/ UNCHANGED vars
           \/ (\E c \in Configs : Change(c)) \/ (\E c \in Configs \cup {None} : Edit(c))
  BY <1>4 DEF Get, Deliver, Change, Edit, vars
<1>5. CASE Restart
  BY <1>5 DEF Restart
<1> QED
  BY <1>1, <1>2, <1>3, <1>4, <1>5 DEF Next

(* A configuration in the cell that no Reconcile has loaded has a callback, an event or a   *)
(* request on its way that makes one load it (peernodesync_controller.go).                *)
THEOREM EventNotLost == Spec => []NoLostEvent
<1>1. Init => NoLostEvent
  BY DEF Init, NoLostEvent
<1> QED
  BY <1>1, EventKept, TypeCorrect, PTL DEF Spec
=============================================================================
