---------------------------- MODULE PeerNodeSync ----------------------------
(***************************************************************************)
(* How a node publishes itself: the PeerNodeSync controller of the agent   *)
(* (tetrad/controllers/peernodesync_controller.go).                        *)
(*                                                                         *)
(* The engine's callback stores the node's configuration in an atomic cell *)
(* and drops an event into a channel with room for one; the event becomes  *)
(* a request in the work queue; Reconcile loads the cell and lets          *)
(* CreateOrUpdate bring the PeerNode object up to date.  CreateOrUpdate    *)
(* reads through the informer's cache, which lags behind the API server,   *)
(* and writes with the version it read.  Nothing watches the PeerNode.     *)
(*                                                                         *)
(* A configuration is a model value: endpoints, keys and routes together.  *)
(***************************************************************************)
EXTENDS Naturals, Sequences

CONSTANTS
  Configs,     \* peer configurations the engine may report
  Callers,     \* goroutines that run the callback (STUN for IPv4 and IPv6)
  None,        \* a nil pointer, or an object that does not exist
  MaxChanges,  \* bound: changes of the node's configuration
  MaxEdits,    \* bound: deletions and edits of the PeerNode by somebody else
  MaxFaults,   \* bound: failed requests and restarts of the agent
  MaxLag       \* bound: watch events the cache is behind

ASSUME SyncAssumption ==
  /\ None \notin Configs
  /\ {MaxChanges, MaxEdits, MaxFaults, MaxLag} \subseteq Nat

VARIABLES
  actual,      \* what the engine has to report
  caller,      \* caller[t]: "idle", or "send" between the store and the event
  peerConfig,  \* r.peerConfig
  ch,          \* is there an event in the channel?
  queued,      \* is the request in the work queue?
  pc,          \* Reconcile: "idle", "get", "create", "update"
  loaded,      \* the configuration this Reconcile loaded
  read,        \* the PeerNode as read from the cache
  server,      \* the PeerNode at the API server
  version,     \* version of the last write at the API server
  pending,     \* watch events under way to the cache
  cache,       \* the PeerNode in the cache
  changes, edits, faults

callback == <<actual, caller, peerConfig, changes>>
reconcile == <<pc, loaded, read>>
api == <<server, version, pending>>
vars == <<callback, ch, queued, reconcile, api, cache, edits, faults>>

PeerNodes == [config : Configs, version : Nat]

Init ==
  /\ actual \in Configs
  /\ caller = [t \in Callers |-> "idle"]
  /\ peerConfig = None
  /\ ch = FALSE /\ queued = FALSE
  /\ pc = "idle" /\ loaded = None /\ read = None
  /\ server = None /\ version = 0 /\ pending = <<>> /\ cache = None
  /\ changes = 0 /\ edits = 0 /\ faults = 0

-----------------------------------------------------------------------------
(* The engine's callback *)

\* The node's addresses change.
Change(c) ==
  /\ changes < MaxChanges
  /\ actual' = c
  /\ changes' = changes + 1
  /\ UNCHANGED <<caller, peerConfig, ch, queued, reconcile, api, cache, edits, faults>>

\* A callback that drops what it was told before.
CallbackIfNew(t) ==
  /\ caller[t] = "idle"
  /\ peerConfig' = actual
  /\ caller' = IF actual = peerConfig THEN caller ELSE [caller EXCEPT ![t] = "send"]
  /\ UNCHANGED <<actual, changes, ch, queued, reconcile, api, cache, edits, faults>>

\* The callback is called on every answer of a STUN server, changed or not.
Callback(t) ==
  /\ caller[t] = "idle"
  /\ peerConfig' = actual
  /\ caller' = [caller EXCEPT ![t] = "send"]
  /\ UNCHANGED <<actual, changes, ch, queued, reconcile, api, cache, edits, faults>>

\* The event; a full channel already holds one.
CallbackSends(t) ==
  /\ caller[t] = "send"
  /\ ch' = TRUE
  /\ caller' = [caller EXCEPT ![t] = "idle"]
  /\ UNCHANGED <<actual, peerConfig, changes, queued, reconcile, api, cache, edits, faults>>

\* A source that drops the event while a Reconcile runs.
EnqueueIfIdle ==
  /\ ch
  /\ ch' = FALSE
  /\ queued' = (queued \/ pc = "idle")
  /\ UNCHANGED <<callback, reconcile, api, cache, edits, faults>>

\* source.Channel turns the event into the one request of this controller.
Enqueue ==
  /\ ch
  /\ ch' = FALSE
  /\ queued' = TRUE
  /\ UNCHANGED <<callback, reconcile, api, cache, edits, faults>>

-----------------------------------------------------------------------------
(* Reconcile *)

LoadPeerConfig ==
  /\ pc = "idle" /\ queued
  /\ queued' = FALSE
  /\ loaded' = peerConfig
  /\ pc' = IF peerConfig = None THEN "idle" ELSE "get"
  /\ UNCHANGED <<callback, ch, read, api, cache, edits, faults>>

\* CreateOrUpdate: the read, and what it decides.  An object that already
\* looks as it should is left alone.
Get ==
  /\ pc = "get"
  /\ read' = cache
  /\ pc' = CASE cache = None -> "create"
             [] cache # None /\ cache.config = loaded -> "idle"
             [] OTHER -> "update"
  /\ UNCHANGED <<callback, ch, queued, loaded, api, cache, edits, faults>>

\* An object written to the API server, and the event of it.
Write(o) ==
  /\ server' = o
  /\ version' = version + 1
  /\ pending' = Append(pending, o)

\* Does the API server accept the write of this Reconcile?
Accepted == IF pc = "create" THEN server = None
                             ELSE server # None /\ server.version = read.version

Upsert ==
  /\ pc \in {"create", "update"} /\ Accepted
  /\ Len(pending) < MaxLag
  /\ Write([config |-> loaded, version |-> version + 1])
  /\ pc' = "idle"
  /\ UNCHANGED <<callback, ch, queued, loaded, read, cache, edits, faults>>

\* AlreadyExists, Conflict or NotFound: the error puts the request back.
UpsertRefused ==
  /\ pc \in {"create", "update"} /\ ~Accepted
  /\ pc' = "idle" /\ queued' = TRUE
  /\ UNCHANGED <<callback, ch, loaded, read, api, cache, edits, faults>>

\* The request is lost, or its answer is: then it was written.
UpsertFails ==
  /\ pc \in {"create", "update"} /\ Accepted
  /\ Len(pending) < MaxLag /\ faults < MaxFaults
  /\ UNCHANGED api \/ Write([config |-> loaded, version |-> version + 1])
  /\ pc' = "idle" /\ queued' = TRUE
  /\ faults' = faults + 1
  /\ UNCHANGED <<callback, ch, loaded, read, cache, edits>>

-----------------------------------------------------------------------------
(* Environment *)

Deliver ==
  /\ pending # <<>>
  /\ cache' = Head(pending)
  /\ pending' = Tail(pending)
  /\ UNCHANGED <<callback, ch, queued, reconcile, server, version, edits, faults>>

\* Somebody deletes or overwrites the PeerNode.
Edit(c) ==
  /\ edits < MaxEdits /\ server # None
  /\ Len(pending) < MaxLag
  /\ IF c = None THEN Write(None)
                 ELSE Write([config |-> c, version |-> version + 1])
  /\ edits' = edits + 1
  /\ UNCHANGED <<callback, ch, queued, reconcile, cache, faults>>

\* The agent starts again; its cache starts with a fresh list.
Restart ==
  /\ faults < MaxFaults
  /\ caller' = [t \in Callers |-> "idle"]
  /\ peerConfig' = None
  /\ ch' = FALSE /\ queued' = FALSE
  /\ pc' = "idle" /\ loaded' = None /\ read' = None
  /\ pending' = <<>> /\ cache' = server
  /\ faults' = faults + 1
  /\ UNCHANGED <<actual, changes, server, version, edits>>

Next ==
  \/ \E c \in Configs : Change(c)
  \/ \E t \in Callers : Callback(t) \/ CallbackSends(t)
  \/ Enqueue \/ LoadPeerConfig \/ Get \/ Upsert \/ UpsertRefused \/ UpsertFails
  \/ Deliver \/ Restart
  \/ \E c \in Configs \cup {None} : Edit(c)

\* The agent triggers STUN every 30 seconds, so the callback comes again and
\* again; the channel, the queue, the worker and the watch do not stand still.
Fairness ==
  /\ \A t \in Callers : WF_vars(Callback(t)) /\ WF_vars(CallbackSends(t))
  /\ WF_vars(Enqueue) /\ WF_vars(LoadPeerConfig) /\ WF_vars(Get)
  /\ WF_vars(Upsert) /\ WF_vars(UpsertRefused) /\ WF_vars(Deliver)

Spec == Init /\ [][Next]_vars /\ Fairness

-----------------------------------------------------------------------------
(* Properties *)

\* Every variable has its type.
TypeOK ==
  /\ actual \in Configs /\ peerConfig \in Configs \cup {None}
  /\ caller \in [Callers -> {"idle", "send"}]
  /\ ch \in BOOLEAN /\ queued \in BOOLEAN
  /\ pc \in {"idle", "get", "create", "update"}
  /\ loaded \in Configs \cup {None}
  /\ read \in PeerNodes \cup {None}
  /\ server \in PeerNodes \cup {None} /\ version \in Nat
  /\ pending \in Seq(PeerNodes \cup {None}) /\ Len(pending) <= MaxLag
  /\ cache \in PeerNodes \cup {None}
  /\ changes \in 0..MaxChanges /\ edits \in 0..MaxEdits /\ faults \in 0..MaxFaults

\* A configuration under way is never forgotten before the object was looked
\* at: whenever the cell holds what a Reconcile has not loaded yet, there is
\* a callback, an event or a request that makes one load it.
NoLostEvent ==
  peerConfig # None /\ peerConfig # loaded =>
    ch \/ queued \/ \E t \in Callers : caller[t] = "send"

\* The PeerNode ends up with the last configuration of the node, whatever
\* the cache showed in between, whoever edited or deleted the object, and
\* although nothing watches it: the callback that comes with every answer of
\* a STUN server makes up for it.
EventuallyPublished == <>[](server # None /\ server.config = actual)
=============================================================================
