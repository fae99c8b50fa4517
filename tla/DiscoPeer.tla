----------------------------- MODULE DiscoPeer -----------------------------
(* The endpoints of a peer (disco/discoPeer.go): SetEndpoints, called by the  *)
(* engine's reconfiguration goroutine, against Close, called by other          *)
(* goroutines while it runs.  They share two concurrent maps and a closed      *)
(* channel, without a lock: every map operation is a step of its own, and a     *)
(* Range visits the keys its first step found that are still there.             *)
EXTENDS Naturals

CONSTANTS
    Addrs,      \* addresses of endpoints
    NoAddr,
    Closers,    \* goroutines that call Close
    Setter,     \* the goroutine that calls SetEndpoints
    MaxId       \* bound: endpoint ids (uint32 in the program)

Threads == Closers \cup {Setter}
EndpointIDs == 1..MaxId

Assumption ==
    /\ NoAddr \notin Addrs
    /\ Setter \notin Closers
    /\ MaxId \in Nat \ {0}

VARIABLES
    closed,                 \* the closed channel
    endpointIDCounter,
    endpointToEndpointID,   \* address -> id, 0 where there is none
    endpoints,              \* id -> address of the endpoint, or NoAddr
    open,                   \* endpoint objects whose goroutines run
    panicked,               \* an endpoint was closed a second time
    pc, todo, taking,       \* per goroutine; todo: what a Range has left
    target, addrs, id, pe   \* locals of SetEndpoints

vars == <<closed, endpointIDCounter, endpointToEndpointID, endpoints, open,
          panicked, pc, todo, taking, target, addrs, id, pe>>
locals == <<target, addrs, id, pe>>
maps == <<endpointIDCounter, endpointToEndpointID, endpoints, open, panicked>>

\* An endpoint object; a fresh one is made per entry, so id and address name it.
Endpoint(i, a) == [id |-> i, addr |-> a]

Stored == {i \in EndpointIDs : endpoints[i] # NoAddr}

Init ==
    /\ closed = FALSE
    /\ endpointIDCounter = 0
    /\ endpointToEndpointID = [a \in Addrs |-> 0]
    /\ endpoints = [i \in EndpointIDs |-> NoAddr]
    /\ open = {}
    /\ panicked = FALSE
    /\ pc = [t \in Threads |-> "idle"]
    /\ todo = [t \in Threads |-> {}]
    /\ taking = [t \in Threads |-> 1]
    /\ target = {}
    /\ addrs = {}
    /\ id = 1
    /\ pe = Endpoint(1, NoAddr)

Goto(t, l) == pc' = [pc EXCEPT ![t] = l]

\* A Range begins: it will visit the keys stored now.
StartRange(t, l) ==
    /\ Goto(t, l)
    /\ todo' = [todo EXCEPT ![t] = Stored]

-----------------------------------------------------------------------------
(* SetEndpoints *)

\* The call: on a closed peer it only closes what is left, else it draws an id.
SetEndpoints(eps) ==
    /\ pc[Setter] = "idle"
    /\ IF closed
       THEN /\ StartRange(Setter, "closeAll")
            /\ UNCHANGED <<endpointIDCounter, locals>>
       ELSE /\ endpointIDCounter < MaxId
            /\ endpointIDCounter' = endpointIDCounter + 1
            /\ id' = endpointIDCounter'
            /\ target' = eps
            /\ addrs' = eps
            /\ Goto(Setter, "loop")
            /\ UNCHANGED <<todo, pe>>
    /\ UNCHANGED <<closed, endpointToEndpointID, endpoints, open, panicked, taking>>

\* LoadOrStore finds the address: nothing to do for it.
Loaded(a) ==
    /\ pc[Setter] = "loop"
    /\ a \in addrs
    /\ endpointToEndpointID[a] # 0
    /\ addrs' = addrs \ {a}
    /\ UNCHANGED <<closed, maps, pc, todo, taking, target, id, pe>>

\* LoadOrStore stores the id; the next one is drawn and the endpoint made, whose
\* goroutines run from here on.
Create(a) ==
    /\ pc[Setter] = "loop"
    /\ a \in addrs
    /\ endpointToEndpointID[a] = 0
    /\ endpointIDCounter < MaxId
    /\ endpointToEndpointID' = [endpointToEndpointID EXCEPT ![a] = id]
    /\ endpointIDCounter' = endpointIDCounter + 1
    /\ id' = endpointIDCounter'
    /\ open' = open \cup {Endpoint(id, a)}
    /\ pe' = Endpoint(id, a)
    /\ addrs' = addrs \ {a}
    /\ Goto(Setter, "store")
    /\ UNCHANGED <<closed, endpoints, panicked, todo, taking, target>>

\* endpoints.Store: only now can others see the endpoint.
Store ==
    /\ pc[Setter] = "store"
    /\ endpoints' = [endpoints EXCEPT ![pe.id] = pe.addr]
    /\ Goto(Setter, "loop")
    /\ UNCHANGED <<closed, endpointIDCounter, endpointToEndpointID, open, panicked,
                   todo, taking, locals>>

\* Mutant: closed is not looked at again after the endpoints are stored.
StoredUnchecked ==
    /\ pc[Setter] = "loop"
    /\ addrs = {}
    /\ StartRange(Setter, "remove")
    /\ UNCHANGED <<closed, maps, taking, locals>>

\* All are stored.  A peer closed in the meantime gets them closed again; else
\* the endpoints that are not wanted any more are removed.
StoredAll ==
    /\ pc[Setter] = "loop"
    /\ addrs = {}
    /\ StartRange(Setter, IF closed THEN "closeAll" ELSE "remove")
    /\ UNCHANGED <<closed, maps, taking, locals>>

-----------------------------------------------------------------------------
(* The two Range loops: closeAllEndpoints, and the removal of SetEndpoints *)

Ranging(t) == pc[t] \in {"remove", "closeAll"}

\* A key that is gone, or an endpoint that stays.
Skip(t, i) ==
    /\ Ranging(t)
    /\ i \in todo[t]
    /\ endpoints[i] = NoAddr \/ (pc[t] = "remove" /\ endpoints[i] \in target)
    /\ todo' = [todo EXCEPT ![t] = @ \ {i}]
    /\ UNCHANGED <<closed, maps, pc, taking, locals>>

\* The address is deleted, whatever id it has by now.
DeleteAddr(t, i) ==
    /\ Ranging(t)
    /\ i \in todo[t]
    /\ endpoints[i] # NoAddr
    /\ pc[t] = "remove" => endpoints[i] \notin target
    /\ endpointToEndpointID' = [endpointToEndpointID EXCEPT ![endpoints[i]] = 0]
    /\ todo' = [todo EXCEPT ![t] = @ \ {i}]
    /\ taking' = [taking EXCEPT ![t] = i]
    /\ Goto(t, IF pc[t] = "remove" THEN "removeTake" ELSE "closeAllTake")
    /\ UNCHANGED <<closed, endpointIDCounter, endpoints, open, panicked, locals>>

Resume(t) == Goto(t, IF pc[t] = "removeTake" THEN "remove" ELSE "closeAll")

\* LoadAndDelete, and Close of the endpoint if this goroutine got it.
Take(t) ==
    /\ pc[t] \in {"removeTake", "closeAllTake"}
    /\ LET i == taking[t]
           e == Endpoint(i, endpoints[i])
       IN  IF endpoints[i] = NoAddr
           THEN UNCHANGED <<endpoints, open, panicked>>
           ELSE /\ endpoints' = [endpoints EXCEPT ![i] = NoAddr]
                /\ open' = open \ {e}
                /\ panicked' = (panicked \/ e \notin open)
    /\ Resume(t)
    /\ UNCHANGED <<closed, endpointIDCounter, endpointToEndpointID, todo, taking, locals>>

\* The Range is over: SetEndpoints returns; Close runs onClose and returns.
RangeDone(t) ==
    /\ Ranging(t)
    /\ todo[t] = {}
    /\ Goto(t, IF t = Setter THEN "idle" ELSE "done")
    /\ UNCHANGED <<closed, maps, todo, taking, locals>>

-----------------------------------------------------------------------------
\* Close: the second close of the channel panics; recover makes it a return.
Close(t) ==
    /\ pc[t] = "idle"
    /\ IF closed
       THEN Goto(t, "done") /\ UNCHANGED <<closed, todo>>
       ELSE closed' = TRUE /\ StartRange(t, "closeAll")
    /\ UNCHANGED <<maps, taking, locals>>

RangeStep(t) ==
    \/ \E i \in EndpointIDs : Skip(t, i) \/ DeleteAddr(t, i)
    \/ Take(t)
    \/ RangeDone(t)

SetterStep ==
    \/ \E a \in Addrs : Loaded(a) \/ Create(a)
    \/ Store
    \/ StoredAll

Next ==
    \/ \E eps \in SUBSET Addrs : SetEndpoints(eps)
    \/ SetterStep
    \/ \E t \in Closers : Close(t)
    \/ \E t \in Threads : RangeStep(t)

Spec == Init /\ [][Next]_vars

-----------------------------------------------------------------------------
(* Every variable has its type.                                                *)
TypeOK ==
    /\ closed \in BOOLEAN
    /\ endpointIDCounter \in 0..MaxId
    /\ endpointToEndpointID \in [Addrs -> 0..MaxId]
    /\ endpoints \in [EndpointIDs -> Addrs \cup {NoAddr}]
    /\ open \in SUBSET [id : EndpointIDs, addr : Addrs]
    /\ panicked \in BOOLEAN
    /\ pc \in [Threads -> {"idle", "loop", "store", "remove", "removeTake",
                           "closeAll", "closeAllTake", "done"}]
    /\ todo \in [Threads -> SUBSET EndpointIDs]
    /\ taking \in [Threads -> EndpointIDs]
    /\ target \in SUBSET Addrs
    /\ addrs \in SUBSET Addrs
    /\ id \in EndpointIDs
    /\ pe \in [id : EndpointIDs, addr : Addrs \cup {NoAddr}]

(* No endpoint is closed twice, which would close its channel twice and panic:  *)
(* the loops of SetEndpoints and of several Closes run over the same map.        *)
ClosedOnce == ~panicked

(* No endpoint leaks: every endpoint whose goroutines run is the one stored      *)
(* under its id, or about to be, so that a later SetEndpoints or Close finds it. *)
NoOrphans ==
    \A e \in open :
        endpoints[e.id] = e.addr \/ (pc[Setter] = "store" /\ e = pe)

(* Close wins every race against SetEndpoints: once the calls have returned, a   *)
(* closed peer has no endpoint and none of its endpoints' goroutines runs.       *)
ClosedMeansEmpty ==
    closed /\ pc[Setter] = "idle" /\ (\A t \in Closers : pc[t] \in {"idle", "done"})
        => open = {} /\ Stored = {}

(* Between calls on an open peer the two maps are each other's inverse (a ping   *)
(* is matched to its endpoint through both) and hold the endpoints asked for.    *)
MapsAgree ==
    ~closed /\ pc[Setter] = "idle" =>
        /\ \A a \in Addrs : endpointToEndpointID[a] # 0 <=> a \in target
        /\ \A a \in target : endpoints[endpointToEndpointID[a]] = a
        /\ \A i \in Stored : endpointToEndpointID[endpoints[i]] = i

=============================================================================
