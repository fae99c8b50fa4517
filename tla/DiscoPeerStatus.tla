-------------------------- MODULE DiscoPeerStatus --------------------------
(* How a peer picks its active endpoint (disco/discoPeer.go): the status of an *)
(* endpoint is reported by a goroutine of its own, which stores it in           *)
(* endpointStatusMap and runs updateStatus.  The goroutines of several           *)
(* endpoints run updateStatus at the same time, each with its own view of the    *)
(* map, and SetEndpoints removes endpoints meanwhile.                            *)
EXTENDS Naturals

CONSTANTS
    Endpoints,  \* endpoints of the peer; ids are theirs for good
    MaxRTT,     \* bound: round-trip times, in classes
    NoEndpoint

StatusAssumption ==
    /\ MaxRTT \in Nat \ {0}
    /\ NoEndpoint \notin Endpoints

RTTs == 1..MaxRTT
Down == 0                   \* the status of an endpoint that is not connected
Unknown == MaxRTT + 2       \* no status stored
Inf == MaxRTT + 1           \* math.MaxInt64, larger than every round-trip time

VARIABLES
    rtt,                \* what the endpoint last saw: Down, or a round-trip time
    endpoints,          \* endpoints in the map
    endpointStatusMap,  \* statuses reported
    priority,           \* the priority an endpoint was given last
    activeEndpoint,     \* of the peer's status
    pc, todo,           \* per callback goroutine; todo: what its Range has left
    minRTT, minID       \* locals of updateStatus

vars == <<rtt, endpoints, endpointStatusMap, priority, activeEndpoint,
          pc, todo, minRTT, minID>>
shared == <<rtt, endpoints, endpointStatusMap, priority, activeEndpoint>>

\* Nothing is known of any endpoint.
Fresh ==
    /\ rtt = [e \in Endpoints |-> Down]
    /\ endpointStatusMap = [e \in Endpoints |-> Unknown]
    /\ priority = [e \in Endpoints |-> "Primary"]
    /\ activeEndpoint = NoEndpoint
    /\ pc = [e \in Endpoints |-> "wait"]
    /\ todo = [e \in Endpoints |-> {}]
    /\ minRTT = [e \in Endpoints |-> Inf]
    /\ minID = [e \in Endpoints |-> NoEndpoint]

Init == Fresh /\ endpoints = Endpoints

Goto(t, l) == pc' = [pc EXCEPT ![t] = l]

\* The Range over the statuses visits e; the one over the endpoints follows the last.
Visits(t, e) ==
    /\ pc[t] = "min"
    /\ e \in todo[t]
    /\ IF todo[t] = {e}
       THEN Goto(t, "prioritize") /\ todo' = [todo EXCEPT ![t] = endpoints]
       ELSE UNCHANGED pc /\ todo' = [todo EXCEPT ![t] = @ \ {e}]

-----------------------------------------------------------------------------
(* The world: pongs, lost pings, and SetEndpoints *)

\* A pong is handled, or a ping given up: the endpoint's status changes.
Measure(e, r) ==
    /\ e \in endpoints
    /\ r # rtt[e]
    /\ rtt' = [rtt EXCEPT ![e] = r]
    /\ UNCHANGED <<endpoints, endpointStatusMap, priority, activeEndpoint,
                   pc, todo, minRTT, minID>>

\* SetEndpoints takes an endpoint out and closes it; what was stored of its status
\* stays, and nobody runs updateStatus.
Remove(e) ==
    /\ e \in endpoints
    /\ endpoints' = endpoints \ {e}
    /\ UNCHANGED <<rtt, endpointStatusMap, priority, activeEndpoint,
                   pc, todo, minRTT, minID>>

-----------------------------------------------------------------------------
(* The callback of an endpoint's NotifyStatus *)

\* The status is stored and updateStatus called.  The callback runs for every
\* change: also for the next round-trip time of a connected endpoint, in the same
\* class as the last.
Report(t) ==
    /\ pc[t] = "wait"
    /\ t \in endpoints
    /\ rtt[t] # endpointStatusMap[t] \/ rtt[t] # Down
    /\ endpointStatusMap' = [endpointStatusMap EXCEPT ![t] = rtt[t]]
    /\ Goto(t, "min")
    /\ minRTT' = [minRTT EXCEPT ![t] = Inf]
    /\ minID' = [minID EXCEPT ![t] = NoEndpoint]
    /\ todo' = [todo EXCEPT ![t] = {e \in Endpoints : endpointStatusMap'[e] # Unknown}]
    /\ UNCHANGED <<rtt, endpoints, priority, activeEndpoint>>

\* Mutant: an endpoint that was taken out is still eligible.
CompareAll(t, e) ==
    /\ Visits(t, e)
    /\ IF endpointStatusMap[e] = Down \/ minRTT[t] < endpointStatusMap[e]
       THEN UNCHANGED <<minRTT, minID>>
       ELSE /\ minRTT' = [minRTT EXCEPT ![t] = endpointStatusMap[e]]
            /\ minID' = [minID EXCEPT ![t] = e]
    /\ UNCHANGED shared

\* The Range over the statuses: the fastest connected endpoint that is still in
\* the map; of two equally fast ones, the one visited last.
Compare(t, e) ==
    /\ Visits(t, e)
    /\ IF endpointStatusMap[e] = Down \/ minRTT[t] < endpointStatusMap[e] \/ e \notin endpoints
       THEN UNCHANGED <<minRTT, minID>>
       ELSE /\ minRTT' = [minRTT EXCEPT ![t] = endpointStatusMap[e]]
            /\ minID' = [minID EXCEPT ![t] = e]
    /\ UNCHANGED shared

\* The Range over the endpoints.
SetPriority(t, e) ==
    /\ pc[t] = "prioritize"
    /\ e \in todo[t]
    /\ todo' = [todo EXCEPT ![t] = @ \ {e}]
    /\ priority' = IF e \in endpoints
                   THEN [priority EXCEPT ![e] =
                            IF minRTT[t] = Inf \/ e = minID[t] THEN "Primary" ELSE "Sub"]
                   ELSE priority
    /\ UNCHANGED <<rtt, endpoints, endpointStatusMap, activeEndpoint, pc, minRTT, minID>>

\* With no endpoint connected the last active one stays.  A closed endpoint's
\* goroutine ends when it waits for the next status.
setStatus(t) ==
    /\ pc[t] = "prioritize"
    /\ todo[t] = {}
    /\ activeEndpoint' = IF minRTT[t] = Inf THEN activeEndpoint ELSE minID[t]
    /\ Goto(t, "wait")
    /\ minRTT' = [minRTT EXCEPT ![t] = Inf]
    /\ minID' = [minID EXCEPT ![t] = NoEndpoint]
    /\ UNCHANGED <<rtt, endpoints, endpointStatusMap, priority, todo>>

-----------------------------------------------------------------------------
Callback(t) ==
    \/ Report(t) \/ setStatus(t)
    \/ \E e \in Endpoints : Compare(t, e) \/ SetPriority(t, e)

Next ==
    \/ \E e \in Endpoints : Callback(e) \/ Remove(e) \/ \E r \in RTTs \cup {Down} : Measure(e, r)

\* Callbacks run, and a connected endpoint reports a round-trip time again and
\* again: it is pinged at least every ten seconds.
Fairness == \A t \in Endpoints : WF_vars(Callback(t))

Spec == Init /\ [][Next]_vars /\ Fairness

-----------------------------------------------------------------------------
(* Type invariant; a minimum that updateStatus has found has its endpoint.         *)
TypeOK ==
    /\ rtt \in [Endpoints -> RTTs \cup {Down}]
    /\ endpoints \in SUBSET Endpoints
    /\ endpointStatusMap \in [Endpoints -> RTTs \cup {Down, Unknown}]
    /\ priority \in [Endpoints -> {"Primary", "Sub"}]
    /\ activeEndpoint \in Endpoints \cup {NoEndpoint}
    /\ pc \in [Endpoints -> {"wait", "min", "prioritize"}]
    /\ todo \in [Endpoints -> SUBSET Endpoints]
    /\ minRTT \in [Endpoints -> RTTs \cup {Inf}]
    /\ minID \in [Endpoints -> Endpoints \cup {NoEndpoint}]
    /\ \A t \in Endpoints : minRTT[t] = Inf <=> minID[t] = NoEndpoint

\* The endpoint that should carry the peer's traffic: it answers within c, and no
\* other does.
Best(e, c) ==
    /\ e \in endpoints
    /\ rtt[e] \in 1..c
    /\ \A f \in endpoints \ {e} : rtt[f] = Down \/ rtt[f] > c

(* If one endpoint stays the fastest, it becomes the active one for good, alone    *)
(* with the primary priority, whatever other goroutines that compared an older     *)
(* state of the map write in between.                                              *)
BestBecomesActive ==
    \A e \in Endpoints, c \in RTTs :
        <>[]Best(e, c) => <>[](/\ activeEndpoint = e
                               /\ priority[e] = "Primary"
                               /\ \A f \in endpoints \ {e} : priority[f] = "Sub")

=============================================================================
