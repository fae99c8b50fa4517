----------------------------- MODULE NodeProofs -----------------------------
(* Proofs about what a node keeps: the account an endpoint has of its pings,  *)
(* for any set of ping ids, timely network or not; the routes to the extra     *)
(* CIDRs of pods; the table of peers, and the maps of a peer's endpoints; the *)
(* differences of WireGuard configurations, and the device the engine configures. *)
EXTENDS MCNode, WellFoundedInduction, TLAPS

-----------------------------------------------------------------------------
(* The packet manager's operations on the pending pings *)

Distinct(seq) == \A i, j \in 1..Len(seq) : i # j => seq[i] # seq[j]

(* PositionOf finds a pending ping.                                           *)
LEMMA PositionOfPending ==
    ASSUME pending \in Seq(Ids), NEW ping \in Range(pending)
    PROVE  PositionOf(ping) \in 1..Len(pending) /\ pending[PositionOf(ping)] = ping
BY DEF Range, PositionOf

(* RecvAck deletes the answered ping and leaves only pings that were pending. *)
LEMMA AfterShrinks ==
    ASSUME pending \in Seq(Ids), Distinct(pending), NEW ping \in Range(pending)
    PROVE  /\ After(ping) \in Seq(Ids)
           /\ Distinct(After(ping))
           /\ Range(After(ping)) \subseteq Range(pending) \ {ping}
<1> DEFINE k == PositionOf(ping)
           n == Len(pending)
           rest == After(ping)
<1>1. k \in 1..n /\ pending[k] = ping
  BY PositionOfPending
<1>2. n \in Nat /\ pending \in [1..n -> Ids]
  OBVIOUS
<1>3. rest = [i \in 1..(n - k) |-> pending[i + k]]
  BY DEF After
<1>4. rest \in Seq(Ids) /\ Len(rest) = n - k
  BY <1>1, <1>2, <1>3
<1>5. \A i \in 1..(n - k) : rest[i] = pending[i + k] /\ i + k \in 1..n /\ i + k # k
  BY <1>1, <1>2, <1>3
<1>6. Distinct(rest)
  BY <1>1, <1>2, <1>4, <1>5 DEF Distinct
<1>7. Range(rest) \subseteq Range(pending) \ {ping}
  BY <1>1, <1>2, <1>4, <1>5 DEF Distinct, Range
<1> QED
  BY <1>4, <1>6, <1>7

(* A timeout's LoadAndDelete removes its ping and nothing else.               *)
LEMMA WithoutRemoves ==
    ASSUME pending \in Seq(Ids), Distinct(pending), NEW ping \in Range(pending)
    PROVE  /\ Without(ping) \in Seq(Ids)
           /\ Distinct(Without(ping))
           /\ Range(Without(ping)) \subseteq Range(pending) \ {ping}
<1> DEFINE k == PositionOf(ping)
           n == Len(pending)
           rest == Without(ping)
           old(i) == IF i < k THEN i ELSE i + 1
<1>1. k \in 1..n /\ pending[k] = ping
  BY PositionOfPending
<1>2. n \in Nat /\ pending \in [1..n -> Ids]
  OBVIOUS
<1>3. rest = [i \in 1..(n - 1) |-> IF i < k THEN pending[i] ELSE pending[i + 1]]
  BY DEF Without
<1>4. rest \in Seq(Ids) /\ Len(rest) = n - 1
  BY <1>1, <1>2, <1>3
<1>5. \A i \in 1..(n - 1) : rest[i] = pending[old(i)] /\ old(i) \in 1..n /\ old(i) # k
  BY <1>1, <1>2, <1>3
<1>6. \A i, j \in 1..(n - 1) : i # j => old(i) # old(j)
  BY <1>1, <1>2
<1>7. Distinct(rest)
  <2> HIDE DEF old
  <2> QED
    BY <1>1, <1>2, <1>4, <1>5, <1>6 DEF Distinct
<1>8. Range(rest) \subseteq Range(pending) \ {ping}
  <2> HIDE DEF old
  <2> QED
    BY <1>1, <1>2, <1>4, <1>5 DEF Distinct, Range
<1> QED
  BY <1>4, <1>7, <1>8

-----------------------------------------------------------------------------
(* The inductive invariant: types, and every ping accounted for once.          *)
Inv == TypeOK /\ AccountedOnce

(* A new endpoint has sent nothing.                                            *)
LEMMA InitInv == Init => Inv
<1> SUFFICES ASSUME Init PROVE Inv
  OBVIOUS
<1>1. /\ wakeCh \in BOOLEAN /\ checked \in BOOLEAN /\ quiet \in BOOLEAN
      /\ closed \in BOOLEAN /\ running \in BOOLEAN
  BY Zenon DEF Init
<1>2. flips \in 0..MaxFlips
  BY DiscoPeerEndpointAssumption DEF Init
<1>3. TypeOK
  BY <1>1, <1>2 DEF Init, TypeOK, ConnStates, Priorities
<1>4. AccountedOnce
  BY DiscoPeerEndpointAssumption DEF Init, AccountedOnce, Range
<1> QED
  BY <1>3, <1>4 DEF Inv

(* A step of run that handles one wakeup: the ping it sends is new everywhere. *)
LEMMA SendKeepsInv ==
    ASSUME Inv, NEW ping \in Ids, sendDiscoPing(ping)
    PROVE  Inv'
<1> USE DEF Inv, sendDiscoPing
<1>1. TypeOK'
  <2>1. wakeCh' \in BOOLEAN
    BY Zenon
  <2> QED
    BY <2>1 DEF TypeOK, statusVars
<1>2. ping \notin Range(pending) /\ ping \notin dropping /\ ping # acking
  BY DEF InUse
<1>3. Range(pending') = Range(pending) \cup {ping}
  BY DEF TypeOK, Range
<1>4. Distinct(pending')
  BY <1>2 DEF TypeOK, AccountedOnce, Distinct, Range
<1> QED
  BY <1>1, <1>2, <1>3, <1>4 DEF TypeOK, AccountedOnce, Distinct

(* A pong that finds its ping pending.                                          *)
LEMMA RecvAckKeepsInv ==
    ASSUME Inv, RecvAck
    PROVE  Inv'
<1> DEFINE ping == Head(recvChan)
<1>1. ping \in Range(pending) /\ pending' = After(ping) /\ acking' = ping
  BY DEF RecvAck
<1>2. /\ pending' \in Seq(Ids)
      /\ Distinct(pending')
      /\ Range(pending') \subseteq Range(pending) \ {ping}
  BY <1>1, AfterShrinks DEF Inv, TypeOK, AccountedOnce, Distinct
<1>3. TypeOK'
  BY <1>2 DEF Inv, TypeOK, RecvAck, statusVars, network
<1> QED
  BY <1>1, <1>2, <1>3 DEF Inv, AccountedOnce, Distinct, RecvAck

(* A timeout, whether or not it still finds its entry.                          *)
LEMMA TimeoutKeepsInv ==
    ASSUME Inv, NEW ping \in Ids, Timeout(ping)
    PROVE  Inv'
<1>1. CASE ping \in Range(pending)
  <2>1. pending' = Without(ping) /\ dropping' = dropping \cup {ping} /\ armed' = armed \ {ping}
    BY <1>1 DEF Timeout
  <2>2. /\ pending' \in Seq(Ids)
        /\ Distinct(pending')
        /\ Range(pending') \subseteq Range(pending) \ {ping}
    BY <1>1, <2>1, WithoutRemoves DEF Inv, TypeOK, AccountedOnce, Distinct
  <2>3. TypeOK'
    BY <2>1, <2>2 DEF Inv, TypeOK, Timeout, statusVars, network
  <2> QED
    BY <1>1, <2>1, <2>2, <2>3 DEF Inv, AccountedOnce, Distinct, Timeout
<1>2. CASE ping \notin Range(pending)
  BY <1>2 DEF Inv, TypeOK, AccountedOnce, Timeout, Range, statusVars, network
<1> QED
  BY <1>1, <1>2

(* Every step of the endpoint, its peer and the network keeps the invariant.   *)
LEMMA NextInv == Inv /\ [Next]_vars => Inv'
<1> SUFFICES ASSUME Inv, [Next]_vars PROVE Inv'
  OBVIOUS
<1>1. ASSUME NEW ping \in Ids, sendDiscoPing(ping) PROVE Inv'
  BY <1>1, SendKeepsInv
<1>2. ASSUME NEW ping \in Ids, Timeout(ping) PROVE Inv'
  BY <1>2, TimeoutKeepsInv
<1>3. CASE RecvAck
  BY <1>3, RecvAckKeepsInv
<1>4. ASSUME NEW ping \in Ids, dropCallback(ping) PROVE Inv'
  BY <1>4 DEF dropCallback, Inv, TypeOK, AccountedOnce, Range, ConnStates, SetState,
              network
<1>5. CASE handlePong
  BY <1>5, DiscoPeerEndpointAssumption
  DEF handlePong, Inv, TypeOK, AccountedOnce, Range, ConnStates, SetState, manager,
      network
<1>6. ASSUME UNCHANGED <<pending, armed, dropping, acking>>, TypeOK' PROVE Inv'
  BY <1>6 DEF Inv, AccountedOnce, Range
<1> USE DEF Inv, TypeOK, manager, statusVars, network
<1>7. ASSUME NEW ping \in Ids, NEW again \in BOOLEAN, EnqueueReceivedPacket(ping, again)
      PROVE  Inv'
  BY <1>6, <1>7 DEF EnqueueReceivedPacket
<1>8. ASSUME NEW ping \in Ids, Answer(ping) \/ Lose(ping) PROVE Inv'
  BY <1>6, <1>8 DEF Answer, Lose
<1>9. CASE RecvUnknown
  BY <1>6, <1>9 DEF RecvUnknown
<1>10. CASE RunStops
  <2>1. running' \in BOOLEAN
    BY <1>10, Zenon DEF RunStops
  <2> QED
    BY <1>6, <1>10, <2>1 DEF RunStops
<1>11. CASE Close
  <2>1. closed' \in BOOLEAN
    BY <1>11, Zenon DEF Close
  <2> QED
    BY <1>6, <1>11, <2>1 DEF Close
<1>12. ASSUME NEW p \in Priorities, SetPriority(p) PROVE Inv'
  BY <1>6, <1>12 DEF SetPriority, SetState
<1>13. CASE ReceivePingCheck
  <2>1. checked' \in BOOLEAN
    BY <1>13, Zenon DEF ReceivePingCheck
  <2> QED
    BY <1>6, <1>13, <2>1 DEF ReceivePingCheck
<1>14. CASE ReceivePing
  <2>1. checked' \in BOOLEAN /\ quiet' \in BOOLEAN
    BY <1>14, Zenon DEF ReceivePing
  <2>2. tick' \in [state : ConnStates, priority : Priorities]
    BY <1>14 DEF ReceivePing, SetState, ConnStates
  <2> QED
    BY <1>6, <1>14, <2>1, <2>2 DEF ReceivePing
<1>15. CASE QuietEnds
  <2>1. quiet' \in BOOLEAN
    BY <1>15, Zenon DEF QuietEnds
  <2> QED
    BY <1>6, <1>15, <2>1 DEF QuietEnds
<1>16. CASE Wake
  <2>1. wakeCh' \in BOOLEAN
    BY <1>16, Zenon DEF Wake
  <2> QED
    BY <1>6, <1>16, <2>1 DEF Wake
<1>17. CASE Flip
  <2>1. up' \in BOOLEAN
    BY <1>17, Zenon DEF Flip
  <2>2. flips' \in 0..MaxFlips
    BY <1>17, DiscoPeerEndpointAssumption DEF Flip
  <2> QED
    BY <1>6, <1>17, <2>1, <2>2 DEF Flip
<1>18. CASE UNCHANGED vars
  BY <1>6, <1>18 DEF vars
<1> QED
  BY <1>1, <1>2, <1>3, <1>4, <1>5, <1>7, <1>8, <1>9, <1>10, <1>11, <1>12, <1>13,
     <1>14, <1>15, <1>16, <1>17, <1>18 DEF Next

-----------------------------------------------------------------------------
(* Every variable of the endpoint keeps its type.                              *)
THEOREM TypeCorrect == Spec => []TypeOK
<1>1. Inv => TypeOK
  BY DEF Inv
<1> QED
  BY <1>1, InitInv, NextInv, PTL DEF Spec

(* A ping is never both acknowledged and dropped, and none is forgotten: the   *)
(* pong's RecvAck and the timeout's LoadAndDelete cannot both take its entry.  *)
THEOREM PingsAccountedOnce == Spec => []AccountedOnce
<1>1. Inv => AccountedOnce
  BY DEF Inv
<1> QED
  BY <1>1, InitInv, NextInv, PTL DEF Spec

(* The ticker is at the connected pace only while the status is connected, and *)
(* at the priority last set, whatever order pongs, drops, pings of the peer    *)
(* and changes of priority take the lock in.                                   *)
THEOREM TickerConsistent == Spec => []TickerFollowsStatus
<1>1. Init => TickerFollowsStatus
  BY DEF Init, TickerFollowsStatus
<1>2. TickerFollowsStatus /\ [Next]_vars => TickerFollowsStatus'
  <2> SUFFICES ASSUME TickerFollowsStatus, [Next]_vars PROVE TickerFollowsStatus'
    OBVIOUS
  <2> USE DEF TickerFollowsStatus, SetState, statusVars
  <2>1. ASSUME UNCHANGED statusVars PROVE TickerFollowsStatus'
    BY <2>1
  <2>2. CASE handlePong
    BY <2>2 DEF handlePong
  <2>3. ASSUME NEW ping \in Ids, dropCallback(ping) PROVE TickerFollowsStatus'
    BY <2>3 DEF dropCallback
  <2>4. ASSUME NEW p \in Priorities, SetPriority(p) PROVE TickerFollowsStatus'
    BY <2>4 DEF SetPriority
  <2>5. CASE ReceivePing
    BY <2>5 DEF ReceivePing
  <2>6. ASSUME NEW ping \in Ids, NEW again \in BOOLEAN,
               \/ sendDiscoPing(ping) \/ Timeout(ping) \/ Answer(ping) \/ Lose(ping)
               \/ EnqueueReceivedPacket(ping, again)
        PROVE  UNCHANGED statusVars
    BY <2>6 DEF sendDiscoPing, Timeout, Answer, Lose, EnqueueReceivedPacket
  <2>7. \/ Wake \/ RecvAck \/ RecvUnknown \/ RunStops \/ ReceivePingCheck
        \/ QuietEnds \/ Close \/ Flip \/ UNCHANGED vars
        => UNCHANGED statusVars
    BY DEF Wake, RecvAck, RecvUnknown, RunStops, ReceivePingCheck, QuietEnds, Close,
           Flip, vars
  <2> QED
    BY <2>1, <2>2, <2>3, <2>4, <2>5, <2>6, <2>7 DEF Next
<1> QED
  BY <1>1, <1>2, PTL DEF Spec

-----------------------------------------------------------------------------
(* The routes to extra CIDRs *)

RouteTypes ==
    /\ pod \in [Pods -> {"none", "there", "gone"}]
    /\ podClaim \in [CIDRs -> Pods \cup {Nobody}]
    /\ route \in [CIDRs -> Pods \cup {Nobody}]
    /\ add \in [Pods -> {"none", "load", "list", "add", "done", "stopped"}]
    /\ extraRoutes \in [Pods -> SUBSET CIDRs]
    /\ routesSet \in [Pods -> SUBSET CIDRs]
    /\ inherited \in [Pods -> SUBSET CIDRs]

Claimed(p) == {c \in CIDRs : podClaim[c] = p}

\* The claims of a pod do not change under its ADD.
ThereWhileAdding(p) ==
    /\ add[p] \in {"load", "list", "add"} => pod[p] = "there"
    /\ pod[p] = "none" => add[p] = "none"

\* What the ADD has yet to route is claimed for its pod: all of it until the first route.
ClaimedToRoute(p) ==
    /\ extraRoutes[p] \subseteq Claimed(p)
    /\ add[p] \notin {"list", "add"} => extraRoutes[p] = {}
    /\ add[p] = "list" => extraRoutes[p] = Claimed(p)

\* A CIDR of the pod is yet to be routed, routed to it, or was routed elsewhere before.
RoutedOrLeft(p) ==
    /\ add[p] = "add" =>
           /\ extraRoutes[p] \cap routesSet[p] \subseteq inherited[p]
           /\ \A c \in Claimed(p) : c \in extraRoutes[p] \/ route[c] = p \/ c \in inherited[p]
    /\ pod[p] = "there" /\ add[p] = "done" =>
           \A c \in Claimed(p) : route[c] = p \/ c \in inherited[p]

\* The routes of a pod do not outlive its veth.
RoutesWithVeth(p) == add[p] \notin {"add", "done"} => \A c \in CIDRs : route[c] # p

AddInv(p) == ThereWhileAdding(p) /\ ClaimedToRoute(p) /\ RoutedOrLeft(p) /\ RoutesWithVeth(p)

\* Unless a pod was deleted by force, a route leads to the pod of the claim, so that an ADD
\* finds no route to a CIDR of its own.
RoutesFollowClaims == forced \/ \A c \in CIDRs : route[c] # Nobody => podClaim[c] = route[c]
NothingInherited == forced \/ \A p \in Pods : inherited[p] = {}

RouteInv ==
    /\ RouteTypes
    /\ \A p \in Pods : AddInv(p)
    /\ RoutesFollowClaims /\ NothingInherited

(* The steps of the cluster.                                                              *)
LEMMA ClusterKeepsRoutes ==
    ASSUME Extra!Assumption, RouteInv, NEW p \in Pods,
           Extra!DeletePod(p) \/ \E xs \in SUBSET CIDRs : Extra!CreatePod(p, xs)
    PROVE  RouteInv'
<1> USE DEF RouteInv, RouteTypes
<1>1. CASE Extra!DeletePod(p)
  <2> USE <1>1 DEF Extra!DeletePod, Extra!history, Extra!cluster
  <2>1. /\ pod' = [pod EXCEPT ![p] = "gone"]
        /\ podClaim' = [c \in CIDRs |-> IF podClaim[c] = p THEN Nobody ELSE podClaim[c]]
        /\ add[p] \in {"done", "stopped"}
        /\ UNCHANGED <<route, add, extraRoutes, routesSet, inherited>>
    OBVIOUS
  <2>2. RouteTypes'
    BY <2>1
  <2>3. ASSUME NEW q \in Pods PROVE AddInv(q)'
    <3>1. CASE q = p
      <4>1. pod'[p] = "gone" /\ extraRoutes[p] = {}
        BY <2>1 DEF AddInv, ClaimedToRoute
      <4> QED
        BY <2>1, <3>1, <4>1
        DEF AddInv, ThereWhileAdding, ClaimedToRoute, RoutedOrLeft, RoutesWithVeth
    <3>2. CASE q # p
      <4>1. pod'[q] = pod[q] /\ \A c \in CIDRs : podClaim'[c] = q <=> podClaim[c] = q
        BY <2>1, <3>2 DEF Extra!Assumption
      <4> QED
        BY <2>1, <4>1
        DEF AddInv, ThereWhileAdding, ClaimedToRoute, RoutedOrLeft, RoutesWithVeth, Claimed
    <3> QED
      BY <3>1, <3>2
  <2>4. (forced => forced') /\ (add[p] = "done" => forced')
    BY Zenon
  <2>5. RoutesFollowClaims' /\ NothingInherited'
    BY <2>1, <2>4 DEF RoutesFollowClaims, NothingInherited, AddInv, RoutesWithVeth
  <2> QED
    BY <2>2, <2>3, <2>5
<1>2. ASSUME NEW xs \in SUBSET CIDRs, Extra!CreatePod(p, xs) PROVE RouteInv'
  <2>1. /\ pod' = [pod EXCEPT ![p] = "there"] /\ pod[p] = "none"
        /\ podClaim' = [c \in CIDRs |-> IF c \in xs THEN p ELSE podClaim[c]]
        /\ \A c \in xs : podClaim[c] = Nobody
        /\ UNCHANGED <<route, add, extraRoutes, routesSet, inherited, forced>>
    BY <1>2 DEF Extra!CreatePod, Extra!history
  <2>2. RouteTypes'
    BY <2>1
  <2>3. ASSUME NEW q \in Pods PROVE AddInv(q)'
    <3>1. CASE q = p
      <4>1. pod'[p] = "there" /\ add[p] = "none" /\ extraRoutes[p] = {}
        BY <2>1 DEF AddInv, ThereWhileAdding, ClaimedToRoute
      <4> QED
        BY <2>1, <3>1, <4>1
        DEF AddInv, ThereWhileAdding, ClaimedToRoute, RoutedOrLeft, RoutesWithVeth
    <3>2. CASE q # p
      <4>1. pod'[q] = pod[q] /\ \A c \in CIDRs : podClaim'[c] = q <=> podClaim[c] = q
        BY <2>1, <3>2 DEF Extra!Assumption
      <4> QED
        BY <2>1, <4>1
        DEF AddInv, ThereWhileAdding, ClaimedToRoute, RoutedOrLeft, RoutesWithVeth, Claimed
    <3> QED
      BY <3>1, <3>2
  <2>4. RoutesFollowClaims' /\ NothingInherited'
    BY <2>1 DEF RoutesFollowClaims, NothingInherited, Extra!Assumption
  <2> QED
    BY <2>2, <2>3, <2>4
<1> QED
  BY <1>1, <1>2

(* The end of an ADD or of a sandbox takes the routes of its pod with it, and the locals. *)
LEMMA EndKeepsRoutes ==
    ASSUME Extra!Assumption, RouteInv, NEW p \in Pods,
           Extra!AddFails(p) \/ Extra!StopSandbox(p) \/ Extra!Added(p)
    PROVE  RouteInv'
<1> USE DEF RouteInv, RouteTypes
<1>1. PICK l \in {"none", "stopped", "done"} :
        /\ add[p] # "none" /\ add' = [add EXCEPT ![p] = l]
        /\ extraRoutes' = [extraRoutes EXCEPT ![p] = {}]
        /\ routesSet' = [routesSet EXCEPT ![p] = {}]
        /\ UNCHANGED <<pod, podClaim, forced, inherited>>
        /\ \/ l # "done" /\ Extra!LinkDel(p)
           \/ l = "done" /\ UNCHANGED route /\ add[p] = "add" /\ extraRoutes[p] = {}
  BY DEF Extra!AddFails, Extra!StopSandbox, Extra!Added, Extra!Ends, Extra!history,
     Extra!cluster
<1>2. RouteTypes'
  BY <1>1 DEF Extra!LinkDel
<1>3. ASSUME NEW q \in Pods PROVE AddInv(q)'
  BY <1>1 DEF Extra!Assumption, Extra!LinkDel, AddInv, ThereWhileAdding, ClaimedToRoute,
     RoutedOrLeft, RoutesWithVeth, Claimed
<1>4. RoutesFollowClaims' /\ NothingInherited'
  BY <1>1 DEF RoutesFollowClaims, NothingInherited, Extra!LinkDel
<1> QED
  BY <1>2, <1>3, <1>4

(* The steps of an ADD until then.                                                        *)
LEMMA AddKeepsRoutes ==
    ASSUME Extra!Assumption, RouteInv, NEW p \in Pods,
           \/ Extra!StartAdd(p) \/ Extra!loadExtraRoutes(p) \/ Extra!RouteListFiltered(p)
           \/ \E c \in CIDRs : Extra!RouteAdd(p, c)
    PROVE  RouteInv'
<1> USE DEF RouteInv, RouteTypes, Extra!history, Extra!cluster
<1> USE DEF AddInv, ThereWhileAdding, ClaimedToRoute, RoutedOrLeft, RoutesWithVeth, Claimed
<1>1. CASE Extra!StartAdd(p)
  BY <1>1 DEF Extra!StartAdd, RoutesFollowClaims, NothingInherited
<1>2. CASE Extra!loadExtraRoutes(p)
  BY <1>2 DEF Extra!loadExtraRoutes, RoutesFollowClaims, NothingInherited
<1>3. CASE Extra!RouteListFiltered(p)
  <2>1. /\ add[p] = "list"
        /\ add' = [add EXCEPT ![p] = "add"]
        /\ routesSet' = [routesSet EXCEPT ![p] = {c \in CIDRs : route[c] # Nobody}]
        /\ inherited' = [inherited EXCEPT ![p] = {c \in extraRoutes[p] : route[c] # Nobody}]
        /\ UNCHANGED <<pod, podClaim, route, extraRoutes, forced>>
    BY <1>3 DEF Extra!RouteListFiltered
  <2>2. RouteTypes' /\ \A q \in Pods : AddInv(q)'
    BY <2>1
  <2>3. RoutesFollowClaims'
    BY <2>1 DEF RoutesFollowClaims
  <2>4. ~forced => {c \in extraRoutes[p] : route[c] # Nobody} = {}
    BY <2>1 DEF RoutesFollowClaims
  <2>5. NothingInherited'
    BY <2>1, <2>4 DEF NothingInherited
  <2> QED
    BY <2>2, <2>3, <2>5
<1>4. ASSUME NEW c \in CIDRs, Extra!RouteAdd(p, c) PROVE RouteInv'
  <2>1. /\ add[p] = "add" /\ c \in extraRoutes[p]
        /\ c \notin routesSet[p] => route[c] = Nobody
        /\ route' = [route EXCEPT ![c] = IF c \in routesSet[p] THEN @ ELSE p]
        /\ extraRoutes' = [extraRoutes EXCEPT ![p] = @ \ {c}]
        /\ UNCHANGED <<pod, podClaim, add, routesSet, inherited, forced>>
    BY <1>4 DEF Extra!RouteAdd
  <2>2. podClaim[c] = p
    BY <2>1
  <2>3. RouteTypes' /\ \A q \in Pods : AddInv(q)'
    BY <2>1, <2>2 DEF Extra!Assumption
  <2>4. RoutesFollowClaims' /\ NothingInherited'
    BY <2>1, <2>2 DEF RoutesFollowClaims, NothingInherited
  <2> QED
    BY <2>3, <2>4
<1> QED
  BY <1>1, <1>2, <1>3, <1>4

(* The extra CIDRs of a pod are routed to it from its ADD to the end of its sandbox, but  *)
(* for those that a pod deleted by force still had when the ADD listed the routes: for any *)
(* pods, CIDRs and failures (tetra-extra-routes/main.go:96-117, 180-191).                  *)
THEOREM PodsStayRouted == Extra!Spec => []RoutesKept
<1> USE NodeAssumption DEF NodeAssumption
<1>1. Extra!Init => RouteInv
  <2> SUFFICES ASSUME Extra!Init PROVE RouteInv
    OBVIOUS
  <2>1. RouteTypes
    BY DEF Extra!Init, RouteTypes
  <2>2. \A p \in Pods : AddInv(p)
    BY DEF Extra!Init, Extra!Assumption, AddInv, ThereWhileAdding, ClaimedToRoute,
       RoutedOrLeft, RoutesWithVeth, Claimed
  <2>3. RoutesFollowClaims /\ NothingInherited
    BY DEF Extra!Init, RoutesFollowClaims, NothingInherited
  <2> QED
    BY <2>1, <2>2, <2>3 DEF RouteInv
<1>2. RouteInv /\ [Extra!Next]_(Extra!vars) => RouteInv'
  <2> SUFFICES ASSUME RouteInv, [Extra!Next]_(Extra!vars) PROVE RouteInv'
    OBVIOUS
  <2>1. CASE UNCHANGED Extra!vars
    BY <2>1 DEF Extra!vars, RouteInv, RouteTypes, AddInv, ThereWhileAdding, ClaimedToRoute,
       RoutedOrLeft, RoutesWithVeth, Claimed, RoutesFollowClaims, NothingInherited
  <2> QED
    BY <2>1, ClusterKeepsRoutes, EndKeepsRoutes, AddKeepsRoutes DEF Extra!Next
<1>3. RouteInv => RoutesKept
  BY DEF RouteInv, RouteTypes, AddInv, RoutedOrLeft, Claimed, NothingInherited, RoutesKept,
     Extra!RoutesKept, Extra!cmdCheck, Extra!Assumption
<1> QED
  BY <1>1, <1>2, <1>3, PTL DEF Extra!Spec

-----------------------------------------------------------------------------
(* The table of peers *)

\* The two goroutines: where each is, the peer in its hands, the keys it has left.
SetterAt == discoPC[Setter]
CloserAt == discoPC[Closer]
InSetter == cur[Setter]
InCloser == cur[Closer]
LeftToSet == discoTodo[Setter]
LeftToClose == discoTodo[Closer]
goroutines == <<SetterAt, CloserAt, InSetter, InCloser, LeftToSet, LeftToClose>>

SetterLabels == {"idle", "add", "store", "stored", "check", "range", "nil", "closeNil",
                 "closeUnwanted", "onCloseNil", "onCloseUnwanted"}
CloserLabels == {"idle", "rangeAll", "delete", "closeAll", "onCloseAll", "done"}
DiscoLabels == SetterLabels \cup CloserLabels

DiscoTypes ==
    /\ peers \in [Keys -> 0..MaxPeers] /\ \A k \in Keys : peers[k] \in 0..made
    /\ keyOf \in [1..MaxPeers -> Keys]
    /\ made \in 0..MaxPeers
    /\ open \subseteq 1..made /\ temporal \subseteq 1..made
    /\ want \subseteq Keys
    /\ discoPC \in [{Setter, Closer} -> DiscoLabels]
    /\ SetterAt \in SetterLabels /\ CloserAt \in CloserLabels
    /\ discoTodo \in [{Setter, Closer} -> SUBSET Keys]
    /\ cur \in [{Setter, Closer} -> 0..made]

\* A key leads to a peer that was made for it.
KeysOfPeers ==
    /\ \A k \in Keys : peers[k] # 0 => keyOf[peers[k]] = k
    /\ SetterAt \in {"store", "stored", "check", "closeNil", "onCloseNil", "closeUnwanted",
                     "onCloseUnwanted"} => InSetter # 0
    /\ CloserAt \in {"delete", "closeAll", "onCloseAll"} => InCloser # 0

\* Only the setter stores peers, so its own is the one under the key or none is; before the
\* closer starts it is there.
SetterKnowsTable ==
    /\ SetterAt = "store" => \A k \in Keys : peers[k] # InSetter
    /\ SetterAt \in {"stored", "check", "closeNil", "onCloseNil", "closeUnwanted",
                     "onCloseUnwanted"} => peers[keyOf[InSetter]] \in {0, InSetter}
    /\ SetterAt \in {"stored", "check", "closeUnwanted", "onCloseUnwanted"} /\ CloserAt = "idle"
           => peers[keyOf[InSetter]] = InSetter
    /\ SetterAt \in {"closeNil", "onCloseNil", "nil"} => CloserAt # "idle"

\* A peer whose onClose is to come is closed, and but for one just stored it takes the key.
ClosedBeforeOnClose ==
    /\ SetterAt \in {"onCloseNil", "onCloseUnwanted"} => InSetter \notin open
    /\ CloserAt = "onCloseAll" => InCloser \notin open
    /\ \A k \in Keys : peers[k] \in temporal => SetterAt = "stored" /\ peers[k] = InSetter
    /\ SetterAt \in {"check", "closeNil", "onCloseNil", "closeUnwanted", "onCloseUnwanted"} =>
           InSetter \notin temporal

\* The closer deletes a key twice; a peer stored in between is still in the setter's hands.
NewPeerInHand ==
    CloserAt \in {"delete", "closeAll", "onCloseAll"} =>
        LET p == peers[keyOf[InCloser]]
        IN  p \in open => \/ p = InCloser
                          \/ p = InSetter /\ SetterAt \in {"stored", "check", "closeNil"}

\* What NoLostPeer says.
PeersHeld ==
    \A p \in open :
        \/ peers[keyOf[p]] = p
        \/ InSetter = p /\ SetterAt \in {"store", "stored", "check", "closeNil"}
        \/ InCloser = p /\ CloserAt = "closeAll"

\* Until Close the table has open peers, but for the one the setter is closing, and gets
\* open ones.
TableOpen ==
    CloserAt = "idle" =>
        /\ \A k \in Keys : peers[k] # 0 =>
               peers[k] \in open \/ (SetterAt = "onCloseUnwanted" /\ k = keyOf[InSetter])
        /\ SetterAt = "store" => InSetter \in open

\* Until Close the setter has left what the table lacks, and then what it has too many.
Wanting ==
    \A k \in want :
        peers[k] # 0 \/ k \in LeftToSet \/ (SetterAt # "add" /\ k = keyOf[InSetter])
Unwanted ==
    \A k \in Keys : peers[k] # 0 /\ k \notin want =>
        k \in LeftToSet \/ (SetterAt # "range" /\ k = keyOf[InSetter])
SettingGoesOn ==
    CloserAt = "idle" =>
        /\ SetterAt \in {"add", "store", "stored", "check"} => LeftToSet \subseteq want /\ Wanting
        /\ SetterAt \in {"store", "stored", "check"} => keyOf[InSetter] \in want
        /\ SetterAt \in {"range", "closeUnwanted", "onCloseUnwanted"} =>
               Unwanted /\ \A k \in want : peers[k] # 0
        /\ SetterAt \in {"closeUnwanted", "onCloseUnwanted"} => keyOf[InSetter] \notin want
        /\ SetterAt = "idle" => \A k \in Keys : peers[k] # 0 <=> k \in want

\* After Close a key is left to the closer, or belongs to a peer stored since, of which
\* the setter never gets rid: it ends with nil.
ClosingGoesOn ==
    /\ CloserAt # "idle" => \A k \in Keys : peers[k] # 0 =>
           \/ k \in LeftToClose
           \/ CloserAt = "delete" /\ k = keyOf[InCloser]
           \/ /\ SetterAt \in {"stored", "check", "closeNil", "onCloseNil", "nil"}
              /\ k = keyOf[InSetter]
    /\ CloserAt = "done" => LeftToClose = {}

ClosedFlag == discoClosed <=> CloserAt # "idle"
PanickedFlag == discoPanicked \in BOOLEAN /\ discoClosed \in BOOLEAN

TableInv ==
    /\ DiscoTypes /\ KeysOfPeers /\ SetterKnowsTable /\ ClosedBeforeOnClose /\ NewPeerInHand
    /\ PeersHeld /\ TableOpen /\ SettingGoesOn /\ ClosingGoesOn

(* A step of the setter between two steps on the table.                                    *)
LEMMA SetterLooks ==
    ASSUME Disco!Assumption, TableInv, ClosedFlag,
           \/ \E ks \in SUBSET Keys : Disco!SetPeers(ks)
           \/ \E k \in Keys : Disco!Found(k) \/ Disco!Visit(k)
           \/ Disco!Check \/ Disco!Added \/ Disco!SetPeersReturns
    PROVE  TableInv'
<1> USE DEF TableInv, Disco!Assumption, Disco!table
<1>1. UNCHANGED <<peers, keyOf, made, open, temporal>> /\ CloserAt' = CloserAt
      /\ InCloser' = InCloser /\ LeftToClose' = LeftToClose
  BY DEF Disco!SetPeers, Disco!Found, Disco!Visit, Disco!Check, Disco!Added,
     Disco!SetPeersReturns, Disco!Goto, Disco!Holds, Disco!Leaves, Disco!StartRange,
     CloserAt, InCloser, LeftToClose, DiscoTypes
<1>2. ASSUME NEW ks \in SUBSET Keys, Disco!SetPeers(ks) PROVE TableInv'
  <2>1. /\ SetterAt = "idle" /\ SetterAt' = "add" /\ InSetter' = InSetter /\ LeftToSet' = ks
        /\ want' = ks
        /\ discoPC' \in [{Setter, Closer} -> DiscoLabels] /\ cur' = cur
        /\ discoTodo' \in [{Setter, Closer} -> SUBSET Keys]
    BY <1>2 DEF Disco!SetPeers, Disco!Goto, SetterAt, InSetter, LeftToSet, DiscoTypes, DiscoLabels, SetterLabels, CloserLabels
  <2> QED
    BY <1>1, <2>1 DEF DiscoTypes, SetterLabels, KeysOfPeers, SetterKnowsTable, ClosedBeforeOnClose,
       NewPeerInHand, PeersHeld, TableOpen, SettingGoesOn, Wanting, Unwanted, ClosingGoesOn
<1>3. ASSUME NEW k \in Keys, Disco!Found(k) PROVE TableInv'
  <2>1. /\ SetterAt = "add" /\ SetterAt' = "add" /\ InSetter' = InSetter
        /\ peers[k] # 0 /\ LeftToSet' = LeftToSet \ {k}
        /\ UNCHANGED <<want, discoPC, cur>>
        /\ discoTodo' \in [{Setter, Closer} -> SUBSET Keys]
    BY <1>3 DEF Disco!Found, Disco!Leaves, Disco!None, SetterAt, InSetter, LeftToSet, DiscoTypes, DiscoLabels, SetterLabels, CloserLabels
  <2> QED
    BY <1>1, <2>1 DEF DiscoTypes, SetterLabels, KeysOfPeers, SetterKnowsTable, ClosedBeforeOnClose,
       NewPeerInHand, PeersHeld, TableOpen, SettingGoesOn, Wanting, Unwanted, ClosingGoesOn
<1>4. CASE Disco!Check
  <2>1. /\ SetterAt = "check" /\ SetterAt' = (IF discoClosed THEN "closeNil" ELSE "add")
        /\ InSetter' = InSetter /\ LeftToSet' = LeftToSet
        /\ UNCHANGED <<want, discoTodo, cur>>
        /\ discoPC' \in [{Setter, Closer} -> DiscoLabels]
    BY <1>4 DEF Disco!Check, Disco!Goto, SetterAt, InSetter, LeftToSet, DiscoTypes, DiscoLabels, SetterLabels, CloserLabels
  <2>2. SetterAt' = (IF CloserAt # "idle" THEN "closeNil" ELSE "add")
    BY <2>1 DEF ClosedFlag
  <2> QED
    BY <1>1, <2>1, <2>2 DEF DiscoTypes, SetterLabels, KeysOfPeers, SetterKnowsTable, ClosedBeforeOnClose,
       NewPeerInHand, PeersHeld, TableOpen, SettingGoesOn, Wanting, Unwanted, ClosingGoesOn
<1>5. CASE Disco!Added
  <2>1. /\ SetterAt = "add" /\ SetterAt' = "range" /\ InSetter' = InSetter /\ LeftToSet = {}
        /\ \A k \in Keys : peers[k] # 0 => k \in LeftToSet'
        /\ UNCHANGED <<want, cur>>
        /\ discoPC' \in [{Setter, Closer} -> DiscoLabels]
        /\ discoTodo' \in [{Setter, Closer} -> SUBSET Keys]
    BY <1>5 DEF Disco!Added, Disco!StartRange, Disco!Stored, Disco!None, Disco!Goto, SetterAt,
       InSetter, LeftToSet, DiscoTypes, DiscoLabels, SetterLabels, CloserLabels
  <2> QED
    BY <1>1, <2>1 DEF DiscoTypes, SetterLabels, KeysOfPeers, SetterKnowsTable, ClosedBeforeOnClose,
       NewPeerInHand, PeersHeld, TableOpen, SettingGoesOn, Wanting, Unwanted, ClosingGoesOn
<1>6. ASSUME NEW k \in Keys, Disco!Visit(k) PROVE TableInv'
  <2>1. /\ SetterAt = "range" /\ LeftToSet' = LeftToSet \ {k}
        /\ \/ /\ peers[k] = 0 \/ k \in want
              /\ SetterAt' = SetterAt /\ InSetter' = InSetter
           \/ /\ peers[k] # 0 /\ k \notin want
              /\ SetterAt' = "closeUnwanted" /\ InSetter' = peers[k]
        /\ UNCHANGED want
        /\ discoPC' \in [{Setter, Closer} -> DiscoLabels]
        /\ discoTodo' \in [{Setter, Closer} -> SUBSET Keys]
        /\ cur' \in [{Setter, Closer} -> 0..made]
    BY <1>6 DEF Disco!Visit, Disco!Leaves, Disco!Holds, Disco!None, Disco!Goto, SetterAt,
       InSetter, LeftToSet, DiscoTypes, DiscoLabels, SetterLabels, CloserLabels
  <2>2. DiscoTypes'
    BY <1>1, <2>1 DEF DiscoTypes, SetterLabels
  <2>3. CASE peers[k] = 0 \/ k \in want
    BY <1>1, <2>1, <2>2, <2>3 DEF KeysOfPeers, SetterKnowsTable, ClosedBeforeOnClose,
       NewPeerInHand, PeersHeld, TableOpen, SettingGoesOn, Wanting, Unwanted, ClosingGoesOn
  <2>4. CASE peers[k] # 0 /\ k \notin want
    <3>1. /\ SetterAt' = "closeUnwanted" /\ InSetter' = peers[k]
          /\ keyOf[peers[k]] = k /\ peers[k] \notin temporal
      BY <2>1, <2>4 DEF KeysOfPeers, ClosedBeforeOnClose
    <3>2. KeysOfPeers' /\ SetterKnowsTable' /\ ClosedBeforeOnClose' /\ PeersHeld'
      BY <1>1, <2>1, <2>4, <3>1
      DEF KeysOfPeers, SetterKnowsTable, ClosedBeforeOnClose, PeersHeld
    <3>3. NewPeerInHand' /\ TableOpen' /\ ClosingGoesOn'
      BY <1>1, <2>1, <2>4, <3>1 DEF NewPeerInHand, TableOpen, ClosingGoesOn
    <3>4. SettingGoesOn'
      BY <1>1, <2>1, <2>4, <3>1 DEF SettingGoesOn, Unwanted
    <3> QED
      BY <2>2, <3>2, <3>3, <3>4
  <2> QED
    BY <2>3, <2>4
<1>7. CASE Disco!SetPeersReturns
  <2>1. /\ SetterAt = "range" /\ SetterAt' = "idle" /\ InSetter' = InSetter /\ LeftToSet = {}
        /\ LeftToSet' = LeftToSet
        /\ UNCHANGED <<want, cur, discoTodo>>
        /\ discoPC' \in [{Setter, Closer} -> DiscoLabels]
    BY <1>7 DEF Disco!SetPeersReturns, Disco!Goto, SetterAt, InSetter, LeftToSet, DiscoTypes, DiscoLabels, SetterLabels, CloserLabels
  <2> QED
    BY <1>1, <2>1 DEF DiscoTypes, SetterLabels, KeysOfPeers, SetterKnowsTable, ClosedBeforeOnClose,
       NewPeerInHand, PeersHeld, TableOpen, SettingGoesOn, Wanting, Unwanted, ClosingGoesOn
<1> QED
  BY <1>2, <1>3, <1>4, <1>5, <1>6, <1>7

(* A step of the setter on the table or on a peer.                                         *)
LEMMA SetterActs ==
    ASSUME Disco!Assumption, TableInv, ClosedFlag,
           \/ \E k \in Keys : Disco!Make(k)
           \/ Disco!Store \/ Disco!ClearTemporal \/ Disco!ClosePeer(Setter)
           \/ Disco!OnClose(Setter)
    PROVE  TableInv'
<1> USE DEF TableInv, Disco!Assumption
<1>1. want' = want /\ CloserAt' = CloserAt /\ InCloser' = InCloser /\ LeftToClose' = LeftToClose
  BY DEF Disco!Make, Disco!Store, Disco!ClearTemporal, Disco!ClosePeer, Disco!OnClose,
     Disco!Goto, Disco!Holds, Disco!Leaves, Disco!Return, CloserAt, InCloser, LeftToClose,
     DiscoTypes
<1>2. ASSUME NEW k \in Keys, Disco!Make(k) PROVE TableInv'
  <2>1. /\ SetterAt = "add" /\ SetterAt' = "store" /\ InSetter' = made + 1
        /\ k \in LeftToSet /\ LeftToSet' = LeftToSet \ {k}
        /\ peers[k] = 0 /\ peers' = peers
        /\ made < MaxPeers /\ made' = made + 1
        /\ keyOf' = [keyOf EXCEPT ![made + 1] = k]
        /\ open' = open \cup {made + 1} /\ temporal' = temporal \cup {made + 1}
    BY <1>2 DEF Disco!Make, Disco!Holds, Disco!Leaves, Disco!Goto, Disco!None, SetterAt,
       InSetter, LeftToSet, DiscoTypes
  <2>2. made + 1 \in 1..MaxPeers /\ made \in 0..(made + 1)
    BY <2>1 DEF DiscoTypes
  <2>3. DiscoTypes'
    <3>1. /\ discoPC' \in [{Setter, Closer} -> DiscoLabels]
          /\ discoTodo' \in [{Setter, Closer} -> SUBSET Keys]
          /\ cur' \in [{Setter, Closer} -> 0..(made + 1)]
      BY <1>2, <2>1, <2>2 DEF Disco!Make, Disco!Holds, Disco!Leaves, Disco!Goto, DiscoTypes,
         DiscoLabels, SetterLabels
    <3> QED
      BY <1>1, <2>1, <2>2, <3>1 DEF DiscoTypes, SetterLabels
  <2>4. /\ \A i \in 0..made : i # 0 => keyOf'[i] = keyOf[i]
        /\ keyOf'[made + 1] = k
    BY <2>1, <2>2 DEF DiscoTypes
  <2>5. made + 1 \notin 0..made /\ InCloser \in 0..made /\ open \subseteq 1..made
        /\ \A l \in Keys : peers[l] \in 0..made
    BY <2>1 DEF DiscoTypes, InCloser
  <2>6. KeysOfPeers' /\ SetterKnowsTable' /\ ClosedBeforeOnClose'
    BY <1>1, <2>1, <2>2, <2>4, <2>5 DEF KeysOfPeers, SetterKnowsTable, ClosedBeforeOnClose
  <2>7. NewPeerInHand' /\ PeersHeld'
    BY <1>1, <2>1, <2>2, <2>4, <2>5 DEF KeysOfPeers, NewPeerInHand, PeersHeld, DiscoTypes
  <2>8. TableOpen' /\ SettingGoesOn' /\ ClosingGoesOn'
    BY <1>1, <2>1, <2>2, <2>4, <2>5
    DEF KeysOfPeers, TableOpen, SettingGoesOn, Wanting, Unwanted, ClosingGoesOn
  <2> QED
    BY <2>3, <2>6, <2>7, <2>8
<1>3. CASE Disco!Store
  <2> DEFINE k == keyOf[InSetter]
  <2>1. /\ SetterAt = "store" /\ InSetter' = InSetter /\ LeftToSet' = LeftToSet
        /\ \/ /\ peers[k] = 0 /\ peers' = [peers EXCEPT ![k] = InSetter]
              /\ SetterAt' = "stored" /\ open' = open
           \/ /\ peers[k] # 0 /\ peers' = peers
              /\ SetterAt' = "add" /\ open' = open \ {InSetter}
        /\ UNCHANGED <<keyOf, made, temporal>>
    BY <1>3 DEF Disco!Store, Disco!Goto, Disco!None, SetterAt, InSetter, LeftToSet, DiscoTypes
  <2>2. InSetter \in 1..made /\ InSetter \in 1..MaxPeers /\ k \in Keys
    BY <2>1 DEF DiscoTypes, KeysOfPeers, InSetter
  <2> HIDE DEF k
  <2>3. DiscoTypes'
    <3>1. /\ discoPC' \in [{Setter, Closer} -> DiscoLabels]
          /\ UNCHANGED <<discoTodo, cur>>
      BY <1>3 DEF Disco!Store, Disco!Goto, DiscoTypes, DiscoLabels, SetterLabels
    <3>2. InSetter \in 0..MaxPeers /\ InSetter \in 0..made
      BY <2>2 DEF DiscoTypes
    <3>3. peers' \in [Keys -> 0..MaxPeers]
      BY <2>1, <3>2 DEF DiscoTypes
    <3>4. \A l \in Keys : peers'[l] \in 0..made
      BY <2>1, <2>2, <3>2 DEF DiscoTypes
    <3>5. SetterAt' \in SetterLabels
      BY <2>1 DEF SetterLabels
    <3> QED
      BY <1>1, <2>1, <2>2, <3>1, <3>3, <3>4, <3>5 DEF DiscoTypes
  <2>4. CASE peers[k] = 0
    <3>1. peers' = [peers EXCEPT ![k] = InSetter] /\ SetterAt' = "stored" /\ open' = open
      BY <2>1, <2>4
    <3>2. peers'[k] = InSetter /\ \A l \in Keys : l # k => peers'[l] = peers[l]
      BY <2>2, <3>1 DEF DiscoTypes
    <3>3. k = keyOf[InSetter]
      BY DEF k
    <3> USE <1>1, <2>1, <2>2, <2>4, <3>1, <3>2, <3>3
    <3>4. KeysOfPeers' /\ SetterKnowsTable' /\ ClosedBeforeOnClose'
      BY DEF KeysOfPeers, SetterKnowsTable, ClosedBeforeOnClose
    <3>5. NewPeerInHand'
      BY DEF NewPeerInHand, KeysOfPeers, DiscoTypes, InCloser
    <3>6. PeersHeld'
      BY DEF PeersHeld, DiscoTypes
    <3>7. TableOpen'
      BY DEF TableOpen, PeersHeld, SetterKnowsTable
    <3>8. SettingGoesOn' /\ ClosingGoesOn'
      BY DEF SettingGoesOn, Wanting, ClosingGoesOn, DiscoTypes
    <3> QED
      BY <2>3, <3>4, <3>5, <3>6, <3>7, <3>8
  <2>5. CASE peers[k] # 0
    <3>1. peers' = peers /\ SetterAt' = "add" /\ open' = open \ {InSetter}
      BY <2>1, <2>5
    <3>3. k = keyOf[InSetter]
      BY DEF k
    <3> USE <1>1, <2>1, <2>2, <2>5, <3>1, <3>3
    <3>4. KeysOfPeers' /\ SetterKnowsTable' /\ ClosedBeforeOnClose'
      BY DEF KeysOfPeers, SetterKnowsTable, ClosedBeforeOnClose
    <3>5. NewPeerInHand' /\ PeersHeld'
      BY DEF NewPeerInHand, PeersHeld
    <3>7. TableOpen'
      BY DEF TableOpen, SetterKnowsTable
    <3>8. SettingGoesOn' /\ ClosingGoesOn'
      BY DEF SettingGoesOn, Wanting, ClosingGoesOn, DiscoTypes
    <3> QED
      BY <2>3, <3>4, <3>5, <3>7, <3>8
  <2> QED
    BY <2>4, <2>5
<1>4. CASE Disco!ClearTemporal
  <2>1. /\ SetterAt = "stored" /\ SetterAt' = "check" /\ InSetter' = InSetter
        /\ LeftToSet' = LeftToSet /\ temporal' = temporal \ {InSetter}
        /\ UNCHANGED <<peers, keyOf, made, open, discoTodo, cur>>
        /\ discoPC' \in [{Setter, Closer} -> DiscoLabels]
    BY <1>4 DEF Disco!ClearTemporal, Disco!Goto, SetterAt, InSetter, LeftToSet, DiscoTypes,
       DiscoLabels, SetterLabels
  <2> QED
    BY <1>1, <2>1 DEF DiscoTypes, SetterLabels, KeysOfPeers, SetterKnowsTable,
       ClosedBeforeOnClose, NewPeerInHand, PeersHeld, TableOpen, SettingGoesOn, Wanting,
       Unwanted, ClosingGoesOn
<1>5. CASE Disco!ClosePeer(Setter)
  <2>1. /\ SetterAt \in {"closeNil", "closeUnwanted"}
        /\ InSetter' = InSetter /\ LeftToSet' = LeftToSet
        /\ SetterAt' = IF InSetter \in open
                       THEN IF SetterAt = "closeNil" THEN "onCloseNil" ELSE "onCloseUnwanted"
                       ELSE IF SetterAt = "closeNil" THEN "nil" ELSE "range"
        /\ open' = open \ {InSetter}
        /\ UNCHANGED <<peers, keyOf, made, temporal, discoTodo, cur>>
        /\ discoPC' \in [{Setter, Closer} -> DiscoLabels]
    BY <1>5 DEF Disco!ClosePeer, Disco!Closing, Disco!Return, Disco!Goto, SetterAt, InSetter,
       LeftToSet, DiscoTypes, DiscoLabels, SetterLabels
  <2>2. DiscoTypes' /\ KeysOfPeers' /\ SetterKnowsTable' /\ ClosedBeforeOnClose'
    BY <1>1, <2>1 DEF DiscoTypes, SetterLabels, KeysOfPeers, SetterKnowsTable,
       ClosedBeforeOnClose
  <2>3. NewPeerInHand' /\ PeersHeld'
    BY <1>1, <2>1 DEF NewPeerInHand, PeersHeld
  <2>4. CloserAt = "idle" => SetterAt = "closeUnwanted" /\ peers[keyOf[InSetter]] = InSetter
                             /\ InSetter \in open /\ SetterAt' = "onCloseUnwanted"
    BY <2>1 DEF SetterKnowsTable, TableOpen, KeysOfPeers, DiscoTypes, InSetter
  <2>5. TableOpen' /\ SettingGoesOn'
    BY <1>1, <2>1, <2>4 DEF TableOpen, SettingGoesOn, Wanting, Unwanted, KeysOfPeers
  <2>6. ClosingGoesOn'
    BY <1>1, <2>1 DEF ClosingGoesOn
  <2> QED
    BY <2>2, <2>3, <2>5, <2>6
<1>6. CASE Disco!OnClose(Setter)
  <2> DEFINE k == keyOf[InSetter]
  <2>1. /\ SetterAt \in {"onCloseNil", "onCloseUnwanted"}
        /\ InSetter' = InSetter /\ LeftToSet' = LeftToSet
        /\ SetterAt' = IF SetterAt = "onCloseNil" THEN "nil" ELSE "range"
        /\ peers' = IF InSetter \in temporal THEN peers ELSE [peers EXCEPT ![k] = 0]
        /\ UNCHANGED <<open, keyOf, made, temporal, discoTodo, cur>>
        /\ discoPC' \in [{Setter, Closer} -> DiscoLabels]
    BY <1>6 DEF Disco!OnClose, Disco!Return, Disco!Goto, Disco!None, SetterAt, InSetter,
       LeftToSet, DiscoTypes, DiscoLabels, SetterLabels
  <2>2. /\ peers' = [peers EXCEPT ![k] = 0] /\ k \in Keys /\ InSetter \in 1..MaxPeers
        /\ k = keyOf[InSetter] /\ InSetter \notin open /\ peers[k] \in {0, InSetter}
    BY <2>1 DEF ClosedBeforeOnClose, KeysOfPeers, DiscoTypes, InSetter, SetterKnowsTable
  <2> HIDE DEF k
  <2>3. peers'[k] = 0 /\ \A l \in Keys : l # k => peers'[l] = peers[l]
    BY <2>2 DEF DiscoTypes
  <2>4. DiscoTypes' /\ KeysOfPeers' /\ SetterKnowsTable' /\ ClosedBeforeOnClose'
    BY <1>1, <2>1, <2>2, <2>3 DEF DiscoTypes, SetterLabels, KeysOfPeers, SetterKnowsTable,
       ClosedBeforeOnClose
  <2>5. PeersHeld'
    BY <1>1, <2>1, <2>2, <2>3 DEF PeersHeld, DiscoTypes
  <2>6. NewPeerInHand'
    BY <1>1, <2>1, <2>2, <2>3 DEF NewPeerInHand, KeysOfPeers, DiscoTypes, InCloser
  <2>7. TableOpen' /\ SettingGoesOn'
    BY <1>1, <2>1, <2>2, <2>3
    DEF TableOpen, SettingGoesOn, Wanting, Unwanted, KeysOfPeers, SetterKnowsTable, DiscoTypes
  <2>8. ClosingGoesOn'
    BY <1>1, <2>1, <2>2, <2>3 DEF ClosingGoesOn
  <2> QED
    BY <2>4, <2>5, <2>6, <2>7, <2>8
<1> QED
  BY <1>2, <1>3, <1>4, <1>5, <1>6

(* A step of the closer.                                                                   *)
LEMMA CloserActs ==
    ASSUME Disco!Assumption, TableInv, ClosedFlag,
           \/ Disco!Close \/ Disco!Delete \/ Disco!CloseReturns
           \/ \E k \in Keys : Disco!VisitAll(k)
           \/ Disco!ClosePeer(Closer) \/ Disco!OnClose(Closer)
    PROVE  TableInv'
<1> USE DEF TableInv, Disco!Assumption, Disco!table
<1>1. /\ want' = want /\ SetterAt' = SetterAt /\ InSetter' = InSetter /\ LeftToSet' = LeftToSet
      /\ UNCHANGED <<keyOf, made, temporal>>
  BY DEF Disco!Close, Disco!Delete, Disco!CloseReturns, Disco!VisitAll, Disco!ClosePeer,
     Disco!OnClose, Disco!Goto, Disco!Holds, Disco!Leaves, Disco!StartRange, Disco!Return,
     SetterAt, InSetter, LeftToSet, DiscoTypes
<1>2. CASE Disco!Close
  <2>1. /\ CloserAt = "idle" /\ CloserAt' = "rangeAll" /\ InCloser' = InCloser
        /\ \A k \in Keys : peers[k] # 0 => k \in LeftToClose'
        /\ UNCHANGED <<peers, open, cur>>
        /\ discoPC' \in [{Setter, Closer} -> DiscoLabels]
        /\ discoTodo' \in [{Setter, Closer} -> SUBSET Keys]
    BY <1>2 DEF Disco!Close, Disco!StartRange, Disco!Goto, Disco!Stored, Disco!None, CloserAt,
       InCloser, LeftToClose, DiscoTypes, DiscoLabels, CloserLabels
  <2> QED
    BY <1>1, <2>1 DEF DiscoTypes, CloserLabels, KeysOfPeers, SetterKnowsTable,
       ClosedBeforeOnClose, NewPeerInHand, PeersHeld, TableOpen, SettingGoesOn, ClosingGoesOn
<1>3. ASSUME NEW k \in Keys, Disco!VisitAll(k) PROVE TableInv'
  <2>1. /\ CloserAt = "rangeAll" /\ LeftToClose' = LeftToClose \ {k}
        /\ \/ peers[k] = 0 /\ CloserAt' = CloserAt /\ InCloser' = InCloser
           \/ peers[k] # 0 /\ CloserAt' = "delete" /\ InCloser' = peers[k]
        /\ UNCHANGED <<peers, open>>
        /\ discoPC' \in [{Setter, Closer} -> DiscoLabels]
        /\ discoTodo' \in [{Setter, Closer} -> SUBSET Keys]
        /\ cur' \in [{Setter, Closer} -> 0..made]
    BY <1>3 DEF Disco!VisitAll, Disco!Leaves, Disco!Holds, Disco!Goto, Disco!None, CloserAt,
       InCloser, LeftToClose, DiscoTypes, DiscoLabels, CloserLabels
  <2>2. peers[k] # 0 => keyOf[peers[k]] = k
    BY DEF KeysOfPeers
  <2>3. DiscoTypes' /\ KeysOfPeers' /\ SetterKnowsTable' /\ ClosedBeforeOnClose' /\ PeersHeld'
    BY <1>1, <2>1, <2>2 DEF DiscoTypes, CloserLabels, KeysOfPeers, SetterKnowsTable,
       ClosedBeforeOnClose, PeersHeld
  <2>4. NewPeerInHand' /\ TableOpen' /\ SettingGoesOn'
    BY <1>1, <2>1, <2>2 DEF NewPeerInHand, TableOpen, SettingGoesOn
  <2>5. ClosingGoesOn'
    BY <1>1, <2>1, <2>2 DEF ClosingGoesOn
  <2> QED
    BY <2>3, <2>4, <2>5
<1>4. CASE Disco!Delete
  <2> DEFINE k == keyOf[InCloser]
  <2>1. /\ CloserAt = "delete" /\ CloserAt' = "closeAll" /\ InCloser' = InCloser
        /\ peers' = [peers EXCEPT ![k] = 0] /\ LeftToClose' = LeftToClose
        /\ UNCHANGED <<open, discoTodo, cur>>
        /\ discoPC' \in [{Setter, Closer} -> DiscoLabels]
    BY <1>4 DEF Disco!Delete, Disco!Goto, Disco!None, CloserAt, InCloser, LeftToClose,
       DiscoTypes, DiscoLabels, CloserLabels
  <2>2. InCloser \in 1..MaxPeers /\ k \in Keys /\ k = keyOf[InCloser]
    BY <2>1 DEF DiscoTypes, KeysOfPeers, InCloser
  <2> HIDE DEF k
  <2>3. peers'[k] = 0 /\ \A l \in Keys : l # k => peers'[l] = peers[l]
    BY <2>1, <2>2 DEF DiscoTypes
  <2>4. DiscoTypes' /\ KeysOfPeers' /\ SetterKnowsTable' /\ ClosedBeforeOnClose'
    BY <1>1, <2>1, <2>2, <2>3 DEF DiscoTypes, CloserLabels, KeysOfPeers, SetterKnowsTable,
       ClosedBeforeOnClose
  <2>5. PeersHeld' /\ NewPeerInHand'
    BY <1>1, <2>1, <2>2, <2>3 DEF PeersHeld, NewPeerInHand, DiscoTypes
  <2>6. TableOpen' /\ SettingGoesOn' /\ ClosingGoesOn'
    BY <1>1, <2>1, <2>2, <2>3 DEF TableOpen, SettingGoesOn, ClosingGoesOn
  <2> QED
    BY <2>4, <2>5, <2>6
<1>5. CASE Disco!CloseReturns
  <2>1. /\ CloserAt = "rangeAll" /\ CloserAt' = "done" /\ InCloser' = InCloser
        /\ LeftToClose = {} /\ LeftToClose' = LeftToClose
        /\ UNCHANGED <<peers, open, cur, discoTodo>>
        /\ discoPC' \in [{Setter, Closer} -> DiscoLabels]
    BY <1>5 DEF Disco!CloseReturns, Disco!Goto, CloserAt, InCloser, LeftToClose, DiscoTypes,
       DiscoLabels, CloserLabels
  <2> QED
    BY <1>1, <2>1 DEF DiscoTypes, CloserLabels, KeysOfPeers, SetterKnowsTable,
       ClosedBeforeOnClose, NewPeerInHand, PeersHeld, TableOpen, SettingGoesOn, ClosingGoesOn
<1>6. CASE Disco!ClosePeer(Closer)
  <2>1. /\ CloserAt = "closeAll" /\ CloserAt' = IF InCloser \in open THEN "onCloseAll" ELSE "rangeAll"
        /\ InCloser' = InCloser /\ LeftToClose' = LeftToClose
        /\ open' = open \ {InCloser}
        /\ UNCHANGED <<peers, cur, discoTodo>>
        /\ discoPC' \in [{Setter, Closer} -> DiscoLabels]
    BY <1>6 DEF Disco!ClosePeer, Disco!Closing, Disco!Return, Disco!Goto, CloserAt, InCloser,
       LeftToClose, DiscoTypes, DiscoLabels, CloserLabels
  <2>2. DiscoTypes' /\ KeysOfPeers' /\ SetterKnowsTable' /\ ClosedBeforeOnClose'
    BY <1>1, <2>1 DEF DiscoTypes, CloserLabels, KeysOfPeers, SetterKnowsTable,
       ClosedBeforeOnClose
  <2>3. NewPeerInHand' /\ PeersHeld' /\ TableOpen' /\ SettingGoesOn' /\ ClosingGoesOn'
    BY <1>1, <2>1 DEF NewPeerInHand, PeersHeld, TableOpen, SettingGoesOn, ClosingGoesOn
  <2> QED
    BY <2>2, <2>3
<1>7. CASE Disco!OnClose(Closer)
  <2> DEFINE k == keyOf[InCloser]
  <2>1. /\ CloserAt = "onCloseAll" /\ CloserAt' = "rangeAll" /\ InCloser' = InCloser
        /\ peers' = IF InCloser \in temporal THEN peers ELSE [peers EXCEPT ![k] = 0]
        /\ LeftToClose' = LeftToClose
        /\ UNCHANGED <<open, discoTodo, cur>>
        /\ discoPC' \in [{Setter, Closer} -> DiscoLabels]
    BY <1>7 DEF Disco!OnClose, Disco!Return, Disco!Goto, Disco!None, CloserAt, InCloser,
       LeftToClose, DiscoTypes, DiscoLabels, CloserLabels
  <2>2. InCloser \in 1..MaxPeers /\ k \in Keys /\ k = keyOf[InCloser] /\ InCloser \notin open
    BY <2>1 DEF DiscoTypes, KeysOfPeers, InCloser, ClosedBeforeOnClose
  <2> HIDE DEF k
  <2>3. \A l \in Keys : peers'[l] = peers[l] \/ (l = k /\ peers'[l] = 0)
    BY <2>1, <2>2 DEF DiscoTypes
  <2>4. DiscoTypes' /\ KeysOfPeers' /\ SetterKnowsTable' /\ ClosedBeforeOnClose'
    <3>1. /\ peers' \in [Keys -> 0..MaxPeers] /\ \A l \in Keys : peers'[l] \in 0..made
          /\ CloserAt' \in CloserLabels
      BY <2>1, <2>2 DEF DiscoTypes, CloserLabels
    <3>2. keyOf[InSetter] \in Keys \/ InSetter = 0
      BY DEF DiscoTypes, InSetter
    <3>3. DiscoTypes' /\ KeysOfPeers'
      BY <1>1, <2>1, <2>3, <3>1 DEF DiscoTypes, KeysOfPeers
    <3>4. SetterKnowsTable' /\ ClosedBeforeOnClose'
      BY <1>1, <2>1, <2>3, <3>2 DEF SetterKnowsTable, ClosedBeforeOnClose, KeysOfPeers,
         DiscoTypes
    <3> QED
      BY <3>3, <3>4
  <2>5. PeersHeld'
    BY <1>1, <2>1, <2>2, <2>3 DEF PeersHeld, NewPeerInHand, DiscoTypes
  <2>6. NewPeerInHand' /\ TableOpen' /\ SettingGoesOn' /\ ClosingGoesOn'
    BY <1>1, <2>1, <2>3 DEF NewPeerInHand, TableOpen, SettingGoesOn, ClosingGoesOn
  <2> QED
    BY <2>4, <2>5, <2>6
<1> QED
  BY <1>2, <1>3, <1>4, <1>5, <1>6, <1>7

(* The flags: disco is closed once the closer has started.                                *)
LEMMA FlagsKept ==
    ASSUME Disco!Assumption, DiscoTypes, ClosedFlag, PanickedFlag, [Disco!Next]_(Disco!vars)
    PROVE  ClosedFlag' /\ PanickedFlag'
<1>1. CASE Disco!Close
  <2>1. CloserAt' = "rangeAll"
    BY <1>1 DEF Disco!Close, Disco!StartRange, Disco!Goto, CloserAt, DiscoTypes
  <2>2. discoClosed' /\ discoClosed' \in BOOLEAN /\ UNCHANGED discoPanicked
    BY <1>1, Zenon DEF Disco!Close
  <2> QED
    BY <2>1, <2>2 DEF ClosedFlag, PanickedFlag
<1>2. CASE Disco!UseNil
  <2>1. CloserAt' = CloserAt /\ UNCHANGED discoClosed
    BY <1>2 DEF Disco!UseNil, Disco!table, CloserAt
  <2>2. discoPanicked' \in BOOLEAN
    BY <1>2, Zenon DEF Disco!UseNil
  <2> QED
    BY <2>1, <2>2 DEF ClosedFlag, PanickedFlag
<1>3. ASSUME UNCHANGED <<discoClosed, discoPanicked>>, CloserAt = "idle" <=> CloserAt' = "idle"
      PROVE  ClosedFlag' /\ PanickedFlag'
  BY <1>3 DEF ClosedFlag, PanickedFlag
<1>4. CASE UNCHANGED Disco!vars
  BY <1>3, <1>4 DEF Disco!vars, CloserAt
<1>5. ASSUME NEW k \in Keys,
             Disco!Found(k) \/ Disco!Make(k) \/ Disco!Visit(k) \/ Disco!VisitAll(k)
      PROVE  ClosedFlag' /\ PanickedFlag'
  BY <1>3, <1>5 DEF Disco!Found, Disco!Make, Disco!Visit, Disco!VisitAll, Disco!Goto,
     Disco!table, Disco!Assumption, CloserAt, DiscoTypes
<1>6. CASE \/ Disco!Store \/ Disco!ClearTemporal \/ Disco!Check \/ Disco!Added
           \/ Disco!SetPeersReturns \/ Disco!Delete \/ Disco!CloseReturns
           \/ \E ks \in SUBSET Keys : Disco!SetPeers(ks)
  BY <1>3, <1>6 DEF Disco!Store, Disco!ClearTemporal, Disco!Check, Disco!Added,
     Disco!SetPeersReturns, Disco!Delete, Disco!CloseReturns, Disco!SetPeers, Disco!Goto,
     Disco!StartRange, Disco!table, Disco!Assumption, CloserAt, DiscoTypes
<1>7. ASSUME NEW t \in {Setter, Closer}, Disco!ClosePeer(t) \/ Disco!OnClose(t)
      PROVE  ClosedFlag' /\ PanickedFlag'
  <2>1. UNCHANGED <<discoClosed, discoPanicked>>
    BY <1>7 DEF Disco!ClosePeer, Disco!OnClose
  <2>2. CloserAt = "idle" <=> CloserAt' = "idle"
    BY <1>7 DEF Disco!ClosePeer, Disco!OnClose, Disco!Closing, Disco!Return, Disco!Goto,
       Disco!Assumption, CloserAt, DiscoTypes
  <2> QED
    BY <1>3, <2>1, <2>2
<1> QED
  BY <1>1, <1>2, <1>4, <1>5, <1>6, <1>7 DEF Disco!Next, Disco!Threads

(* What PeersKept says of the table when the calls have returned.                         *)
LEMMA InvMeansKept ==
    ASSUME Disco!Assumption, TableInv, ClosedFlag, PanickedFlag
    PROVE  PeersKept
<1> USE DEF TableInv, Disco!Assumption
<1>1. Disco!TypeOK
  <2>1. /\ peers \in [Keys -> Disco!Peers \cup {Disco!None}] /\ keyOf \in [Disco!Peers -> Keys]
        /\ made \in 0..MaxPeers /\ open \in SUBSET (1..made) /\ temporal \in SUBSET (1..made)
        /\ want \in SUBSET Keys
    BY DEF DiscoTypes, Disco!Peers, Disco!None
  <2>2. discoPC \in [Disco!Threads -> {"idle", "add", "store", "stored", "check", "range",
                         "nil", "closeNil", "closeUnwanted", "closeAll", "onCloseNil",
                         "onCloseUnwanted", "onCloseAll", "rangeAll", "delete", "done"}]
    BY DEF DiscoTypes, DiscoLabels, SetterLabels, CloserLabels, Disco!Threads
  <2>3. /\ discoTodo \in [Disco!Threads -> SUBSET Keys]
        /\ cur \in [Disco!Threads -> Disco!Peers \cup {Disco!None}]
    BY DEF DiscoTypes, Disco!Threads, Disco!Peers, Disco!None
  <2> QED
    BY <2>1, <2>2, <2>3 DEF PanickedFlag, Disco!TypeOK
<1>2. Disco!NoLostPeer
  BY DEF PeersHeld, Disco!NoLostPeer, SetterAt, CloserAt, InSetter, InCloser
<1>3. Disco!Stored = {k \in Keys : peers[k] # 0}
  BY DEF Disco!Stored, Disco!None
<1>4. Disco!TableIsWanted
  <2> SUFFICES ASSUME CloserAt = "idle", SetterAt = "idle"
               PROVE  /\ Disco!Stored = want
                      /\ \A k \in Disco!Stored : peers[k] \in open
    BY DEF Disco!TableIsWanted, ClosedFlag, SetterAt
  <2> QED
    BY <1>3 DEF SettingGoesOn, TableOpen, DiscoTypes
<1>5. Disco!ClosedMeansEmpty
  <2> SUFFICES ASSUME CloserAt = "done", SetterAt = "idle" PROVE open = {} /\ Disco!Stored = {}
    BY DEF Disco!ClosedMeansEmpty, SetterAt, CloserAt
  <2>1. \A k \in Keys : peers[k] = 0
    BY DEF ClosingGoesOn
  <2>2. \A p \in open : p # 0 /\ keyOf[p] \in Keys
    BY DEF DiscoTypes
  <2> QED
    BY <1>3, <2>1, <2>2 DEF PeersHeld
<1> QED
  BY <1>1, <1>2, <1>4, <1>5 DEF PeersKept

(* No peer whose goroutines run is lost, between calls the table of an open disco is what  *)
(* was asked for, and Close leaves nothing behind, for any keys and number of peers made    *)
(* (disco.go:88-141, 155-187).                                                             *)
THEOREM PeersAreKept == Disco!Spec => []PeersKept
<1> USE NodeAssumption DEF NodeAssumption
<1>1. Disco!Init => TableInv /\ ClosedFlag /\ PanickedFlag
  <2> SUFFICES ASSUME Disco!Init PROVE TableInv /\ ClosedFlag /\ PanickedFlag
    OBVIOUS
  <2>1. ~discoClosed /\ PanickedFlag
    BY Zenon DEF Disco!Init, PanickedFlag
  <2>2. SetterAt = "idle" /\ CloserAt = "idle" /\ InSetter = 0 /\ InCloser = 0
    BY DEF Disco!Init, SetterAt, CloserAt, InSetter, InCloser, Disco!Threads, Disco!None
  <2>3. \A k \in Keys : peers[k] = 0
    BY DEF Disco!Init, Disco!None
  <2>4. DiscoTypes
    <3>1. \E k \in Keys : TRUE
      BY DEF Disco!Assumption
    <3>2. (CHOOSE k \in Keys : TRUE) \in Keys
      BY <3>1
    <3> QED
      BY <2>2, <2>3, <3>2 DEF Disco!Init, DiscoTypes, DiscoLabels, SetterLabels, CloserLabels,
         Disco!Threads, Disco!None, Disco!Peers, Disco!Assumption
  <2>5. KeysOfPeers /\ SetterKnowsTable /\ ClosedBeforeOnClose /\ NewPeerInHand /\ PeersHeld
    BY <2>2, <2>3 DEF Disco!Init, KeysOfPeers, SetterKnowsTable, ClosedBeforeOnClose,
       NewPeerInHand, PeersHeld
  <2>6. TableOpen /\ SettingGoesOn /\ ClosingGoesOn
    BY <2>2, <2>3 DEF Disco!Init, TableOpen, SettingGoesOn, ClosingGoesOn
  <2> QED
    BY <2>1, <2>2, <2>4, <2>5, <2>6 DEF TableInv, ClosedFlag
<1>2. TableInv /\ ClosedFlag /\ PanickedFlag /\ [Disco!Next]_(Disco!vars)
        => TableInv' /\ ClosedFlag' /\ PanickedFlag'
  <2> SUFFICES ASSUME TableInv, ClosedFlag, PanickedFlag, [Disco!Next]_(Disco!vars)
               PROVE  TableInv' /\ ClosedFlag' /\ PanickedFlag'
    OBVIOUS
  <2>1. ClosedFlag' /\ PanickedFlag'
    BY FlagsKept DEF TableInv
  <2>2. ASSUME UNCHANGED <<peers, keyOf, made, open, temporal, want, discoPC, discoTodo, cur>>
        PROVE  TableInv'
    <3>1. UNCHANGED goroutines
      BY <2>2 DEF goroutines, SetterAt, CloserAt, InSetter, InCloser, LeftToSet, LeftToClose
    <3> QED
      BY <2>2, <3>1 DEF goroutines, TableInv, DiscoTypes, KeysOfPeers, SetterKnowsTable,
         ClosedBeforeOnClose, NewPeerInHand, PeersHeld, TableOpen, SettingGoesOn, Wanting,
         Unwanted, ClosingGoesOn
  <2>3. CASE Disco!UseNil
    <3>1. UNCHANGED <<Disco!table, want, discoPC, discoTodo, cur>>
      BY <2>3, Zenon DEF Disco!UseNil
    <3> QED
      BY <2>1, <2>2, <3>1 DEF Disco!table
  <2>4. CASE UNCHANGED Disco!vars
    BY <2>1, <2>2, <2>4 DEF Disco!vars
  <2> QED
    BY <2>1, <2>3, <2>4, SetterLooks, SetterActs, CloserActs DEF Disco!Next, Disco!Threads
<1>3. TableInv /\ ClosedFlag /\ PanickedFlag => PeersKept
  BY InvMeansKept
<1> QED
  BY <1>1, <1>2, <1>3, PTL DEF Disco!Spec
-----------------------------------------------------------------------------
(* The endpoints of a peer *)

Threads == Closers \cup {Setter}
Endpoint(i, adr) == [id |-> i, addr |-> adr]
SetterLabelsOfPeer == {"idle", "loop", "store", "remove", "removeTake", "closeAll", "closeAllTake"}
CloserLabelsOfPeer == {"idle", "closeAll", "closeAllTake", "done"}
PeerLabels == SetterLabelsOfPeer \cup CloserLabelsOfPeer

PeerTypes ==
    /\ endpointIDCounter \in 0..MaxId
    /\ endpointToEndpointID \in [Addrs -> 0..MaxId]
    /\ endpoints \in [1..MaxId -> Addrs \cup {NoAddr}]
    /\ openEndpoints \subseteq [id : 1..MaxId, addr : Addrs]
    /\ pc \in [Threads -> PeerLabels]
    /\ pc[Setter] \in SetterLabelsOfPeer /\ \A c \in Closers : pc[c] \in CloserLabelsOfPeer
    /\ todo \in [Threads -> SUBSET (1..MaxId)] /\ taking \in [Threads -> 1..MaxId]
    /\ target \subseteq Addrs /\ addrs \subseteq Addrs
    /\ id \in 1..MaxId /\ pe \in [id : 1..MaxId, addr : Addrs \cup {NoAddr}]

\* No endpoint is stored under an id that is still to be used.
IdsAreFresh ==
    /\ \A i \in 1..MaxId : endpoints[i] # NoAddr => i <= endpointIDCounter
    /\ pc[Setter] \in {"loop", "store"} => id = endpointIDCounter /\ endpoints[id] = NoAddr
    /\ pc[Setter] = "store" => /\ pe.id < id /\ endpoints[pe.id] = NoAddr
                               /\ pe \in openEndpoints

\* What is stored is open, and what is open is stored or about to be.
StoredIsOpen ==
    /\ \A i \in 1..MaxId : endpoints[i] # NoAddr => Endpoint(i, endpoints[i]) \in openEndpoints
    /\ \A e \in openEndpoints :
           endpoints[e.id] = e.addr \/ (pc[Setter] = "store" /\ e = pe)

\* After Close some goroutine will come to every endpoint that is stored.
WillTake(t, i) ==
    \/ pc[t] \in {"closeAll", "closeAllTake"} /\ i \in todo[t]
    \/ pc[t] = "closeAllTake" /\ taking[t] = i
CloseCovers ==
    peerClosed => \/ pc[Setter] \in {"loop", "store"}
                  \/ \A i \in 1..MaxId : endpoints[i] # NoAddr => \E t \in Threads : WillTake(t, i)

\* Until Close only the setter acts; the maps agree but for the endpoint in its hands, and
\* it has left what it has to make, and then what it has to remove.
AloneUntilClose ==
    /\ \A c \in Closers : pc[c] = "idle"
    /\ pc[Setter] \notin {"closeAll", "closeAllTake"}
MapsMatch ==
    /\ \A adr \in Addrs : endpointToEndpointID[adr] # 0 =>
           \/ endpoints[endpointToEndpointID[adr]] = adr
           \/ pc[Setter] = "store" /\ pe = Endpoint(endpointToEndpointID[adr], adr)
    /\ \A i \in 1..MaxId : endpoints[i] # NoAddr =>
           \/ endpointToEndpointID[endpoints[i]] = i
           \/ pc[Setter] = "removeTake" /\ taking[Setter] = i
EndpointsGoOn ==
    /\ pc[Setter] \in {"loop", "store"} =>
           addrs \subseteq target /\ \A adr \in target \ addrs : endpointToEndpointID[adr] # 0
    /\ pc[Setter] = "store" => endpointToEndpointID[pe.addr] = pe.id
    /\ pc[Setter] \in {"remove", "removeTake", "idle"} =>
           \A adr \in target : endpointToEndpointID[adr] # 0
    /\ pc[Setter] \in {"remove", "removeTake"} =>
           \A i \in 1..MaxId : endpoints[i] # NoAddr =>
               \/ endpoints[i] \in target \/ i \in todo[Setter]
               \/ pc[Setter] = "removeTake" /\ taking[Setter] = i
    /\ pc[Setter] = "removeTake" => /\ endpoints[taking[Setter]] \in Addrs \ target
                                   /\ endpointToEndpointID[endpoints[taking[Setter]]] = 0
    /\ pc[Setter] = "idle" => \A i \in 1..MaxId : endpoints[i] # NoAddr => endpoints[i] \in target
BeforeClose == peerClosed \/ (AloneUntilClose /\ MapsMatch /\ EndpointsGoOn)

EndpointsInv ==
    PeerTypes /\ IdsAreFresh /\ StoredIsOpen /\ CloseCovers /\ BeforeClose

(* A step of SetEndpoints until its Range.                                                 *)
LEMMA SetEndpointsKeepsInv ==
    ASSUME DiscoPeer!Assumption, EndpointsInv,
           \/ \E eps \in SUBSET Addrs : DiscoPeer!SetEndpoints(eps)
           \/ \E adr \in Addrs : DiscoPeer!Loaded(adr) \/ DiscoPeer!Create(adr)
           \/ DiscoPeer!Store \/ DiscoPeer!StoredAll
    PROVE  EndpointsInv'
<1> USE DEF EndpointsInv, DiscoPeer!Assumption, DiscoPeer!Goto, DiscoPeer!StartRange
<1>1. UNCHANGED <<peerClosed, taking>> /\ \A c \in Closers : pc'[c] = pc[c] /\ todo'[c] = todo[c]
  BY DEF DiscoPeer!SetEndpoints, DiscoPeer!Loaded, DiscoPeer!Create, DiscoPeer!Store,
     DiscoPeer!StoredAll, PeerTypes, Threads
<1>2. ASSUME NEW eps \in SUBSET Addrs, DiscoPeer!SetEndpoints(eps) PROVE EndpointsInv'
  <2>1. /\ pc[Setter] = "idle"
        /\ UNCHANGED <<endpointToEndpointID, endpoints, openEndpoints>>
    BY <1>2 DEF DiscoPeer!SetEndpoints
  <2>2. CASE peerClosed
    <3>1. /\ pc' = [pc EXCEPT ![Setter] = "closeAll"]
          /\ todo' = [todo EXCEPT ![Setter] = {i \in 1..MaxId : endpoints[i] # NoAddr}]
          /\ UNCHANGED <<endpointIDCounter, target, addrs, id, pe>>
      BY <1>2, <2>2 DEF DiscoPeer!SetEndpoints, DiscoPeer!Stored, DiscoPeer!EndpointIDs,
         DiscoPeer!locals
    <3>2. PeerTypes' /\ IdsAreFresh' /\ StoredIsOpen'
      BY <1>1, <2>1, <3>1 DEF PeerTypes, Threads, PeerLabels, SetterLabelsOfPeer, IdsAreFresh,
         StoredIsOpen, Endpoint
    <3>3. CloseCovers'
      BY <1>1, <2>1, <3>1 DEF CloseCovers, WillTake, PeerTypes, Threads
    <3> QED
      BY <1>1, <2>2, <3>2, <3>3 DEF BeforeClose
  <2>3. CASE ~peerClosed
    <3>1. /\ endpointIDCounter < MaxId /\ endpointIDCounter' = endpointIDCounter + 1
          /\ id' = endpointIDCounter + 1 /\ target' = eps /\ addrs' = eps
          /\ pc' = [pc EXCEPT ![Setter] = "loop"]
          /\ UNCHANGED <<todo, pe>>
      BY <1>2, <2>3 DEF DiscoPeer!SetEndpoints
    <3>2. PeerTypes' /\ IdsAreFresh' /\ StoredIsOpen'
      BY <1>1, <2>1, <3>1 DEF PeerTypes, Threads, PeerLabels, SetterLabelsOfPeer, IdsAreFresh,
         StoredIsOpen, Endpoint
    <3>3. AloneUntilClose' /\ MapsMatch' /\ EndpointsGoOn'
      BY <1>1, <2>1, <2>3, <3>1
      DEF BeforeClose, AloneUntilClose, MapsMatch, EndpointsGoOn, PeerTypes, Threads
    <3> QED
      BY <1>1, <2>3, <3>2, <3>3 DEF BeforeClose, CloseCovers
  <2> QED
    BY <2>2, <2>3
<1>3. ASSUME NEW adr \in Addrs, DiscoPeer!Loaded(adr) PROVE EndpointsInv'
  <2>1. /\ pc[Setter] = "loop" /\ addrs' = addrs \ {adr} /\ endpointToEndpointID[adr] # 0
        /\ UNCHANGED <<endpointIDCounter, endpointToEndpointID, endpoints, openEndpoints, pc, todo,
                       target, id, pe>>
    BY <1>3 DEF DiscoPeer!Loaded, DiscoPeer!maps
  <2>2. PeerTypes' /\ IdsAreFresh' /\ StoredIsOpen' /\ CloseCovers'
    BY <1>1, <2>1 DEF PeerTypes, IdsAreFresh, StoredIsOpen, Endpoint, CloseCovers, WillTake
  <2>3. BeforeClose'
    BY <1>1, <2>1 DEF BeforeClose, AloneUntilClose, MapsMatch, EndpointsGoOn
  <2> QED
    BY <2>2, <2>3
<1>4. ASSUME NEW adr \in Addrs, DiscoPeer!Create(adr) PROVE EndpointsInv'
  <2>1. /\ pc[Setter] = "loop" /\ addrs' = addrs \ {adr} /\ adr \in addrs
        /\ endpointToEndpointID[adr] = 0
        /\ endpointToEndpointID' = [endpointToEndpointID EXCEPT ![adr] = id]
        /\ endpointIDCounter < MaxId /\ endpointIDCounter' = endpointIDCounter + 1
        /\ id' = endpointIDCounter + 1
        /\ pe' = Endpoint(id, adr) /\ openEndpoints' = openEndpoints \cup {Endpoint(id, adr)}
        /\ pc' = [pc EXCEPT ![Setter] = "store"]
        /\ UNCHANGED <<endpoints, todo, target>>
    BY <1>4 DEF DiscoPeer!Create, DiscoPeer!Endpoint, Endpoint
  <2>2. /\ Endpoint(id, adr) \in [id : 1..MaxId, addr : Addrs]
        /\ Endpoint(id, adr).id = id /\ Endpoint(id, adr).addr = adr
    BY DEF Endpoint, PeerTypes
  <2>3. PeerTypes'
    BY <1>1, <2>1, <2>2 DEF PeerTypes, Threads, PeerLabels, SetterLabelsOfPeer
  <2>4. IdsAreFresh'
    BY <1>1, <2>1, <2>2 DEF IdsAreFresh, PeerTypes, Threads
  <2>5. StoredIsOpen' /\ CloseCovers'
    BY <1>1, <2>1, <2>2 DEF StoredIsOpen, CloseCovers, PeerTypes, Threads
  <2>6. BeforeClose'
    <3> SUFFICES ASSUME ~peerClosed PROVE AloneUntilClose' /\ MapsMatch' /\ EndpointsGoOn'
      BY <1>1 DEF BeforeClose
    <3>1. AloneUntilClose /\ MapsMatch /\ EndpointsGoOn
      BY DEF BeforeClose
    <3>2. endpointToEndpointID'[adr] = id
          /\ \A d \in Addrs : d # adr => endpointToEndpointID'[d] = endpointToEndpointID[d]
      BY <2>1 DEF PeerTypes
    <3>3. AloneUntilClose' /\ pc'[Setter] = "store"
      BY <1>1, <2>1, <3>1 DEF AloneUntilClose, PeerTypes, Threads
    <3>4. \A i \in 1..MaxId : endpoints[i] # NoAddr => endpoints[i] \in Addrs /\ endpoints[i] # adr
      BY <2>1, <3>1 DEF MapsMatch, PeerTypes
    <3>5. MapsMatch'
      BY <2>1, <2>2, <3>1, <3>2, <3>3, <3>4 DEF MapsMatch, PeerTypes
    <3>6. EndpointsGoOn'
      BY <2>1, <2>2, <3>1, <3>2, <3>3 DEF EndpointsGoOn, PeerTypes
    <3> QED
      BY <3>3, <3>5, <3>6
  <2> QED
    BY <2>3, <2>4, <2>5, <2>6
<1>5. CASE DiscoPeer!Store
  <2>1. /\ pc[Setter] = "store" /\ pc' = [pc EXCEPT ![Setter] = "loop"]
        /\ endpoints' = [endpoints EXCEPT ![pe.id] = pe.addr]
        /\ UNCHANGED <<endpointIDCounter, endpointToEndpointID, openEndpoints, todo, target,
                       addrs, id, pe>>
    BY <1>5 DEF DiscoPeer!Store, DiscoPeer!locals
  <2>2. /\ pe.id \in 1..MaxId /\ pe.addr \in Addrs /\ pe = Endpoint(pe.id, pe.addr)
        /\ pe.id < id /\ endpoints[pe.id] = NoAddr /\ pe \in openEndpoints
    BY <2>1 DEF IdsAreFresh, PeerTypes, Endpoint
  <2>3. /\ endpoints'[pe.id] = pe.addr /\ pe.addr # NoAddr
        /\ \A i \in 1..MaxId : i # pe.id => endpoints'[i] = endpoints[i]
    BY <2>1, <2>2 DEF PeerTypes
  <2>4. PeerTypes'
    BY <1>1, <2>1, <2>2 DEF PeerTypes, Threads, PeerLabels, SetterLabelsOfPeer
  <2>5. IdsAreFresh'
    BY <1>1, <2>1, <2>2, <2>3 DEF IdsAreFresh, PeerTypes, Threads
  <2>6. StoredIsOpen'
    <3>1. \A i \in 1..MaxId : endpoints'[i] # NoAddr => Endpoint(i, endpoints'[i]) \in openEndpoints
      BY <2>2, <2>3 DEF StoredIsOpen
    <3>2. \A e \in openEndpoints : endpoints'[e.id] = e.addr
      BY <2>1, <2>2, <2>3 DEF StoredIsOpen, PeerTypes
    <3> QED
      BY <2>1, <3>1, <3>2 DEF StoredIsOpen
  <2>7. CloseCovers'
    BY <1>1, <2>1 DEF CloseCovers, PeerTypes, Threads
  <2>8. BeforeClose'
    <3> SUFFICES ASSUME ~peerClosed PROVE AloneUntilClose' /\ MapsMatch' /\ EndpointsGoOn'
      BY <1>1 DEF BeforeClose
    <3>1. AloneUntilClose /\ MapsMatch /\ EndpointsGoOn
      BY DEF BeforeClose
    <3>2. AloneUntilClose' /\ pc'[Setter] = "loop"
      BY <1>1, <2>1, <3>1 DEF AloneUntilClose, PeerTypes, Threads
    <3>3. endpointToEndpointID[pe.addr] = pe.id
      BY <2>1, <3>1 DEF EndpointsGoOn
    <3>4. MapsMatch'
      BY <2>1, <2>2, <2>3, <3>1, <3>2, <3>3 DEF MapsMatch, PeerTypes, Endpoint
    <3>5. EndpointsGoOn'
      BY <2>1, <3>1, <3>2 DEF EndpointsGoOn
    <3> QED
      BY <3>2, <3>4, <3>5
  <2> QED
    BY <2>4, <2>5, <2>6, <2>7, <2>8
<1>6. CASE DiscoPeer!StoredAll
  <2>1. /\ pc[Setter] = "loop" /\ addrs = {}
        /\ pc' = [pc EXCEPT ![Setter] = IF peerClosed THEN "closeAll" ELSE "remove"]
        /\ todo' = [todo EXCEPT ![Setter] = {i \in 1..MaxId : endpoints[i] # NoAddr}]
        /\ UNCHANGED <<endpointIDCounter, endpointToEndpointID, endpoints, openEndpoints, target,
                       addrs, id, pe>>
    BY <1>6 DEF DiscoPeer!StoredAll, DiscoPeer!maps, DiscoPeer!locals, DiscoPeer!Stored,
       DiscoPeer!EndpointIDs
  <2>2. pc'[Setter] = (IF peerClosed THEN "closeAll" ELSE "remove")
        /\ todo'[Setter] = {i \in 1..MaxId : endpoints[i] # NoAddr}
    BY <2>1 DEF PeerTypes, Threads
  <2>3. PeerTypes' /\ IdsAreFresh' /\ StoredIsOpen'
    BY <1>1, <2>1, <2>2 DEF PeerTypes, Threads, PeerLabels, SetterLabelsOfPeer, IdsAreFresh,
       StoredIsOpen, Endpoint
  <2>4. CloseCovers'
    BY <1>1, <2>1, <2>2 DEF CloseCovers, WillTake, Threads
  <2>5. BeforeClose'
    BY <1>1, <2>1, <2>2 DEF BeforeClose, AloneUntilClose, MapsMatch, EndpointsGoOn
  <2> QED
    BY <2>3, <2>4, <2>5
<1> QED
  BY <1>2, <1>3, <1>4, <1>5, <1>6

(* A step of a Range, by whichever goroutine.                                              *)
LEMMA RangeKeepsInv ==
    ASSUME DiscoPeer!Assumption, EndpointsInv, NEW t \in Threads, DiscoPeer!RangeStep(t)
    PROVE  EndpointsInv'
<1> USE DEF EndpointsInv, DiscoPeer!Assumption, DiscoPeer!Goto, DiscoPeer!Ranging
<1>1. UNCHANGED <<peerClosed, endpointIDCounter, target, addrs, id, pe>>
  BY DEF DiscoPeer!RangeStep, DiscoPeer!Skip, DiscoPeer!DeleteAddr, DiscoPeer!Take,
     DiscoPeer!RangeDone, DiscoPeer!locals, DiscoPeer!maps
<1>2. /\ pc[t] \in {"remove", "removeTake", "closeAll", "closeAllTake"}
      /\ t # Setter => pc[t] \in {"closeAll", "closeAllTake"}
      /\ ~peerClosed => t = Setter /\ pc[t] \in {"remove", "removeTake"}
                        /\ AloneUntilClose /\ MapsMatch /\ EndpointsGoOn
  BY DEF DiscoPeer!RangeStep, DiscoPeer!Skip, DiscoPeer!DeleteAddr, DiscoPeer!Take,
     DiscoPeer!RangeDone, BeforeClose, AloneUntilClose, PeerTypes, Threads, CloserLabelsOfPeer
<1>3. ASSUME NEW l \in PeerLabels, pc' = [pc EXCEPT ![t] = l], l \notin {"loop", "store"},
             t = Setter => l \in SetterLabelsOfPeer, t # Setter => l \in CloserLabelsOfPeer
      PROVE  /\ pc' \in [Threads -> PeerLabels] /\ pc'[t] = l
             /\ \A u \in Threads : u # t => pc'[u] = pc[u]
             /\ pc'[Setter] \in SetterLabelsOfPeer
             /\ \A c \in Closers : pc'[c] \in CloserLabelsOfPeer
             /\ pc'[Setter] = pc[Setter] \/ t = Setter
             /\ \A m \in {"loop", "store"} : pc'[Setter] = m <=> pc[Setter] = m
  BY <1>2, <1>3 DEF PeerTypes, Threads
<1>4. ASSUME NEW i \in 1..MaxId, DiscoPeer!Skip(t, i) PROVE EndpointsInv'
  <2>1. /\ pc[t] \in {"remove", "closeAll"} /\ pc' = pc
        /\ endpoints[i] = NoAddr \/ (pc[t] = "remove" /\ endpoints[i] \in target)
        /\ todo' = [todo EXCEPT ![t] = @ \ {i}]
        /\ UNCHANGED <<endpointToEndpointID, endpoints, openEndpoints, taking>>
    BY <1>4 DEF DiscoPeer!Skip, DiscoPeer!maps
  <2>2. todo'[t] = todo[t] \ {i} /\ \A u \in Threads : u # t => todo'[u] = todo[u]
    BY <2>1 DEF PeerTypes
  <2>3. PeerTypes' /\ IdsAreFresh' /\ StoredIsOpen'
    BY <1>1, <2>1 DEF PeerTypes, IdsAreFresh, StoredIsOpen, Endpoint
  <2>4. CloseCovers'
    BY <1>1, <2>1, <2>2 DEF CloseCovers, WillTake
  <2>5. BeforeClose'
    BY <1>1, <1>2, <2>1, <2>2 DEF BeforeClose, AloneUntilClose, MapsMatch, EndpointsGoOn,
       Endpoint
  <2> QED
    BY <2>3, <2>4, <2>5
<1>5. ASSUME NEW i \in 1..MaxId, DiscoPeer!DeleteAddr(t, i) PROVE EndpointsInv'
  <2> DEFINE adr == endpoints[i]
             l == IF pc[t] = "remove" THEN "removeTake" ELSE "closeAllTake"
  <2>1. /\ pc[t] \in {"remove", "closeAll"} /\ pc' = [pc EXCEPT ![t] = l]
        /\ i \in todo[t] /\ adr # NoAddr /\ (pc[t] = "remove" => adr \notin target)
        /\ endpointToEndpointID' = [endpointToEndpointID EXCEPT ![adr] = 0]
        /\ todo' = [todo EXCEPT ![t] = @ \ {i}]
        /\ taking' = [taking EXCEPT ![t] = i]
        /\ UNCHANGED <<endpoints, openEndpoints>>
    BY <1>5 DEF DiscoPeer!DeleteAddr
  <2>2. /\ todo'[t] = todo[t] \ {i} /\ taking'[t] = i
        /\ \A u \in Threads : u # t => todo'[u] = todo[u] /\ taking'[u] = taking[u]
    BY <2>1 DEF PeerTypes
  <2>3. /\ adr \in Addrs /\ endpoints[i] = adr /\ endpoints'[i] = adr
        /\ endpointToEndpointID'[adr] = 0
        /\ \A d \in Addrs : d # adr => endpointToEndpointID'[d] = endpointToEndpointID[d]
    BY <2>1 DEF PeerTypes
  <2>4. l = (IF pc[t] = "remove" THEN "removeTake" ELSE "closeAllTake")
    OBVIOUS
  <2> HIDE DEF adr, l
  <2>5. /\ pc' \in [Threads -> PeerLabels] /\ pc'[t] = l
        /\ \A u \in Threads : u # t => pc'[u] = pc[u]
        /\ pc'[Setter] \in SetterLabelsOfPeer
        /\ \A c \in Closers : pc'[c] \in CloserLabelsOfPeer
        /\ \A m \in {"loop", "store"} : pc'[Setter] = m <=> pc[Setter] = m
    <3>1. /\ l \in PeerLabels /\ l \notin {"loop", "store"}
          /\ t = Setter => l \in SetterLabelsOfPeer
          /\ t # Setter => l \in CloserLabelsOfPeer
      BY <1>2, <2>1, <2>4 DEF PeerLabels, SetterLabelsOfPeer, CloserLabelsOfPeer
    <3> QED
      BY <1>3, <2>1, <3>1
  <2>6. PeerTypes'
    BY <1>1, <2>1, <2>3, <2>5 DEF PeerTypes
  <2>7. IdsAreFresh' /\ StoredIsOpen'
    BY <1>1, <2>1, <2>5 DEF IdsAreFresh, StoredIsOpen, Endpoint
  <2>8. CloseCovers'
    <3> SUFFICES ASSUME peerClosed, pc'[Setter] \notin {"loop", "store"},
                        NEW j \in 1..MaxId, endpoints[j] # NoAddr
                 PROVE  \E u \in Threads : WillTake(u, j)'
      BY <1>1, <2>1 DEF CloseCovers
    <3>1. PICK u \in Threads : WillTake(u, j)
      BY <2>5 DEF CloseCovers
    <3>2. WillTake(u, j)'
      BY <2>1, <2>2, <2>4, <2>5, <3>1 DEF WillTake
    <3> QED
      BY <3>2
  <2>9. BeforeClose'
    <3> SUFFICES ASSUME ~peerClosed PROVE AloneUntilClose' /\ MapsMatch' /\ EndpointsGoOn'
      BY <1>1 DEF BeforeClose
    <3>1. /\ AloneUntilClose /\ MapsMatch /\ EndpointsGoOn
          /\ t = Setter /\ pc[Setter] = "remove" /\ pc'[Setter] = "removeTake"
      BY <1>2, <2>1, <2>4, <2>5
    <3>2. AloneUntilClose'
      BY <2>5, <3>1 DEF AloneUntilClose, Threads
    <3>3. \A j \in 1..MaxId : j # i /\ endpoints[j] # NoAddr => endpoints[j] \in Addrs \ {adr}
      BY <2>3, <3>1 DEF MapsMatch, PeerTypes
    <3>4. MapsMatch'
      BY <2>1, <2>2, <2>3, <3>1, <3>3 DEF MapsMatch
    <3>5. EndpointsGoOn'
      BY <1>1, <2>1, <2>2, <2>3, <3>1 DEF EndpointsGoOn
    <3> QED
      BY <3>2, <3>4, <3>5
  <2> QED
    BY <2>6, <2>7, <2>8, <2>9
<1>6. CASE DiscoPeer!Take(t)
  <2> DEFINE i == taking[t]
             e == Endpoint(i, endpoints[i])
             l == IF pc[t] = "removeTake" THEN "remove" ELSE "closeAll"
  <2>1. /\ pc[t] \in {"removeTake", "closeAllTake"} /\ pc' = [pc EXCEPT ![t] = l]
        /\ \/ endpoints[i] = NoAddr /\ UNCHANGED <<endpoints, openEndpoints>>
           \/ /\ endpoints[i] # NoAddr
              /\ endpoints' = [endpoints EXCEPT ![i] = NoAddr]
              /\ openEndpoints' = openEndpoints \ {e}
        /\ UNCHANGED <<endpointToEndpointID, todo, taking>>
    BY <1>6 DEF DiscoPeer!Take, DiscoPeer!Resume, DiscoPeer!Endpoint, Endpoint
  <2>2. i \in 1..MaxId /\ taking[t] = i /\ e.id = i /\ e.addr = endpoints[i]
    BY DEF PeerTypes, Endpoint
  <2>3. e = Endpoint(i, endpoints[i])
        /\ l = (IF pc[t] = "removeTake" THEN "remove" ELSE "closeAll")
    OBVIOUS
  <2> HIDE DEF i, e, l
  <2>4. /\ pc' \in [Threads -> PeerLabels] /\ pc'[t] = l
        /\ \A u \in Threads : u # t => pc'[u] = pc[u]
        /\ pc'[Setter] \in SetterLabelsOfPeer
        /\ \A c \in Closers : pc'[c] \in CloserLabelsOfPeer
        /\ \A m \in {"loop", "store"} : pc'[Setter] = m <=> pc[Setter] = m
    <3>1. /\ l \in PeerLabels /\ l \notin {"loop", "store"}
          /\ t = Setter => l \in SetterLabelsOfPeer
          /\ t # Setter => l \in CloserLabelsOfPeer
      BY <1>2, <2>1, <2>3 DEF PeerLabels, SetterLabelsOfPeer, CloserLabelsOfPeer
    <3> QED
      BY <1>3, <2>1, <3>1
  <2>5. endpoints'[i] = NoAddr /\ \A j \in 1..MaxId : j # i => endpoints'[j] = endpoints[j]
    BY <2>1, <2>2 DEF PeerTypes
  <2>6. /\ endpoints' \in [1..MaxId -> Addrs \cup {NoAddr}]
        /\ openEndpoints' \subseteq openEndpoints
        /\ \A o \in openEndpoints : o \notin openEndpoints' => o = e /\ endpoints[i] # NoAddr
    BY <2>1 DEF PeerTypes
  <2>7. PeerTypes'
    BY <1>1, <2>1, <2>4, <2>6 DEF PeerTypes
  <2>8. IdsAreFresh'
    BY <1>1, <2>2, <2>4, <2>5, <2>6 DEF IdsAreFresh, PeerTypes
  <2>9. StoredIsOpen'
    <3>1. ASSUME NEW j \in 1..MaxId, endpoints'[j] # NoAddr
          PROVE  Endpoint(j, endpoints'[j]) \in openEndpoints'
      <4>1. j # i /\ endpoints'[j] = endpoints[j]
        BY <2>5, <3>1
      <4>2. Endpoint(j, endpoints[j]) \in openEndpoints /\ Endpoint(j, endpoints[j]).id = j
        BY <3>1, <4>1 DEF StoredIsOpen, Endpoint
      <4> QED
        BY <2>2, <2>6, <4>1, <4>2
    <3>2. ASSUME NEW o \in openEndpoints'
          PROVE  endpoints'[o.id] = o.addr \/ (pc'[Setter] = "store" /\ o = pe')
      <4>1. o \in openEndpoints /\ o.id \in 1..MaxId /\ o.addr \in Addrs
            /\ o = Endpoint(o.id, o.addr)
        BY <2>6, <3>2 DEF PeerTypes, Endpoint
      <4>2. CASE pc[Setter] = "store" /\ o = pe
        BY <1>1, <2>4, <4>2
      <4>3. CASE endpoints[o.id] = o.addr
        <5>1. o.id # i
          <6> SUFFICES ASSUME o.id = i PROVE FALSE
            OBVIOUS
          <6>1. o = e /\ endpoints[i] # NoAddr
            BY <2>3, <4>1, <4>3
          <6> QED
            BY <2>1, <3>2, <6>1
        <5> QED
          BY <2>5, <4>1, <4>3, <5>1
      <4> QED
        BY <4>1, <4>2, <4>3 DEF StoredIsOpen
    <3> QED
      BY <3>1, <3>2 DEF StoredIsOpen
  <2>10. CloseCovers'
    <3> SUFFICES ASSUME peerClosed, pc'[Setter] \notin {"loop", "store"},
                        NEW j \in 1..MaxId, endpoints'[j] # NoAddr
                 PROVE  \E u \in Threads : WillTake(u, j)'
      BY <1>1 DEF CloseCovers
    <3>1. j # i /\ endpoints[j] # NoAddr
      BY <2>5
    <3>2. PICK u \in Threads : WillTake(u, j)
      BY <2>4, <3>1 DEF CloseCovers
    <3>3. WillTake(u, j)'
      BY <2>1, <2>2, <2>3, <2>4, <3>1, <3>2 DEF WillTake
    <3> QED
      BY <3>3
  <2>11. BeforeClose'
    <3> SUFFICES ASSUME ~peerClosed PROVE AloneUntilClose' /\ MapsMatch' /\ EndpointsGoOn'
      BY <1>1 DEF BeforeClose
    <3>1. /\ AloneUntilClose /\ MapsMatch /\ EndpointsGoOn
          /\ t = Setter /\ pc[Setter] = "removeTake" /\ pc'[Setter] = "remove"
      BY <1>2, <2>1, <2>3, <2>4
    <3>2. endpoints[i] \in Addrs \ target /\ endpointToEndpointID[endpoints[i]] = 0
      BY <2>2, <3>1 DEF EndpointsGoOn
    <3>3. AloneUntilClose'
      BY <2>4, <3>1 DEF AloneUntilClose, Threads
    <3>4. \A adr \in Addrs : endpointToEndpointID[adr] # 0 =>
              endpointToEndpointID[adr] \in 1..MaxId \ {i}
              /\ endpoints[endpointToEndpointID[adr]] = adr
      BY <2>2, <3>1, <3>2 DEF MapsMatch, PeerTypes
    <3>5. MapsMatch'
      BY <2>1, <2>2, <2>5, <3>1, <3>4 DEF MapsMatch
    <3>6. EndpointsGoOn'
      BY <1>1, <2>1, <2>2, <2>5, <3>1 DEF EndpointsGoOn
    <3> QED
      BY <3>3, <3>5, <3>6
  <2> QED
    BY <2>7, <2>8, <2>9, <2>10, <2>11
<1>7. CASE DiscoPeer!RangeDone(t)
  <2> DEFINE l == IF t = Setter THEN "idle" ELSE "done"
  <2>1. /\ pc[t] \in {"remove", "closeAll"} /\ todo[t] = {} /\ pc' = [pc EXCEPT ![t] = l]
        /\ UNCHANGED <<endpointToEndpointID, endpoints, openEndpoints, todo, taking>>
    BY <1>7 DEF DiscoPeer!RangeDone, DiscoPeer!maps
  <2>2. l = (IF t = Setter THEN "idle" ELSE "done")
    OBVIOUS
  <2> HIDE DEF l
  <2>3. /\ pc' \in [Threads -> PeerLabels] /\ pc'[t] = l
        /\ \A u \in Threads : u # t => pc'[u] = pc[u]
        /\ pc'[Setter] \in SetterLabelsOfPeer
        /\ \A c \in Closers : pc'[c] \in CloserLabelsOfPeer
        /\ \A m \in {"loop", "store"} : pc'[Setter] = m <=> pc[Setter] = m
    <3>1. /\ l \in PeerLabels /\ l \notin {"loop", "store"}
          /\ t = Setter => l \in SetterLabelsOfPeer
          /\ t # Setter => l \in CloserLabelsOfPeer
      BY <1>2, <2>1, <2>2 DEF PeerLabels, SetterLabelsOfPeer, CloserLabelsOfPeer
    <3> QED
      BY <1>3, <2>1, <3>1
  <2>4. PeerTypes' /\ IdsAreFresh' /\ StoredIsOpen'
    BY <1>1, <2>1, <2>3 DEF PeerTypes, IdsAreFresh, StoredIsOpen, Endpoint
  <2>5. CloseCovers'
    <3> SUFFICES ASSUME peerClosed, pc'[Setter] \notin {"loop", "store"},
                        NEW j \in 1..MaxId, endpoints[j] # NoAddr
                 PROVE  \E u \in Threads : WillTake(u, j)'
      BY <1>1, <2>1 DEF CloseCovers
    <3>1. PICK u \in Threads : WillTake(u, j)
      BY <2>3 DEF CloseCovers
    <3>2. u # t
      BY <2>1, <3>1 DEF WillTake
    <3>3. WillTake(u, j)'
      BY <2>1, <2>3, <3>1, <3>2 DEF WillTake
    <3> QED
      BY <3>3
  <2>6. BeforeClose'
    <3> SUFFICES ASSUME ~peerClosed PROVE AloneUntilClose' /\ MapsMatch' /\ EndpointsGoOn'
      BY <1>1 DEF BeforeClose
    <3>1. /\ AloneUntilClose /\ MapsMatch /\ EndpointsGoOn
          /\ t = Setter /\ pc[Setter] = "remove" /\ pc'[Setter] = "idle"
      BY <1>2, <2>1, <2>2, <2>3
    <3>2. AloneUntilClose'
      BY <2>3, <3>1 DEF AloneUntilClose, Threads
    <3>3. MapsMatch' /\ EndpointsGoOn'
      BY <1>1, <2>1, <3>1 DEF MapsMatch, EndpointsGoOn
    <3> QED
      BY <3>2, <3>3
  <2> QED
    BY <2>4, <2>5, <2>6
<1> QED
  BY <1>4, <1>5, <1>6, <1>7 DEF DiscoPeer!RangeStep, DiscoPeer!EndpointIDs

(* Close, the first and the second.                                                        *)
LEMMA CloseKeepsInv ==
    ASSUME DiscoPeer!Assumption, EndpointsInv, NEW c \in Closers, DiscoPeer!Close(c)
    PROVE  EndpointsInv'
<1> USE DEF EndpointsInv, DiscoPeer!Assumption, DiscoPeer!Goto
<1>1. /\ pc[c] = "idle" /\ c \in Threads /\ c # Setter
      /\ UNCHANGED <<endpointIDCounter, endpointToEndpointID, endpoints, openEndpoints, taking,
                     target, addrs, id, pe>>
  BY DEF DiscoPeer!Close, DiscoPeer!maps, DiscoPeer!locals, Threads
<1>2. CASE peerClosed
  <2>1. pc' = [pc EXCEPT ![c] = "done"] /\ UNCHANGED <<peerClosed, todo>>
    BY <1>2 DEF DiscoPeer!Close
  <2>2. PeerTypes' /\ IdsAreFresh' /\ StoredIsOpen'
    BY <1>1, <2>1 DEF PeerTypes, Threads, PeerLabels, CloserLabelsOfPeer, IdsAreFresh,
       StoredIsOpen, Endpoint
  <2>3. pc'[Setter] = pc[Setter] /\ \A t \in Threads : t # c => pc'[t] = pc[t]
    BY <1>1, <2>1 DEF PeerTypes, Threads
  <2>4. CloseCovers'
    BY <1>1, <2>1, <2>3 DEF CloseCovers, WillTake
  <2> QED
    BY <1>2, <2>1, <2>2, <2>4 DEF BeforeClose
<1>3. CASE ~peerClosed
  <2>1. /\ pc' = [pc EXCEPT ![c] = "closeAll"]
        /\ todo' = [todo EXCEPT ![c] = {i \in 1..MaxId : endpoints[i] # NoAddr}]
    BY <1>3 DEF DiscoPeer!Close, DiscoPeer!StartRange, DiscoPeer!Stored, DiscoPeer!EndpointIDs
  <2>2. peerClosed'
    BY <1>3, Zenon DEF DiscoPeer!Close
  <2>3. PeerTypes' /\ IdsAreFresh' /\ StoredIsOpen'
    BY <1>1, <2>1 DEF PeerTypes, Threads, PeerLabels, CloserLabelsOfPeer, IdsAreFresh,
       StoredIsOpen, Endpoint
  <2>4. pc'[c] = "closeAll" /\ todo'[c] = {i \in 1..MaxId : endpoints[i] # NoAddr}
    BY <1>1, <2>1 DEF PeerTypes
  <2>5. CloseCovers'
    BY <1>1, <2>4 DEF CloseCovers, WillTake
  <2> QED
    BY <2>2, <2>3, <2>5 DEF BeforeClose
<1> QED
  BY <1>2, <1>3

\* The flags of a peer: it never closes an endpoint twice.
PeerFlag == peerClosed \in BOOLEAN
OnceFlag == panicked = FALSE

(* The flags are kept: what a Range takes from the map is open.                            *)
LEMMA PeerFlagsKept ==
    ASSUME EndpointsInv, PeerFlag, OnceFlag, [DiscoPeer!Next]_(DiscoPeer!vars)
    PROVE  PeerFlag' /\ OnceFlag'
<1>1. PeerFlag'
  <2>1. CASE \E c \in Closers : DiscoPeer!Close(c)
    BY <2>1, Zenon DEF DiscoPeer!Close, PeerFlag
  <2>2. CASE ~\E c \in Closers : DiscoPeer!Close(c)
    <3>1. UNCHANGED peerClosed
      BY <2>2 DEF DiscoPeer!Next, DiscoPeer!vars, DiscoPeer!SetEndpoints, DiscoPeer!SetterStep,
         DiscoPeer!Loaded, DiscoPeer!Create, DiscoPeer!Store, DiscoPeer!StoredAll,
         DiscoPeer!RangeStep, DiscoPeer!Skip, DiscoPeer!DeleteAddr, DiscoPeer!Take,
         DiscoPeer!RangeDone
    <3> QED
      BY <3>1 DEF PeerFlag
  <2> QED
    BY <2>1, <2>2
<1>2. OnceFlag'
  <2>1. ASSUME NEW t \in Threads, DiscoPeer!Take(t) PROVE OnceFlag'
    <3> DEFINE i == taking[t]
               e == DiscoPeer!Endpoint(i, endpoints[i])
    <3>1. i \in 1..MaxId
      BY DEF EndpointsInv, PeerTypes
    <3>2. endpoints[i] # NoAddr => e \in openEndpoints
      BY <3>1 DEF EndpointsInv, StoredIsOpen, Endpoint, DiscoPeer!Endpoint
    <3>3. \/ UNCHANGED panicked
          \/ endpoints[i] # NoAddr /\ panicked' = (panicked \/ e \notin openEndpoints)
      BY <2>1, Zenon DEF DiscoPeer!Take
    <3> HIDE DEF i, e
    <3> QED
      BY <3>2, <3>3, Zenon DEF OnceFlag
  <2>2. CASE ~\E t \in Threads : DiscoPeer!Take(t)
    <3>1. UNCHANGED panicked
      BY <2>2 DEF DiscoPeer!Next, DiscoPeer!vars, DiscoPeer!SetEndpoints, DiscoPeer!SetterStep,
         DiscoPeer!Loaded, DiscoPeer!Create, DiscoPeer!Store, DiscoPeer!StoredAll,
         DiscoPeer!RangeStep, DiscoPeer!Skip, DiscoPeer!DeleteAddr, DiscoPeer!RangeDone,
         DiscoPeer!Close, DiscoPeer!maps, DiscoPeer!Threads, Threads
    <3> QED
      BY <3>1 DEF OnceFlag
  <2> QED
    BY <2>1, <2>2
<1> QED
  BY <1>1, <1>2

(* What EndpointsKept says of the maps when the calls have returned.                       *)
LEMMA EndpointsInvMeansKept ==
    ASSUME DiscoPeer!Assumption, EndpointsInv, PeerFlag, OnceFlag
    PROVE  EndpointsKept
<1> USE DEF EndpointsInv, DiscoPeer!Assumption
<1>1. DiscoPeer!TypeOK
  <2>1. peerClosed \in BOOLEAN /\ panicked \in BOOLEAN
    BY Zenon DEF PeerFlag, OnceFlag
  <2>2. /\ pc \in [DiscoPeer!Threads -> {"idle", "loop", "store", "remove", "removeTake",
                                         "closeAll", "closeAllTake", "done"}]
        /\ todo \in [DiscoPeer!Threads -> SUBSET DiscoPeer!EndpointIDs]
        /\ taking \in [DiscoPeer!Threads -> DiscoPeer!EndpointIDs]
    BY DEF PeerTypes, Threads, PeerLabels, SetterLabelsOfPeer, CloserLabelsOfPeer,
       DiscoPeer!Threads, DiscoPeer!EndpointIDs
  <2> QED
    BY <2>1, <2>2 DEF PeerTypes, DiscoPeer!TypeOK, DiscoPeer!EndpointIDs
<1>2. DiscoPeer!NoOrphans
  BY DEF StoredIsOpen, DiscoPeer!NoOrphans
<1>3. DiscoPeer!ClosedOnce
  BY Zenon DEF OnceFlag, DiscoPeer!ClosedOnce
<1>4. DiscoPeer!Stored = {i \in 1..MaxId : endpoints[i] # NoAddr}
  BY DEF DiscoPeer!Stored, DiscoPeer!EndpointIDs
<1>5. DiscoPeer!ClosedMeansEmpty
  <2> SUFFICES ASSUME peerClosed, pc[Setter] = "idle",
                      \A c \in Closers : pc[c] \in {"idle", "done"}
               PROVE  openEndpoints = {} /\ DiscoPeer!Stored = {}
    BY DEF DiscoPeer!ClosedMeansEmpty
  <2>1. \A i \in 1..MaxId : endpoints[i] = NoAddr
    BY DEF CloseCovers, WillTake, Threads
  <2>2. openEndpoints = {}
    BY <2>1 DEF StoredIsOpen, PeerTypes
  <2> QED
    BY <1>4, <2>1, <2>2
<1>6. DiscoPeer!MapsAgree
  <2> SUFFICES ASSUME ~peerClosed, pc[Setter] = "idle"
               PROVE  /\ \A adr \in Addrs : endpointToEndpointID[adr] # 0 <=> adr \in target
                      /\ \A adr \in target : endpoints[endpointToEndpointID[adr]] = adr
                      /\ \A i \in DiscoPeer!Stored : endpointToEndpointID[endpoints[i]] = i
    BY DEF DiscoPeer!MapsAgree
  <2>1. MapsMatch /\ EndpointsGoOn
    BY DEF BeforeClose
  <2>2. \A adr \in Addrs : endpointToEndpointID[adr] # 0 =>
            endpointToEndpointID[adr] \in 1..MaxId /\ endpoints[endpointToEndpointID[adr]] = adr
    BY <2>1 DEF MapsMatch, PeerTypes
  <2>3. \A adr \in Addrs : endpointToEndpointID[adr] # 0 <=> adr \in target
    BY <2>1, <2>2 DEF EndpointsGoOn, PeerTypes
  <2> QED
    BY <1>4, <2>1, <2>2, <2>3 DEF MapsMatch, PeerTypes
<1> QED
  BY <1>1, <1>2, <1>3, <1>5, <1>6 DEF EndpointsKept

(* No endpoint leaks and none is closed twice, a closed peer ends with none, and between   *)
(* calls the maps of an open peer are inverse to each other, for any addresses, number of   *)
(* ids and number of goroutines that call Close (discoPeer.go:104-165, 275-325).            *)
THEOREM EndpointsAreKept == DiscoPeer!Spec => []EndpointsKept
<1> USE NodeAssumption DEF NodeAssumption
<1>1. DiscoPeer!Init => EndpointsInv /\ PeerFlag /\ OnceFlag
  <2> SUFFICES ASSUME DiscoPeer!Init PROVE EndpointsInv /\ PeerFlag /\ OnceFlag
    OBVIOUS
  <2>1. ~peerClosed /\ PeerFlag /\ OnceFlag
    BY Zenon DEF DiscoPeer!Init, PeerFlag, OnceFlag
  <2>2. PeerTypes
    BY DEF DiscoPeer!Init, DiscoPeer!Assumption, DiscoPeer!Threads, DiscoPeer!EndpointIDs,
       DiscoPeer!Endpoint, PeerTypes, Threads, PeerLabels, SetterLabelsOfPeer,
       CloserLabelsOfPeer
  <2>3. IdsAreFresh /\ StoredIsOpen /\ CloseCovers
    BY <2>1 DEF DiscoPeer!Init, DiscoPeer!Threads, DiscoPeer!EndpointIDs, IdsAreFresh,
       StoredIsOpen, CloseCovers
  <2>4. AloneUntilClose /\ MapsMatch /\ EndpointsGoOn
    BY DEF DiscoPeer!Init, DiscoPeer!Threads, DiscoPeer!EndpointIDs, AloneUntilClose, MapsMatch,
       EndpointsGoOn
  <2> QED
    BY <2>1, <2>2, <2>3, <2>4 DEF EndpointsInv, BeforeClose
<1>2. EndpointsInv /\ PeerFlag /\ OnceFlag /\ [DiscoPeer!Next]_(DiscoPeer!vars)
        => EndpointsInv' /\ PeerFlag' /\ OnceFlag'
  <2> SUFFICES ASSUME EndpointsInv, PeerFlag, OnceFlag, [DiscoPeer!Next]_(DiscoPeer!vars)
               PROVE  EndpointsInv' /\ PeerFlag' /\ OnceFlag'
    OBVIOUS
  <2>1. PeerFlag' /\ OnceFlag'
    BY PeerFlagsKept
  <2>2. CASE UNCHANGED DiscoPeer!vars
    BY <2>1, <2>2 DEF DiscoPeer!vars, EndpointsInv, PeerTypes, IdsAreFresh, StoredIsOpen,
       Endpoint, CloseCovers, WillTake, BeforeClose, AloneUntilClose, MapsMatch, EndpointsGoOn
  <2> QED
    BY <2>1, <2>2, SetEndpointsKeepsInv, RangeKeepsInv, CloseKeepsInv
    DEF DiscoPeer!Next, DiscoPeer!SetterStep, DiscoPeer!Threads, Threads
<1>3. EndpointsInv /\ PeerFlag /\ OnceFlag => EndpointsKept
  BY EndpointsInvMeansKept
<1> QED
  BY <1>1, <1>2, <1>3, PTL DEF DiscoPeer!Spec

(* The two tables of a node, of its peers and of a peer's endpoints, are kept.             *)
THEOREM TablesAreKept == Disco!Spec /\ DiscoPeer!Spec => []TablesKept
<1>1. PeersKept /\ EndpointsKept => TablesKept
  BY DEF TablesKept
<1> QED
  BY <1>1, PeersAreKept, EndpointsAreKept, PTL

-----------------------------------------------------------------------------
(* The WireGuard device.  The merge of two configurations and the changes of a device    *)
(* are iterations over numbers; what they compute follows by induction on the rounds.     *)

(* A set of numbers that is not empty has a least one.                        *)
LEMMA LeastOf ==
    ASSUME NEW T, T \subseteq Nat, T # {}
    PROVE  \E m \in T : \A n \in T : m <= n
<1>1. \E m \in T : \A n \in T : ~ (<<n, m>> \in OpToRel(<, Nat))
  BY NatLessThanWellFounded, WFMin
<1>3. PICK m \in T : \A n \in T : ~ (<<n, m>> \in OpToRel(<, Nat))
  BY <1>1
<1>2. ASSUME NEW n \in T, n < m PROVE FALSE
  <2>1. <<n, m>> \in Nat \X Nat /\ <<n, m>>[1] < <<n, m>>[2]
    BY <1>2
  <2> QED
    BY <1>3, <2>1 DEF OpToRel
<1>4. ASSUME NEW n \in T PROVE m <= n
  <2>1. m \in Nat /\ n \in Nat
    OBVIOUS
  <2> QED
    BY <1>2, <2>1
<1> QED
  BY <1>4

(* What holds of 0 and passes from every number to the next holds up to any bound. *)
LEMMA Upwards ==
    ASSUME NEW T, NEW N \in Nat, 0 \in T, \A n \in 1..N : n - 1 \in T => n \in T
    PROVE  \A n \in 0..N : n \in T
<1> DEFINE B == {n \in 0..N : n \notin T}
<1>1. SUFFICES ASSUME B # {} PROVE FALSE
  OBVIOUS
<1>2. PICK m \in B : \A n \in B : m <= n
  <2>1. B \subseteq Nat
    OBVIOUS
  <2> HIDE DEF B
  <2> QED
    BY <1>1, <2>1, LeastOf
<1>3. m \in 1..N /\ m - 1 \in 0..N /\ m - 1 \notin B
  BY <1>2
<1> QED
  BY <1>2, <1>3

(* Repeating an operation N times gives a function, the one its definition names. *)
LEMMA Iteration ==
    ASSUME NEW S, NEW start \in S, NEW N \in Nat, NEW g \in [1..N -> [S -> S]]
    PROVE  \E f \in [0..N -> S] :
               f[0] = start /\ \A n \in 1..N : f[n] = g[n][f[n - 1]]
<1> DEFINE Upto(m, f) == f[0] = start /\ \A n \in 1..m : f[n] = g[n][f[n - 1]]
           T == {m \in Nat : \E f \in [0..m -> S] : Upto(m, f)}
<1>1. 0 \in T
  <2>1. [n \in 0..0 |-> start] \in [0..0 -> S] /\ Upto(0, [n \in 0..0 |-> start])
    OBVIOUS
  <2> QED
    BY <2>1
<1>2. ASSUME NEW m \in 1..N, m - 1 \in T PROVE m \in T
  <2>1. PICK f \in [0..(m - 1) -> S] : Upto(m - 1, f)
    BY <1>2
  <2> DEFINE h == [n \in 0..m |-> IF n = m THEN g[m][f[m - 1]] ELSE f[n]]
  <2>2. f[m - 1] \in S /\ g[m][f[m - 1]] \in S
    OBVIOUS
  <2>3. h \in [0..m -> S]
    BY <2>2
  <2>4. h[m] = g[m][f[m - 1]] /\ \A n \in 0..(m - 1) : h[n] = f[n]
    OBVIOUS
  <2>5. m \in Nat
    OBVIOUS
  <2> HIDE DEF h
  <2>6. h[0] = start
    BY <2>1, <2>4
  <2>7. ASSUME NEW n \in 1..m PROVE h[n] = g[n][h[n - 1]]
    <3>1. n - 1 \in 0..(m - 1) /\ h[n - 1] = f[n - 1]
      BY <2>4
    <3>2. CASE n = m
      BY <2>4, <3>1, <3>2
    <3>3. CASE n # m
      <4>1. n \in 1..(m - 1) /\ h[n] = f[n]
        BY <2>4, <3>3
      <4>2. f[n] = g[n][f[n - 1]]
        BY <2>1, <4>1
      <4> QED
        BY <3>1, <4>1, <4>2
    <3> QED
      BY <3>2, <3>3
  <2> QED
    BY <2>3, <2>5, <2>6, <2>7
<1> HIDE DEF T
<1>3. \A m \in 0..N : m \in T
  BY <1>1, <1>2, Upwards
<1>4. N \in T
  BY <1>3
<1> QED
  BY <1>4 DEF T

LEMMA MinOf ==
    ASSUME NEW T, T \subseteq Nat, T # {}
    PROVE  WG!Min(T) \in T /\ \A n \in T : WG!Min(T) <= n
<1>1. \E m \in T : \A n \in T : m <= n
  BY LeastOf
<1> QED
  BY <1>1 DEF WG!Min

-----------------------------------------------------------------------------
(* The difference of two configurations *)

DevicePeers == WG!PeerConfigs \cup {WG!NoPeer}
Changes == [key : WG!PublicKeys, remove : BOOLEAN, peer : DevicePeers]
Merging == [expected : SUBSET WG!PublicKeys, current : SUBSET WG!PublicKeys,
            diff : Seq(Changes)]

\* A change that the peer needs: c has it otherwise than e.
Needed(e, c, change) ==
    /\ change.key \in WG!PublicKeys
    /\ e[change.key] # c[change.key]
    /\ change.remove \in BOOLEAN
    /\ (change.remove = TRUE) <=> ~WG!Has(e, change.key)
    /\ WG!Has(e, change.key) => change.peer = e[change.key]

\* Every key is taken from both lists at once.
InStep(e, c, r) ==
    \A k \in WG!PublicKeys : WG!Has(e, k) /\ WG!Has(c, k) => (k \in r.expected <=> k \in r.current)

LEMMA KeysAreNumbers == MaxKey \in Nat /\ WG!PublicKeys = 1..MaxKey
BY NodeAssumption DEF WG!DiffAssumption, WG!PublicKeys

(* A round takes the least key left from both lists, and notes a change if it needs one. *)
LEMMA RoundTakesLeast ==
    ASSUME NEW e \in WG!Devices, NEW c \in WG!Devices, NEW r \in Merging,
           r.expected \subseteq WG!KeysOf(e), r.current \subseteq WG!KeysOf(c),
           r.expected \cup r.current # {}, InStep(e, c, r)
    PROVE  \E k \in r.expected \cup r.current : \E change \in Changes :
               /\ \A l \in r.expected \cup r.current : k <= l
               /\ change.key = k
               /\ e[k] # c[k] => Needed(e, c, change)
               /\ WG!Round(e, c, r) =
                    [expected |-> r.expected \ {k}, current |-> r.current \ {k},
                     diff |-> IF e[k] # c[k] THEN Append(r.diff, change) ELSE r.diff]
<1> DEFINE m == WG!Min(r.expected)
           n == WG!Min(r.current)
<1>1. r = [expected |-> r.expected, current |-> r.current, diff |-> r.diff]
      /\ r.expected \subseteq Nat /\ r.current \subseteq Nat
      /\ r.expected \subseteq WG!PublicKeys /\ r.current \subseteq WG!PublicKeys
  BY KeysAreNumbers DEF Merging
<1>2. \A k \in WG!PublicKeys : e[k] \in DevicePeers /\ c[k] \in DevicePeers
  BY DEF WG!Devices, DevicePeers
<1>3. r.expected # {} => m \in r.expected /\ \A l \in r.expected : m <= l
  BY <1>1, MinOf
<1>4. r.current # {} => n \in r.current /\ \A l \in r.current : n <= l
  BY <1>1, MinOf
<1>5. \A k \in r.expected : WG!Has(e, k)
  BY DEF WG!KeysOf
<1>6. \A k \in r.current : WG!Has(c, k)
  BY DEF WG!KeysOf
<1>7. \A k \in WG!PublicKeys : WG!Has(e, k) <=> e[k] # WG!NoPeer
  BY DEF WG!Has
<1>8. \A k \in WG!PublicKeys : WG!Has(c, k) <=> c[k] # WG!NoPeer
  BY DEF WG!Has
<1> DEFINE removed == WG!Removal(c, n)
           updated == WG!Update(e, m)
<1>9. CASE r.current # {} /\ (r.expected = {} \/ m > n)
  <2>1. WG!Round(e, c, r) = [expected |-> r.expected, current |-> r.current \ {n},
                             diff |-> Append(r.diff, removed)]
    <3>1. WG!Round(e, c, r) = WG!SkipCurrent(WG!Adds(r, removed))
      <4>1. ~(r.expected = {} /\ r.current = {})
            /\ ~(r.expected # {} /\ (r.current = {} \/ m < n))
        BY <1>1, <1>3, <1>4, <1>9
      <4> QED
        BY <1>9, <4>1 DEF WG!Round
    <3> QED
      BY <1>1, <3>1 DEF WG!SkipCurrent, WG!Adds
  <2>2. n \in r.current /\ n \notin r.expected /\ \A l \in r.expected \cup r.current : n <= l
    BY <1>1, <1>3, <1>4, <1>9
  <2>3. ~WG!Has(e, n) /\ WG!Has(c, n) /\ e[n] # c[n] /\ n \in WG!PublicKeys
    BY <1>1, <1>6, <1>7, <1>8, <2>2 DEF InStep
  <2>4. removed \in Changes /\ removed.key = n /\ removed.remove = TRUE
    BY <1>2, <2>3 DEF WG!Removal, Changes
  <2>5. Needed(e, c, removed)
    BY <2>3, <2>4 DEF Needed
  <2>6. r.expected \ {n} = r.expected
    BY <2>2
  <2> HIDE DEF removed, n
  <2> QED
    BY <2>1, <2>2, <2>3, <2>4, <2>5, <2>6
<1>10. CASE r.expected # {} /\ (r.current = {} \/ m < n)
  <2>1. WG!Round(e, c, r) = [expected |-> r.expected \ {m}, current |-> r.current,
                             diff |-> Append(r.diff, updated)]
    <3>1. ~(r.current # {} /\ (r.expected = {} \/ m > n))
      BY <1>1, <1>3, <1>4, <1>10
    <3> QED
      BY <1>1, <1>10, <3>1 DEF WG!Round, WG!SkipExpected, WG!Adds
  <2>2. m \in r.expected /\ m \notin r.current /\ \A l \in r.expected \cup r.current : m <= l
    BY <1>1, <1>3, <1>4, <1>10
  <2>3. WG!Has(e, m) /\ ~WG!Has(c, m) /\ e[m] # c[m] /\ m \in WG!PublicKeys
    BY <1>1, <1>5, <1>7, <1>8, <2>2 DEF InStep
  <2>4. updated \in Changes /\ updated.key = m /\ updated.remove = FALSE /\ updated.peer = e[m]
    BY <1>2, <2>3 DEF WG!Update, Changes
  <2>5. Needed(e, c, updated)
    BY <2>3, <2>4 DEF Needed
  <2>6. r.current \ {m} = r.current
    BY <2>2
  <2> HIDE DEF updated, m
  <2> QED
    BY <2>1, <2>2, <2>3, <2>4, <2>5, <2>6
<1>11. CASE r.expected # {} /\ r.current # {} /\ m = n
  <2>1. WG!Round(e, c, r) =
            [expected |-> r.expected \ {m}, current |-> r.current \ {m},
             diff |-> IF e[m] # c[m] THEN Append(r.diff, updated) ELSE r.diff]
    <3>1. /\ ~(r.current # {} /\ (r.expected = {} \/ m > n))
          /\ ~(r.expected # {} /\ (r.current = {} \/ m < n))
          /\ ~(r.expected = {} /\ r.current = {})
      BY <1>1, <1>3, <1>4, <1>11
    <3>2. WG!Round(e, c, r) =
              WG!SkipExpected(WG!SkipCurrent(IF e[m] # c[n] THEN WG!Adds(r, updated) ELSE r))
      BY <3>1 DEF WG!Round
    <3> QED
      BY <1>1, <1>11, <3>2 DEF WG!SkipExpected, WG!SkipCurrent, WG!Adds
  <2>2. m \in r.expected /\ \A l \in r.expected \cup r.current : m <= l
    BY <1>1, <1>3, <1>4, <1>11
  <2>3. WG!Has(e, m) /\ m \in WG!PublicKeys
    BY <1>1, <1>5, <2>2
  <2>4. updated \in Changes /\ updated.key = m /\ updated.remove = FALSE /\ updated.peer = e[m]
    BY <1>2, <2>3 DEF WG!Update, Changes
  <2>5. e[m] # c[m] => Needed(e, c, updated)
    BY <2>3, <2>4 DEF Needed
  <2> HIDE DEF updated, m
  <2> QED
    BY <2>1, <2>2, <2>4, <2>5
<1>12. r.expected # {} /\ r.current # {} => m < n \/ m = n \/ m > n
  BY <1>1, <1>3, <1>4
<1> QED
  BY <1>9, <1>10, <1>11, <1>12

\* What the merge can have before it when it has come to a key.
Merges(e, c) ==
    {r \in Merging : r.expected \subseteq WG!KeysOf(e) /\ r.current \subseteq WG!KeysOf(c)
                     /\ InStep(e, c, r)}
Unmerged(e, c) == [expected |-> WG!KeysOf(e), current |-> WG!KeysOf(c), diff |-> << >>]

(* When nothing is left a round changes nothing.                              *)
LEMMA RoundAtEnd ==
    ASSUME NEW e, NEW c, NEW r, r.expected = {}, r.current = {}
    PROVE  WG!Round(e, c, r) = r
BY DEF WG!Round

LEMMA RoundKeepsMerges ==
    ASSUME NEW e \in WG!Devices, NEW c \in WG!Devices, NEW r \in Merges(e, c)
    PROVE  WG!Round(e, c, r) \in Merges(e, c)
<1>1. r \in Merging /\ r.expected \subseteq WG!KeysOf(e) /\ r.current \subseteq WG!KeysOf(c)
      /\ InStep(e, c, r)
  BY DEF Merges
<1>2. CASE r.expected \cup r.current = {}
  BY <1>2, RoundAtEnd
<1>3. CASE r.expected \cup r.current # {}
  <2> DEFINE s == WG!Round(e, c, r)
  <2>1. PICK k \in r.expected \cup r.current, change \in Changes :
            s = [expected |-> r.expected \ {k}, current |-> r.current \ {k},
                 diff |-> IF e[k] # c[k] THEN Append(r.diff, change) ELSE r.diff]
    BY <1>1, <1>3, RoundTakesLeast
  <2> HIDE DEF s
  <2>2. s.expected = r.expected \ {k} /\ s.current = r.current \ {k}
    BY <2>1
  <2>3. Append(r.diff, change) \in Seq(Changes) /\ r.diff \in Seq(Changes)
    BY <1>1 DEF Merging
  <2>4. s \in Merging
    BY <1>1, <2>1, <2>3 DEF Merging
  <2>5. InStep(e, c, s)
    BY <1>1, <2>2 DEF InStep
  <2>6. s \in Merges(e, c)
    BY <1>1, <2>2, <2>4, <2>5 DEF Merges
  <2> QED
    BY <2>6 DEF s
<1> QED
  BY <1>2, <1>3

(* diffPeers is what MaxKey rounds make of the two lists.                     *)
LEMMA DiffIsMerged ==
    ASSUME NEW e \in WG!Devices, NEW c \in WG!Devices
    PROVE  \E f \in [0..MaxKey -> Merges(e, c)] :
               /\ f[0] = Unmerged(e, c)
               /\ \A n \in 1..MaxKey : f[n] = WG!Round(e, c, f[n - 1])
               /\ WG!diffPeers(e, c) = f[MaxKey].diff
<1> DEFINE S == Merges(e, c)
           start == Unmerged(e, c)
           g == [n \in 1..MaxKey |-> [r \in S |-> WG!Round(e, c, r)]]
           Body(f) == [n \in 0..MaxKey |->
                          IF n = 0 THEN start ELSE WG!Round(e, c, f[n - 1])]
           merged == CHOOSE f : f = Body(f)
<1>1. start \in S
  <2>1. << >> \in Seq(Changes)
    OBVIOUS
  <2>2. start \in Merging
    BY <2>1 DEF Unmerged, Merging, WG!KeysOf
  <2>3. InStep(e, c, start)
    BY DEF InStep, Unmerged, WG!KeysOf
  <2> QED
    BY <2>2, <2>3 DEF Merges, Unmerged
<1>2. g \in [1..MaxKey -> [S -> S]]
  <2>1. \A r \in S : WG!Round(e, c, r) \in S
    BY RoundKeepsMerges
  <2> HIDE DEF S
  <2> QED
    BY <2>1
<1> HIDE DEF S, start
<1>3. \E f : f = Body(f)
  <2>0. MaxKey \in Nat
    BY KeysAreNumbers
  <2>1. PICK f \in [0..MaxKey -> S] :
            f[0] = start /\ \A n \in 1..MaxKey : f[n] = g[n][f[n - 1]]
    <3> HIDE DEF g
    <3> QED
      BY <1>1, <1>2, <2>0, Iteration
  <2>2. ASSUME NEW n \in 1..MaxKey
        PROVE  g[n][f[n - 1]] = WG!Round(e, c, f[n - 1])
    <3>1. f[n - 1] \in S
      BY <2>0
    <3> QED
      BY <3>1
  <2> HIDE DEF g
  <2>3. \A n \in 0..MaxKey : f[n] = IF n = 0 THEN start ELSE WG!Round(e, c, f[n - 1])
    <3>1. ASSUME NEW n \in 0..MaxKey, n # 0 PROVE f[n] = WG!Round(e, c, f[n - 1])
      <4>1. n \in 1..MaxKey
        BY <2>0, <3>1
      <4> QED
        BY <2>1, <2>2, <4>1
    <3> QED
      BY <2>1, <3>1
  <2>4. f = Body(f)
    BY <2>3
  <2> QED
    BY <2>4
<1>4. merged = Body(merged)
  BY <1>3
<1>5. WG!diffPeers(e, c) = merged[MaxKey].diff
  BY DEF WG!diffPeers, start, Unmerged
<1> HIDE DEF merged
<1>6. merged[0] = start /\ \A n \in 1..MaxKey : merged[n] = WG!Round(e, c, merged[n - 1])
  BY <1>4, KeysAreNumbers
<1>7. \A n \in 0..MaxKey : merged[n] \in S
  <2> DEFINE T == {n \in Nat : merged[n] \in S}
  <2>1. MaxKey \in Nat /\ 0 \in T
    BY <1>1, <1>6, KeysAreNumbers
  <2>2. ASSUME NEW n \in 1..MaxKey, n - 1 \in T PROVE n \in T
    <3>1. WG!Round(e, c, merged[n - 1]) \in S
      BY <2>2, RoundKeepsMerges DEF S
    <3> QED
      BY <1>6, <2>1, <3>1
  <2> HIDE DEF T
  <2>3. \A n \in 0..MaxKey : n \in T
    BY <2>1, <2>2, Upwards
  <2> QED
    BY <2>3 DEF T
<1>8. merged \in [0..MaxKey -> S]
  BY <1>4, <1>7
<1> QED
  BY <1>5, <1>6, <1>8 DEF S, start

\* The changes that are noted are those of the keys that were taken.
Left(r) == r.expected \cup r.current
Names(e, c, changes, left) ==
    /\ \A i \in 1..Len(changes) : Needed(e, c, changes[i]) /\ changes[i].key \notin left
    /\ \A i, j \in 1..Len(changes) : changes[i].key = changes[j].key => i = j
    /\ \A k \in WG!PublicKeys \ left :
           e[k] # c[k] => \E i \in 1..Len(changes) : changes[i].key = k

LEMMA RoundKeepsNames ==
    ASSUME NEW e \in WG!Devices, NEW c \in WG!Devices, NEW r \in Merges(e, c),
           NEW n \in Nat, Names(e, c, r.diff, Left(r)), \A k \in Left(r) : k > n
    PROVE  LET s == WG!Round(e, c, r)
           IN  Names(e, c, s.diff, Left(s)) /\ \A k \in Left(s) : k > n + 1
<1> DEFINE s == WG!Round(e, c, r)
<1>1. r \in Merging /\ r.expected \subseteq WG!KeysOf(e) /\ r.current \subseteq WG!KeysOf(c)
      /\ InStep(e, c, r)
  BY DEF Merges
<1>2. CASE Left(r) = {}
  <2>1. s = r
    BY <1>2, RoundAtEnd DEF Left
  <2> QED
    BY <1>2, <2>1
<1>3. CASE Left(r) # {}
  <2>1. PICK k \in Left(r), change \in Changes :
            /\ \A l \in Left(r) : k <= l
            /\ change.key = k
            /\ e[k] # c[k] => Needed(e, c, change)
            /\ s = [expected |-> r.expected \ {k}, current |-> r.current \ {k},
                    diff |-> IF e[k] # c[k] THEN Append(r.diff, change) ELSE r.diff]
    BY <1>1, <1>3, RoundTakesLeast DEF Left
  <2> HIDE DEF s
  <2>2. Left(s) = Left(r) \ {k}
    BY <2>1 DEF Left
  <2>3. Left(r) \subseteq WG!PublicKeys /\ Left(r) \subseteq Nat
    BY <1>1, KeysAreNumbers DEF Left, Merging
  <2>4. ASSUME NEW l \in Left(s) PROVE l > n + 1
    <3>1. k \in Nat /\ l \in Nat /\ l # k /\ k <= l /\ k > n
      BY <2>1, <2>2, <2>3
    <3> QED
      BY <3>1
  <2>5. r.diff \in Seq(Changes)
    BY <1>1 DEF Merging
  <2>6. CASE e[k] = c[k]
    <3>1. s.diff = r.diff
      BY <2>1, <2>6
    <3>2. Names(e, c, r.diff, Left(s))
      BY <2>2, <2>6 DEF Names
    <3> QED
      BY <2>4, <3>1, <3>2 DEF s
  <2>7. CASE e[k] # c[k]
    <3> DEFINE d == Append(r.diff, change)
               m == Len(r.diff)
    <3>1. s.diff = d
      BY <2>1, <2>7
    <3>2. /\ m \in Nat /\ Len(d) = m + 1 /\ d[m + 1] = change
          /\ \A i \in 1..m : d[i] = r.diff[i]
      BY <2>5
    <3> HIDE DEF d, m
    <3>3. ASSUME NEW i \in 1..m
          PROVE  Needed(e, c, d[i]) /\ d[i].key \notin Left(r)
      BY <3>2, <3>3 DEF Names, m
    <3>4. Needed(e, c, d[m + 1]) /\ d[m + 1].key = k
      BY <2>1, <2>7, <3>2
    <3>5. ASSUME NEW i \in 1..(m + 1)
          PROVE  Needed(e, c, d[i]) /\ d[i].key \notin Left(s)
      BY <2>2, <3>2, <3>3, <3>4
    <3>6. ASSUME NEW i \in 1..(m + 1), NEW j \in 1..(m + 1), d[i].key = d[j].key
          PROVE  i = j
      <4>1. CASE i \in 1..m /\ j \in 1..m
        BY <3>2, <3>6, <4>1 DEF Names, m
      <4>2. CASE i = m + 1 /\ j \in 1..m
        BY <2>1, <3>3, <3>4, <3>6, <4>2
      <4>3. CASE i \in 1..m /\ j = m + 1
        BY <2>1, <3>3, <3>4, <3>6, <4>3
      <4> QED
        BY <3>2, <4>1, <4>2, <4>3
    <3>7. ASSUME NEW l \in WG!PublicKeys \ Left(s), e[l] # c[l]
          PROVE  \E i \in 1..(m + 1) : d[i].key = l
      <4>1. CASE l = k
        BY <3>2, <3>4, <4>1
      <4>2. CASE l # k
        <5>1. l \in WG!PublicKeys \ Left(r)
          BY <2>2, <4>2
        <5>2. PICK i \in 1..m : r.diff[i].key = l
          BY <3>7, <5>1 DEF Names, m
        <5> QED
          BY <3>2, <5>2
      <4> QED
        BY <4>1, <4>2
    <3>8. Names(e, c, d, Left(s))
      BY <3>2, <3>5, <3>6, <3>7 DEF Names
    <3> QED
      BY <2>4, <3>1, <3>8 DEF s
  <2> QED
    BY <2>6, <2>7
<1> QED
  BY <1>2, <1>3

(* The difference has one change for every peer that the configurations have otherwise. *)
LEMMA DiffNamesChanges ==
    ASSUME NEW e \in WG!Devices, NEW c \in WG!Devices
    PROVE  WG!diffPeers(e, c) \in Seq(Changes) /\ Names(e, c, WG!diffPeers(e, c), {})
<1>1. PICK f \in [0..MaxKey -> Merges(e, c)] :
          /\ f[0] = Unmerged(e, c)
          /\ \A n \in 1..MaxKey : f[n] = WG!Round(e, c, f[n - 1])
          /\ WG!diffPeers(e, c) = f[MaxKey].diff
  BY DiffIsMerged
<1> DEFINE T == {n \in Nat : Names(e, c, f[n].diff, Left(f[n])) /\ \A k \in Left(f[n]) : k > n}
<1>2. 0 \in T
  <2>1. f[0].diff = << >> /\ Left(f[0]) = WG!KeysOf(e) \cup WG!KeysOf(c)
    BY <1>1 DEF Unmerged, Left
  <2>2. \A k \in Left(f[0]) : k > 0
    BY <2>1, KeysAreNumbers DEF WG!KeysOf
  <2>3. ASSUME NEW k \in WG!PublicKeys \ Left(f[0]) PROVE e[k] = c[k]
    BY <2>1 DEF WG!KeysOf, WG!Has
  <2>4. Names(e, c, << >>, Left(f[0]))
    BY <2>3 DEF Names
  <2> QED
    BY <2>1, <2>2, <2>4
<1>3. ASSUME NEW n \in 1..MaxKey, n - 1 \in T PROVE n \in T
  <2> DEFINE r == f[n - 1]
  <2>1. n - 1 \in Nat /\ r \in Merges(e, c) /\ n \in Nat
    BY KeysAreNumbers
  <2>2. Names(e, c, r.diff, Left(r)) /\ \A k \in Left(r) : k > n - 1
    BY <1>3
  <2>3. f[n] = WG!Round(e, c, r)
    BY <1>1
  <2> HIDE DEF r
  <2>4. Names(e, c, f[n].diff, Left(f[n])) /\ \A k \in Left(f[n]) : k > (n - 1) + 1
    BY <2>1, <2>2, <2>3, RoundKeepsNames
  <2>5. (n - 1) + 1 = n
    BY <2>1
  <2> QED
    BY <2>1, <2>4, <2>5
<1>4. MaxKey \in Nat
  BY KeysAreNumbers
<1>5. MaxKey \in T
  <2> HIDE DEF T
  <2>1. \A n \in 0..MaxKey : n \in T
    BY <1>2, <1>3, <1>4, Upwards
  <2> QED
    BY <1>4, <2>1
<1> DEFINE r == f[MaxKey]
<1>6. r \in Merging /\ Names(e, c, r.diff, Left(r)) /\ \A k \in Left(r) : k > MaxKey
  BY <1>4, <1>5 DEF Merges
<1>7. Left(r) = {}
  BY <1>6, KeysAreNumbers DEF Left, Merging
<1>8. r.diff \in Seq(Changes)
  BY <1>6 DEF Merging
<1> QED
  BY <1>1, <1>6, <1>7, <1>8

-----------------------------------------------------------------------------
(* What a device makes of a difference *)

\* The device does for one key what the configuration says, p.
Does(d, k, p) ==
    /\ d[k] # WG!NoPeer <=> p # WG!NoPeer
    /\ p # WG!NoPeer =>
        /\ d[k].allowedIPs = p.allowedIPs
        /\ p.ep = WG!NilEp \/ d[k].ep = p.ep

LEMMA ImplementsIsDoes ==
    ASSUME NEW d, NEW e
    PROVE  WG!Implements(d, e) <=> \A k \in WG!PublicKeys : Does(d, k, e[k])
BY DEF WG!Implements, WG!Follows, Does, WG!Has

LEMMA FollowsIsDoes ==
    ASSUME NEW d, NEW e, NEW k
    PROVE  WG!Follows(d, e, k) <=> Does(d, k, e[k])
BY DEF WG!Follows, Does, WG!Has

LEMMA PeerRecords ==
    /\ \A p \in WG!PeerConfigs : p # WG!NoPeer /\ p.allowedIPs \in SUBSET IPs
                                 /\ p.ep \in Eps \cup {WG!NilEp}
    /\ \A ep \in Eps \cup {WG!NilEp}, ips \in SUBSET IPs :
           [ep |-> ep, allowedIPs |-> ips] \in WG!PeerConfigs
<1>1. "no peer" \notin IPs
  BY NodeAssumption DEF WG!DiffAssumption
<1>2. ASSUME NEW p \in WG!PeerConfigs PROVE p # WG!NoPeer /\ p.allowedIPs \in SUBSET IPs
  <2>1. p.allowedIPs \in SUBSET IPs
    BY DEF WG!PeerConfigs
  <2>2. WG!NoPeer.allowedIPs = {"no peer"}
    BY DEF WG!NoPeer
  <2> QED
    BY <1>1, <2>1, <2>2
<1> QED
  BY <1>2 DEF WG!PeerConfigs

(* A change that e needs makes its peer as e says and leaves no other peer worse. *)
LEMMA ChangeMakes ==
    ASSUME NEW d \in WG!Devices, NEW e \in WG!Devices, NEW c, NEW change,
           Needed(e, c, change)
    PROVE  LET dev == WG!ConfigurePeer(d, change)
           IN  /\ dev \in WG!Devices
               /\ Does(dev, change.key, e[change.key])
               /\ \A k \in WG!PublicKeys \ {change.key} :
                      WG!Disjoint(e) /\ Does(d, k, e[k]) => Does(dev, k, e[k])
<1> DEFINE dev == WG!ConfigurePeer(d, change)
           key == change.key
           p == change.peer
<1>1. key \in WG!PublicKeys /\ e[key] \in DevicePeers /\ d \in [WG!PublicKeys -> DevicePeers]
  BY DEF Needed, WG!Devices, DevicePeers
<1>2. CASE change.remove = TRUE
  <2>1. dev = [d EXCEPT ![key] = WG!NoPeer]
    BY <1>2 DEF WG!ConfigurePeer
  <2>2. e[key] = WG!NoPeer
    BY <1>2 DEF Needed, WG!Has
  <2>3. dev \in [WG!PublicKeys -> DevicePeers] /\ dev[key] = WG!NoPeer
        /\ \A k \in WG!PublicKeys \ {key} : dev[k] = d[k]
    BY <1>1, <2>1 DEF DevicePeers
  <2> HIDE DEF dev, key
  <2>4. Does(dev, key, e[key])
    BY <2>2, <2>3 DEF Does
  <2>5. ASSUME NEW k \in WG!PublicKeys \ {key}, Does(d, k, e[k]) PROVE Does(dev, k, e[k])
    BY <2>3, <2>5 DEF Does
  <2> QED
    BY <2>3, <2>4, <2>5 DEF dev, key, WG!Devices, DevicePeers
<1>3. CASE change.remove # TRUE
  <2>1. change.remove = FALSE /\ WG!Has(e, key) /\ p = e[key] /\ e[key] # WG!NoPeer
        /\ p \in WG!PeerConfigs
    BY <1>1, <1>3 DEF Needed, WG!Has, DevicePeers
  <2> DEFINE new == [ep |-> IF p.ep = WG!NilEp /\ WG!Has(d, key) THEN d[key].ep ELSE p.ep,
                     allowedIPs |-> p.allowedIPs]
  <2>2. dev[key] = new
    BY <1>1, <2>1 DEF WG!ConfigurePeer
  <2>3. ASSUME NEW k \in WG!PublicKeys \ {key}, d[k] = WG!NoPeer PROVE dev[k] = WG!NoPeer
    BY <1>1, <2>1, <2>3 DEF WG!ConfigurePeer, WG!Has
  <2>4. ASSUME NEW k \in WG!PublicKeys \ {key}, d[k] # WG!NoPeer
        PROVE  dev[k] = [d[k] EXCEPT !.allowedIPs = d[k].allowedIPs \ p.allowedIPs]
    BY <1>1, <2>1, <2>4 DEF WG!ConfigurePeer, WG!Has
  <2>5. dev = [k \in WG!PublicKeys |-> dev[k]]
    BY <2>1 DEF WG!ConfigurePeer
  <2> HIDE DEF dev, key, p
  <2>6. p.ep \in Eps \cup {WG!NilEp} /\ p.allowedIPs \in SUBSET IPs
    BY <2>1, PeerRecords
  <2>7. d[key] # WG!NoPeer => d[key].ep \in Eps \cup {WG!NilEp}
    BY <1>1, PeerRecords DEF DevicePeers
  <2>8. new \in WG!PeerConfigs
    <3>1. new.ep \in Eps \cup {WG!NilEp} /\ new.allowedIPs \in SUBSET IPs
      BY <2>6, <2>7 DEF WG!Has
    <3> QED
      BY <3>1 DEF WG!PeerConfigs
  <2>9. ASSUME NEW k \in WG!PublicKeys \ {key}, d[k] # WG!NoPeer
        PROVE  /\ dev[k] \in WG!PeerConfigs
               /\ dev[k].ep = d[k].ep /\ dev[k].allowedIPs = d[k].allowedIPs \ p.allowedIPs
    <3>1. d[k] \in WG!PeerConfigs
      BY <1>1, <2>9 DEF DevicePeers
    <3>2. dev[k] = [d[k] EXCEPT !.allowedIPs = d[k].allowedIPs \ p.allowedIPs]
      BY <2>4, <2>9
    <3> QED
      BY <3>1, <3>2 DEF WG!PeerConfigs
  <2>10. dev \in WG!Devices
    <3>1. ASSUME NEW k \in WG!PublicKeys PROVE dev[k] \in WG!PeerConfigs \cup {WG!NoPeer}
      BY <2>2, <2>3, <2>8, <2>9
    <3> QED
      BY <2>5, <3>1 DEF WG!Devices
  <2>11. Does(dev, key, e[key])
    <3>1. new # WG!NoPeer
      BY <2>8, PeerRecords
    <3> QED
      BY <2>1, <2>2, <3>1 DEF Does
  <2>12. ASSUME NEW k \in WG!PublicKeys \ {key}, WG!Disjoint(e), Does(d, k, e[k])
         PROVE  Does(dev, k, e[k])
    <3>1. CASE e[k] = WG!NoPeer
      BY <2>3, <2>12, <3>1 DEF Does
    <3>2. CASE e[k] # WG!NoPeer
      <4>1. d[k] # WG!NoPeer /\ d[k].allowedIPs = e[k].allowedIPs
            /\ (e[k].ep = WG!NilEp \/ d[k].ep = e[k].ep)
        BY <2>12, <3>2 DEF Does
      <4>2. e[k].allowedIPs \cap p.allowedIPs = {}
        BY <1>1, <2>1, <2>12, <3>2 DEF WG!Disjoint, WG!Has, key
      <4>3. dev[k].allowedIPs = e[k].allowedIPs
        BY <2>9, <4>1, <4>2
      <4>4. dev[k] # WG!NoPeer
        BY <2>9, <4>1, PeerRecords
      <4> QED
        BY <2>9, <4>1, <4>3, <4>4, <3>2 DEF Does
    <3> QED
      BY <3>1, <3>2
  <2> QED
    BY <2>10, <2>11, <2>12 DEF dev, key
<1> QED
  BY <1>2, <1>3

\* f is the device after every change of the difference.
Passes(f, d, diff, n) ==
    /\ f \in [0..n -> WG!Devices]
    /\ f[0] = IF diff.replacePeers THEN WG!NoPeers ELSE d
    /\ \A i \in 1..n : f[i] = WG!ConfigurePeer(f[i - 1], diff.peers[i])
    /\ WG!ConfigureDevice(d, diff, n) = f[n]

(* ConfigureDevice is the changes of the difference, one after the other.     *)
LEMMA DeviceIsMade ==
    ASSUME NEW d \in WG!Devices, NEW e \in WG!Devices, NEW c, NEW diff,
           diff.peers \in Seq(Changes), diff.replacePeers \in BOOLEAN,
           \A i \in 1..Len(diff.peers) : Needed(e, c, diff.peers[i]),
           NEW n \in 0..Len(diff.peers)
    PROVE  \E f : Passes(f, d, diff, n)
<1> DEFINE S == WG!Devices
           start == IF diff.replacePeers THEN WG!NoPeers ELSE d
           g == [i \in 1..n |-> [s \in S |-> WG!ConfigurePeer(s, diff.peers[i])]]
           Body(f) == [i \in 0..n |-> IF i = 0 THEN start
                                      ELSE WG!ConfigurePeer(f[i - 1], diff.peers[i])]
           dev == CHOOSE f : f = Body(f)
<1>1. start \in S
  BY DEF WG!NoPeers, WG!Devices
<1>2. 1..n \subseteq 1..Len(diff.peers)
  OBVIOUS
<1>0. n \in Nat
  OBVIOUS
<1>3. ASSUME NEW i \in 1..n, NEW s \in S PROVE WG!ConfigurePeer(s, diff.peers[i]) \in S
  <2>1. Needed(e, c, diff.peers[i])
    BY <1>2
  <2> QED
    BY <2>1, ChangeMakes
<1> HIDE DEF S, start
<1>4. g \in [1..n -> [S -> S]]
  BY <1>3
<1>5. \E f : f = Body(f)
  <2>1. PICK f \in [0..n -> S] : f[0] = start /\ \A i \in 1..n : f[i] = g[i][f[i - 1]]
    <3> HIDE DEF g
    <3> QED
      BY <1>0, <1>1, <1>4, Iteration
  <2>2. ASSUME NEW i \in 1..n PROVE g[i][f[i - 1]] = WG!ConfigurePeer(f[i - 1], diff.peers[i])
    <3>1. f[i - 1] \in S
      BY <1>0
    <3> QED
      BY <3>1
  <2> HIDE DEF g
  <2>3. ASSUME NEW i \in 0..n
        PROVE  f[i] = IF i = 0 THEN start ELSE WG!ConfigurePeer(f[i - 1], diff.peers[i])
    <3>1. CASE i = 0
      BY <2>1, <3>1
    <3>2. CASE i # 0
      <4>1. i \in 1..n
        BY <1>0, <3>2
      <4> QED
        BY <2>1, <2>2, <3>2, <4>1
    <3> QED
      BY <3>1, <3>2
  <2>4. f = Body(f)
    BY <2>3
  <2> QED
    BY <2>4
<1>6. dev = Body(dev)
  BY <1>5
<1>7. WG!ConfigureDevice(d, diff, n) = dev[n]
  BY DEF WG!ConfigureDevice, start
<1> HIDE DEF dev
<1>8. dev[0] = start /\ \A i \in 1..n : dev[i] = WG!ConfigurePeer(dev[i - 1], diff.peers[i])
  BY <1>0, <1>6
<1>9. \A i \in 0..n : dev[i] \in S
  <2> DEFINE T == {i \in Nat : dev[i] \in S}
  <2>1. 0 \in T
    BY <1>1, <1>8
  <2>2. ASSUME NEW i \in 1..n, i - 1 \in T PROVE i \in T
    <3>1. WG!ConfigurePeer(dev[i - 1], diff.peers[i]) \in S
      BY <1>3, <2>2
    <3> QED
      BY <1>0, <1>8, <3>1
  <2> HIDE DEF T
  <2>3. \A i \in 0..n : i \in T
    BY <1>0, <2>1, <2>2, Upwards
  <2> QED
    BY <2>3 DEF T
<1>10. dev \in [0..n -> S]
  BY <1>6, <1>9
<1> QED
  BY <1>7, <1>8, <1>10 DEF S, start, Passes

\* The peers that the first n changes of a difference name.
Named(diff, n) == {diff.peers[i].key : i \in 1..n}

(* After n changes of the difference from c to e the device does what e says for the    *)
(* peers they name, and still does for the peers it did it for that need no change,     *)
(* whatever it has for the others.                                                       *)
LEMMA DiffMakes ==
    ASSUME NEW d \in WG!Devices, NEW e \in WG!Devices, NEW c \in WG!Devices, NEW keys \in BOOLEAN,
           WG!Disjoint(e),
           NEW n \in 0..Len(WG!diffConfigs(e, c, keys).peers)
    PROVE  LET diff == WG!diffConfigs(e, c, keys)
               from == IF diff.replacePeers THEN WG!NoPeers ELSE d
               dev  == WG!ConfigureDevice(d, diff, n)
           IN  /\ dev \in WG!Devices
               /\ \A k \in Named(diff, n) : Does(dev, k, e[k])
               /\ \A k \in WG!PublicKeys :
                      e[k] = c[k] /\ Does(from, k, e[k]) => Does(dev, k, e[k])
<1> DEFINE diff == WG!diffConfigs(e, c, keys)
           from == IF diff.replacePeers THEN WG!NoPeers ELSE d
<1>1. diff.peers = WG!diffPeers(e, c) /\ diff.replacePeers \in BOOLEAN
  BY DEF WG!diffConfigs
<1>2. diff.peers \in Seq(Changes) /\ Names(e, c, diff.peers, {})
  BY <1>1, DiffNamesChanges
<1> HIDE DEF diff
<1>3. \A i \in 1..Len(diff.peers) : Needed(e, c, diff.peers[i])
  BY <1>2 DEF Names
<1>4. n \in 0..Len(diff.peers)
  BY DEF diff
<1>10. PICK f : Passes(f, d, diff, n)
  <2>1. diff.replacePeers \in BOOLEAN
    BY <1>1
  <2>2. diff.peers \in Seq(Changes)
    BY <1>2
  <2> QED
    BY <1>3, <1>4, <2>1, <2>2, DeviceIsMade
<1>5. /\ f \in [0..n -> WG!Devices]
      /\ f[0] = from
      /\ \A i \in 1..n : f[i] = WG!ConfigurePeer(f[i - 1], diff.peers[i])
      /\ WG!ConfigureDevice(d, diff, n) = f[n]
  BY <1>10 DEF Passes
<1> HIDE DEF from
<1> DEFINE Good(i) ==
               /\ \A k \in Named(diff, i) : Does(f[i], k, e[k])
               /\ \A k \in WG!PublicKeys : e[k] = c[k] /\ Does(from, k, e[k]) => Does(f[i], k, e[k])
           T == {i \in Nat : Good(i)}
<1>6. n \in Nat /\ 1..n \subseteq 1..Len(diff.peers)
  BY <1>2, <1>4
<1>7. 0 \in T
  BY <1>5 DEF Named
<1>8. ASSUME NEW i \in 1..n, i - 1 \in T PROVE i \in T
  <2> DEFINE ch == diff.peers[i]
             old == f[i - 1]
  <2>1. Good(i - 1) /\ old \in WG!Devices /\ i \in Nat
    BY <1>5, <1>6, <1>8
  <2>2. Needed(e, c, ch) /\ f[i] = WG!ConfigurePeer(old, ch)
    BY <1>3, <1>5, <1>6
  <2>3. /\ Does(f[i], ch.key, e[ch.key])
        /\ \A k \in WG!PublicKeys \ {ch.key} : Does(old, k, e[k]) => Does(f[i], k, e[k])
    <3> HIDE DEF old, ch
    <3> QED
      BY <2>1, <2>2, ChangeMakes
  <2>4. e[ch.key] # c[ch.key]
    BY <2>2 DEF Needed
  <2>5. Named(diff, i) = Named(diff, i - 1) \cup {ch.key}
    BY <2>1 DEF Named
  <2>6. Named(diff, i) \subseteq WG!PublicKeys
    BY <1>3, <1>6, <2>1 DEF Named, Needed
  <2> HIDE DEF ch
  <2>7. ASSUME NEW k \in Named(diff, i) PROVE Does(f[i], k, e[k])
    BY <2>1, <2>3, <2>5, <2>6
  <2>8. ASSUME NEW k \in WG!PublicKeys, e[k] = c[k], Does(from, k, e[k]) PROVE Does(f[i], k, e[k])
    BY <2>1, <2>3, <2>4, <2>8
  <2> QED
    BY <2>1, <2>7, <2>8
<1>9. n \in T
  <2> HIDE DEF T
  <2>1. \A i \in 0..n : i \in T
    BY <1>6, <1>7, <1>8, Upwards
  <2> QED
    BY <1>6, <2>1
<1> QED
  BY <1>5, <1>6, <1>9 DEF from, diff

(* All the changes of the difference name every peer that needs one.          *)
LEMMA DiffNamesAll ==
    ASSUME NEW e \in WG!Devices, NEW c \in WG!Devices, NEW keys \in BOOLEAN
    PROVE  LET diff == WG!diffConfigs(e, c, keys)
           IN  /\ diff.peers = WG!diffPeers(e, c)
               /\ diff.replacePeers = (c = WG!NoPeers)
               /\ Len(diff.peers) \in Nat
               /\ \A k \in WG!PublicKeys : e[k] # c[k] => k \in Named(diff, Len(diff.peers))
               /\ diff.peers = << >> => e = c
               /\ ~diff.hasDiff => e = c /\ keys
<1> DEFINE diff == WG!diffConfigs(e, c, keys)
<1>1. diff.peers = WG!diffPeers(e, c) /\ diff.replacePeers = (c = WG!NoPeers)
      /\ diff.hasDiff = (~keys \/ WG!diffPeers(e, c) # << >>)
  BY DEF WG!diffConfigs
<1> HIDE DEF diff
<1>2. diff.peers \in Seq(Changes) /\ Names(e, c, diff.peers, {})
  BY <1>1, DiffNamesChanges
<1>3. \A k \in WG!PublicKeys : e[k] # c[k] => k \in Named(diff, Len(diff.peers))
  BY <1>2 DEF Names, Named
<1>4. ASSUME diff.peers = << >> PROVE e = c
  <2>1. Named(diff, Len(diff.peers)) = {}
    BY <1>4 DEF Named
  <2>2. \A k \in WG!PublicKeys : e[k] = c[k]
    BY <1>3, <2>1
  <2> QED
    BY <2>2 DEF WG!Devices
<1>5. Len(diff.peers) \in Nat
  BY <1>2
<1>6. ASSUME ~diff.hasDiff PROVE e = c /\ keys
  BY <1>1, <1>4, <1>6
<1> QED
  BY <1>1, <1>3, <1>4, <1>5, <1>6 DEF diff

(* The peers that a difference names are those that the configurations have otherwise. *)
LEMMA DiffNamesChanged ==
    ASSUME NEW e \in WG!Devices, NEW c \in WG!Devices, NEW keys \in BOOLEAN
    PROVE  WG!KeysIn(WG!diffConfigs(e, c, keys)) = {k \in WG!PublicKeys : e[k] # c[k]}
<1> DEFINE diff == WG!diffConfigs(e, c, keys)
<1>1. diff.peers = WG!diffPeers(e, c)
  BY DEF WG!diffConfigs
<1> HIDE DEF diff
<1>2. Names(e, c, diff.peers, {})
  BY <1>1, DiffNamesChanges
<1>3. WG!KeysIn(diff) = {k \in WG!PublicKeys : e[k] # c[k]}
  BY <1>2 DEF Names, Needed, WG!KeysIn
<1> QED
  BY <1>3 DEF diff

(* An empty device does what a configuration says of the peers it does not have. *)
LEMMA NoPeersDoes ==
    ASSUME NEW k \in WG!PublicKeys
    PROVE  Does(WG!NoPeers, k, WG!NoPeers[k])
BY DEF Does, WG!NoPeers

PairChosen ==
    turn = "diff" =>
        /\ current \in WG!Devices /\ expected \in WG!Devices /\ before \in WG!Devices
        /\ WG!Disjoint(current) /\ WG!Disjoint(expected)
        /\ WG!Implements(before, current)

LEMMA ChosenDiffImplements == PairChosen => DiffImplements
<1> SUFFICES ASSUME PairChosen, turn = "diff" PROVE DiffImplements
  BY DEF DiffImplements
<1> DEFINE diff == WG!diffConfigs(expected, current, TRUE)
           peerDiff == WG!diffPeers(expected, current)
           n == Len(diff.peers)
           from == IF diff.replacePeers THEN WG!NoPeers ELSE before
           dev == WG!ConfigureDevice(before, diff, n)
<1>1. /\ current \in WG!Devices /\ expected \in WG!Devices /\ before \in WG!Devices
      /\ WG!Disjoint(expected) /\ WG!Implements(before, current)
  BY DEF PairChosen
<1>2. /\ diff.peers = peerDiff
      /\ diff.replacePeers = (current = WG!NoPeers)
      /\ n \in Nat
      /\ \A k \in WG!PublicKeys : expected[k] # current[k] => k \in Named(diff, n)
      /\ diff.peers = << >> => expected = current
  BY <1>1, DiffNamesAll
<1>3. peerDiff \in Seq(Changes) /\ Names(expected, current, peerDiff, {})
  BY <1>1, DiffNamesChanges
<1>4. /\ \A k \in Named(diff, n) : Does(dev, k, expected[k])
      /\ \A k \in WG!PublicKeys :
             expected[k] = current[k] /\ Does(from, k, expected[k]) => Does(dev, k, expected[k])
  <2>1. n \in 0..Len(diff.peers)
    <3>1. \A m \in Nat : m \in 0..m
      OBVIOUS
    <3> HIDE DEF diff
    <3> QED
      BY <1>2, <3>1
  <2> QED
    BY <1>1, <2>1, DiffMakes
<1> HIDE DEF diff, dev, peerDiff, n
<1>5. ASSUME NEW k \in WG!PublicKeys PROVE Does(dev, k, expected[k])
  <2>1. CASE expected[k] # current[k]
    BY <1>2, <1>4, <2>1
  <2>2. CASE expected[k] = current[k]
    <3>1. Does(from, k, current[k])
      BY <1>1, <1>2, NoPeersDoes, ImplementsIsDoes
    <3> HIDE DEF from
    <3> QED
      BY <1>4, <2>2, <3>1
  <2> QED
    BY <2>1, <2>2
<1>6. WG!Implements(dev, expected)
  BY <1>5, ImplementsIsDoes
<1>7. \A i, j \in 1..Len(peerDiff) : peerDiff[i].key = peerDiff[j].key => i = j
  BY <1>3 DEF Names
<1>8. \A i \in 1..Len(peerDiff) : expected[peerDiff[i].key] # current[peerDiff[i].key]
  BY <1>3 DEF Names, Needed
<1>9. peerDiff = << >> => expected = current
  BY <1>2
<1> QED
  BY <1>6, <1>7, <1>8, <1>9 DEF DiffImplements, diff, dev, peerDiff, n

(* The difference between any two configurations, given to any device that implements   *)
(* the one, makes it implement the other, names each peer that differs once and no other *)
(* (util.go:84-197).                                                                     *)
THEOREM DifferencesImplement == MCSpec => []DiffImplements
<1>1. MCInit => PairChosen
  <2> SUFFICES ASSUME MCInit, turn = "diff" PROVE PairChosen
    BY DEF PairChosen
  <2>1. current \in DiffConfigs /\ expected = current /\ before = current
    BY DEF MCInit
  <2>2. current \in WG!Devices /\ WG!Disjoint(current)
    BY <2>1 DEF DiffConfigs, DiffDevices
  <2>3. WG!Implements(current, current)
    BY ImplementsIsDoes DEF Does
  <2> QED
    BY <2>1, <2>2, <2>3 DEF PairChosen
<1>2. PairChosen /\ [MCNext]_<<turn, vars, discoVars, peerVars, wgVars, diffVars, tunnelVars,
                              extraVars>> => PairChosen'
  <2> SUFFICES ASSUME PairChosen, turn = "diff", turn' = turn,
                      ChoosePair \/ UNCHANGED diffVars
               PROVE  PairChosen'
    BY DEF MCNext, PairChosen
  <2>1. CASE ChoosePair
    <3>1. /\ before' \in WG!Devices /\ WG!Implements(before', current) /\ current' = current
          /\ expected' \in WG!Devices /\ WG!Disjoint(expected')
      BY <2>1 DEF ChoosePair, DiffConfigs, DiffDevices
    <3> QED
      BY <3>1 DEF PairChosen
  <2>2. CASE UNCHANGED diffVars
    BY <2>2 DEF PairChosen, diffVars
  <2> QED
    BY <2>1, <2>2
<1> QED
  BY <1>1, <1>2, ChosenDiffImplements, PTL DEF MCSpec

-----------------------------------------------------------------------------
(* The engine and its device *)

Settled == step \in {"addresses", "routes"} \/ (step = "idle" /\ ~failed /\ config # WG!NoConfig)

PeersInv ==
    /\ device \in WG!Devices /\ prevConfig \in WG!Devices /\ keyed \in BOOLEAN
    /\ config \in Configs \cup {WG!NoConfig}
    /\ step \in {"idle", "wireguard", "addresses", "routes"} /\ failed \in BOOLEAN
    /\ doubtful \in SUBSET WG!PublicKeys /\ partial \in 0..MaxPartial
    /\ step # "idle" => config \in Configs
    /\ ~keyed => prevConfig = WG!NoPeers
    /\ keyed => \A k \in WG!PublicKeys \ doubtful : Does(device, k, prevConfig[k])
    /\ Settled => keyed /\ prevConfig = config.peers

LEMMA ConfigsAreDevices ==
    /\ \A c \in Configs : c.peers \in WG!Devices /\ WG!Disjoint(c.peers)
                          /\ c.addrs \in SUBSET WG!Addresses
    /\ \A c \in Configs : c = [peers |-> c.peers, addrs |-> c.addrs]
    /\ MaxPartial \in Nat
BY NodeAssumption DEF WG!Assumption

(* After n changes the device does what the configuration says of the peers they name, and   *)
(* what it said before of those that are not to change and are not in doubt.                 *)
LEMMA ChangesKeep ==
    ASSUME PeersInv, step = "wireguard", NEW n \in 0..Len(WG!Diff.peers)
    PROVE  LET dev == WG!ConfigureDevice(device, WG!Diff, n)
           IN  /\ dev \in WG!Devices
               /\ \A k \in Named(WG!Diff, n) : Does(dev, k, config.peers[k])
               /\ \A k \in WG!PublicKeys :
                      /\ WG!Diff.replacePeers \/ (keyed /\ k \notin doubtful)
                      /\ config.peers[k] = prevConfig[k]
                      => Does(dev, k, prevConfig[k])
<1> DEFINE e == config.peers
           diff == WG!Diff
           from == IF diff.replacePeers THEN WG!NoPeers ELSE device
           dev == WG!ConfigureDevice(device, diff, n)
<1>1. device \in WG!Devices /\ prevConfig \in WG!Devices /\ keyed \in BOOLEAN
      /\ e \in WG!Devices /\ WG!Disjoint(e)
  BY ConfigsAreDevices DEF PeersInv
<1>2. diff = WG!diffConfigs(e, prevConfig, keyed)
  BY DEF WG!Diff
<1>3. n \in 0..Len(WG!diffConfigs(e, prevConfig, keyed).peers)
  BY <1>2
<1>4. /\ dev \in WG!Devices
      /\ \A k \in Named(diff, n) : Does(dev, k, e[k])
      /\ \A k \in WG!PublicKeys :
             e[k] = prevConfig[k] /\ Does(from, k, e[k]) => Does(dev, k, e[k])
  BY <1>1, <1>2, <1>3, DiffMakes
<1>5. diff.replacePeers = (prevConfig = WG!NoPeers)
  BY <1>1, <1>2, DiffNamesAll
<1> HIDE DEF e, diff, dev
<1>6. ASSUME NEW k \in WG!PublicKeys, diff.replacePeers \/ (keyed /\ k \notin doubtful),
             e[k] = prevConfig[k]
      PROVE  Does(dev, k, prevConfig[k])
  <2>1. CASE diff.replacePeers
    <3>1. Does(WG!NoPeers, k, e[k])
      BY <1>5, <1>6, <2>1, NoPeersDoes
    <3> QED
      BY <1>4, <1>6, <2>1, <3>1
  <2>2. CASE ~diff.replacePeers
    <3>1. Does(device, k, e[k])
      BY <1>6, <2>2 DEF PeersInv
    <3> QED
      BY <1>4, <1>6, <2>2, <3>1
  <2> QED
    BY <2>1, <2>2
<1> QED
  BY <1>4, <1>6 DEF e, diff, dev

LEMMA WireguardKeepsPeers ==
    ASSUME PeersInv, WG!NoDiff \/ WG!reconfigWireguard \/ WG!WireguardFails
                     \/ \E n \in 0..MaxKey : WG!WireguardFailsHalfway(n)
    PROVE  PeersInv'
<1> DEFINE e == config.peers
           n == Len(WG!Diff.peers)
<1>1. step = "wireguard" /\ e \in WG!Devices /\ prevConfig \in WG!Devices /\ keyed \in BOOLEAN
      /\ config \in Configs /\ doubtful \in SUBSET WG!PublicKeys
  BY ConfigsAreDevices DEF PeersInv, WG!NoDiff, WG!reconfigWireguard, WG!WireguardFails,
                           WG!WireguardFailsHalfway
<1>2. /\ WG!Diff.replacePeers = (prevConfig = WG!NoPeers)
      /\ n \in Nat
      /\ \A k \in WG!PublicKeys : e[k] # prevConfig[k] => k \in Named(WG!Diff, n)
      /\ ~WG!Diff.hasDiff => e = prevConfig /\ keyed
  BY <1>1, DiffNamesAll DEF WG!Diff
<1>7. WG!KeysIn(WG!Diff) = {k \in WG!PublicKeys : e[k] # prevConfig[k]}
  BY <1>1, DiffNamesChanged DEF WG!Diff
<1>3. CASE WG!NoDiff
  BY <1>2, <1>3 DEF WG!NoDiff, PeersInv, Settled
<1>4. CASE WG!WireguardFails
  BY <1>4 DEF WG!WireguardFails, PeersInv, Settled
<1>5. CASE WG!reconfigWireguard
  <2> DEFINE dev == WG!ConfigureDevice(device, WG!Diff, n)
  <2>1. device' = dev /\ prevConfig' = e /\ keyed' = TRUE /\ step' = "addresses"
        /\ doubtful' = (IF WG!Diff.replacePeers THEN {} ELSE doubtful \ WG!KeysIn(WG!Diff))
        /\ UNCHANGED <<config, failed, partial>>
    BY <1>5 DEF WG!reconfigWireguard
  <2>2. n \in 0..n
    BY <1>2
  <2>3. /\ dev \in WG!Devices
        /\ \A k \in Named(WG!Diff, n) : Does(dev, k, e[k])
        /\ \A k \in WG!PublicKeys :
               /\ WG!Diff.replacePeers \/ (keyed /\ k \notin doubtful)
               /\ e[k] = prevConfig[k]
               => Does(dev, k, prevConfig[k])
    BY <1>1, <2>2, ChangesKeep
  <2> HIDE DEF dev, n
  <2>4. keyed \/ WG!Diff.replacePeers
    BY <1>1, <1>2 DEF PeersInv
  <2>5. ASSUME NEW k \in WG!PublicKeys \ doubtful' PROVE Does(dev, k, e[k])
    <3>1. CASE e[k] # prevConfig[k]
      BY <1>2, <2>3, <3>1
    <3>2. CASE e[k] = prevConfig[k]
      <4>1. WG!Diff.replacePeers \/ (keyed /\ k \notin doubtful)
        BY <1>7, <2>1, <2>4, <3>2
      <4> QED
        BY <2>3, <3>2, <4>1
    <3> QED
      BY <3>1, <3>2
  <2>6. doubtful' \in SUBSET WG!PublicKeys
    BY <1>1, <2>1
  <2> QED
    BY <1>1, <2>1, <2>3, <2>5, <2>6 DEF PeersInv, Settled
<1>6. CASE \E m \in 0..MaxKey : WG!WireguardFailsHalfway(m)
  <2> PICK m \in 0..MaxKey : WG!WireguardFailsHalfway(m)
    BY <1>6
  <2> DEFINE dev == WG!ConfigureDevice(device, WG!Diff, m)
  <2>1. device' = dev /\ step' = "idle" /\ failed' = TRUE /\ m < n
        /\ doubtful' = doubtful \cup WG!KeysIn(WG!Diff)
        /\ partial < MaxPartial /\ partial' = partial + 1
        /\ UNCHANGED <<config, prevConfig, keyed>>
    BY DEF WG!WireguardFailsHalfway
  <2>2. m \in 0..n
    BY <1>2, <2>1, KeysAreNumbers
  <2>3. /\ dev \in WG!Devices
        /\ \A k \in WG!PublicKeys :
               /\ WG!Diff.replacePeers \/ (keyed /\ k \notin doubtful)
               /\ e[k] = prevConfig[k]
               => Does(dev, k, prevConfig[k])
    BY <1>1, <2>2, ChangesKeep
  <2> HIDE DEF dev, n
  <2>4. ASSUME keyed, NEW k \in WG!PublicKeys \ doubtful' PROVE Does(dev, k, prevConfig[k])
    BY <1>7, <2>1, <2>3, <2>4
  <2>5. partial' \in 0..MaxPartial /\ doubtful' \in SUBSET WG!PublicKeys
    BY <1>1, <1>7, <2>1, ConfigsAreDevices DEF PeersInv
  <2> QED
    BY <1>1, <2>1, <2>3, <2>4, <2>5 DEF PeersInv, Settled
<1> QED
  BY <1>3, <1>4, <1>5, <1>6

LEMMA OthersKeepPeers ==
    ASSUME PeersInv, (\E c \in Configs : WG!Reconfig(c)) \/ WG!reconfigRoutes \/ WG!Restart
                     \/ (\E bad \in SUBSET WG!Addresses : WG!reconfigAddresses(bad))
                     \/ UNCHANGED WG!vars
    PROVE  PeersInv'
<1>1. CASE \E c \in Configs : WG!Reconfig(c)
  <2>1. config' \in Configs /\ step' = "wireguard" /\ failed' = FALSE
        /\ UNCHANGED <<device, prevConfig, keyed, doubtful, partial>>
    BY <1>1 DEF WG!Reconfig
  <2> QED
    BY <2>1 DEF PeersInv, Settled
<1>2. CASE WG!reconfigRoutes
  <2>1. step = "routes" /\ step' = "idle"
        /\ UNCHANGED <<device, ifAddrs, prevConfig, keyed, config, doubtful, partial>>
        /\ \E bad : failed' = (failed \/ bad # {})
    BY <1>2, Zenon DEF WG!reconfigRoutes
  <2>2. failed' \in BOOLEAN
    BY <2>1
  <2> QED
    BY <2>1, <2>2 DEF PeersInv, Settled
<1>3. CASE WG!Restart
  <2>1. prevConfig' = WG!NoPeers /\ keyed' = FALSE /\ step' = "idle" /\ failed' = TRUE
        /\ UNCHANGED <<device, config, doubtful, partial>>
    BY <1>3 DEF WG!Restart
  <2>2. WG!NoPeers \in WG!Devices
    BY DEF WG!NoPeers, WG!Devices
  <2> QED
    BY <2>1, <2>2 DEF PeersInv, Settled
<1>4. CASE \E bad \in SUBSET WG!Addresses : WG!reconfigAddresses(bad)
  <2> PICK bad \in SUBSET WG!Addresses : WG!reconfigAddresses(bad)
    BY <1>4
  <2>1. step = "addresses" /\ step' = "routes" /\ failed' = (failed \/ bad # {})
        /\ UNCHANGED <<device, prevConfig, keyed, config, doubtful, partial>>
    BY Zenon DEF WG!reconfigAddresses
  <2>2. failed' \in BOOLEAN
    BY <2>1
  <2> QED
    BY <2>1, <2>2 DEF PeersInv, Settled
<1>5. CASE UNCHANGED WG!vars
  BY <1>5 DEF WG!vars, PeersInv, Settled
<1> QED
  BY <1>1, <1>2, <1>3, <1>4, <1>5

-----------------------------------------------------------------------------
(* The addresses and routes of the interface *)

ForPeers == {r.dst : r \in {r \in routes : r.scope # "host"}}

RoutesInv ==
    /\ ifAddrs \in SUBSET WG!Addresses
    /\ routes \in SUBSET [dst : WG!Dsts, scope : WG!Scopes]
    /\ \A r \in routes : r.scope = "host" => r.dst \in ifAddrs
    /\ \A addr \in ifAddrs : WG!Route(addr, "host") \in routes
    /\ WG!Route(Multicast, "universe") \in routes
    /\ step = "routes" /\ ~failed => ifAddrs = config.addrs
    /\ step = "idle" /\ ~failed /\ config # WG!NoConfig =>
           ifAddrs = config.addrs /\ ForPeers = WG!Desired \cup {Multicast}

LEMMA Destinations ==
    /\ IPs \subseteq WG!Dsts /\ WG!Addresses \subseteq WG!Dsts /\ Multicast \in WG!Dsts
    /\ \A addr \in WG!Addresses : Link[addr] # NoRoute => Link[addr] \in WG!Dsts
    /\ WG!Addresses \cap IPs = {}
BY NodeAssumption DEF WG!Assumption, WG!Dsts

LEMMA RouteFields ==
    \A dst, scope : WG!Route(dst, scope).dst = dst /\ WG!Route(dst, scope).scope = scope
BY DEF WG!Route

LEMMA RouteRecords ==
    /\ \A dst \in WG!Dsts, scope \in WG!Scopes :
           WG!Route(dst, scope) \in [dst : WG!Dsts, scope : WG!Scopes]
    /\ \A r \in [dst : WG!Dsts, scope : WG!Scopes] : r = WG!Route(r.dst, r.scope)
BY DEF WG!Route

(* The kernel's own routes are those of host scope to the addresses and some of link scope. *)
LEMMA KernelRoutes ==
    ASSUME NEW as \in SUBSET WG!Addresses
    PROVE  /\ WG!Kernel(as) \in SUBSET [dst : WG!Dsts, scope : WG!Scopes]
           /\ \A r \in WG!Kernel(as) : r.scope \in {"host", "link"}
           /\ \A addr : WG!Route(addr, "host") \in WG!Kernel(as) <=> addr \in as
<1>1. ASSUME NEW r \in WG!Kernel(as)
      PROVE  \/ \E addr \in as : r = WG!Route(addr, "host")
             \/ \E addr \in as : Link[addr] # NoRoute /\ r = WG!Route(Link[addr], "link")
  BY <1>1 DEF WG!Kernel
<1>2. "host" \in WG!Scopes /\ "link" \in WG!Scopes
  BY DEF WG!Scopes
<1>3. \A addr \in as : WG!Route(addr, "host") \in WG!Kernel(as)
  BY DEF WG!Kernel
<1>4. ASSUME NEW addr, WG!Route(addr, "host") \in WG!Kernel(as) PROVE addr \in as
  BY <1>1, <1>4 DEF WG!Route
<1>5. ASSUME NEW r \in WG!Kernel(as)
      PROVE  r \in [dst : WG!Dsts, scope : WG!Scopes] /\ r.scope \in {"host", "link"}
  <2>1. CASE \E addr \in as : r = WG!Route(addr, "host")
    <3>1. PICK addr \in as : r = [dst |-> addr, scope |-> "host"]
      BY <2>1 DEF WG!Route
    <3>2. addr \in WG!Dsts
      BY Destinations
    <3> QED
      BY <1>2, <3>1, <3>2
  <2>2. CASE \E addr \in as : Link[addr] # NoRoute /\ r = WG!Route(Link[addr], "link")
    <3>1. PICK addr \in as : Link[addr] # NoRoute /\ r = [dst |-> Link[addr], scope |-> "link"]
      BY <2>2 DEF WG!Route
    <3>2. Link[addr] \in WG!Dsts
      BY <3>1, Destinations
    <3> QED
      BY <1>2, <3>1, <3>2
  <2> QED
    BY <1>1, <2>1, <2>2
<1> QED
  BY <1>3, <1>4, <1>5

LEMMA AddressesKeepRoutes ==
    ASSUME PeersInv, RoutesInv, NEW bad \in SUBSET WG!Addresses, WG!reconfigAddresses(bad)
    PROVE  RoutesInv'
<1> DEFINE as == ifAddrs'
           old == WG!Kernel(ifAddrs)
           new == WG!Kernel(ifAddrs')
<1>1. /\ step = "addresses" /\ step' = "routes" /\ config' = config
      /\ ifAddrs' = (config.addrs \ (bad \ ifAddrs)) \cup (ifAddrs \cap bad)
      /\ routes' = (routes \ (old \ new)) \cup (new \ old)
  BY DEF WG!reconfigAddresses, WG!RoutesWith
<1>2. failed' = (failed \/ bad # {})
  BY DEF WG!reconfigAddresses
<1>3. as \in SUBSET WG!Addresses
  BY <1>1, ConfigsAreDevices DEF PeersInv, RoutesInv
<1>4. /\ new \in SUBSET [dst : WG!Dsts, scope : WG!Scopes]
      /\ \A r \in new : r.scope \in {"host", "link"}
      /\ \A addr : WG!Route(addr, "host") \in new <=> addr \in as
  BY <1>3, KernelRoutes
<1>5. /\ \A r \in old : r.scope \in {"host", "link"}
      /\ \A addr : WG!Route(addr, "host") \in old <=> addr \in ifAddrs
  BY KernelRoutes DEF RoutesInv
<1>6. ~failed' => as = config.addrs
  BY <1>1, <1>2
<1> HIDE DEF as, old, new
<1>7. routes' \in SUBSET [dst : WG!Dsts, scope : WG!Scopes]
  BY <1>1, <1>4 DEF RoutesInv
<1>8. ASSUME NEW r \in routes', r.scope = "host" PROVE r.dst \in as
  <2>1. r = WG!Route(r.dst, "host")
    BY <1>7, <1>8, RouteFields, RouteRecords
  <2>2. CASE r \in new
    BY <1>4, <2>1, <2>2
  <2>3. CASE r \notin new
    <3>1. r \in routes /\ r \notin old
      BY <1>1, <2>3
    <3>2. r.dst \in ifAddrs
      BY <1>8, <3>1 DEF RoutesInv
    <3> QED
      BY <1>5, <2>1, <3>1, <3>2
  <2> QED
    BY <2>2, <2>3
<1>9. ASSUME NEW addr \in as PROVE WG!Route(addr, "host") \in routes'
  <2>1. WG!Route(addr, "host") \in new
    BY <1>4
  <2>2. WG!Route(addr, "host") \in old => WG!Route(addr, "host") \in routes
    BY <1>5 DEF RoutesInv
  <2> QED
    BY <1>1, <2>1, <2>2
<1>10. WG!Route(Multicast, "universe") \in routes'
  <2>1. WG!Route(Multicast, "universe") \notin old
    BY <1>5, RouteFields, RouteRecords
  <2> QED
    BY <1>1, <2>1 DEF RoutesInv
<1> QED
  BY <1>1, <1>3, <1>6, <1>7, <1>8, <1>9, <1>10 DEF RoutesInv, as

LEMMA DesiredArePrefixes ==
    ASSUME config \in Configs
    PROVE  WG!Desired \subseteq IPs
<1>1. ASSUME NEW k \in WG!PublicKeys, WG!Has(config.peers, k)
      PROVE  config.peers[k].allowedIPs \in SUBSET IPs
  <2>1. config.peers[k] \in WG!PeerConfigs
    BY <1>1, ConfigsAreDevices DEF WG!Devices, WG!Has
  <2> QED
    BY <2>1, PeerRecords
<1> QED
  BY <1>1 DEF WG!Desired

LEMMA RoutesAreKept ==
    ASSUME PeersInv, RoutesInv, WG!reconfigRoutes
    PROVE  RoutesInv'
<1>1. step = "routes" /\ step' = "idle" /\ UNCHANGED <<ifAddrs, config>> /\ config \in Configs
  BY DEF WG!reconfigRoutes, PeersInv
<1> DEFINE added == WG!Desired \ WG!Routed
           calledOf(deleted) == {r \in deleted : r.dst # Multicast /\ r.scope # "host"}
<1>14. PICK deleted \in SUBSET routes : \E bad :
          /\ WG!Deletes(deleted)
          /\ routes' = (routes \ {r \in calledOf(deleted) : r.dst \notin bad})
                          \cup {WG!Route(d, "universe") : d \in added \ bad}
          /\ failed' = (failed \/ bad # {})
  BY Zenon DEF WG!reconfigRoutes
<1>2. PICK bad :
          /\ WG!Deletes(deleted)
          /\ routes' = (routes \ {r \in calledOf(deleted) : r.dst \notin bad})
                          \cup {WG!Route(d, "universe") : d \in added \ bad}
          /\ failed' = (failed \/ bad # {})
  BY <1>14
<1> DEFINE called == calledOf(deleted)
           gone == {r \in called : r.dst \notin bad}
           new == {WG!Route(d, "universe") : d \in added \ bad}
<1>3. WG!Desired \subseteq IPs /\ WG!Desired' = WG!Desired
  BY <1>1, DesiredArePrefixes DEF WG!Desired
<1>4. \A r \in new : r.scope = "universe" /\ r.dst \in WG!Desired
                     /\ r \in [dst : WG!Dsts, scope : WG!Scopes]
  BY <1>3, Destinations, RouteFields, RouteRecords DEF WG!Scopes
<1>5. routes' = (routes \ gone) \cup new
  BY <1>2
<1>6. \A r \in gone : r \in deleted /\ r.dst # Multicast /\ r.scope # "host"
  OBVIOUS
<1>7. \A r \in deleted : r.dst # Multicast /\ r.scope # "host" /\ r.dst \notin bad => r \in gone
  OBVIOUS
<1>8. \A d \in WG!Desired \ bad : d \notin WG!Routed => WG!Route(d, "universe") \in new
  OBVIOUS
<1> HIDE DEF gone, new
<1>9. routes' \in SUBSET [dst : WG!Dsts, scope : WG!Scopes]
  BY <1>4, <1>5 DEF RoutesInv
<1>10. \A r \in routes' : r.scope = "host" => r.dst \in ifAddrs
  BY <1>4, <1>5 DEF RoutesInv
<1>11. \A addr \in ifAddrs : WG!Route(addr, "host") \in routes'
  BY <1>5, <1>6, RouteFields, RouteRecords DEF RoutesInv
<1>12. WG!Route(Multicast, "universe") \in routes'
  BY <1>5, <1>6, RouteFields, RouteRecords DEF RoutesInv
<1>13. ASSUME ~failed'
       PROVE  ifAddrs = config.addrs /\ ForPeers' = WG!Desired \cup {Multicast}
  <2>1. ~failed /\ bad = {}
    BY <1>2, <1>13
  <2>2. ifAddrs = config.addrs
    BY <1>1, <2>1 DEF RoutesInv
  <2>3. ASSUME NEW r \in routes', r.scope # "host" PROVE r.dst \in WG!Desired \cup {Multicast}
    <3>1. CASE r \in new
      BY <1>4, <3>1
    <3>2. CASE r \notin new
      <4>1. r \in routes /\ r \notin gone
        BY <1>5, <3>2
      <4>2. r \notin deleted \/ r.dst = Multicast
        BY <1>7, <2>1, <2>3, <4>1
      <4> QED
        BY <1>2, <4>1, <4>2 DEF WG!Deletes
    <3> QED
      BY <3>1, <3>2
  <2>4. ASSUME NEW d \in WG!Desired PROVE \E r \in routes' : r.scope # "host" /\ r.dst = d
    <3>1. CASE d \notin WG!Routed
      <4>1. WG!Route(d, "universe") \in routes'
        BY <1>5, <1>8, <2>1, <3>1
      <4> QED
        BY <4>1, RouteFields, RouteRecords
    <3>2. CASE d \in WG!Routed
      <4>1. PICK r \in routes : WG!RoutesTo(d) \ deleted = {r}
        BY <1>2, <3>2 DEF WG!Deletes
      <4>2. r \in routes \ deleted /\ r.dst = d
        BY <4>1 DEF WG!RoutesTo
      <4>3. r.scope # "host"
        BY <1>3, <4>2, Destinations DEF RoutesInv
      <4>4. r \in routes'
        BY <1>5, <1>6, <4>2
      <4> QED
        BY <4>2, <4>3, <4>4
    <3> QED
      BY <3>1, <3>2
  <2>5. \E r \in routes' : r.scope # "host" /\ r.dst = Multicast
    BY <1>12, RouteFields, RouteRecords
  <2> QED
    BY <2>2, <2>3, <2>4, <2>5 DEF ForPeers
<1> QED
  BY <1>1, <1>3, <1>9, <1>10, <1>11, <1>12, <1>13 DEF RoutesInv

LEMMA OthersKeepRoutes ==
    ASSUME PeersInv, RoutesInv,
           \/ WG!NoDiff \/ WG!reconfigWireguard \/ WG!WireguardFails
           \/ \E n \in 0..MaxKey : WG!WireguardFailsHalfway(n)
           \/ (\E c \in Configs : WG!Reconfig(c)) \/ WG!Restart \/ UNCHANGED WG!vars
    PROVE  RoutesInv'
<1>1. CASE UNCHANGED WG!vars
  BY <1>1 DEF WG!vars, RoutesInv, ForPeers, WG!Desired
<1>2. CASE ~UNCHANGED WG!vars
  <2>1. UNCHANGED <<ifAddrs, routes>> /\ (step' \in {"addresses", "wireguard"} \/ failed')
    BY <1>2 DEF WG!NoDiff, WG!reconfigWireguard, WG!WireguardFails, WG!WireguardFailsHalfway,
                WG!Reconfig, WG!Restart
  <2> QED
    BY <2>1 DEF RoutesInv
<1> QED
  BY <1>1, <1>2

(* The engine's belief about its device is true of every peer, and a Reconfig without a      *)
(* failure leaves the peers, addresses and routes of its configuration, for any              *)
(* configurations, failures of single calls and restarts; but for the peers in doubt, those  *)
(* that a configuration which failed half-way was to change and none has changed since        *)
(* (wgengine.go:172-286).                                                                   *)
THEOREM DeviceIsFollowed == WG!Spec => []DeviceFollows
<1> DEFINE Both == PeersInv /\ RoutesInv
<1>1. WG!Init => PeersInv /\ RoutesInv
  <2> SUFFICES ASSUME WG!Init PROVE PeersInv /\ RoutesInv
    OBVIOUS
  <2>1. WG!NoPeers \in WG!Devices
    BY DEF WG!NoPeers, WG!Devices
  <2>2. 0 \in 0..MaxPartial
    BY ConfigsAreDevices
  <2>3. PeersInv
    BY <2>1, <2>2 DEF WG!Init, PeersInv, Settled
  <2>4. RoutesInv
    BY RouteFields, RouteRecords, Destinations DEF WG!Init, RoutesInv, WG!Scopes
  <2> QED
    BY <2>3, <2>4
<1>2. PeersInv /\ RoutesInv /\ [WG!Next]_WG!vars => PeersInv' /\ RoutesInv'
  <2> SUFFICES ASSUME PeersInv, RoutesInv, [WG!Next]_WG!vars PROVE PeersInv' /\ RoutesInv'
    OBVIOUS
  <2>1. CASE WG!NoDiff \/ WG!reconfigWireguard \/ WG!WireguardFails
             \/ \E n \in 0..MaxKey : WG!WireguardFailsHalfway(n)
    BY <2>1, WireguardKeepsPeers, OthersKeepRoutes
  <2>2. CASE (\E c \in Configs : WG!Reconfig(c)) \/ WG!Restart \/ UNCHANGED WG!vars
    BY <2>2, OthersKeepPeers, OthersKeepRoutes
  <2>3. CASE \E bad \in SUBSET WG!Addresses : WG!reconfigAddresses(bad)
    BY <2>3, OthersKeepPeers, AddressesKeepRoutes
  <2>4. CASE WG!reconfigRoutes
    BY <2>4, OthersKeepPeers, RoutesAreKept
  <2> QED
    BY <2>1, <2>2, <2>3, <2>4 DEF WG!Next
<1>3. PeersInv /\ RoutesInv => DeviceFollows
  <2> SUFFICES ASSUME PeersInv, RoutesInv PROVE DeviceFollows
    OBVIOUS
  <2>1. WG!TypeOK
    BY DEF PeersInv, RoutesInv, WG!TypeOK
  <2>2. keyed => \A k \in WG!PublicKeys \ doubtful : WG!Follows(device, prevConfig, k)
    BY FollowsIsDoes DEF PeersInv
  <2>3. WG!PrevConfigTrue
    BY <2>2 DEF PeersInv, WG!PrevConfigTrue
  <2>4. {r.dst : r \in {r \in routes : r.scope = "host"}} = ifAddrs
    BY RouteFields, RouteRecords DEF RoutesInv
  <2>5. WG!ReconfigDone
    BY <2>2, <2>4 DEF PeersInv, Settled, RoutesInv, ForPeers, WG!ReconfigDone
  <2> QED
    BY <2>1, <2>3, <2>5 DEF DeviceFollows
<1> QED
  BY <1>1, <1>2, <1>3, PTL DEF WG!Spec

-----------------------------------------------------------------------------
(* The tunnels.  PeersSyncProofs says what the engine has when nothing is under way; what  *)
(* follows is about the device, which is given differences between configurations that may  *)
(* allow a prefix to two peers.                                                            *)

PS == INSTANCE PeersSyncProofs WITH
    Peers <- Others, None <- Nobody, CIDRs <- Prefixes,
    pc <- reconcile, peers <- listed, todo <- unlisted, addrs <- ownAddrs

(* Tunnels extends PeersSync and instantiates WGDiff, whose facts are about other          *)
(* instances here: the definitions are the same.                                           *)
LEMMA SameAssumption == PS!Assumption
BY NodeAssumption, Zenon DEF Tunnels!Assumption, PS!Assumption, Tunnels!PeerConfigs, PS!PeerConfigs

LEMMA SameTypes == Tunnels!TypeOK = PS!TypeOK
BY Zenon DEF Tunnels!TypeOK, PS!TypeOK, Tunnels!NodeStates, PS!NodeStates, Tunnels!ClaimStates,
   PS!ClaimStates, Tunnels!Nodes, PS!Nodes, Tunnels!PeerConfigs, PS!PeerConfigs

LEMMA SameInit == Tunnels!Init = PS!Init
BY Zenon DEF Tunnels!Init, PS!Init, Tunnels!Nodes, PS!Nodes, Tunnels!NoNodes, PS!NoNodes,
   Tunnels!NoPeers, PS!NoPeers, Tunnels!EmptyConfig, PS!EmptyConfig

LEMMA SameVars == (Tunnels!vars)' = Tunnels!vars => (PS!vars)' = PS!vars
BY Zenon DEF Tunnels!vars, Tunnels!api, Tunnels!caches, Tunnels!local, PS!vars, PS!api, PS!caches,
   PS!local

LEMMA SameSteps ==
    /\ \A n, s : Tunnels!EditNode(n, s) = PS!EditNode(n, s)
    /\ \A c, s : Tunnels!EditClaim(c, s) = PS!EditClaim(c, s)
    /\ Tunnels!DeliverNodes = PS!DeliverNodes
    /\ Tunnels!DeliverClaims = PS!DeliverClaims
    /\ Tunnels!Restart = PS!Restart
    /\ Tunnels!ListPeers = PS!ListPeers
    /\ \A p : Tunnels!ListClaims(p) = PS!ListClaims(p)
    /\ Tunnels!getSelfAddresses = PS!getSelfAddresses
    /\ Tunnels!ListFails = PS!ListFails
    /\ Tunnels!Reconfig = PS!Reconfig
<1> USE DEF Tunnels!api, Tunnels!caches, Tunnels!local, PS!api, PS!caches, PS!local,
            Tunnels!Return, PS!Return, Tunnels!NoNodes, PS!NoNodes, Tunnels!NoPeers, PS!NoPeers,
            Tunnels!EmptyConfig, PS!EmptyConfig, Tunnels!Nodes, PS!Nodes, Tunnels!Ready, PS!Ready
<1>1. \A n, s : Tunnels!EditNode(n, s) = PS!EditNode(n, s)
  BY Zenon DEF Tunnels!EditNode, PS!EditNode
<1>2. \A c, s : Tunnels!EditClaim(c, s) = PS!EditClaim(c, s)
  BY Zenon DEF Tunnels!EditClaim, PS!EditClaim
<1>3. Tunnels!DeliverNodes = PS!DeliverNodes
  BY Zenon DEF Tunnels!DeliverNodes, PS!DeliverNodes
<1>4. Tunnels!DeliverClaims = PS!DeliverClaims
  BY Zenon DEF Tunnels!DeliverClaims, PS!DeliverClaims
<1>5. Tunnels!Restart = PS!Restart
  BY Zenon DEF Tunnels!Restart, PS!Restart
<1>6. Tunnels!ListPeers = PS!ListPeers
  BY Zenon DEF Tunnels!ListPeers, PS!ListPeers
<1>7. \A p : Tunnels!ListClaims(p) = PS!ListClaims(p)
  BY Zenon DEF Tunnels!ListClaims, PS!ListClaims
<1>8. Tunnels!getSelfAddresses = PS!getSelfAddresses
  BY Zenon DEF Tunnels!getSelfAddresses, PS!getSelfAddresses
<1>9. Tunnels!ListFails = PS!ListFails
  BY Zenon DEF Tunnels!ListFails, PS!ListFails
<1>10. Tunnels!Reconfig = PS!Reconfig
  BY Zenon DEF Tunnels!Reconfig, PS!Reconfig, Tunnels!InUse, PS!InUse
<1> QED
  BY <1>1, <1>2, <1>3, <1>4, <1>5, <1>6, <1>7, <1>8, <1>9, <1>10

LEMMA SameDifferences ==
    /\ Tunnels!WG!PublicKeys = WG!PublicKeys
    /\ Tunnels!WG!NilEp = WG!NilEp /\ Tunnels!WG!NoPeer = WG!NoPeer
    /\ Tunnels!WG!NoPeers = WG!NoPeers
    /\ \A e, c, k : Tunnels!WG!diffConfigs(e, c, k) = WG!diffConfigs(e, c, k)
    /\ \A d, diff, n : Tunnels!WG!ConfigureDevice(d, diff, n) = WG!ConfigureDevice(d, diff, n)
    /\ \A diff : Tunnels!WG!KeysIn(diff) = WG!KeysIn(diff)
<1> USE DEF Tunnels!WG!PublicKeys, WG!PublicKeys, Tunnels!WG!NilEp, WG!NilEp, Tunnels!WG!NoPeer,
            WG!NoPeer, Tunnels!WG!NoPeers, WG!NoPeers, Tunnels!WG!Has, WG!Has
<1>0. \A e, c : Tunnels!WG!diffPeers(e, c) = WG!diffPeers(e, c)
  BY ZenonT(60) DEF Tunnels!WG!diffPeers, WG!diffPeers, Tunnels!WG!KeysOf, WG!KeysOf, Tunnels!WG!Round,
     WG!Round, Tunnels!WG!SkipExpected, WG!SkipExpected, Tunnels!WG!SkipCurrent, WG!SkipCurrent,
     Tunnels!WG!Adds, WG!Adds, Tunnels!WG!Update, WG!Update, Tunnels!WG!Removal, WG!Removal,
     Tunnels!WG!Min, WG!Min
<1>1. \A e, c, k : Tunnels!WG!diffConfigs(e, c, k) = WG!diffConfigs(e, c, k)
  BY <1>0, Zenon DEF Tunnels!WG!diffConfigs, WG!diffConfigs
<1>2. \A d, diff, n : Tunnels!WG!ConfigureDevice(d, diff, n) = WG!ConfigureDevice(d, diff, n)
  BY Zenon DEF Tunnels!WG!ConfigureDevice, WG!ConfigureDevice, Tunnels!WG!ConfigurePeer,
     WG!ConfigurePeer
<1>3. \A diff : Tunnels!WG!KeysIn(diff) = WG!KeysIn(diff)
  BY Zenon DEF Tunnels!WG!KeysIn, WG!KeysIn
<1> QED
  BY <1>1, <1>2, <1>3

LEMMA NoPeerHasNothing == \A ip \in IPs : ip \notin WG!NoPeer.allowedIPs
<1>1. "no peer" \notin IPs
  BY NodeAssumption DEF WG!DiffAssumption
<1>2. WG!NoPeer.allowedIPs = {"no peer"}
  BY DEF WG!NoPeer
<1> QED
  BY <1>1, <1>2

(* What a change that e needs does to one prefix: the peer it names has it as e says, and   *)
(* the others lose it if that peer has it.                                                  *)
LEMMA ChangeGives ==
    ASSUME NEW d \in WG!Devices, NEW e \in WG!Devices, NEW c, NEW change,
           Needed(e, c, change), NEW ip \in IPs
    PROVE  LET dev == WG!ConfigurePeer(d, change)
           IN  /\ ip \in dev[change.key].allowedIPs <=> ip \in e[change.key].allowedIPs
               /\ \A k \in WG!PublicKeys \ {change.key} :
                      ip \in dev[k].allowedIPs <=>
                          ip \in d[k].allowedIPs /\ ip \notin e[change.key].allowedIPs
<1> DEFINE dev == WG!ConfigurePeer(d, change)
           key == change.key
           p == change.peer
<1>1. key \in WG!PublicKeys /\ e[key] \in DevicePeers /\ d \in [WG!PublicKeys -> DevicePeers]
  BY DEF Needed, WG!Devices, DevicePeers
<1>2. ip \notin WG!NoPeer.allowedIPs
  BY NoPeerHasNothing
<1>3. CASE change.remove = TRUE
  <2>1. e[key] = WG!NoPeer
    BY <1>3 DEF Needed, WG!Has
  <2>2. dev[key] = WG!NoPeer /\ \A k \in WG!PublicKeys \ {key} : dev[k] = d[k]
    BY <1>1, <1>3 DEF WG!ConfigurePeer
  <2> HIDE DEF dev, key
  <2> QED
    BY <1>2, <2>1, <2>2 DEF dev, key
<1>4. CASE change.remove # TRUE
  <2>1. change.remove = FALSE /\ p = e[key]
    BY <1>4 DEF Needed
  <2>2. dev[key].allowedIPs = p.allowedIPs
    BY <1>1, <2>1 DEF WG!ConfigurePeer
  <2>3. ASSUME NEW k \in WG!PublicKeys \ {key}
        PROVE  ip \in dev[k].allowedIPs <=> ip \in d[k].allowedIPs /\ ip \notin p.allowedIPs
    <3>1. CASE d[k] = WG!NoPeer
      <4>1. dev[k] = WG!NoPeer
        BY <1>1, <2>1, <3>1 DEF WG!ConfigurePeer, WG!Has
      <4> HIDE DEF dev
      <4> QED
        BY <1>2, <3>1, <4>1
    <3>2. CASE d[k] # WG!NoPeer
      <4>1. dev[k] = [d[k] EXCEPT !.allowedIPs = d[k].allowedIPs \ p.allowedIPs]
        BY <1>1, <2>1, <3>2 DEF WG!ConfigurePeer, WG!Has
      <4>2. d[k] \in WG!PeerConfigs
        BY <1>1, <3>2 DEF DevicePeers
      <4> HIDE DEF dev, p
      <4>3. dev[k].allowedIPs = d[k].allowedIPs \ p.allowedIPs
        BY <4>1, <4>2 DEF WG!PeerConfigs
      <4> QED
        BY <4>3
    <3> QED
      BY <3>1, <3>2
  <2> HIDE DEF dev, key, p
  <2> QED
    BY <2>1, <2>2, <2>3 DEF dev, key
<1> QED
  BY <1>3, <1>4

\* No peer but that of k is allowed ip.
Only(e, k, ip) == \A l \in WG!PublicKeys : ip \in e[l].allowedIPs => l = k

\* The device dev, which was from, is given the changes towards e of the peers named.  It
\* allows a prefix to nobody but those e allows it to and those that had it and are not
\* named; and if e allows it to one peer only, that peer has it, if it is named or had it.
Gives(dev, e, named, from) ==
    /\ dev \in WG!Devices
    /\ \A ip \in IPs, k \in WG!PublicKeys :
           /\ ip \in dev[k].allowedIPs =>
                  ip \in e[k].allowedIPs \/ (k \notin named /\ ip \in from[k].allowedIPs)
           /\ /\ ip \in e[k].allowedIPs /\ Only(e, k, ip)
              /\ k \in named \/ ip \in from[k].allowedIPs
              => ip \in dev[k].allowedIPs

(* What n changes of a difference do to the prefixes, whatever the configurations allow to   *)
(* whom.                                                                                   *)
LEMMA DiffGives ==
    ASSUME NEW d \in WG!Devices, NEW e \in WG!Devices, NEW c \in WG!Devices, NEW keys \in BOOLEAN,
           NEW n \in 0..Len(WG!diffConfigs(e, c, keys).peers)
    PROVE  LET diff == WG!diffConfigs(e, c, keys)
           IN  Gives(WG!ConfigureDevice(d, diff, n), e, Named(diff, n),
                     IF diff.replacePeers THEN WG!NoPeers ELSE d)
<1> DEFINE diff == WG!diffConfigs(e, c, keys)
           from == IF diff.replacePeers THEN WG!NoPeers ELSE d
<1>1. diff.peers = WG!diffPeers(e, c) /\ diff.replacePeers \in BOOLEAN /\ n \in 0..Len(diff.peers)
  BY DEF WG!diffConfigs
<1>2. diff.peers \in Seq(Changes) /\ Names(e, c, diff.peers, {})
  BY <1>1, DiffNamesChanges
<1> HIDE DEF diff
<1>9. \A i \in 1..Len(diff.peers) : Needed(e, c, diff.peers[i])
  BY <1>2 DEF Names
<1>3. n \in Nat /\ \A i \in 1..n : Needed(e, c, diff.peers[i])
  BY <1>1, <1>2, <1>9
<1>4. PICK f : Passes(f, d, diff, n)
  <2>1. diff.replacePeers \in BOOLEAN
    BY <1>1
  <2>2. diff.peers \in Seq(Changes)
    BY <1>2
  <2>3. n \in 0..Len(diff.peers)
    BY <1>1
  <2> QED
    BY <1>9, <2>1, <2>2, <2>3, DeviceIsMade
<1>5. /\ f \in [0..n -> WG!Devices]
      /\ f[0] = from
      /\ \A i \in 1..n : f[i] = WG!ConfigurePeer(f[i - 1], diff.peers[i])
      /\ WG!ConfigureDevice(d, diff, n) = f[n]
  BY <1>4 DEF Passes
<1> HIDE DEF from
<1>6. n \in Nat
  BY <1>3
<1>7. ASSUME NEW ip \in IPs
      PROVE  \A k \in WG!PublicKeys :
                 /\ ip \in f[n][k].allowedIPs =>
                        ip \in e[k].allowedIPs
                        \/ (k \notin Named(diff, n) /\ ip \in from[k].allowedIPs)
                 /\ /\ ip \in e[k].allowedIPs /\ Only(e, k, ip)
                    /\ k \in Named(diff, n) \/ ip \in from[k].allowedIPs
                    => ip \in f[n][k].allowedIPs
  <2> DEFINE NoMore(i) == \A k \in WG!PublicKeys : ip \in f[i][k].allowedIPs =>
                 ip \in e[k].allowedIPs \/ (k \notin Named(diff, i) /\ ip \in from[k].allowedIPs)
             NoLess(i) == \A k \in WG!PublicKeys :
                 /\ ip \in e[k].allowedIPs /\ Only(e, k, ip)
                 /\ k \in Named(diff, i) \/ ip \in from[k].allowedIPs
                 => ip \in f[i][k].allowedIPs
             T == {i \in Nat : NoMore(i) /\ NoLess(i)}
  <2>1. 0 \in T
    <3>1. Named(diff, 0) = {}
      BY DEF Named
    <3> QED
      BY <1>5, <3>1
  <2>2. ASSUME NEW i \in 1..n, i - 1 \in T PROVE i \in T
    <3> DEFINE ch == diff.peers[i]
               old == f[i - 1]
               key == ch.key
    <3>1. NoMore(i - 1) /\ NoLess(i - 1) /\ old \in WG!Devices /\ i \in Nat
      BY <1>5, <1>6, <2>2
    <3>2. Needed(e, c, ch) /\ f[i] = WG!ConfigurePeer(old, ch)
      BY <1>3, <1>5
    <3>3. /\ key \in WG!PublicKeys
          /\ ip \in f[i][key].allowedIPs <=> ip \in e[key].allowedIPs
          /\ \A k \in WG!PublicKeys \ {key} :
                 ip \in f[i][k].allowedIPs <=> ip \in old[k].allowedIPs /\ ip \notin e[key].allowedIPs
      <4>1. ch.key \in WG!PublicKeys
        BY <3>2 DEF Needed
      <4>2. old \in WG!Devices
        BY <3>1
      <4> HIDE DEF old, ch
      <4> QED
        BY <3>2, <4>1, <4>2, ChangeGives
    <3>4. Named(diff, i) = Named(diff, i - 1) \cup {key}
      BY <3>1 DEF Named
    <3> HIDE DEF key, ch
    <3>5. ASSUME NEW k \in WG!PublicKeys, ip \in f[i][k].allowedIPs, ip \notin e[k].allowedIPs
          PROVE  k \notin Named(diff, i) /\ ip \in from[k].allowedIPs
      <4>1. k # key /\ ip \in old[k].allowedIPs
        BY <3>3, <3>5
      <4> QED
        BY <3>1, <3>4, <3>5, <4>1
    <3>6. ASSUME NEW k \in WG!PublicKeys, ip \in e[k].allowedIPs, Only(e, k, ip),
                 k \in Named(diff, i) \/ ip \in from[k].allowedIPs
          PROVE  ip \in f[i][k].allowedIPs
      <4>1. CASE k = key
        BY <3>3, <3>6, <4>1
      <4>2. CASE k # key
        <5>1. ip \notin e[key].allowedIPs
          BY <3>3, <3>6, <4>2 DEF Only
        <5>2. ip \in old[k].allowedIPs
          BY <3>1, <3>4, <3>6, <4>2
        <5> QED
          BY <3>3, <4>2, <5>1, <5>2
      <4> QED
        BY <4>1, <4>2
    <3>7. NoMore(i) /\ NoLess(i)
      <4> HIDE DEF old
      <4> QED
        BY <3>5, <3>6
    <3> QED
      BY <3>1, <3>7
  <2>3. NoMore(n) /\ NoLess(n)
    <3> HIDE DEF T
    <3>1. \A i \in 0..n : i \in T
      BY <1>6, <2>1, <2>2, Upwards
    <3>2. n \in T
      BY <1>6, <3>1
    <3> QED
      BY <3>2 DEF T
  <2> QED
    BY <2>3
<1>8. WG!ConfigureDevice(d, diff, n) = f[n] /\ f[n] \in WG!Devices
  BY <1>5, <1>6
<1> QED
  BY <1>7, <1>8 DEF Gives, diff, from

(* What the engine makes of its configuration: a configuration of the device in which every  *)
(* peer has the prefixes the engine has for it.                                             *)
LEMMA GivenConfig ==
    ASSUME PS!TypeOK
    PROVE  /\ Tunnels!WGConfig \in WG!Devices
           /\ \A p \in Others, ip \in Prefixes :
                  ip \in Tunnels!WGConfig[KeyOf[p]].allowedIPs <=>
                      engine.Peers[p] # Nobody /\ ip \in engine.Peers[p].AllowedIPs
<1> DEFINE given == Tunnels!WGConfig
           ips(k) == UNION {engine.Peers[p].AllowedIPs : p \in Tunnels!Configured(k)}
<1>1. /\ KeyOf \in [Others -> WG!PublicKeys] /\ Prefixes \subseteq IPs
      /\ \A p, q \in Others : KeyOf[p] = KeyOf[q] => p = q
  BY NodeAssumption, SameDifferences DEF Tunnels!TunnelsAssumption
<1>2. ASSUME NEW p \in Others, engine.Peers[p] # Nobody
      PROVE  engine.Peers[p].AllowedIPs \in SUBSET Prefixes
  <2>1. engine.Peers[p] \in PS!PeerConfigs
    BY <1>2 DEF PS!TypeOK
  <2> QED
    BY <2>1 DEF PS!PeerConfigs
<1>3. given = [k \in WG!PublicKeys |-> IF Tunnels!Configured(k) = {} THEN WG!NoPeer
                                       ELSE [ep |-> WG!NilEp, allowedIPs |-> ips(k)]]
  BY SameDifferences, Zenon DEF Tunnels!WGConfig
<1> HIDE DEF given
<1>4. ASSUME NEW k \in WG!PublicKeys PROVE given[k] \in WG!PeerConfigs \cup {WG!NoPeer}
  <2>1. ips(k) \in SUBSET IPs
    BY <1>1, <1>2 DEF Tunnels!Configured
  <2> HIDE DEF ips
  <2>2. [ep |-> WG!NilEp, allowedIPs |-> ips(k)] \in WG!PeerConfigs
    BY <2>1, PeerRecords
  <2> QED
    BY <1>3, <2>2
<1>5. given \in WG!Devices
  BY <1>3, <1>4 DEF WG!Devices
<1>6. ASSUME NEW p \in Others, NEW ip \in Prefixes
      PROVE  ip \in given[KeyOf[p]].allowedIPs <=>
                 engine.Peers[p] # Nobody /\ ip \in engine.Peers[p].AllowedIPs
  <2>1. KeyOf[p] \in WG!PublicKeys /\ ip \in IPs
    BY <1>1
  <2>2. CASE engine.Peers[p] = Nobody
    <3>1. Tunnels!Configured(KeyOf[p]) = {}
      BY <1>1, <2>2 DEF Tunnels!Configured
    <3>2. given[KeyOf[p]] = WG!NoPeer
      BY <1>3, <2>1, <3>1
    <3> QED
      BY <2>1, <2>2, <3>2, NoPeerHasNothing
  <2>3. CASE engine.Peers[p] # Nobody
    <3>1. Tunnels!Configured(KeyOf[p]) = {p}
      BY <1>1, <2>3 DEF Tunnels!Configured
    <3>2. given[KeyOf[p]].allowedIPs = engine.Peers[p].AllowedIPs
      BY <1>3, <2>1, <3>1
    <3> QED
      BY <2>3, <3>2
  <2> QED
    BY <2>2, <2>3
<1> QED
  BY <1>5, <1>6 DEF given

(* What the engine believes of the device is so, up to prefixes it has given to two peers:   *)
(* the device allows a peer that is not in doubt no other prefix than the configuration last *)
(* applied, and it allows it all of them but some that were shared.                          *)
TunnelTypes == wgDevice \in WG!Devices /\ wgConfig \in WG!Devices
KeyedFlag == wgKeyed \in BOOLEAN
NothingBefore == ~wgKeyed => wgConfig = WG!NoPeers
AllowsNoMore == wgKeyed => \A k \in WG!PublicKeys \ wgDoubtful, ip \in Prefixes :
    ip \in wgDevice[k].allowedIPs => ip \in wgConfig[k].allowedIPs
LacksOnlyShared == wgKeyed => \A k \in WG!PublicKeys \ wgDoubtful, ip \in Prefixes \ shared :
    ip \in wgConfig[k].allowedIPs => ip \in wgDevice[k].allowedIPs

Believed == TunnelTypes /\ KeyedFlag /\ NothingBefore /\ AllowsNoMore /\ LacksOnlyShared

(* The difference between what the engine has and what it believes, and n changes of it.    *)
LEMMA DeviceGets ==
    ASSUME PS!TypeOK, Believed,
           NEW n \in 0..Len(WG!diffConfigs(Tunnels!WGConfig, wgConfig, wgKeyed).peers)
    PROVE  LET given == Tunnels!WGConfig
               diff == WG!diffConfigs(given, wgConfig, wgKeyed)
           IN  /\ Gives(WG!ConfigureDevice(wgDevice, diff, n), given, Named(diff, n),
                        IF wgConfig = WG!NoPeers THEN WG!NoPeers ELSE wgDevice)
               /\ diff.replacePeers = (wgConfig = WG!NoPeers)
               /\ WG!KeysIn(diff) = {k \in WG!PublicKeys : given[k] # wgConfig[k]}
               /\ \A ip \in Prefixes, k \in WG!PublicKeys :
                      /\ ip \in given[k].allowedIPs /\ ip \notin Tunnels!SharedNow
                      => Only(given, k, ip)
<1> DEFINE given == Tunnels!WGConfig
           diff == WG!diffConfigs(given, wgConfig, wgKeyed)
<1>1. /\ given \in WG!Devices /\ wgDevice \in WG!Devices /\ wgConfig \in WG!Devices
      /\ wgKeyed \in BOOLEAN
  BY GivenConfig DEF Believed, TunnelTypes, KeyedFlag
<1>2. diff.replacePeers = (wgConfig = WG!NoPeers)
  BY DEF WG!diffConfigs
<1>3. Tunnels!SharedNow = {ip \in Prefixes : \E k, l \in WG!PublicKeys :
                              k # l /\ ip \in given[k].allowedIPs /\ ip \in given[l].allowedIPs}
  BY SameDifferences DEF Tunnels!SharedNow
<1> HIDE DEF given
<1>4. WG!KeysIn(diff) = {k \in WG!PublicKeys : given[k] # wgConfig[k]}
  BY <1>1, DiffNamesChanged
<1>5. Gives(WG!ConfigureDevice(wgDevice, diff, n), given, Named(diff, n),
            IF diff.replacePeers THEN WG!NoPeers ELSE wgDevice)
  <2>1. n \in 0..Len(diff.peers)
    BY DEF given
  <2> QED
    BY <1>1, <2>1, DiffGives
<1> HIDE DEF diff
<1>6. \A ip \in Prefixes, k \in WG!PublicKeys :
          ip \in given[k].allowedIPs /\ ip \notin Tunnels!SharedNow => Only(given, k, ip)
  BY <1>3 DEF Only
<1> QED
  BY <1>2, <1>4, <1>5, <1>6 DEF given, diff

(* The engine applies the difference.                                                     *)
LEMMA ApplyKeepsBelief == ASSUME PS!TypeOK, Believed, Tunnels!Apply PROVE Believed'
<1> DEFINE given == Tunnels!WGConfig
           diff == WG!diffConfigs(given, wgConfig, wgKeyed)
           from == IF wgConfig = WG!NoPeers THEN WG!NoPeers ELSE wgDevice
           n == Len(diff.peers)
<1>1. /\ given \in WG!Devices /\ wgConfig \in WG!Devices /\ wgKeyed \in BOOLEAN
      /\ Prefixes \subseteq IPs
  BY GivenConfig, NodeAssumption DEF Believed, TunnelTypes, KeyedFlag, Tunnels!TunnelsAssumption
<1>2. /\ wgDevice' = WG!ConfigureDevice(wgDevice, diff, n)
      /\ wgConfig' = given /\ wgKeyed' = TRUE
      /\ shared' = (IF diff.replacePeers THEN {} ELSE shared) \cup Tunnels!SharedNow
      /\ wgDoubtful' = IF diff.replacePeers THEN {} ELSE wgDoubtful \ WG!KeysIn(diff)
  BY SameDifferences DEF Tunnels!Apply, Tunnels!Applies, Tunnels!Diff
<1>3. n \in Nat /\ \A k \in WG!PublicKeys : given[k] # wgConfig[k] => k \in Named(diff, n)
  BY <1>1, DiffNamesAll
<1>9. n \in 0..Len(WG!diffConfigs(Tunnels!WGConfig, wgConfig, wgKeyed).peers)
  <2>1. \A m \in Nat : m \in 0..m
    OBVIOUS
  <2> QED
    BY <1>3, <2>1
<1>4. /\ Gives(WG!ConfigureDevice(wgDevice, diff, n), given, Named(diff, n), from)
      /\ diff.replacePeers = (wgConfig = WG!NoPeers)
      /\ WG!KeysIn(diff) = {k \in WG!PublicKeys : given[k] # wgConfig[k]}
      /\ \A ip \in Prefixes, k \in WG!PublicKeys :
             ip \in given[k].allowedIPs /\ ip \notin Tunnels!SharedNow => Only(given, k, ip)
  BY <1>9, DeviceGets
<1> HIDE DEF given, diff, n
<1>5. Gives(wgDevice', given, Named(diff, n), from)
  BY <1>2, <1>4
<1>6. \A k \in WG!PublicKeys, ip \in Prefixes : ip \notin WG!NoPeers[k].allowedIPs
  BY <1>1, NoPeerHasNothing DEF WG!NoPeers
<1>7. ASSUME NEW k \in WG!PublicKeys \ wgDoubtful', NEW ip \in Prefixes,
             ip \in wgDevice'[k].allowedIPs
      PROVE  ip \in given[k].allowedIPs
  <2>1. CASE k \notin Named(diff, n) /\ ip \in from[k].allowedIPs
    <3>1. wgConfig # WG!NoPeers /\ from = wgDevice
      BY <1>6, <2>1
    <3>2. given[k] = wgConfig[k]
      BY <1>3, <2>1
    <3>3. wgKeyed /\ k \notin wgDoubtful
      BY <1>2, <1>4, <3>1, <3>2 DEF Believed, NothingBefore
    <3>4. ip \in wgConfig[k].allowedIPs
      BY <2>1, <3>1, <3>3 DEF Believed, AllowsNoMore
    <3> QED
      BY <3>2, <3>4
  <2> QED
    BY <1>1, <1>5, <1>7, <2>1 DEF Gives
<1>8. ASSUME NEW k \in WG!PublicKeys \ wgDoubtful', NEW ip \in Prefixes \ shared',
             ip \in given[k].allowedIPs
      PROVE  ip \in wgDevice'[k].allowedIPs
  <2>1. Only(given, k, ip)
    BY <1>2, <1>4, <1>8
  <2>2. k \in Named(diff, n) \/ ip \in from[k].allowedIPs
    <3>1. ASSUME given[k] = wgConfig[k] PROVE ip \in from[k].allowedIPs
      <4>1. wgConfig # WG!NoPeers
        BY <1>6, <1>8, <3>1
      <4>2. wgKeyed /\ k \notin wgDoubtful /\ ip \notin shared /\ from = wgDevice
        BY <1>2, <1>4, <1>8, <3>1, <4>1 DEF Believed, NothingBefore
      <4>3. ip \in wgDevice[k].allowedIPs
        BY <1>8, <3>1, <4>2 DEF Believed, LacksOnlyShared
      <4> QED
        BY <4>2, <4>3
    <3> QED
      BY <1>3, <3>1
  <2> QED
    BY <1>1, <1>5, <1>8, <2>1, <2>2 DEF Gives
<1> QED
  BY <1>1, <1>2, <1>5, <1>7, <1>8 DEF Gives, Believed, TunnelTypes, KeyedFlag, NothingBefore,
     AllowsNoMore, LacksOnlyShared

(* The kernel refuses one of the changes: the peers that none of them names keep what the    *)
(* engine believes of them, though a shared prefix may be taken from them.                   *)
LEMMA HalfKeepsBelief ==
    ASSUME PS!TypeOK, Believed, NEW m \in 0..MaxKey, Tunnels!ApplyFailsHalfway(m)
    PROVE  Believed'
<1> DEFINE given == Tunnels!WGConfig
           diff == WG!diffConfigs(given, wgConfig, wgKeyed)
           from == IF wgConfig = WG!NoPeers THEN WG!NoPeers ELSE wgDevice
<1>1. /\ given \in WG!Devices /\ wgConfig \in WG!Devices /\ wgKeyed \in BOOLEAN
      /\ Prefixes \subseteq IPs
  BY GivenConfig, NodeAssumption DEF Believed, TunnelTypes, KeyedFlag, Tunnels!TunnelsAssumption
<1>2. /\ m < Len(diff.peers)
      /\ wgDevice' = WG!ConfigureDevice(wgDevice, diff, m)
      /\ wgConfig' = wgConfig /\ wgKeyed' = wgKeyed
      /\ shared' = shared \cup Tunnels!SharedNow
      /\ wgDoubtful' = wgDoubtful \cup WG!KeysIn(diff)
  BY SameDifferences DEF Tunnels!ApplyFailsHalfway, Tunnels!Diff
<1>3. Len(diff.peers) \in Nat
  BY <1>1, DiffNamesAll
<1>4. m \in 0..Len(WG!diffConfigs(Tunnels!WGConfig, wgConfig, wgKeyed).peers)
  <2>1. \A l \in Nat : m < l => m \in 0..l
    BY KeysAreNumbers
  <2> QED
    BY <1>2, <1>3, <2>1
<1>5. /\ Gives(WG!ConfigureDevice(wgDevice, diff, m), given, Named(diff, m), from)
      /\ WG!KeysIn(diff) = {k \in WG!PublicKeys : given[k] # wgConfig[k]}
      /\ \A ip \in Prefixes, k \in WG!PublicKeys :
             ip \in given[k].allowedIPs /\ ip \notin Tunnels!SharedNow => Only(given, k, ip)
  BY <1>4, DeviceGets
<1> HIDE DEF given, diff
<1>6. Gives(wgDevice', given, Named(diff, m), from)
  BY <1>2, <1>5
<1>7. \A k \in WG!PublicKeys, ip \in Prefixes : ip \notin WG!NoPeers[k].allowedIPs
  BY <1>1, NoPeerHasNothing DEF WG!NoPeers
<1>8. ASSUME wgKeyed, NEW k \in WG!PublicKeys \ wgDoubtful', NEW ip \in Prefixes,
             ip \in wgDevice'[k].allowedIPs
      PROVE  ip \in wgConfig[k].allowedIPs
  <2>1. given[k] = wgConfig[k] /\ k \notin wgDoubtful
    BY <1>2, <1>5, <1>8
  <2>2. CASE ip \in from[k].allowedIPs
    <3>1. from = wgDevice
      BY <1>7, <2>2
    <3> QED
      BY <1>8, <2>1, <2>2, <3>1 DEF Believed, AllowsNoMore
  <2> QED
    BY <1>1, <1>6, <1>8, <2>1, <2>2 DEF Gives
<1>9. ASSUME wgKeyed, NEW k \in WG!PublicKeys \ wgDoubtful', NEW ip \in Prefixes \ shared',
             ip \in wgConfig[k].allowedIPs
      PROVE  ip \in wgDevice'[k].allowedIPs
  <2>1. given[k] = wgConfig[k] /\ k \notin wgDoubtful
    BY <1>2, <1>5, <1>9
  <2>2. Only(given, k, ip)
    BY <1>2, <1>5, <1>9, <2>1
  <2>3. wgConfig # WG!NoPeers
    BY <1>7, <1>9
  <2>4. ip \in from[k].allowedIPs
    BY <1>2, <1>9, <2>1, <2>3 DEF Believed, LacksOnlyShared
  <2> QED
    BY <1>1, <1>6, <1>9, <2>1, <2>2, <2>4 DEF Gives
<1> QED
  BY <1>1, <1>2, <1>6, <1>8, <1>9 DEF Gives, Believed, TunnelTypes, KeyedFlag, NothingBefore,
     AllowsNoMore, LacksOnlyShared

\* Of PeersSync what its theorems say, and of the device what the engine believes.
TunnelInv == PS!TypeOK /\ PS!Listed /\ PS!Inv /\ PS!UpToDate /\ Believed

tunnelState == <<Tunnels!vars, Tunnels!wireguard>>

LEMMA InitTunnels == Tunnels!TunnelsInit => TunnelInv
<1> SUFFICES ASSUME Tunnels!TunnelsInit PROVE TunnelInv
  OBVIOUS
<1>1. PS!Init
  BY SameInit, Zenon DEF Tunnels!TunnelsInit
<1>2. PS!TypeOK /\ PS!Listed
  BY <1>1, SameAssumption, PS!InitTypes
<1>3. PS!Inv
  BY <1>1, SameAssumption, PS!InitInv
<1>4. PS!UpToDate
  BY <1>1, SameAssumption, PS!InitUpToDate
<1>5. wgDevice = WG!NoPeers /\ wgConfig = WG!NoPeers /\ wgKeyed = FALSE
  BY SameDifferences, Zenon DEF Tunnels!TunnelsInit
<1>6. WG!NoPeers \in WG!Devices
  BY DEF WG!NoPeers, WG!Devices
<1>7. Believed
  BY <1>5, <1>6 DEF Believed, TunnelTypes, KeyedFlag, NothingBefore, AllowsNoMore, LacksOnlyShared
<1> QED
  BY <1>2, <1>3, <1>4, <1>7 DEF TunnelInv

(* Every step of the tunnels is one of PeersSync, or leaves PeersSync alone.                *)
LEMMA StepOfPeersSync == [Tunnels!TunnelsNext]_tunnelState => [PS!Next]_PS!vars
<1> SUFFICES ASSUME [Tunnels!TunnelsNext]_tunnelState PROVE PS!Next \/ UNCHANGED PS!vars
  OBVIOUS
<1>1. CASE Tunnels!Controller
  <2>1. Tunnels!Nodes = PS!Nodes
    BY DEF Tunnels!Nodes, PS!Nodes
  <2> QED
    BY <1>1, <2>1, SameSteps, Zenon DEF Tunnels!Controller, PS!Next
<1>2. CASE Tunnels!RestartProcess
  BY <1>2, SameSteps, Zenon DEF Tunnels!RestartProcess, PS!Next
<1>3. CASE Tunnels!Apply
  <2>1. UNCHANGED Tunnels!vars
    BY <1>3, Zenon DEF Tunnels!Apply, Tunnels!Applies
  <2> QED
    BY <2>1, SameVars
<1>4. CASE UNCHANGED tunnelState
  BY <1>4, SameVars DEF tunnelState
<1>5. CASE \E n \in 0..MaxKey : Tunnels!ApplyFailsHalfway(n)
  <2>1. UNCHANGED Tunnels!vars
    BY <1>5, Zenon DEF Tunnels!ApplyFailsHalfway
  <2> QED
    BY <2>1, SameVars
<1> QED
  BY <1>1, <1>2, <1>3, <1>4, <1>5 DEF Tunnels!TunnelsNext

LEMMA StepKeepsTunnels == TunnelInv /\ [Tunnels!TunnelsNext]_tunnelState => TunnelInv'
<1> SUFFICES ASSUME TunnelInv, [Tunnels!TunnelsNext]_tunnelState PROVE TunnelInv'
  OBVIOUS
<1>1. [PS!Next]_PS!vars /\ PS!TypeOK /\ PS!Listed /\ PS!Inv /\ PS!UpToDate
  BY StepOfPeersSync, Zenon DEF TunnelInv
<1>2. PS!TypeOK' /\ PS!Listed'
  BY <1>1, SameAssumption, PS!StepKeepsTypes
<1>3. PS!Inv'
  BY <1>1, SameAssumption, PS!StepKeepsInv
<1>4. PS!UpToDate'
  BY <1>1, SameAssumption, PS!StepKeepsUpToDate
<1>5. Believed'
  <2>1. CASE UNCHANGED Tunnels!wireguard
    BY <2>1 DEF Tunnels!wireguard, TunnelInv, Believed, TunnelTypes, KeyedFlag, NothingBefore,
       AllowsNoMore, LacksOnlyShared
  <2>2. CASE Tunnels!Apply
    BY <1>1, <2>2, ApplyKeepsBelief DEF TunnelInv
  <2>4. CASE \E m \in 0..MaxKey : Tunnels!ApplyFailsHalfway(m)
    <3>1. PS!TypeOK /\ Believed
      BY DEF TunnelInv
    <3> QED
      BY <2>4, <3>1, HalfKeepsBelief
  <2>3. CASE Tunnels!RestartProcess
    <3>1. wgConfig' = WG!NoPeers /\ wgKeyed' = FALSE /\ wgDevice' = wgDevice
      BY <2>3, SameDifferences, Zenon DEF Tunnels!RestartProcess
    <3>2. WG!NoPeers \in WG!Devices
      BY DEF WG!NoPeers, WG!Devices
    <3> QED
      BY <3>1, <3>2 DEF TunnelInv, Believed, TunnelTypes, KeyedFlag, NothingBefore, AllowsNoMore,
         LacksOnlyShared
  <2> QED
    BY <2>1, <2>2, <2>3, <2>4 DEF Tunnels!TunnelsNext, tunnelState
<1> QED
  BY <1>2, <1>3, <1>4, <1>5 DEF TunnelInv

(* At rest the engine has given the device what the claims say, the peers in doubt apart.    *)
LEMMA RestFollowsClaims == TunnelInv => ClaimsFollowed
<1> SUFFICES ASSUME TunnelInv PROVE Tunnels!TypeOK /\ Tunnels!TunnelsFollowClaims
  BY DEF ClaimsFollowed
<1>1. Tunnels!TypeOK
  BY SameTypes, Zenon DEF TunnelInv
<1>2. ASSUME Tunnels!AtRest, NEW ip \in Prefixes
      PROVE  LET owners == {p \in Others : node[p] \in Specs
                                           /\ \E c \in Claims : Owner[c] = p /\ claim[c] = ip}
             IN  /\ \A p \in Tunnels!SentTo(ip) : p \in owners \/ Tunnels!InDoubt(p)
                 /\ \A p \in owners :
                        p \in Tunnels!SentTo(ip) \/ ip \in shared \/ Tunnels!InDoubt(p)
  <2> DEFINE owners == {p \in Others : node[p] \in Specs
                                       /\ \E c \in Claims : Owner[c] = p /\ claim[c] = ip}
  <2>1. /\ KeyOf \in [Others -> WG!PublicKeys] /\ Prefixes \subseteq IPs
        /\ \A p, q \in Others : KeyOf[p] = KeyOf[q] => p = q
    BY NodeAssumption, SameDifferences DEF Tunnels!TunnelsAssumption
  <2>2. engine = PS!Expected
    <3>1. PS!Quiet /\ node[Self] # Nobody
      BY <1>2, Zenon DEF Tunnels!AtRest, PS!Quiet
    <3>2. PS!Inv /\ PS!UpToDate
      BY DEF TunnelInv
    <3> QED
      BY <3>1, <3>2, SameAssumption, PS!QuietMeansExpected
  <2>3. Tunnels!WGConfig = wgConfig /\ wgKeyed
    <3>1. Tunnels!WGConfig \in WG!Devices
      BY GivenConfig DEF TunnelInv
    <3>2. wgConfig \in WG!Devices /\ wgKeyed \in BOOLEAN
      BY DEF TunnelInv, Believed, TunnelTypes, KeyedFlag
    <3>3. ~WG!diffConfigs(Tunnels!WGConfig, wgConfig, wgKeyed).hasDiff
      BY <1>2, SameDifferences, Zenon DEF Tunnels!AtRest, Tunnels!Diff
    <3> QED
      BY <3>1, <3>2, <3>3, DiffNamesAll
  <2>4. ASSUME NEW p \in Others
        PROVE  ip \in wgConfig[KeyOf[p]].allowedIPs <=> p \in owners
    <3>1. ip \in wgConfig[KeyOf[p]].allowedIPs <=>
              engine.Peers[p] # Nobody /\ ip \in engine.Peers[p].AllowedIPs
      BY <2>3, GivenConfig DEF TunnelInv
    <3>2. engine.Peers[p] = IF node[p] \in {Nobody, Invalid} THEN Nobody
                            ELSE [spec |-> node[p],
                                  Addresses |-> {claim[c] : c \in {c \in Claims : Owner[c] = p
                                                     /\ claim[c] \in Prefixes} \cap AddressClaims},
                                  AllowedIPs |-> {claim[c] : c \in {c \in Claims : Owner[c] = p
                                                                  /\ claim[c] \in Prefixes}}]
      BY <2>2 DEF PS!Expected, PS!Ready
    <3>3. engine.Peers[p] \in PS!PeerConfigs \cup {Nobody} /\ node[p] \in Specs \cup {Invalid, Nobody}
      BY DEF TunnelInv, PS!TypeOK, PS!NodeStates, PS!Nodes
    <3>4. {Invalid, Nobody} \cap Specs = {} /\ Nobody \notin PS!PeerConfigs
      BY SameAssumption DEF PS!Assumption
    <3>5. CASE node[p] \in {Nobody, Invalid}
      BY <3>1, <3>2, <3>4, <3>5
    <3>6. CASE node[p] \notin {Nobody, Invalid}
      <4>1. node[p] \in Specs
        BY <3>3, <3>6
      <4>2. engine.Peers[p] # Nobody
        <5> DEFINE shown == [spec |-> node[p],
                             Addresses |-> {claim[c] : c \in {c \in Claims : Owner[c] = p
                                                /\ claim[c] \in Prefixes} \cap AddressClaims},
                             AllowedIPs |-> {claim[c] : c \in {c \in Claims : Owner[c] = p
                                                             /\ claim[c] \in Prefixes}}]
        <5>1. shown \in PS!PeerConfigs
          BY <4>1 DEF PS!PeerConfigs
        <5>2. engine.Peers[p] = shown
          BY <3>2, <3>6
        <5> HIDE DEF shown
        <5> QED
          BY <3>4, <5>1, <5>2
      <4>3. engine.Peers[p].AllowedIPs = {claim[c] : c \in {c \in Claims : Owner[c] = p
                                                          /\ claim[c] \in Prefixes}}
        BY <3>2, <3>6
      <4> QED
        BY <3>1, <4>1, <4>2, <4>3
    <3> QED
      BY <3>5, <3>6
  <2>5. ASSUME NEW p \in Tunnels!SentTo(ip), ~Tunnels!InDoubt(p) PROVE p \in owners
    <3>1. p \in Others /\ ip \in wgDevice[KeyOf[p]].allowedIPs /\ KeyOf[p] \notin wgDoubtful
      BY <2>5 DEF Tunnels!SentTo, Tunnels!InDoubt
    <3>2. ip \in wgConfig[KeyOf[p]].allowedIPs
      BY <2>1, <2>3, <3>1 DEF TunnelInv, Believed, AllowsNoMore
    <3> QED
      BY <2>4, <3>1, <3>2
  <2>6. ASSUME NEW p \in owners, ip \notin shared, ~Tunnels!InDoubt(p)
        PROVE  p \in Tunnels!SentTo(ip)
    <3>1. p \in Others /\ KeyOf[p] \notin wgDoubtful
      BY <2>6 DEF Tunnels!InDoubt
    <3>2. ip \in wgDevice[KeyOf[p]].allowedIPs
      BY <2>1, <2>3, <2>4, <2>6, <3>1 DEF TunnelInv, Believed, LacksOnlyShared
    <3> QED
      BY <3>1, <3>2 DEF Tunnels!SentTo
  <2> HIDE DEF owners
  <2> QED
    BY <2>5, <2>6 DEF owners
<1> QED
  BY <1>1, <1>2, Zenon DEF Tunnels!TunnelsFollowClaims

(* At rest the packets for the prefix of a claim go to the node of the claim and to no other, *)
(* or, if the prefix was once given to two peers at a time, to nobody, for any number of       *)
(* peers, claims, edits, failures and restarts and any lag of the caches; but for the peers in *)
(* doubt, those that a configuration which failed half-way was to change and none has changed   *)
(* since (peerssync_controller.go:60-170, wgengine.go:172-194).                                 *)
THEOREM ClaimsAreFollowed == Tunnels!TunnelsSpec => []ClaimsFollowed
<1>1. Tunnels!TunnelsSpec => Tunnels!TunnelsInit /\ [][Tunnels!TunnelsNext]_tunnelState
  BY Zenon DEF Tunnels!TunnelsSpec, tunnelState
<1> QED
  BY <1>1, InitTunnels, StepKeepsTunnels, RestFollowsClaims, PTL

=============================================================================
