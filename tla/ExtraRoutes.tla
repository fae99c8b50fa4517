----------------------------- MODULE ExtraRoutes -----------------------------
(* The CNI plugin tetra-extra-routes (tetracni/cmd/tetra-extra-routes).  In the       *)
(* namespace of the node's pods it routes the extra CIDRs of a pod to the pod's veth:  *)
(* it asks the agent for the CIDRs, lists the routes, and adds those whose destination *)
(* is not among them.  Nothing deletes a route but the kernel, when its veth goes.     *)
EXTENDS Naturals

CONSTANTS
    Pods, CIDRs, None,
    MaxFails    \* bound: ADDs that fail or are killed

Assumption == None \notin Pods /\ MaxFails \in Nat

VARIABLES
    pod,        \* "none", "there", "gone": the object of each pod
    claim,      \* the pod for which each CIDR is claimed
    route,      \* the veth of which pod each CIDR is routed to
    pc,         \* where the ADD of each pod is
    extraRoutes, routesSet,     \* its locals: the CIDRs, and the destinations listed
    fails,
    forced,     \* some pod was deleted by force
    inherited   \* per pod: CIDRs its ADD found routed to another pod

vars == <<pod, claim, route, pc, extraRoutes, routesSet, fails, forced, inherited>>
history == <<forced, inherited>>
cluster == <<pod, claim>>

Init ==
    /\ pod = [p \in Pods |-> "none"]
    /\ claim = [x \in CIDRs |-> None]
    /\ route = [x \in CIDRs |-> None]
    /\ pc = [p \in Pods |-> "none"]
    /\ extraRoutes = [p \in Pods |-> {}]
    /\ routesSet = [p \in Pods |-> {}]
    /\ fails = 0
    /\ forced = FALSE
    /\ inherited = [p \in Pods |-> {}]

\* The process of an ADD ends; its locals are gone.
Ends(p, l) ==
    /\ pc' = [pc EXCEPT ![p] = l]
    /\ extraRoutes' = [extraRoutes EXCEPT ![p] = {}]
    /\ routesSet' = [routesSet EXCEPT ![p] = {}]

\* The kernel deletes a veth with the routes to it.
LinkDel(p) ==
    route' = [x \in CIDRs |-> IF route[x] = p THEN None ELSE route[x]]

-----------------------------------------------------------------------------
(* The cluster and the runtime *)

\* A pod is created on the node and gets its claims: free CIDRs.
CreatePod(p, xs) ==
    /\ pod[p] = "none"
    /\ \A x \in xs : claim[x] = None
    /\ pod' = [pod EXCEPT ![p] = "there"]
    /\ claim' = [x \in CIDRs |-> IF x \in xs THEN p ELSE claim[x]]
    /\ UNCHANGED <<route, pc, extraRoutes, routesSet, fails, history>>

\* The sandbox of a pod is made; the bridge plugin has made its veth.
StartAdd(p) ==
    /\ pod[p] = "there" /\ pc[p] = "none"
    /\ pc' = [pc EXCEPT ![p] = "load"]
    /\ UNCHANGED <<cluster, route, extraRoutes, routesSet, fails, history>>

\* The ADD fails or is killed: the runtime removes the sandbox and tries again.
AddFails(p) ==
    /\ pc[p] \in {"load", "list", "add"} /\ fails < MaxFails
    /\ fails' = fails + 1
    /\ Ends(p, "none") /\ LinkDel(p)
    /\ UNCHANGED <<cluster, history>>

\* The pod ends; its sandbox is removed.
StopSandbox(p) ==
    /\ pc[p] = "done"
    /\ Ends(p, "stopped") /\ LinkDel(p)
    /\ UNCHANGED <<cluster, fails, history>>

\* Its object is deleted, and its claims with it; not during the ADD.  By force it is
\* deleted before its sandbox.
DeletePod(p) ==
    /\ pod[p] = "there" /\ pc[p] \in {"done", "stopped"}
    /\ pod' = [pod EXCEPT ![p] = "gone"]
    /\ claim' = [x \in CIDRs |-> IF claim[x] = p THEN None ELSE claim[x]]
    /\ forced' = (forced \/ pc[p] = "done")
    /\ UNCHANGED <<route, pc, extraRoutes, routesSet, fails, inherited>>

-----------------------------------------------------------------------------
(* cmdAdd *)

loadExtraRoutes(p) ==
    /\ pc[p] = "load"
    /\ pc' = [pc EXCEPT ![p] = "list"]
    /\ extraRoutes' = [extraRoutes EXCEPT ![p] = {x \in CIDRs : claim[x] = p}]
    /\ UNCHANGED <<cluster, route, routesSet, fails, history>>

RouteListFiltered(p) ==
    /\ pc[p] = "list"
    /\ pc' = [pc EXCEPT ![p] = "add"]
    /\ routesSet' = [routesSet EXCEPT ![p] = {x \in CIDRs : route[x] # None}]
    /\ inherited' = [inherited EXCEPT ![p] = {x \in extraRoutes[p] : route[x] # None}]
    /\ UNCHANGED <<cluster, route, extraRoutes, fails, forced>>

\* Mutant: a destination the list does not have is taken for routed.
RouteAddSkips(p, x) ==
    /\ pc[p] = "add" /\ x \in extraRoutes[p]
    /\ route' = [route EXCEPT ![x] = IF x \in routesSet[p] THEN p ELSE @]
    /\ extraRoutes' = [extraRoutes EXCEPT ![p] = @ \ {x}]
    /\ UNCHANGED <<cluster, pc, routesSet, fails, history>>

\* A destination that was listed is skipped, wherever its route leads.  One that got a
\* route meanwhile makes the ADD fail (AddFails).
RouteAdd(p, x) ==
    /\ pc[p] = "add" /\ x \in extraRoutes[p]
    /\ x \notin routesSet[p] => route[x] = None
    /\ route' = [route EXCEPT ![x] = IF x \in routesSet[p] THEN @ ELSE p]
    /\ extraRoutes' = [extraRoutes EXCEPT ![p] = @ \ {x}]
    /\ UNCHANGED <<cluster, pc, routesSet, fails, history>>

Added(p) ==
    /\ pc[p] = "add" /\ extraRoutes[p] = {}
    /\ Ends(p, "done")
    /\ UNCHANGED <<cluster, route, fails, history>>

Next == \E p \in Pods :
    \/ \E xs \in SUBSET CIDRs : CreatePod(p, xs)
    \/ StartAdd(p) \/ AddFails(p) \/ StopSandbox(p) \/ DeletePod(p)
    \/ loadExtraRoutes(p) \/ RouteListFiltered(p) \/ (\E x \in CIDRs : RouteAdd(p, x))
    \/ Added(p)

Spec == Init /\ [][Next]_vars

-----------------------------------------------------------------------------
\* cmdCheck: every extra CIDR of the pod is the destination of some route.
cmdCheck(p) == \A x \in CIDRs : claim[x] = p => route[x] # None

(* From an ADD that succeeded to the end of its sandbox the packets for a pod's extra      *)
(* CIDRs are routed to the pod, and CHECK succeeds (tetra-extra-routes/main.go:96-117,      *)
(* 180-191).  The exception are CIDRs that were still routed to another pod when the ADD    *)
(* listed the routes: these it leaves alone, and the kernel deletes their routes with the   *)
(* other pod's sandbox.  That takes a pod deleted by force.                                 *)
RoutesKept ==
    /\ \A p \in Pods : pod[p] = "there" /\ pc[p] = "done" =>
           /\ \A x \in CIDRs : claim[x] = p => route[x] = p \/ x \in inherited[p]
           /\ inherited[p] = {} => cmdCheck(p)
    /\ forced \/ \A p \in Pods : inherited[p] = {}
=============================================================================
