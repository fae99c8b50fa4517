-------------------------- MODULE ExtraPodCIDRSync --------------------------
(***************************************************************************)
(* Extra CIDRs of single pods: the ExtraPodCIDRSync controller of the      *)
(* agent (tetrad/controllers/extrapodcidrsync_controller.go).              *)
(*                                                                         *)
(* A pod of this node may name templates in an annotation.  An event of a  *)
(* pod with that annotation, and any event of a claim with the labels of a *)
(* pod, is a request for the pod.  Reconcile deletes the claims of a pod   *)
(* that is gone, and otherwise makes one claim per template, one after the *)
(* other.  The name of a claim is made from the pod's and the template's,  *)
(* but cut when the pod's name is long: then its templates share one name, *)
(* and so may pods of the same name in two namespaces.  The informers list *)
(* again every ten hours and then make an event of every object.           *)
(*                                                                         *)
(* A claim is its labels, pod and template.  Its owner, the PeerNode, only *)
(* matters to the garbage collector: that is one more way to be deleted.   *)
(***************************************************************************)
EXTENDS Naturals, Sequences

CONSTANTS
  Pods,        \* pods of this node
  Long,        \* those with a name of more than 44 bytes: the sets of them whose names of
               \* claims begin alike, up to the cut, and end with the same hash
  Templates,   \* names of CIDRClaimTemplates
  None,        \* an object that does not exist
  MaxEdits,    \* bound: changes of pods, templates and claims by others
  MaxFaults,   \* bound: failed requests
  MaxLag       \* bound: watch events a cache is behind

VARIABLES
  templates,   \* the templates that exist
  pod,         \* pod[p]: the templates its annotation names, or None
  claim,       \* claim[n]: the claim of name n
  pendingPod, pendingClaim,  \* events, each the objects after it
  cachePod, cacheClaim,      \* the caches
  queue,       \* pods in the work queue
  pc, req,     \* Reconcile and its request
  todo,        \* templates this Reconcile has still to see to
  tmpl,        \* the template it is at
  read, stale, \* the claim read; has it been written since?
  edits, faults

store == <<claim, pendingClaim>>
pods == <<pod, pendingPod>>
caches == <<cachePod, cacheClaim>>
local == <<pc, req, todo, tmpl, read, stale>>
vars == <<templates, pods, store, caches, queue, local, edits, faults>>

\* The name of a claim: cluster, node, namespace, pod and template, cut after
\* 44 bytes if the pod's name alone has more, and a hash of the pod's name.
claimName(p, t) ==
  LET alike == UNION {ps \in Long : p \in ps}
  IN  IF alike = {} THEN <<p, t>> ELSE <<alike>>

ClaimNames == {claimName(p, t) : p \in Pods, t \in Templates}
Labels == [pod : Pods, tmpl : Templates]

Assumption == Long \subseteq SUBSET Pods /\ None \notin Labels

Init ==
  /\ templates \in {Templates} \cup {Templates \ {t} : t \in Templates}
  /\ pod = [p \in Pods |-> None]
  /\ claim = [n \in ClaimNames |-> None]
  /\ pendingPod = <<>> /\ pendingClaim = <<>>
  /\ cachePod = pod /\ cacheClaim = claim
  /\ queue = {}
  /\ pc = "idle" /\ req = None /\ todo = {} /\ tmpl = None /\ read = None /\ stale = FALSE
  /\ edits = 0 /\ faults = 0

-----------------------------------------------------------------------------
(* Others *)

\* A template is created.
AddTemplate(t) ==
  /\ t \notin templates
  /\ templates' = templates \cup {t}
  /\ UNCHANGED <<pods, store, caches, queue, local, edits, faults>>

\* A pod is created, its annotation is edited, or it is deleted.
EditPod(p, a) ==
  /\ edits < MaxEdits /\ Len(pendingPod) < MaxLag
  /\ a # pod[p]
  /\ pod' = [pod EXCEPT ![p] = a]
  /\ pendingPod' = Append(pendingPod, pod')
  /\ edits' = edits + 1
  /\ UNCHANGED <<templates, store, caches, queue, local, faults>>

Write(f) ==
  /\ claim' = f
  /\ pendingClaim' = Append(pendingClaim, f)

\* Somebody, or the garbage collector, deletes a claim.
DeleteClaim(n) ==
  /\ edits < MaxEdits /\ Len(pendingClaim) < MaxLag
  /\ claim[n] # None
  /\ Write([claim EXCEPT ![n] = None])
  /\ stale' = (stale \/ (pc = "write" /\ n = claimName(req, tmpl)))
  /\ edits' = edits + 1
  /\ UNCHANGED <<templates, pods, caches, queue, pc, req, todo, tmpl, read, faults>>

-----------------------------------------------------------------------------
(* Caches and queue *)

Annotated(f, p) == f[p] # None /\ f[p] # {}

\* podHandler: the pod before and after, each if it is annotated.
DeliverPod ==
  /\ pendingPod # <<>>
  /\ cachePod' = Head(pendingPod) /\ pendingPod' = Tail(pendingPod)
  /\ queue' = queue \cup {p \in Pods : /\ cachePod'[p] # cachePod[p]
                                       /\ Annotated(cachePod, p) \/ Annotated(cachePod', p)}
  /\ UNCHANGED <<templates, pod, store, cacheClaim, local, edits, faults>>

\* cidrClaimHandler: the pod of the claim's labels.
PodsOf(f, n) == IF f[n] = None THEN {} ELSE {f[n].pod}

DeliverClaim ==
  /\ pendingClaim # <<>>
  /\ cacheClaim' = Head(pendingClaim) /\ pendingClaim' = Tail(pendingClaim)
  /\ queue' = queue \cup UNION {PodsOf(cacheClaim, n) \cup PodsOf(cacheClaim', n) :
                                 n \in {m \in ClaimNames : cacheClaim'[m] # cacheClaim[m]}}
  /\ UNCHANGED <<templates, pods, claim, cachePod, local, edits, faults>>

\* The informers' resync.
Resync ==
  /\ queue' = queue \cup {p \in Pods : Annotated(cachePod, p)}
                    \cup UNION {PodsOf(cacheClaim, n) : n \in ClaimNames}
  /\ queue' # queue
  /\ UNCHANGED <<templates, pods, store, caches, local, edits, faults>>

-----------------------------------------------------------------------------
(* Reconcile *)

Return ==
  /\ pc' = "idle" /\ req' = None /\ todo' = {} /\ tmpl' = None
  /\ read' = None /\ stale' = FALSE

\* A Reconcile that ends when the pod is gone.
GetPodOrReturn(p) ==
  /\ pc = "idle" /\ p \in queue
  /\ queue' = queue \ {p}
  /\ IF cachePod[p] = None THEN Return
     ELSE /\ req' = p /\ pc' = "next" /\ todo' = cachePod[p]
          /\ UNCHANGED <<tmpl, read, stale>>
  /\ UNCHANGED <<templates, pods, store, caches, edits, faults>>

\* The request is taken and the pod read.
GetPod(p) ==
  /\ pc = "idle" /\ p \in queue
  /\ queue' = queue \ {p} /\ req' = p
  /\ pc' = IF cachePod[p] = None THEN "delete" ELSE "next"
  /\ todo' = IF cachePod[p] = None THEN {} ELSE cachePod[p]
  /\ UNCHANGED <<templates, pods, store, caches, tmpl, read, stale, edits, faults>>

\* DeleteAllOf with the pod's labels, at the API server.
deleteCIDRClaim ==
  /\ pc = "delete" /\ Len(pendingClaim) < MaxLag
  /\ LET mine == {n \in ClaimNames : claim[n] # None /\ claim[n].pod = req}
     IN  IF mine = {} THEN UNCHANGED store
         ELSE Write([n \in ClaimNames |-> IF n \in mine THEN None ELSE claim[n]])
  /\ Return
  /\ UNCHANGED <<templates, pods, caches, queue, edits, faults>>

\* The next template; one that does not exist ends the Reconcile with an
\* error, and the request comes again.
GetTemplate(t) ==
  /\ pc = "next" /\ t \in todo
  /\ IF t \in templates
     THEN /\ tmpl' = t /\ todo' = todo \ {t} /\ pc' = "get"
          /\ UNCHANGED <<queue, req, read, stale>>
     ELSE Return /\ queue' = queue \cup {req}
  /\ UNCHANGED <<templates, pods, store, caches, edits, faults>>

Done ==
  /\ pc = "next" /\ todo = {}
  /\ Return
  /\ UNCHANGED <<templates, pods, store, caches, queue, edits, faults>>

\* CreateOrUpdate: the read; a claim that is as it should be is left alone.
GetClaim ==
  /\ pc = "get"
  /\ LET n == claimName(req, tmpl)
     IN  IF cacheClaim[n] = [pod |-> req, tmpl |-> tmpl]
         THEN pc' = "next" /\ tmpl' = None /\ UNCHANGED <<req, todo, read, stale>>
         ELSE /\ read' = cacheClaim[n] /\ pc' = "write"
              /\ stale' = (\E i \in 1..Len(pendingClaim) : pendingClaim[i][n] # cacheClaim[n])
              /\ UNCHANGED <<req, todo, tmpl>>
  /\ UNCHANGED <<templates, pods, store, caches, queue, edits, faults>>

\* Does the API server accept the write?
Accepted ==
  LET n == claimName(req, tmpl)
  IN  IF read = None THEN claim[n] = None ELSE claim[n] # None /\ ~stale

WriteClaim(t) == Write([claim EXCEPT ![claimName(req, tmpl)] = [pod |-> req, tmpl |-> t]])

Upsert ==
  /\ pc = "write" /\ Accepted /\ Len(pendingClaim) < MaxLag
  /\ WriteClaim(tmpl)
  /\ pc' = "next" /\ tmpl' = None /\ read' = None /\ stale' = FALSE
  /\ UNCHANGED <<templates, pods, caches, queue, req, todo, edits, faults>>

UpsertRefused ==
  /\ pc = "write" /\ ~Accepted
  /\ queue' = queue \cup {req} /\ Return
  /\ UNCHANGED <<templates, pods, store, caches, edits, faults>>

\* The request is lost, or its answer is: then it was written.
UpsertFails ==
  /\ pc = "write" /\ Accepted /\ Len(pendingClaim) < MaxLag /\ faults < MaxFaults
  /\ UNCHANGED store \/ WriteClaim(tmpl)
  /\ queue' = queue \cup {req} /\ Return
  /\ faults' = faults + 1
  /\ UNCHANGED <<templates, pods, caches, edits>>

Next ==
  \/ \E t \in Templates : AddTemplate(t) \/ GetTemplate(t)
  \/ \E p \in Pods, a \in (SUBSET Templates) \cup {None} : EditPod(p, a)
  \/ \E n \in ClaimNames : DeleteClaim(n)
  \/ DeliverPod \/ DeliverClaim \/ Resync
  \/ \E p \in Pods : GetPod(p)
  \/ deleteCIDRClaim \/ Done \/ GetClaim \/ Upsert \/ UpsertRefused \/ UpsertFails

\* Watches deliver and list again, the worker works and takes every request;
\* a template that is named is created at last.
Fairness ==
  /\ WF_vars(DeliverPod) /\ WF_vars(DeliverClaim) /\ WF_vars(Resync)
  /\ \A p \in Pods : SF_vars(GetPod(p))
  /\ \A t \in Templates : WF_vars(AddTemplate(t))
  /\ WF_vars(\E t \in Templates : GetTemplate(t))
  /\ WF_vars(deleteCIDRClaim) /\ WF_vars(Done) /\ WF_vars(GetClaim)
  /\ WF_vars(Upsert) /\ WF_vars(UpsertRefused)

Spec == Init /\ [][Next]_vars /\ Fairness

-----------------------------------------------------------------------------
(* Properties *)

\* Every variable has its type.
TypeOK ==
  /\ templates \subseteq Templates /\ queue \subseteq Pods /\ todo \subseteq Templates
  /\ {pod, cachePod} \subseteq [Pods -> (SUBSET Templates) \cup {None}]
  /\ {claim, cacheClaim} \subseteq [ClaimNames -> Labels \cup {None}]
  /\ Len(pendingPod) <= MaxLag /\ Len(pendingClaim) <= MaxLag
  /\ pc \in {"idle", "delete", "next", "get", "write"}
  /\ req \in Pods \cup {None} /\ tmpl \in Templates \cup {None}
  /\ read \in Labels \cup {None} /\ stale \in BOOLEAN
  /\ edits \in 0..MaxEdits /\ faults \in 0..MaxFaults

Claimed(p, t) == \E n \in ClaimNames : claim[n] = [pod |-> p, tmpl |-> t]

\* Something will make the reconciler look at a pod, or it is at it.
InPodEvents(p) == \E i \in 1..Len(pendingPod) : pendingPod[i][p] # cachePod[p]
\* A version of a claim of pod p comes or goes by an event.
Versions(n) == {cacheClaim[n]} \cup {pendingClaim[i][n] : i \in 1..Len(pendingClaim)}
InClaimEvents(p) ==
  \E n \in ClaimNames : \E c, d \in Versions(n) : c # d /\ c # None /\ c.pod = p
Due(p) == p \in queue \/ (pc # "idle" /\ req = p) \/ InPodEvents(p) \/ InClaimEvents(p)

\* No pod is forgotten: unless one that runs is due, it has all claims it names, although a
\* Reconcile works through the templates it read at its start one by one and other pods
\* may overwrite its claims.
NoneForgotten ==
  \A p \in Pods : pod[p] = None \/ Due(p) \/ \A t \in pod[p] : Claimed(p, t)

\* A pod that keeps running gets a claim for each template it names, as the
\* CNI server expects of it.  When a pod is gone, so are its claims in the end:
\* also those that a Reconcile was making when the pod was deleted, and those
\* whose pod lost its annotation before it was deleted, which makes no request
\* by itself.
EventuallySettled ==
  <>[](\A p \in Pods : IF pod[p] # None
                       THEN \A t \in pod[p] : Claimed(p, t)
                       ELSE \A t \in Templates : ~Claimed(p, t))
=============================================================================
