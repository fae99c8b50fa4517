----------------------------- MODULE CIDRClaimer -----------------------------
(***************************************************************************)
(* How a node asks for addresses: the CIDRClaimer controller of the agent  *)
(* (tetrad/controllers/cidrclaimer_controller.go), of which one instance   *)
(* claims the node's own addresses and one its pods'.                      *)
(*                                                                         *)
(* The templates named in the agent's configuration are requests at start; *)
(* any event of a claim with the agent's labels is a request for the       *)
(* template the label names.  Reconcile deletes the claims of a template   *)
(* that is no longer configured; otherwise it reads the node's PeerNode    *)
(* and the template, and CreateOrUpdate brings the claim up to date, with  *)
(* the PeerNode as its owner if there is one.  The API server's garbage    *)
(* collector deletes a claim whose owner is gone.  All reads are of caches *)
(* that lag behind; only the claims are watched.                           *)
(*                                                                         *)
(* There is one claim per template.  A PeerNode is its UID, 0 if there is  *)
(* none.  Both instances leave AllocatedCallback nil.                      *)
(***************************************************************************)
EXTENDS Naturals, Sequences

CONSTANTS
  Templates,      \* names of CIDRClaimTemplates
  TemplateNames,  \* configurations of the agent: sets of names
  Specs,          \* selector and size of a template
  None,           \* an object that does not exist
  MaxEdits,       \* bound: changes of templates, PeerNodes and claims by others
  MaxFaults,      \* bound: failed requests and restarts
  MaxLag          \* bound: watch events a cache is behind

VARIABLES
  names,          \* r.TemplateNames
  node, tmpl, claim,                         \* the objects at the API server
  pendingNode, pendingTmpl, pendingClaim,    \* events, each the objects after it
  cacheNode, cacheTmpl, cacheClaim,          \* the caches
  queue,          \* templates in the work queue
  pc, req,        \* Reconcile and its request
  selfNode,       \* the PeerNode read
  spec,           \* the template read
  read,           \* the claim read
  stale,          \* has it been written since the version read?
  edits, faults

others == <<node, tmpl, pendingNode, pendingTmpl>>
store == <<claim, pendingClaim>>
caches == <<cacheNode, cacheTmpl, cacheClaim>>
local == <<pc, req, selfNode, spec, read, stale>>
vars == <<names, others, store, caches, queue, local, edits, faults>>

ClaimObjects == [spec : Specs, owner : Nat, bound : BOOLEAN]

Assumption ==
  /\ TemplateNames \subseteq SUBSET Templates
  /\ None \notin ClaimObjects
  /\ {MaxEdits, MaxFaults, MaxLag} \subseteq Nat

Init ==
  /\ names \in TemplateNames
  /\ node \in {0, 1} /\ tmpl \in [Templates -> Specs]
  /\ claim = [t \in Templates |-> None]
  /\ pendingNode = <<>> /\ pendingTmpl = <<>> /\ pendingClaim = <<>>
  /\ cacheNode = node /\ cacheTmpl = tmpl /\ cacheClaim = claim
  /\ queue = names
  /\ pc = "idle" /\ req = None /\ selfNode = 0 /\ spec = None /\ read = None /\ stale = FALSE
  /\ edits = 0 /\ faults = 0

\* A claim written by somebody else while Reconcile is at work on it.
Outdates(t) == stale' = (stale \/ (pc = "write" /\ req = t))

\* Claims written at the API server, and the event of it.
Write(f) ==
  /\ claim' = f
  /\ pendingClaim' = Append(pendingClaim, f)

-----------------------------------------------------------------------------
(* Others *)

\* A PeerNode is created, or deleted, by its controller or by an operator.
EditNode(u) ==
  /\ edits < MaxEdits /\ Len(pendingNode) < MaxLag
  /\ u # node /\ u \in {0, edits + 2}
  /\ node' = u
  /\ pendingNode' = Append(pendingNode, u)
  /\ edits' = edits + 1
  /\ UNCHANGED <<names, tmpl, pendingTmpl, store, caches, queue, local, faults>>

EditTemplate(t, s) ==
  /\ edits < MaxEdits /\ Len(pendingTmpl) < MaxLag
  /\ s # tmpl[t]
  /\ tmpl' = [tmpl EXCEPT ![t] = s]
  /\ pendingTmpl' = Append(pendingTmpl, tmpl')
  /\ edits' = edits + 1
  /\ UNCHANGED <<names, node, pendingNode, store, caches, queue, local, faults>>

DeleteClaim(t) ==
  /\ edits < MaxEdits /\ Len(pendingClaim) < MaxLag
  /\ claim[t] # None
  /\ Write([claim EXCEPT ![t] = None]) /\ Outdates(t)
  /\ edits' = edits + 1
  /\ UNCHANGED <<names, others, caches, queue, pc, req, selfNode, spec, read, faults>>

\* The garbage collector deletes a claim whose owner does not exist.
Collect(t) ==
  /\ Len(pendingClaim) < MaxLag
  /\ claim[t] # None /\ claim[t].owner \notin {0, node}
  /\ Write([claim EXCEPT ![t] = None]) /\ Outdates(t)
  /\ UNCHANGED <<names, others, caches, queue, pc, req, selfNode, spec, read, edits, faults>>

\* The control plane writes the status of a claim.
Bind(t) ==
  /\ Len(pendingClaim) < MaxLag
  /\ claim[t] # None /\ ~claim[t].bound
  /\ Write([claim EXCEPT ![t].bound = TRUE]) /\ Outdates(t)
  /\ UNCHANGED <<names, others, caches, queue, pc, req, selfNode, spec, read, edits, faults>>

-----------------------------------------------------------------------------
(* Caches and queue *)

DeliverNode ==
  /\ pendingNode # <<>>
  /\ cacheNode' = Head(pendingNode) /\ pendingNode' = Tail(pendingNode)
  /\ UNCHANGED <<names, node, tmpl, pendingTmpl, store, cacheTmpl, cacheClaim, queue, local, edits, faults>>

DeliverTemplate ==
  /\ pendingTmpl # <<>>
  /\ cacheTmpl' = Head(pendingTmpl) /\ pendingTmpl' = Tail(pendingTmpl)
  /\ UNCHANGED <<names, node, tmpl, pendingNode, store, cacheNode, cacheClaim, queue, local, edits, faults>>

\* controlPlaneClaimHandler: the claim's label names the template.
DeliverClaim ==
  /\ pendingClaim # <<>>
  /\ cacheClaim' = Head(pendingClaim) /\ pendingClaim' = Tail(pendingClaim)
  /\ queue' = queue \cup {t \in Templates : cacheClaim'[t] # cacheClaim[t]}
  /\ UNCHANGED <<names, others, claim, cacheNode, cacheTmpl, local, edits, faults>>

\* The agent starts again, perhaps with another configuration: its templates
\* and the claims of the first list are requests.
Restart(ns) ==
  /\ faults < MaxFaults
  /\ names' = ns
  /\ cacheNode' = node /\ cacheTmpl' = tmpl /\ cacheClaim' = claim
  /\ pendingNode' = <<>> /\ pendingTmpl' = <<>> /\ pendingClaim' = <<>>
  /\ queue' = ns \cup {t \in Templates : claim[t] # None}
  /\ pc' = "idle" /\ req' = None /\ selfNode' = 0 /\ spec' = None /\ read' = None /\ stale' = FALSE
  /\ faults' = faults + 1
  /\ UNCHANGED <<node, tmpl, claim, edits>>

-----------------------------------------------------------------------------
(* Reconcile *)

Return == pc' = "idle" /\ req' = None /\ selfNode' = 0 /\ spec' = None /\ read' = None /\ stale' = FALSE

Start(t) ==
  /\ pc = "idle" /\ t \in queue
  /\ queue' = queue \ {t} /\ req' = t
  /\ pc' = IF t \in names THEN "node" ELSE "delete"
  /\ UNCHANGED <<names, others, store, caches, selfNode, spec, read, stale, edits, faults>>

\* The template is not configured: DeleteAllOf, at the API server.
deleteUnusedClaims ==
  /\ pc = "delete" /\ Len(pendingClaim) < MaxLag
  /\ IF claim[req] = None THEN UNCHANGED store
     ELSE Write([claim EXCEPT ![req] = None])
  /\ Return
  /\ UNCHANGED <<names, others, caches, queue, edits, faults>>

GetSelfNode ==
  /\ pc = "node"
  /\ selfNode' = cacheNode
  /\ pc' = "template"
  /\ UNCHANGED <<names, others, store, caches, queue, req, spec, read, stale, edits, faults>>

\* A missing template is an error: the request comes again.
GetTemplate ==
  /\ pc = "template"
  /\ IF cacheTmpl[req] = None
     THEN Return /\ queue' = queue \cup {req}
     ELSE /\ spec' = cacheTmpl[req] /\ pc' = "get"
          /\ UNCHANGED <<queue, req, selfNode, read, stale>>
  /\ UNCHANGED <<names, others, store, caches, edits, faults>>

\* What the mutate function makes of a claim: a PeerNode that is gone leaves
\* the owner as it is.
Mutated(c) ==
  LET owner == IF selfNode # 0 THEN selfNode ELSE IF c = None THEN 0 ELSE c.owner
  IN [spec |-> spec, owner |-> owner,
      bound |-> c # None /\ c.bound /\ c.spec = spec]

SameClaim(c, d) == c.spec = d.spec /\ c.owner = d.owner

\* CreateOrUpdate: the read; a claim that is as it should be is left alone.
GetClaim ==
  /\ pc = "get"
  /\ IF cacheClaim[req] # None /\ SameClaim(Mutated(cacheClaim[req]), cacheClaim[req])
     THEN Return
     ELSE /\ read' = cacheClaim[req] /\ pc' = "write"
          /\ stale' = (\E i \in 1..Len(pendingClaim) : pendingClaim[i][req] # cacheClaim[req])
          /\ UNCHANGED <<req, selfNode, spec>>
  /\ UNCHANGED <<names, others, store, caches, queue, edits, faults>>

\* Does the API server accept the write?
Accepted == IF read = None THEN claim[req] = None
            ELSE claim[req] # None /\ ~stale

Upsert ==
  /\ pc = "write" /\ Accepted /\ Len(pendingClaim) < MaxLag
  /\ Write([claim EXCEPT ![req] = Mutated(read)])
  /\ Return
  /\ UNCHANGED <<names, others, caches, queue, edits, faults>>

UpsertRefused ==
  /\ pc = "write" /\ ~Accepted
  /\ queue' = queue \cup {req} /\ Return
  /\ UNCHANGED <<names, others, store, caches, edits, faults>>

\* The request is lost, or its answer is: then it was written.
UpsertFails ==
  /\ pc = "write" /\ Accepted /\ Len(pendingClaim) < MaxLag /\ faults < MaxFaults
  /\ UNCHANGED store \/ Write([claim EXCEPT ![req] = Mutated(read)])
  /\ queue' = queue \cup {req} /\ Return
  /\ faults' = faults + 1
  /\ UNCHANGED <<names, others, caches, edits>>

Next ==
  \/ \E u \in 0..(MaxEdits + 1) : EditNode(u)
  \/ \E t \in Templates, s \in Specs \cup {None} : EditTemplate(t, s)
  \/ \E t \in Templates : DeleteClaim(t) \/ Collect(t) \/ Bind(t) \/ Start(t)
  \/ DeliverNode \/ DeliverTemplate \/ DeliverClaim
  \/ \E ns \in TemplateNames : Restart(ns)
  \/ deleteUnusedClaims \/ GetSelfNode \/ GetTemplate \/ GetClaim
  \/ Upsert \/ UpsertRefused \/ UpsertFails

\* Watches deliver, the worker works and takes every request, the garbage
\* collector runs.  The control plane need not bind a claim.
Fairness ==
  /\ WF_vars(DeliverNode) /\ WF_vars(DeliverTemplate) /\ WF_vars(DeliverClaim)
  /\ \A t \in Templates : WF_vars(Collect(t)) /\ SF_vars(Start(t))
  /\ WF_vars(deleteUnusedClaims) /\ WF_vars(GetSelfNode) /\ WF_vars(GetTemplate)
  /\ WF_vars(GetClaim) /\ WF_vars(Upsert) /\ WF_vars(UpsertRefused)

Spec == Init /\ [][Next]_vars /\ Fairness

-----------------------------------------------------------------------------
(* Properties *)

\* Every variable has its type.
TypeOK ==
  /\ names \in TemplateNames /\ queue \subseteq Templates
  /\ node \in Nat /\ cacheNode \in Nat /\ selfNode \in Nat
  /\ {tmpl, cacheTmpl} \subseteq [Templates -> Specs \cup {None}]
  /\ {claim, cacheClaim} \subseteq [Templates -> ClaimObjects \cup {None}]
  /\ pc \in {"idle", "delete", "node", "template", "get", "write"}
  /\ req \in Templates \cup {None} /\ spec \in Specs \cup {None}
  /\ read \in ClaimObjects \cup {None} /\ stale \in BOOLEAN
  /\ Len(pendingNode) <= MaxLag /\ Len(pendingTmpl) <= MaxLag /\ Len(pendingClaim) <= MaxLag
  /\ edits \in 0..MaxEdits /\ faults \in 0..MaxFaults

\* Something will make the reconciler look at a template, or it is at it.
InEvents(t) == \E i \in 1..Len(pendingClaim) : pendingClaim[i][t] # cacheClaim[t]
Due(t) == t \in queue \/ (pc # "idle" /\ req = t) \/ InEvents(t)

\* No template is forgotten: unless one is due, it has a claim if it is configured and
\* none if it is not, whoever deletes claims and whatever the caches showed a Reconcile.
NoneForgotten == \A t \in Templates : Due(t) \/ (claim[t] # None <=> t \in names)

\* Every configured template that exists ends up with a claim, and keeps it:
\* although the PeerNode that owns the claim is deleted and created under a
\* stale cache, which makes the garbage collector delete the claim, although
\* somebody deletes it, and although the template may appear late.  And a claim
\* of a template that is not configured any more is released.
EventuallySettled ==
  <>[](\A t \in Templates :
         IF t \in names
         THEN tmpl[t] # None => claim[t] # None /\ claim[t].owner \in {0, node}
         ELSE claim[t] = None)
=============================================================================
