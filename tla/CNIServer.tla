------------------------------ MODULE CNIServer ------------------------------
(***************************************************************************)
(* The CNI server of the agent (tetrad/pkg/cniserver/cniserver.go): a CNI  *)
(* plugin asks, over a Unix socket, for the CIDRs of the node's pods or    *)
(* for the extra CIDRs of one pod, while the claims come and go.           *)
(*                                                                         *)
(* Each handler retries a function with back-off for 30 seconds.  The      *)
(* function lists the claims from the cache: one that is not ready, or a   *)
(* template without a claim, makes it fail.  GetPodCIDRs keeps the set of  *)
(* templates it still misses across the retries; GetExtraPodCIDRs reads    *)
(* the pod and starts from its templates every time.                       *)
(*                                                                         *)
(* A list is one read of the cache and is gone through in any order, since *)
(* a cache has none.  A read that fails only ends the try, and nothing     *)
(* changes.  Without a local cache GetExtraPodCIDRs returns at once.       *)
(***************************************************************************)
EXTENDS Naturals

CONSTANTS
  Templates,   \* the node's templates, and those a pod may name
  MaxEdits     \* bound: changes of claims and of the pod

VARIABLES
  claims,      \* claims[t]: the claim of template t in the cache
  annotation,  \* templates the pod's annotation names; the pod may be gone
  method,      \* the method called last: "none", "pod" or "extra"
  running,     \* has it not returned yet?
  podRead,     \* has this try of GetExtraPodCIDRs read the pod?
  templateNames, \* templates still missed
  list,        \* the reply: claims of the last list, by template
  answer,      \* what the caller got: "none", "error" or "ok"
  wanted,      \* templates the answer had to cover
  edits

vars == <<claims, annotation, method, running, podRead, templateNames, list, answer, wanted, edits>>
world == <<claims, annotation, edits>>

States == {"absent", "pending", "ready"}
Gone == [found |-> FALSE, names |-> {}]

Init ==
  /\ claims = [t \in Templates |-> "absent"]
  /\ annotation \in {Gone} \cup [found : {TRUE}, names : SUBSET Templates]
  /\ method = "none" /\ running = FALSE /\ podRead = FALSE /\ templateNames = {} /\ list = [t \in Templates |-> "absent"]
  /\ answer = "none" /\ wanted = {} /\ edits = 0

-----------------------------------------------------------------------------
(* The cache *)

\* A claim appears, is bound, is edited (not observed yet), or is deleted.
EditClaim(t, s) ==
  /\ edits < MaxEdits /\ claims[t] # s
  /\ claims' = [claims EXCEPT ![t] = s]
  /\ edits' = edits + 1
  /\ UNCHANGED <<annotation, method, running, podRead, templateNames, list, answer, wanted>>

EditPod(a) ==
  /\ edits < MaxEdits /\ annotation # a
  /\ annotation' = a
  /\ edits' = edits + 1
  /\ UNCHANGED <<claims, method, running, podRead, templateNames, list, answer, wanted>>

-----------------------------------------------------------------------------
(* The handlers *)

\* The loop over the list: it stops at the first claim that is not ready, and
\* by then has taken the templates of the claims before it, in any order.
Seen(seen) ==
  LET ready == {t \in Templates : claims[t] = "ready"}
  IN /\ seen \subseteq ready
     /\ (\A t \in Templates : claims[t] # "pending") => seen = ready

NothingPending == \A t \in Templates : claims[t] # "pending"

\* The node's templates have to be covered, all of them.
GetPodCIDRs ==
  /\ ~running
  /\ running' = TRUE /\ method' = "pod"
  /\ templateNames' = Templates /\ wanted' = Templates
  /\ list' = [t \in Templates |-> "absent"] /\ answer' = "none"
  /\ UNCHANGED <<world, podRead>>

GetExtraPodCIDRs ==
  /\ ~running
  /\ running' = TRUE /\ method' = "extra"
  /\ templateNames' = {} /\ wanted' = {}
  /\ list' = [t \in Templates |-> "absent"] /\ answer' = "none"
  /\ UNCHANGED <<world, podRead>>

\* A try of GetPodCIDRs, with what earlier tries left of templateNames.
TryPod(seen) ==
  /\ running /\ method = "pod" /\ Seen(seen)
  /\ list' = claims
  /\ templateNames' = templateNames \ seen
  /\ IF NothingPending /\ templateNames' = {}
     THEN running' = FALSE /\ answer' = "ok"
     ELSE UNCHANGED <<running, answer>>
  /\ UNCHANGED <<world, method, podRead, wanted>>

\* A read of the pod that keeps what earlier tries found, as GetPodCIDRs does.
ReadPodOnce ==
  /\ running /\ method = "extra" /\ ~podRead
  /\ annotation.found
  /\ podRead' = TRUE
  /\ wanted' = annotation.names
  /\ templateNames' = annotation.names \ {t \in Templates : list[t] = "ready"}
  /\ UNCHANGED <<world, method, running, list, answer>>

\* A try of GetExtraPodCIDRs reads the pod, and the templates it names;
\* without the pod the try fails.
ReadPod ==
  /\ running /\ method = "extra" /\ ~podRead
  /\ annotation.found
  /\ podRead' = TRUE
  /\ templateNames' = annotation.names /\ wanted' = annotation.names
  /\ UNCHANGED <<world, method, running, list, answer>>

\* Then it lists the claims.
TryExtra(seen) ==
  /\ running /\ method = "extra" /\ podRead /\ Seen(seen)
  /\ podRead' = FALSE
  /\ list' = claims
  /\ templateNames' = templateNames \ seen
  /\ IF NothingPending /\ templateNames' = {}
     THEN running' = FALSE /\ answer' = "ok"
     ELSE UNCHANGED <<running, answer>>
  /\ UNCHANGED <<world, method, wanted>>

\* The 30 seconds of back-off are over.
GiveUp ==
  /\ running
  /\ running' = FALSE /\ podRead' = FALSE /\ answer' = "error"
  /\ UNCHANGED <<world, method, templateNames, list, wanted>>

Next ==
  \/ \E t \in Templates, s \in States : EditClaim(t, s)
  \/ \E a \in {Gone} \cup [found : {TRUE}, names : SUBSET Templates] : EditPod(a)
  \/ GetPodCIDRs \/ GetExtraPodCIDRs \/ ReadPod \/ GiveUp
  \/ \E seen \in SUBSET Templates : TryPod(seen) \/ TryExtra(seen)

Spec == Init /\ [][Next]_vars

-----------------------------------------------------------------------------
(* Properties *)

\* Every variable has its type, and a call that returned has an answer.
TypeOK ==
  /\ claims \in [Templates -> States] /\ list \in [Templates -> States]
  /\ annotation \in {Gone} \cup [found : {TRUE}, names : SUBSET Templates]
  /\ method \in {"none", "pod", "extra"} /\ running \in BOOLEAN /\ podRead \in BOOLEAN
  /\ templateNames \subseteq Templates /\ wanted \subseteq Templates
  /\ answer \in {"none", "error", "ok"}
  /\ answer = "none" <=> running \/ method = "none"
  /\ edits \in 0..MaxEdits

\* Every claim of a reply is ready: a plugin never configures a pod with the
\* CIDR of a claim that is not bound, or that was edited since.
ReplyIsReady == answer = "ok" => \A t \in Templates : list[t] # "pending"

\* The reply to GetExtraPodCIDRs has a claim for every template the pod named
\* when it was read, however the claims changed between the tries.
ExtraComplete == method = "extra" /\ answer = "ok" => \A t \in wanted : list[t] = "ready"
=============================================================================
