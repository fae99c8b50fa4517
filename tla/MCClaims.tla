------------------------------ MODULE MCClaims ------------------------------
(* Claims that come into being and are bound in the end: the CIDRClaim controller with a *)
(* cache that lags, and the two reconcilers that make claims, for a node and for a pod.   *)
(* The makers' models leave the binding of a claim open, and the controller's model who   *)
(* makes one, so a behaviour is one of a single part; turn says which, and the rest does  *)
(* not move.                                                                              *)
EXTENDS MCCIDRClaim

CONSTANTS Templates, TemplateNames, Specs, None, MaxEdits, MaxFaults,
          Pods, MaxPodEdits, MaxPodLag, t1, t2

VARIABLES
    turn,
    names, node, tmpl, claim, pendingNode, pendingTmpl, pendingClaim,
    cacheNode, cacheTmpl, cacheClaim, nodeQueue, pc, req, selfNode, spec, read, stale,
    edits, faults,
    templates, pod, podClaim, pendingPod, pendingPodClaim, cachePod, cachePodClaim,
    podQueue, podPC, podReq, todo, podTmpl, podRead, podStale, podEdits, podFaults

\* One template is configured for a while only.
MCTemplateNames == {{t1}, {t1, t2}}
OneBlockOrInvalid == {{b1}, InvalidSelector}

Node == INSTANCE CIDRClaimer WITH queue <- nodeQueue

Pod == INSTANCE ExtraPodCIDRSync WITH
    Long <- {}, MaxEdits <- MaxPodEdits, MaxLag <- MaxPodLag,
    claim <- podClaim, pendingClaim <- pendingPodClaim, cacheClaim <- cachePodClaim,
    queue <- podQueue, pc <- podPC, req <- podReq, tmpl <- podTmpl, read <- podRead,
    stale <- podStale, edits <- podEdits, faults <- podFaults

ASSUME ClaimsAssumption == Node!Assumption /\ Pod!Assumption

nodeVars == <<names, node, tmpl, claim, pendingNode, pendingTmpl, pendingClaim,
              cacheNode, cacheTmpl, cacheClaim, nodeQueue, pc, req, selfNode, spec,
              read, stale, edits, faults>>
podVars == <<templates, pod, podClaim, pendingPod, pendingPodClaim, cachePod,
             cachePodClaim, podQueue, podPC, podReq, todo, podTmpl, podRead, podStale,
             podEdits, podFaults>>

MCInit ==
    /\ turn \in {"controller", "node", "pod"}
    /\ Init /\ Node!Init /\ Pod!Init
    /\ turn # "node" => names = {t1} /\ node = 0
    /\ turn # "pod" => templates = Templates

MCNext ==
    /\ UNCHANGED turn
    /\ \/ turn = "controller" /\ Next /\ UNCHANGED <<nodeVars, podVars>>
       \/ turn = "node" /\ Node!Next /\ UNCHANGED <<vars, podVars>>
       \/ turn = "pod" /\ Pod!Next /\ UNCHANGED <<vars, nodeVars>>

MCSpec ==
    /\ MCInit /\ [][MCNext]_<<turn, vars, nodeVars, podVars>>
    /\ \/ turn = "controller" /\ Fairness
       \/ turn = "node" /\ Node!Fairness
       \/ turn = "pod" /\ Pod!Fairness

-----------------------------------------------------------------------------
\* Every claim is observed by the controller, though its cache is behind, and one for which
\* a selected block has room for good becomes ready.
ClaimsSettled == turn = "controller" => EventuallyObserved /\ EventuallyReady

\* The claims that are made are the ones wanted, for good: every template that is
\* configured ends up with a claim of the node, and a pod with one for each template it
\* names; all others are released, those of a pod that is gone whenever it went.
MakersSettled ==
    /\ turn = "node" => Node!EventuallySettled
    /\ turn = "pod" => Pod!EventuallySettled
=============================================================================
