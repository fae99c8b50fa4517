----------------------------- MODULE CIDRClaim -----------------------------
(* The address allocator of the control plane: CIDRClaimReconciler          *)
(* (controlplane/controllers/cidrclaim_controller.go) with what it runs on: *)
(* the API server that stores CIDRClaims and CIDRBlocks, the informers that *)
(* feed the cached client the reconciler reads through, the work queue, and  *)
(* the users that edit the objects while a reconcile is under way.           *)
(*                                                                          *)
(* A reconcile is four steps (Get, List of blocks, List of claims with the   *)
(* allocation, Patch), because the objects may change between any two of     *)
(* them.  The cached client may be behind the API server: MaxLag bounds by   *)
(* how many undelivered watch events; 0 is a cache that is always fresh.     *)
EXTENDS IPAddrUtil, Sequences, FiniteSets

CONSTANTS
    Claims,             \* names of CIDRClaims
    Blocks,             \* names of CIDRBlocks
    BlockCIDR,          \* spec.cidr of each block
    NoBlock,            \* the empty block name
    SizeBits,           \* the values of spec.sizeBit users write
    Selectors,          \* the selectors users write, as the blocks they match
    MaxLag,             \* watch events a read may be behind
    MaxOps              \* bound: operations of users, and restarts

\* A selector LabelSelectorAsSelector rejects: no set of blocks.
InvalidSelector == {NoBlock}

(* The blocks of one cluster do not overlap, and a block's CIDR is never     *)
(* edited: the code has no notion of two blocks sharing addresses.           *)
ASSUME CIDRClaimAssumption ==
    /\ BlockCIDR \in [Blocks -> Prefix]
    /\ \A a, b \in Blocks : a # b => Disjoint(BlockCIDR[a], BlockCIDR[b])
    /\ Claims # {}
    /\ NoBlock \notin Blocks
    /\ SizeBits \subseteq 0..AddrBits
    /\ Selectors \subseteq (SUBSET Blocks) \cup {InvalidSelector}
    /\ MaxLag \in Nat
    /\ MaxOps \in Nat

VARIABLES
    api,        \* the CIDRClaims the API server stores
    blocks,     \* the CIDRBlocks the API server stores
    watch,      \* claim events not yet delivered to the informer
    cache,      \* the informer's copy of the claims
    blockWatch, \* block events not yet delivered
    blockCache, \* the informer's copy of the blocks
    queue,      \* the controller's work queue
    timers,     \* claims with a pending RequeueAfter
    worker,     \* the reconcile under way
    ops         \* operations of users so far

vars == <<api, blocks, watch, cache, blockWatch, blockCache, queue, timers,
          worker, ops>>
informer == <<watch, cache, blockWatch, blockCache>>

-----------------------------------------------------------------------------
(* Objects *)

States == {"", "ready", "bindingError"}

\* CIDRClaimStatus; the message is left out.
Status == [state : States, cidr : Prefix \cup {NoPrefix},
           block : Blocks \cup {NoBlock}, sizeBit : 0..AddrBits,
           observed : Nat]

NoStatus == [state |-> "", cidr |-> NoPrefix, block |-> NoBlock,
             sizeBit |-> 0, observed |-> 0]

\* CIDRClaim; generation 0 stands for "no such object".
Object == [gen : Nat, sizeBit : 0..AddrBits,
           selector : (SUBSET Blocks) \cup {InvalidSelector}, status : Status]

Absent == [gen |-> 0, sizeBit |-> 0, selector |-> {}, status |-> NoStatus]

Exists(o) == o.gen # 0

\* The early return of Reconcile.
Settled(o) == o.gen = o.status.observed /\ o.status.state = "ready"

\* A claim whose status allocate() takes for used: it names a block and has
\* a CIDR that parses.
Recorded(o) == o.status.block # NoBlock /\ o.status.cidr # NoPrefix

Idle == [pc |-> "idle", claim |-> CHOOSE c \in Claims : TRUE, obj |-> Absent,
         selected |-> {}, status |-> NoStatus, requeue |-> FALSE]

Worker == [pc : {"idle", "blocks", "claims", "patch"}, claim : Claims,
           obj : Object, selected : SUBSET Blocks, status : Status,
           requeue : BOOLEAN]

Event(c, o) == [claim |-> c, obj |-> o]
Events == [claim : Claims, obj : Object]

-----------------------------------------------------------------------------
Init ==
    /\ api = [c \in Claims |-> Absent]
    /\ cache = api
    /\ watch = <<>>
    /\ blocks \in SUBSET Blocks
    /\ blockCache = blocks
    /\ blockWatch = <<>>
    /\ queue = {}
    /\ timers = {}
    /\ worker = Idle
    /\ ops = 0

-----------------------------------------------------------------------------
(* The API server and its users *)

\* A write that changes the stored claim is seen by every watcher, in order.
Store(c, o) ==
    /\ api' = [api EXCEPT ![c] = o]
    /\ watch' = IF o = api[c] THEN watch ELSE Append(watch, Event(c, o))

CreateClaim(c, k, s) ==
    /\ ops < MaxOps
    /\ ~Exists(api[c])
    /\ Store(c, [gen |-> 1, sizeBit |-> k, selector |-> s, status |-> NoStatus])
    /\ ops' = ops + 1
    /\ UNCHANGED <<blocks, cache, blockWatch, blockCache, queue, timers, worker>>

UpdateSpec(c, k, s) ==
    /\ ops < MaxOps
    /\ Exists(api[c])
    /\ <<k, s>> # <<api[c].sizeBit, api[c].selector>>
    /\ Store(c, [gen |-> api[c].gen + 1, sizeBit |-> k, selector |-> s,
                 status |-> api[c].status])
    /\ ops' = ops + 1
    /\ UNCHANGED <<blocks, cache, blockWatch, blockCache, queue, timers, worker>>

DeleteClaim(c) ==
    /\ ops < MaxOps
    /\ Exists(api[c])
    /\ Store(c, Absent)
    /\ ops' = ops + 1
    /\ UNCHANGED <<blocks, cache, blockWatch, blockCache, queue, timers, worker>>

\* A block is created or deleted.
ToggleBlock(b) ==
    /\ ops < MaxOps
    /\ blocks' = IF b \in blocks THEN blocks \ {b} ELSE blocks \cup {b}
    /\ blockWatch' = Append(blockWatch, blocks')
    /\ ops' = ops + 1
    /\ UNCHANGED <<api, watch, cache, blockCache, queue, timers, worker>>

-----------------------------------------------------------------------------
(* The informers and the work queue (controller-runtime) *)

\* For(&CIDRClaim{}): every event of a claim enqueues its name, status updates
\* of the reconciler itself included.
DeliverClaim ==
    /\ watch # <<>>
    /\ cache' = [cache EXCEPT ![Head(watch).claim] = Head(watch).obj]
    /\ queue' = queue \cup {Head(watch).claim}
    /\ watch' = Tail(watch)
    /\ UNCHANGED <<api, blocks, blockWatch, blockCache, timers, worker, ops>>

\* Events of blocks reach the cache and nothing else: the controller does not
\* watch CIDRBlocks.
DeliverBlock ==
    /\ blockWatch # <<>>
    /\ blockCache' = Head(blockWatch)
    /\ blockWatch' = Tail(blockWatch)
    /\ UNCHANGED <<api, blocks, watch, cache, queue, timers, worker, ops>>

\* RequeueAfter has passed.
TimerFires(c) ==
    /\ c \in timers
    /\ timers' = timers \ {c}
    /\ queue' = queue \cup {c}
    /\ UNCHANGED <<api, blocks, informer, worker, ops>>

\* The manager stops and starts again: it lists every object and enqueues it.
Restart ==
    /\ ops < MaxOps
    /\ cache' = api
    /\ watch' = <<>>
    /\ blockCache' = blocks
    /\ blockWatch' = <<>>
    /\ queue' = {c \in Claims : Exists(api[c])}
    /\ timers' = {}
    /\ worker' = Idle
    /\ ops' = ops + 1
    /\ UNCHANGED <<api, blocks>>

-----------------------------------------------------------------------------
(* Reconcile *)

\* Mutant: updateStatus leaves the observed generation as it was.
KeepUnobserved(o, state) == [o.status EXCEPT !.state = state]

\* The status updateStatus writes when the allocation stays what it was.
Keep(o, state) ==
    [o.status EXCEPT !.state = state, !.observed = o.gen]

\* The claim is gone, or settled: nothing to do.
GetDone(c) ==
    /\ worker.pc = "idle"
    /\ c \in queue
    /\ Len(watch) <= MaxLag
    /\ ~Exists(cache[c]) \/ Settled(cache[c])
    /\ queue' = queue \ {c}
    /\ UNCHANGED <<api, blocks, informer, timers, worker, ops>>

\* An invalid selector is reported, and not tried again until the claim changes.
GetInvalid(c) ==
    /\ worker.pc = "idle"
    /\ c \in queue
    /\ Len(watch) <= MaxLag
    /\ Exists(cache[c])
    /\ ~Settled(cache[c])
    /\ cache[c].selector = InvalidSelector
    /\ queue' = queue \ {c}
    /\ worker' = [Idle EXCEPT !.pc = "patch", !.claim = c, !.obj = cache[c],
                              !.status = Keep(cache[c], "bindingError")]
    /\ UNCHANGED <<api, blocks, informer, timers, ops>>

GetClaim(c) ==
    /\ worker.pc = "idle"
    /\ c \in queue
    /\ Len(watch) <= MaxLag
    /\ Exists(cache[c])
    /\ ~Settled(cache[c])
    /\ cache[c].selector # InvalidSelector
    /\ queue' = queue \ {c}
    /\ worker' = [Idle EXCEPT !.pc = "blocks", !.claim = c, !.obj = cache[c]]
    /\ UNCHANGED <<api, blocks, informer, timers, ops>>

\* isReady: the block of a ready claim is still among the selected ones.
isReady(o, selected) ==
    o.status.state = "ready" /\ o.status.block \in selected

\* The List of blocks.  A claim that isReady keeps its allocation, whatever
\* size its spec now asks for; only the observed generation moves.
ListBlocks ==
    /\ worker.pc = "blocks"
    /\ Len(blockWatch) <= MaxLag
    /\ LET selected == blockCache \cap worker.obj.selector
       IN  worker' = IF isReady(worker.obj, selected)
                     THEN [worker EXCEPT !.pc = "patch",
                                         !.status = Keep(worker.obj, "ready")]
                     ELSE [worker EXCEPT !.pc = "claims", !.selected = selected]
    /\ UNCHANGED <<api, blocks, informer, queue, timers, ops>>

\* Mutant: claims are grouped by block only while they are ready.
UsedReadyOnly(objs, c, b) ==
    {objs[d].status.cidr : d \in {e \in Claims \ {c} :
        /\ Recorded(objs[e])
        /\ objs[e].status.block = b
        /\ objs[e].status.state = "ready"}}

\* The CIDRs of block b that claims other than c hold, whatever their state.
Used(objs, c, b) ==
    {objs[d].status.cidr : d \in {e \in Claims \ {c} :
        /\ Recorded(objs[e])
        /\ objs[e].status.block = b}}

\* The network address of a block, kept from claims for a single address.
NetworkAddress(b) == [base |-> BlockCIDR[b].base, bits |-> 0]

\* One turn of the loop in allocate: the CIDR block b has for claim c.
AllocateFrom(objs, c, b, k) ==
    FindSubBlock(
        FreeBlocks(BlockCIDR[b],
                   Used(objs, c, b) \cup IF k = 0 THEN {NetworkAddress(b)} ELSE {}),
        k)

HasRoom(objs, c, b, k) == AllocateFrom(objs, c, b, k) # NoPrefix

\* Mutant: the status names the first selected block, not the one with room.
AllocateNamesFirst(b) ==
    /\ worker.pc = "claims"
    /\ Len(watch) <= MaxLag
    /\ b \in worker.selected
    /\ HasRoom(cache, worker.claim, b, worker.obj.sizeBit)
    /\ worker' = [worker EXCEPT
         !.pc = "patch",
         !.status = [state |-> "ready",
                     cidr |-> AllocateFrom(cache, worker.claim, b, worker.obj.sizeBit),
                     block |-> CHOOSE a \in worker.selected : TRUE,
                     sizeBit |-> worker.obj.sizeBit, observed |-> worker.obj.gen]]
    /\ UNCHANGED <<api, blocks, informer, queue, timers, ops>>

\* The List of claims and allocate, which takes the first block with room.
\* The blocks are shuffled: any block with room may be the first.
Allocate(b) ==
    /\ worker.pc = "claims"
    /\ Len(watch) <= MaxLag
    /\ LET c == worker.claim
           k == worker.obj.sizeBit
       IN  /\ b \in worker.selected
           /\ HasRoom(cache, c, b, k)
           /\ worker' = [worker EXCEPT
                !.pc = "patch",
                !.status = [state |-> "ready", cidr |-> AllocateFrom(cache, c, b, k),
                            block |-> b, sizeBit |-> k,
                            observed |-> worker.obj.gen]]
    /\ UNCHANGED <<api, blocks, informer, queue, timers, ops>>

\* Mutant: a claim without room is not tried again.
AllocateFailsForGood ==
    /\ worker.pc = "claims"
    /\ Len(watch) <= MaxLag
    /\ \A b \in worker.selected : ~HasRoom(cache, worker.claim, b, worker.obj.sizeBit)
    /\ worker' = [worker EXCEPT !.pc = "patch",
                                !.status = Keep(worker.obj, "bindingError")]
    /\ UNCHANGED <<api, blocks, informer, queue, timers, ops>>

\* No block is selected, or none has room: bindingError, to be tried again in a
\* minute.  What the claim held before stays in its status.
AllocateFails ==
    /\ worker.pc = "claims"
    /\ Len(watch) <= MaxLag
    /\ \A b \in worker.selected : ~HasRoom(cache, worker.claim, b, worker.obj.sizeBit)
    /\ worker' = [worker EXCEPT !.pc = "patch",
                                !.status = Keep(worker.obj, "bindingError"),
                                !.requeue = TRUE]
    /\ UNCHANGED <<api, blocks, informer, queue, timers, ops>>

MergeField(cur, old, new) == IF new = old THEN cur ELSE new

\* Status().Patch(MergeFrom(cached)): a field is written only if it differs from
\* the copy the reconcile read; the others keep what the API server has.
MergePatch(cur, old, new) ==
    [state    |-> MergeField(cur.state, old.state, new.state),
     cidr     |-> MergeField(cur.cidr, old.cidr, new.cidr),
     block    |-> MergeField(cur.block, old.block, new.block),
     sizeBit  |-> MergeField(cur.sizeBit, old.sizeBit, new.sizeBit),
     observed |-> MergeField(cur.observed, old.observed, new.observed)]

\* The write of the patch.  It names the claim and no version of it, so it also
\* lands on an object created under the same name since.
ApplyPatch ==
    LET c == worker.claim
    IN  /\ worker.pc = "patch"
        /\ Exists(api[c])
        /\ Store(c, [api[c] EXCEPT !.status =
                        MergePatch(@, worker.obj.status, worker.status)])

\* updateStatus succeeds.
Patch ==
    /\ ApplyPatch
    /\ timers' = IF worker.requeue THEN timers \cup {worker.claim} ELSE timers
    /\ worker' = Idle
    /\ UNCHANGED <<blocks, cache, blockWatch, blockCache, queue, ops>>

\* The patch is written but its answer is lost: Reconcile returns the error and
\* the claim is queued again.
PatchAnswerLost ==
    /\ ApplyPatch
    /\ queue' = queue \cup {worker.claim}
    /\ worker' = Idle
    /\ UNCHANGED <<blocks, cache, blockWatch, blockCache, timers, ops>>

\* The patch fails, or the claim is gone.
PatchFails ==
    /\ worker.pc = "patch"
    /\ queue' = queue \cup {worker.claim}
    /\ worker' = Idle
    /\ UNCHANGED <<api, blocks, informer, timers, ops>>

-----------------------------------------------------------------------------
UserNext ==
    \/ \E c \in Claims, k \in SizeBits, s \in Selectors :
           CreateClaim(c, k, s) \/ UpdateSpec(c, k, s)
    \/ \E c \in Claims : DeleteClaim(c)
    \/ \E b \in Blocks : ToggleBlock(b)
    \/ Restart

Get(c) == GetDone(c) \/ GetInvalid(c) \/ GetClaim(c)

ControllerNext ==
    \/ DeliverClaim
    \/ DeliverBlock
    \/ \E c \in Claims : TimerFires(c) \/ Get(c)
    \/ ListBlocks
    \/ \E b \in Blocks : Allocate(b)
    \/ AllocateFails
    \/ Patch
    \/ PatchAnswerLost
    \/ PatchFails

Next == UserNext \/ ControllerNext

Spec == Init /\ [][Next]_vars

(* Events are delivered, timers fire, the worker takes every queued claim in *)
(* turn (the work queue is first in first out) and finishes what it started; *)
(* the API server does not refuse every patch of a claim.                     *)
Fairness ==
    /\ WF_vars(DeliverClaim)
    /\ WF_vars(DeliverBlock)
    /\ \A c \in Claims : WF_vars(TimerFires(c)) /\ SF_vars(Get(c))
    /\ WF_vars(ListBlocks)
    /\ WF_vars(AllocateFails \/ \E b \in Blocks : Allocate(b))
    /\ WF_vars(PatchFails)
    /\ \A c \in Claims : SF_vars(worker.claim = c /\ Patch)

FairSpec == Spec /\ Fairness

-----------------------------------------------------------------------------
(* Properties *)

(* Every variable has its type; statuses hold only CIDRs and blocks that      *)
(* exist in the address plan.                                                 *)
TypeOK ==
    /\ api \in [Claims -> Object]
    /\ blocks \in SUBSET Blocks
    /\ watch \in Seq(Events)
    /\ cache \in [Claims -> Object]
    /\ blockWatch \in Seq(SUBSET Blocks)
    /\ blockCache \in SUBSET Blocks
    /\ queue \in SUBSET Claims
    /\ timers \in SUBSET Claims
    /\ worker \in Worker
    /\ ops \in Nat

(* No address belongs to two claims: allocate excludes what the other claims   *)
(* of the block hold, through failed reconciles, lost answers, restarts and    *)
(* claims deleted and created again between the read and the patch.            *)
NoOverlap ==
    \A c, d \in Claims :
        c # d /\ Recorded(api[c]) /\ Recorded(api[d]) =>
            Disjoint(api[c].status.cidr, api[d].status.cidr)

\* What the claims hold, as the pool of addresses sees it.
Held == [c \in Claims |-> IF Recorded(api[c]) THEN Addrs(api[c].status.cidr) ELSE {}]
Ranges == {Addrs(p) : p \in Prefix}
Pool == INSTANCE AddressPool WITH held <- Held

(* The controller with all its reads, patches, lost answers and restarts implements  *)
(* the pool: every write of a status hands one claim a range that no other has an     *)
(* address of at that moment, or takes one back, and touches no other claim.          *)
ImplementsPool == Pool!Spec

(* A claim's CIDR lies in the block its status names, although block name and  *)
(* CIDR are separate fields of a merge patch that may each be left out.        *)
RecordedInBlock ==
    \A c \in Claims : Recorded(api[c]) =>
        Addrs(api[c].status.cidr) \subseteq Addrs(BlockCIDR[api[c].status.block])

(* allocate keeps a block's network address from claims for a single address.  *)
NetworkAddressKept ==
    \A c \in Claims : Recorded(api[c]) =>
        api[c].status.cidr # NetworkAddress(api[c].status.block)

\* The reconciler is through with a claim: it is gone, ready, or refused for its selector.
Done(o) ==
    \/ ~Exists(o) \/ Settled(o)
    \/ /\ o.selector = InvalidSelector
       /\ o.status.state = "bindingError" /\ o.status.observed = o.gen

\* Something will make the reconciler look at a claim, or it is at it.
Due(c) ==
    \/ c \in queue \cup timers
    \/ worker.pc # "idle" /\ worker.claim = c
    \/ \E i \in 1..Len(watch) : watch[i].claim = c

(* No claim is forgotten: one that is not done is due, however old the copies are that *)
(* reconciles read, and also when a patch changes nothing and so makes no event.       *)
NoneForgotten == \A c \in Claims : Due(c) \/ Done(api[c])

(* Every claim is observed: once users stop editing it, its status reports its *)
(* current generation and keeps doing so.                                      *)
EventuallyObserved ==
    \A c \in Claims :
        <>[](Exists(api[c]) => api[c].status.observed = api[c].gen)

CanBind(c) ==
    /\ Exists(api[c])
    /\ api[c].selector # InvalidSelector
    /\ \E b \in blocks \cap api[c].selector : HasRoom(api, c, b, api[c].sizeBit)

(* A claim for which some selected block has room for good becomes ready, also *)
(* when the room appears after the claim was refused: no event tells the        *)
(* controller of it, only the requeue does.                                     *)
EventuallyReady ==
    \A c \in Claims :
        <>[]CanBind(c) => <>[](api[c].status.state = "ready")

=============================================================================
