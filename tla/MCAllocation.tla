---------------------------- MODULE MCAllocation ----------------------------
(* The allocation of addresses and who is told of it: the CIDRClaim controller with      *)
(* reads that are up to date, the allocator's operators for every small input, and the    *)
(* CNI server.  The server's model has its own claims, which come and go as they like, so *)
(* a behaviour is one of a single part; turn says which, and the rest does not move.      *)
EXTENDS MCCIDRClaim

CONSTANTS Templates,
          MaxEdits,     \* bound: changes of claims and of the pod seen by the CNI server
          MaxUsed,      \* bound: blocks in use at once in an input of the allocator
          MinBaseBits   \* bound: smallest base block tried

VARIABLES
    turn,
    base, used,
    claims, annotation, method, running, podRead, templateNames, list, answer, wanted,
    edits

CNI == INSTANCE CNIServer

inputVars == <<base, used>>
cniVars == <<claims, annotation, method, running, podRead, templateNames, list, answer,
             wanted, edits>>

\* An input of the allocator, a base block and the blocks in use.  These are arbitrary
\* (inside the base, outside, overlapping, covering it): the code takes them from the
\* statuses of claims.
ChangeInput ==
    /\ \/ Cardinality(used) < MaxUsed /\ \E p \in Prefix \ used : used' = used \cup {p}
       \/ \E p \in used : used' = used \ {p}
    /\ UNCHANGED base

Bases == {p \in Prefix : p.bits >= MinBaseBits}

MCInit ==
    /\ turn \in {"claims", "input", "cni"}
    /\ Init /\ CNI!Init
    /\ turn # "cni" => annotation = CNI!Gone
    /\ IF turn = "input" THEN base \in Bases ELSE base = CHOOSE p \in Bases : TRUE
    /\ used = {}

MCNext ==
    /\ UNCHANGED turn
    /\ \/ turn = "claims" /\ Next /\ UNCHANGED <<inputVars, cniVars>>
       \/ turn = "input" /\ ChangeInput /\ UNCHANGED <<vars, cniVars>>
       \/ turn = "cni" /\ CNI!Next /\ UNCHANGED <<vars, inputVars>>

MCSpec == MCInit /\ [][MCNext]_<<turn, vars, inputVars, cniVars>>

-----------------------------------------------------------------------------
FreeAddrs == Addrs(base) \ UNION {Addrs(u) : u \in used}

(* FreeBlocks "finds free unused ranges from base excluding used": the      *)
(* blocks it returns cover exactly the unused addresses of the base, each   *)
(* address once, and no two of them could have been merged.                 *)
FreeBlocksExact ==
    LET free == FreeBlocks(base, used)
    IN  /\ UNION {Addrs(p) : p \in free} = FreeAddrs
        /\ \A p, q \in free : p # q => Disjoint(p, q)
        /\ \A p, q \in free : p # q =>
               ~ \E r \in Prefix : Addrs(r) = Addrs(p) \cup Addrs(q)

(* FindSubBlock is first fit: among all blocks of 2^sizeBit addresses that   *)
(* touch no used address it returns the lowest, and it fails only when there *)
(* is none.  (The code never looks at these candidates: it splits the first  *)
(* large enough maximal free block.)                                         *)
FindSubBlockLowest ==
    \A k \in 0..AddrBits :
        LET candidates == {p \in Prefix : p.bits = k /\ Addrs(p) \subseteq FreeAddrs}
            found == FindSubBlock(FreeBlocks(base, used), k)
        IN  IF candidates = {} THEN found = NoPrefix
            ELSE found \in candidates /\ \A p \in candidates : found.base <= p.base

\* The address arithmetic is exact and the allocation first fit, whatever is in use, but
\* for the network address of a block, which no claim for one address ever gets.
FirstFit ==
    /\ turn = "input" => FreeBlocksExact /\ FindSubBlockLowest
    /\ turn = "claims" => NetworkAddressKept

\* Every claim in a reply of the CNI server is ready (cniserver.go:134, 207), and a reply to
\* GetExtraPodCIDRs has one for every template the pod named when it was read, however the
\* claims changed between the tries.
RepliesSound == turn = "cni" => CNI!ReplyIsReady /\ CNI!ExtraComplete
=============================================================================
