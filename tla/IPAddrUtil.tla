---------------------------- MODULE IPAddrUtil ----------------------------
(* The address arithmetic of the control plane                            *)
(* (controlplane/pkg/ipaddrutil/ipaddrutil.go).  A CIDR is a prefix block:  *)
(* 2^bits addresses that start at a multiple of 2^bits.  The library the    *)
(* code calls (ipaddress-go) is modelled by what its calls return, over the *)
(* set of addresses a prefix block covers.                                  *)
EXTENDS Integers

CONSTANT AddrBits       \* width of an address (32 and 128 in the program)

ASSUME AddrBitsAssumption == AddrBits \in Nat

\* ipaddr.IPAddress, for the values the allocator handles: prefix blocks.
Prefix ==
    {p \in [base : 0..(2^AddrBits - 1), bits : 0..AddrBits] :
        p.base % 2^p.bits = 0}

\* nil, and the empty string of a status that has no CIDR.
NoPrefix == [base |-> -1, bits |-> 0]

\* The addresses of a prefix block.
Addrs(p) == p.base .. (p.base + 2^p.bits - 1)

Disjoint(p, q) == Addrs(p) \cap Addrs(q) = {}

\* The first of a list of blocks sorted by address.
First(S) == CHOOSE p \in S : \A q \in S : p.base <= q.base

\* SpanWithPrefixBlocks and MergeToPrefixBlocks: the largest prefix blocks
\* that make up the set of addresses A.
MergeToPrefixBlocks(A) ==
    LET inside == {p \in Prefix : Addrs(p) \subseteq A}
    IN  {p \in inside : \A q \in inside : Addrs(p) \subseteq Addrs(q) => q = p}

\* FreeBlocks: every used block is subtracted from the base, the rest is
\* spanned with prefix blocks and merged.
FreeBlocks(base, used) ==
    MergeToPrefixBlocks(Addrs(base) \ UNION {Addrs(u) : u \in used})

\* The blocks of 2^sizeBit addresses inside b: there is one exactly when
\* blockSizeBit >= sizeBit.
SubBlocks(b, sizeBit) ==
    {p \in Prefix : p.bits = sizeBit /\ Addrs(p) \subseteq Addrs(b)}

\* Mutant: only free blocks of exactly the requested size are considered.
FindSubBlockExact(blocks, sizeBit) ==
    LET fit == {b \in blocks : b.bits = sizeBit}
    IN  IF fit = {} THEN NoPrefix ELSE First(fit)

\* FindSubBlock: the first block that is large enough, and in it the first
\* sub-block of the requested size.
FindSubBlock(blocks, sizeBit) ==
    LET fit == {b \in blocks : SubBlocks(b, sizeBit) # {}}
    IN  IF fit = {} THEN NoPrefix ELSE First(SubBlocks(First(fit), sizeBit))

=============================================================================
