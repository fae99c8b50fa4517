---------------------------- MODULE MCPeersSync ----------------------------
(* PeersSync with two peers, a node address and a pod CIDR, and a claim of *)
(* the node itself.                                                        *)
EXTENDS PeersSync

CONSTANTS p1, p2, a, b, s

MCOwner == [c \in {a, b, s} |-> CASE c = a -> p1 [] c = b -> p2 [] OTHER -> Self]
=============================================================================
