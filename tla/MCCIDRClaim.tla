---------------------------- MODULE MCCIDRClaim ----------------------------
(* Instances of CIDRClaim for TLC: two claims, blocks of a few addresses.     *)
EXTENDS CIDRClaim, TLC

CONSTANTS c1, c2, b1, b2

\* One block of four addresses.
OneBlock == b1 :> [base |-> 0, bits |-> 2]

\* A block of four addresses and a block of two.
TwoBlocks == b1 :> [base |-> 0, bits |-> 2] @@ b2 :> [base |-> 4, bits |-> 1]

OneBlockSelectors == {{b1}}
TwoBlockSelectors == {{b1}, {b1, b2}}
=============================================================================
