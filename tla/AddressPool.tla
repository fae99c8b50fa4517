---------------------------- MODULE AddressPool ----------------------------
(* What the control plane promises the cluster: addresses are handed out to  *)
(* claims, a range at a time, no address to two of them.  One claim gets,     *)
(* changes or gives back its range at a time; what the others hold stays.     *)
CONSTANTS Claims, Ranges    \* Ranges: sets of addresses that may be handed out

VARIABLE held               \* the addresses of each claim; none: {}

Init == held = [c \in Claims |-> {}]

\* A claim gets a range nobody else has an address of, in place of what it had.
Acquire(c, range) ==
    /\ held' = [held EXCEPT ![c] = range]
    /\ \A d \in Claims \ {c} : held[d] \cap range = {}

Release(c) == held' = [held EXCEPT ![c] = {}]

Next == \E c \in Claims : Release(c) \/ \E range \in Ranges : Acquire(c, range)

Spec == Init /\ [][Next]_held
=============================================================================
