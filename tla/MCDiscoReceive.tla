--------------------------- MODULE MCDiscoReceive ---------------------------
(* Two peers that share the receiver and the sender; one has an endpoint.  *)
EXTENDS DiscoReceive, TLC

CONSTANTS p1, p2, e1

MCOwner == e1 :> p1

=============================================================================
