--------------------------- MODULE MCGatewayAuth ---------------------------
(* Small instances of GatewayAuth.                                          *)
EXTENDS GatewayAuth
CONSTANTS p1, p2, box1, box2, A

Apart == [p \in {p1, p2} |-> IF p = p1 THEN box1 ELSE box2]
=============================================================================
