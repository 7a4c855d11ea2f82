--------------------------- MODULE MCBearerToken ---------------------------
(* Small instances of BearerToken.                                          *)
EXTENDS BearerToken
CONSTANTS p1, p2, box1, A

Shared == [p \in {p1, p2} |-> box1]
=============================================================================
