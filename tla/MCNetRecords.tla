---------------------------- MODULE MCNetRecords ----------------------------
(* Small instances of NetRecords.                                           *)
EXTENDS NetRecords, TLC

CONSTANTS p1, p2, n1, n2, maxV, maxI

MCSymmetry == Permutations(Programs)
=============================================================================
