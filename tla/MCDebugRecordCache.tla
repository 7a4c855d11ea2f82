------------------------ MODULE MCDebugRecordCache ------------------------
(* Small instances of DebugRecordCache.                                     *)
EXTENDS DebugRecordCache, TLC
CONSTANTS p1, p2, p3

CallerSymmetry == Permutations(Callers)
=============================================================================
