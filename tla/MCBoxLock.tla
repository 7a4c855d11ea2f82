------------------------------ MODULE MCBoxLock ------------------------------
(* A small instance of BoxLock: two users with a program each, one that     *)
(* locks for good and one that locks with a TTL.                            *)
EXTENDS BoxLock, TLC

CONSTANTS p1, p2, u1, u2

MCOwn == p1 :> u1 @@ p2 :> u2
MCOps == p1 :> {"lock_guard", "lock"}
         @@ p2 :> {"lock_with", "heartbeat", "unlock", "unlock_force"}
=============================================================================
