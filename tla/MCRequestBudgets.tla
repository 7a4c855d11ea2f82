-------------------------- MODULE MCRequestBudgets --------------------------
(* Small instances of RequestBudgets.                                       *)
EXTENDS RequestBudgets

CONSTANTS t1, t2

(* Every kind of call, with a short, a middling and a long duration, and    *)
(* the waits the handles ask for by default; the timeout of a custom driver *)
(* is one the budget covers.                                                *)
MCEvery ==
  (Timed \ {"custom"}) \X {1, 60, 700} \cup {"custom"} \X {1, 60} \cup Untimed \X {0}
  \cup Default
=============================================================================
