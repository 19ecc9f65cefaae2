-------------------------- MODULE MCCircuitBreaker --------------------------
(* Small instances of CircuitBreaker: the backoff schedule is cut to two    *)
(* steps of different length, and threads are placed on one process or two. *)
EXTENDS CircuitBreaker, TLC

CONSTANTS p1, p2, t1, t2, t3

ShortBackoff == <<1, 2>>

TwoAndOne == [t \in Thread |-> IF t = t3 THEN p2 ELSE p1]

=============================================================================
