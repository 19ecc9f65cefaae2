----------------------------- MODULE MCWorkQueue -----------------------------
(* Small instances of WorkQueue: the durations keep their order (a lookup,   *)
(* breaker or backoff delay is shorter than a lease, the first backoff is 0).*)
EXTENDS WorkQueue

ShortBackoff == <<0, 1, 1>>

=============================================================================
