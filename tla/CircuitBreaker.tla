---------------------------- MODULE CircuitBreaker ----------------------------
(***************************************************************************)
(* The per-provider circuit breaker of orchestrator/circuit_breaker.py.    *)
(*                                                                         *)
(* Every process (CLI command or worker) holds one CircuitBreaker object   *)
(* per provider; threads of the process share it.  The object keeps a copy *)
(* of a row that all processes share through a store (coordination.db).    *)
(* A call reloads the row and picks a path under the object's lock, runs   *)
(* the provider call fn() with the lock released, and takes the lock again *)
(* to record the outcome.  Each of those critical sections is one action,  *)
(* except the one that both reads and writes the store: no lock keeps      *)
(* other processes from the store in between.                              *)
(*                                                                         *)
(* Time: the code compares now with last_failure_at + recovery_timeout and *)
(* uses neither alone, so a row keeps their sum relative to now, "left",   *)
(* the time that must still pass before a probe is allowed.                *)
(***************************************************************************)
EXTENDS Naturals, Sequences

CONSTANTS
  Proc,         \* processes
  Thread,       \* threads of all processes
  ProcOf,       \* the process a thread belongs to
  Threshold,    \* failure_threshold
  Backoff,      \* RECOVERY_BACKOFF
  StoreErrors   \* TRUE when a write to the store may raise

ASSUME ThreadAssumption == ProcOf \in [Thread -> Proc]
ASSUME ThresholdAssumption == Threshold \in Nat \ {0}
ASSUME BackoffAssumption ==
  /\ Backoff \in Seq(Nat) /\ Len(Backoff) > 1
  /\ \A i, j \in DOMAIN Backoff : i <= j => Backoff[i] <= Backoff[j]
ASSUME StoreErrorsAssumption == StoreErrors \in BOOLEAN

VARIABLES
  store,     \* the provider's row in the shared store, or NoRow
  mem,       \* each process's in-memory copy of the row
  inFlight,  \* each process's _half_open_in_flight flag
  pc         \* where each thread is in call()

vars == <<store, mem, inFlight, pc>>

-----------------------------------------------------------------------------

(* Beyond this count neither the threshold test nor the backoff index can   *)
(* change, so the counter saturates here.                                   *)
FailureCap == Threshold * (Len(Backoff) - 1) + 1

Row == [state : {"closed", "open", "half_open"},
        failures : 0 .. FailureCap,
        left : Nat]

Fresh == [state |-> "closed", failures |-> 0, left |-> 0]
NoRow == [state |-> "none", failures |-> 0, left |-> 0]

(* idle: not in call();  calling: fn() runs on the CLOSED path;             *)
(* opening: call() found the breaker due and is about to persist HALF_OPEN, *)
(* with the lock of its object held;                                        *)
(* gate: call() chose the HALF_OPEN path and released the lock;             *)
(* probing: fn() runs as the probe;  failing: _on_success raised while      *)
(* persisting, so the except clause owes a call of _on_failure.             *)
Phases == {"idle", "calling", "opening", "gate", "probing", "failing"}

(* No thread of the process is inside a critical section.                   *)
Unlocked(p) == \A t \in Thread : ProcOf[t] = p => pc[t] # "opening"

RecoveryTimeout(failures) ==
  LET index == (failures - 1) \div Threshold
  IN  Backoff[IF index < Len(Backoff) THEN index + 1 ELSE Len(Backoff)]

(* The row call() works with: the store's, or the current one when the     *)
(* provider has no row yet.                                                 *)
Reloaded(p) == IF store = NoRow THEN mem[p] ELSE store

(* Seeded fault: a failed probe waits the first timeout again. *)
AfterFailureForgetsBackoff(row) ==
  LET n == IF row.failures < FailureCap THEN row.failures + 1 ELSE FailureCap
  IN  IF n >= Threshold
      THEN [state |-> "open", failures |-> n,
            left |-> IF row.state = "half_open" THEN Backoff[1] ELSE RecoveryTimeout(n)]
      ELSE [row EXCEPT !.failures = n]

(* Seeded fault: a failed probe leaves the breaker half-open. *)
AfterFailureKeepsProbing(row) ==
  LET n == IF row.failures < FailureCap THEN row.failures + 1 ELSE FailureCap
  IN  IF n >= Threshold /\ row.state = "closed"
      THEN [state |-> "open", failures |-> n, left |-> RecoveryTimeout(n)]
      ELSE [row EXCEPT !.failures = n]

AfterFailure(row) ==
  LET n == IF row.failures < FailureCap THEN row.failures + 1 ELSE FailureCap
  IN  IF n >= Threshold
      THEN [state |-> "open", failures |-> n, left |-> RecoveryTimeout(n)]
      ELSE [row EXCEPT !.failures = n]

(* Seeded fault: a success that closes the breaker but keeps the count. *)
AfterSuccessKeepsCount(row) == [row EXCEPT !.state = "closed"]

AfterSuccess(row) == [state |-> "closed", failures |-> 0, left |-> row.left]

Elapse(row) == [row EXCEPT !.left = IF @ > 0 THEN @ - 1 ELSE 0]

(* set_state overwrites the whole row; a write that raises changes nothing. *)
Persist(row, saved) ==
  /\ saved \/ StoreErrors
  /\ store' = IF saved THEN row ELSE store

Goto(t, phase) == pc' = [pc EXCEPT ![t] = phase]

-----------------------------------------------------------------------------

Init ==
  /\ store = NoRow
  /\ mem = [p \in Proc |-> Fresh]
  /\ inFlight = [p \in Proc |-> FALSE]
  /\ pc = [t \in Thread |-> "idle"]

(* call() finds the breaker CLOSED. *)
CallClosed(t) ==
  LET p == ProcOf[t] IN
  /\ pc[t] = "idle" /\ Unlocked(p)
  /\ Reloaded(p).state = "closed"
  /\ mem' = [mem EXCEPT ![p] = Reloaded(p)]
  /\ Goto(t, "calling")
  /\ UNCHANGED <<store, inFlight>>

(* call() finds it OPEN before the recovery timeout: CircuitBreakerOpenError. *)
CallRejected(t) ==
  LET p == ProcOf[t] IN
  /\ pc[t] = "idle" /\ Unlocked(p)
  /\ Reloaded(p).state = "open"
  /\ Reloaded(p).left > 0
  /\ mem' = [mem EXCEPT ![p] = Reloaded(p)]
  /\ UNCHANGED <<store, inFlight, pc>>

(* Seeded fault: HALF_OPEN is kept in memory only. *)
CallHalfOpensUnsaved(t) ==
  LET p == ProcOf[t] IN
  /\ pc[t] = "idle" /\ Unlocked(p)
  /\ Reloaded(p).state = "open" /\ Reloaded(p).left = 0
  /\ mem' = [mem EXCEPT ![p] = [Reloaded(p) EXCEPT !.state = "half_open"]]
  /\ Goto(t, "gate")
  /\ UNCHANGED <<store, inFlight>>

(* call() finds it OPEN and due, and decides for HALF_OPEN. *)
CallHalfOpens(t) ==
  LET p == ProcOf[t] IN
  /\ pc[t] = "idle" /\ Unlocked(p)
  /\ Reloaded(p).state = "open"
  /\ Reloaded(p).left = 0
  /\ mem' = [mem EXCEPT ![p] = [Reloaded(p) EXCEPT !.state = "half_open"]]
  /\ Goto(t, "opening")
  /\ UNCHANGED <<store, inFlight>>

(* HALF_OPEN is persisted, over whatever another process has recorded since *)
(* the row was read; then the lock is released on the way to                *)
(* _execute_half_open.                                                      *)
SaveHalfOpen(t, saved) ==
  /\ pc[t] = "opening"
  /\ Persist(mem[ProcOf[t]], saved)
  /\ Goto(t, IF saved THEN "gate" ELSE "idle")
  /\ UNCHANGED <<mem, inFlight>>

(* call() finds it HALF_OPEN already. *)
CallHalfOpen(t) ==
  LET p == ProcOf[t] IN
  /\ pc[t] = "idle" /\ Unlocked(p)
  /\ Reloaded(p).state = "half_open"
  /\ mem' = [mem EXCEPT ![p] = Reloaded(p)]
  /\ Goto(t, "gate")
  /\ UNCHANGED <<store, inFlight>>

(* _execute_half_open takes the lock again: one probe per process. *)
TakeProbe(t) ==
  /\ pc[t] = "gate" /\ Unlocked(ProcOf[t])
  /\ ~inFlight[ProcOf[t]]
  /\ inFlight' = [inFlight EXCEPT ![ProcOf[t]] = TRUE]
  /\ Goto(t, "probing")
  /\ UNCHANGED <<store, mem>>

RefuseProbe(t) ==
  /\ pc[t] = "gate" /\ Unlocked(ProcOf[t])
  /\ inFlight[ProcOf[t]]
  /\ Goto(t, "idle")
  /\ UNCHANGED <<store, mem, inFlight>>

(* fn() returned: _on_success.  It runs inside the try block, so when its   *)
(* write raises, the except clause goes on to _on_failure.                  *)
Succeed(t, saved) ==
  LET p   == ProcOf[t]
      row == AfterSuccess(mem[p])
  IN
  /\ pc[t] \in {"calling", "probing"} /\ Unlocked(p)
  /\ mem' = [mem EXCEPT ![p] = row]
  /\ inFlight' = [inFlight EXCEPT ![p] = FALSE]
  /\ Persist(row, saved)
  /\ Goto(t, IF saved THEN "idle" ELSE "failing")

(* Seeded fault: _on_failure without the reset of the in-flight flag. *)
FailKeepsFlag(t, saved) ==
  LET p   == ProcOf[t]
      row == AfterFailure(mem[p])
  IN
  /\ pc[t] \in {"calling", "probing", "failing"} /\ Unlocked(p)
  /\ mem' = [mem EXCEPT ![p] = row]
  /\ Persist(row, saved)
  /\ Goto(t, "idle")
  /\ UNCHANGED inFlight

(* fn() raised an Exception: _on_failure works on the in-memory row, which  *)
(* it does not reload, and re-raises.                                       *)
Fail(t, saved) ==
  LET p   == ProcOf[t]
      row == AfterFailure(mem[p])
  IN
  /\ pc[t] \in {"calling", "probing", "failing"} /\ Unlocked(p)
  /\ mem' = [mem EXCEPT ![p] = row]
  /\ inFlight' = [inFlight EXCEPT ![p] = FALSE]
  /\ Persist(row, saved)
  /\ Goto(t, "idle")

(* fn() was left by a BaseException: no outcome is recorded; the probe path *)
(* clears the flag in its finally clause.                                   *)
Abort(t) ==
  /\ pc[t] \in {"calling", "probing"}
  /\ pc[t] = "probing" => Unlocked(ProcOf[t])
  /\ inFlight' = IF pc[t] = "probing"
                 THEN [inFlight EXCEPT ![ProcOf[t]] = FALSE]
                 ELSE inFlight
  /\ Goto(t, "idle")
  /\ UNCHANGED <<store, mem>>

(* Seeded fault: _load_state without the test for a missing row. *)
RestartBlindly(p) ==
  /\ mem' = [mem EXCEPT ![p] = store]
  /\ inFlight' = [inFlight EXCEPT ![p] = FALSE]
  /\ pc' = [t \in Thread |-> IF ProcOf[t] = p THEN "idle" ELSE pc[t]]
  /\ UNCHANGED store

(* The process dies and starts again: __init__ loads the stored row. *)
Restart(p) ==
  /\ mem' = [mem EXCEPT ![p] = IF store = NoRow THEN Fresh ELSE store]
  /\ inFlight' = [inFlight EXCEPT ![p] = FALSE]
  /\ pc' = [t \in Thread |-> IF ProcOf[t] = p THEN "idle" ELSE pc[t]]
  /\ UNCHANGED store

Tick ==
  /\ store' = Elapse(store)
  /\ mem' = [p \in Proc |-> Elapse(mem[p])]
  /\ UNCHANGED <<inFlight, pc>>

Enter(t) == CallClosed(t) \/ CallRejected(t) \/ CallHalfOpens(t) \/ CallHalfOpen(t)

Gate(t) == TakeProbe(t) \/ RefuseProbe(t)

Outcome(t, saved) == Succeed(t, saved) \/ Fail(t, saved)

(* The steps that write to the store. *)
Record(t, saved) == SaveHalfOpen(t, saved) \/ Outcome(t, saved)

Next ==
  \/ \E t \in Thread :
       \/ Enter(t)
       \/ \E saved \in BOOLEAN : Record(t, saved)
       \/ Gate(t)
       \/ Abort(t)
  \/ \E p \in Proc : Restart(p)
  \/ Tick

Spec == Init /\ [][Next]_vars

(* Time passes, a call that keeps being possible is made, and a provider    *)
(* call ends by returning or raising sooner or later (every client has a    *)
(* request timeout).  Interrupts, restarts and failing writes are never     *)
(* forced, but may not pre-empt every attempt.                              *)
Fairness ==
  /\ WF_vars(Tick)
  /\ \A t \in Thread :
       /\ SF_vars(Enter(t))
       /\ SF_vars(Gate(t))
       /\ SF_vars(Record(t, TRUE))

FairSpec == Spec /\ Fairness

-----------------------------------------------------------------------------

(* The types of the breaker's fields and of the stored row. *)
TypeOK ==
  /\ store \in Row \cup {NoRow}
  /\ mem \in [Proc -> Row]
  /\ inFlight \in [Proc -> BOOLEAN]
  /\ pc \in [Thread -> Phases]

Coherent(row) == row.state # "closed" <=> row.failures >= Threshold

(* However outcomes of threads and processes overwrite each other, the row  *)
(* in the store and every in-memory copy never mixes one outcome's state    *)
(* with another's count: not CLOSED exactly when the count reached the      *)
(* threshold (call, _on_failure and _on_success together).                  *)
RowsCoherent ==
  /\ store = NoRow \/ Coherent(store)
  /\ \A p \in Proc : Coherent(mem[p])

(* A set in-flight flag always has a probe behind it that will clear it;    *)
(* a flag left behind by any path would block recovery for good, which is   *)
(* what the CRITICAL comment in _on_failure is about.                       *)
FlagHasOwner ==
  \A p \in Proc : inFlight[p] =>
    \E t \in Thread : ProcOf[t] = p /\ pc[t] = "probing"

(* "Internal invariant: _half_open_in_flight is ALWAYS False when _state is  *)
(* CLOSED or OPEN." (docstring of CircuitBreaker)                            *)
FlagOnlyHalfOpen == \A p \in Proc : inFlight[p] => mem[p].state = "half_open"

(* As long as no call succeeds, an open or probing breaker does not close   *)
(* (that takes a success, which clears the count, or a row stored by        *)
(* another process), and each new failure of it asks for at least the wait  *)
(* the previous one asked for: RECOVERY_BACKOFF grows with the count.       *)
BackoffNeverShrinks ==
  [][\A p \in Proc : mem[p].state # "closed" =>
       /\ mem'[p].state = "closed" => mem'[p].failures = 0 \/ mem'[p] = store
       /\ mem'[p].state = "open" /\ mem'[p] \notin {mem[p], store, Elapse(mem[p])}
            => mem'[p].left >= RecoveryTimeout(mem[p].failures)]_vars

(* An open breaker does not stay open for ever while callers keep trying:   *)
(* the timeout passes and a call probes.                                    *)
OpenIsProbed == store.state = "open" ~> store.state # "open"

(* A half-open breaker is decided: some probe gets through the gate and its *)
(* outcome opens or closes it.                                              *)
ProbeIsDecided == store.state = "half_open" ~> store.state # "half_open"

=============================================================================
