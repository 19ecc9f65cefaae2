------------------------ MODULE CircuitBreakerProofs ------------------------
(***************************************************************************)
(* Invariants of the circuit breaker for every number of processes and     *)
(* threads, every threshold and every growing backoff schedule.  TypeOK    *)
(* and RowsCoherent are inductive together, FlagHasOwner next to TypeOK;   *)
(* the two action properties follow from all the ways a process's copy of  *)
(* the row may change in a step.                                           *)
(***************************************************************************)
EXTENDS CircuitBreaker, TLAPS

LEMMA FailureCapBounds == FailureCap \in Nat /\ Threshold <= FailureCap
<1> DEFINE k == Len(Backoff) - 2
<1>1. k \in Nat /\ Len(Backoff) - 1 = k + 1
  BY BackoffAssumption
<1>2. Threshold \in Nat
  BY ThresholdAssumption
<1> HIDE DEF k
<1>3. Threshold * k \in Nat
  BY <1>1, <1>2
<1>4. Threshold * (k + 1) = Threshold * k + Threshold
  BY <1>1, <1>2
<1> QED
  BY <1>1, <1>2, <1>3, <1>4 DEF FailureCap

(* Every wait the breaker asks for is one of the schedule. *)
LEMMA RecoveryTimeoutInSchedule ==
  ASSUME NEW n \in Nat, n >= 1
  PROVE  RecoveryTimeout(n) \in Nat
<1>1. (n - 1) \div Threshold \in Nat
  BY ThresholdAssumption
<1> DEFINE i == (n - 1) \div Threshold
           k == IF i < Len(Backoff) THEN i + 1 ELSE Len(Backoff)
<1>2. i \in Nat
  BY <1>1
<1> HIDE DEF i
<1>3. k \in 1 .. Len(Backoff)
  BY <1>2, BackoffAssumption
<1>4. Backoff[k] \in Nat
  BY <1>3, BackoffAssumption
<1> QED
  BY <1>4 DEF RecoveryTimeout, i

(* A recorded failure yields a row whose state agrees with its count, from  *)
(* any such row.                                                            *)
LEMMA AfterFailureRow ==
  ASSUME NEW row \in Row, Coherent(row)
  PROVE  AfterFailure(row) \in Row /\ Coherent(AfterFailure(row))
<1> DEFINE n == IF row.failures < FailureCap THEN row.failures + 1 ELSE FailureCap
<1>1. n \in 1 .. FailureCap
  BY FailureCapBounds, ThresholdAssumption DEF Row
<1>2. CASE n >= Threshold
  <2>1. RecoveryTimeout(n) \in Nat
    BY <1>1, FailureCapBounds, RecoveryTimeoutInSchedule
  <2>2. AfterFailure(row) =
          [state |-> "open", failures |-> n, left |-> RecoveryTimeout(n)]
    BY <1>2 DEF AfterFailure
  <2> HIDE DEF n
  <2>3. n \in 0 .. FailureCap
    BY <1>1, FailureCapBounds
  <2> QED
    BY <1>2, <2>1, <2>2, <2>3 DEF Row, Coherent
<1>3. CASE ~(n >= Threshold)
  <2>1. AfterFailure(row) = [row EXCEPT !.failures = n]
    BY <1>3 DEF AfterFailure
  <2>2. row.failures < Threshold
    BY <1>3, FailureCapBounds, ThresholdAssumption DEF Row
  <2> HIDE DEF n
  <2> QED
    BY <1>1, <1>3, <2>1, <2>2, FailureCapBounds, ThresholdAssumption DEF Row, Coherent
<1> QED
  BY <1>2, <1>3

LEMMA OtherRows ==
  ASSUME NEW row \in Row, Coherent(row)
  PROVE  /\ AfterSuccess(row) \in Row /\ Coherent(AfterSuccess(row))
         /\ Elapse(row) \in Row /\ Coherent(Elapse(row))
         /\ row.state = "open" =>
              /\ [row EXCEPT !.state = "half_open"] \in Row
              /\ Coherent([row EXCEPT !.state = "half_open"])
<1>1. /\ row.state \in {"closed", "open", "half_open"}
      /\ row.failures \in 0 .. FailureCap
      /\ row.left \in Nat
      /\ 0 \in 0 .. FailureCap
  BY FailureCapBounds DEF Row
<1>4. AfterSuccess(row) \in Row /\ Coherent(AfterSuccess(row))
  BY <1>1, ThresholdAssumption DEF Row, Coherent, AfterSuccess
<1>5. PICK n \in Nat : Elapse(row) = [state |-> row.state, failures |-> row.failures, left |-> n]
  BY <1>1 DEF Elapse, Row
<1>6. Elapse(row) \in Row /\ Coherent(Elapse(row))
  BY <1>1, <1>5 DEF Row, Coherent
<1>7. [row EXCEPT !.state = "half_open"]
        = [state |-> "half_open", failures |-> row.failures, left |-> row.left]
  BY DEF Row
<1>8. row.state = "open" => /\ [row EXCEPT !.state = "half_open"] \in Row
                            /\ Coherent([row EXCEPT !.state = "half_open"])
  BY <1>1, <1>7 DEF Row, Coherent
<1> QED
  BY <1>4, <1>6, <1>8

LEMMA SpecialRows ==
  /\ Fresh \in Row /\ Coherent(Fresh)
  /\ NoRow \notin Row
  /\ Elapse(NoRow) = NoRow
BY FailureCapBounds, ThresholdAssumption DEF Row, Coherent, Fresh, NoRow, Elapse

-----------------------------------------------------------------------------

(* Types and coherence of the rows, together: the row a process works with  *)
(* may come from memory or from the store.                                  *)
RowInv == TypeOK /\ RowsCoherent

LEMMA ReloadedRow ==
  ASSUME RowInv, NEW p \in Proc
  PROVE  Reloaded(p) \in Row /\ Coherent(Reloaded(p))
BY DEF RowInv, TypeOK, RowsCoherent, Reloaded

(* One process records a row in memory, and in the store if the write works. *)
LEMMA RecordRow ==
  ASSUME RowInv, NEW p \in Proc, NEW row \in Row, Coherent(row),
         mem' = [mem EXCEPT ![p] = row],
         store' = row \/ store' = store
  PROVE  /\ mem' \in [Proc -> Row]
         /\ store' \in Row \cup {NoRow}
         /\ RowsCoherent'
<1> USE DEF RowInv, TypeOK, RowsCoherent
<1>1. mem' \in [Proc -> Row] /\ store' \in Row \cup {NoRow}
  OBVIOUS
<1>2. ASSUME NEW q \in Proc PROVE Coherent(mem'[q])
  <2>1. CASE q = p
    BY <2>1
  <2>2. CASE q # p
    BY <2>2
  <2> QED
    BY <2>1, <2>2
<1>3. (store = NoRow \/ Coherent(store))'
  BY DEF Coherent
<1> QED
  BY <1>1, <1>2, <1>3 DEF Coherent

LEMMA RowInvInit == Init => RowInv
BY SpecialRows DEF Init, RowInv, TypeOK, RowsCoherent, Phases

LEMMA RowInvStep == RowInv /\ [Next]_vars => RowInv'
<1> SUFFICES ASSUME RowInv, [Next]_vars
             PROVE  RowInv'
  OBVIOUS
<1> USE ThreadAssumption
<1>1. ASSUME NEW t \in Thread, CallClosed(t) PROVE RowInv'
  <2>1. Reloaded(ProcOf[t]) \in Row /\ Coherent(Reloaded(ProcOf[t]))
    BY ReloadedRow
  <2>2. mem' \in [Proc -> Row] /\ store' \in Row \cup {NoRow} /\ RowsCoherent'
    BY <1>1, <2>1, RecordRow DEF CallClosed
  <2> QED
    BY <1>1, <2>2 DEF CallClosed, Goto, RowInv, TypeOK, Phases
<1>2. ASSUME NEW t \in Thread, CallRejected(t) PROVE RowInv'
  <2>1. Reloaded(ProcOf[t]) \in Row /\ Coherent(Reloaded(ProcOf[t]))
    BY ReloadedRow
  <2>2. mem' \in [Proc -> Row] /\ store' \in Row \cup {NoRow} /\ RowsCoherent'
    BY <1>2, <2>1, RecordRow DEF CallRejected
  <2> QED
    BY <1>2, <2>2 DEF CallRejected, RowInv, TypeOK
<1>3. ASSUME NEW t \in Thread, CallHalfOpens(t) PROVE RowInv'
  <2> DEFINE row == [Reloaded(ProcOf[t]) EXCEPT !.state = "half_open"]
  <2>1. row \in Row /\ Coherent(row)
    BY <1>3, ReloadedRow, OtherRows DEF CallHalfOpens
  <2>2. mem' = [mem EXCEPT ![ProcOf[t]] = row] /\ store' = store
    BY <1>3 DEF CallHalfOpens
  <2> HIDE DEF row
  <2>3. mem' \in [Proc -> Row] /\ store' \in Row \cup {NoRow} /\ RowsCoherent'
    BY <2>1, <2>2, RecordRow
  <2> QED
    BY <1>3, <2>3 DEF CallHalfOpens, Goto, RowInv, TypeOK, Phases
<1>4. ASSUME NEW t \in Thread, CallHalfOpen(t) PROVE RowInv'
  <2>1. Reloaded(ProcOf[t]) \in Row /\ Coherent(Reloaded(ProcOf[t]))
    BY ReloadedRow
  <2>2. mem' \in [Proc -> Row] /\ store' \in Row \cup {NoRow} /\ RowsCoherent'
    BY <1>4, <2>1, RecordRow DEF CallHalfOpen
  <2> QED
    BY <1>4, <2>2 DEF CallHalfOpen, Goto, RowInv, TypeOK, Phases
<1>5. ASSUME NEW t \in Thread, Gate(t) PROVE RowInv'
  BY <1>5 DEF Gate, TakeProbe, RefuseProbe, Goto, RowInv, TypeOK, RowsCoherent,
              Phases, Coherent
<1>6. ASSUME NEW t \in Thread, NEW saved \in BOOLEAN, Succeed(t, saved)
      PROVE  RowInv'
  <2> DEFINE row == AfterSuccess(mem[ProcOf[t]])
  <2>1. row \in Row /\ Coherent(row)
    BY OtherRows DEF RowInv, TypeOK, RowsCoherent
  <2>2. mem' = [mem EXCEPT ![ProcOf[t]] = row] /\ (store' = row \/ store' = store)
    BY <1>6 DEF Succeed, Persist
  <2> HIDE DEF row
  <2>3. mem' \in [Proc -> Row] /\ store' \in Row \cup {NoRow} /\ RowsCoherent'
    BY <2>1, <2>2, RecordRow
  <2> QED
    BY <1>6, <2>3 DEF Succeed, Goto, RowInv, TypeOK, Phases
<1>7. ASSUME NEW t \in Thread, NEW saved \in BOOLEAN, Fail(t, saved)
      PROVE  RowInv'
  <2> DEFINE row == AfterFailure(mem[ProcOf[t]])
  <2>1. row \in Row /\ Coherent(row)
    BY AfterFailureRow DEF RowInv, TypeOK, RowsCoherent
  <2>2. mem' = [mem EXCEPT ![ProcOf[t]] = row] /\ (store' = row \/ store' = store)
    BY <1>7 DEF Fail, Persist
  <2> HIDE DEF row
  <2>3. mem' \in [Proc -> Row] /\ store' \in Row \cup {NoRow} /\ RowsCoherent'
    BY <2>1, <2>2, RecordRow
  <2> QED
    BY <1>7, <2>3 DEF Fail, Goto, RowInv, TypeOK, Phases
<1>8. ASSUME NEW t \in Thread, Abort(t) PROVE RowInv'
  BY <1>8 DEF Abort, Goto, RowInv, TypeOK, RowsCoherent, Phases, Coherent
<1>9. ASSUME NEW p \in Proc, Restart(p) PROVE RowInv'
  <2> DEFINE row == IF store = NoRow THEN Fresh ELSE store
  <2>1. row \in Row /\ Coherent(row)
    BY SpecialRows DEF RowInv, TypeOK, RowsCoherent
  <2>2. mem' = [mem EXCEPT ![p] = row] /\ store' = store
    BY <1>9 DEF Restart
  <2> HIDE DEF row
  <2>3. mem' \in [Proc -> Row] /\ store' \in Row \cup {NoRow} /\ RowsCoherent'
    BY <2>1, <2>2, RecordRow
  <2> QED
    BY <1>9, <2>3 DEF Restart, RowInv, TypeOK, Phases
<1>10. ASSUME NEW t \in Thread, NEW saved \in BOOLEAN, SaveHalfOpen(t, saved)
       PROVE  RowInv'
  <2> DEFINE row == mem[ProcOf[t]]
  <2>1. row \in Row /\ Coherent(row)
    BY DEF RowInv, TypeOK, RowsCoherent
  <2>2. mem' = [mem EXCEPT ![ProcOf[t]] = row] /\ (store' = row \/ store' = store)
    BY <1>10 DEF SaveHalfOpen, Persist, RowInv, TypeOK
  <2> HIDE DEF row
  <2>3. mem' \in [Proc -> Row] /\ store' \in Row \cup {NoRow} /\ RowsCoherent'
    BY <2>1, <2>2, RecordRow
  <2> QED
    BY <1>10, <2>3 DEF SaveHalfOpen, Goto, RowInv, TypeOK, Phases
<1>11. CASE Tick
  <2>1. ASSUME NEW p \in Proc
        PROVE  mem'[p] \in Row /\ Coherent(mem'[p])
    BY <1>11, OtherRows DEF Tick, RowInv, TypeOK, RowsCoherent
  <2>2. mem' \in [Proc -> Row]
    BY <1>11, <2>1 DEF Tick
  <2>3. store' = NoRow \/ (store' \in Row /\ Coherent(store'))
    BY <1>11, OtherRows, SpecialRows DEF Tick, RowInv, TypeOK, RowsCoherent
  <2> QED
    BY <1>11, <2>1, <2>2, <2>3 DEF Tick, RowInv, TypeOK, RowsCoherent, Coherent
<1>12. CASE UNCHANGED vars
  BY <1>12 DEF vars, RowInv, TypeOK, RowsCoherent, Coherent
<1> QED
  BY <1>1, <1>2, <1>3, <1>4, <1>5, <1>6, <1>7, <1>8, <1>9, <1>11, <1>12, <1>10
     DEF Next, Enter, Record, Outcome

(* The breaker's fields and the stored row always have their types. *)
THEOREM BreakerTypeCorrect == Spec => []TypeOK
<1>1. RowInv => TypeOK
  BY DEF RowInv
<1> QED
  BY RowInvInit, RowInvStep, <1>1, PTL DEF Spec

(* No interleaving of outcomes, lost updates, failed writes and restarts    *)
(* leaves a row whose state disagrees with its failure count: a breaker     *)
(* blocks calls only after Threshold failures were recorded.                *)
THEOREM BreakerRowsCoherent == Spec => []RowsCoherent
<1>1. RowInv => RowsCoherent
  BY DEF RowInv
<1> QED
  BY RowInvInit, RowInvStep, <1>1, PTL DEF Spec

-----------------------------------------------------------------------------

LEMMA FlagStep == TypeOK /\ FlagHasOwner /\ [Next]_vars => FlagHasOwner'
<1> SUFFICES ASSUME TypeOK, FlagHasOwner, [Next]_vars,
                    NEW p \in Proc, inFlight'[p]
             PROVE  \E t \in Thread : ProcOf[t] = p /\ pc'[t] = "probing"
  BY DEF FlagHasOwner
<1> USE ThreadAssumption DEF TypeOK, FlagHasOwner, Goto
(* A step that sets no flag and takes no probe away from its owner. *)
<1>1. ASSUME inFlight[p],
             \A u \in Thread : ProcOf[u] = p /\ pc[u] = "probing" => pc'[u] = "probing"
      PROVE  \E t \in Thread : ProcOf[t] = p /\ pc'[t] = "probing"
  BY <1>1
<1>2. ASSUME NEW t \in Thread, NEW saved \in BOOLEAN, Enter(t) \/ SaveHalfOpen(t, saved)
      PROVE  \E u \in Thread : ProcOf[u] = p /\ pc'[u] = "probing"
  <2>1. inFlight' = inFlight /\ pc[t] \in {"idle", "opening"}
    BY <1>2 DEF Enter, CallClosed, CallRejected, CallHalfOpens, CallHalfOpen, SaveHalfOpen
  <2>2. \A u \in Thread : u # t => pc'[u] = pc[u]
    BY <1>2 DEF Enter, CallClosed, CallRejected, CallHalfOpens, CallHalfOpen, SaveHalfOpen
  <2> QED
    BY <1>1, <2>1, <2>2
<1>3. ASSUME NEW t \in Thread, TakeProbe(t)
      PROVE  \E u \in Thread : ProcOf[u] = p /\ pc'[u] = "probing"
  <2>1. CASE ProcOf[t] = p
    BY <1>3, <2>1 DEF TakeProbe
  <2>2. CASE ProcOf[t] # p
    BY <1>1, <1>3, <2>2 DEF TakeProbe
  <2> QED
    BY <2>1, <2>2
<1>4. ASSUME NEW t \in Thread, RefuseProbe(t)
      PROVE  \E u \in Thread : ProcOf[u] = p /\ pc'[u] = "probing"
  BY <1>1, <1>4 DEF RefuseProbe
(* An outcome clears the flag of its process: p is another one. *)
<1>5. ASSUME NEW t \in Thread, NEW saved \in BOOLEAN, Outcome(t, saved)
      PROVE  \E u \in Thread : ProcOf[u] = p /\ pc'[u] = "probing"
  <2>1. inFlight' = [inFlight EXCEPT ![ProcOf[t]] = FALSE]
    BY <1>5 DEF Outcome, Succeed, Fail
  <2>2. ProcOf[t] # p /\ inFlight[p]
    BY <2>1
  <2>3. \A u \in Thread : u # t => pc'[u] = pc[u]
    BY <1>5 DEF Outcome, Succeed, Fail
  <2> QED
    BY <1>1, <2>2, <2>3
<1>6. ASSUME NEW t \in Thread, Abort(t)
      PROVE  \E u \in Thread : ProcOf[u] = p /\ pc'[u] = "probing"
  <2>1. inFlight[p] /\ (pc[t] = "probing" => ProcOf[t] # p)
    BY <1>6 DEF Abort
  <2>2. \A u \in Thread : u # t => pc'[u] = pc[u]
    BY <1>6 DEF Abort
  <2> QED
    BY <1>1, <2>1, <2>2
<1>7. ASSUME NEW q \in Proc, Restart(q)
      PROVE  \E u \in Thread : ProcOf[u] = p /\ pc'[u] = "probing"
  <2>1. p # q /\ inFlight[p]
    BY <1>7 DEF Restart
  <2> QED
    BY <1>1, <1>7, <2>1 DEF Restart
<1>8. CASE Tick
  BY <1>1, <1>8 DEF Tick
<1>9. CASE UNCHANGED vars
  BY <1>1, <1>9 DEF vars
<1> QED
  BY <1>2, <1>3, <1>4, <1>5, <1>6, <1>7, <1>8, <1>9 DEF Next, Gate, Record

(* The in-flight flag is never left set without a probe that will clear it, *)
(* whatever the order in which calls, outcomes, interrupts and restarts     *)
(* follow each other: recovery cannot be blocked by a stale flag.           *)
THEOREM BreakerFlagHasOwner == Spec => []FlagHasOwner
<1>1. Init => FlagHasOwner
  BY DEF Init, FlagHasOwner
<1> QED
  BY <1>1, FlagStep, BreakerTypeCorrect, PTL DEF Spec

-----------------------------------------------------------------------------

LEMMA DivMonotone ==
  ASSUME NEW a \in Nat, NEW b \in Nat, a <= b
  PROVE  /\ a \div Threshold \in Nat /\ b \div Threshold \in Nat
         /\ a \div Threshold <= b \div Threshold
<1> DEFINE q == a \div Threshold
           r == b \div Threshold
<1>1. Threshold \in Nat /\ Threshold > 0
  BY ThresholdAssumption
<1>2. q \in Nat /\ r \in Nat
  BY <1>1
<1>3. Threshold * q <= a
  BY <1>1
<1>4. b < Threshold * (r + 1)
  BY <1>1
<1> HIDE DEF q, r
<1>5. Threshold * q < Threshold * (r + 1)
  BY <1>1, <1>2, <1>3, <1>4
<1>6. q < r + 1
  BY <1>1, <1>2, <1>5
<1>7. q <= r
  BY <1>2, <1>6
<1> QED
  BY <1>2, <1>7 DEF q, r

(* The schedule grows, and so does the wait with the failure count.         *)
LEMMA RecoveryTimeoutGrows ==
  ASSUME NEW m \in Nat, NEW n \in Nat, 1 <= m, m <= n
  PROVE  RecoveryTimeout(m) <= RecoveryTimeout(n)
<1> DEFINE a == (m - 1) \div Threshold
           b == (n - 1) \div Threshold
           At(i) == IF i < Len(Backoff) THEN i + 1 ELSE Len(Backoff)
<1>1. a \in Nat /\ b \in Nat /\ a <= b
  BY DivMonotone
<1>2. Len(Backoff) \in Nat /\ DOMAIN Backoff = 1 .. Len(Backoff) /\ Len(Backoff) > 1
  BY BackoffAssumption
<1>3. RecoveryTimeout(m) = Backoff[At(a)] /\ RecoveryTimeout(n) = Backoff[At(b)]
  BY DEF RecoveryTimeout
<1> HIDE DEF a, b
<1>4. At(a) \in DOMAIN Backoff /\ At(b) \in DOMAIN Backoff /\ At(a) <= At(b)
  BY <1>1, <1>2
<1> HIDE DEF At
<1> QED
  BY <1>3, <1>4, BackoffAssumption

(* What a recorded failure does to a breaker that is open or probing.       *)
LEMMA FailureKeepsOpen ==
  ASSUME NEW row \in Row, Coherent(row), row.state # "closed"
  PROVE  /\ AfterFailure(row).state = "open"
         /\ AfterFailure(row).left >= RecoveryTimeout(row.failures)
<1> DEFINE n == IF row.failures < FailureCap THEN row.failures + 1 ELSE FailureCap
<1>1. row.failures \in 0 .. FailureCap /\ row.failures >= Threshold /\ Threshold >= 1
  BY ThresholdAssumption DEF Row, Coherent
<1>2. /\ FailureCap \in Nat /\ Threshold \in Nat
      /\ n \in Nat /\ row.failures \in Nat /\ 1 <= row.failures /\ row.failures <= n
      /\ n >= Threshold
  BY <1>1, FailureCapBounds, ThresholdAssumption
<1>3. AfterFailure(row) = [state |-> "open", failures |-> n, left |-> RecoveryTimeout(n)]
  BY <1>2 DEF AfterFailure
<1> HIDE DEF n
<1>4. RecoveryTimeout(row.failures) <= RecoveryTimeout(n)
      /\ RecoveryTimeout(row.failures) \in Nat /\ RecoveryTimeout(n) \in Nat
  <2>1. n >= 1
    BY <1>2
  <2> QED
    BY <1>2, <2>1, RecoveryTimeoutGrows, RecoveryTimeoutInSchedule
<1> QED
  BY <1>3, <1>4

(* Every way a process's copy of the row may change in one step.            *)
LEMMA MemCases ==
  ASSUME RowInv, [Next]_vars, NEW p \in Proc
  PROVE  \/ mem'[p] \in {mem[p], store, Fresh, AfterSuccess(mem[p]), AfterFailure(mem[p]),
                         Elapse(mem[p])}
         \/ mem'[p].state = "half_open"
<1> USE ThreadAssumption
<1>1. mem \in [Proc -> Row]
  BY DEF RowInv, TypeOK
<1>2. ASSUME NEW t \in Thread, CallClosed(t) \/ CallRejected(t) \/ CallHalfOpen(t)
      PROVE  mem'[p] \in {mem[p], store}
  BY <1>1, <1>2 DEF CallClosed, CallRejected, CallHalfOpen, Reloaded
<1>3. ASSUME NEW t \in Thread, CallHalfOpens(t)
      PROVE  mem'[p] = mem[p] \/ mem'[p].state = "half_open"
  <2> DEFINE row == [Reloaded(ProcOf[t]) EXCEPT !.state = "half_open"]
  <2>1. Reloaded(ProcOf[t]) \in Row
    BY ReloadedRow
  <2>2. row.state = "half_open"
    BY <2>1 DEF Row
  <2>3. mem' = [mem EXCEPT ![ProcOf[t]] = row]
    BY <1>3 DEF CallHalfOpens
  <2> HIDE DEF row
  <2> QED
    BY <1>1, <2>2, <2>3
<1>4. ASSUME NEW t \in Thread, NEW saved \in BOOLEAN, Outcome(t, saved)
      PROVE  mem'[p] \in {mem[p], AfterSuccess(mem[p]), AfterFailure(mem[p])}
  BY <1>1, <1>4 DEF Outcome, Succeed, Fail
<1>5. ASSUME NEW t \in Thread, NEW saved \in BOOLEAN,
             SaveHalfOpen(t, saved) \/ Gate(t) \/ Abort(t)
      PROVE  mem'[p] = mem[p]
  BY <1>5 DEF SaveHalfOpen, Gate, TakeProbe, RefuseProbe, Abort
<1>6. ASSUME NEW q \in Proc, Restart(q) PROVE mem'[p] \in {mem[p], store, Fresh}
  BY <1>1, <1>6 DEF Restart
<1>7. CASE Tick
  BY <1>7 DEF Tick
<1>8. CASE UNCHANGED vars
  BY <1>8 DEF vars
<1> QED
  BY <1>2, <1>3, <1>4, <1>5, <1>6, <1>7, <1>8 DEF Next, Enter, Record

LEMMA ElapseKeepsState == ASSUME NEW row \in Row PROVE Elapse(row).state = row.state
BY DEF Elapse, Row

ClosedBySuccess(p) ==
  mem[p].state # "closed" /\ mem'[p].state = "closed"
    => mem'[p].failures = 0 \/ mem'[p] = store

LEMMA ClosedBySuccessStep ==
  ASSUME RowInv, [Next]_vars, NEW p \in Proc
  PROVE  ClosedBySuccess(p)
<1> SUFFICES ASSUME mem[p].state # "closed", mem'[p].state = "closed"
             PROVE  mem'[p].failures = 0 \/ mem'[p] = store
  BY DEF ClosedBySuccess
<1>1. mem[p] \in Row /\ Coherent(mem[p])
  BY DEF RowInv, TypeOK, RowsCoherent
<1>2. mem'[p] # AfterFailure(mem[p]) /\ mem'[p] # Elapse(mem[p]) /\ mem'[p] # mem[p]
  BY <1>1, FailureKeepsOpen, ElapseKeepsState
<1>3. AfterSuccess(mem[p]).failures = 0 /\ Fresh.failures = 0
  BY DEF AfterSuccess, Fresh
<1> QED
  BY <1>2, <1>3, MemCases

WaitGrows(p) ==
  /\ mem[p].state # "closed" /\ mem'[p].state = "open"
  /\ mem'[p] \notin {mem[p], store, Elapse(mem[p])}
  => mem'[p].left >= RecoveryTimeout(mem[p].failures)

LEMMA WaitGrowsStep ==
  ASSUME RowInv, [Next]_vars, NEW p \in Proc
  PROVE  WaitGrows(p)
<1> SUFFICES ASSUME mem[p].state # "closed", mem'[p].state = "open",
                    mem'[p] \notin {mem[p], store, Elapse(mem[p])}
             PROVE  mem'[p].left >= RecoveryTimeout(mem[p].failures)
  BY DEF WaitGrows
<1>1. mem[p] \in Row /\ Coherent(mem[p])
  BY DEF RowInv, TypeOK, RowsCoherent
<1>2. AfterSuccess(mem[p]).state = "closed" /\ Fresh.state = "closed"
  BY DEF AfterSuccess, Fresh
<1>3. mem'[p] = AfterFailure(mem[p])
  BY <1>2, MemCases
<1> QED
  BY <1>1, <1>3, FailureKeepsOpen

BackoffKept ==
  \A p \in Proc : mem[p].state # "closed" =>
    /\ mem'[p].state = "closed" => mem'[p].failures = 0 \/ mem'[p] = store
    /\ mem'[p].state = "open" /\ mem'[p] \notin {mem[p], store, Elapse(mem[p])}
         => mem'[p].left >= RecoveryTimeout(mem[p].failures)

(* For every growing schedule, every threshold and any threads, processes    *)
(* and lost updates: it takes a success, a restart without a stored row or   *)
(* the row of another process to close a breaker that is open or probing,    *)
(* and a failure asks for at least the wait the failure before it did.       *)
THEOREM BreakerBackoffNeverShrinks == Spec => BackoffNeverShrinks
<1>1. RowInv /\ [Next]_vars => [BackoffKept]_vars
  BY ClosedBySuccessStep, WaitGrowsStep DEF ClosedBySuccess, WaitGrows, BackoffKept
<1> QED
  BY <1>1, RowInvInit, RowInvStep, PTL DEF Spec, BackoffNeverShrinks, BackoffKept

-----------------------------------------------------------------------------

(* A thread on the half-open path works with a half-open copy of the row.    *)
OnHalfOpenPath ==
  \A t \in Thread :
    pc[t] \in {"opening", "gate", "probing"} => mem[ProcOf[t]].state = "half_open"

LEMMA HalfOpenPathStep ==
  ASSUME \A t, u \in Thread : ProcOf[t] = ProcOf[u] => t = u
  PROVE  RowInv /\ OnHalfOpenPath /\ [Next]_vars => OnHalfOpenPath'
<1> SUFFICES ASSUME RowInv, OnHalfOpenPath, [Next]_vars, NEW t \in Thread,
                    pc'[t] \in {"opening", "gate", "probing"}
             PROVE  mem'[ProcOf[t]].state = "half_open"
  BY DEF OnHalfOpenPath
<1> USE ThreadAssumption
<1>1. mem \in [Proc -> Row] /\ pc \in [Thread -> Phases] /\ ProcOf[t] \in Proc
  BY DEF RowInv, TypeOK
<1>2. ASSUME pc'[t] = pc[t], mem'[ProcOf[t]] = mem[ProcOf[t]]
      PROVE  mem'[ProcOf[t]].state = "half_open"
  BY <1>2 DEF OnHalfOpenPath
(* The only thread of another process. *)
<1>3. ASSUME NEW u \in Thread, u # t, NEW row, NEW phase,
             mem' = [mem EXCEPT ![ProcOf[u]] = row] \/ mem' = mem,
             pc' = [pc EXCEPT ![u] = phase] \/ pc' = pc
      PROVE  mem'[ProcOf[t]].state = "half_open"
  <2>1. ProcOf[u] # ProcOf[t]
    BY <1>3
  <2> QED
    BY <1>1, <1>2, <1>3, <2>1
<1>4. ASSUME NEW u \in Thread, NEW saved \in BOOLEAN,
             Enter(u) \/ Record(u, saved) \/ Gate(u) \/ Abort(u), u # t
      PROVE  mem'[ProcOf[t]].state = "half_open"
  BY <1>3, <1>4
  DEF Enter, CallClosed, CallRejected, CallHalfOpens, CallHalfOpen, Record, SaveHalfOpen,
      Outcome, Succeed, Fail, Gate, TakeProbe, RefuseProbe, Abort, Goto
<1>5. CASE CallHalfOpens(t)
  <2>1. Reloaded(ProcOf[t]) \in Row
    BY <1>1, ReloadedRow
  <2> QED
    BY <1>1, <1>5, <2>1 DEF CallHalfOpens, Row
<1>6. CASE CallHalfOpen(t)
  BY <1>1, <1>6 DEF CallHalfOpen
<1>7. CASE CallClosed(t) \/ CallRejected(t)
  BY <1>1, <1>7 DEF CallClosed, CallRejected, Goto
<1>8. ASSUME NEW saved \in BOOLEAN, SaveHalfOpen(t, saved) \/ TakeProbe(t)
      PROVE  mem'[ProcOf[t]].state = "half_open"
  BY <1>8 DEF SaveHalfOpen, TakeProbe, OnHalfOpenPath
<1>9. ASSUME NEW saved \in BOOLEAN, Outcome(t, saved) \/ RefuseProbe(t) \/ Abort(t)
      PROVE  FALSE
  BY <1>1, <1>9 DEF Outcome, Succeed, Fail, RefuseProbe, Abort, Goto
<1>10. ASSUME NEW p \in Proc, Restart(p)
       PROVE  mem'[ProcOf[t]].state = "half_open"
  <2>1. ProcOf[t] # p
    BY <1>1, <1>10 DEF Restart
  <2> QED
    BY <1>1, <1>2, <1>10, <2>1 DEF Restart
<1>11. CASE Tick
  <2>1. pc'[t] = pc[t] /\ mem'[ProcOf[t]] = Elapse(mem[ProcOf[t]])
    BY <1>1, <1>11 DEF Tick
  <2> QED
    BY <1>1, <2>1, ElapseKeepsState DEF OnHalfOpenPath
<1>12. CASE UNCHANGED vars
  BY <1>2, <1>12 DEF vars
<1> QED
  BY <1>4, <1>5, <1>6, <1>7, <1>8, <1>9, <1>10, <1>11, <1>12
  DEF Next, Enter, Record, Gate

(* The invariant the docstring states holds where no two threads share a     *)
(* breaker, for any number of processes, as in the commands and workers of   *)
(* this program.                                                             *)
THEOREM BreakerFlagOnlyHalfOpen ==
  ASSUME \A t, u \in Thread : ProcOf[t] = ProcOf[u] => t = u
  PROVE  Spec => []FlagOnlyHalfOpen
<1>1. Init => OnHalfOpenPath
  BY DEF Init, OnHalfOpenPath
<1>2. RowInv /\ OnHalfOpenPath /\ [Next]_vars => OnHalfOpenPath'
  BY HalfOpenPathStep
<1>3. FlagHasOwner /\ OnHalfOpenPath => FlagOnlyHalfOpen
  BY DEF FlagHasOwner, OnHalfOpenPath, FlagOnlyHalfOpen
<1> QED
  BY <1>1, <1>2, <1>3, RowInvInit, RowInvStep, BreakerFlagHasOwner, PTL DEF Spec

=============================================================================
