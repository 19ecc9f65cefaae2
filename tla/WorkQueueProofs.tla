--------------------------- MODULE WorkQueueProofs ---------------------------
(***************************************************************************)
(* The work queue keeps its types and acknowledges no job without a pull   *)
(* request, whatever dies or comes late; and as long as no worker outlives *)
(* its lease, a job has one holder, its retry count never passes the limit *)
(* and what is settled stays settled.                                      *)
(***************************************************************************)
EXTENDS WorkQueue, FiniteSetTheorems, TLAPS

USE QueueAssumption DEF QueueAssumption

(* Overwriting, appending and mapping rows leave a sequence of rows.         *)
LEMMA RowsUpdate ==
  ASSUME NEW q \in Seq(Row), NEW j \in DOMAIN q, NEW row \in Row
  PROVE  /\ [q EXCEPT ![j] = row] \in Seq(Row)
         /\ Len([q EXCEPT ![j] = row]) = Len(q)
         /\ DOMAIN [q EXCEPT ![j] = row] = DOMAIN q
  OBVIOUS

LEMMA RowsAppend ==
  ASSUME NEW q \in Seq(Row), NEW row \in Row
  PROVE  /\ Append(q, row) \in Seq(Row)
         /\ Len(Append(q, row)) = Len(q) + 1
         /\ DOMAIN q \subseteq DOMAIN Append(q, row)
         /\ DOMAIN Append(q, row) = DOMAIN q \cup {Len(q) + 1}
         /\ \A j \in DOMAIN q : Append(q, row)[j] = q[j]
         /\ Append(q, row)[Len(q) + 1] = row
  OBVIOUS

LEMMA RowElapse ==
  ASSUME NEW row \in Row
  PROVE  LET r == [row EXCEPT !.left = Less(@)]
         IN  r \in Row /\ r.status = row.status /\ r.retries = row.retries
             /\ r.left = Less(row.left)
<1>1. row.left \in Nat
  BY DEF Row
<1>2. Less(row.left) \in Nat
  BY <1>1 DEF Less
<1> QED
  BY <1>2 DEF Row

LEMMA RowsElapse ==
  ASSUME NEW q \in Seq(Row)
  PROVE  LET r == [j \in DOMAIN q |-> [q[j] EXCEPT !.left = Less(@)]]
         IN  r \in Seq(Row) /\ Len(r) = Len(q) /\ DOMAIN r = DOMAIN q
<1> DEFINE r == [j \in DOMAIN q |-> [q[j] EXCEPT !.left = Less(@)]]
<1>1. \A j \in DOMAIN q : q[j] \in Row
  OBVIOUS
<1>2. \A j \in DOMAIN q : [q[j] EXCEPT !.left = Less(@)] \in Row
  BY <1>1, RowElapse
<1>3. r \in [1 .. Len(q) -> Row]
  BY <1>2
<1>4. r \in Seq(Row) /\ Len(r) = Len(q)
  BY <1>3
<1> QED
  BY <1>3, <1>4

(* What a worker writes over the row it holds is a row.                      *)
LEMMA WrittenRows ==
  ASSUME TypeOK, NEW w \in Worker, Busy(w)
  PROVE  /\ job[w] \in DOMAIN queue
         /\ queue[job[w]] \in Row
         /\ \A d \in Nat : /\ Rescheduled(w, d) \in Row
                           /\ Rescheduled(w, d).retries = queue[job[w]].retries
                           /\ Rescheduled(w, d).status = "pending"
         /\ \A s \in {"completed", "dead_letter"} :
              /\ Settled(w, s) \in Row
              /\ Settled(w, s).status = s
              /\ Settled(w, s).retries = queue[job[w]].retries
<1>1. job[w] \in DOMAIN queue /\ queue[job[w]] \in Row
  BY DEF TypeOK
<1>2. ASSUME NEW d \in Nat
      PROVE  /\ Rescheduled(w, d) \in Row
             /\ Rescheduled(w, d).retries = queue[job[w]].retries
             /\ Rescheduled(w, d).status = "pending"
  BY <1>1 DEF Row, Rescheduled
<1>3. ASSUME NEW s \in {"completed", "dead_letter"}
      PROVE  /\ Settled(w, s) \in Row
             /\ Settled(w, s).status = s
             /\ Settled(w, s).retries = queue[job[w]].retries
  BY <1>1 DEF Row, Settled
<1> QED
  BY <1>1, <1>2, <1>3

LEMMA TakenRow ==
  ASSUME NEW row \in Row
  PROVE  /\ Taken(row) \in Row
         /\ Taken(row).status = "processing"
         /\ Taken(row).left = LeaseTime
         /\ Taken(row).retries \in {row.retries, row.retries + 1}
         /\ Taken(row).retries # row.retries => row.status = "processing"
<1>1. row.retries \in Nat /\ row.status \in {"pending", "processing", "completed", "dead_letter"}
  BY DEF Row
<1> DEFINE n == IF row.status = "processing" THEN row.retries + 1 ELSE row.retries
<1>2. n \in Nat /\ n \in {row.retries, row.retries + 1}
  BY <1>1
<1>3. LeaseTime \in Nat
  OBVIOUS
<1>4. /\ Taken(row).status = "processing"
      /\ Taken(row).left = LeaseTime
      /\ Taken(row).retries = n
  BY <1>1 DEF Row, Taken
<1>5. Taken(row) \in Row
  BY <1>1, <1>2, <1>3 DEF Row, Taken
<1> QED
  BY <1>1, <1>2, <1>4, <1>5

-----------------------------------------------------------------------------

(* The end of every delivery: the row of the job is overwritten by another   *)
(* row, the worker forgets it.                                               *)
LEMMA FinishTypes ==
  ASSUME TypeOK, NEW w \in Worker, Busy(w), NEW row \in Row,
         Update(w, row), Release(w), UNCHANGED <<locked, prs, breaker>>
  PROVE  TypeOK'
<1>1. job[w] \in DOMAIN queue /\ job[w] \in 0 .. MaxJobs
  BY DEF TypeOK
<1>2. /\ queue' \in Seq(Row)
      /\ Len(queue') = Len(queue)
      /\ DOMAIN queue' = DOMAIN queue
  BY <1>1, RowsUpdate DEF TypeOK, Update
<1>3. /\ pc' \in [Worker -> {"poll", "ready", "checking", "running"}]
      /\ job' \in [Worker -> 0 .. MaxJobs]
      /\ seen' \in [Worker -> Nat]
      /\ term' \in [Worker -> Nat]
  BY DEF TypeOK, Release
<1>4. \A v \in Worker : Busy(v)' => Busy(v) /\ job'[v] = job[v]
  BY DEF TypeOK, Release, Busy
<1> QED
  BY <1>2, <1>3, <1>4 DEF TypeOK

(* The rows the six ways to end a delivery write.                            *)
Finish(w) ==
  \E row \in Row : /\ Busy(w)
                   /\ Update(w, row)
                   /\ Release(w)
                   /\ UNCHANGED <<locked, prs, breaker>>
                   /\ row.status = "completed" => LookupFindsPr(w) \/ Complete(w)
                   /\ row.retries \in {queue[job[w]].retries, queue[job[w]].retries + 1}
                   /\ row.retries # queue[job[w]].retries => seen[w] < 2

LEMMA FinishCases ==
  ASSUME TypeOK, NEW w \in Worker,
         LookupFails(w) \/ LookupFindsPr(w) \/ Complete(w) \/ BreakerRejects(w)
           \/ FailTransient(w) \/ FailDeterministic(w)
  PROVE  Finish(w)
<1>1. Busy(w)
  BY DEF Busy, LookupFails, LookupFindsPr, Complete, BreakerRejects,
         FailTransient, FailDeterministic
<1> DEFINE old == queue[job[w]]
<1>2. old \in Row /\ old.retries \in Nat
  BY <1>1, WrittenRows DEF Row
<1>3. CASE LookupFails(w)
  BY <1>1, <1>2, <1>3, WrittenRows DEF LookupFails, Finish
<1>4. CASE LookupFindsPr(w)
  BY <1>1, <1>2, <1>4, WrittenRows DEF LookupFindsPr, Finish
<1>5. CASE Complete(w)
  BY <1>1, <1>2, <1>5, WrittenRows DEF Complete, Finish
<1>6. CASE BreakerRejects(w)
  BY <1>1, <1>2, <1>6, WrittenRows DEF BreakerRejects, Finish
<1>7. CASE FailDeterministic(w)
  BY <1>1, <1>2, <1>7, WrittenRows DEF FailDeterministic, Finish
<1>8. CASE FailTransient(w)
  <2>1. CASE seen[w] >= 2
    BY <1>1, <1>2, <1>8, <2>1, WrittenRows DEF FailTransient, Finish
  <2>2. CASE ~(seen[w] >= 2)
    <3> DEFINE d == Backoff[seen[w] + 1]
               row == [Rescheduled(w, d) EXCEPT !.retries = @ + 1]
    <3>1. seen[w] \in Nat /\ seen[w] < 2
      BY <2>2 DEF TypeOK
    <3>2. d \in Nat
      <4>1. seen[w] + 1 \in 1 .. 3
        BY <3>1
      <4> QED
        BY <4>1
    <3>3. row \in Row /\ row.status = "pending" /\ row.retries = old.retries + 1
      BY <1>1, <1>2, <3>2, WrittenRows DEF Row
    <3>4. Update(w, row) /\ Release(w) /\ UNCHANGED <<locked, prs, breaker>>
      BY <1>8, <2>2 DEF FailTransient
    <3> HIDE DEF row
    <3> QED
      BY <1>1, <3>1, <3>3, <3>4 DEF Finish
  <2> QED
    BY <2>1, <2>2
<1> QED
  BY <1>3, <1>4, <1>5, <1>6, <1>7, <1>8

-----------------------------------------------------------------------------

(* The kinds of step a queue takes.                                          *)
LEMMA StepCases ==
  ASSUME TypeOK, [Next]_vars
  PROVE  \/ \E i \in Issue : Enqueue(i)
         \/ \E w \in Worker :
              \/ Dequeue(w) \/ Abandon(w) \/ Finish(w)
              \/ Poll(w) \/ DequeueNothing(w) \/ LookupFindsNone(w)
         \/ \E w \in Worker : OpenPr(w)
         \/ \E j \in RunId : ClosePr(j)
         \/ Tick
         \/ UNCHANGED <<queue, locked, prs, workers>>
              /\ breaker' \in {breaker, "closed", "open", "half_open"}
<1>1. CASE UNCHANGED vars
  BY <1>1 DEF vars, workers
<1>2. ASSUME NEW w \in Worker, Backpressure(w) PROVE UNCHANGED vars
  BY <1>2 DEF Backpressure
<1>3. ASSUME NEW next \in {"closed", "open", "half_open"}, BreakerStep(next)
      PROVE  UNCHANGED <<queue, locked, prs, workers>> /\ breaker' = next
  BY <1>3 DEF BreakerStep, workers
<1> QED
  BY <1>1, <1>2, <1>3, FinishCases DEF Next, Lookup, Ends, WorkerCall, ExternalCall

LEMMA TypesInit == Init => TypeOK
<1> SUFFICES ASSUME Init PROVE TypeOK
  OBVIOUS
<1>1. queue = <<>> /\ queue \in Seq(Row) /\ Len(queue) = 0
  BY DEF Init
<1> QED
  BY <1>1 DEF Init, TypeOK, Busy

LEMMA TypesStep == TypeOK /\ [Next]_vars => TypeOK'
<1> SUFFICES ASSUME TypeOK, [Next]_vars PROVE TypeOK'
  OBVIOUS
<1>1. ASSUME NEW i \in Issue, Enqueue(i) PROVE TypeOK'
  <2> DEFINE new == [status |-> "pending", retries |-> 0, left |-> 0]
  <2>1. new \in Row
    BY DEF Row
  <2>2. /\ queue' \in Seq(Row) /\ Len(queue') <= MaxJobs
        /\ DOMAIN queue \subseteq DOMAIN queue'
    <3>1. queue \in Seq(Row) /\ Len(queue) < MaxJobs /\ queue' = Append(queue, new)
      BY <1>1 DEF TypeOK, Enqueue
    <3>2. Len(queue) \in Nat
      BY <3>1
    <3> HIDE DEF new
    <3> QED
      BY <2>1, <3>1, <3>2, RowsAppend
  <2>3. locked' \in [Issue -> Nat]
    BY <1>1 DEF TypeOK, Enqueue
  <2> QED
    BY <1>1, <2>2, <2>3 DEF TypeOK, Enqueue, workers, Busy
<1>2. ASSUME NEW w \in Worker, Dequeue(w) PROVE TypeOK'
  <2> PICK j \in OldestDue : /\ queue' = [queue EXCEPT ![j] = Taken(@)]
                             /\ job' = [job EXCEPT ![w] = j]
                             /\ seen' = [seen EXCEPT ![w] = Taken(queue[j]).retries]
                             /\ term' = [term EXCEPT ![w] = LeaseTime]
    BY <1>2 DEF Dequeue
  <2>1. j \in DOMAIN queue /\ queue[j] \in Row /\ j \in 0 .. MaxJobs
    BY DEF OldestDue, TypeOK
  <2>2. Taken(queue[j]) \in Row /\ Taken(queue[j]).retries \in Nat
    BY <2>1, TakenRow DEF Row
  <2>3. /\ queue' \in Seq(Row) /\ Len(queue') = Len(queue)
        /\ DOMAIN queue' = DOMAIN queue
    BY <2>1, <2>2, RowsUpdate DEF TypeOK
  <2>4. pc' = [pc EXCEPT ![w] = "checking"] /\ UNCHANGED <<locked, prs, breaker>>
    BY <1>2 DEF Dequeue
  <2>5. \A v \in Worker : Busy(v)' => job'[v] \in DOMAIN queue'
    BY <2>1, <2>3, <2>4 DEF TypeOK, Busy
  <2> QED
    BY <2>1, <2>2, <2>3, <2>4, <2>5 DEF TypeOK
<1>3. ASSUME NEW w \in Worker, Finish(w) PROVE TypeOK'
  BY <1>3, FinishTypes DEF Finish
<1>4. ASSUME NEW w \in Worker, Abandon(w) PROVE TypeOK'
  BY <1>4 DEF Abandon, Release, TypeOK, Busy
<1>5. ASSUME NEW w \in Worker, Poll(w) \/ DequeueNothing(w) PROVE TypeOK'
  BY <1>5 DEF Poll, DequeueNothing, TypeOK, Busy
<1>6. ASSUME NEW w \in Worker, LookupFindsNone(w) PROVE TypeOK'
  BY <1>6 DEF LookupFindsNone, TypeOK, Busy
<1>7. ASSUME NEW w \in Worker, OpenPr(w) PROVE TypeOK'
  BY <1>7 DEF OpenPr, TypeOK, Busy, workers
<1>8. ASSUME NEW j \in RunId, ClosePr(j) PROVE TypeOK'
  BY <1>8 DEF ClosePr, TypeOK, Busy, workers
<1>9. CASE Tick
  <2>1. /\ queue' \in Seq(Row) /\ Len(queue') = Len(queue)
        /\ DOMAIN queue' = DOMAIN queue
    BY <1>9, RowsElapse DEF Tick, TypeOK
  <2>2. \A n \in Nat : Less(n) \in Nat
    BY DEF Less
  <2>3. locked' \in [Issue -> Nat] /\ term' \in [Worker -> Nat]
    BY <1>9, <2>2 DEF Tick, TypeOK
  <2> QED
    BY <1>9, <2>1, <2>3 DEF Tick, TypeOK, Busy
<1>10. CASE UNCHANGED <<queue, locked, prs, workers>>
              /\ breaker' \in {breaker, "closed", "open", "half_open"}
  BY <1>10 DEF TypeOK, Busy, workers
<1> QED
  BY <1>1, <1>2, <1>3, <1>4, <1>5, <1>6, <1>7, <1>8, <1>9, <1>10, StepCases

(* worker_loop's tables and locals keep their types under any interleaving,  *)
(* and a busy worker always holds a row of the table.                        *)
THEOREM QueueTypeCorrect == Spec => []TypeOK
<1> QED
  BY TypesInit, TypesStep, PTL DEF Spec

-----------------------------------------------------------------------------

(* A row is only acknowledged by a lookup that found a pull request or by a  *)
(* pipeline that returned: as long as those that return have one, no work is *)
(* lost.                                                                     *)
LEMMA NoLostWorkStep ==
  ASSUME TypeOK, NoLostWork, [Next]_vars,
         \A w \in Worker : Complete(w) => prs[job[w]] # "none"
  PROVE  NoLostWork'
<1>1. ASSUME NEW i \in Issue, Enqueue(i) PROVE NoLostWork'
  <2> DEFINE new == [status |-> "pending", retries |-> 0, left |-> 0]
  <2>1. new \in Row /\ new.status = "pending"
    BY DEF Row
  <2>2. queue' = Append(queue, new) /\ queue \in Seq(Row) /\ prs' = prs
    BY <1>1 DEF Enqueue, TypeOK
  <2> HIDE DEF new
  <2> QED
    BY <2>1, <2>2, RowsAppend DEF NoLostWork
<1>2. ASSUME NEW w \in Worker, Dequeue(w) PROVE NoLostWork'
  <2> PICK j \in OldestDue : queue' = [queue EXCEPT ![j] = Taken(@)]
    BY <1>2 DEF Dequeue
  <2>1. queue[j] \in Row /\ queue \in Seq(Row) /\ j \in DOMAIN queue
    BY DEF OldestDue, TypeOK
  <2>2. Taken(queue[j]).status = "processing"
    BY <2>1, TakenRow
  <2>3. prs' = prs
    BY <1>2 DEF Dequeue
  <2> QED
    BY <2>1, <2>2, <2>3 DEF NoLostWork
<1>3. ASSUME NEW w \in Worker, Finish(w) PROVE NoLostWork'
  <2> PICK row \in Row : /\ Update(w, row)
                         /\ row.status = "completed" => LookupFindsPr(w) \/ Complete(w)
                         /\ prs' = prs
    BY <1>3 DEF Finish
  <2>1. job[w] \in DOMAIN queue /\ queue \in Seq(Row)
    BY <1>3 DEF Finish, TypeOK
  <2>2. queue' = [queue EXCEPT ![job[w]] = row]
    BY DEF Update
  <2>3. row.status = "completed" => prs[job[w]] # "none"
    BY DEF LookupFindsPr
  <2> QED
    BY <2>1, <2>2, <2>3 DEF NoLostWork
<1>4. ASSUME NEW w \in Worker,
             Abandon(w) \/ Poll(w) \/ DequeueNothing(w) \/ LookupFindsNone(w)
      PROVE  NoLostWork'
  BY <1>4 DEF Abandon, Poll, DequeueNothing, LookupFindsNone, NoLostWork
<1>5. ASSUME NEW w \in Worker, OpenPr(w) PROVE NoLostWork'
  BY <1>5 DEF OpenPr, NoLostWork, TypeOK, RunId
<1>6. ASSUME NEW j \in RunId, ClosePr(j) PROVE NoLostWork'
  BY <1>6 DEF ClosePr, NoLostWork, TypeOK, RunId
<1>7. CASE Tick
  <2>1. queue \in Seq(Row) /\ prs' = prs
        /\ queue' = [j \in DOMAIN queue |-> [queue[j] EXCEPT !.left = Less(@)]]
    BY <1>7 DEF Tick, TypeOK
  <2>2. \A j \in DOMAIN queue : queue[j] \in Row
    BY <2>1
  <2>3. \A j \in DOMAIN queue : queue'[j] = [queue[j] EXCEPT !.left = Less(@)]
    BY <2>1
  <2>4. DOMAIN queue' = DOMAIN queue
    BY <2>1
  <2> QED
    BY <2>1, <2>2, <2>3, <2>4, RowElapse DEF NoLostWork
<1>8. CASE UNCHANGED <<queue, locked, prs, workers>>
  BY <1>8 DEF NoLostWork
<1> QED
  BY <1>1, <1>2, <1>3, <1>4, <1>5, <1>6, <1>7, <1>8, StepCases

-----------------------------------------------------------------------------

(* With timely workers, what each of them holds is what the table says it    *)
(* holds: the row is under the lease it was granted, nobody else has it, and *)
(* the retry counts agree.                                                   *)
Held(w) ==
  Busy(w) => /\ term[w] > 0
             /\ queue[job[w]].status = "processing"
             /\ queue[job[w]].left = term[w]
             /\ seen[w] = queue[job[w]].retries

LeaseInv ==
  /\ \A w \in Worker : Held(w)
  /\ \A v, w \in Worker : Busy(v) /\ Busy(w) /\ job[v] = job[w] => v = w
  /\ \A j \in DOMAIN queue : queue[j].retries <= MaxRetries

(* A row whose lease still runs is not due.                                  *)
LEMMA HeldIsNotDue ==
  ASSUME TypeOK, LeaseInv, NEW w \in Worker, Busy(w)
  PROVE  ~Due(queue[job[w]])
<1>1. queue[job[w]].left = term[w] /\ term[w] > 0 /\ term[w] \in Nat
  BY DEF LeaseInv, Held, TypeOK
<1> QED
  BY <1>1 DEF Due

(* A step that leaves the rows alone and makes no worker busy.               *)
LEMMA LeaseFrame ==
  ASSUME TypeOK, LeaseInv, queue' = queue,
         \A v \in Worker : Busy(v)' => /\ Busy(v)
                                       /\ job'[v] = job[v]
                                       /\ seen'[v] = seen[v]
                                       /\ term'[v] = term[v]
  PROVE  LeaseInv'
  BY DEF LeaseInv, Held

LEMMA LeaseStep ==
  ASSUME ~Overrun
  PROVE  TypeOK /\ LeaseInv /\ [Next]_vars => LeaseInv'
<1> SUFFICES ASSUME TypeOK, LeaseInv, [Next]_vars PROVE LeaseInv'
  OBVIOUS
<1>1. ASSUME NEW i \in Issue, Enqueue(i) PROVE LeaseInv'
  <2> DEFINE new == [status |-> "pending", retries |-> 0, left |-> 0]
  <2>1. new \in Row /\ new.retries <= MaxRetries
    BY DEF Row, MaxRetries
  <2>2. queue' = Append(queue, new) /\ queue \in Seq(Row) /\ UNCHANGED workers
    BY <1>1 DEF Enqueue, TypeOK
  <2> HIDE DEF new
  <2>3. /\ DOMAIN queue' = DOMAIN queue \cup {Len(queue) + 1}
        /\ \A j \in DOMAIN queue : queue'[j] = queue[j]
        /\ queue'[Len(queue) + 1] = new
    BY <2>1, <2>2, RowsAppend
  <2>4. \A v \in Worker : Busy(v)' => Busy(v) /\ job'[v] = job[v] /\ job[v] \in DOMAIN queue
    BY <2>2 DEF workers, Busy, TypeOK
  <2> QED
    BY <2>1, <2>2, <2>3, <2>4 DEF LeaseInv, Held, workers
<1>2. ASSUME NEW w \in Worker, Dequeue(w) PROVE LeaseInv'
  <2> PICK j \in OldestDue : /\ queue' = [queue EXCEPT ![j] = Taken(@)]
                             /\ job' = [job EXCEPT ![w] = j]
                             /\ seen' = [seen EXCEPT ![w] = Taken(queue[j]).retries]
                             /\ term' = [term EXCEPT ![w] = LeaseTime]
    BY <1>2 DEF Dequeue
  <2>1. j \in DOMAIN queue /\ queue \in Seq(Row) /\ queue[j] \in Row /\ Due(queue[j])
    BY DEF OldestDue, TypeOK
  <2>2. \A v \in Worker : Busy(v) => job[v] # j
    BY <2>1, HeldIsNotDue
  <2>3. pc' = [pc EXCEPT ![w] = "checking"]
    BY <1>2 DEF Dequeue
  <2>4. \A v \in Worker \ {w} :
          /\ job'[v] = job[v] /\ seen'[v] = seen[v] /\ term'[v] = term[v]
          /\ Busy(v)' <=> Busy(v)
    BY <2>3 DEF TypeOK, Busy
  <2>5. /\ job'[w] = j /\ seen'[w] = Taken(queue[j]).retries /\ term'[w] = LeaseTime
        /\ queue'[j] = Taken(queue[j])
        /\ \A k \in DOMAIN queue \ {j} : queue'[k] = queue[k]
        /\ DOMAIN queue' = DOMAIN queue
    BY <2>1 DEF TypeOK
  <2>6. /\ Taken(queue[j]).status = "processing"
        /\ Taken(queue[j]).left = LeaseTime
        /\ LeaseTime > 0
    BY <2>1, TakenRow
  <2>7. Taken(queue[j]).retries <= MaxRetries
    <3>1. queue[j].retries <= MaxRetries /\ queue[j].retries \in Nat
      BY <2>1 DEF LeaseInv, Row
    <3>2. queue[j].status = "processing" => queue[j].retries < MaxRetries
      BY <2>1 DEF Due
    <3> QED
      BY <2>1, <3>1, <3>2, TakenRow DEF MaxRetries
  <2>8. \A v \in Worker : Held(v)'
    <3>1. Held(w)'
      BY <2>5, <2>6 DEF Held
    <3>2. ASSUME NEW v \in Worker \ {w} PROVE Held(v)'
      <4>1. Busy(v) => job[v] \in DOMAIN queue \ {j}
        BY <2>2 DEF TypeOK
      <4>2. Held(v)
        BY DEF LeaseInv
      <4> QED
        BY <2>4, <2>5, <4>1, <4>2 DEF Held
    <3> QED
      BY <3>1, <3>2
  <2>9. \A u, v \in Worker : Busy(u)' /\ Busy(v)' /\ job'[u] = job'[v] => u = v
    BY <2>2, <2>4, <2>5 DEF LeaseInv
  <2>10. \A k \in DOMAIN queue' : queue'[k].retries <= MaxRetries
    BY <2>5, <2>7 DEF LeaseInv
  <2> QED
    BY <2>8, <2>9, <2>10 DEF LeaseInv
<1>3. ASSUME NEW w \in Worker, Finish(w) PROVE LeaseInv'
  <2> PICK row \in Row :
        /\ Busy(w) /\ Update(w, row) /\ Release(w)
        /\ row.retries \in {queue[job[w]].retries, queue[job[w]].retries + 1}
        /\ row.retries # queue[job[w]].retries => seen[w] < 2
    BY <1>3 DEF Finish
  <2>1. job[w] \in DOMAIN queue /\ queue \in Seq(Row) /\ queue[job[w]] \in Row
    BY DEF TypeOK
  <2>2. /\ queue'[job[w]] = row
        /\ \A k \in DOMAIN queue \ {job[w]} : queue'[k] = queue[k]
        /\ DOMAIN queue' = DOMAIN queue
    BY <2>1 DEF Update
  <2>3. row.retries <= MaxRetries
    <3>1. queue[job[w]].retries \in Nat /\ queue[job[w]].retries <= MaxRetries
      BY <2>1 DEF LeaseInv, Row
    <3>2. seen[w] = queue[job[w]].retries
      BY DEF LeaseInv, Held
    <3> QED
      BY <3>1, <3>2 DEF MaxRetries
  <2>4. \A v \in Worker :
          Busy(v)' => /\ v # w /\ Busy(v)
                      /\ job'[v] = job[v] /\ seen'[v] = seen[v] /\ term'[v] = term[v]
    BY DEF Release, Busy, TypeOK
  <2>5. \A v \in Worker : Busy(v)' => job[v] \in DOMAIN queue \ {job[w]}
    BY <2>4 DEF LeaseInv, TypeOK
  <2>6. \A v \in Worker : Held(v)'
    BY <2>2, <2>4, <2>5 DEF LeaseInv, Held
  <2>7. \A u, v \in Worker : Busy(u)' /\ Busy(v)' /\ job'[u] = job'[v] => u = v
    BY <2>4 DEF LeaseInv
  <2> QED
    BY <2>2, <2>3, <2>6, <2>7 DEF LeaseInv
<1>4. ASSUME NEW w \in Worker, Abandon(w) PROVE LeaseInv'
  BY <1>4, LeaseFrame DEF Abandon, Release, Busy, TypeOK
<1>5. ASSUME NEW w \in Worker, Poll(w) \/ DequeueNothing(w) \/ LookupFindsNone(w)
      PROVE  LeaseInv'
  BY <1>5, LeaseFrame DEF Poll, DequeueNothing, LookupFindsNone, Busy, TypeOK
<1>6. ASSUME NEW w \in Worker, OpenPr(w) PROVE LeaseInv'
  BY <1>6, LeaseFrame DEF OpenPr, Busy, workers
<1>7. ASSUME NEW j \in RunId, ClosePr(j) PROVE LeaseInv'
  BY <1>7, LeaseFrame DEF ClosePr, Busy, workers
<1>8. CASE Tick
  <2>1. /\ queue \in Seq(Row)
        /\ queue' = [j \in DOMAIN queue |-> [queue[j] EXCEPT !.left = Less(@)]]
        /\ term' = [v \in Worker |-> Less(term[v])]
        /\ UNCHANGED <<pc, job, seen>>
        /\ \A v \in Worker : Busy(v) => term[v] > 1
    BY <1>8 DEF Tick, TypeOK
  <2>2. /\ DOMAIN queue' = DOMAIN queue
        /\ \A j \in DOMAIN queue : /\ queue'[j].status = queue[j].status
                                   /\ queue'[j].retries = queue[j].retries
                                   /\ queue'[j].left = Less(queue[j].left)
    <3>1. \A j \in DOMAIN queue : queue[j] \in Row
      BY <2>1
    <3>2. \A j \in DOMAIN queue : queue'[j] = [queue[j] EXCEPT !.left = Less(@)]
      BY <2>1
    <3>3. DOMAIN queue' = DOMAIN queue
      BY <2>1
    <3> QED
      BY <3>1, <3>2, <3>3, RowElapse
  <2>3. \A v \in Worker : Busy(v) => job[v] \in DOMAIN queue /\ term[v] \in Nat
    BY DEF TypeOK
  <2>4. \A n \in Nat : n > 1 => Less(n) > 0
    BY DEF Less
  <2>5. ASSUME NEW v \in Worker PROVE Held(v)'
    <3>1. Busy(v)' <=> Busy(v)
      BY <2>1 DEF Busy
    <3>2. Busy(v) => Less(term[v]) > 0
      BY <2>1, <2>3, <2>4
    <3>3. Held(v)
      BY DEF LeaseInv
    <3> QED
      BY <2>1, <2>2, <2>3, <3>1, <3>2, <3>3 DEF Held
  <2> QED
    BY <2>1, <2>2, <2>5 DEF LeaseInv, Busy
<1>9. CASE UNCHANGED <<queue, locked, prs, workers>>
  BY <1>9, LeaseFrame DEF Busy, workers
<1> QED
  BY <1>1, <1>2, <1>3, <1>4, <1>5, <1>6, <1>7, <1>8, <1>9, StepCases

LEMMA LeaseInvariant ==
  ASSUME ~Overrun
  PROVE  Spec => []LeaseInv
<1>1. Init => LeaseInv
  BY DEF Init, LeaseInv, Held, Busy
<1>2. TypeOK /\ LeaseInv /\ [Next]_vars => LeaseInv'
  BY LeaseStep
<1> QED
  BY <1>1, <1>2, QueueTypeCorrect, PTL DEF Spec

(* Timely workers: two workers never hold one job (dequeue_issue is atomic,  *)
(* and the lease hides the row until its holder is done).                    *)
THEOREM QueueLeaseIsExclusive ==
  ASSUME ~Overrun
  PROVE  Spec => []ExclusiveLease
<1>1. LeaseInv => ExclusiveLease
  BY DEF LeaseInv, ExclusiveLease
<1> QED
  BY <1>1, LeaseInvariant, PTL

(* Timely workers: retries stays at most 3 and the value worker_loop decides *)
(* by is the one in the table.                                               *)
THEOREM QueueRetriesInStep ==
  ASSUME ~Overrun
  PROVE  Spec => []RetriesInStep
<1>1. LeaseInv => RetriesInStep
  BY DEF LeaseInv, Held, RetriesInStep
<1> QED
  BY <1>1, LeaseInvariant, PTL

-----------------------------------------------------------------------------

Settling == \A j \in DOMAIN queue :
              queue[j].status \in {"completed", "dead_letter"}
                => queue'[j].status = queue[j].status

LEMMA SettledStep ==
  TypeOK /\ LeaseInv /\ [Next]_vars => Settling
<1> SUFFICES ASSUME TypeOK, LeaseInv, [Next]_vars PROVE Settling
  OBVIOUS
<1>1. ASSUME NEW i \in Issue, Enqueue(i) PROVE Settling
  BY <1>1 DEF Enqueue, TypeOK, Settling
<1>2. ASSUME NEW w \in Worker, Dequeue(w) PROVE Settling
  <2> PICK j \in OldestDue : queue' = [queue EXCEPT ![j] = Taken(@)]
    BY <1>2 DEF Dequeue
  <2>1. queue[j].status \notin {"completed", "dead_letter"}
    BY DEF OldestDue, Due
  <2> QED
    BY <2>1 DEF Settling, TypeOK
<1>3. ASSUME NEW w \in Worker, Finish(w) PROVE Settling
  <2>1. queue[job[w]].status = "processing"
    BY <1>3 DEF Finish, LeaseInv, Held
  <2>2. \A k \in DOMAIN queue \ {job[w]} : queue'[k] = queue[k]
    BY <1>3 DEF Finish, Update, TypeOK
  <2> QED
    BY <2>1, <2>2 DEF Settling
<1>4. ASSUME NEW w \in Worker,
             Abandon(w) \/ Poll(w) \/ DequeueNothing(w) \/ LookupFindsNone(w) \/ OpenPr(w)
      PROVE  Settling
  BY <1>4 DEF Abandon, Poll, DequeueNothing, LookupFindsNone, OpenPr, Settling
<1>5. ASSUME NEW j \in RunId, ClosePr(j) PROVE Settling
  BY <1>5 DEF ClosePr, Settling
<1>6. CASE Tick
  <2>1. \A j \in DOMAIN queue : queue[j] \in Row
    BY DEF TypeOK
  <2>2. \A j \in DOMAIN queue : queue'[j] = [queue[j] EXCEPT !.left = Less(@)]
    BY <1>6 DEF Tick
  <2> QED
    BY <2>1, <2>2, RowElapse DEF Settling
<1>7. CASE UNCHANGED <<queue, locked, prs, workers>>
  BY <1>7 DEF Settling
<1> QED
  BY <1>1, <1>2, <1>3, <1>4, <1>5, <1>6, <1>7, StepCases

(* Timely workers: no UPDATE brings a completed or dead job back, although   *)
(* none of them looks at the status it overwrites.                           *)
THEOREM QueueSettledIsFinal ==
  ASSUME ~Overrun
  PROVE  Spec => SettledIsFinal
<1>1. TypeOK /\ LeaseInv /\ [Next]_vars => [Settling]_vars
  BY SettledStep
<1> QED
  BY <1>1, LeaseInvariant, QueueTypeCorrect, PTL DEF Spec, SettledIsFinal, Settling

-----------------------------------------------------------------------------

(* The workers that would still add to a job's retry count if they failed:   *)
(* worker_loop decides by the value it was given, not by the table.          *)
Adders(j) == {w \in Worker : Busy(w) /\ job[w] = j /\ seen[w] < 2}

(* The count a job could reach if all of them failed is within the bound.    *)
RetryInv ==
  \A j \in DOMAIN queue :
    queue[j].retries + Cardinality(Adders(j)) <= Cardinality(Worker) + 2

LEMMA SomeWorkers ==
  ASSUME NEW S \in SUBSET Worker
  PROVE  /\ IsFiniteSet(S) /\ Cardinality(S) \in Nat
         /\ Cardinality(Worker) \in Nat
         /\ Cardinality(S) <= Cardinality(Worker)
         /\ \A w \in Worker \ S : Cardinality(S) < Cardinality(Worker)
         /\ \A w \in S : Cardinality(S \ {w}) = Cardinality(S) - 1
         /\ \A T \in SUBSET S : Cardinality(T) <= Cardinality(S)
<1>1. IsFiniteSet(Worker) /\ IsFiniteSet(S) /\ Cardinality(S) <= Cardinality(Worker)
      /\ (Cardinality(Worker) = Cardinality(S) => Worker = S)
  BY FS_Subset
<1>2. Cardinality(S) \in Nat /\ Cardinality(Worker) \in Nat
  BY <1>1, FS_CardinalityType
<1>3. \A w \in S : Cardinality(S \ {w}) = Cardinality(S) - 1
  BY <1>1, FS_RemoveElement
<1>4. \A T \in SUBSET S : Cardinality(T) <= Cardinality(S)
  BY <1>1, FS_Subset
<1>5. \A w \in Worker \ S : Cardinality(S) < Cardinality(Worker)
  BY <1>1, <1>2
<1> QED
  BY <1>1, <1>2, <1>3, <1>4, <1>5

LEMMA RetryCounts ==
  ASSUME TypeOK
  PROVE  \A j \in DOMAIN queue : queue[j] \in Row /\ queue[j].retries \in Nat
<1>1. \A j \in DOMAIN queue : queue[j] \in Row
  BY DEF TypeOK
<1> QED
  BY <1>1 DEF Row

(* A step that gives no job a higher count and nobody a job.                 *)
LEMMA RetryFrame ==
  ASSUME TypeOK, RetryInv, DOMAIN queue' = DOMAIN queue,
         \A j \in DOMAIN queue : queue'[j].retries = queue[j].retries,
         \A v \in Worker : Busy(v)' => Busy(v) /\ job'[v] = job[v] /\ seen'[v] = seen[v]
  PROVE  RetryInv'
<1> SUFFICES ASSUME NEW j \in DOMAIN queue
             PROVE  queue[j].retries + Cardinality(Adders(j)') <= Cardinality(Worker) + 2
  BY DEF RetryInv
<1>1. Adders(j)' \in SUBSET Adders(j) /\ Adders(j) \in SUBSET Worker /\ Adders(j)' \in SUBSET Worker
  BY DEF Adders
<1>2. Cardinality(Adders(j)') <= Cardinality(Adders(j))
      /\ Cardinality(Adders(j)) \in Nat /\ Cardinality(Adders(j)') \in Nat /\ Cardinality(Worker) \in Nat
  BY <1>1, SomeWorkers
<1>3. queue[j].retries \in Nat
  BY RetryCounts
<1> QED
  BY <1>2, <1>3 DEF RetryInv

LEMMA RetryStep ==
  TypeOK /\ RetryInv /\ [Next]_vars => RetryInv'
<1> SUFFICES ASSUME TypeOK, RetryInv, [Next]_vars PROVE RetryInv'
  OBVIOUS
<1>1. ASSUME NEW i \in Issue, Enqueue(i) PROVE RetryInv'
  <2> DEFINE new == [status |-> "pending", retries |-> 0, left |-> 0]
  <2>1. new \in Row /\ new.retries = 0
    BY DEF Row
  <2>2. queue' = Append(queue, new) /\ queue \in Seq(Row) /\ UNCHANGED workers
    BY <1>1 DEF Enqueue, TypeOK
  <2> HIDE DEF new
  <2>3. /\ DOMAIN queue' = DOMAIN queue \cup {Len(queue) + 1}
        /\ \A j \in DOMAIN queue : queue'[j] = queue[j]
        /\ queue'[Len(queue) + 1] = new
    BY <2>1, <2>2, RowsAppend
  <2>4. \A j : Adders(j)' = Adders(j)
    BY <2>2 DEF Adders, Busy, workers
  <2>5. Cardinality(Adders(Len(queue) + 1)) <= Cardinality(Worker)
        /\ Cardinality(Adders(Len(queue) + 1)) \in Nat /\ Cardinality(Worker) \in Nat
    BY SomeWorkers DEF Adders
  <2> QED
    BY <2>1, <2>3, <2>4, <2>5 DEF RetryInv
<1>2. ASSUME NEW w \in Worker, Dequeue(w) PROVE RetryInv'
  <2> PICK j \in OldestDue : /\ queue' = [queue EXCEPT ![j] = Taken(@)]
                             /\ job' = [job EXCEPT ![w] = j]
                             /\ seen' = [seen EXCEPT ![w] = Taken(queue[j]).retries]
    BY <1>2 DEF Dequeue
  <2> DEFINE now == Taken(queue[j]).retries
  <2>1. j \in DOMAIN queue /\ queue \in Seq(Row) /\ queue[j] \in Row /\ Due(queue[j])
    BY DEF OldestDue, TypeOK
  <2>2. pc' = [pc EXCEPT ![w] = "checking"] /\ ~Busy(w)
    BY <1>2 DEF Dequeue, Busy
  <2>3. /\ queue[j].retries \in Nat /\ now \in {queue[j].retries, queue[j].retries + 1}
        /\ now # queue[j].retries => queue[j].retries < 3
    BY <2>1, TakenRow DEF Row, Due, MaxRetries
  <2>4. \A v \in Worker \ {w} :
          job'[v] = job[v] /\ seen'[v] = seen[v] /\ (Busy(v)' <=> Busy(v))
    BY <2>2 DEF TypeOK, Busy
  <2>5. /\ job'[w] = j /\ seen'[w] = now /\ queue'[j] = Taken(queue[j])
        /\ \A k \in DOMAIN queue \ {j} : queue'[k] = queue[k]
        /\ DOMAIN queue' = DOMAIN queue
    BY <2>1 DEF TypeOK
  <2>6. ASSUME NEW k \in DOMAIN queue \ {j}
        PROVE  queue'[k].retries + Cardinality(Adders(k)') <= Cardinality(Worker) + 2
    <3>1. Adders(k)' = Adders(k)
      BY <2>2, <2>4, <2>5 DEF Adders
    <3> QED
      BY <2>5, <3>1 DEF RetryInv
  <2>7. now + Cardinality(Adders(j)') <= Cardinality(Worker) + 2
    <3>1. /\ Cardinality(Adders(j)) \in Nat /\ Cardinality(Adders(j)') \in Nat
          /\ Cardinality(Worker) \in Nat
          /\ Cardinality(Adders(j)) < Cardinality(Worker)
          /\ Cardinality(Adders(j)') <= Cardinality(Worker)
      <4>1. Adders(j) \in SUBSET Worker /\ Adders(j)' \in SUBSET Worker /\ w \notin Adders(j)
        BY <2>2 DEF Adders
      <4> QED
        BY <4>1, SomeWorkers
    <3>2. CASE now < 2
      BY <2>3, <3>1, <3>2
    <3>3. CASE ~(now < 2)
      <4>1. Adders(j)' = Adders(j)
        BY <2>2, <2>4, <2>5, <3>3 DEF Adders
      <4>2. queue[j].retries + Cardinality(Adders(j)) <= Cardinality(Worker) + 2
        BY <2>1 DEF RetryInv
      <4> HIDE DEF now
      <4> QED
        BY <2>3, <3>1, <4>1, <4>2
    <3> QED
      BY <3>2, <3>3
  <2> QED
    BY <2>5, <2>6, <2>7 DEF RetryInv
<1>3. ASSUME NEW w \in Worker, Finish(w) PROVE RetryInv'
  <2> PICK row \in Row :
        /\ Busy(w) /\ Update(w, row) /\ Release(w)
        /\ row.retries \in {queue[job[w]].retries, queue[job[w]].retries + 1}
        /\ row.retries # queue[job[w]].retries => seen[w] < 2
    BY <1>3 DEF Finish
  <2>1. job[w] \in DOMAIN queue /\ queue \in Seq(Row) /\ queue[job[w]].retries \in Nat
    BY RetryCounts DEF TypeOK
  <2>2. /\ queue'[job[w]] = row
        /\ \A k \in DOMAIN queue \ {job[w]} : queue'[k] = queue[k]
        /\ DOMAIN queue' = DOMAIN queue
    BY <2>1 DEF Update
  <2>3. \A v \in Worker :
          Busy(v)' => v # w /\ Busy(v) /\ job'[v] = job[v] /\ seen'[v] = seen[v]
    BY DEF Release, Busy, TypeOK
  <2>4. ASSUME NEW k \in DOMAIN queue
        PROVE  queue'[k].retries + Cardinality(Adders(k)') <= Cardinality(Worker) + 2
    <3>1. Adders(k)' \in SUBSET (Adders(k) \ {w}) /\ Adders(k) \in SUBSET Worker
      BY <2>3 DEF Adders
    <3>2. /\ Cardinality(Adders(k)') \in Nat /\ Cardinality(Adders(k)) \in Nat
          /\ Cardinality(Worker) \in Nat
          /\ Cardinality(Adders(k)') <= Cardinality(Adders(k))
          /\ w \in Adders(k) => Cardinality(Adders(k)') <= Cardinality(Adders(k)) - 1
      <4>1. /\ Adders(k)' \in SUBSET Adders(k) /\ Adders(k)' \in SUBSET Worker
            /\ Adders(k) \ {w} \in SUBSET Worker
        BY <3>1
      <4> QED
        BY <3>1, <4>1, SomeWorkers
    <3>3. queue[k].retries + Cardinality(Adders(k)) <= Cardinality(Worker) + 2
      BY DEF RetryInv
    <3>4. CASE k # job[w]
      <4>1. queue'[k].retries = queue[k].retries /\ queue[k].retries \in Nat
        BY <2>2, <3>4, RetryCounts
      <4> QED
        BY <3>2, <3>3, <4>1
    <3>5. CASE k = job[w] /\ row.retries = queue[job[w]].retries
      BY <2>1, <2>2, <3>2, <3>3, <3>5
    <3>6. CASE k = job[w] /\ row.retries # queue[job[w]].retries
      <4>1. w \in Adders(k) /\ row.retries = queue[job[w]].retries + 1
        BY <3>6 DEF Adders
      <4>2. queue'[k].retries = queue[k].retries + 1 /\ queue[k].retries \in Nat
        BY <2>1, <2>2, <3>6, <4>1
      <4> QED
        BY <3>2, <3>3, <4>1, <4>2
    <3> QED
      BY <3>4, <3>5, <3>6
  <2> QED
    BY <2>2, <2>4 DEF RetryInv
<1>4. ASSUME NEW w \in Worker, Abandon(w) PROVE RetryInv'
  BY <1>4, RetryFrame DEF Abandon, Release, Busy, TypeOK
<1>5. ASSUME NEW w \in Worker, Poll(w) \/ DequeueNothing(w) \/ LookupFindsNone(w)
      PROVE  RetryInv'
  BY <1>5, RetryFrame DEF Poll, DequeueNothing, LookupFindsNone, Busy, TypeOK
<1>6. ASSUME NEW w \in Worker, OpenPr(w) PROVE RetryInv'
  BY <1>6, RetryFrame DEF OpenPr, Busy, workers
<1>7. ASSUME NEW j \in RunId, ClosePr(j) PROVE RetryInv'
  BY <1>7, RetryFrame DEF ClosePr, Busy, workers
<1>8. CASE Tick
  <2>1. \A j \in DOMAIN queue : queue[j] \in Row
    BY DEF TypeOK
  <2>2. /\ DOMAIN queue' = DOMAIN queue
        /\ \A j \in DOMAIN queue : queue'[j] = [queue[j] EXCEPT !.left = Less(@)]
    BY <1>8 DEF Tick, TypeOK
  <2>3. \A j \in DOMAIN queue : queue'[j].retries = queue[j].retries
    BY <2>1, <2>2, RowElapse
  <2>4. UNCHANGED <<pc, job, seen>>
    BY <1>8 DEF Tick
  <2> QED
    BY <2>2, <2>3, <2>4, RetryFrame DEF Busy
<1>9. CASE UNCHANGED <<queue, locked, prs, workers>>
  BY <1>9, RetryFrame DEF Busy, workers
<1> QED
  BY <1>1, <1>2, <1>3, <1>4, <1>5, <1>6, <1>7, <1>8, <1>9, StepCases

(* Also when leases are outlived and UPDATEs come late, a job's retry count  *)
(* stays within two of the number of workers.                                *)
THEOREM QueueRetriesBounded == Spec => []RetriesBounded
<1>1. Init => RetryInv
  BY DEF Init, RetryInv
<1>2. TypeOK /\ RetryInv => RetriesBounded
  <2> SUFFICES ASSUME TypeOK, RetryInv, NEW j \in DOMAIN queue
               PROVE  queue[j].retries <= Cardinality(Worker) + 2
    BY DEF RetriesBounded
  <2>1. Cardinality(Adders(j)) \in Nat /\ Cardinality(Worker) \in Nat
    BY SomeWorkers DEF Adders
  <2>2. queue[j].retries \in Nat
    BY RetryCounts
  <2> QED
    BY <2>1, <2>2 DEF RetryInv
<1> QED
  BY <1>1, <1>2, RetryStep, QueueTypeCorrect, PTL DEF Spec

=============================================================================
