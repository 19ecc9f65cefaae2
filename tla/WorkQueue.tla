------------------------------ MODULE WorkQueue ------------------------------
(***************************************************************************)
(* The SQLite work queue of orchestrator/storage/work_queue.py and the     *)
(* worker loop that drains it.                                             *)
(*                                                                         *)
(* A webhook enqueues an issue unless the issue's lock is still held.      *)
(* Workers poll: while a stored circuit breaker is open they only sleep,   *)
(* otherwise they take the oldest due job under a one hour lease, look for *)
(* an open pull request of the run, run the pipeline, and record how it    *)
(* ended by an UPDATE on the run id alone.  A worker may die at any point, *)
(* or be so slow that its lease runs out while it still works.             *)
(*                                                                         *)
(* A deadline in the database is kept as the time left until it; Tick lets *)
(* one unit pass for all of them.  queue.db's id order is the order of the *)
(* sequence, and created_at never contradicts it.                          *)
(***************************************************************************)
EXTENDS Naturals, Sequences, FiniteSets

CONSTANTS
  Worker,           \* worker processes
  Issue,            \* (repo, issue_number) pairs
  MaxJobs,          \* bound on the number of jobs ever enqueued
  LeaseTime,        \* lease_expires_at: one hour
  LockTime,         \* issue_lock.locked_until: 24 hours
  PrDelay,          \* rescheduling after a failed pull request lookup
  BreakerDelay,     \* rescheduling after CircuitBreakerOpenError
  Backoff,          \* BACKOFF_MINUTES
  ExternalCallers,  \* TRUE: processes other than workers call the providers
  Overrun           \* TRUE: a worker may outlive its lease

ASSUME QueueAssumption ==
  /\ IsFiniteSet(Worker)
  /\ MaxJobs \in Nat
  /\ LeaseTime \in Nat \ {0}
  /\ LockTime \in Nat
  /\ PrDelay \in Nat
  /\ BreakerDelay \in Nat
  /\ Backoff \in [1 .. 3 -> Nat]
  /\ ExternalCallers \in BOOLEAN
  /\ Overrun \in BOOLEAN

VARIABLES
  queue,    \* the work_queue table, in id order
  locked,   \* issue -> time until enqueue_issue may replace its lock
  prs,      \* run -> its pull request on GitHub
  breaker,  \* the provider's state in cb_state
  pc,       \* where each worker is in worker_loop
  job,      \* the run each worker holds (0: none)
  seen,     \* the retries value returned to it by dequeue_issue
  term      \* what is left of the lease it was granted

workers == <<pc, job, seen, term>>
vars == <<queue, locked, prs, breaker, workers>>

-----------------------------------------------------------------------------

RunId == 1 .. MaxJobs
MaxRetries == 3

(* left: until scheduled_after while pending, until lease_expires_at while   *)
(* processing; a deadline the status does not read is dropped.               *)
Row == [status : {"pending", "processing", "completed", "dead_letter"},
        retries : Nat,
        left : Nat]

Busy(w) == pc[w] \in {"checking", "running"}

(* The WHERE clause of dequeue_issue. *)
Due(row) ==
  /\ row.left = 0
  /\ \/ row.status = "pending"
     \/ row.status = "processing" /\ row.retries < MaxRetries

(* The SET clause of dequeue_issue. *)
Taken(row) ==
  [row EXCEPT !.status = "processing",
              !.left = LeaseTime,
              !.retries = IF row.status = "processing" THEN @ + 1 ELSE @]

(* Seeded fault: the lease is not looked at. *)
OldestIgnoringLease ==
  {j \in DOMAIN queue : queue[j].status \in {"pending", "processing"}}

(* Seeded fault: a job left behind by a dead worker is never looked at. *)
OldestPending ==
  {j \in DOMAIN queue :
     /\ Due(queue[j]) /\ queue[j].status = "pending"
     /\ \A k \in 1 .. j - 1 : ~Due(queue[k])}

(* ORDER BY created_at, id LIMIT 1: a singleton, or empty. *)
OldestDue ==
  {j \in DOMAIN queue : /\ Due(queue[j])
                        /\ \A k \in 1 .. j - 1 : ~Due(queue[k])}

Less(n) == IF n > 0 THEN n - 1 ELSE 0

(* The worker is done with its job and goes back to the top of the loop. *)
Release(w) ==
  /\ pc' = [pc EXCEPT ![w] = "poll"]
  /\ job' = [job EXCEPT ![w] = 0]
  /\ seen' = [seen EXCEPT ![w] = 0]
  /\ term' = [term EXCEPT ![w] = 0]

(* UPDATE work_queue SET ... WHERE run_id = ?, whatever the row now says. *)
Update(w, row) == queue' = [queue EXCEPT ![job[w]] = row]

Rescheduled(w, delay) ==
  [queue[job[w]] EXCEPT !.status = "pending", !.left = delay]

Settled(w, status) == [queue[job[w]] EXCEPT !.status = status, !.left = 0]

-----------------------------------------------------------------------------

Init ==
  /\ queue = <<>>
  /\ locked = [i \in Issue |-> 0]
  /\ prs = [j \in RunId |-> "none"]
  /\ breaker = "closed"
  /\ pc = [w \in Worker |-> "poll"]
  /\ job = [w \in Worker |-> 0]
  /\ seen = [w \in Worker |-> 0]
  /\ term = [w \in Worker |-> 0]

(* enqueue_issue: the issue's lock is fresh or was passed (locked_until < now *)
(* is strict, hence one unit more than LockTime).                             *)
Enqueue(i) ==
  /\ Len(queue) < MaxJobs
  /\ locked[i] = 0
  /\ locked' = [locked EXCEPT ![i] = LockTime + 1]
  /\ queue' = Append(queue, [status |-> "pending", retries |-> 0, left |-> 0])
  /\ UNCHANGED <<prs, breaker, workers>>

(* The top of the loop finds a breaker open: sleep and look again. *)
Backpressure(w) ==
  /\ pc[w] = "poll"
  /\ breaker = "open"
  /\ UNCHANGED vars

Poll(w) ==
  /\ pc[w] = "poll"
  /\ breaker # "open"
  /\ pc' = [pc EXCEPT ![w] = "ready"]
  /\ UNCHANGED <<queue, locked, prs, breaker, job, seen, term>>

(* dequeue_issue, one atomic UPDATE ... RETURNING. *)
Dequeue(w) ==
  /\ pc[w] = "ready"
  /\ \E j \in OldestDue :
       /\ queue' = [queue EXCEPT ![j] = Taken(@)]
       /\ job' = [job EXCEPT ![w] = j]
       /\ seen' = [seen EXCEPT ![w] = Taken(queue[j]).retries]
       /\ term' = [term EXCEPT ![w] = LeaseTime]
  /\ pc' = [pc EXCEPT ![w] = "checking"]
  /\ UNCHANGED <<locked, prs, breaker>>

(* Seeded fault: the result of dequeue_issue is not tested for None. *)
DequeueNothingProceeds(w) ==
  /\ pc[w] = "ready"
  /\ OldestDue = {}
  /\ pc' = [pc EXCEPT ![w] = "checking"]
  /\ UNCHANGED <<queue, locked, prs, breaker, job, seen, term>>

DequeueNothing(w) ==
  /\ pc[w] = "ready"
  /\ OldestDue = {}
  /\ pc' = [pc EXCEPT ![w] = "poll"]
  /\ UNCHANGED <<queue, locked, prs, breaker, job, seen, term>>

(* get_pr_for_branch raises. *)
LookupFails(w) ==
  /\ pc[w] = "checking"
  /\ Update(w, Rescheduled(w, PrDelay))
  /\ Release(w)
  /\ UNCHANGED <<locked, prs, breaker>>

(* get_pr_for_branch finds an open pull request: the work was done before. *)
LookupFindsPr(w) ==
  /\ pc[w] = "checking"
  /\ prs[job[w]] = "open"
  /\ Update(w, Settled(w, "completed"))
  /\ Release(w)
  /\ UNCHANGED <<locked, prs, breaker>>

(* Seeded fault: the answer of the lookup is not used. *)
LookupIgnored(w) ==
  /\ pc[w] = "checking"
  /\ pc' = [pc EXCEPT ![w] = "running"]
  /\ UNCHANGED <<queue, locked, prs, breaker, job, seen, term>>

LookupFindsNone(w) ==
  /\ pc[w] = "checking"
  /\ prs[job[w]] # "open"
  /\ pc' = [pc EXCEPT ![w] = "running"]
  /\ UNCHANGED <<queue, locked, prs, breaker, job, seen, term>>

(* The apply stage of the pipeline opens the run's pull request. *)
OpenPr(w) ==
  /\ pc[w] = "running"
  /\ prs[job[w]] # "open"
  /\ prs' = [prs EXCEPT ![job[w]] = "open"]
  /\ UNCHANGED <<queue, locked, breaker, workers>>

(* A pull request is merged or closed on GitHub, or closed by the recovery  *)
(* of the apply stage before it starts over.                                *)
ClosePr(j) ==
  /\ prs[j] = "open"
  /\ prs' = [prs EXCEPT ![j] = "closed"]
  /\ UNCHANGED <<queue, locked, breaker, workers>>

(* The pipeline returned: the job is acknowledged, and nothing is tested     *)
(* here.  What that says of its pull request is the pipeline's affair        *)
(* (WorkerPipeline).                                                         *)
Complete(w) ==
  /\ pc[w] = "running"
  /\ Update(w, Settled(w, "completed"))
  /\ Release(w)
  /\ UNCHANGED <<locked, prs, breaker>>

(* CircuitBreakerOpenError: rescheduled without counting a retry.  The      *)
(* breaker the call met may have moved on since.                            *)
BreakerRejects(w) ==
  /\ pc[w] = "running"
  /\ Update(w, Rescheduled(w, BreakerDelay))
  /\ Release(w)
  /\ UNCHANGED <<locked, prs, breaker>>

(* Seeded fault: the last attempt is rescheduled as well. *)
FailForever(w) ==
  /\ pc[w] = "running"
  /\ Update(w, [Rescheduled(w, 1) EXCEPT !.retries = @ + 1])
  /\ Release(w)
  /\ UNCHANGED <<locked, prs, breaker>>

(* Any other exception that is not deterministic: the value returned by     *)
(* dequeue_issue decides, the value in the table is incremented.            *)
FailTransient(w) ==
  /\ pc[w] = "running"
  /\ Update(w, IF seen[w] >= 2
               THEN Settled(w, "dead_letter")
               ELSE [Rescheduled(w, Backoff[seen[w] + 1]) EXCEPT !.retries = @ + 1])
  /\ Release(w)
  /\ UNCHANGED <<locked, prs, breaker>>

FailDeterministic(w) ==
  /\ pc[w] = "running"
  /\ Update(w, Settled(w, "dead_letter"))
  /\ Release(w)
  /\ UNCHANGED <<locked, prs, breaker>>

(* The worker dies, or the UPDATE itself raises: the row stays as it is. *)
Abandon(w) ==
  /\ Busy(w)
  /\ Release(w)
  /\ UNCHANGED <<queue, locked, prs, breaker>>

(* What a provider call does to the stored breaker.  An outcome that is      *)
(* recorded from a copy of the row another process has overtaken may replace *)
(* any state by any other.                                                   *)
BreakerStep(next) ==
  /\ breaker' = next
  /\ UNCHANGED <<queue, locked, prs, workers>>

(* A worker calls providers only inside the pipeline. *)
WorkerCall(w, next) == pc[w] = "running" /\ BreakerStep(next)

(* A command run by an operator calls the same provider. *)
ExternalCall(next) == ExternalCallers /\ BreakerStep(next)

(* Its call finds the timeout passed, or is the probe that is answered.      *)
ExternalProbe == breaker = "open" /\ ExternalCall("half_open")
ExternalCloses == breaker = "half_open" /\ ExternalCall("closed")

(* Time passes.  Without Overrun no busy worker lets its lease run out.     *)
Tick ==
  /\ Overrun \/ \A w \in Worker : Busy(w) => term[w] > 1
  /\ queue' = [j \in DOMAIN queue |->
                 [queue[j] EXCEPT !.left = Less(@)]]
  /\ locked' = [i \in Issue |-> Less(locked[i])]
  /\ term' = [w \in Worker |-> Less(term[w])]
  /\ UNCHANGED <<prs, breaker, pc, job, seen>>

Lookup(w) == LookupFindsPr(w) \/ LookupFindsNone(w)

(* The pipeline comes to an end of its own: it returns or it fails. *)
Ends(w) == Complete(w) \/ FailTransient(w) \/ FailDeterministic(w)

Next ==
  \/ \E i \in Issue : Enqueue(i)
  \/ \E w \in Worker :
       \/ Backpressure(w) \/ Poll(w) \/ Dequeue(w) \/ DequeueNothing(w)
       \/ LookupFails(w) \/ Lookup(w)
       \/ OpenPr(w) \/ BreakerRejects(w) \/ Ends(w)
       \/ Abandon(w)
       \/ \E next \in {"closed", "open", "half_open"} : WorkerCall(w, next)
  \/ \E j \in RunId : ClosePr(j)
  \/ \E next \in {"closed", "open", "half_open"} : ExternalCall(next)
  \/ Tick

Spec == Init /\ [][Next]_vars

(* Workers keep looping (a dequeue always has an answer, so weak fairness   *)
(* will do there), GitHub answers some lookup of a worker that keeps asking, *)
(* and a pipeline that keeps being started ends some attempt, well or badly, *)
(* and not always by an open breaker or by the death of its worker.  Other   *)
(* callers, where there are any, probe an open breaker once its timeout has  *)
(* passed and close it when the provider answers.                            *)
Fairness ==
  /\ WF_vars(Tick)
  /\ \A w \in Worker : /\ SF_vars(Poll(w))
                       /\ WF_vars(Dequeue(w) \/ DequeueNothing(w))
                       /\ SF_vars(Lookup(w))
                       /\ SF_vars(Ends(w))
  /\ SF_vars(ExternalProbe)
  /\ SF_vars(ExternalCloses)

FairSpec == Spec /\ Fairness

-----------------------------------------------------------------------------

(* The types of the tables and of the workers' local variables. *)
TypeOK ==
  /\ queue \in Seq(Row) /\ Len(queue) <= MaxJobs
  /\ locked \in [Issue -> Nat]
  /\ prs \in [RunId -> {"none", "open", "closed"}]
  /\ breaker \in {"closed", "open", "half_open"}
  /\ pc \in [Worker -> {"poll", "ready", "checking", "running"}]
  /\ job \in [Worker -> 0 .. MaxJobs]
  /\ seen \in [Worker -> Nat]
  /\ term \in [Worker -> Nat]
  /\ \A w \in Worker : Busy(w) => job[w] \in DOMAIN queue

(* No work is lost: a job is only ever acknowledged once a pull request was  *)
(* opened for it, whatever crashed, was redelivered or was overwritten.  The *)
(* queue tests nothing of the kind; it is the pipeline that has to see to it *)
(* (WorkerPipeline).                                                         *)
NoLostWork ==
  \A j \in DOMAIN queue : queue[j].status = "completed" => prs[j] # "none"

(* Two workers whose leases both still run never hold the same job.         *)
ExclusiveLease ==
  \A v, w \in Worker :
    Busy(v) /\ Busy(w) /\ job[v] = job[w] /\ term[v] > 0 /\ term[w] > 0 => v = w

(* The retry counter stays at most 3, and what a worker goes by when its    *)
(* pipeline fails is what the table says.                                   *)
RetriesInStep ==
  /\ \A j \in DOMAIN queue : queue[j].retries <= MaxRetries
  /\ \A w \in Worker : Busy(w) => seen[w] = queue[job[w]].retries

(* Even with late UPDATEs of workers that outlived their leases the counter *)
(* is bounded: take-overs stop at 3, and only workers that were told a      *)
(* smaller count add to it.                                                 *)
RetriesBounded ==
  \A j \in DOMAIN queue : queue[j].retries <= Cardinality(Worker) + 2

(* A settled job stays settled: no late UPDATE brings it back.              *)
SettledIsFinal ==
  [][\A j \in DOMAIN queue :
       queue[j].status \in {"completed", "dead_letter"}
         => queue'[j].status = queue[j].status]_vars

(* A due job, pending or left behind by a worker that died or is late, is   *)
(* taken sooner or later, through open breakers, failed lookups and attempts *)
(* that come to nothing.                                                    *)
DueIsTaken ==
  \A j \in RunId :
    (j \in DOMAIN queue /\ Due(queue[j])) ~> (j \in DOMAIN queue /\ ~Due(queue[j]))

=============================================================================
