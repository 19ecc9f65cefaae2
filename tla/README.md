# PatchForge in TLA+

TLA+ models of PatchForge (`src/src/orchestrator/`), the TLC runs that check them
and the theorems TLAPS proves about them. `PROJECT.json` is the machine-readable
side: which definition stands for which lines (`map`), the runs, the seeded faults
each property must catch (`mutants`), findings, hazards and theorems.

PatchForge turns a scan or an issue into a patch: a Scout and an Architect make a
plan, an Executor makes a patch with LLM providers, a Validator runs the target's
tools, and an operator promotes the result to a branch. A headless path does the
same from a queue of GitHub issues. The program starts no threads itself; its
concurrency is *processes* (operators' commands, workers) that meet in files, in
two SQLite databases and in a Git repository, and any of them may die anywhere.

## 1. Inventory

| component | state it keeps | operations | meets others through |
|---|---|---|---|
| circuit breaker (`circuit_breaker.py`, `storage/lock.py`) | row per provider in `coordination.db`; per process a copy and an in-flight flag | `call` and its outcome handlers | the shared row; an object shared by the threads of a process |
| work queue, worker loop (`storage/work_queue.py`) | `work_queue`, `issue_lock` in `queue.db` | enqueue, dequeue, the branches of the loop | the tables; the breaker's row; pull requests |
| worker pipeline and apply (same file, `git.py`) | checkpoints, workspace files, `apply.json`, a clone, the remote | stages with resume, five apply phases, recovery | queue, artifact store, GitHub |
| candidate promotion (`commands/apply.py`, `git.py`) | `run.json`, `apply.json`, `validation.json`, two refs, a lock | `patchforge apply` | files of the run, Git refs, the SQLite lock |
| preview (`commands/preview.py`) | `patch.diff`, `validation.json`, `run.json` | `patchforge preview` | files of the run, Executor, Validator |
| Validator, validation decision (`agents/validator/`, `validation_decision.py`, `validation_workspace.py`) | results of the tools of one validation; the evidence | run tools in a copy, attach, bind and compare evidence | `validation.json` |
| Executor with provider policy (`agents/executor/`, `provider_policy.py`) | order, results of tasks, provider attempts, the staging directory | schedule, call chain, take or refuse an answer, stage | breakers, staging directory |
| run lifecycle (`commands/scan.py`, `plan.py`, `lifecycle.py`, `workspace.py`) | `run.json` and the artifacts beside it | scan, plan, preview, apply, verdict | files of the run |
| CI command with the risk gates (`commands/ci.py`, `risk.py`) | the live tree, branches, three files | phases with rollback | Git, Executor, Validator |
| in-place pipeline (`pipeline.py`) | the live tree | phases with rollback | Git, Executor, Validator |
| audit export (`commands/export_audit.py`, `storage/lock.py`) | the bundle, a `repo_lock` row | export, verify | coordination database, files of the run |
| plan paths, scanners, doctor, schemas, review scripts, logs | none that outlives a call | classification, parsing | values |

What is hard here: outcomes of concurrent calls overwriting one breaker row;
leases that run out under a live worker; at-least-once delivery against a pull
request on another system; a promotion that dies between a Git transaction and
its log; a preview that rewrites what an apply has already checked; commands that
keep what they read before they took a lock; a staging directory that outlives the
execution that wrote it; a CI run that changes the live tree and may fail at every
step of undoing it; an export that reads files while other commands write them. The `hazards` of `PROJECT.json` give
each at its line, with the properties that cover it.

Correctness, component by component: a breaker's rows are coherent and its probe
slot is never lost, it opens, waits and recovers; a job is never lost, never held
twice under a running lease, never brought back once settled, and taken sooner or
later when due; a run is published at most once, on the base it was built on,
under a log that names it, and finished if it was published; an executor's
changes and its staging directory say the same, nothing is built on a failed task, and
every answer obeys the provider policy; a run that says "previewed" names a patch that was
validated; a CI run leaves edits of its own in the repository only after its gates and
its validation, and none after a rollback it reports, and what else its commit takes along
can be accounted for; a bundle verifies.

## 2. Modules

| module | what it is |
|---|---|
| `CircuitBreaker` | one provider's breaker, `Proc` processes, `Thread` threads |
| `WorkQueue` | the queue, its workers, the pull requests and one stored breaker state |
| `WorkerPipeline` | extends `WorkQueue`: the pipeline of a worker step by step, with checkpoints, `apply.json`, clone and remote |
| `CandidatePromotion` | `apply` and `preview` of one run by several processes, with the user at the repository |
| `Publication` | what promotion promises: published at most once, only then marked applied |
| `Executor` | one plan executed up to `MaxExecutions` times by one caller: scheduler, provider chain, applier, staging |
| `Validator` | one validation: tools, statuses, evidence, decision; actions over its own two variables, used by `CiCommand` |
| `CiCommand` | extends `Validator`: `patchforge ci` on the live repository, with a user beside it |
| `RunLifecycle` | `run.json` and its artifacts under scan, plan, preview and apply; used by `AuditExport` |
| `AuditExport` | extends `RunLifecycle`: several exports of that run, and the repository lock |
| `...Proofs` | theorems and proofs about the module of that name |
| `MC...` | plans, configurations, commands and other values for TLC |

### CircuitBreaker

`store` is the row in `cb_state`, `mem` the fields of each process's object,
`inFlight` its `_half_open_in_flight`, `pc` the place of each thread in `call`.
A critical section under `_lock` is one action, but for the one that reads the row and
then writes it: nothing keeps other processes away between the two, so `CallHalfOpens`
leads to `pc = "opening"` and `SaveHalfOpen` persists; `Unlocked` keeps the process's
other threads out meanwhile. `CallClosed`, `CallRejected`,
`CallHalfOpens`, `CallHalfOpen` are the four ways through `call`; `TakeProbe` and
`RefuseProbe` are the gate, reached after the lock was released; `Succeed`, `Fail`
and `Abort` are the ways out of `fn()`. A write to the store may raise
(`StoreErrors`): after a success the handler of the failure then runs as well
(`pc = "failing"`). `Restart` is `__init__` after a crash. The code compares the
time only with `last_failure_at + recovery_timeout`, so a row keeps the time left
until then, and `Tick` lets it pass. The failure count saturates at `FailureCap`,
beyond which neither the threshold test nor the backoff index changes.

### WorkQueue

`queue` is the table in id order, `locked` the time left of each issue's lock,
`prs` the pull request of each run, `breaker` the state in `cb_state`, of which the
loop reads only "open". A call may take it from any state to any other (`BreakerStep`):
outcomes that overwrite each other in `CircuitBreaker` do so too, and a refusal
(`BreakerRejects`) may rest on a state that has changed since. Further,
`pc`, `job`, `seen` and `term` the worker: its place in the loop, its run, the
`retries` dequeue returned and what is left of its lease. `dequeue_issue` is one
statement and one action. The pipeline is abstracted to what the loop sees of it:
it may open the run's pull request, call the provider, and then return, raise
`CircuitBreakerOpenError`, raise a transient or a deterministic error, or die
(`Abandon`, also for an UPDATE that raises). Every write of the loop is by run id
alone, as in the code. Two parameters select what a run is about: `Overrun` lets a
worker live on after its lease has run out, `ExternalCallers` lets processes other
than workers call the provider.

### WorkerPipeline

`WorkQueue` takes the pipeline for one step and lets it return, fail or die as it
likes; that one which returns has a pull request is for this module to show
(`NoLostWork`), since the UPDATE of the loop tests nothing. It extends `WorkQueue` and
takes the pipeline apart:
`at` is the worker's place, `ckpt`, `stored` and `local` are the checkpoint rows
and the two copies of `patch.diff`, `clone`, `wal` and `remote` the state of Git and
of `apply.json`. The stages are `HydrateStage` (there is a checkpoint) or
`RunStage`; the executor's three writes are `StorePatch`, `WritePatch` and
`CheckpointPatch`. Then `ReadLog` and the four steps of the undoing, each of which
may fail without notice (`UndoFails`), and the phases from `StartLog` to
`LogApplied`, one action per Git command or write of the log. A worker leaves by
`Return`, `Reject`, `Raise` (transient), `Refuse` (deterministic), `RollBack` or
`Die`, from the places where the code can. The run's directory may be lost between
deliveries (`WorkspaceLosses`), and a closed pull request's branch may be deleted.
A commit is known by the patch it contains and by what else went into it (`Files`): the
target's tools run in the live clone (`ValidateTree`) and may write or change files there,
and `Commit` is `git add -A`, which takes them along. So what is pushed is the patch
and what the tools left in that attempt; `PushedIsCheckpointed` says that it is nothing of
an earlier attempt and no other patch, although every reset may fail
(`AfterReset`). HEAD only matters as "on the run's branch".

`ImplementsQueue` is `WorkQueue`'s own specification without fairness: the queue is
the abstract specification, the variables the two share are the mapping.

### CandidatePromotion

One action per step of `commands/apply.py` that another process could see or a
crash could separate: `ReadRun` (before the lock), `Lock`, `LockBusy`, `Inspect`
(recovery), `Approve`, `CheckBase`, `Build`, `Prepare` (write-ahead log),
`Validate`, `Promote`/`PromoteRefused` (the ref transaction), `FinishLog`,
`FinishRun`. `Stop` ends the command at any point: the code's `_fail` calls, a
crash, and a transaction that committed although its caller timed out. The
lock is a SQLite transaction, so it goes with its owner. `preview` takes no
lock and asks nothing of the run's status; its writes are actions too. The user
moves the base branch away and back, and commits to or deletes the published
branch. A checksum stands for the patch it was taken of, a commit for that patch
and a number; the other fields of the log and the evidence do not vary within one
run and repository. Corrupt files and logs of a foreign protocol stop the
command (`Stop`). `Resolved` is `resolve_ref`: with `GitTimeouts` a ref may read
as absent although it exists.

Because the validator binds its evidence to a run id of its own, the evidence never
authorizes a recovery (finding `promotion_recovery`): the branch of `Inspect` that
finishes an earlier publication is in the model, and no behaviour takes it.

### Executor

`order`, `at` and `results` are `ordered_tasks`, the loop's place in it and
`task_status_results`; `fileAt`, `attempt` and `link` the places of the inner loops;
`changes` every `FileChange` in the order they are made; `staging` the content of
the staging directory, which is on disk and survives (`Crash`, `Rerun`). A content is
a number: 0 no file, 1 what the target has, and a fresh one for every text a provider
answers with; a change is the pair `from`, `to` of the texts before and after an answer. `Order` and `Cycle` are
`_topological_order`, one pick at a time; `SkipTask`, `StartTask`, `EndTask`,
`Finish` the loop of `run`; `StopAtFile`, `TooLarge`, `StartFile` the head of
`_apply_task`; `Fails`, `Explodes`, `Exhausted` the chain and its second pass; and
`Broken`, `Unchanged`, `Edited` what may become of an answer. `caller` is the command:
`preview` checks policy and credentials first, `preview` and `ci` empty the staging
directory (`FreshStaging`), and the worker's call is misbound (`Misbound`).

The module ends at these texts. What happens to them on the way to a tree is not
modelled, and no property speaks of it: `_strip_markdown` takes fences off an answer,
`applier.py:202-203` ends it with a newline, `difflib` makes a diff without the marker
for a missing newline at the end of a file (`diffing.py:8-21`), preview joins the diffs
(`preview.py:286-290`), and `git apply` applies them. Nor do the validators see the staging
directory: they see a copy of the target with `patch.diff` applied
(`preview.py:379-403`). `StagingFollowsChanges` is therefore about `FileChange` and the
staging directory, not about the patch.

### Validator

`RunTool` runs the next tool; what becomes of its process (`Outcome`) is translated by
`LegacyStatus` or `DeclaredStatus`, and `Skipped` are the tools that are then not run.
`Attached`, `Bound` and `Authorized` are the three functions of
`validation_decision.py` that make evidence and decide on it. A tool is named by the
roles it declares and by whether its command is the standard one, which is all that
`_coverage` looks at.

### CiCommand

One action per write of a file or Git command. A content is the set of edits made to
a file: the number of a run for its edit, 0 for the user's; a commit, the `index` and the
working tree are such contents for every file, a branch a number of a commit. `Patched` is
`git apply`, which finds its places by context: it adds the patch to whatever is in the file
by then, or refuses the whole (`ApplyFails`), also in the copy (`Copy`). `Added` is
`git add` of the files whose headers are recognised, `Commit` takes the whole index, with
what the user had staged before. So the commit of a run is not the validated patch
alone, and `CommittedIsAccountedFor` says what else can be in it: edits of
the user in patched files, edits the user staged (`Staged` are the files a user stages, the
rest of `Edited` only lies in the tree), and, under `--allow-dirty`, what an earlier run
left. The tools validate the copy as they find it and as earlier tools have left it (the
legacy validator runs `ruff format` over it first); what they change there is thrown
away with the copy, so evidence names a patch, not the tree that was looked at.
`CreateBranch` is the ref transaction followed by a checkout that may fail;
`ApplyFails` includes a `git apply` killed at its timeout half-way; `Commit` one that
timed out after it was made; `UndoFails` a reset without the clean (`HalfReset`). `Command` has two
fields that say what stands behind the command: `form` and `named` are "unified" and
TRUE for the program's own executor and validator. With these the apply phase is never
reached (finding `ci_authorize`), or, with a validator that names no policy, left
after the tree was patched because `parse_diff_files` recognises no file of a diff
without a `diff --git` line (`NothingToAdd`). The other forms are what the command's
tests put in their place; the properties of the `ci` run hold for all of them.

### RunLifecycle and AuditExport

`mem` is `run_metadata`, read when a command starts and written back when it is over;
`WriteFailed` is every `status = "failed"` path. `Leave` ends a command anywhere: a
check before a write, an exception, a death. `passed` is history. The details of
`apply` are those of `CandidatePromotion`.

An export without the lock is `Begin` (the run must be over), one with it `Acquire` and
`Reread`; `Turned` and `RereadFails` end it there (the run is not over, the lock is busy,
its target is another one now). Then come `Collect` or `Refuse`, one `ReadFile` per file or
`FileGone`, `Release`, `Publish` or `PublishFails`; `Die` leaves its row of the lock behind,
as does a release that fails (`ReleaseRow`). `Expire` lets 300 seconds pass. The command
line never passes a directory for the lock (`main.py`), so only callers of the function
take it, and nobody but an export ever does: the commands of `RunLifecycle` write
while it reads, a bundle may mix files of two commands, and even hold a run that is no
longer terminal. `BundleIsTrue` says what holds all the same.

`id` is what the lock goes by: with a `worker_id` all exports of that worker use the same
one, and otherwise each its own. Exports with the same id re-enter each other's lock, and
the first that is done deletes the row, though another one still reads. The model
does that, so `LeaseHolds` speaks only of exports whose id no other one has used.

`Members` are the event log, which a redacted bundle leaves out, `run.json`, which
it redacts, and `patch.diff`, which stands for every other file: read once, hashed and
archived as it is. Some of these have paths in them: `apply.json` (`apply.py:320`) and
`experiment.json` (`plan.py:340`) carry `workspace_path`, one of `_REDACT_FIELDS`, and a
redacted bundle has them in clear. `BundleIsTrue` claims redaction of the metadata and of
`run.json` only.

### Publication

`IsPublication` checks, and `PromotionIsPublication` proves, that the protocol
implements it with `published <- receipt` and `applied <- wal.state = "applied"`.

## 3. Runs

| run | instance | shows |
|---|---|---|
| `breaker` | 2 processes, 3 threads (two in one process), threshold 2, backoff <<1, 2>>, failing writes, fairness | `TypeOK`, `RowsCoherent`, `FlagHasOwner`, `BackoffNeverShrinks`, `OpenIsProbed`, `ProbeIsDecided` |
| `queue_pool` | 2 workers, 2 jobs of 1 issue, lease 2, lock 1, no overrun | `TypeOK`, `ExclusiveLease`, `RetriesInStep`, `SettledIsFinal` |
| `queue_progress` | 2 workers, 1 job, lease 1, overrun, other callers, fairness | `RetriesBounded`, `DueIsTaken` |
| `pipeline` | 2 workers, 1 job, 2 patches, files of the tools, lost directories, failing undo, lease 1 | `PipelineTypeOK`, `PushedIsCheckpointed`, `LogNotAhead`, `NoLostWork`, `ImplementsQueue`, `OpenPrKeepsBranch` |
| `promotion` | 2 processes, 2 patches, 2 builds, previews, user edits | `TypeOK`, `LogMatchesReceipt`, `AppliedIsPublished`, `PublishedOnLiveBase`, `IsPublication` |
| `executor` | 7 plans of up to 3 tasks, 4 files, 3 callers, every credential set, 4 overrides, 2 executions, fairness | `TypeOK`, `CyclesAreReal`, `DependentsStop`, `NothingLost`, `StagingFollowsChanges`, `RoutedByPolicy`, `ExecutionEnds` |
| `ci` | 2 runs, 6 plans, 9 files, 4 commands, 3 validator configurations, 1 act of the user, staged in one file and not in another | `TypeOK`, `ResultIsTrue`, `RolledBackLeavesNoTrace`, `TouchedIsValidated`, `TouchedIsWithinBudget`, `CommittedIsAccountedFor` |
| `export` | 4 commands, 2 patches, 2 exports, with the lock, redaction and force or without, 1 worker whose id both may use | `TypeOK`, `PreviewedIsValidated`, `BundleIsTrue`, `LeaseHolds` |
| `queue_livelock` | 1 worker, no other callers, fairness | violates `DueIsTaken` |
| `promotion_recovery` | 2 processes, no previews, no edits, fairness | violates `PublishedIsFinished` |
| `executor_worker` | the plans of `executor`, no override | violates `SignaturesMatch` |
| `ci_authorize` | 1 run, the program's own executor and validator | violates `ApprovedGoesOn` |

The four violated properties are statements of the repository's own documents; the
`findings` quote them.

* `queue_livelock`: the only worker's calls open the breaker; from then on it
  sleeps at the top of the loop and never makes the call that would probe.
* `promotion_recovery`: a process dies after `Promote`; every later `apply`
  finds the pair of refs, refuses the evidence and stops. With the evidence bound
  to the run's id (`ValidatorRun` equal to `ThisRun`) the property holds.
* `executor_worker`: the worker hands its configuration to the parameter `run_id`,
  and the executor's output cannot be made with it. `WorkerPipeline` leaves open
  what a stage answers, so its properties do not depend on this.
* `ci_authorize`: the evidence carries the digest of the policy it was made under and
  the expected subject none, so an approved validation is never an authorization.

Four more disagreements are in the models and can be seen in them, without a run of
their own: in `CircuitBreaker` two threads of one process find the breaker half-open,
the first probes and records its outcome, and the second passes the gate, which does
not look at the state again: the flag is set while the breaker is closed or open, against
the class docstring (`FlagOnlyHalfOpen`; the program itself starts no thread, and for
one thread per process the property is proved); in `WorkQueue`
a job put back to pending by a late worker is handed out with retries 3, against the
module's comment on poison pills; in `WorkerPipeline` a retried apply finds the branch
of the failed attempt checked out, cannot delete it, and is dead-lettered by
`CreateBranch`; in `CandidatePromotion` with `GitTimeouts` a published run is taken for
an unpublished one and its log overwritten.

### Bounds and why they are enough

Two processes are the fewest that can overwrite each other's row, lease or run;
the third thread of the breaker gives one process an inside race while another
interferes. Threshold 2 with two backoff steps separates "below the threshold",
"opened" and "opened again with a longer wait". A lease of 2 lets a deadline pass
in two steps, so that a worker can be in time, late by one, or taken over; with
overrun a lease of 1 already gives every order of expiry and late write. Two
jobs of one issue need the lock to run out while the first is unfinished, and
make "oldest first" matter. Retries are not cut: the code's limit 3 is the model's.
The progress run has one job, and `DueIsTaken` is claimed for that: with older jobs that keep
coming back the oldest goes first, and a younger one may wait for as long as they do. (With
one worker and two jobs the property still holds; two of each take TLC longer than
is practical.)
One job and one lease unit are enough for the pipeline: its steps are sequential,
and what counts is that each of the three attempts may stop anywhere and another
worker goes on. Two patches make a second run of the Executor visible.
Two builds allow a crash after the first candidate and a second attempt beside
its remains; two patches tell what was checked from what was published. When
`MaxBuilds` is used up an apply can still be stopped, read or previewed.
The recovery run needs no preview and no edits, and restricts them so that nothing
but the crash can explain what it shows.
The plans of the executor are one for each way a plan can go wrong and two that
cannot (a chain listed backwards that edits one file twice; a high-risk task with a
dependent and without), the files one for each way a file is treated. Two executions
make a staging directory that is not empty; more would only repeat that.
Two CI runs let the second start from the branch, the tree and the files the first
one left; one act of the user is enough to make a tree dirty, stage a file, move the source
branch or get under the patch at any place. The files are one per clause of the gates (six documents are one
more than the larger budget takes), the plan of two files is there for a patch of which only a
part is applied or added, and the configurations one that verifies its role, one that only declares it, and the legacy
one. In the export run a full preview takes a scan and a plan before it, so four
commands allow a second plan, preview or apply to race with the reading of what the
first one wrote; two exports are the fewest that can lose a lock to each other, under
ids of their own or under that of one worker.
Runs without deadlock checking are those whose instance really stops (a bounded
number of builds, executions or commands).

### Fairness

* Breaker: time passes; a call that is possible again and again is made, its gate
  is passed and the provider call ends (every client has a request timeout) with
  its outcome recorded. Strong fairness because a restart or an interrupt may
  disable each of these steps for a moment; it says only that interrupts and
  failing writes do not hit *every* attempt. Neither success nor failure is forced.
* Queue: workers loop; GitHub answers some lookup of a worker that keeps asking; and of the
  attempts a worker keeps starting some end (`Ends`), well or badly, not by an open breaker or
  a death every time. That none of them ever succeeds is not excluded: then the job
  is dead-lettered. Dequeue needs weak fairness only, since it always has an answer.
  Other callers, where there are any, probe an open breaker and close it when the
  provider answers. `queue_livelock` shows that without them the property is lost,
  under the same fairness of everything the workers do.
* Executor: only that a running execution takes its next step; every provider call
  has a timeout, and a death or a rerun is never forced.
* Promotion: an operator repeats the command and it is not stopped every time at
  the same place. Nothing is assumed of previews, users or validators.

## 4. Proofs

All theorems are for every value of the constants that satisfies the named
assumptions of the modules (`ThresholdAssumption`, `BackoffAssumption`,
`QueueAssumption`, `PromotionAssumption`, ...), which TLC evaluates in every run.

| theorem | says | further assumption |
|---|---|---|
| `BreakerTypeCorrect`, `BreakerRowsCoherent`, `BreakerFlagHasOwner` | `TypeOK`, `RowsCoherent`, `FlagHasOwner` | none |
| `BreakerBackoffNeverShrinks` | `BackoffNeverShrinks` | none (`BackoffAssumption`: the schedule does not decrease) |
| `BreakerFlagOnlyHalfOpen` | `FlagOnlyHalfOpen` | one thread per process |
| `QueueTypeCorrect`, `QueueRetriesBounded` | `TypeOK`, `RetriesBounded` | none (`QueueAssumption`: finitely many workers) |
| `QueueLeaseIsExclusive`, `QueueRetriesInStep`, `QueueSettledIsFinal` | `ExclusiveLease`, `RetriesInStep`, `SettledIsFinal` | `~Overrun` |
| `PipelineTypeCorrect`, `PipelineLogNotAhead`, `PipelineImplementsQueue`, `PipelineLosesNoWork`, `PipelineRetriesBounded` | `PipelineTypeOK`, `LogNotAhead`, refinement of `WorkQueue`, `NoLostWork` and `RetriesBounded` for the pipeline | none |
| `PipelinePushedIsCheckpointed`, `PipelineOpenPrKeepsBranch` | `PushedIsCheckpointed`, `OpenPrKeepsBranch` | `~Overrun` |
| `PromotionTypeCorrect`, `PromotionAppliedIsPublished`, `PromotionOnLiveBase` | `TypeOK`, `AppliedIsPublished`, `PublishedOnLiveBase` | none |
| `PromotionLogMatchesReceipt`, `PromotionIsPublication` | `LogMatchesReceipt`, refinement of `Publication` | `~GitTimeouts` |
| `ExecutorProofs`: `TypeCorrect`, `RoutingCorrect`, `StoppingCorrect`, `StagingCorrect`, `ExecutionComplete`, `OrderingCorrect` | `TypeOK`, `RoutedByPolicy`, `DependentsStop`, `StagingFollowsChanges`, `NothingLost`, `CyclesAreReal` | none |
| `CiProofs`: `TypeCorrect`, `NothingUnvalidated`, `NothingBeyondTheBudget`, `RolledBackIsTrue`, `CommitsAreAccountedFor`, `ResultsAreTrue` | `TypeOK`, `TouchedIsValidated`, `TouchedIsWithinBudget`, `RolledBackLeavesNoTrace`, `CommittedIsAccountedFor`, `ResultIsTrue` | none |
| `AuditExportProofs`: `TypeCorrect`, `PreviewedCorrect`, `BundlesCorrect`, `LockCorrect` | `TypeOK`, `PreviewedIsValidated`, `BundleIsTrue`, `LeaseHolds` | none |

The further assumptions are real: without them TLC finds a row that is taken
over twice, a worker that pushes the patch another one is about to replace, a receipt
the log does not name, and the flag of a closed breaker set by a late thread.

* Breaker. `RowInv` joins types and coherence, because a row that is written is a
  function of a coherent row: `AfterFailureRow` and `SpecialRows` show that each
  such function keeps it, `RecordRow` lifts that to a recorded outcome. `FlagStep`
  needs types only: the flag is set together with `pc = "probing"`, and each
  step that leaves "probing" clears the flag of its own process. `BackoffNeverShrinks`
  goes through `MemCases`, which lists what a step can make of a process's
  copy: only `AfterFailure` keeps an open breaker open with a new wait, and
  `RecoveryTimeoutGrows` says that this wait follows the count. `OnHalfOpenPath`, which
  needs that no other thread changes the copy under a thread's feet, makes of
  `FlagHasOwner` the docstring's invariant.
* Queue. Every `Update` writes one of a few rows (`WrittenRows`, `FinishCases`), so
  the type proof has one case per kind of step (`StepCases`) and not one per branch.
  Exclusive leases need a strengthening, `LeaseInv`: a busy worker's row is
  "processing", has exactly what is left of the worker's term, and the count the
  worker was told; two busy workers hold different rows; counts stay at most
  three. `HeldIsNotDue` then says that dequeue cannot pick a held row.
  Retries are bounded without that assumption. What a take-over adds is limited by the
  query, but a late worker adds on top of whatever others added meanwhile. `RetryInv`
  bounds the sum of a job's count and of the number of busy workers of the job that were told less
  than the limit (`Adders`), by the number of workers plus two: a worker leaves the
  second term when it adds to the first.
* Pipeline. `PipelineInv` adds to types and `LogNotAhead` that a worker past
  `CreatePr` has a pull request (`Opened`): that is what makes `Return` the queue's
  `Complete`, also when the log of an earlier delivery let it skip everything.
  `QueueStep` maps each step to a step of `WorkQueue` or a stutter, so the types of
  the tables come from `TypesStep` and are not proved again; `PlaceStep`,
  `StoredStep` and `LogStep` keep the rest. `PipelineRetriesBounded` is
  then a corollary of the queue's theorem. `PipelineLosesNoWork` is about the pipeline
  alone: "completed" is written by the lookup, which saw an open pull request, or by
  `Return`, to which only `Opened` and `LogNotAhead` lead. For timely
  workers the queue's `LeaseInv` comes with the refinement and says that a worker is
  alone with its job (`LeaseIsolates`), so a step disturbs no other job (`ConfinedStep`).
  `GateInv` then says what a worker may rely on at its place: past the executor the
  file, the tree and the commit are the checkpointed patch (`Gated`), which was there
  before the branch (`Published`), and no pull request is open until it opens one
  (`Unopened`). `CloneInv` is why nothing of an earlier attempt is committed, whatever
  resets fail: files are only left in a clone on whose run branch HEAD is, and there the
  next attempt is refused its branch.
* Promotion. `TypeOK` contains the mutual exclusion of the locked part. `FinishInv`:
  whoever is finishing has the published commit as its candidate, and whoever is
  applying started from a previewed run, so that only `FinishRun` writes "applied". `LogInv`
  (needs `~GitTimeouts`): the prepared log of a process that holds the lock is its
  candidate's, a fresh start sees no receipt, and a receipt is the log's commit.
  Refinement follows step by step (`PublicationStep`): `Promote` is `Publish`,
  `FinishLog` is `MarkApplied` or a stutter, everything else stutters.

* Executor. `TypeInv` adds to the types what holds at each place of an execution
  (`Places`): what is still empty, that preview's preflight holds while it runs, and that
  the providers that failed are those of the chain before `link`. That is what
  `RoutedByPolicy` needs. `StopInv` adds to `DependentsStop` that the order lists a
  task after its dependencies (`Sorted`), that the decided tasks are those before
  `at` (`DecidedPrefix`), and that the task at hand is not blocked. `RebuildInv` adds to
  `StagingFollowsChanges` that every content is below `writes`: a change that is
  appended starts from `Original`, which is what the applied changes so far lead to.
  `CountInv` says for every task how many changes it has: as many as the loop over its
  files has passed (`Progress`) until it is decided, then all or, for a skipped one,
  one. `CircleInv`: no task that is in order lies on a circle. That is an induction along
  the order, and done along the behaviour that makes the order; the tasks that are left
  when none is ready form a circle (`StuckOnCircle`).
* CI command. The parts are about `Seen(r)`, the files that hold an edit of run r in the
  tree, the index or any commit, reachable or not: `SeenStep` shows that only git apply adds
  to it. `Traces` says that a run is unseen until then, that one that is seen has its
  log and was cleared, and that evidence tells the truth about the configuration
  (`Faithful`): `TouchedIsValidated` follows. `Budgeted` says that the patch at hand
  and what is seen fit the budget (`PlanGateFits`, `FitSubset`). `Records` says what
  the files of the run under way hold at each place of the command, and that a
  verdict about to be reported is `Told` by them; no step writes to another run's
  files (`OwnFiles`). `Placed` needs both: the branch of the run is the only one
  with its edits until it is committed or undone (`Alone`), the base that a rollback
  restores is free of it and of everything rolled back before (`BaseIsFree`), and
  from there a run that is gone stays gone (`GoneStep`) and one that landed stays
  on its branch (`LandedStep`). `Stacked`: edits are never taken back but by a reset, so
  commit, index and tree contain one another. `Accounted` adds that an unstaged edit of
  the user gets into the index only together with the patch of a run, and that a tree
  that was clean at the preflight has nothing but the patch and the user's edits since;
  `CommitAccounted` makes of both what the property says of the commit. TLC has checked the parts on the instance of the
  `ci` run.
* Audit export. `RunInv` says what a preview at each of its places knows: from
  "validated" on the memory's checksum is the patch on disk, and an outcome that is
  good has put it into `passed`. `ExportInv` says of every export that the hashes are
  those of the bytes it holds and that an export that holds the lock, is not expired and
  is alone with its id is named by its row (`Named`: it has an id); all are inductive
  together with the types, for any interleaving with the commands.

Only model-checked: the liveness properties (`OpenIsProbed`, `ProbeIsDecided`,
`DueIsTaken`, `ExecutionEnds`), which need fairness and ENABLED, out of the prover's
reach. Every invariant and action property of a passing run is proved.

## 5. Not modelled

* The contents of plans, patches, findings and configuration; prompts, parsing,
  scanners, `doctor`, console output and logs.
* The way from texts to diffs to a patched tree (see Executor): that a patch applied to
  the target gives the staged files is assumed nowhere and shown nowhere.
* What tools do to the copy they validate, which need not be the patch any more; and
  the files of a run other than those of `Members`, redacted or not.
* A job of the queue that is never taken because older ones keep coming back.
* `pipeline.py`, which no command calls any more, and the V2 execution plans
  (`run_execution_plan`), which are tested and exported but never executed.
* The policy's text: `apply` loads it from the target's working tree where the ADR
  speaks of the base tree; the model has one policy per run.
* Corruption of single files (`_wal_write` replaces atomically).
* `atomic_update`, `half_open_probe`, `classify_lifecycle`, the dirt helpers of
  `git.py` and `cleanup_stale_workspaces`: nothing calls them. In particular
  `--allow-dirty` captures nothing under a private ref, as docs/ci-cd-setup.md:131
  says it does: `Reset` in `CiCommand` loses what the user had not committed.
* That a preview can rewrite `patch.diff` between the checksum test of `apply` and
  the candidate commit is *in* the model and reachable; no document says
  otherwise, so no property states the opposite. The same holds for a bundle that
  mixes the files of two commands.
* A job whose third worker died is "processing" with an expired lease and three
  retries for ever: the query excludes it, and nothing moves it to dead_letter.
* The number of lines of a diff (open in `PatchGate`), limits on archives, the trust
  in signatures, costs and tokens.

## 6. Plan

Done, in the order of importance: `CircuitBreaker`, `WorkQueue`,
`CandidatePromotion` with `Publication`, `WorkerPipeline` as a refinement of
`WorkQueue`, `Executor`, `Validator` with `CiCommand`, `RunLifecycle` with
`AuditExport`, and their proofs.

Left:

1. Abstract specifications of `CiCommand` and of `AuditExport` (what a run, what an export
   promises), and proofs that they are implemented; today their promises are invariants.
2. A chain over several breakers: `Executor` has a breaker's refusal as one of the ways
   a provider fails; composing the chain with `CircuitBreaker` would show when a
   provider that recovered is asked again.
3. `CandidatePromotion` with the tree of `CiCommand`, for `apply` in a repository
   whose user has uncommitted work.
