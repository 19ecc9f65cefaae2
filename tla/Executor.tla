------------------------------- MODULE Executor -------------------------------
(***************************************************************************)
(* The executor (orchestrator/agents/executor): turns an architect's plan  *)
(* into edited files under a staging directory and a list of changes, each *)
(* with the text it started from and the text it leads to.  Making unified *)
(* diffs of these, joining them to a patch and having Git apply it is not  *)
(* part of this module.                                                    *)
(*                                                                         *)
(* An execution orders the tasks by their dependencies, asks a chain of    *)
(* LLM providers for every file of every task, twice if all of them fail,  *)
(* and writes what it accepts to the staging directory, where the next     *)
(* task finds it.  It may stop at any point by an exception, or with its   *)
(* process, and be started again; the staging directory stays on disk.     *)
(***************************************************************************)
EXTENDS Integers, Sequences, FiniteSets

CONSTANTS
  TaskId, File,
  Plans,          \* the implementation plans an execution may be given
  Existing,       \* the files the target has
  Large,          \* those longer than _MAX_FULL_FILE_EDIT_CHARS
  Python,         \* those whose content must parse
  Unsafe,         \* paths that leave the target
  Callers,        \* the commands that start executions
  Forces,         \* the values of --force-provider
  MaxExecutions   \* bound on the executions of one plan

Provider == {"gemini", "openrouter", "claude"}
Risk == {"low", "medium", "high"}
NoForce == "none"

Task == [id : TaskId, files : Seq(File), risk : Risk, deps : SUBSET TaskId]

ASSUME ExecutorAssumption ==
  /\ Plans \subseteq Seq(Task)
  /\ Existing \subseteq File /\ Large \subseteq Existing
  /\ Python \subseteq File /\ Unsafe \subseteq File
  /\ Callers \subseteq {"preview", "ci", "worker"}
  /\ Forces \subseteq Provider \cup {NoForce, "unknown"}
  /\ MaxExecutions \in Nat \ {0}

VARIABLES
  caller,     \* the command that runs the executor
  plan,       \* the plan it was given
  force,      \* force_provider
  eligible,   \* the providers with a credential
  execution,  \* how often the executor was started
  pc,         \* where the execution is
  cause,      \* what ended it, when an exception did
  order,      \* ordered_tasks: positions in the plan
  at,         \* the place in order of the current task
  results,    \* task_status_results, by position in the plan
  fileAt,     \* the place in files_to_modify of the current file
  statuses,   \* task_statuses: the results of the files of the current task
  attempt,    \* 0 or 1: passes over the provider chain that failed
  link,       \* the place in the chain of the next provider
  failed,     \* the providers that failed in this pass
  changes,    \* every FileChange of the execution, in order
  staging,    \* the content of every file of the staging directory
  writes      \* number of contents ever written

input == <<caller, plan, force, eligible>>
scheduler == <<order, at, results>>
call == <<attempt, link, failed>>
vars == <<input, execution, pc, cause, scheduler, fileAt, statuses, call,
          changes, staging, writes>>

-----------------------------------------------------------------------------

(* A content is known by its number: no file, what the target has, and then  *)
(* one for every text a provider answered with.                              *)
Absent == 0
OnTarget == 1
Target(f) == IF f \in Existing THEN OnTarget ELSE Absent

TaskStatus == {"applied", "noop", "pending", "error", "skipped"}

FileChange ==
  [task : Nat, file : File, status : TaskStatus,
   from : Nat, to : Nat,
   provider : Provider \cup {"nobody"}, primary : Provider \cup {"nobody"},
   primaryFailed : BOOLEAN]

(* The declared provider order (provider_policy._CHAINS).                    *)
Chain(risk) ==
  CASE risk = "low"    -> <<"gemini", "openrouter", "claude">>
    [] risk = "medium" -> <<"openrouter", "gemini", "claude">>
    [] risk = "high"   -> <<"claude">>

(* A forced provider must be on the declared chain, and is then all of it.   *)
Admissible(risk) ==
  force = NoForce \/ \E i \in DOMAIN Chain(risk) : Chain(risk)[i] = force

(* The worker takes no --force-provider; ci refuses a name it does not know  *)
(* before it does anything, preview in its preflight.                        *)
Override(c) == {f \in Forces : /\ c = "worker" => f = NoForce
                               /\ c = "ci" => f # "unknown"}

EffectiveChain(risk) == IF force = NoForce THEN Chain(risk) ELSE <<force>>

(* Seeded fault: credentials are not looked at.                              *)
AnyLink(risk, n) == {i \in DOMAIN EffectiveChain(risk) : i >= n}

(* Links of the chain from n on that have a credential: the others are       *)
(* skipped without a call.                                                   *)
Callable(risk, n) ==
  {i \in DOMAIN EffectiveChain(risk) : i >= n /\ EffectiveChain(risk)[i] \in eligible}

IsFirst(i, S) == i \in S /\ \A j \in S : i <= j

(* What the dependencies of a plan must satisfy to be ordered at all.        *)
WellFormed(p) ==
  /\ \A i, j \in DOMAIN p : i # j => p[i].id # p[j].id
  /\ \A i \in DOMAIN p : \A d \in p[i].deps : \E j \in DOMAIN p : p[j].id = d

(* No task may lack a file: it would be an analysis, not an edit.            *)
NamesFiles(p) == \A i \in DOMAIN p : p[i].files # << >>

RisksOf(p) == {p[i].risk : i \in DOMAIN p}

(* What preview asks before the staging directory and the run are touched:   *)
(* every risk level of the plan has a provider it may use.                   *)
Preflight == \A r \in RisksOf(plan) : Admissible(r) /\ Callable(r, 1) # {}

(* The positions a task waits for, and those already in order.               *)
DepsOf(i) == {j \in DOMAIN plan : plan[j].id \in plan[i].deps}
Ordered == {order[k] : k \in DOMAIN order}

(* Seeded fault: only the first task that remains is a candidate.            *)
ReadyInTurn == {i \in DOMAIN plan \ Ordered : /\ DepsOf(i) \subseteq Ordered
                                            /\ 1 .. i - 1 \subseteq Ordered}

(* candidates: the tasks of which every dependency is resolved.              *)
Ready == {i \in DOMAIN plan \ Ordered : DepsOf(i) \subseteq Ordered}

Current == order[at]
CurrentTask == plan[Current]
CurrentFile == CurrentTask.files[fileAt]

Blocking == {"error", "skipped", "pending"}

(* A file already staged is edited further; otherwise the target's is.       *)
Original(f) == IF staging[f] # Absent THEN staging[f] ELSE Target(f)

(* Seeded fault: the status is kept as the provider step spells it.          *)
RawWorst(S) == IF "pending" \in S THEN "pending_human_review" ELSE "noop"

(* The worst status of a task's files decides for the tasks that need it.    *)
Worst(S) ==
  CASE "error" \in S   -> "error"
    [] "error" \notin S /\ "pending" \in S -> "pending"
    [] "error" \notin S /\ "pending" \notin S /\ "applied" \in S -> "applied"
    [] OTHER -> "noop"

(* A FileChange, with its original_content and modified_content.             *)
Change(file, status, to, provider, primary) ==
  [task |-> Current, file |-> file, status |-> status,
   from |-> Original(file), to |-> to,
   provider |-> provider, primary |-> primary,
   primaryFailed |-> primary \in failed]

(* A change no answer of a provider stands behind.                           *)
Unanswered(file, status) == Change(file, status, Absent, "nobody", "nobody")

(* The first provider with a credential counts as the primary.               *)
Primary == LET risk == CurrentTask.risk
           IN  EffectiveChain(risk)[CHOOSE i \in Callable(risk, 1) :
                                      IsFirst(i, Callable(risk, 1))]

(* A delivered change another provider than the primary produced is reported *)
(* as a fallback, with the primary's failure.                                *)
IsFallback(c) == /\ c.status \in {"applied", "noop", "pending"}
                 /\ c.provider # "nobody" /\ c.primary # "nobody"
                 /\ c.provider # c.primary

(* The lists ExecutorOutput sorts the changes into: applied, pending_review, *)
(* noop, errors and skipped.                                                 *)
WithStatus(s) == {k \in DOMAIN changes : changes[k].status = s}

Terminal == {"refused", "raised", "done"}

-----------------------------------------------------------------------------

Init ==
  /\ caller \in Callers /\ plan \in Plans /\ force \in Override(caller)
  /\ eligible \in SUBSET Provider
  /\ execution = 0
  /\ pc = "idle" /\ cause = "none"
  /\ order = << >> /\ at = 1 /\ results = << >>
  /\ fileAt = 1 /\ statuses = {}
  /\ attempt = 0 /\ link = 1 /\ failed = {}
  /\ changes = << >>
  /\ staging = [f \in File |-> Absent]
  /\ writes = OnTarget

(* An exception leaves the executor: nothing it has collected is returned.   *)
Raise(why) ==
  /\ pc' = "raised"
  /\ cause' = why
  /\ UNCHANGED <<input, execution, scheduler, fileAt, statuses, call, changes>>

(* preview stops before it starts the executor.                              *)
Refuse ==
  /\ pc = "idle" /\ caller = "preview" /\ ~Preflight
  /\ pc' = "refused"
  /\ execution' = execution + 1
  /\ UNCHANGED <<input, cause, scheduler, fileAt, statuses, call, changes,
                 staging, writes>>

(* Seeded fault: what an earlier execution staged is kept.                   *)
KeepStaging == UNCHANGED staging

(* preview and ci empty the staging directory before every execution; the    *)
(* worker's stays.                                                           *)
FreshStaging ==
  IF caller \in {"preview", "ci"} THEN staging' = [f \in File |-> Absent]
                                  ELSE UNCHANGED staging

(* Only preview checks the providers beforehand.                             *)
Started == /\ pc = "idle"
           /\ caller = "preview" => Preflight

(* The worker hands its config over as the second positional argument, which *)
(* is run_id: an ExecutorOutput with that run_id cannot be made.             *)
Misbound == caller = "worker"

Faults ==
  CASE ~NamesFiles(plan)   -> "analysis only"
    [] NamesFiles(plan) /\ force = "unknown" -> "force_provider"
    [] NamesFiles(plan) /\ force # "unknown" /\ Misbound -> "arguments"
    [] NamesFiles(plan) /\ force # "unknown" /\ ~Misbound /\ ~WellFormed(plan) -> "plan"
    [] OTHER -> "none"

Begin ==
  /\ Started
  /\ FreshStaging
  /\ execution' = execution + 1
  /\ cause' = Faults
  /\ pc' = IF Faults = "none" THEN "ordering" ELSE "raised"
  /\ UNCHANGED <<input, scheduler, fileAt, statuses, call, changes, writes>>

(* _topological_order: the first task of the plan whose dependencies are all *)
(* ordered comes next.                                                       *)
PickReady == \E i \in Ready : IsFirst(i, Ready) /\ order' = Append(order, i)

Order ==
  /\ pc = "ordering" /\ Ready # {}
  /\ PickReady
  /\ UNCHANGED <<input, execution, pc, cause, at, results, fileAt, statuses,
                 call, changes, staging, writes>>

Cycle ==
  /\ pc = "ordering" /\ Ready = {} /\ Ordered # DOMAIN plan
  /\ Raise("cycle")
  /\ UNCHANGED <<staging, writes>>

RunTasks ==
  /\ pc = "ordering" /\ Ordered = DOMAIN plan
  /\ pc' = "task"
  /\ results' = [i \in DOMAIN plan |-> "none"]
  /\ UNCHANGED <<input, execution, cause, order, at, fileAt, statuses, call,
                 changes, staging, writes>>

(* Seeded fault: a dependency that waits for a human does not hold a task up.*)
FailedDepsOnly(i) == \E j \in DepsOf(i) : results[j] \in {"error", "skipped"}

(* The dependency check before a task.                                       *)
Blocked(i) == \E j \in DepsOf(i) : results[j] \in Blocking

SkipTask ==
  /\ pc = "task" /\ at <= Len(order) /\ Blocked(Current)
  /\ changes' = Append(changes, Unanswered(CurrentTask.files[1], "skipped"))
  /\ results' = [results EXCEPT ![Current] = "skipped"]
  /\ at' = at + 1
  /\ UNCHANGED <<input, execution, pc, cause, order, fileAt, statuses, call,
                 staging, writes>>

StartTask ==
  /\ pc = "task" /\ at <= Len(order) /\ ~Blocked(Current)
  /\ pc' = "file"
  /\ fileAt' = 1
  /\ statuses' = {}
  /\ UNCHANGED <<input, execution, cause, scheduler, call, changes, staging,
                 writes>>

(* Seeded fault: the last file of a task is left out.                        *)
EndTaskEarly ==
  /\ pc = "file" /\ fileAt >= Len(CurrentTask.files)
  /\ results' = [results EXCEPT ![Current] = Worst(statuses)]
  /\ at' = at + 1
  /\ pc' = "task"
  /\ UNCHANGED <<input, execution, cause, order, fileAt, statuses, call,
                 changes, staging, writes>>

EndTask ==
  /\ pc = "file" /\ fileAt > Len(CurrentTask.files)
  /\ results' = [results EXCEPT ![Current] = Worst(statuses)]
  /\ at' = at + 1
  /\ pc' = "task"
  /\ UNCHANGED <<input, execution, cause, order, fileAt, statuses, call,
                 changes, staging, writes>>

Finish ==
  /\ pc = "task" /\ at > Len(order)
  /\ pc' = "done"
  /\ UNCHANGED <<input, execution, cause, scheduler, fileAt, statuses, call,
                 changes, staging, writes>>

(* _apply_task hands its change back and the loop goes on with the next file.*)
Record(c) ==
  /\ changes' = Append(changes, c)
  /\ statuses' = statuses \cup {c.status}
  /\ fileAt' = fileAt + 1
  /\ pc' = "file"
  /\ UNCHANGED <<input, execution, cause, scheduler, call>>

AtFile == pc = "file" /\ fileAt <= Len(CurrentTask.files)

(* A path that leaves the target, and a forced provider that is not on the   *)
(* chain of the task's risk, end the whole execution.                        *)
StopAtFile ==
  /\ AtFile
  /\ \/ CurrentFile \in Unsafe /\ Raise("unsafe path")
     \/ /\ CurrentFile \notin Unsafe /\ CurrentFile \notin Large
        /\ ~Admissible(CurrentTask.risk)
        /\ Raise("policy")
  /\ UNCHANGED <<staging, writes>>

(* A long file is not sent to a provider; an edit may have made it so.       *)
TooLarge ==
  /\ AtFile /\ CurrentFile \notin Unsafe
  /\ CurrentFile \in Large \/ staging[CurrentFile] # Absent
  /\ Record(Unanswered(CurrentFile, "error"))
  /\ UNCHANGED <<staging, writes>>

StartFile ==
  /\ AtFile /\ CurrentFile \notin Unsafe \cup Large
  /\ Admissible(CurrentTask.risk)
  /\ pc' = "call"
  /\ attempt' = 0 /\ link' = 1 /\ failed' = {}
  /\ UNCHANGED <<input, execution, cause, scheduler, fileAt, statuses,
                 changes, staging, writes>>

-----------------------------------------------------------------------------

(* The provider whose turn it is.                                            *)
Turn(i) == pc = "call" /\ IsFirst(i, Callable(CurrentTask.risk, link))

(* Seeded fault: the passes are not counted.                                 *)
RetryForever ==
  /\ pc = "call" /\ Callable(CurrentTask.risk, link) = {}
  /\ link' = 1 /\ failed' = {}
  /\ UNCHANGED <<input, execution, pc, cause, scheduler, fileAt, statuses,
                 attempt, changes, staging, writes>>

(* Every provider of the chain has failed: once more, or give the file up.   *)
Exhausted ==
  /\ pc = "call" /\ Callable(CurrentTask.risk, link) = {}
  /\ \/ /\ attempt = 0
        /\ attempt' = 1 /\ link' = 1 /\ failed' = {}
        /\ UNCHANGED <<input, execution, pc, cause, scheduler, fileAt,
                       statuses, changes>>
     \/ attempt = 1 /\ Record(Unanswered(CurrentFile, "error"))
  /\ UNCHANGED <<staging, writes>>

(* An open breaker, an API or HTTP error, or an empty answer: the next one.  *)
Fails ==
  \E i \in 1 .. 3 :
    /\ Turn(i)
    /\ link' = i + 1
    /\ failed' = failed \cup {EffectiveChain(CurrentTask.risk)[i]}
    /\ UNCHANGED <<input, execution, pc, cause, scheduler, fileAt, statuses,
                   attempt, changes, staging, writes>>

(* Any other exception is not caught.                                        *)
Explodes ==
  /\ \E i \in 1 .. 3 : Turn(i)
  /\ Raise("provider")
  /\ UNCHANGED <<staging, writes>>

(* An answer that does not parse is an error of the task, and the next       *)
(* provider is not asked.                                                    *)
Broken ==
  \E i \in 1 .. 3 :
    /\ Turn(i) /\ CurrentFile \in Python
    /\ Record(Change(CurrentFile, "error", Absent,
                     EffectiveChain(CurrentTask.risk)[i], Primary))
    /\ UNCHANGED <<staging, writes>>

(* The answer is the file as it was.                                         *)
Unchanged ==
  \E i \in 1 .. 3 :
    /\ Turn(i) /\ Original(CurrentFile) # Absent
    /\ Record(Change(CurrentFile, "noop", Original(CurrentFile),
                     EffectiveChain(CurrentTask.risk)[i], Primary))
    /\ UNCHANGED <<staging, writes>>

(* An accepted edit is staged, unless the task is of high risk.              *)
Stage(to) == IF CurrentTask.risk = "high" THEN UNCHANGED staging
             ELSE staging' = [staging EXCEPT ![CurrentFile] = to]

Edited ==
  \E i \in 1 .. 3 :
    /\ Turn(i)
    /\ writes' = writes + 1
    /\ Record(Change(CurrentFile,
                     IF CurrentTask.risk = "high" THEN "pending" ELSE "applied",
                     writes', EffectiveChain(CurrentTask.risk)[i], Primary))
    /\ Stage(writes')

-----------------------------------------------------------------------------

(* The process dies: only the staging directory is left.                     *)
Crash ==
  /\ pc \notin Terminal \cup {"idle", "dead"}
  /\ pc' = "dead"
  /\ UNCHANGED <<input, execution, cause, scheduler, fileAt, statuses, call,
                 changes, staging, writes>>

(* The command is given again, or the job is taken over: with the same plan, *)
(* perhaps with other credentials or another --force-provider.               *)
Rerun ==
  /\ pc \in Terminal \cup {"dead"} /\ execution < MaxExecutions
  /\ pc' = "idle" /\ cause' = "none"
  /\ force' \in Override(caller) /\ eligible' \in SUBSET Provider
  /\ order' = << >> /\ at' = 1 /\ results' = << >>
  /\ fileAt' = 1 /\ statuses' = {}
  /\ attempt' = 0 /\ link' = 1 /\ failed' = {}
  /\ changes' = << >>
  /\ UNCHANGED <<caller, plan, execution, staging, writes>>

Schedule == Refuse \/ Begin \/ Order \/ Cycle \/ RunTasks \/ SkipTask
            \/ StartTask \/ EndTask \/ Finish
Files == StopAtFile \/ TooLarge \/ StartFile
Answers == Exhausted \/ Fails \/ Explodes \/ Broken \/ Unchanged \/ Edited

Work == Schedule \/ Files \/ Answers

Next == Work \/ Crash \/ Rerun

Spec == Init /\ [][Next]_vars

(* A running execution takes its next step: every call has a timeout.        *)
FairSpec == Spec /\ WF_vars(Work)

-----------------------------------------------------------------------------

(* Type invariant.                                                           *)
TypeOK ==
  /\ caller \in Callers /\ plan \in Plans /\ force \in Forces
  /\ eligible \in SUBSET Provider
  /\ execution \in 0 .. MaxExecutions
  /\ pc \in Terminal \cup {"idle", "ordering", "task", "file", "call", "dead"}
  /\ cause \in {"none", "analysis only", "force_provider", "arguments", "plan",
                "cycle", "unsafe path", "policy", "provider"}
  /\ order \in Seq(DOMAIN plan)
  /\ at \in Nat \ {0}
  /\ results = << >> \/ results \in [DOMAIN plan -> TaskStatus \cup {"none"}]
  /\ fileAt \in Nat \ {0}
  /\ statuses \subseteq TaskStatus
  /\ attempt \in 0 .. 1 /\ link \in 1 .. 4
  /\ failed \subseteq Provider
  /\ changes \in Seq(FileChange)
  /\ staging \in [File -> Nat]
  /\ writes \in Nat

Decided(i) == results # << >> /\ results[i] # "none"

(* A task is skipped exactly if a task it depends on failed, was skipped or  *)
(* waits for a human, whatever the order the plan lists them in: when a task *)
(* is decided, so are all it depends on, and no edit is built on a missing   *)
(* one.                                                                      *)
DependentsStop ==
  \A i \in DOMAIN plan : Decided(i) =>
    /\ \A j \in DepsOf(i) : Decided(j)
    /\ results[i] = "skipped" <=>
         \E j \in DepsOf(i) : results[j] \in {"error", "skipped", "pending"}

(* A circle of dependencies: tasks of which each needs one of them.          *)
Circle(S) == S # {} /\ \A i \in S : DepsOf(i) \cap S # {}
HasCircle == \E S \in SUBSET DOMAIN plan : Circle(S)

(* The scheduler gives up exactly the plans that cannot be ordered: an       *)
(* execution is stopped for a cycle only if the plan has one, however its    *)
(* tasks are listed, and no task of a plan that has one is ever started.     *)
CyclesAreReal ==
  /\ cause = "cycle" => HasCircle
  /\ pc \in {"task", "file", "call", "done"} => ~HasCircle

ChangesOf(i) == {k \in DOMAIN changes : changes[k].task = i}

(* No task and no file of it gets lost: an execution that ends normally has  *)
(* decided every task, with exactly one change for every file of a task it   *)
(* ran, and one for a task it skipped.                                       *)
NothingLost ==
  pc = "done" =>
    \A i \in DOMAIN plan :
      /\ Decided(i)
      /\ Cardinality(ChangesOf(i)) =
           IF results[i] = "skipped" THEN 1 ELSE Len(plan[i].files)
      /\ results[i] # "skipped" =>
           {changes[k].file : k \in ChangesOf(i)} =
             {plan[i].files[n] : n \in DOMAIN plan[i].files}

(* The applied changes of a file among the first n, and the content          *)
(* the last of them leads to: the one at hand if there is none.              *)
AppliedTo(cs, f, n) ==
  {k \in DOMAIN cs : cs[k].status = "applied" /\ cs[k].file = f /\ k <= n}

IsLast(k, S) == k \in S /\ \A l \in S : l <= k

LeadsTo(cs, f, n, first, content) ==
  LET ks == AppliedTo(cs, f, n)
  IN  \/ ks = {} /\ content = first
      \/ \E k \in ks : IsLast(k, ks) /\ content = cs[k].to

(* The staging directory and the changes of the execution tell the same      *)
(* story of every file: the applied changes follow one another, the first    *)
(* from the target's text and each other one from where the one before led,  *)
(* and the last leads to what is staged; a file without one is not staged.   *)
(* So no text of an execution that was killed or refused before gets under   *)
(* the changes of this one.  It speaks of the texts FileChange keeps; what   *)
(* Git makes of the diffs between them is left out.                          *)
StagingFollowsChanges ==
  pc \in {"ordering", "task", "file", "call", "done"} =>
    /\ \A f \in File : LeadsTo(changes, f, Len(changes), Absent, staging[f])
    /\ \A k \in WithStatus("applied") :
         LET c == changes[k]
         IN  LeadsTo(changes, c.file, k - 1, Target(c.file), c.from)

(* The change of one answer obeys the provider policy.                       *)
Routed(c) ==
  LET risk == plan[c.task].risk
  IN  /\ c.provider \in eligible
      /\ \E n \in DOMAIN Chain(risk) : Chain(risk)[n] = c.provider
      /\ force \in {NoForce, c.provider}
      /\ risk = "high" => c.status # "applied"
      /\ c.status = "pending" => c.provider = "claude"
      /\ IsFallback(c) => c.primaryFailed
      /\ c.provider = c.primary => ~c.primaryFailed

(* Every answer came from a provider the risk of the task allows, that has a *)
(* credential and, under --force-provider, is the forced one; only claude    *)
(* answers for a high-risk task, whose edits are proposed and never staged;  *)
(* a fallback is reported exactly when the primary provider failed.  And     *)
(* preview, which asks beforehand, never leaves a staging directory half     *)
(* written because of the policy.                                            *)
RoutedByPolicy ==
  /\ \A k \in DOMAIN changes : changes[k].provider # "nobody" => Routed(changes[k])
  /\ caller = "preview" => cause # "policy"

(* An execution that was started ends, by itself or by the death of its      *)
(* process, whatever the providers answer.                                   *)
ExecutionEnds == pc = "ordering" ~> pc \in Terminal \cup {"dead"}

(* "Execute one LLM stage. Signatures match the existing agent modules       *)
(* verbatim." (storage/work_queue.py): a plan the executor takes from the    *)
(* other commands is not refused for the arguments of the worker's call.     *)
SignaturesMatch == cause # "arguments"

=============================================================================
