---------------------------- MODULE WorkerPipeline ----------------------------
(***************************************************************************)
(* What a worker of the queue does with a job: the five stages of          *)
(* _execute_pipeline_with_resume and the phases of                         *)
(* _execute_apply_with_checkpoints (orchestrator/storage/work_queue.py).   *)
(*                                                                         *)
(* WorkQueue takes the pipeline for one step; here it runs step by step,   *)
(* and a worker may die or fail between any two.  What survives is the     *)
(* checkpoint table, the artifact store, the run's directory with the      *)
(* clone and apply.json (unless the machine is replaced), the branch on    *)
(* the remote and its pull request.  A later delivery of the job goes on   *)
(* from there.                                                             *)
(***************************************************************************)
EXTENDS WorkQueue

CONSTANTS
  Patch,           \* what the Executor may produce
  None,            \* no patch, no branch
  Base,            \* the commit the run started from
  WorkspaceLosses, \* TRUE: the run's directory may be lost between deliveries
  UndoFails        \* TRUE: the commands that undo an attempt may fail

(* What lies in a tree, or went into a commit, beside the patch: nothing, the *)
(* files the target's tools wrote or changed in this attempt, or also what an *)
(* earlier attempt had left there.                                            *)
Files == {"clean", "tools", "leftover"}

(* A commit of the run, by what it adds to Base.                              *)
Content == [patch : Patch \cup {None}, files : Files]

ASSUME PipelineAssumption ==
  /\ None \notin Patch /\ Base \notin Patch /\ None # Base /\ None \notin Content
  /\ WorkspaceLosses \in BOOLEAN /\ UndoFails \in BOOLEAN

VARIABLES
  at,      \* worker -> where it is in the pipeline
  made,    \* worker -> the Executor's output it holds in memory
  ckpt,    \* run -> its rows in pipeline_checkpoint; executor: the checksum
  stored,  \* run -> patch.diff in the artifact store
  local,   \* run -> patch.diff in the run's directory
  clone,   \* run -> the clone in the run's directory
  wal,     \* run -> status in apply.json
  remote   \* run -> what its branch on the remote contains

data == <<ckpt, stored, local, clone, wal, remote>>
detail == <<at, made, data>>
table == <<queue, locked, prs, breaker, workers>>

-----------------------------------------------------------------------------

Stages == {"scout", "architect", "executor", "validator"}

AfterStage(stage) ==
  CASE stage = "scout" -> "architect"
    [] stage = "architect" -> "executor"
    [] stage = "executor" -> "validator"
    [] stage = "validator" -> "apply"

Phases == {"begin", "stored", "written", "apply", "undo_pr", "undo_push",
           "undo_local", "undo_log", "fresh", "branch", "patch",
           "validating", "commit", "committed", "push", "pushed", "pr", "opened",
           "finish", "returned"}

(* A checkpoint of the executor holds the checksum of its patch; the others   *)
(* are there or not.                                                          *)
Checkpoints == [stages : SUBSET Stages, patch : Patch \cup {None}]

(* onRun: HEAD is on the run's branch; branch: the commit that branch is at;  *)
(* tree: the patch that is applied and not committed; files: what else in the *)
(* tree is not committed.                                                     *)
Clone == [there : BOOLEAN, onRun : BOOLEAN, branch : Content \cup {None, Base},
          tree : Patch \cup {None}, files : Files]

NoClone ==
  [there |-> FALSE, onRun |-> FALSE, branch |-> None, tree |-> None, files |-> "clean"]

Statuses == {"none", "applying", "committed_local", "pushed_remote", "pr_created", "applied"}

(* The worker goes from one place in the pipeline to the next. *)
Step(w, from, to) ==
  /\ at[w] = from
  /\ at' = [at EXCEPT ![w] = to]

(* The worker is out of the pipeline, its locals are gone. *)
Exit(w) ==
  /\ at' = [at EXCEPT ![w] = "idle"]
  /\ made' = [made EXCEPT ![w] = None]

WriteLog(w, status) == wal' = [wal EXCEPT ![job[w]] = status]

-----------------------------------------------------------------------------

PipelineInit ==
  /\ Init
  /\ at = [w \in Worker |-> "idle"]
  /\ made = [w \in Worker |-> None]
  /\ ckpt = [j \in RunId |-> [stages |-> {}, patch |-> None]]
  /\ stored = [j \in RunId |-> None]
  /\ local = [j \in RunId |-> None]
  /\ clone = [j \in RunId |-> NoClone]
  /\ wal = [j \in RunId |-> "none"]
  /\ remote = [j \in RunId |-> None]

(* The worker has found no open pull request. *)
Start(w) ==
  /\ LookupFindsNone(w)
  /\ at' = [at EXCEPT ![w] = "begin"]
  /\ UNCHANGED <<made, data>>

(* _hydrate_workspace and _ensure_clone. *)
Begin(w) ==
  /\ Step(w, "begin", "scout")
  /\ clone' = [clone EXCEPT ![job[w]].there = TRUE]
  /\ UNCHANGED <<made, ckpt, stored, local, wal, remote, table>>

(* A stage with a checkpoint is not run again.  The executor's patch is read  *)
(* back from the artifact store and compared with the checksum; a mismatch is *)
(* an exception.                                                              *)
HydrateStage(w, stage) ==
  /\ Step(w, stage, AfterStage(stage))
  /\ stage \in ckpt[job[w]].stages
  /\ IF stage = "executor"
     THEN /\ stored[job[w]] = ckpt[job[w]].patch
          /\ local' = [local EXCEPT ![job[w]] = stored[job[w]]]
     ELSE UNCHANGED local
  /\ UNCHANGED <<made, ckpt, stored, clone, wal, remote, table>>

(* A stage whose only trace is its artifact and its checkpoint. *)
RunStage(w, stage) ==
  /\ stage # "executor"
  /\ Step(w, stage, AfterStage(stage))
  /\ stage \notin ckpt[job[w]].stages
  /\ ckpt' = [ckpt EXCEPT ![job[w]].stages = @ \cup {stage}]
  /\ UNCHANGED <<made, stored, local, clone, wal, remote, table>>

(* Seeded fault: the executor's checkpoint is not looked at. *)
StorePatchAgain(w) ==
  /\ Step(w, "executor", "stored")
  /\ \E x \in Patch : /\ made' = [made EXCEPT ![w] = x]
                      /\ stored' = [stored EXCEPT ![job[w]] = x]
  /\ UNCHANGED <<ckpt, local, clone, wal, remote, table>>

(* The executor's patch passed the gate and is written three times: to the    *)
(* artifact store, to the run's directory, to the checkpoint.                 *)
StorePatch(w) ==
  /\ Step(w, "executor", "stored")
  /\ "executor" \notin ckpt[job[w]].stages
  /\ \E x \in Patch : /\ made' = [made EXCEPT ![w] = x]
                      /\ stored' = [stored EXCEPT ![job[w]] = x]
  /\ UNCHANGED <<ckpt, local, clone, wal, remote, table>>

WritePatch(w) ==
  /\ Step(w, "stored", "written")
  /\ local' = [local EXCEPT ![job[w]] = made[w]]
  /\ UNCHANGED <<made, ckpt, stored, clone, wal, remote, table>>

CheckpointPatch(w) ==
  /\ Step(w, "written", "validator")
  /\ ckpt' = [ckpt EXCEPT ![job[w]] =
                [stages |-> @.stages \cup {"executor"}, patch |-> made[w]]]
  /\ UNCHANGED <<made, stored, local, clone, wal, remote, table>>

-----------------------------------------------------------------------------

(* Seeded fault: an attempt that had pushed counts as applied. *)
ReadLogPushed(w) ==
  /\ at[w] = "apply"
  /\ \/ wal[job[w]] \in {"pushed_remote", "applied"} /\ Step(w, "apply", "returned")
     \/ wal[job[w]] = "none" /\ Step(w, "apply", "fresh")
     \/ wal[job[w]] \notin {"none", "pushed_remote", "applied"} /\ Step(w, "apply", "undo_pr")
  /\ UNCHANGED <<made, data, table>>

(* An earlier attempt left apply.json: it was applied, or it is undone by its *)
(* status; or there was none.                                                 *)
ReadLog(w) ==
  /\ at[w] = "apply"
  /\ \/ wal[job[w]] = "applied" /\ Step(w, "apply", "returned")
     \/ wal[job[w]] = "none" /\ Step(w, "apply", "fresh")
     \/ wal[job[w]] \notin {"none", "applied"} /\ Step(w, "apply", "undo_pr")
  /\ UNCHANGED <<made, data, table>>

(* What an undoing command does to its target; its failure is suppressed.     *)
Undone(done, new, old) == IF done THEN new ELSE old

Attempt(due) == IF due THEN (IF UndoFails THEN BOOLEAN ELSE {TRUE}) ELSE {FALSE}

UndoPullRequest(w) ==
  /\ Step(w, "undo_pr", "undo_push")
  /\ \E done \in Attempt(wal[job[w]] = "pr_created") :
       prs' = [prs EXCEPT ![job[w]] = Undone(done /\ @ = "open", "closed", @)]
  /\ UNCHANGED <<made, data, queue, locked, breaker, workers>>

(* GitHub closes the pull request of a branch that is deleted.                *)
UndoPush(w) ==
  /\ Step(w, "undo_push", "undo_local")
  /\ \E done \in Attempt(wal[job[w]] \in {"pr_created", "pushed_remote"}) :
       /\ remote' = [remote EXCEPT ![job[w]] = Undone(done, None, @)]
       /\ prs' = [prs EXCEPT ![job[w]] = Undone(done /\ @ = "open", "closed", @)]
  /\ UNCHANGED <<made, ckpt, stored, local, clone, wal, queue, locked, breaker, workers>>

(* force_reset_apply: reset --hard moves the branch HEAD is on, clean -fd     *)
(* takes the files git does not track; nobody looks at the answer of either.  *)
AfterReset(c) ==
  LET hard == [c EXCEPT !.tree = None, !.branch = IF c.onRun THEN Base ELSE None]
      clean == [hard EXCEPT !.files = "clean"]
  IN  IF UndoFails THEN {c, hard, clean} ELSE {clean}

(* git refuses to delete the branch HEAD is on, and the worker does not look  *)
(* at that answer either.                                                     *)
UndoLocal(w) ==
  /\ Step(w, "undo_local", "undo_log")
  /\ \E c \in AfterReset(clone[job[w]]) : clone' = [clone EXCEPT ![job[w]] = c]
  /\ UNCHANGED <<made, ckpt, stored, local, wal, remote, table>>

UndoLog(w) ==
  /\ Step(w, "undo_log", "fresh")
  /\ WriteLog(w, "none")
  /\ UNCHANGED <<made, ckpt, stored, local, clone, remote, table>>

StartLog(w) ==
  /\ Step(w, "fresh", "branch")
  /\ WriteLog(w, "applying")
  /\ UNCHANGED <<made, ckpt, stored, local, clone, remote, table>>

(* git checkout -b: refused when there is such a branch already.              *)
CreateBranch(w) ==
  /\ Step(w, "branch", "patch")
  /\ clone[job[w]].branch = None
  /\ clone' = [clone EXCEPT ![job[w]].onRun = TRUE, ![job[w]].branch = Base]
  /\ UNCHANGED <<made, ckpt, stored, local, wal, remote, table>>

(* What an earlier attempt had left in the tree stays there beside the patch. *)
ApplyPatch(w) ==
  /\ Step(w, "patch", "validating")
  /\ clone' = [clone EXCEPT
       ![job[w]].tree = local[job[w]],
       ![job[w]].files = IF @ = "clean" /\ clone[job[w]].tree = None THEN "clean" ELSE "leftover"]
  /\ UNCHANGED <<made, ckpt, stored, local, wal, remote, table>>

(* The tools run in the clone itself, where they may write and change files.  *)
AfterTools(c) ==
  {c, [c EXCEPT !.files = IF @ = "leftover" THEN "leftover" ELSE "tools"]}

ValidateTree(w) ==
  /\ Step(w, "validating", "commit")
  /\ \E c \in AfterTools(clone[job[w]]) : clone' = [clone EXCEPT ![job[w]] = c]
  /\ UNCHANGED <<made, ckpt, stored, local, wal, remote, table>>

(* git add -A and git commit: everything that lies in the tree.  A commit of  *)
(* nothing is refused.                                                        *)
Commit(w) ==
  /\ Step(w, "commit", "committed")
  /\ LET c == clone[job[w]]
     IN  /\ c.tree # None \/ c.files # "clean"
         /\ clone' = [clone EXCEPT ![job[w]] =
              [c EXCEPT !.branch = [patch |-> c.tree, files |-> c.files],
                        !.tree = None, !.files = "clean"]]
  /\ UNCHANGED <<made, ckpt, stored, local, wal, remote, table>>

LogCommit(w) ==
  /\ Step(w, "committed", "push")
  /\ WriteLog(w, "committed_local")
  /\ UNCHANGED <<made, ckpt, stored, local, clone, remote, table>>

(* The remote has no such branch; a branch of an earlier attempt is another   *)
(* commit, and git refuses the push.                                          *)
Push(w) ==
  /\ Step(w, "push", "pushed")
  /\ remote[job[w]] = None
  /\ remote' = [remote EXCEPT ![job[w]] = clone[job[w]].branch]
  /\ UNCHANGED <<made, ckpt, stored, local, clone, wal, table>>

(* Seeded fault: the log is ahead of the pull request. *)
LogPushAhead(w) ==
  /\ Step(w, "pushed", "pr")
  /\ WriteLog(w, "pr_created")
  /\ UNCHANGED <<made, ckpt, stored, local, clone, remote, table>>

LogPush(w) ==
  /\ Step(w, "pushed", "pr")
  /\ WriteLog(w, "pushed_remote")
  /\ UNCHANGED <<made, ckpt, stored, local, clone, remote, table>>

CreatePr(w) ==
  /\ Step(w, "pr", "opened")
  /\ remote[job[w]] # None
  /\ OpenPr(w)
  /\ UNCHANGED <<made, data>>

LogPr(w) ==
  /\ Step(w, "opened", "finish")
  /\ WriteLog(w, "pr_created")
  /\ UNCHANGED <<made, ckpt, stored, local, clone, remote, table>>

(* Seeded fault: the job is acknowledged along with the log, by a worker that *)
(* still holds it.                                                            *)
LogAppliedAcknowledges(w) ==
  /\ Step(w, "finish", "returned")
  /\ WriteLog(w, "applied")
  /\ Update(w, Settled(w, "completed"))
  /\ UNCHANGED <<made, ckpt, stored, local, clone, remote, locked, prs, breaker, workers>>

LogApplied(w) ==
  /\ Step(w, "finish", "returned")
  /\ WriteLog(w, "applied")
  /\ UNCHANGED <<made, ckpt, stored, local, clone, remote, table>>

-----------------------------------------------------------------------------

(* The loop records that the pipeline returned. *)
Return(w) ==
  /\ at[w] = "returned"
  /\ Update(w, Settled(w, "completed"))
  /\ Release(w)
  /\ Exit(w)
  /\ UNCHANGED <<data, locked, prs, breaker>>

(* A stage meets an open breaker. *)
Reject(w) ==
  /\ at[w] \in Stages
  /\ at[w] \notin ckpt[job[w]].stages
  /\ BreakerRejects(w)
  /\ Exit(w)
  /\ UNCHANGED data

(* Seeded fault: a failed worker keeps its place in the pipeline. *)
RaiseInPlace(w) ==
  /\ at[w] \notin {"idle", "apply", "undo_pr", "undo_push", "undo_local", "undo_log", "branch"}
  /\ FailTransient(w)
  /\ UNCHANGED detail

(* An exception that counts as transient: a timeout, a file or database that  *)
(* could not be written, a checksum mismatch, a refused push, an answer of    *)
(* GitHub that did not arrive, a completion that could not be recorded.       *)
Raise(w) ==
  /\ at[w] \notin {"idle", "apply", "undo_pr", "undo_push", "undo_local", "undo_log", "branch"}
  /\ FailTransient(w)
  /\ Exit(w)
  /\ UNCHANGED data

(* A deterministic error: a bad payload, no run.json, an unusable answer, a   *)
(* patch the gate blocks, a corrupt apply.json, a branch that exists, a       *)
(* commit that fails.                                                         *)
Refuse(w) ==
  /\ at[w] \in Stages \cup {"begin", "apply", "fresh", "branch", "commit"}
  /\ FailDeterministic(w)
  /\ Exit(w)
  /\ UNCHANGED data

(* The patch does not apply, or the patched tree is not authorized after the  *)
(* tools ran in it: reset, and the branch HEAD is on stays.                   *)
RollBack(w) ==
  /\ \/ /\ at[w] = "patch"
        /\ \E c \in AfterReset(clone[job[w]]) : clone' = [clone EXCEPT ![job[w]] = c]
     \/ /\ at[w] = "validating"
        /\ \E t \in AfterTools(clone[job[w]]) :
             \E c \in AfterReset(t) : clone' = [clone EXCEPT ![job[w]] = c]
  /\ FailDeterministic(w)
  /\ Exit(w)
  /\ UNCHANGED <<ckpt, stored, local, wal, remote>>

(* In the pipeline or while it looks for the pull request. *)
Die(w) ==
  /\ Abandon(w)
  /\ Exit(w)
  /\ UNCHANGED data

(* The machine is replaced while no worker uses the run's directory. *)
LoseWorkspace(j) ==
  /\ WorkspaceLosses
  /\ \A w \in Worker : Busy(w) => job[w] # j
  /\ clone[j].there
  /\ clone' = [clone EXCEPT ![j] = NoClone]
  /\ local' = [local EXCEPT ![j] = None]
  /\ wal' = [wal EXCEPT ![j] = "none"]
  /\ UNCHANGED <<at, made, ckpt, stored, remote, table>>

(* The branch of a merged or closed pull request is deleted on GitHub. *)
DeleteBranch(j) ==
  /\ prs[j] = "closed"
  /\ remote[j] # None
  /\ remote' = [remote EXCEPT ![j] = None]
  /\ UNCHANGED <<at, made, ckpt, stored, local, clone, wal, table>>

StageStep(w) ==
  \/ Begin(w)
  \/ \E stage \in Stages : HydrateStage(w, stage) \/ RunStage(w, stage)
  \/ StorePatch(w) \/ WritePatch(w) \/ CheckpointPatch(w)

ApplyStep(w) ==
  \/ ReadLog(w) \/ UndoPullRequest(w) \/ UndoPush(w) \/ UndoLocal(w) \/ UndoLog(w)
  \/ StartLog(w) \/ CreateBranch(w) \/ ApplyPatch(w) \/ ValidateTree(w)
  \/ Commit(w) \/ LogCommit(w) \/ Push(w) \/ LogPush(w)
  \/ CreatePr(w) \/ LogPr(w) \/ LogApplied(w)

Ending(w) ==
  Return(w) \/ Reject(w) \/ Raise(w) \/ Refuse(w) \/ RollBack(w) \/ Die(w)

(* The steps of the loop and of its surroundings that are not about the       *)
(* pipeline.                                                                  *)
LoopStep ==
  /\ \/ \E i \in Issue : Enqueue(i)
     \/ \E w \in Worker :
          \/ Backpressure(w) \/ Poll(w) \/ Dequeue(w) \/ DequeueNothing(w)
          \/ LookupFails(w) \/ LookupFindsPr(w)
          \/ \E next \in {"closed", "open", "half_open"} :
               at[w] \in Stages \cup {"validating"} /\ WorkerCall(w, next)
     \/ \E j \in RunId : ClosePr(j)
     \/ \E next \in {"closed", "open", "half_open"} : ExternalCall(next)
     \/ Tick
  /\ UNCHANGED detail

PipelineNext ==
  \/ LoopStep
  \/ \E w \in Worker : Start(w) \/ StageStep(w) \/ ApplyStep(w) \/ Ending(w)
  \/ \E j \in RunId : LoseWorkspace(j) \/ DeleteBranch(j)

PipelineSpec == PipelineInit /\ [][PipelineNext]_<<table, detail>>

-----------------------------------------------------------------------------

(* The types of the pipeline's variables; a worker is in the pipeline exactly *)
(* while the loop has it running.                                             *)
PipelineTypeOK ==
  /\ TypeOK
  /\ at \in [Worker -> {"idle"} \cup Stages \cup Phases]
  /\ made \in [Worker -> Patch \cup {None}]
  /\ ckpt \in [RunId -> Checkpoints]
  /\ stored \in [RunId -> Patch \cup {None}]
  /\ local \in [RunId -> Patch \cup {None}]
  /\ clone \in [RunId -> Clone]
  /\ wal \in [RunId -> Statuses]
  /\ remote \in [RunId -> Content \cup {None, Base}]
  /\ \A w \in Worker : at[w] # "idle" <=> pc[w] = "running"

(* The pipeline is one step of the queue's worker: what it does to the table, *)
(* the leases and the pull requests is what the queue allows.                 *)
ImplementsQueue == Init /\ [][Next]_vars

(* What is on the remote was made in one go from the patch that passed the    *)
(* gate and was checkpointed, however often the job was delivered and         *)
(* whatever was lost: another patch is not in it, nor is anything an earlier  *)
(* attempt left in the clone.  The files the target's tools wrote while the   *)
(* patch was validated are in it, as the code has it.                         *)
PushedIsCheckpointed ==
  \A j \in RunId :
    remote[j] # None => /\ remote[j].patch = ckpt[j].patch
                        /\ remote[j].files # "leftover"

(* apply.json never claims a pull request that was not opened, so that an     *)
(* attempt that finds "applied" may return at once.                           *)
LogNotAhead ==
  \A j \in RunId : wal[j] \in {"pr_created", "applied"} => prs[j] # "none"

(* Undoing an attempt never takes the branch away from an open pull request:  *)
(* the loop looks for one before.                                             *)
OpenPrKeepsBranch ==
  [][\A j \in RunId : prs[j] = "open" /\ remote[j] # None => remote'[j] # None]_<<table, detail>>

=============================================================================
