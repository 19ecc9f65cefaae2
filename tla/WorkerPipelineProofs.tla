------------------------- MODULE WorkerPipelineProofs -------------------------
(***************************************************************************)
(* The pipeline with its checkpoints and its write-ahead log does what     *)
(* the queue allows and loses no work, for any workers, jobs and patches,  *)
(* also when workers outlive their leases and share a clone.               *)
(***************************************************************************)
EXTENDS WorkerPipeline, WorkQueueProofs

(* Where the worker's pull request has been opened. *)
Opened(w) == at[w] \in {"opened", "finish", "returned"} => prs[job[w]] # "none"

PipelineInv ==
  /\ PipelineTypeOK
  /\ LogNotAhead
  /\ \A w \in Worker : Opened(w)

-----------------------------------------------------------------------------

(* A worker in the pipeline holds a job of the table. *)
LEMMA InPipeline ==
  ASSUME PipelineTypeOK, NEW w \in Worker, at[w] # "idle"
  PROVE  pc[w] = "running" /\ Busy(w) /\ job[w] \in DOMAIN queue /\ job[w] \in RunId
<1>1. pc[w] = "running"
  BY DEF PipelineTypeOK
<1>2. Busy(w)
  BY <1>1 DEF Busy
<1>3. job[w] \in DOMAIN queue /\ queue \in Seq(Row) /\ Len(queue) <= MaxJobs
  BY <1>2 DEF PipelineTypeOK, TypeOK
<1>4. DOMAIN queue = 1 .. Len(queue)
  BY <1>3
<1>5. MaxJobs \in Nat /\ Len(queue) \in Nat
  BY <1>3, QueueAssumption
<1> QED
  BY <1>1, <1>2, <1>3, <1>4, <1>5 DEF RunId

(* The undoing of a pull request is the queue's ClosePr or leaves it alone. *)
LEMMA Closing ==
  ASSUME PipelineTypeOK, NEW w \in Worker, at[w] # "idle", NEW done \in BOOLEAN,
         prs' = [prs EXCEPT ![job[w]] = Undone(done /\ @ = "open", "closed", @)],
         UNCHANGED <<queue, locked, breaker, workers>>
  PROVE  [Next]_vars
<1>1. job[w] \in RunId
  BY InPipeline
<1>2. prs \in [RunId -> {"none", "open", "closed"}]
  BY DEF PipelineTypeOK, TypeOK
<1>3. CASE done /\ prs[job[w]] = "open"
  <2>1. prs' = [prs EXCEPT ![job[w]] = "closed"]
    BY <1>1, <1>2, <1>3 DEF Undone
  <2>2. ClosePr(job[w])
    BY <1>3, <2>1 DEF ClosePr
  <2> QED
    BY <1>1, <2>2 DEF Next
<1>4. CASE ~(done /\ prs[job[w]] = "open")
  <2>1. prs' = prs
    BY <1>1, <1>2, <1>4 DEF Undone
  <2> QED
    BY <2>1 DEF vars
<1> QED
  BY <1>3, <1>4

(* Every step of the pipeline is a step of the queue or leaves its tables     *)
(* alone.                                                                     *)
LEMMA QueueStep ==
  ASSUME PipelineInv, PipelineNext
  PROVE  [Next]_vars
<1>1. PipelineTypeOK
  BY DEF PipelineInv
<1>2. CASE LoopStep
  BY <1>2 DEF LoopStep, Next, Lookup
<1>3. ASSUME NEW w \in Worker, Start(w) PROVE [Next]_vars
  BY <1>3 DEF Start, Next, Lookup
<1>4. ASSUME NEW w \in Worker, StageStep(w) PROVE [Next]_vars
  <2>1. UNCHANGED table
    BY <1>4 DEF StageStep, Begin, HydrateStage, RunStage, StorePatch, WritePatch, CheckpointPatch
  <2> QED
    BY <2>1 DEF table, vars
<1>5. ASSUME NEW w \in Worker, ApplyStep(w) PROVE [Next]_vars
  <2>1. CASE UndoPullRequest(w)
    <3>1. at[w] # "idle"
      BY <2>1 DEF UndoPullRequest, Step
    <3>2. Attempt(wal[job[w]] = "pr_created") \subseteq BOOLEAN
      BY DEF Attempt
    <3>3. PICK done \in Attempt(wal[job[w]] = "pr_created") :
            prs' = [prs EXCEPT ![job[w]] = Undone(done /\ @ = "open", "closed", @)]
      BY <2>1 DEF UndoPullRequest
    <3>4. UNCHANGED <<queue, locked, breaker, workers>>
      BY <2>1 DEF UndoPullRequest
    <3> QED
      BY <1>1, <3>1, <3>2, <3>3, <3>4, Closing
  <2>2. CASE UndoPush(w)
    <3>1. at[w] # "idle"
      BY <2>2 DEF UndoPush, Step
    <3>2. Attempt(wal[job[w]] \in {"pr_created", "pushed_remote"}) \subseteq BOOLEAN
      BY DEF Attempt
    <3>3. PICK done \in Attempt(wal[job[w]] \in {"pr_created", "pushed_remote"}) :
            prs' = [prs EXCEPT ![job[w]] = Undone(done /\ @ = "open", "closed", @)]
      BY <2>2 DEF UndoPush
    <3>4. UNCHANGED <<queue, locked, breaker, workers>>
      BY <2>2 DEF UndoPush
    <3> QED
      BY <1>1, <3>1, <3>2, <3>3, <3>4, Closing
  <2>3. CASE CreatePr(w)
    BY <2>3 DEF CreatePr, Next
  <2>4. CASE ~(UndoPullRequest(w) \/ UndoPush(w) \/ CreatePr(w))
    <3>1. UNCHANGED table
      BY <1>5, <2>4 DEF ApplyStep, ReadLog, UndoLocal, UndoLog, StartLog, CreateBranch, ApplyPatch,
        ValidateTree, Commit, LogCommit, Push, LogPush, LogPr, LogApplied
    <3> QED
      BY <3>1 DEF table, vars
  <2> QED
    BY <2>1, <2>2, <2>3, <2>4
<1>6. ASSUME NEW w \in Worker, Ending(w) PROVE [Next]_vars
  <2>1. CASE Return(w)
    <3>1. at[w] = "returned"
      BY <2>1 DEF Return
    <3>2. pc[w] = "running" /\ prs[job[w]] # "none"
      BY <1>1, <3>1, InPipeline DEF PipelineInv, Opened
    <3>3. Complete(w)
      BY <2>1, <3>2 DEF Return, Complete
    <3> QED
      BY <3>3 DEF Next, Ends
  <2>2. CASE ~Return(w)
    BY <1>6, <2>2 DEF Ending, Reject, Raise, Refuse, RollBack, Die, Next, Ends
  <2> QED
    BY <2>1, <2>2
<1>7. ASSUME NEW j \in RunId, LoseWorkspace(j) \/ DeleteBranch(j) PROVE [Next]_vars
  BY <1>7 DEF LoseWorkspace, DeleteBranch, table, vars
<1> QED
  BY <1>2, <1>3, <1>4, <1>5, <1>6, <1>7 DEF PipelineNext

-----------------------------------------------------------------------------

(* A run that had a pull request has had one ever after.                      *)
LEMMA OnceOpened ==
  ASSUME TypeOK, [Next]_vars, NEW j \in RunId, prs[j] # "none"
  PROVE  prs'[j] # "none"
<1>1. prs \in [RunId -> {"none", "open", "closed"}]
  BY DEF TypeOK
<1>2. ASSUME NEW w \in Worker, OpenPr(w) PROVE prs'[j] # "none"
  BY <1>1, <1>2 DEF OpenPr
<1>3. ASSUME NEW k \in RunId, ClosePr(k) PROVE prs'[j] # "none"
  BY <1>1, <1>3 DEF ClosePr
<1> QED
  BY <1>2, <1>3, StepCases DEF Finish, vars, Enqueue, Dequeue, Abandon, Poll, DequeueNothing,
     LookupFindsNone, Tick, WorkerCall, ExternalCall, BreakerStep

-----------------------------------------------------------------------------

(* A step inside the pipeline moves one worker from place to place.           *)
LEMMA InnerMoves ==
  ASSUME PipelineInv, NEW w \in Worker, StageStep(w) \/ ApplyStep(w)
  PROVE  /\ UNCHANGED <<workers, queue>>
         /\ at[w] # "idle"
         /\ \E p \in Stages \cup Phases :
              /\ at' = [at EXCEPT ![w] = p]
              /\ p \in {"opened", "finish", "returned"} => prs'[job[w]] # "none"
<1>1. PipelineTypeOK /\ Opened(w)
  BY DEF PipelineInv
<1>2. CASE StageStep(w)
  BY <1>2 DEF StageStep, Begin, HydrateStage, RunStage, StorePatch, WritePatch,
     CheckpointPatch, Step, table, AfterStage, Stages, Phases
<1>3. CASE CreatePr(w)
  <2>1. prs' = [prs EXCEPT ![job[w]] = "open"] /\ UNCHANGED <<workers, queue>>
    BY <1>3 DEF CreatePr, OpenPr
  <2>2. at[w] = "pr" /\ at' = [at EXCEPT ![w] = "opened"]
    BY <1>3 DEF CreatePr, Step
  <2>3. job[w] \in RunId
    BY <1>1, <2>2, InPipeline
  <2>4. prs'[job[w]] = "open"
    BY <1>1, <2>1, <2>3 DEF PipelineTypeOK, TypeOK
  <2> QED
    BY <2>1, <2>2, <2>4 DEF Phases
<1>4. CASE ReadLog(w)
  <2>1. at[w] = "apply" /\ UNCHANGED table
    BY <1>4 DEF ReadLog
  <2>2. job[w] \in RunId
    BY <1>1, <2>1, InPipeline
  <2>3. wal[job[w]] = "applied" => prs[job[w]] # "none"
    BY <2>2 DEF PipelineInv, LogNotAhead
  <2> QED
    BY <1>4, <2>1, <2>3 DEF ReadLog, Step, Phases, table
<1>5. CASE LogPr(w) \/ LogApplied(w)
  BY <1>1, <1>5 DEF LogPr, LogApplied, Step, Opened, Phases, table
<1>6. CASE UndoPullRequest(w) \/ UndoPush(w)
  BY <1>6 DEF UndoPullRequest, UndoPush, Step, Phases
<1>7. CASE UndoLocal(w) \/ UndoLog(w) \/ StartLog(w) \/ CreateBranch(w) \/ ApplyPatch(w)
           \/ ValidateTree(w) \/ Commit(w) \/ LogCommit(w) \/ Push(w) \/ LogPush(w)
  BY <1>7 DEF UndoLocal, UndoLog, StartLog, CreateBranch, ApplyPatch, ValidateTree, Commit,
     LogCommit, Push, LogPush, Step, Phases, table
<1> QED
  BY <1>2, <1>3, <1>4, <1>5, <1>6, <1>7 DEF ApplyStep

(* Places and the loop's own program counters agree, and where a pull request *)
(* is taken for opened it is.                                                 *)
LEMMA PlaceStep ==
  ASSUME PipelineInv, PipelineNext, NEW v \in Worker
  PROVE  Opened(v)' /\ (at'[v] # "idle" <=> pc'[v] = "running")
<1>1. PipelineTypeOK /\ Opened(v) /\ TypeOK
  BY DEF PipelineInv, PipelineTypeOK
<1>2. at[v] # "idle" <=> pc[v] = "running"
  BY DEF PipelineInv, PipelineTypeOK
<1>3. /\ at \in [Worker -> {"idle"} \cup Stages \cup Phases]
      /\ pc \in [Worker -> {"poll", "ready", "checking", "running"}]
      /\ job \in [Worker -> 0 .. MaxJobs]
  BY <1>1 DEF PipelineTypeOK, TypeOK
<1>4. at[v] # "idle" /\ prs[job[v]] # "none" => prs'[job[v]] # "none"
  BY <1>1, QueueStep, OnceOpened, InPipeline
<1>5. CASE at'[v] = at[v] /\ job'[v] = job[v] /\ pc'[v] = pc[v]
  BY <1>1, <1>2, <1>4, <1>5 DEF Opened
<1>6. CASE at'[v] = at[v] /\ pc[v] # "running" /\ pc'[v] # "running"
  BY <1>2, <1>6 DEF Opened
<1>7. CASE LoopStep
  <2>1. UNCHANGED at
    BY <1>7 DEF LoopStep, detail
  <2>2. CASE UNCHANGED workers
    BY <1>5, <2>1, <2>2 DEF workers
  <2>3. ASSUME NEW w \in Worker,
               Poll(w) \/ Dequeue(w) \/ DequeueNothing(w) \/ LookupFails(w) \/ LookupFindsPr(w)
        PROVE  Opened(v)' /\ (at'[v] # "idle" <=> pc'[v] = "running")
    BY <1>3, <1>5, <1>6, <2>1, <2>3
       DEF Poll, Dequeue, DequeueNothing, LookupFails, LookupFindsPr, Release
  <2>4. CASE Tick
    BY <1>5, <2>1, <2>4 DEF Tick
  <2> QED
    BY <1>7, <2>2, <2>3, <2>4 DEF LoopStep, Enqueue, Backpressure, ClosePr, WorkerCall,
       ExternalCall, BreakerStep, vars
<1>8. ASSUME NEW w \in Worker, Start(w)
      PROVE  Opened(v)' /\ (at'[v] # "idle" <=> pc'[v] = "running")
  BY <1>3, <1>5, <1>8 DEF Start, LookupFindsNone, Opened
<1>9. ASSUME NEW w \in Worker, StageStep(w) \/ ApplyStep(w)
      PROVE  Opened(v)' /\ (at'[v] # "idle" <=> pc'[v] = "running")
  <2>1. PICK p \in Stages \cup Phases :
          /\ at' = [at EXCEPT ![w] = p]
          /\ p \in {"opened", "finish", "returned"} => prs'[job[w]] # "none"
    BY <1>9, InnerMoves
  <2>2. UNCHANGED workers /\ at[w] # "idle" /\ p # "idle"
    BY <1>9, InnerMoves DEF Stages, Phases
  <2>3. CASE v = w
    BY <1>2, <1>3, <2>1, <2>2, <2>3 DEF workers, Opened
  <2>4. CASE v # w
    BY <1>3, <1>5, <2>1, <2>2, <2>4 DEF workers
  <2> QED
    BY <2>3, <2>4
<1>10. ASSUME NEW w \in Worker, Ending(w)
       PROVE  Opened(v)' /\ (at'[v] # "idle" <=> pc'[v] = "running")
  <2>1. Release(w) /\ Exit(w)
    BY <1>10 DEF Ending, Return, Reject, Raise, Refuse, RollBack, Die,
       BreakerRejects, FailTransient, FailDeterministic, Abandon
  <2> QED
    BY <1>3, <1>5, <2>1 DEF Release, Exit, Opened
<1>11. ASSUME NEW j \in RunId, LoseWorkspace(j) \/ DeleteBranch(j)
       PROVE  Opened(v)' /\ (at'[v] # "idle" <=> pc'[v] = "running")
  BY <1>5, <1>11 DEF LoseWorkspace, DeleteBranch, table, workers
<1> QED
  BY <1>7, <1>8, <1>9, <1>10, <1>11 DEF PipelineNext

-----------------------------------------------------------------------------

(* What the steps keep, whoever takes them.                                   *)
Stored ==
  /\ at \in [Worker -> {"idle"} \cup Stages \cup Phases]
  /\ made \in [Worker -> Patch \cup {None}]
  /\ ckpt \in [RunId -> Checkpoints]
  /\ stored \in [RunId -> Patch \cup {None}]
  /\ local \in [RunId -> Patch \cup {None}]
  /\ clone \in [RunId -> Clone]
  /\ wal \in [RunId -> Statuses]
  /\ remote \in [RunId -> Content \cup {None, Base}]

LEMMA ResetTypes ==
  ASSUME NEW c \in Clone, NEW r \in AfterReset(c)
  PROVE  r \in Clone
<1> DEFINE hard == [c EXCEPT !.tree = None, !.branch = IF c.onRun THEN Base ELSE None]
<1>1. hard \in Clone
  BY DEF Clone
<1>2. [hard EXCEPT !.files = "clean"] \in Clone
  <2> HIDE DEF hard
  <2> QED
    BY <1>1 DEF Clone, Files
<1> QED
  BY <1>1, <1>2 DEF AfterReset

LEMMA ToolTypes ==
  ASSUME NEW c \in Clone, NEW t \in AfterTools(c)
  PROVE  t \in Clone
  BY DEF AfterTools, Clone, Files

LEMMA StageStores ==
  ASSUME PipelineInv, NEW w \in Worker, StageStep(w)
  PROVE  Stored'
<1>1. PipelineTypeOK /\ Stored
  BY DEF PipelineInv, PipelineTypeOK, Stored
<1>2. job[w] \in RunId
  BY <1>1, InnerMoves, InPipeline
<1>3. at' \in [Worker -> {"idle"} \cup Stages \cup Phases]
  BY <1>1, InnerMoves DEF Stored
<1>4. CASE Begin(w)
  BY <1>1, <1>2, <1>3, <1>4 DEF Begin, Stored, Clone
<1>5. ASSUME NEW stage \in Stages, HydrateStage(w, stage) PROVE Stored'
  BY <1>1, <1>2, <1>3, <1>5 DEF HydrateStage, Stored
<1>6. ASSUME NEW stage \in Stages, RunStage(w, stage) PROVE Stored'
  <2>1. ckpt[job[w]].stages \cup {stage} \in SUBSET Stages
    BY <1>1, <1>2 DEF Stored, Checkpoints
  <2>2. ckpt' \in [RunId -> Checkpoints]
    BY <1>1, <1>2, <1>6, <2>1 DEF RunStage, Stored, Checkpoints
  <2> QED
    BY <1>1, <1>3, <1>6, <2>2 DEF RunStage, Stored
<1>7. CASE StorePatch(w)
  BY <1>1, <1>2, <1>3, <1>7 DEF StorePatch, Stored
<1>8. CASE WritePatch(w)
  BY <1>1, <1>2, <1>3, <1>8 DEF WritePatch, Stored
<1>9. CASE CheckpointPatch(w)
  <2>1. ckpt[job[w]].stages \cup {"executor"} \in SUBSET Stages /\ made[w] \in Patch \cup {None}
    BY <1>1, <1>2 DEF Stored, Checkpoints, Stages
  <2>2. ckpt' \in [RunId -> Checkpoints]
    BY <1>1, <1>2, <1>9, <2>1 DEF CheckpointPatch, Stored, Checkpoints
  <2> QED
    BY <1>1, <1>3, <1>9, <2>2 DEF CheckpointPatch, Stored
<1> QED
  BY <1>4, <1>5, <1>6, <1>7, <1>8, <1>9 DEF StageStep

LEMMA ApplyStores ==
  ASSUME PipelineInv, NEW w \in Worker, ApplyStep(w)
  PROVE  Stored'
<1>1. PipelineTypeOK /\ Stored
  BY DEF PipelineInv, PipelineTypeOK, Stored
<1>2. job[w] \in RunId
  BY <1>1, InnerMoves, InPipeline
<1>3. at' \in [Worker -> {"idle"} \cup Stages \cup Phases]
  BY <1>1, InnerMoves DEF Stored
<1>4. clone[job[w]] \in Clone /\ local[job[w]] \in Patch \cup {None}
  BY <1>1, <1>2 DEF Stored
<1>5. CASE ReadLog(w) \/ UndoPullRequest(w) \/ CreatePr(w)
  BY <1>1, <1>3, <1>5 DEF ReadLog, UndoPullRequest, CreatePr, data, Stored
<1>6. CASE UndoPush(w) \/ Push(w)
  BY <1>1, <1>2, <1>3, <1>4, <1>6 DEF UndoPush, Push, Undone, Stored, Clone
<1>7. CASE UndoLog(w) \/ StartLog(w) \/ LogCommit(w) \/ LogPush(w) \/ LogPr(w) \/ LogApplied(w)
  BY <1>1, <1>2, <1>3, <1>7 DEF UndoLog, StartLog, LogCommit, LogPush, LogPr, LogApplied,
     WriteLog, Statuses, Stored
<1>8. CASE UndoLocal(w)
  <2>1. PICK c \in AfterReset(clone[job[w]]) : clone' = [clone EXCEPT ![job[w]] = c]
    BY <1>8 DEF UndoLocal
  <2>2. c \in Clone
    BY <1>4, ResetTypes
  <2> QED
    BY <1>1, <1>2, <1>3, <1>8, <2>1, <2>2 DEF UndoLocal, Stored
<1>9. CASE CreateBranch(w) \/ ApplyPatch(w) \/ ValidateTree(w) \/ Commit(w)
  <2>1. PICK c \in Clone : clone' = [clone EXCEPT ![job[w]] = c]
    <3>1. CASE CreateBranch(w)
      <4>1. [clone[job[w]] EXCEPT !.onRun = TRUE, !.branch = Base] \in Clone
        BY <1>4 DEF Clone
      <4> QED
        BY <1>1, <1>2, <3>1, <4>1 DEF CreateBranch, Stored, Clone
    <3>2. CASE ApplyPatch(w)
      <4> DEFINE f == IF clone[job[w]].files = "clean" /\ clone[job[w]].tree = None
                     THEN "clean" ELSE "leftover"
                 c == [clone[job[w]] EXCEPT !.tree = local[job[w]], !.files = f]
      <4>1. c \in Clone
        BY <1>4 DEF Clone, Files
      <4>2. clone' = [clone EXCEPT ![job[w]] = c]
        BY <1>1, <1>2, <1>4, <3>2 DEF ApplyPatch, Stored, Clone
      <4> QED
        BY <4>1, <4>2
    <3>3. CASE ValidateTree(w)
      BY <1>4, <3>3, ToolTypes DEF ValidateTree
    <3>4. CASE Commit(w)
      <4> DEFINE new == [patch |-> clone[job[w]].tree, files |-> clone[job[w]].files]
      <4>1. new \in Content
        BY <1>4 DEF Clone, Content
      <4>2. [clone[job[w]] EXCEPT !.branch = new, !.tree = None, !.files = "clean"] \in Clone
        <5> HIDE DEF new
        <5> QED
          BY <1>4, <4>1 DEF Clone, Files
      <4> QED
        BY <3>4, <4>2 DEF Commit
    <3> QED
      BY <1>9, <3>1, <3>2, <3>3, <3>4
  <2>2. clone' \in [RunId -> Clone]
    BY <1>1, <1>2, <2>1 DEF Stored
  <2> QED
    BY <1>1, <1>3, <1>9, <2>2 DEF CreateBranch, ApplyPatch, ValidateTree, Commit, Stored
<1> QED
  BY <1>5, <1>6, <1>7, <1>8, <1>9 DEF ApplyStep

LEMMA StoredStep ==
  ASSUME PipelineInv, PipelineNext
  PROVE  Stored'
<1>1. PipelineTypeOK /\ Stored
  BY DEF PipelineInv, PipelineTypeOK, Stored
<1>2. CASE LoopStep
  BY <1>1, <1>2 DEF LoopStep, detail, data, Stored
<1>3. ASSUME NEW w \in Worker, Start(w) PROVE Stored'
  BY <1>1, <1>3 DEF Start, data, Stored, Phases
<1>4. ASSUME NEW w \in Worker, Ending(w) PROVE Stored'
  <2>1. at' \in [Worker -> {"idle"} \cup Stages \cup Phases] /\ made' \in [Worker -> Patch \cup {None}]
    BY <1>1, <1>4 DEF Ending, Return, Reject, Raise, Refuse, RollBack, Die, Exit, Stored
  <2>2. CASE RollBack(w)
    <3>1. at[w] # "idle"
      BY <2>2 DEF RollBack
    <3>2. job[w] \in RunId /\ clone[job[w]] \in Clone
      BY <1>1, <3>1, InPipeline DEF Stored
    <3>3. PICK c \in Clone : clone' = [clone EXCEPT ![job[w]] = c]
      BY <2>2, <3>2, ResetTypes, ToolTypes DEF RollBack
    <3> QED
      BY <1>1, <2>1, <2>2, <3>2, <3>3 DEF RollBack, Stored
  <2>3. CASE ~RollBack(w)
    BY <1>1, <1>4, <2>1, <2>3 DEF Ending, Return, Reject, Raise, Refuse, Die, data, Stored
  <2> QED
    BY <2>2, <2>3
<1>5. ASSUME NEW j \in RunId, LoseWorkspace(j) PROVE Stored'
  BY <1>1, <1>5 DEF LoseWorkspace, NoClone, Clone, Files, Statuses, Stored
<1>6. ASSUME NEW j \in RunId, DeleteBranch(j) PROVE Stored'
  BY <1>1, <1>6 DEF DeleteBranch, Stored
<1> QED
  BY <1>2, <1>3, <1>4, <1>5, <1>6, StageStores, ApplyStores DEF PipelineNext

-----------------------------------------------------------------------------

(* The log is written after what it claims.                                   *)
LEMMA LogStep ==
  ASSUME PipelineInv, PipelineNext
  PROVE  LogNotAhead'
<1>1. PipelineTypeOK /\ LogNotAhead /\ TypeOK /\ wal \in [RunId -> Statuses]
  BY DEF PipelineInv, PipelineTypeOK
<1>2. \A j \in RunId : prs[j] # "none" => prs'[j] # "none"
  BY <1>1, QueueStep, OnceOpened
<1>3. CASE UNCHANGED wal
  BY <1>1, <1>2, <1>3 DEF LogNotAhead
<1>4. ASSUME NEW w \in Worker, NEW status, WriteLog(w, status), at[w] # "idle",
             status \in {"pr_created", "applied"} => prs[job[w]] # "none"
      PROVE  LogNotAhead'
  <2>1. job[w] \in RunId
    BY <1>1, <1>4, InPipeline
  <2> QED
    BY <1>1, <1>2, <1>4, <2>1 DEF WriteLog, LogNotAhead
<1>5. ASSUME NEW w \in Worker, LogPr(w) \/ LogApplied(w) PROVE LogNotAhead'
  <2>1. at[w] \in {"opened", "finish"}
    BY <1>5 DEF LogPr, LogApplied, Step
  <2>2. prs[job[w]] # "none"
    BY <2>1 DEF PipelineInv, Opened
  <2> QED
    BY <1>4, <1>5, <2>1, <2>2 DEF LogPr, LogApplied
<1>6. ASSUME NEW w \in Worker, UndoLog(w) \/ StartLog(w) \/ LogCommit(w) \/ LogPush(w)
      PROVE  LogNotAhead'
  BY <1>4, <1>6 DEF UndoLog, StartLog, LogCommit, LogPush, Step
<1>7. ASSUME NEW j \in RunId, LoseWorkspace(j) PROVE LogNotAhead'
  BY <1>1, <1>2, <1>7 DEF LoseWorkspace, LogNotAhead
<1>8. ASSUME NEW w \in Worker,
             ReadLog(w) \/ UndoPullRequest(w) \/ UndoPush(w) \/ UndoLocal(w) \/ CreateBranch(w)
               \/ ApplyPatch(w) \/ ValidateTree(w) \/ Commit(w) \/ Push(w) \/ CreatePr(w)
      PROVE  UNCHANGED wal
  BY <1>8 DEF ReadLog, UndoPullRequest, UndoPush, UndoLocal, CreateBranch, ApplyPatch,
     ValidateTree, Commit, Push, CreatePr, data
<1>9. ASSUME NEW w \in Worker, StageStep(w) \/ Start(w) \/ Ending(w) PROVE UNCHANGED wal
  BY <1>9 DEF StageStep, Begin, HydrateStage, RunStage, StorePatch, WritePatch, CheckpointPatch,
     Start, Ending, Return, Reject, Raise, Refuse, RollBack, Die, data
<1>10. CASE LoopStep \/ \E j \in RunId : DeleteBranch(j)
  BY <1>3, <1>10 DEF LoopStep, DeleteBranch, detail, data
<1> QED
  BY <1>3, <1>5, <1>6, <1>7, <1>8, <1>9, <1>10 DEF PipelineNext, ApplyStep

LEMMA PipelineInductive ==
  PipelineInv /\ [PipelineNext]_<<table, detail>> => PipelineInv'
<1>1. ASSUME PipelineInv, PipelineNext PROVE PipelineInv'
  <2>1. TypeOK'
    BY <1>1, QueueStep, TypesStep DEF PipelineInv, PipelineTypeOK
  <2>2. \A w \in Worker : Opened(w)' /\ (at'[w] # "idle" <=> pc'[w] = "running")
    BY <1>1, PlaceStep
  <2>3. Stored' /\ LogNotAhead'
    BY <1>1, StoredStep, LogStep
  <2> QED
    BY <2>1, <2>2, <2>3 DEF PipelineInv, PipelineTypeOK, Stored
<1>2. ASSUME PipelineInv, UNCHANGED <<table, detail>> PROVE PipelineInv'
  <2>1. UNCHANGED vars
    BY <1>2 DEF table, vars
  <2>2. TypeOK'
    BY <1>2, <2>1, TypesStep DEF PipelineInv, PipelineTypeOK
  <2> QED
    BY <1>2, <2>2 DEF table, detail, data, workers, PipelineInv, PipelineTypeOK, LogNotAhead, Opened
<1> QED
  BY <1>1, <1>2

LEMMA PipelineStarts == PipelineInit => PipelineInv
<1> SUFFICES ASSUME PipelineInit PROVE PipelineInv
  OBVIOUS
<1>1. TypeOK /\ \A w \in Worker : at[w] = "idle" /\ pc[w] = "poll"
  BY TypesInit DEF PipelineInit, Init
<1>2. Stored
  BY DEF PipelineInit, Stored, Checkpoints, Clone, NoClone, Statuses, Files
<1>3. LogNotAhead
  BY DEF PipelineInit, LogNotAhead
<1> QED
  BY <1>1, <1>2, <1>3 DEF PipelineInv, PipelineTypeOK, Stored, Opened

(* The types of the tables, the files and the workers' places hold in every   *)
(* reachable state, for any workers, jobs and patches.                        *)
THEOREM PipelineTypeCorrect == PipelineSpec => []PipelineTypeOK
<1>1. PipelineInv => PipelineTypeOK
  BY DEF PipelineInv
<1> QED
  BY <1>1, PipelineStarts, PipelineInductive, PTL DEF PipelineSpec

(* apply.json is never ahead of the pull request, whoever died where.         *)
THEOREM PipelineLogNotAhead == PipelineSpec => []LogNotAhead
<1>1. PipelineInv => LogNotAhead
  BY DEF PipelineInv
<1> QED
  BY <1>1, PipelineStarts, PipelineInductive, PTL DEF PipelineSpec

(* The step-by-step pipeline implements the queue that takes it for one step. *)
THEOREM PipelineImplementsQueue == PipelineSpec => ImplementsQueue
<1>1. PipelineInit => Init
  BY DEF PipelineInit
<1>2. PipelineInv /\ [PipelineNext]_<<table, detail>> => [Next]_vars
  BY QueueStep DEF table, vars
<1> QED
  BY <1>1, <1>2, PipelineStarts, PipelineInductive, PTL DEF PipelineSpec, ImplementsQueue

(* Where the loop acknowledges a job, its pull request is there: the pipeline *)
(* opened it in this delivery, or read in the log that it was opened before.  *)
LEMMA ReturnsWithPr ==
  ASSUME PipelineInv, NoLostWork, PipelineNext, NEW w \in Worker, Complete(w)
  PROVE  prs[job[w]] # "none"
<1>1. PipelineTypeOK /\ TypeOK /\ Stored
  BY DEF PipelineInv, PipelineTypeOK, Stored
<1>2. pc[w] = "running" /\ pc'[w] = "poll"
  BY <1>1 DEF Complete, Release, TypeOK
<1>3. at[w] # "idle" /\ at'[w] = "idle"
  BY <1>1, <1>2, PlaceStep DEF PipelineTypeOK
<1>4. job[w] \in DOMAIN queue /\ queue[job[w]] \in Row /\ queue \in Seq(Row)
  <2>1. job[w] \in DOMAIN queue /\ queue \in Seq(Row)
    BY <1>1, <1>3, InPipeline DEF TypeOK
  <2> QED
    BY <2>1
<1>5. queue'[job[w]].status = "completed"
  BY <1>4 DEF Complete, Update, Settled, Row
<1>6. Ending(w)
  <2>1. CASE LoopStep
    BY <1>3, <2>1 DEF LoopStep, detail
  <2>2. ASSUME NEW v \in Worker, Start(v) PROVE FALSE
    BY <1>1, <1>3, <2>2 DEF Start, Stored
  <2>3. ASSUME NEW v \in Worker, StageStep(v) \/ ApplyStep(v) PROVE FALSE
    <3>1. PICK p \in Stages \cup Phases : at' = [at EXCEPT ![v] = p]
      BY <2>3, InnerMoves
    <3> QED
      BY <1>1, <1>3, <3>1 DEF Stored, Stages, Phases
  <2>4. ASSUME NEW v \in Worker, Ending(v), v # w PROVE FALSE
    <3>1. Exit(v)
      BY <2>4 DEF Ending, Return, Reject, Raise, Refuse, RollBack, Die
    <3> QED
      BY <1>1, <1>3, <2>4, <3>1 DEF Exit, Stored
  <2>5. ASSUME NEW j \in RunId, LoseWorkspace(j) \/ DeleteBranch(j) PROVE FALSE
    BY <1>3, <2>5 DEF LoseWorkspace, DeleteBranch
  <2> QED
    BY <2>1, <2>2, <2>3, <2>4, <2>5 DEF PipelineNext
<1>7. CASE Return(w)
  BY <1>7 DEF Return, PipelineInv, Opened
<1>8. CASE Reject(w)
  BY <1>4, <1>5, <1>8 DEF Reject, BreakerRejects, Update, Rescheduled, Row
<1>9. CASE Raise(w)
  <2>1. CASE seen[w] >= 2
    BY <1>4, <1>5, <1>9, <2>1 DEF Raise, FailTransient, Update, Settled, Row
  <2>2. CASE ~(seen[w] >= 2)
    <3> DEFINE row == [Rescheduled(w, Backoff[seen[w] + 1]) EXCEPT !.retries = @ + 1]
    <3>1. Update(w, row)
      BY <1>9, <2>2 DEF Raise, FailTransient
    <3>2. row.status = "pending"
      BY <1>4 DEF Rescheduled, Row
    <3> HIDE DEF row
    <3> QED
      BY <1>4, <1>5, <3>1, <3>2 DEF Update
  <2> QED
    BY <2>1, <2>2
<1>10. CASE Refuse(w) \/ RollBack(w)
  BY <1>4, <1>5, <1>10 DEF Refuse, RollBack, FailDeterministic, Update, Settled, Row
<1>11. CASE Die(w)
  <2>1. queue' = queue
    BY <1>11 DEF Die, Abandon
  <2> QED
    BY <1>4, <1>5, <2>1 DEF NoLostWork
<1> QED
  BY <1>6, <1>7, <1>8, <1>9, <1>10, <1>11 DEF Ending

(* At-least-once: no job is acknowledged unless a pull request was opened for *)
(* it, also when leases are outlived, late UPDATEs overwrite rows and the log *)
(* of an earlier attempt is all that a delivery goes by.                      *)
THEOREM PipelineLosesNoWork == PipelineSpec => []NoLostWork
<1>1. PipelineInit => NoLostWork
  BY DEF PipelineInit, Init, NoLostWork
<1>2. PipelineInv /\ NoLostWork /\ [PipelineNext]_<<table, detail>> => NoLostWork'
  <2>1. ASSUME PipelineInv, NoLostWork, PipelineNext PROVE NoLostWork'
    BY <2>1, QueueStep, ReturnsWithPr, NoLostWorkStep DEF PipelineInv, PipelineTypeOK
  <2>2. ASSUME NoLostWork, UNCHANGED <<table, detail>> PROVE NoLostWork'
    BY <2>2 DEF table, NoLostWork
  <2> QED
    BY <2>1, <2>2
<1> QED
  BY <1>1, <1>2, PipelineStarts, PipelineInductive, PTL DEF PipelineSpec

(* Nor is a job ever tried more often than the queue allows: however an       *)
(* attempt ends among its steps, the loop counts it once.                     *)
THEOREM PipelineRetriesBounded == PipelineSpec => []RetriesBounded
<1> QED
  BY PipelineImplementsQueue, QueueRetriesBounded, PTL DEF ImplementsQueue, Spec

-----------------------------------------------------------------------------

(* From here on no worker outlives its lease.  Then a job's artifacts, clone *)
(* and branch have one writer at a time.                                     *)

(* Where the run's patch has its checkpoint. *)
AfterExecutor == {"validator"} \cup (Phases \ {"begin", "stored", "written"})

(* Where the worker relies on what it finds in the clone.                     *)
InClone == {"patch", "validating", "commit", "committed", "push"}

(* The run's branch is checked out; what is applied and committed there is    *)
(* the patch, and nothing is with it that was there before it.                *)
CloneReady(w) ==
  /\ at[w] \in {"patch", "validating", "commit"} => clone[job[w]].onRun
  /\ at[w] = "patch" => clone[job[w]].tree = None
  /\ at[w] \in {"patch", "validating"} => clone[job[w]].files = "clean"
  /\ at[w] \in {"validating", "commit"} => clone[job[w]].tree = ckpt[job[w]].patch
  /\ at[w] = "commit" => clone[job[w]].files # "leftover"
  /\ at[w] \in {"committed", "push"} => /\ clone[job[w]].branch.patch = ckpt[job[w]].patch
                                        /\ clone[job[w]].branch.files # "leftover"

LEMMA CloneUnused ==
  ASSUME NEW w, at'[w] \notin InClone
  PROVE  CloneReady(w)'
  BY DEF CloneReady, InClone

LEMMA CloneKept ==
  ASSUME NEW w, CloneReady(w), at'[w] = at[w], job'[w] = job[w],
         clone'[job[w]] = clone[job[w]], ckpt'[job[w]] = ckpt[job[w]]
  PROVE  CloneReady(w)'
  BY DEF CloneReady

(* What the worker may rely on at its place: the patch was gated once, and it *)
(* is what it applies, commits and pushes.                                    *)
Gated(w) ==
  /\ at[w] \in {"stored", "written"} => "executor" \notin ckpt[job[w]].stages
  /\ at[w] = "written" => local[job[w]] = made[w]
  /\ at[w] \in AfterExecutor => /\ "executor" \in ckpt[job[w]].stages
                                /\ local[job[w]] = ckpt[job[w]].patch
  /\ CloneReady(w)

(* A branch on the remote grew from the checkpointed patch, which is there    *)
(* first.                                                                     *)
Published(j) ==
  /\ "executor" \notin ckpt[j].stages => remote[j] = None
  /\ remote[j] # None => /\ remote[j].patch = ckpt[j].patch
                         /\ remote[j].files # "leftover"

(* A clone that was never on the run's branch has nothing in its tree, and    *)
(* the branch, once created, stays: an attempt that starts in a clone an      *)
(* earlier one has worked in is refused the branch.                           *)
Untouched(c) ==
  /\ c.branch = None => ~c.onRun
  /\ ~c.onRun => c.tree = None /\ c.files = "clean"

CloneInv == \A j \in RunId : Untouched(clone[j])

(* The loop started the pipeline without an open pull request, and none is    *)
(* opened before the worker opens it itself.                                  *)
Unopened(w) ==
  at[w] \notin {"idle", "opened", "finish", "returned"} => prs[job[w]] # "open"

GateInv ==
  /\ \A w \in Worker : Gated(w) /\ Unopened(w)
  /\ \A j \in RunId : Published(j)

(* The worker is the only one in the pipeline with its job.                   *)
Alone(w) == \A v \in Worker : at[v] # "idle" /\ job[v] = job[w] => v = w

LEMMA LeaseIsolates ==
  ASSUME PipelineTypeOK, LeaseInv, NEW w \in Worker, at[w] # "idle"
  PROVE  Alone(w)
  BY InPipeline DEF LeaseInv, Alone

(* The step is about the job of one worker only.                              *)
Confined(w) ==
  /\ \A v \in Worker \ {w} :
       at'[v] = at[v] /\ job'[v] = job[v] /\ made'[v] = made[v]
  /\ \A j \in RunId \ {job[w]} :
       /\ ckpt'[j] = ckpt[j] /\ local'[j] = local[j] /\ clone'[j] = clone[j]
       /\ remote'[j] = remote[j] /\ prs'[j] = prs[j]

LEMMA ConfinedStep ==
  ASSUME PipelineInv, NEW w \in Worker,
         Start(w) \/ StageStep(w) \/ ApplyStep(w) \/ Ending(w)
  PROVE  Confined(w)
<1>1. PipelineTypeOK /\ Stored /\ TypeOK
  BY DEF PipelineInv, PipelineTypeOK, Stored
<1> USE <1>1 DEF Stored
<1>2. job \in [Worker -> 0 .. MaxJobs] /\ prs \in [RunId -> {"none", "open", "closed"}]
  BY DEF TypeOK
<1>3. CASE Start(w)
  BY <1>3 DEF Start, LookupFindsNone, data, Confined
<1>4. CASE StageStep(w)
  BY <1>4 DEF StageStep, Begin, HydrateStage, RunStage, StorePatch, WritePatch,
     CheckpointPatch, Step, table, workers, Confined
<1>5. CASE ApplyStep(w)
  <2>1. CASE UndoPullRequest(w) \/ UndoPush(w)
    BY <1>2, <2>1 DEF UndoPullRequest, UndoPush, Step, data, workers, Confined
  <2>2. CASE CreatePr(w)
    BY <1>2, <2>2 DEF CreatePr, OpenPr, Step, data, workers, Confined
  <2>3. CASE ReadLog(w) \/ UndoLog(w) \/ StartLog(w) \/ ValidateTree(w) \/ LogCommit(w) \/ LogPush(w)
               \/ LogPr(w) \/ LogApplied(w)
    BY <2>3 DEF ReadLog, UndoLog, StartLog, ValidateTree, LogCommit, LogPush, LogPr, LogApplied,
       Step, data, table, workers, Confined
  <2>4. CASE UndoLocal(w) \/ CreateBranch(w) \/ ApplyPatch(w) \/ Commit(w) \/ Push(w)
    BY <2>4 DEF UndoLocal, CreateBranch, ApplyPatch, Commit, Push, Step, table, workers, Confined
  <2> QED
    BY <1>5, <2>1, <2>2, <2>3, <2>4 DEF ApplyStep
<1>6. CASE Ending(w)
  <2>1. Release(w) /\ Exit(w)
    BY <1>6 DEF Ending, Return, Reject, Raise, Refuse, RollBack, Die,
       BreakerRejects, FailTransient, FailDeterministic, Abandon
  <2>2. UNCHANGED <<ckpt, local, remote, prs>>
    BY <1>6 DEF Ending, Return, Reject, Raise, Refuse, RollBack, Die, data,
       BreakerRejects, FailTransient, FailDeterministic, Abandon
  <2>3. \A j \in RunId \ {job[w]} : clone'[j] = clone[j]
    BY <1>6 DEF Ending, Return, Reject, Raise, Refuse, RollBack, Die, data
  <2> QED
    BY <1>2, <2>1, <2>2, <2>3 DEF Release, Exit, Confined
<1> QED
  BY <1>3, <1>4, <1>5, <1>6

(* What its own step leaves to prove: the worker's place and its job.         *)
LEMMA GateByOwner ==
  ASSUME PipelineInv, LeaseInv, GateInv, NEW w \in Worker, Confined(w),
         at[w] # "idle", job' = job, Gated(w)', Unopened(w)', Published(job[w])'
  PROVE  GateInv'
<1>1. PipelineTypeOK
  BY DEF PipelineInv
<1>2. ASSUME NEW v \in Worker \ {w} PROVE Gated(v)' /\ Unopened(v)'
  <2>1. at'[v] = at[v] /\ job'[v] = job[v] /\ made'[v] = made[v]
    BY DEF Confined
  <2>2. Gated(v) /\ Unopened(v)
    BY DEF GateInv
  <2>3. CASE at[v] = "idle"
    BY <2>1, <2>3, CloneUnused DEF Gated, Unopened, AfterExecutor, Phases, InClone
  <2>4. CASE at[v] # "idle"
    <3>1. job[v] \in RunId \ {job[w]}
      BY <1>1, <2>4, InPipeline, LeaseIsolates DEF Alone
    <3>2. /\ ckpt'[job[v]] = ckpt[job[v]] /\ local'[job[v]] = local[job[v]]
          /\ clone'[job[v]] = clone[job[v]] /\ prs'[job[v]] = prs[job[v]]
      BY <3>1 DEF Confined
    <3>3. Gated(v)'
      BY <2>1, <2>2, <3>2, CloneKept DEF Gated
    <3>4. Unopened(v)'
      BY <2>1, <2>2, <3>2 DEF Unopened
    <3> QED
      BY <3>3, <3>4
  <2> QED
    BY <2>3, <2>4
<1>3. ASSUME NEW j \in RunId PROVE Published(j)'
  <2>1. CASE j = job[w]
    BY <2>1 DEF Published
  <2>2. CASE j # job[w]
    BY <2>2 DEF Published, Confined, GateInv
  <2> QED
    BY <2>1, <2>2
<1> QED
  BY <1>2, <1>3 DEF GateInv

-----------------------------------------------------------------------------

(* The stages: a patch is stored once, and nothing is published before.       *)
LEMMA StageGate ==
  ASSUME PipelineInv, GateInv, NEW w \in Worker, StageStep(w)
  PROVE  Gated(w)' /\ Unopened(w)' /\ Published(job[w])'
<1>1. PipelineTypeOK /\ Stored
  BY DEF PipelineInv, PipelineTypeOK, Stored
<1>2. job[w] \in RunId /\ job' = job /\ UNCHANGED <<prs, remote>>
  BY <1>1, InnerMoves, InPipeline DEF workers, StageStep, Begin, HydrateStage, RunStage, StorePatch,
     WritePatch, CheckpointPatch, table
<1>3. Gated(w) /\ Unopened(w) /\ Published(job[w])
  BY <1>2 DEF GateInv
<1>4. at[w] \notin {"idle", "opened", "finish", "returned"}
  BY DEF StageStep, Begin, HydrateStage, RunStage, StorePatch, WritePatch, CheckpointPatch, Step, Stages
<1>5. Unopened(w)' /\ CloneReady(w)'
  <2>1. at'[w] \notin InClone
    BY <1>1 DEF StageStep, Begin, HydrateStage, RunStage, StorePatch, WritePatch, CheckpointPatch,
       Step, AfterStage, Stages, InClone, Stored
  <2> QED
    BY <1>2, <1>3, <1>4, <2>1, CloneUnused DEF Unopened
<1> USE <1>1, <1>2, <1>3 DEF Stored
<1>6. CASE Begin(w)
  <2>1. at'[w] = "scout" /\ UNCHANGED ckpt
    BY <1>6 DEF Begin, Step
  <2> QED
    BY <1>5, <2>1 DEF Gated, Published, AfterExecutor, Phases
<1>7. ASSUME NEW stage \in Stages, HydrateStage(w, stage)
      PROVE  Gated(w)' /\ Published(job[w])'
  <2>1. at[w] = stage /\ at'[w] = AfterStage(stage) /\ UNCHANGED <<ckpt, clone>>
    BY <1>7 DEF HydrateStage, Step
  <2>2. CASE stage \in {"scout", "architect"}
    BY <1>5, <2>1, <2>2 DEF Gated, Published, AfterExecutor, Phases, AfterStage
  <2>3. CASE stage = "executor"
    <3>1. "executor" \in ckpt[job[w]].stages /\ local'[job[w]] = ckpt[job[w]].patch
      BY <1>7, <2>3 DEF HydrateStage
    <3>2. at'[w] = "validator"
      BY <2>1, <2>3 DEF AfterStage
    <3> QED
      BY <1>5, <2>1, <3>1, <3>2 DEF Gated, Published
  <2>4. CASE stage = "validator"
    <3>1. UNCHANGED local
      BY <1>7, <2>4 DEF HydrateStage
    <3>2. at'[w] = "apply" /\ at[w] \in AfterExecutor
      BY <2>1, <2>4 DEF AfterStage, AfterExecutor
    <3> QED
      BY <1>5, <2>1, <3>1, <3>2 DEF Gated, Published
  <2> QED
    BY <2>2, <2>3, <2>4 DEF Stages
<1>8. ASSUME NEW stage \in Stages, RunStage(w, stage)
      PROVE  Gated(w)' /\ Published(job[w])'
  <2>1. /\ at[w] = stage /\ at'[w] = AfterStage(stage) /\ UNCHANGED <<local, clone>>
        /\ stage # "executor"
    BY <1>8 DEF RunStage, Step
  <2>2. /\ ckpt'[job[w]].patch = ckpt[job[w]].patch
        /\ "executor" \in ckpt'[job[w]].stages <=> "executor" \in ckpt[job[w]].stages
    BY <1>8, <2>1 DEF RunStage, Checkpoints
  <2>3. CASE stage \in {"scout", "architect"}
    BY <1>5, <2>1, <2>2, <2>3 DEF Gated, Published, AfterExecutor, Phases, AfterStage
  <2>4. CASE stage = "validator"
    <3>1. at'[w] = "apply" /\ at[w] \in AfterExecutor
      BY <2>1, <2>4 DEF AfterStage, AfterExecutor
    <3> QED
      BY <1>5, <2>1, <2>2, <3>1 DEF Gated, Published
  <2> QED
    BY <2>1, <2>3, <2>4 DEF Stages
<1>9. CASE StorePatch(w)
  BY <1>5, <1>9 DEF StorePatch, Step, Gated, Published, AfterExecutor, Phases
<1>10. CASE WritePatch(w)
  BY <1>5, <1>10 DEF WritePatch, Step, Gated, Published, AfterExecutor, Phases
<1>11. CASE CheckpointPatch(w)
  <2>1. /\ at[w] = "written" /\ at'[w] = "validator" /\ UNCHANGED local
        /\ ckpt'[job[w]].patch = made[w] /\ "executor" \in ckpt'[job[w]].stages
    BY <1>11 DEF CheckpointPatch, Step
  <2> QED
    BY <1>5, <2>1 DEF Gated, Published
<1> QED
  BY <1>5, <1>6, <1>7, <1>8, <1>9, <1>10, <1>11 DEF StageStep

(* The apply phases work on the checkpointed patch and publish no other.      *)
LEMMA ApplyGate ==
  ASSUME PipelineInv, GateInv, CloneInv, NEW w \in Worker, ApplyStep(w)
  PROVE  Gated(w)' /\ Unopened(w)' /\ Published(job[w])'
<1>1. PipelineTypeOK /\ Stored /\ TypeOK
  BY DEF PipelineInv, PipelineTypeOK, Stored
<1>2. job[w] \in RunId /\ job' = job
  BY <1>1, InnerMoves, InPipeline DEF workers
<1>3. Gated(w) /\ Unopened(w) /\ Published(job[w])
  BY <1>2 DEF GateInv
<1>4. /\ at[w] \in AfterExecutor /\ at'[w] \in Phases \ {"begin", "stored", "written"}
      /\ UNCHANGED <<made, ckpt, local>>
  BY <1>1 DEF ApplyStep, ReadLog, UndoPullRequest, UndoPush, UndoLocal, UndoLog, StartLog, CreateBranch,
     ApplyPatch, ValidateTree, Commit, LogCommit, Push, LogPush, CreatePr, LogPr, LogApplied,
     Step, data, AfterExecutor, Phases, Stored
<1>5. "executor" \in ckpt[job[w]].stages /\ local[job[w]] = ckpt[job[w]].patch
  BY <1>3, <1>4 DEF Gated
<1>6. clone[job[w]] \in Clone /\ Untouched(clone[job[w]]) /\ CloneReady(w)
  BY <1>1, <1>2, <1>3 DEF Stored, CloneInv, Gated
<1>7. Gated(w)'
  <2>1. ASSUME CloneReady(w)' PROVE Gated(w)'
    BY <1>2, <1>4, <1>5, <2>1 DEF Gated, AfterExecutor, Phases
  <2>2. CASE CreateBranch(w)
    <3>1. at'[w] = "patch" /\ clone[job[w]].branch = None
      BY <1>1, <2>2 DEF CreateBranch, Step, Stored
    <3>2. clone[job[w]].tree = None /\ clone[job[w]].files = "clean"
      BY <1>6, <3>1 DEF Untouched
    <3>3. /\ clone'[job[w]].onRun /\ clone'[job[w]].tree = clone[job[w]].tree
          /\ clone'[job[w]].files = clone[job[w]].files
      BY <1>1, <1>2, <1>6, <2>2 DEF CreateBranch, Stored, Clone
    <3> QED
      BY <1>2, <2>1, <3>1, <3>2, <3>3 DEF CloneReady
  <2>3. CASE ApplyPatch(w)
    <3>1. at[w] = "patch" /\ at'[w] = "validating"
      BY <1>1, <2>3 DEF ApplyPatch, Step, Stored
    <3>2. clone[job[w]].onRun /\ clone[job[w]].tree = None /\ clone[job[w]].files = "clean"
      BY <1>6, <3>1 DEF CloneReady
    <3>3. /\ clone'[job[w]].onRun = clone[job[w]].onRun /\ clone'[job[w]].tree = local[job[w]]
          /\ clone'[job[w]].files = "clean"
      BY <1>1, <1>2, <1>6, <2>3, <3>2 DEF ApplyPatch, Stored, Clone
    <3> QED
      BY <1>2, <1>4, <1>5, <2>1, <3>1, <3>2, <3>3 DEF CloneReady
  <2>4. CASE ValidateTree(w)
    <3>1. at[w] = "validating" /\ at'[w] = "commit"
      BY <1>1, <2>4 DEF ValidateTree, Step, Stored
    <3>2. /\ clone[job[w]].onRun /\ clone[job[w]].files = "clean"
          /\ clone[job[w]].tree = ckpt[job[w]].patch
      BY <1>6, <3>1 DEF CloneReady
    <3>3. PICK c \in AfterTools(clone[job[w]]) : clone' = [clone EXCEPT ![job[w]] = c]
      BY <2>4 DEF ValidateTree
    <3>4. c.onRun /\ c.tree = clone[job[w]].tree /\ c.files \in {"clean", "tools"}
      BY <1>6, <3>2 DEF AfterTools, Clone
    <3>5. clone'[job[w]] = c
      BY <1>1, <1>2, <3>3 DEF Stored
    <3> QED
      BY <1>2, <1>4, <2>1, <3>1, <3>2, <3>4, <3>5 DEF CloneReady
  <2>5. CASE Commit(w)
    <3>1. at[w] = "commit" /\ at'[w] = "committed"
      BY <1>1, <2>5 DEF Commit, Step, Stored
    <3>2. clone[job[w]].files # "leftover" /\ clone[job[w]].tree = ckpt[job[w]].patch
      BY <1>6, <3>1 DEF CloneReady
    <3>3. clone'[job[w]].branch = [patch |-> clone[job[w]].tree, files |-> clone[job[w]].files]
      BY <1>1, <1>2, <1>6, <2>5 DEF Commit, Stored, Clone
    <3> QED
      BY <1>2, <1>4, <2>1, <3>1, <3>2, <3>3 DEF CloneReady
  <2>6. CASE LogCommit(w)
    <3>1. at[w] = "committed" /\ at'[w] = "push" /\ UNCHANGED <<clone, ckpt>>
      BY <1>1, <2>6 DEF LogCommit, Step, Stored
    <3> QED
      BY <1>2, <1>6, <2>1, <3>1 DEF CloneReady
  <2>7. CASE ~(CreateBranch(w) \/ ApplyPatch(w) \/ ValidateTree(w) \/ Commit(w) \/ LogCommit(w))
    <3>1. at'[w] \notin InClone
      BY <1>1, <2>7 DEF ApplyStep, ReadLog, UndoPullRequest, UndoPush, UndoLocal, UndoLog, StartLog,
         Push, LogPush, CreatePr, LogPr, LogApplied, Step, Stored, InClone
    <3> QED
      BY <2>1, <3>1, CloneUnused
  <2> QED
    BY <2>2, <2>3, <2>4, <2>5, <2>6, <2>7
<1>8. Published(job[w])'
  <2>1. CASE Push(w)
    <3>1. remote'[job[w]] = clone[job[w]].branch /\ at[w] = "push"
      BY <1>1, <1>2, <2>1 DEF Push, Step, Stored
    <3>2. /\ remote'[job[w]].patch = ckpt[job[w]].patch
          /\ remote'[job[w]].files # "leftover"
      BY <1>6, <3>1 DEF CloneReady
    <3> QED
      BY <1>2, <1>4, <1>5, <3>2 DEF Published
  <2>2. CASE UndoPush(w)
    <3>1. remote'[job[w]] \in {None, remote[job[w]]}
      BY <1>1, <1>2, <2>2 DEF UndoPush, Undone, Stored
    <3> QED
      BY <1>2, <1>3, <1>4, <1>5, <3>1 DEF Published
  <2>3. CASE ~(Push(w) \/ UndoPush(w))
    <3>1. UNCHANGED remote
      BY <2>3 DEF ApplyStep, ReadLog, UndoPullRequest, UndoLocal, UndoLog, StartLog,
         CreateBranch, ApplyPatch, ValidateTree, Commit, LogCommit, LogPush, CreatePr, LogPr,
         LogApplied, data
    <3> QED
      BY <1>2, <1>3, <1>4, <3>1 DEF Published
  <2> QED
    BY <2>1, <2>2, <2>3
<1>9. Unopened(w)'
  <2>1. CASE CreatePr(w)
    BY <1>1, <2>1 DEF CreatePr, Step, Stored, Unopened
  <2>2. CASE LogPr(w) \/ LogApplied(w)
    BY <1>1, <2>2 DEF LogPr, LogApplied, Step, Stored, Unopened
  <2>3. CASE ~(CreatePr(w) \/ LogPr(w) \/ LogApplied(w))
    <3>1. at[w] \notin {"idle", "opened", "finish", "returned"}
      BY <2>3 DEF ApplyStep, ReadLog, UndoPullRequest, UndoPush, UndoLocal, UndoLog, StartLog,
         CreateBranch, ApplyPatch, ValidateTree, Commit, LogCommit, Push, LogPush, Step
    <3>2. prs[job[w]] # "open"
      BY <1>3, <3>1 DEF Unopened
    <3>3. prs \in [RunId -> {"none", "open", "closed"}]
      BY <1>1 DEF TypeOK
    <3>4. prs'[job[w]] # "open"
      <4>1. CASE UndoPullRequest(w)
        BY <1>2, <3>2, <3>3, <4>1 DEF UndoPullRequest, Undone
      <4>2. CASE UndoPush(w)
        BY <1>2, <3>2, <3>3, <4>2 DEF UndoPush, Undone
      <4>3. CASE ~(UndoPullRequest(w) \/ UndoPush(w))
        BY <2>3, <3>2, <4>3 DEF ApplyStep, ReadLog, UndoLocal, UndoLog, StartLog,
           CreateBranch, ApplyPatch, ValidateTree, Commit, LogCommit, Push, LogPush, table
      <4> QED
        BY <4>1, <4>2, <4>3
    <3> QED
      BY <1>2, <3>4 DEF Unopened
  <2> QED
    BY <2>1, <2>2, <2>3
<1> QED
  BY <1>7, <1>8, <1>9

LEMMA GateStep ==
  ASSUME PipelineInv, LeaseInv, GateInv, CloneInv, PipelineNext
  PROVE  GateInv'
<1>1. PipelineTypeOK /\ Stored /\ TypeOK
  BY DEF PipelineInv, PipelineTypeOK, Stored
(* A step that takes no worker on in the pipeline and opens no pull request. *)
<1>2. ASSUME \A v \in Worker : at'[v] # "idle" =>
               /\ at'[v] = at[v] /\ job'[v] = job[v] /\ made'[v] = made[v]
               /\ local'[job[v]] = local[job[v]] /\ clone'[job[v]] = clone[job[v]],
             \A j \in RunId : prs'[j] = "open" => prs[j] = "open",
             \A j \in RunId : ckpt'[j] = ckpt[j] /\ remote'[j] \in {None, remote[j]}
      PROVE  GateInv'
  <2>1. ASSUME NEW v \in Worker PROVE Gated(v)' /\ Unopened(v)'
    <3>1. CASE at'[v] = "idle"
      BY <3>1, CloneUnused DEF Gated, Unopened, AfterExecutor, Phases, InClone
    <3>2. CASE at'[v] # "idle"
      <4>1. /\ at'[v] = at[v] /\ job'[v] = job[v] /\ made'[v] = made[v]
            /\ local'[job[v]] = local[job[v]] /\ clone'[job[v]] = clone[job[v]]
        BY <1>2, <3>2
      <4>2. job[v] \in RunId
        BY <1>1, <3>2, <4>1, InPipeline
      <4>3. Gated(v) /\ Unopened(v) /\ ckpt'[job[v]] = ckpt[job[v]]
        BY <1>2, <4>2 DEF GateInv
      <4>4. Gated(v)'
        BY <4>1, <4>3, CloneKept DEF Gated
      <4>5. Unopened(v)'
        BY <1>2, <4>1, <4>2, <4>3 DEF Unopened
      <4> QED
        BY <4>4, <4>5
    <3> QED
      BY <3>1, <3>2
  <2>2. \A j \in RunId : Published(j)'
    BY <1>2 DEF GateInv, Published
  <2> QED
    BY <2>1, <2>2 DEF GateInv
<1>3. CASE LoopStep
  <2>1. UNCHANGED <<at, made, ckpt, local, clone, remote>>
    BY <1>3 DEF LoopStep, detail, data
  <2>2. \A j \in RunId : prs'[j] = "open" => prs[j] = "open"
    BY <1>1, <1>3 DEF LoopStep, Enqueue, Backpressure, Poll, Dequeue, DequeueNothing,
       LookupFails, LookupFindsPr, WorkerCall, ExternalCall, BreakerStep, ClosePr, Tick, vars, TypeOK
  <2>3. ASSUME NEW v \in Worker, at[v] # "idle" PROVE job'[v] = job[v]
    <3>1. pc[v] = "running" /\ job \in [Worker -> 0 .. MaxJobs]
      BY <1>1, <2>3, InPipeline DEF TypeOK
    <3> QED
      BY <1>3, <3>1 DEF LoopStep, Enqueue, Backpressure, Poll, Dequeue, DequeueNothing,
         LookupFails, LookupFindsPr, WorkerCall, ExternalCall, BreakerStep, ClosePr, Tick,
         Release, vars, workers
  <2> QED
    BY <1>2, <2>1, <2>2, <2>3
<1>4. ASSUME NEW w \in Worker, Start(w) PROVE GateInv'
  <2>1. /\ UNCHANGED <<made, ckpt, local, clone, remote, prs, job>>
        /\ at'[w] = "begin" /\ \A v \in Worker \ {w} : at'[v] = at[v]
        /\ prs[job[w]] # "open"
    BY <1>1, <1>4 DEF Start, LookupFindsNone, data, Stored
  <2>2. ASSUME NEW v \in Worker PROVE Gated(v)' /\ Unopened(v)'
    <3>1. CASE v = w
      BY <2>1, <3>1, CloneUnused DEF Gated, Unopened, AfterExecutor, Phases, InClone
    <3>2. CASE v # w
      BY <2>1, <3>2, CloneKept DEF GateInv, Gated, Unopened
    <3> QED
      BY <3>1, <3>2
  <2>3. \A j \in RunId : Published(j)'
    BY <2>1 DEF GateInv, Published
  <2> QED
    BY <2>2, <2>3 DEF GateInv
<1>5. ASSUME NEW w \in Worker, StageStep(w) \/ ApplyStep(w) PROVE GateInv'
  <2>1. at[w] # "idle" /\ job' = job
    BY <1>5, InnerMoves DEF workers
  <2> QED
    BY <1>5, <2>1, ConfinedStep, StageGate, ApplyGate, GateByOwner
<1>6. ASSUME NEW w \in Worker, Ending(w) PROVE GateInv'
  <2>1. Exit(w) /\ UNCHANGED <<ckpt, local, remote, prs>>
    BY <1>6 DEF Ending, Return, Reject, Raise, Refuse, RollBack, Die, data,
       BreakerRejects, FailTransient, FailDeterministic, Abandon
  <2>2. at'[w] = "idle" /\ \A v \in Worker \ {w} : at'[v] = at[v]
    BY <1>1, <2>1 DEF Exit, Stored
  <2>3. Confined(w)
    BY <1>6, ConfinedStep
  <2>4. ASSUME NEW v \in Worker, at'[v] # "idle"
        PROVE  /\ v # w /\ at'[v] = at[v] /\ job'[v] = job[v] /\ made'[v] = made[v]
               /\ clone'[job[v]] = clone[job[v]]
    <3>1. v # w /\ at'[v] = at[v] /\ at[v] # "idle"
      BY <2>2, <2>4
    <3>2. CASE at[w] # "idle"
      <4>1. job[v] \in RunId \ {job[w]}
        BY <1>1, <3>1, <3>2, InPipeline, LeaseIsolates DEF Alone
      <4> QED
        BY <2>3, <3>1, <4>1 DEF Confined
    <3>3. CASE at[w] = "idle"
      <4>1. UNCHANGED clone
        BY <1>6, <3>3 DEF Ending, Return, Reject, Raise, Refuse, RollBack, Die, data
      <4> QED
        BY <2>3, <3>1, <4>1 DEF Confined
    <3> QED
      BY <3>2, <3>3
  <2> QED
    BY <1>2, <2>1, <2>4
<1>7. ASSUME NEW j \in RunId, LoseWorkspace(j) PROVE GateInv'
  <2>1. /\ UNCHANGED <<at, made, job, prs, ckpt, remote>>
        /\ \A k \in RunId \ {j} : clone'[k] = clone[k] /\ local'[k] = local[k]
    BY <1>1, <1>7 DEF LoseWorkspace, table, workers, Stored
  <2>2. \A v \in Worker : at[v] # "idle" => job[v] \in RunId \ {j}
    BY <1>1, <1>7, InPipeline DEF LoseWorkspace
  <2> QED
    BY <1>2, <2>1, <2>2
<1>8. ASSUME NEW j \in RunId, DeleteBranch(j) PROVE GateInv'
  <2>1. /\ UNCHANGED <<at, made, job, prs, ckpt, clone, local>>
        /\ \A k \in RunId : remote'[k] \in {None, remote[k]}
    BY <1>1, <1>8 DEF DeleteBranch, table, workers, Stored
  <2> QED
    BY <1>2, <2>1
<1> QED
  BY <1>3, <1>4, <1>5, <1>6, <1>7, <1>8 DEF PipelineNext

(* What git and the tools do to a clone keeps it from being touched off the   *)
(* run's branch.                                                              *)
LEMMA ResetUntouched ==
  ASSUME NEW c \in Clone, Untouched(c), NEW r \in AfterReset(c)
  PROVE  Untouched(r)
<1> DEFINE hard == [c EXCEPT !.tree = None, !.branch = IF c.onRun THEN Base ELSE None]
<1>1. /\ hard \in Clone /\ hard.onRun = c.onRun /\ hard.tree = None /\ hard.files = c.files
      /\ hard.branch = IF c.onRun THEN Base ELSE None
  BY DEF Clone
<1>2. Untouched(hard)
  BY <1>1, PipelineAssumption DEF Untouched
<1>3. Untouched([hard EXCEPT !.files = "clean"])
  <2> HIDE DEF hard
  <2> QED
    BY <1>1, <1>2 DEF Untouched, Clone
<1> QED
  BY <1>2, <1>3 DEF AfterReset

LEMMA ToolsUntouched ==
  ASSUME NEW c \in Clone, c.onRun, Untouched(c), NEW t \in AfterTools(c)
  PROVE  Untouched(t)
  BY DEF AfterTools, Clone, Untouched

LEMMA CloneStep ==
  ASSUME PipelineInv, GateInv, CloneInv, PipelineNext
  PROVE  CloneInv'
<1>1. PipelineTypeOK /\ Stored
  BY DEF PipelineInv, PipelineTypeOK, Stored
<1>2. CASE UNCHANGED clone
  BY <1>2 DEF CloneInv
<1>3. ASSUME NEW j \in RunId, Untouched(clone'[j]),
             \A k \in RunId \ {j} : clone'[k] = clone[k]
      PROVE  CloneInv'
  BY <1>3 DEF CloneInv
<1>4. ASSUME NEW w \in Worker, at[w] # "idle",
             NEW c, clone' = [clone EXCEPT ![job[w]] = c], Untouched(c)
      PROVE  CloneInv'
  <2>1. job[w] \in RunId
    BY <1>1, <1>4, InPipeline
  <2> QED
    BY <1>1, <1>3, <1>4, <2>1 DEF Stored
<1>5. ASSUME NEW w \in Worker, at[w] # "idle"
      PROVE  /\ job[w] \in RunId /\ clone[job[w]] \in Clone /\ Untouched(clone[job[w]])
             /\ CloneReady(w)
  <2>1. job[w] \in RunId
    BY <1>1, <1>5, InPipeline
  <2> QED
    BY <1>1, <2>1 DEF Stored, CloneInv, GateInv, Gated
<1>6. ASSUME NEW w \in Worker, Begin(w) PROVE CloneInv'
  <2>1. at[w] # "idle"
    BY <1>6 DEF Begin, Step
  <2>2. /\ clone'[job[w]].branch = clone[job[w]].branch /\ clone'[job[w]].onRun = clone[job[w]].onRun
        /\ clone'[job[w]].tree = clone[job[w]].tree /\ clone'[job[w]].files = clone[job[w]].files
    BY <1>1, <1>5, <1>6, <2>1 DEF Begin, Stored, Clone
  <2>3. \A k \in RunId \ {job[w]} : clone'[k] = clone[k]
    BY <1>1, <1>6 DEF Begin, Stored
  <2> QED
    BY <1>3, <1>5, <2>1, <2>2, <2>3 DEF Untouched
<1>7. ASSUME NEW w \in Worker, UndoLocal(w) PROVE CloneInv'
  <2>1. at[w] # "idle"
    BY <1>7 DEF UndoLocal, Step
  <2> QED
    BY <1>4, <1>5, <1>7, <2>1, ResetUntouched DEF UndoLocal
<1>8. ASSUME NEW w \in Worker, CreateBranch(w) PROVE CloneInv'
  <2>1. at[w] # "idle"
    BY <1>8 DEF CreateBranch, Step
  <2>2. clone'[job[w]].branch = Base /\ clone'[job[w]].onRun
    BY <1>1, <1>5, <1>8, <2>1 DEF CreateBranch, Stored, Clone
  <2>3. \A k \in RunId \ {job[w]} : clone'[k] = clone[k]
    BY <1>1, <1>8 DEF CreateBranch, Stored
  <2>4. Untouched(clone'[job[w]])
    BY <2>2, PipelineAssumption DEF Untouched
  <2> QED
    BY <1>3, <1>5, <2>1, <2>3, <2>4
<1>9. ASSUME NEW w \in Worker, ApplyPatch(w) PROVE CloneInv'
  <2>1. at[w] = "patch" /\ at[w] # "idle"
    BY <1>9 DEF ApplyPatch, Step
  <2>2. clone[job[w]].onRun
    BY <1>5, <2>1 DEF CloneReady
  <2>3. clone'[job[w]].branch = clone[job[w]].branch /\ clone'[job[w]].onRun = clone[job[w]].onRun
    BY <1>1, <1>5, <1>9, <2>1 DEF ApplyPatch, Stored, Clone
  <2>4. \A k \in RunId \ {job[w]} : clone'[k] = clone[k]
    BY <1>1, <1>9 DEF ApplyPatch, Stored
  <2>5. Untouched(clone'[job[w]])
    BY <1>5, <2>1, <2>2, <2>3 DEF Untouched
  <2> QED
    BY <1>3, <1>5, <2>1, <2>4, <2>5
<1>10. ASSUME NEW w \in Worker, ValidateTree(w) PROVE CloneInv'
  <2>1. at[w] = "validating" /\ at[w] # "idle"
    BY <1>10 DEF ValidateTree, Step
  <2>2. clone[job[w]].onRun
    BY <1>5, <2>1 DEF CloneReady
  <2> QED
    BY <1>4, <1>5, <1>10, <2>1, <2>2, ToolsUntouched DEF ValidateTree
<1>11. ASSUME NEW w \in Worker, Commit(w) PROVE CloneInv'
  <2>1. at[w] = "commit" /\ at[w] # "idle"
    BY <1>11 DEF Commit, Step
  <2>2. clone[job[w]].onRun
    BY <1>5, <2>1 DEF CloneReady
  <2>3. /\ clone'[job[w]].branch = [patch |-> clone[job[w]].tree, files |-> clone[job[w]].files]
        /\ clone'[job[w]].onRun = clone[job[w]].onRun
    BY <1>1, <1>5, <1>11, <2>1 DEF Commit, Stored, Clone
  <2>4. clone'[job[w]].branch \in Content
    BY <1>5, <2>1, <2>3 DEF Clone, Content
  <2>5. \A k \in RunId \ {job[w]} : clone'[k] = clone[k]
    BY <1>1, <1>11 DEF Commit, Stored
  <2>6. Untouched(clone'[job[w]])
    BY <2>2, <2>3, <2>4, PipelineAssumption DEF Untouched
  <2> QED
    BY <1>3, <1>5, <2>1, <2>5, <2>6
<1>12. ASSUME NEW w \in Worker, RollBack(w) PROVE CloneInv'
  <2>1. at[w] # "idle"
    BY <1>12 DEF RollBack
  <2>2. CASE at[w] = "patch"
    BY <1>4, <1>5, <1>12, <2>1, <2>2, ResetUntouched DEF RollBack
  <2>3. CASE at[w] = "validating"
    <3>1. PICK t \in AfterTools(clone[job[w]]) :
            \E c \in AfterReset(t) : clone' = [clone EXCEPT ![job[w]] = c]
      BY <1>12, <2>3 DEF RollBack
    <3>2. clone[job[w]].onRun
      BY <1>5, <2>1, <2>3 DEF CloneReady
    <3>3. t \in Clone /\ Untouched(t)
      BY <1>5, <2>1, <3>2, ToolTypes, ToolsUntouched
    <3> QED
      BY <1>4, <2>1, <3>1, <3>3, ResetUntouched
  <2> QED
    BY <1>12, <2>2, <2>3 DEF RollBack
<1>13. ASSUME NEW j \in RunId, LoseWorkspace(j) PROVE CloneInv'
  <2>1. clone'[j] = NoClone /\ \A k \in RunId \ {j} : clone'[k] = clone[k]
    BY <1>1, <1>13 DEF LoseWorkspace, Stored
  <2>2. Untouched(NoClone)
    BY DEF Untouched, NoClone
  <2> QED
    BY <1>3, <2>1, <2>2
<1>14. ASSUME NEW w \in Worker, ApplyStep(w),
              ~(UndoLocal(w) \/ CreateBranch(w) \/ ApplyPatch(w) \/ ValidateTree(w) \/ Commit(w))
       PROVE  UNCHANGED clone
  BY <1>14 DEF ApplyStep, ReadLog, UndoPullRequest, UndoPush, UndoLog, StartLog, LogCommit, Push,
     LogPush, CreatePr, LogPr, LogApplied, data
<1>15. ASSUME NEW w \in Worker,
              (StageStep(w) /\ ~Begin(w)) \/ Start(w) \/ (Ending(w) /\ ~RollBack(w))
       PROVE  UNCHANGED clone
  BY <1>15 DEF StageStep, HydrateStage, RunStage, StorePatch, WritePatch, CheckpointPatch,
     Start, Ending, Return, Reject, Raise, Refuse, Die, data
<1>16. CASE LoopStep \/ \E j \in RunId : DeleteBranch(j)
  BY <1>2, <1>16 DEF LoopStep, DeleteBranch, detail, data
<1> QED
  BY <1>2, <1>6, <1>7, <1>8, <1>9, <1>10, <1>11, <1>12, <1>13, <1>14, <1>15, <1>16 DEF PipelineNext

LEMMA GateInductive ==
  PipelineInv /\ LeaseInv /\ GateInv /\ CloneInv /\ [PipelineNext]_<<table, detail>>
    => GateInv' /\ CloneInv'
<1>1. ASSUME GateInv, CloneInv, UNCHANGED <<table, detail>> PROVE GateInv' /\ CloneInv'
  <2>1. \A v \in Worker : CloneReady(v)'
    BY <1>1 DEF table, detail, data, workers, GateInv, Gated, CloneReady
  <2>2. CloneInv'
    BY <1>1 DEF detail, data, CloneInv
  <2> QED
    BY <1>1, <2>1, <2>2 DEF table, detail, data, workers, GateInv, Gated, Unopened, Published
<1> QED
  BY <1>1, GateStep, CloneStep

LEMMA GateStarts == PipelineInit => GateInv /\ CloneInv
  BY DEF PipelineInit, GateInv, CloneInv, Gated, Unopened, Published, Untouched, CloneReady, NoClone,
     AfterExecutor, Phases

LEMMA PipelineLease ==
  ASSUME ~Overrun
  PROVE  PipelineSpec => []LeaseInv
<1>1. Spec => []LeaseInv
  BY LeaseInvariant
<1> QED
  BY <1>1, PipelineImplementsQueue, PTL DEF ImplementsQueue, Spec

LEMMA PipelineGate ==
  ASSUME ~Overrun
  PROVE  PipelineSpec => [](PipelineInv /\ LeaseInv /\ GateInv /\ CloneInv)
<1>1. PipelineSpec => []LeaseInv
  BY PipelineLease
<1> QED
  BY <1>1, PipelineStarts, PipelineInductive, GateStarts, GateInductive, PTL DEF PipelineSpec

(* Timely workers: the branch on the remote was made from the one patch the   *)
(* gate passed and the checkpoint names, and beside it has at most what the   *)
(* target's tools wrote in the same attempt, nothing an earlier one left, for *)
(* any deaths, redeliveries, lost workspaces and failing undo commands.       *)
THEOREM PipelinePushedIsCheckpointed ==
  ASSUME ~Overrun
  PROVE  PipelineSpec => []PushedIsCheckpointed
<1>1. GateInv => PushedIsCheckpointed
  BY DEF GateInv, Published, PushedIsCheckpointed
<1> QED
  BY <1>1, PipelineGate, PTL

BranchesKept ==
  \A j \in RunId : prs[j] = "open" /\ remote[j] # None => remote'[j] # None

LEMMA BranchesKeptStep ==
  PipelineInv /\ GateInv /\ [PipelineNext]_<<table, detail>> => BranchesKept
<1> SUFFICES ASSUME PipelineInv, GateInv, [PipelineNext]_<<table, detail>> PROVE BranchesKept
  OBVIOUS
<1>1. PipelineTypeOK /\ remote \in [RunId -> Content \cup {None, Base}]
      /\ clone \in [RunId -> Clone] /\ ckpt \in [RunId -> Checkpoints]
  BY DEF PipelineInv, PipelineTypeOK
<1>2. CASE UNCHANGED remote
  BY <1>2 DEF BranchesKept
<1>3. ASSUME NEW w \in Worker, UndoPush(w) PROVE BranchesKept
  <2>1. at[w] = "undo_push"
    BY <1>3 DEF UndoPush, Step
  <2>2. prs[job[w]] # "open" /\ job[w] \in RunId
    BY <1>1, <2>1, InPipeline DEF GateInv, Unopened
  <2>3. \A j \in RunId \ {job[w]} : remote'[j] = remote[j]
    BY <1>1, <1>3 DEF UndoPush
  <2> QED
    BY <2>2, <2>3 DEF BranchesKept
<1>4. ASSUME NEW w \in Worker, Push(w) PROVE BranchesKept
  <2>1. remote[job[w]] = None
    BY <1>4 DEF Push
  <2>2. \A j \in RunId \ {job[w]} : remote'[j] = remote[j]
    BY <1>1, <1>4 DEF Push
  <2> QED
    BY <2>1, <2>2 DEF BranchesKept
<1>5. ASSUME NEW j \in RunId, DeleteBranch(j) PROVE BranchesKept
  BY <1>1, <1>5 DEF DeleteBranch, BranchesKept
<1>6. ASSUME NEW w \in Worker, ApplyStep(w), ~UndoPush(w), ~Push(w) PROVE UNCHANGED remote
  BY <1>6 DEF ApplyStep, ReadLog, UndoPullRequest, UndoLocal, UndoLog, StartLog, CreateBranch,
     ApplyPatch, ValidateTree, Commit, LogCommit, LogPush, CreatePr, LogPr, LogApplied, data
<1>7. ASSUME NEW w \in Worker, StageStep(w) \/ Start(w) \/ Ending(w) PROVE UNCHANGED remote
  BY <1>7 DEF StageStep, Begin, HydrateStage, RunStage, StorePatch, WritePatch, CheckpointPatch,
     Start, Ending, Return, Reject, Raise, Refuse, RollBack, Die, data
<1>8. ASSUME LoopStep \/ (\E j \in RunId : LoseWorkspace(j)) \/ UNCHANGED <<table, detail>>
      PROVE  UNCHANGED remote
  BY <1>8 DEF LoopStep, LoseWorkspace, detail, data
<1> QED
  BY <1>2, <1>3, <1>4, <1>5, <1>6, <1>7, <1>8 DEF PipelineNext

(* Timely workers: undoing an attempt never deletes the branch under an open  *)
(* pull request, because the loop's lookup found none and nobody else opens   *)
(* one while the worker holds the job.                                        *)
THEOREM PipelineOpenPrKeepsBranch ==
  ASSUME ~Overrun
  PROVE  PipelineSpec => OpenPrKeepsBranch
<1>1. PipelineInv /\ GateInv /\ [PipelineNext]_<<table, detail>> => [BranchesKept]_<<table, detail>>
  BY BranchesKeptStep
<1> QED
  BY <1>1, PipelineGate, PTL DEF PipelineSpec, OpenPrKeepsBranch, BranchesKept

=============================================================================
