------------------------------ MODULE CiCommand ------------------------------
(***************************************************************************)
(* `patchforge ci` (orchestrator/commands/ci.py): scan, plan, preview and  *)
(* apply in one process, on the live working tree.                         *)
(*                                                                         *)
(* Every command makes a run of its own.  It passes the plan gate and the  *)
(* patch gate, has the patch validated in a copy of the tree (Validator),  *)
(* and only then writes its log apply.json, creates a branch at the commit *)
(* it scanned, applies the patch to the working tree and commits it.  What *)
(* fails is reset and cleaned, and reported in ci_result.json.  A command  *)
(* may die between any two writes, and nothing recovers it: the next run   *)
(* starts from the branch, the commit and the tree it finds.               *)
(***************************************************************************)
EXTENDS Validator, FiniteSets

CONSTANTS
  File,
  Plans,        \* the plans an architect may answer with: sets of tasks
  Dangerous,    \* files of the infrastructure (DANGEROUS_PATTERNS)
  Tier,         \* the risk of a file by its place (FILE_TAXONOMY)
  Source,       \* files of source code
  MaxRuns,      \* bound on the runs
  MaxActs,      \* bound on what the user does to the repository
  Edited,       \* the files the user edits
  Staged,       \* those of them the user then gives to git add
  Commands      \* the commands given: their options, and what the executor and
                \* the validator, or what stands in for them, hand over

Risk == {"low", "medium", "high"}
Budget == {"low", "medium"}
Run == 1 .. MaxRuns
Task == [risk : Risk, files : SUBSET File]

(* The executor's diffs are "unified", without a git header, and the         *)
(* validator's evidence is named: it has its policy.  (The tests of the      *)
(* command put the other forms in their place, and only then is its last     *)
(* phase reached.)                                                           *)
Command == [allowDirty : BOOLEAN, budget : Budget, form : {"unified", "git"},
            named : BOOLEAN]

ASSUME CiAssumption ==
  /\ Plans \subseteq SUBSET Task
  /\ IsFiniteSet(File) /\ Dangerous \subseteq File /\ Source \subseteq File
  /\ Edited \subseteq File /\ Staged \subseteq Edited
  /\ Tier \in [File -> Risk \cup {"none"}]
  /\ MaxRuns \in Nat /\ MaxActs \in Nat
  /\ Commands \subseteq Command

VARIABLES
  command,    \* what is given
  commits,    \* every commit: the content of every file
  refs,       \* the branches: 0 is the user's, the others patchforge/<run>
  head,       \* the branch that is checked out
  index,      \* what is staged: the content of every file in Git's index
  work,       \* the working tree
  meta,       \* run.json of every run: status, base_commit, branch, files
  log,        \* apply.json of every run
  evidence,   \* validation.json of every run
  result,     \* ci_result.json
  pc,         \* where the command is
  run,        \* its run
  patch,      \* first the files of its plan, then those of its patch
  verdict,    \* the status it is about to report
  acts        \* what the user has done so far

repo == <<commits, refs, head, index, work>>
files == <<meta, log, evidence, result>>
process == <<pc, run, patch, verdict>>
vars == <<validator, command, repo, files, process, acts>>

-----------------------------------------------------------------------------

(* A content is the set of edits made to it: the user's and those of runs.   *)
Dirt == 0
Content == SUBSET (0 .. MaxRuns)
Tree == [File -> Content]
Pristine == [f \in File |-> {}]
Branch == 0 .. MaxRuns
NoRef == 0

RunJson == [status : {"none", "scanned", "planned", "previewed",
                      "validation_failed", "failed", "applied"},
            base : Nat, source : Branch]

ApplyJson == [status : {"none", "applying", "committed_local"},
              failed : BOOLEAN, rolledBack : BOOLEAN]

NoEvidence == [versioned |-> FALSE, profile |-> "v1", overall |-> "failed",
               required |-> {}, verified |-> {}, patch |-> 0, policy |-> NoPolicy]

CiResult == [run : 0 .. MaxRuns,
             status : {"none", "preflight_rejected", "scan_failed", "plan_failed",
                       "preview_failed", "apply_failed", "applied"}]

(* The commit of a branch, and whether index and working tree are as it says.*)
Committed(b) == commits[refs[b]]
Clean == index = Committed(head) /\ work = Committed(head)
Base == commits[meta[run].base]

-----------------------------------------------------------------------------
(* The gates (orchestrator/risk.py).                                         *)

Rank(r) == CASE r = "low" -> 0 [] r = "medium" -> 1 [] r = "high" -> 2
             [] r = "none" -> -1

(* Seeded fault: the taxonomy raises no risk.                                *)
NeverOutranked(t) == FALSE

(* The taxonomy puts a file of the task above the risk the architect gave;   *)
(* that alone is a reason to block.                                          *)
Outranked(t) == \E f \in t.files : Rank(Tier[f]) > Rank(t.risk)

(* A low-risk task that writes code counts as medium.                        *)
Effective(t) == IF t.risk = "low" /\ t.files \cap Source # {} THEN "medium" ELSE t.risk

FilesOf(plan) == UNION {t.files : t \in plan}

MaxFiles == IF command.budget = "medium" THEN 5 ELSE 2

PlanGate(plan) ==
  /\ FilesOf(plan) \cap Dangerous = {}
  /\ \A t \in plan : ~Outranked(t)
  /\ \A t \in plan : Rank(Effective(t)) <= Rank(command.budget)
  /\ Cardinality(FilesOf(plan)) <= MaxFiles

(* Only `diff --git` lines are recognised (parse_diff_files); a diff the     *)
(* executor made has none.                                                   *)
Headers == IF command.form = "git" THEN patch ELSE {}

(* The size of the patch gates it too: the number of recognised files, and   *)
(* the number of lines, which is open here.                                  *)
PatchGate(long) == ~long /\ Cardinality(Headers) <= MaxFiles

(* git apply finds its places by their context, and leaves in the files what *)
(* they have by then.                                                        *)
Patched == [f \in File |-> IF f \in patch THEN work[f] \cup {run} ELSE work[f]]

-----------------------------------------------------------------------------

Init ==
  /\ config \in Configs /\ tools = << >>
  /\ command \in Commands
  /\ commits = <<Pristine>>
  /\ refs = [b \in Branch |-> IF b = 0 THEN 1 ELSE NoRef]
  /\ head = 0
  /\ index = Pristine /\ work = Pristine
  /\ meta = [r \in Run |-> [status |-> "none", base |-> 1, source |-> 0]]
  /\ log = [r \in Run |-> [status |-> "none", failed |-> FALSE, rolledBack |-> FALSE]]
  /\ evidence = [r \in Run |-> NoEvidence]
  /\ result = [run |-> 0, status |-> "none"]
  /\ pc = "idle" /\ run = 0 /\ patch = {} /\ verdict = "none"
  /\ acts = 0

At(place) == pc = place /\ UNCHANGED <<command, acts>>
Goto(place) == pc' = place
SetStatus(s) == meta' = [meta EXCEPT ![run].status = s]

(* _fail: the result file is the next thing written, after run.json.         *)
Report(v) == Goto("report") /\ verdict' = v

(* Before there is a run: the preflight, the bootstrap, and the state of the *)
(* repository.  The result names no run.                                     *)
Refuse ==
  /\ At("idle")
  /\ \E v \in {"preflight_rejected", "scan_failed"} :
       /\ result' = [run |-> 0, status |-> v]
       /\ UNCHANGED <<validator, repo, meta, log, evidence, process>>

TooDirty == ~command.allowDirty /\ ~Clean

RefuseDirty ==
  /\ At("idle") /\ TooDirty
  /\ result' = [run |-> 0, status |-> "scan_failed"]
  /\ UNCHANGED <<validator, repo, meta, log, evidence, process>>

(* A run directory with a fresh id.                                          *)
Start ==
  /\ At("idle") /\ ~TooDirty /\ run < MaxRuns
  /\ Goto("scan")
  /\ run' = run + 1
  /\ UNCHANGED <<validator, repo, files, patch, verdict>>

(* The configuration cannot be loaded or the scanner fails: no run.json.     *)
ScanFails ==
  /\ At("scan")
  /\ Report("scan_failed")
  /\ UNCHANGED <<validator, repo, files, run, patch>>

(* The commit and the branch that are checked out now are the run's.         *)
Scan ==
  /\ At("scan")
  /\ meta' = [meta EXCEPT ![run] =
                [status |-> "scanned", base |-> refs[head], source |-> head]]
  /\ \/ Goto("plan") /\ UNCHANGED verdict
     \/ Report("scan_failed")
  /\ UNCHANGED <<validator, repo, log, evidence, result, run, patch>>

(* The architect fails, names files that do not exist, ...                   *)
PlanFails ==
  /\ At("plan")
  /\ SetStatus("failed")
  /\ Report("plan_failed")
  /\ UNCHANGED <<validator, repo, log, evidence, result, run, patch>>

Plan ==
  /\ At("plan")
  /\ \E plan \in Plans :
       \/ /\ PlanGate(plan)
          /\ SetStatus("planned")
          /\ patch' = FilesOf(plan)
          /\ Goto("execute") /\ UNCHANGED verdict
       \/ /\ ~PlanGate(plan) /\ SetStatus("failed") /\ Report("plan_failed")
          /\ UNCHANGED patch
  /\ UNCHANGED <<validator, repo, log, evidence, result, run>>

(* The executor (Executor) reads the working tree and returns diffs for some *)
(* of the plan's files; that others failed does not count.                   *)
Execute ==
  /\ At("execute")
  /\ patch' \in SUBSET patch \ {{}}
  /\ Goto("gate")
  /\ UNCHANGED <<validator, repo, files, run, verdict>>

(* It raised, or there is no diff at all.                                    *)
ExecuteFails ==
  /\ At("execute")
  /\ SetStatus("failed")
  /\ Report("preview_failed")
  /\ UNCHANGED <<validator, repo, log, evidence, result, run, patch>>

GatePatch ==
  /\ At("gate")
  /\ \E long \in BOOLEAN :
       \/ PatchGate(long) /\ Goto("copy") /\ UNCHANGED <<verdict, meta>>
       \/ ~PatchGate(long) /\ SetStatus("failed") /\ Report("preview_failed")
  /\ UNCHANGED <<validator, repo, log, evidence, result, run, patch>>

(* A copy of the tree as it is now.  git apply takes the patch there if it   *)
(* finds the context of every diff, perhaps at another line, or refuses it;  *)
(* only if it takes it do the validators run.                                *)
Copy ==
  /\ At("copy")
  /\ \/ Goto("validate") /\ StartValidation /\ UNCHANGED evidence
     \/ /\ Goto("decide") /\ UNCHANGED validator
        /\ evidence' = [evidence EXCEPT ![run] = Inapplicable]
  /\ UNCHANGED <<repo, meta, log, result, run, patch, verdict>>

Validate ==
  /\ At("validate") /\ RunTool
  /\ UNCHANGED <<repo, files, process>>

(* The copy cannot be made, or the validator raises.                         *)
ValidateFails ==
  /\ At("copy") \/ At("validate")
  /\ SetStatus("failed")
  /\ Report("preview_failed")
  /\ UNCHANGED <<validator, repo, log, evidence, result, run, patch>>

(* validation.json: the evidence bound to this patch.  What the tools passed *)
(* is the copy as they left it (some rewrite it: `ruff format`); what they   *)
(* rewrote is thrown away with the copy, and the evidence names the patch.   *)
Bind ==
  /\ At("validate") /\ Validated
  /\ evidence' = [evidence EXCEPT
       ![run] = Bound(Attached(IF command.named THEN config.policy ELSE NoPolicy), run)]
  /\ tools' = << >>
  /\ Goto("decide")
  /\ UNCHANGED <<config, repo, meta, log, result, run, patch, verdict>>

(* The subject ci expects names the patch and no policy.                     *)
Cleared == Authorized(evidence[run], run, NoPolicy)

Decide ==
  /\ At("decide")
  /\ \/ Cleared /\ SetStatus("previewed") /\ Goto("log") /\ UNCHANGED verdict
     \/ ~Cleared /\ SetStatus("validation_failed") /\ Report("preview_failed")
  /\ UNCHANGED <<validator, repo, log, evidence, result, run, patch>>

-----------------------------------------------------------------------------
(* The apply phase: from here on the repository is changed.                  *)

LogApplying ==
  /\ At("log")
  /\ log' = [log EXCEPT ![run].status = "applying"]
  /\ Goto("branch")
  /\ UNCHANGED <<validator, repo, meta, evidence, result, run, patch, verdict>>

(* One ref transaction verifies the source branch and creates the run's, and *)
(* a checkout follows.                                                       *)
CreateBranch ==
  /\ At("branch")
  /\ refs[meta[run].source] = meta[run].base
  /\ refs' = [refs EXCEPT ![run] = meta[run].base]
  /\ \/ head' = run /\ Goto("apply")
     \/ head' \in {head, run} /\ Goto("fail")
  /\ UNCHANGED <<validator, commits, index, work, files, run, patch, verdict>>

(* The source branch has moved, or Git fails or times out before that.       *)
CreateBranchFails ==
  /\ At("branch")
  /\ Goto("fail")
  /\ UNCHANGED <<validator, repo, files, run, patch, verdict>>

Apply ==
  /\ At("apply")
  /\ work' = Patched
  /\ Goto("add")
  /\ UNCHANGED <<validator, commits, refs, head, index, files, run, patch, verdict>>

(* git apply refuses the patch as a whole, and changes nothing; killed at    *)
(* its timeout it has written some of the files.                             *)
ApplyFails ==
  /\ At("apply")
  /\ \E S \in SUBSET patch :
       work' = [f \in File |-> IF f \in S THEN Patched[f] ELSE work[f]]
  /\ Goto("undo")
  /\ UNCHANGED <<validator, commits, refs, head, index, files, run, patch, verdict>>

(* Without a recognised file there is nothing to add, and the command fails  *)
(* as it stands: the patched tree is left.                                   *)
NothingToAdd ==
  /\ At("add") /\ Headers = {}
  /\ Goto("fail")
  /\ UNCHANGED <<validator, repo, files, run, patch, verdict>>

(* Seeded fault: git add -A.                                                 *)
AddAll == work

(* The index after `git add -- files`.                                       *)
Added == [f \in File |-> IF f \in Headers THEN work[f] ELSE index[f]]

Add ==
  /\ At("add") /\ Headers # {}
  /\ index' = Added
  /\ Goto("staged")
  /\ UNCHANGED <<validator, commits, refs, head, work, files, run, patch, verdict>>

AddFails ==
  /\ At("add") /\ Headers # {}
  /\ index' \in {index, Added}
  /\ Goto("undo")
  /\ UNCHANGED <<validator, commits, refs, head, work, files, run, patch, verdict>>

(* git commit takes the whole index, with what was staged before; it may     *)
(* have made the commit when its timeout ends it.                            *)
Commit ==
  /\ At("staged")
  /\ commits' = Append(commits, index)
  /\ refs' = [refs EXCEPT ![head] = Len(commits')]
  /\ Goto("committed") \/ Goto("undo")
  /\ UNCHANGED <<validator, head, index, work, files, run, patch, verdict>>

(* A hook refuses, there is no identity, the timeout comes first, ...        *)
CommitFails ==
  /\ At("staged")
  /\ Goto("undo")
  /\ UNCHANGED <<validator, repo, files, run, patch, verdict>>

(* Seeded fault: index and working tree are restored, the branch is not.     *)
RestoreTree == index' = Committed(head) /\ work' = Committed(head) /\ UNCHANGED refs

(* rollback_to_commit: reset --hard to the base commit moves the branch that *)
(* is checked out, and clean removes what is not tracked.                    *)
Reset ==
  /\ refs' = [refs EXCEPT ![head] = meta[run].base]
  /\ index' = Base /\ work' = Base

Undo ==
  /\ At("undo")
  /\ Reset
  /\ Goto("undone")
  /\ UNCHANGED <<validator, commits, head, files, run, patch, verdict>>

(* It may fail at once, or at the clean after the reset: then files that the *)
(* patch made and git add did not reach stay.                                *)
HalfReset ==
  /\ refs' = [refs EXCEPT ![head] = meta[run].base]
  /\ index' = Base
  /\ \E S \in SUBSET {f \in patch : run \notin index[f]} :
       work' = [f \in File |-> IF f \in S THEN work[f] ELSE Base[f]]

UndoFails ==
  /\ At("undo")
  /\ HalfReset \/ UNCHANGED <<refs, index, work>>
  /\ Goto("fail")
  /\ UNCHANGED <<validator, commits, head, files, run, patch, verdict>>

(* _apply_fail: apply.json, then run.json, then the result.                  *)
LogFailure ==
  /\ At("fail") \/ At("undone")
  /\ log' = [log EXCEPT ![run] = [status |-> @.status, failed |-> TRUE,
                                  rolledBack |-> pc = "undone"]]
  /\ Goto("failing")
  /\ UNCHANGED <<validator, repo, meta, evidence, result, run, patch, verdict>>

Fail ==
  /\ At("failing")
  /\ SetStatus("failed")
  /\ Report("apply_failed")
  /\ UNCHANGED <<validator, repo, log, evidence, result, run, patch>>

LogCommitted ==
  /\ At("committed")
  /\ log' = [log EXCEPT ![run].status = "committed_local"]
  /\ Goto("logged")
  /\ UNCHANGED <<validator, repo, meta, evidence, result, run, patch, verdict>>

(* Seeded fault: run.json is written before apply.json.                      *)
FinishFirst ==
  /\ At("committed")
  /\ SetStatus("applied")
  /\ Report("applied")
  /\ UNCHANGED <<validator, repo, log, evidence, result, run, patch>>

Finish ==
  /\ At("logged")
  /\ SetStatus("applied")
  /\ Report("applied")
  /\ UNCHANGED <<validator, repo, log, evidence, result, run, patch>>

WriteResult == result' = [run |-> run, status |-> verdict]

Leave ==
  /\ At("report")
  /\ WriteResult
  /\ Goto("idle")
  /\ patch' = {} /\ verdict' = "none"
  /\ UNCHANGED <<validator, repo, meta, log, evidence, run>>

-----------------------------------------------------------------------------

Die ==
  /\ pc # "idle"
  /\ Goto("idle")
  /\ tools' = << >> /\ patch' = {} /\ verdict' = "none"
  /\ UNCHANGED <<config, command, repo, files, run, acts>>

(* The user edits a file, and stages it or not; and commits, what is staged  *)
(* or everything, on the branch that is checked out, but not on the run's    *)
(* while the command is at work on it.                                       *)
Edit ==
  /\ acts < MaxActs
  /\ \E f \in Edited :
       /\ work' = [work EXCEPT ![f] = @ \cup {Dirt}]
       /\ index' = IF f \in Staged THEN [index EXCEPT ![f] = work[f] \cup {Dirt}] ELSE index
  /\ acts' = acts + 1
  /\ UNCHANGED <<validator, command, commits, refs, head, files, process>>

UserCommit ==
  /\ acts < MaxActs /\ pc \notin {"apply", "add", "staged", "undo", "committed"}
  /\ index' \in {index, work} \ {Committed(head)}
  /\ commits' = Append(commits, index')
  /\ refs' = [refs EXCEPT ![head] = Len(commits')]
  /\ acts' = acts + 1
  /\ UNCHANGED <<validator, command, head, work, files, process>>

Work == Refuse \/ RefuseDirty \/ Start \/ ScanFails \/ Scan \/ PlanFails \/ Plan
        \/ Execute \/ ExecuteFails \/ GatePatch \/ Copy \/ Validate
        \/ ValidateFails \/ Bind \/ Decide
ApplyPhase == LogApplying \/ CreateBranch \/ CreateBranchFails \/ Apply \/ ApplyFails
              \/ NothingToAdd \/ Add \/ AddFails \/ Commit \/ CommitFails
              \/ Undo \/ UndoFails
              \/ LogFailure \/ Fail \/ LogCommitted \/ Finish \/ Leave

Next == Work \/ ApplyPhase \/ Die \/ Edit \/ UserCommit

Spec == Init /\ [][Next]_vars

-----------------------------------------------------------------------------

(* Type invariant.                                                           *)
TypeOK ==
  /\ config \in Configs
  /\ tools \in Seq(ToolStatus) /\ Len(tools) <= Len(config.tools)
  /\ command \in Commands
  /\ commits \in Seq(Tree)
  /\ refs \in [Branch -> 0 .. Len(commits)]
  /\ head \in Branch /\ refs[head] # NoRef
  /\ index \in Tree /\ work \in Tree
  /\ meta \in [Run -> RunJson] /\ log \in [Run -> ApplyJson]
  /\ \A r \in Run : meta[r].base \in 1 .. Len(commits)
  /\ evidence \in [Run -> Evidence]
  /\ result \in CiResult
  /\ pc \in {"idle", "scan", "plan", "execute", "gate", "copy", "validate", "decide",
             "log", "branch", "apply", "add", "staged", "undo", "undone", "fail",
             "failing", "committed", "logged", "report"}
  /\ run \in 0 .. MaxRuns /\ (pc # "idle" => run # 0)
  /\ patch \in SUBSET File
  /\ verdict \in {"none", "scan_failed", "plan_failed", "preview_failed",
                  "apply_failed", "applied"}
  /\ acts \in 0 .. MaxActs

(* The three files a run leaves behind never contradict each other, wherever *)
(* the command died: apply.json is ahead of run.json, and run.json of        *)
(* ci_result.json; a result that reports a commit stands for a branch that   *)
(* has it, one that reports a failure for a run that has failed there.       *)
ResultIsTrue ==
  /\ LET r == result.run
     IN  r # 0 =>
           CASE result.status = "applied" -> meta[r].status = "applied"
             [] result.status = "apply_failed" -> meta[r].status = "failed" /\ log[r].failed
             [] result.status = "preview_failed" ->
                  meta[r].status \in {"failed", "validation_failed"} /\ log[r].status = "none"
             [] result.status = "plan_failed" ->
                  meta[r].status = "failed" /\ evidence[r] = NoEvidence
             [] result.status = "scan_failed" -> meta[r].status \in {"none", "scanned"}
             [] OTHER -> FALSE
  /\ \A r \in Run :
       /\ meta[r].status = "applied" => log[r].status = "committed_local" /\ ~log[r].failed
       /\ log[r].status = "committed_local" =>
            refs[r] # NoRef /\ \E f \in File : r \in Committed(r)[f]

(* Whether an edit of run r is in the tree, staged, or on a branch.          *)
Touched(r, f) == \/ r \in work[f] \cup index[f]
                 \/ \E b \in Branch : refs[b] # NoRef /\ r \in Committed(b)[f]

(* "rolled_back" in apply.json is the truth: no edit of the run is left, not *)
(* in working tree or index and not on a branch, even if the commit had been *)
(* made when it timed out.                                                   *)
RolledBackLeavesNoTrace ==
  \A r \in Run : log[r].rolledBack => \A f \in File : ~Touched(r, f)

(* No edit of a run reaches the repository before its log apply.json, and    *)
(* without evidence for its own patch: every tool approved, and every role   *)
(* that declared validators claim was checked by a standard command.         *)
TouchedIsValidated ==
  \A r \in Run, f \in File : Touched(r, f) =>
    /\ log[r].status # "none"
    /\ evidence[r].overall = "approved" /\ evidence[r].patch = r
    /\ config.profile = "v2" =>
         \A k \in DOMAIN config.tools : \A role \in config.tools[k].roles :
           \E n \in DOMAIN config.tools :
             config.tools[n].standard /\ role \in config.tools[n].roles

(* Nothing of the infrastructure is ever touched, nor a file whose place is  *)
(* of a higher risk than the budget, nor code on a low budget; and no run    *)
(* touches more files than its budget allows.                                *)
TouchedIsWithinBudget ==
  \A r \in Run :
    LET F == {f \in File : Touched(r, f)}
    IN  /\ F \cap Dangerous = {}
        /\ \A f \in F : Rank(Tier[f]) <= Rank(command.budget)
        /\ command.budget = "low" => F \cap Source = {}
        /\ Cardinality(F) <= MaxFiles

(* The commit of a run is the commit it scanned with the run's patch, whole  *)
(* and in no other file, though git commit takes whatever is staged.  Beside *)
(* that only what can be accounted for: what the user edited in the files of *)
(* the patch, which git add takes along, or staged; and under --allow-dirty  *)
(* what a run that died or could not be undone left.  A change the user did  *)
(* not stage, in a file no run has patched, never gets in.                   *)
CommittedIsAccountedFor ==
  [][\A r \in Run :
       log'[r].status = "committed_local" /\ log[r].status # "committed_local" =>
         \A f \in File :
           LET beside == Committed(r)[f] \ commits[meta[r].base][f]
           IN  /\ commits[meta[r].base][f] \subseteq Committed(r)[f]
               /\ r \in beside <=> f \in patch
               /\ Dirt \in beside /\ f \notin Staged => \E q \in Run : q \in beside
               /\ ~command.allowDirty => beside \subseteq {r, Dirt}]_vars

(* "Creates a local git branch and commit" (docs/ci-cd-setup.md): a run all  *)
(* of whose checks passed goes on to apply its patch.                        *)
ApprovedGoesOn ==
  \A r \in Run :
    evidence[r].overall = "approved" /\ evidence[r].required \subseteq evidence[r].verified =>
      meta[r].status # "validation_failed"

=============================================================================
