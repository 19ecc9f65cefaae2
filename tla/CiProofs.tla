------------------------------- MODULE CiProofs -------------------------------
(***************************************************************************)
(* What holds of `patchforge ci` for every set of plans, files, commands   *)
(* and configurations, and every number of runs and acts of the user.      *)
(*                                                                         *)
(* The invariant has a part for each side: Records says what the files of  *)
(* a run say at each place of the command, Traces where edits of a run can *)
(* be at all, Placed on which branch and in which tree they are.           *)
(***************************************************************************)
EXTENDS CiCommand, FiniteSetTheorems, TLAPS

USE CiAssumption DEF Run, Branch, NoRef

-----------------------------------------------------------------------------
(* Types, in four groups.                                                    *)

ToolsOK == /\ config \in Configs
           /\ tools \in Seq(ToolStatus) /\ Len(tools) <= Len(config.tools)

RepoOK == /\ commits \in Seq(Tree)
          /\ refs \in [Branch -> 0 .. Len(commits)]
          /\ head \in Branch /\ refs[head] # NoRef
          /\ index \in Tree /\ work \in Tree
          /\ \A r \in Run : meta[r].base \in 1 .. Len(commits)

FilesOK == /\ meta \in [Run -> RunJson] /\ log \in [Run -> ApplyJson]
           /\ evidence \in [Run -> Evidence]
           /\ result \in CiResult

Places == {"idle", "scan", "plan", "execute", "gate", "copy", "validate", "decide",
           "log", "branch", "apply", "add", "staged", "undo", "undone", "fail", "failing",
           "committed", "logged", "report"}

Reported == {"scan_failed", "plan_failed", "preview_failed", "apply_failed", "applied"}

ProcessOK == /\ command \in Commands
             /\ pc \in Places
             /\ run \in 0 .. MaxRuns /\ (pc # "idle" => run # 0)
             /\ patch \in SUBSET File
             /\ verdict \in Reported \cup {"none"}
             /\ acts \in 0 .. MaxActs

LEMMA TypeParts == TypeOK <=> ToolsOK /\ RepoOK /\ FilesOK /\ ProcessOK
BY DEF TypeOK, ToolsOK, RepoOK, FilesOK, ProcessOK, Places, Reported

LEMMA ConfigTypes ==
  ASSUME NEW c \in Configs
  PROVE  /\ c.profile \in Profile
         /\ c.tools \in Seq(Tool)
         /\ Len(c.tools) \in Nat
         /\ \A k \in DOMAIN c.tools : c.tools[k].roles \subseteq Role
         /\ \A k \in DOMAIN c.tools : c.tools[k].standard \in BOOLEAN
<1>1. c.profile \in Profile /\ c.tools \in Seq(Tool)
  BY ConfigsAssumption
<1>2. \A k \in DOMAIN c.tools : c.tools[k] \in Tool
  BY <1>1
<1> QED
  BY <1>1, <1>2 DEF Tool

(* The status of run.json is set, and nothing else in it.                    *)
LEMMA StatusSet ==
  ASSUME FilesOK, ProcessOK, run # 0, NEW s, s \in {"scanned", "planned", "previewed",
           "validation_failed", "failed", "applied"}, SetStatus(s)
  PROVE  /\ meta' \in [Run -> RunJson]
         /\ meta'[run].status = s
         /\ \A r \in Run : meta'[r].base = meta[r].base /\ meta'[r].source = meta[r].source
         /\ \A r \in Run : r # run => meta'[r] = meta[r]
<1>1. meta \in [Run -> RunJson] /\ run \in Run /\ meta' = [meta EXCEPT ![run].status = s]
  BY DEF FilesOK, ProcessOK, SetStatus, Run
<1> DEFINE x == [meta[run] EXCEPT !.status = s]
<1>2. x \in RunJson /\ x.status = s /\ x.base = meta[run].base /\ x.source = meta[run].source
  BY <1>1 DEF RunJson
<1>3. meta' = [meta EXCEPT ![run] = x]
  BY <1>1
<1> HIDE DEF x
<1>4. meta'[run] = x /\ \A r \in Run : r # run => meta'[r] = meta[r]
  BY <1>1, <1>3
<1> QED
  BY <1>1, <1>2, <1>3, <1>4

(* What RunTool makes of the results.                                        *)
LEMMA ToolRuns == ASSUME ToolsOK, RunTool PROVE ToolsOK'
<1>1. PICK s \in ToolStatus :
        tools' = Append(tools, s) \o (IF Stops(s) THEN Skipped(Len(tools) + 1) ELSE << >>)
  <2>1. PICK outcome \in Outcome, changed \in BOOLEAN :
          tools' = LET s == IF config.profile = "v1" THEN LegacyStatus(outcome)
                                                     ELSE DeclaredStatus(outcome, changed)
                   IN  Append(tools, s) \o (IF Stops(s) THEN Skipped(Len(tools) + 1) ELSE << >>)
    BY DEF RunTool
  <2>2. LegacyStatus(outcome) \in ToolStatus
    BY DEF LegacyStatus, ToolStatus
  <2>3. DeclaredStatus(outcome, changed) \in ToolStatus
    BY DEF DeclaredStatus, ToolStatus
  <2> QED
    BY <2>1, <2>2, <2>3
<1>2. config' = config /\ config \in Configs
  BY DEF RunTool, ToolsOK
<1>3. Len(config.tools) \in Nat
  BY <1>2, ConfigTypes
<1>4. tools \in Seq(ToolStatus) /\ Len(tools) \in Nat /\ Len(tools) <= Len(config.tools)
  BY DEF ToolsOK
<1>5. Len(tools) < Len(config.tools)
  <2>1. Len(tools) # Len(config.tools)
    BY DEF RunTool, Validated
  <2> QED
    BY <1>3, <1>4, <2>1
<1>6. Append(tools, s) \in Seq(ToolStatus) /\ Len(Append(tools, s)) = Len(tools) + 1
  BY <1>4
<1>7. CASE Stops(s) /\ config.profile # "v1"
  <2> DEFINE rest == [k \in 1 .. Len(config.tools) - (Len(tools) + 1) |-> "not_run"]
  <2>1. rest \in Seq(ToolStatus) /\ Len(rest) = Len(config.tools) - (Len(tools) + 1)
    <3>1. Len(config.tools) - (Len(tools) + 1) \in Nat
      BY <1>3, <1>4, <1>5
    <3> QED
      BY <3>1 DEF ToolStatus
  <2>2. tools' = Append(tools, s) \o rest
    BY <1>1, <1>7 DEF Skipped
  <2> HIDE DEF rest
  <2>3. tools' \in Seq(ToolStatus) /\ Len(tools') = Len(config.tools)
    BY <1>3, <1>4, <1>6, <2>1, <2>2
  <2> QED
    BY <1>2, <1>3, <2>3 DEF ToolsOK
<1>8. CASE ~(Stops(s) /\ config.profile # "v1")
  <2>1. tools' = Append(tools, s) \o << >>
    BY <1>1, <1>8 DEF Skipped
  <2>2. tools' = Append(tools, s)
    BY <1>6, <2>1
  <2> QED
    BY <1>2, <1>3, <1>4, <1>5, <1>6, <2>2 DEF ToolsOK
<1> QED
  BY <1>7, <1>8

LEMMA ToolsStep == ASSUME ToolsOK, Next PROVE ToolsOK' /\ config' = config /\ command' = command
<1>1. command' = command
  BY DEF Next, Work, ApplyPhase, At, Refuse, RefuseDirty, Start, ScanFails, Scan, PlanFails,
         Plan, Execute, ExecuteFails, GatePatch, Copy, Validate, ValidateFails, Bind,
         Decide, LogApplying, CreateBranch, CreateBranchFails, Apply, ApplyFails,
         NothingToAdd, Add, AddFails, Commit, CommitFails, Undo, UndoFails, LogFailure, Fail,
         LogCommitted, Finish, Leave, Die, Edit, UserCommit
<1>2. config' = config /\ (tools' = tools \/ tools' = << >> \/ RunTool)
  BY DEF Next, Work, ApplyPhase, Refuse, RefuseDirty, Start, ScanFails, Scan, PlanFails,
         Plan, Execute, ExecuteFails, GatePatch, Copy, Validate, ValidateFails, Bind,
         Decide, LogApplying, CreateBranch, CreateBranchFails, Apply, ApplyFails,
         NothingToAdd, Add, AddFails, Commit, CommitFails, Undo, UndoFails, LogFailure, Fail,
         LogCommitted, Finish, Leave, Die, Edit, UserCommit, validator, StartValidation,
         RunTool
<1>3. << >> \in Seq(ToolStatus) /\ Len(<< >>) = 0
  OBVIOUS
<1>4. config \in Configs /\ Len(config.tools) \in Nat
  BY ConfigTypes DEF ToolsOK
<1>5. ToolsOK'
  <2>1. CASE RunTool
    BY <2>1, ToolRuns
  <2>2. CASE tools' = tools \/ tools' = << >>
    <3>1. tools \in Seq(ToolStatus) /\ Len(tools) <= Len(config.tools)
      BY DEF ToolsOK
    <3>2. tools' \in Seq(ToolStatus)
      BY <1>3, <2>2, <3>1
    <3>3. Len(tools') <= Len(config.tools)
      <4>1. CASE tools' = tools
        BY <3>1, <4>1
      <4>2. CASE tools' = << >>
        BY <1>3, <1>4, <4>2
      <4> QED
        BY <2>2, <4>1, <4>2
    <3> QED
      BY <1>2, <1>4, <3>2, <3>3 DEF ToolsOK
  <2> QED
    BY <1>2, <2>1, <2>2
<1> QED
  BY <1>1, <1>2, <1>5

LEMMA ProcessStep == ASSUME RepoOK, ProcessOK, Next PROVE ProcessOK'
<1>1. pc' \in Places
  BY DEF Next, Work, ApplyPhase, Refuse, RefuseDirty, Start, ScanFails, Scan,
         PlanFails, Plan, Execute, ExecuteFails, GatePatch, Copy, Validate,
         ValidateFails, Bind, Decide, LogApplying, CreateBranch,
         CreateBranchFails, Apply, ApplyFails, NothingToAdd, Add, AddFails, Commit, CommitFails,
         Undo, UndoFails, LogFailure, Fail, LogCommitted, Finish, Leave, Die,
         Edit, UserCommit, ProcessOK, Places, At, Goto, Report, process
<1>2. run' \in 0 .. MaxRuns /\ (pc' # "idle" => run' # 0)
  BY DEF Next, Work, ApplyPhase, Refuse, RefuseDirty, Start, ScanFails, Scan,
         PlanFails, Plan, Execute, ExecuteFails, GatePatch, Copy, Validate,
         ValidateFails, Bind, Decide, LogApplying, CreateBranch,
         CreateBranchFails, Apply, ApplyFails, NothingToAdd, Add, AddFails, Commit, CommitFails,
         Undo, UndoFails, LogFailure, Fail, LogCommitted, Finish, Leave, Die,
         Edit, UserCommit, ProcessOK, Places, At, Goto, Report, process
<1>3. verdict' \in Reported \cup {"none"}
  BY DEF Next, Work, ApplyPhase, Refuse, RefuseDirty, Start, ScanFails, Scan,
         PlanFails, Plan, Execute, ExecuteFails, GatePatch, Copy, Validate,
         ValidateFails, Bind, Decide, LogApplying, CreateBranch,
         CreateBranchFails, Apply, ApplyFails, NothingToAdd, Add, AddFails, Commit, CommitFails,
         Undo, UndoFails, LogFailure, Fail, LogCommitted, Finish, Leave, Die,
         Edit, UserCommit, ProcessOK, Reported, At, Goto, Report, process
<1>4. acts' \in 0 .. MaxActs
  BY DEF Next, Work, ApplyPhase, Refuse, RefuseDirty, Start, ScanFails, Scan,
         PlanFails, Plan, Execute, ExecuteFails, GatePatch, Copy, Validate,
         ValidateFails, Bind, Decide, LogApplying, CreateBranch,
         CreateBranchFails, Apply, ApplyFails, NothingToAdd, Add, AddFails, Commit, CommitFails,
         Undo, UndoFails, LogFailure, Fail, LogCommitted, Finish, Leave, Die,
         Edit, UserCommit, ProcessOK, At
<1>5. command' \in Commands
  BY DEF Next, Work, ApplyPhase, Refuse, RefuseDirty, Start, ScanFails, Scan,
         PlanFails, Plan, Execute, ExecuteFails, GatePatch, Copy, Validate,
         ValidateFails, Bind, Decide, LogApplying, CreateBranch,
         CreateBranchFails, Apply, ApplyFails, NothingToAdd, Add, AddFails, Commit, CommitFails,
         Undo, UndoFails, LogFailure, Fail, LogCommitted, Finish, Leave, Die,
         Edit, UserCommit, ProcessOK, At
<1>6. patch' \in SUBSET File
  <2>1. patch' = patch \/ patch' = {} \/ patch' \subseteq patch \/ Plan
    BY DEF Next, Work, ApplyPhase, Refuse, RefuseDirty, Start, ScanFails, Scan,
           PlanFails, Plan, Execute, ExecuteFails, GatePatch, Copy, Validate,
           ValidateFails, Bind, Decide, LogApplying, CreateBranch,
           CreateBranchFails, Apply, ApplyFails, NothingToAdd, Add, AddFails,
           Commit, CommitFails, Undo, UndoFails, LogFailure, Fail, LogCommitted,
           Finish, Leave, Die, Edit, UserCommit, process
  <2>2. CASE Plan
    <3>1. \A p \in Plans : FilesOf(p) \subseteq File
      BY DEF FilesOf, Task
    <3>2. patch' = patch \/ \E p \in Plans : patch' = FilesOf(p)
      BY <2>2 DEF Plan
    <3> QED
      BY <3>1, <3>2 DEF ProcessOK
  <2> QED
    BY <2>1, <2>2 DEF ProcessOK
<1> QED
  BY <1>1, <1>2, <1>3, <1>4, <1>5, <1>6 DEF ProcessOK

Settable == {"planned", "previewed", "validation_failed", "failed", "applied"}

(* run.json is left alone, made by the scan, or given another status.        *)
LEMMA MetaKinds ==
  ASSUME Next
  PROVE  meta' = meta \/ Scan \/ \E s \in Settable : SetStatus(s) /\ pc # "idle"
BY DEF Next, Work, ApplyPhase, Refuse, RefuseDirty, Start, ScanFails, Scan,
       PlanFails, Plan, Execute, ExecuteFails, GatePatch, Copy, Validate,
       ValidateFails, Bind, Decide, LogApplying, CreateBranch,
       CreateBranchFails, Apply, ApplyFails, NothingToAdd, Add, AddFails, Commit, CommitFails,
       Undo, UndoFails, LogFailure, Fail, LogCommitted, Finish, Leave, Die,
       Edit, UserCommit, files, At, Settable

LEMMA Scans ==
  ASSUME RepoOK, FilesOK, ProcessOK, Scan
  PROVE  /\ meta' \in [Run -> RunJson]
         /\ meta'[run] = [status |-> "scanned", base |-> refs[head], source |-> head]
         /\ \A r \in Run : r # run => meta'[r] = meta[r]
<1>1. run \in Run /\ meta \in [Run -> RunJson]
  BY DEF Scan, At, ProcessOK, FilesOK
<1>2. head \in Branch /\ refs[head] \in Nat
  BY DEF RepoOK
<1>3. [status |-> "scanned", base |-> refs[head], source |-> head] \in RunJson
  BY <1>2 DEF RunJson
<1>4. meta' = [meta EXCEPT ![run] = [status |-> "scanned", base |-> refs[head],
                                    source |-> head]]
  BY DEF Scan
<1> QED
  BY <1>1, <1>3, <1>4

LEMMA EvidenceTypes ==
  ASSUME ToolsOK, ProcessOK, NEW r \in Nat, NEW p \in {NoPolicy, config.policy}
  PROVE  Bound(Attached(p), r) \in Evidence /\ Inapplicable \in Evidence
                                            /\ NoEvidence \in Evidence
<1>1. config \in Configs /\ config.profile \in Profile
  BY ConfigTypes DEF ToolsOK
<1>2. Required(config) \subseteq Role
  BY <1>1, ConfigTypes DEF Required
<1>3. Verified \subseteq Role
  <2>1. \A n \in DOMAIN tools : n \in DOMAIN config.tools
    BY <1>1, ConfigTypes DEF ToolsOK
  <2> QED
    BY <1>1, <2>1, ConfigTypes DEF Verified
<1>4. Overall \in {"approved", "failed", "incomplete"}
  BY DEF Overall, DeclaredOverall
<1>5. Attached(p) \in Evidence
  BY <1>1, <1>2, <1>3, <1>4 DEF Attached, Evidence
<1>6. Inapplicable \in Evidence
  BY <1>1 DEF Inapplicable, Evidence
<1>7. NoEvidence \in Evidence
  BY <1>1 DEF NoEvidence, Evidence, Profile
<1> QED
  BY <1>5, <1>6, <1>7 DEF Bound, Evidence

LEMMA FilesStep == ASSUME ToolsOK, RepoOK, FilesOK, ProcessOK, Next PROVE FilesOK'
<1>1. meta' \in [Run -> RunJson]
  <2>1. CASE Scan
    BY <2>1, Scans
  <2>2. CASE \E s \in Settable : SetStatus(s) /\ pc # "idle"
    BY <2>2, StatusSet DEF Settable, ProcessOK
  <2> QED
    BY <2>1, <2>2, MetaKinds DEF FilesOK
<1>2. log' \in [Run -> ApplyJson]
  <2>1. log' = log \/ LogApplying \/ LogFailure \/ LogCommitted
    BY DEF Next, Work, ApplyPhase, Refuse, RefuseDirty, Start, ScanFails, Scan,
           PlanFails, Plan, Execute, ExecuteFails, GatePatch, Copy, Validate,
           ValidateFails, Bind, Decide, LogApplying, CreateBranch,
           CreateBranchFails, Apply, ApplyFails, NothingToAdd, Add, AddFails, Commit, CommitFails,
           Undo, UndoFails, LogFailure, Fail, LogCommitted, Finish, Leave, Die,
           Edit, UserCommit, files
  <2>2. CASE LogApplying
    BY <2>2 DEF LogApplying, FilesOK, ApplyJson
  <2>3. CASE LogFailure
    <3>1. run \in Run /\ log[run].status \in {"none", "applying", "committed_local"}
      BY <2>3 DEF LogFailure, At, ProcessOK, FilesOK, ApplyJson
    <3> QED
      BY <2>3, <3>1 DEF LogFailure, FilesOK, ApplyJson
  <2>4. CASE LogCommitted
    BY <2>4 DEF LogCommitted, FilesOK, ApplyJson
  <2> QED
    BY <2>1, <2>2, <2>3, <2>4 DEF FilesOK
<1>3. evidence' \in [Run -> Evidence]
  <2>1. \/ evidence' = evidence
        \/ evidence' = [evidence EXCEPT ![run] = Inapplicable]
        \/ \E p \in {NoPolicy, config.policy} :
             evidence' = [evidence EXCEPT ![run] = Bound(Attached(p), run)]
    BY DEF Next, Work, ApplyPhase, Refuse, RefuseDirty, Start, ScanFails, Scan,
           PlanFails, Plan, Execute, ExecuteFails, GatePatch, Copy, Validate,
           ValidateFails, Bind, Decide, LogApplying, CreateBranch,
           CreateBranchFails, Apply, ApplyFails, NothingToAdd, Add, AddFails, Commit, CommitFails,
           Undo, UndoFails, LogFailure, Fail, LogCommitted, Finish, Leave, Die,
           Edit, UserCommit, files
  <2>2. run \in Nat /\ NoPolicy \in {NoPolicy, config.policy}
    BY DEF ProcessOK
  <2> QED
    BY <2>1, <2>2, EvidenceTypes DEF FilesOK
<1>4. result' \in CiResult
  <2>1. \/ result' = result
        \/ \E v \in {"preflight_rejected", "scan_failed"} : result' = [run |-> 0, status |-> v]
        \/ result' = [run |-> run, status |-> verdict]
    BY DEF Next, Work, ApplyPhase, Refuse, RefuseDirty, Start, ScanFails, Scan,
           PlanFails, Plan, Execute, ExecuteFails, GatePatch, Copy, Validate,
           ValidateFails, Bind, Decide, LogApplying, CreateBranch,
           CreateBranchFails, Apply, ApplyFails, NothingToAdd, Add, AddFails, Commit, CommitFails,
           Undo, UndoFails, LogFailure, Fail, LogCommitted, Finish, Leave, Die,
           Edit, UserCommit, files, WriteResult
  <2> QED
    BY <2>1 DEF FilesOK, ProcessOK, CiResult, Reported
<1> QED
  BY <1>1, <1>2, <1>3, <1>4 DEF FilesOK

-----------------------------------------------------------------------------
(* The repository.                                                           *)

Changing == CreateBranch \/ Apply \/ ApplyFails \/ Add \/ AddFails \/ Commit
            \/ Undo \/ UndoFails \/ Edit \/ UserCommit

LEMMA RepoKinds ==
  ASSUME Next
  PROVE  /\ UNCHANGED repo \/ Changing
         /\ Changing => UNCHANGED <<run, patch, meta, evidence, log, result, command>>
<1>1. UNCHANGED repo \/ Changing
  BY DEF Next, Work, ApplyPhase, Refuse, RefuseDirty, Start, ScanFails, Scan,
         PlanFails, Plan, Execute, ExecuteFails, GatePatch, Copy, Validate,
         ValidateFails, Bind, Decide, LogApplying, CreateBranch,
         CreateBranchFails, Apply, ApplyFails, NothingToAdd, Add, AddFails, Commit, CommitFails,
         Undo, UndoFails, LogFailure, Fail, LogCommitted, Finish, Leave, Die,
         Edit, UserCommit, Changing, repo
<1>2. Changing => UNCHANGED <<run, patch, meta, evidence, log, result, command>>
  BY DEF Changing, CreateBranch, Apply, ApplyFails, Add, AddFails, Commit, Undo,
         UndoFails, Edit, UserCommit, files, process, At
<1> QED
  BY <1>1, <1>2

(* The trees at hand.                                                        *)
LEMMA TreesAtHand ==
  ASSUME ToolsOK, RepoOK, FilesOK, ProcessOK
  PROVE  /\ \A b \in Branch : refs[b] # NoRef => Committed(b) \in Tree
         /\ run \in Run => Base \in Tree
         /\ run \in Run => Patched \in Tree
         /\ Added \in Tree
         /\ Len(commits) \in Nat
<1>1. Len(commits) \in Nat /\ \A k \in 1 .. Len(commits) : commits[k] \in Tree
  BY DEF RepoOK
<1>2. \A b \in Branch : refs[b] # NoRef => Committed(b) \in Tree
  BY <1>1 DEF RepoOK, Committed
<1>3. run \in Run => Base \in Tree
  BY <1>1 DEF RepoOK, Base
<1>4. run \in Run => Patched \in Tree
  <2>1. patch \in SUBSET File /\ work \in Tree
    BY DEF ProcessOK, RepoOK
  <2> QED
    BY <2>1 DEF Patched, Tree, Content
<1>5. Added \in Tree
  BY DEF Added, RepoOK, Tree
<1> QED
  BY <1>1, <1>2, <1>3, <1>4, <1>5

LEMMA Bases ==
  ASSUME RepoOK, FilesOK, ProcessOK, Next
  PROVE  \A r \in Run : meta'[r].base \in 1 .. Len(commits)
<1>1. CASE Scan
  <2>1. refs[head] \in 1 .. Len(commits)
    BY DEF RepoOK
  <2>2. meta'[run].base = refs[head] /\ \A r \in Run : r # run => meta'[r].base = meta[r].base
    <3>1. meta'[run] = [status |-> "scanned", base |-> refs[head], source |-> head]
      BY <1>1, Scans
    <3>2. \A r \in Run : r # run => meta'[r] = meta[r]
      BY <1>1, Scans
    <3> QED
      BY <3>1, <3>2
  <2> QED
    BY <2>1, <2>2 DEF RepoOK
<1>2. CASE \E s \in Settable : SetStatus(s) /\ pc # "idle"
  BY <1>2, StatusSet DEF Settable, ProcessOK, RepoOK
<1> QED
  BY <1>1, <1>2, MetaKinds DEF RepoOK

(* A branch is put on a commit.                                              *)
LEMMA RefMoves ==
  ASSUME RepoOK, NEW b \in Branch, NEW k \in 1 .. Len(commits'),
         refs' = [refs EXCEPT ![b] = k], Len(commits') >= Len(commits)
  PROVE  refs' \in [Branch -> 0 .. Len(commits')] /\ refs'[b] # NoRef
BY DEF RepoOK

(* A commit is added.                                                        *)
LEMMA CommitAdded ==
  ASSUME RepoOK, NEW t \in Tree, commits' = Append(commits, t)
  PROVE  /\ commits' \in Seq(Tree) /\ Len(commits') = Len(commits) + 1
         /\ \A k \in DOMAIN commits : k \in DOMAIN commits' /\ commits'[k] = commits[k]
         /\ commits'[Len(commits')] = t /\ Len(commits) \in Nat
         /\ DOMAIN commits' = DOMAIN commits \cup {Len(commits')}
BY DEF RepoOK

(* The working tree and the commits stay trees, and the branches stay on     *)
(* commits.                                                                  *)
LEMMA RepoStep == ASSUME ToolsOK, RepoOK, FilesOK, ProcessOK, Next PROVE RepoOK'
<1> DEFINE Moved == /\ commits' \in Seq(Tree) /\ Len(commits') \in Nat
                    /\ Len(commits') >= Len(commits)
                    /\ refs' \in [Branch -> 0 .. Len(commits')]
                    /\ head' \in Branch /\ refs'[head'] # NoRef
                    /\ index' \in Tree /\ work' \in Tree
<1>1. Moved
  <2>0. /\ commits \in Seq(Tree) /\ Len(commits) \in Nat
        /\ refs \in [Branch -> 0 .. Len(commits)]
        /\ head \in Branch /\ refs[head] # NoRef /\ index \in Tree /\ work \in Tree
        /\ run \in 0 .. MaxRuns /\ (pc # "idle" => run \in Run)
    BY DEF RepoOK, ProcessOK
  <2>1. CASE UNCHANGED repo
    BY <2>0, <2>1 DEF repo
  <2>2. CASE CreateBranch
    <3>1. /\ run \in Run /\ commits' = commits /\ work' = work /\ index' = index
          /\ head' \in {head, run}
          /\ refs' = [refs EXCEPT ![run] = meta[run].base]
      BY <2>0, <2>2 DEF CreateBranch, At
    <3>2. meta[run].base \in 1 .. Len(commits)
      BY <3>1 DEF RepoOK
    <3> QED
      BY <2>0, <3>1, <3>2
  <2>3. CASE Apply \/ ApplyFails
    <3>1. run \in Run /\ UNCHANGED <<commits, refs, head, index>>
      BY <2>0, <2>3 DEF Apply, ApplyFails, At
    <3>2. work' \in Tree
      <4>1. Patched \in Tree
        BY <3>1, TreesAtHand
      <4>2. \/ work' = Patched
            \/ \E S \in SUBSET patch :
                 work' = [f \in File |-> IF f \in S THEN Patched[f] ELSE work[f]]
        BY <2>3 DEF Apply, ApplyFails
      <4> QED
        BY <2>0, <4>1, <4>2 DEF Tree
    <3> QED
      BY <2>0, <3>1, <3>2
  <2>4. CASE Add \/ AddFails
    <3>1. UNCHANGED <<commits, refs, head, work>> /\ index' \in {index, Added}
      BY <2>4 DEF Add, AddFails
    <3>2. Added \in Tree
      BY TreesAtHand
    <3> QED
      BY <2>0, <3>1, <3>2
  <2>5. CASE Commit \/ UserCommit
    <3>1. /\ head' = head /\ work' = work /\ index' \in {index, work}
          /\ refs' = [refs EXCEPT ![head] = Len(commits')]
      BY <2>5 DEF Commit, UserCommit
    <3>2. PICK t \in Tree : commits' = Append(commits, t)
      BY <2>0, <2>5, <3>1 DEF Commit, UserCommit
    <3>3. commits' \in Seq(Tree) /\ Len(commits') = Len(commits) + 1
      BY <3>2, CommitAdded
    <3> QED
      BY <2>0, <3>1, <3>3
  <2>6. CASE Undo \/ UndoFails
    <3>1. /\ run \in Run /\ UNCHANGED <<commits, head>>
          /\ \/ /\ refs' = [refs EXCEPT ![head] = meta[run].base] /\ index' = Base
                /\ \/ work' = Base
                   \/ \E S \in SUBSET File :
                        work' = [f \in File |-> IF f \in S THEN work[f] ELSE Base[f]]
             \/ UNCHANGED <<refs, index, work>>
      BY <2>0, <2>6 DEF Undo, UndoFails, Reset, HalfReset, At, ProcessOK
    <3>2. Base \in Tree /\ meta[run].base \in 1 .. Len(commits)
      BY <3>1, TreesAtHand DEF RepoOK
    <3>3. CASE refs' = [refs EXCEPT ![head] = meta[run].base] /\ index' = Base
      <4>1. refs' \in [Branch -> 0 .. Len(commits)] /\ refs'[head] # NoRef
        BY <2>0, <3>2, <3>3
      <4>2. work' \in Tree
        BY <2>0, <3>1, <3>2 DEF Tree
      <4> QED
        BY <2>0, <3>1, <3>2, <3>3, <4>1, <4>2
    <3>4. CASE UNCHANGED <<refs, index, work>>
      BY <2>0, <3>1, <3>4
    <3> QED
      BY <3>1, <3>3, <3>4
  <2>7. CASE Edit
    <3>1. UNCHANGED <<commits, refs, head>>
      BY <2>7 DEF Edit
    <3>2. PICK f \in Edited :
            /\ work' = [work EXCEPT ![f] = @ \cup {Dirt}]
            /\ index' = index \/ index' = [index EXCEPT ![f] = work[f] \cup {Dirt}]
      BY <2>7 DEF Edit
    <3>3. work[f] \cup {Dirt} \in Content
      BY <2>0 DEF Tree, Content, Dirt
    <3>4. work' \in Tree /\ index' \in Tree
      BY <2>0, <3>2, <3>3 DEF Tree
    <3> QED
      BY <2>0, <3>1, <3>4
  <2> QED
    BY <2>1, <2>2, <2>3, <2>4, <2>5, <2>6, <2>7, RepoKinds DEF Changing
<1>2. \A r \in Run : meta'[r].base \in 1 .. Len(commits')
  <2>1. \A r \in Run : meta'[r].base \in 1 .. Len(commits)
    BY Bases
  <2>2. Len(commits) \in Nat
    BY DEF RepoOK
  <2> QED
    BY <1>1, <2>1, <2>2
<1> QED
  BY <1>1, <1>2 DEF RepoOK

LEMMA TypeInit == Init => TypeOK
<1> SUFFICES ASSUME Init PROVE TypeOK
  OBVIOUS
<1>1. config \in Configs /\ Len(config.tools) \in Nat
  BY ConfigTypes DEF Init
<1>2. tools \in Seq(ToolStatus) /\ Len(tools) <= Len(config.tools)
  BY <1>1 DEF Init
<1>3. Pristine \in Tree
  BY DEF Pristine, Tree, Content
<1>4. commits \in Seq(Tree) /\ Len(commits) = 1
  BY <1>3 DEF Init
<1>5. refs \in [Branch -> 0 .. Len(commits)] /\ head \in Branch /\ refs[head] # NoRef
  BY <1>4 DEF Init
<1>6. meta \in [Run -> RunJson] /\ \A r \in Run : meta[r].base \in 1 .. Len(commits)
  BY <1>4 DEF Init, RunJson
<1>7. log \in [Run -> ApplyJson]
  BY DEF Init, ApplyJson
<1>8. NoEvidence \in Evidence
  BY <1>1, ConfigTypes DEF NoEvidence, Evidence, Profile
<1>9. evidence \in [Run -> Evidence] /\ result \in CiResult
  BY <1>8 DEF Init, CiResult
<1>10. patch \in SUBSET File
  BY DEF Init
<1>11. ToolsOK
  BY <1>1, <1>2 DEF ToolsOK
<1>12. RepoOK
  BY <1>3, <1>4, <1>5, <1>6 DEF RepoOK, Init
<1>13. FilesOK
  BY <1>6, <1>7, <1>9 DEF FilesOK
<1>14. ProcessOK
  BY <1>10 DEF ProcessOK, Places, Init
<1> QED
  BY <1>11, <1>12, <1>13, <1>14, TypeParts

LEMMA TypeStep == TypeOK /\ [Next]_vars => TypeOK'
<1> SUFFICES ASSUME TypeOK, [Next]_vars PROVE TypeOK'
  OBVIOUS
<1>1. CASE Next
  <2>1. ToolsOK' /\ RepoOK' /\ FilesOK' /\ ProcessOK'
    BY <1>1, TypeParts, ToolsStep, RepoStep, FilesStep, ProcessStep
  <2> QED
    BY <2>1 DEF TypeOK, ToolsOK, RepoOK, FilesOK, ProcessOK, Places, Reported
<1>2. CASE UNCHANGED vars
  BY <1>2 DEF vars, validator, repo, files, process, TypeOK, Committed
<1> QED
  BY <1>1, <1>2

(* Every variable of the command stays within its type, for every set of     *)
(* configurations, plans and commands: the branch checked out is always on   *)
(* a commit, and every run's base is one.                                    *)
THEOREM TypeCorrect == Spec => []TypeOK
BY TypeInit, TypeStep, PTL DEF Spec

-----------------------------------------------------------------------------
(* Where edits of a run are.                                                 *)

(* The files that hold an edit of the run, in the tree, in the index or in   *)
(* any commit.                                                               *)
Seen(r) ==
  {f \in File : \/ r \in work[f] \cup index[f]
                \/ \E k \in DOMAIN commits : r \in commits[k][f]}

(* What a step makes of a file in the tree, and in the index.                *)
LEMMA WorkStep ==
  ASSUME TypeOK, Next, NEW f \in File
  PROVE  \/ work'[f] = work[f]
         \/ (Apply \/ ApplyFails) /\ f \in patch /\ work'[f] = work[f] \cup {run}
         \/ (Undo \/ UndoFails) /\ work'[f] = Base[f]
         \/ Edit /\ work'[f] = work[f] \cup {Dirt}
<1>0. work \in Tree /\ patch \subseteq File
  BY DEF TypeOK
<1>1. CASE Apply \/ ApplyFails
  <2>1. \A g \in File : IF g \in patch THEN Patched[g] = work[g] \cup {run}
                                        ELSE Patched[g] = work[g]
    BY DEF Patched
  <2>2. \/ work' = Patched
        \/ \E S \in SUBSET patch :
             work' = [g \in File |-> IF g \in S THEN Patched[g] ELSE work[g]]
    BY <1>1 DEF Apply, ApplyFails
  <2> QED
    BY <1>1, <2>1, <2>2
<1>2. CASE Undo \/ UndoFails
  <2>1. \/ work' = work \/ work' = Base
        \/ \E S \in SUBSET File :
             work' = [g \in File |-> IF g \in S THEN work[g] ELSE Base[g]]
    BY <1>0, <1>2 DEF Undo, UndoFails, Reset, HalfReset
  <2> QED
    BY <1>2, <2>1
<1>3. CASE Edit
  <2>1. PICK g \in Edited : work' = [work EXCEPT ![g] = @ \cup {Dirt}]
    BY <1>3 DEF Edit
  <2> QED
    BY <1>0, <1>3, <2>1 DEF Tree
<1>4. work' = work \/ Apply \/ ApplyFails \/ Undo \/ UndoFails \/ Edit
  BY RepoKinds DEF Changing, CreateBranch, Add, AddFails, Commit, UserCommit, repo
<1> QED
  BY <1>1, <1>2, <1>3, <1>4

LEMMA IndexStep ==
  ASSUME TypeOK, Next, NEW f \in File
  PROVE  \/ index'[f] = index[f]
         \/ (Add \/ AddFails) /\ f \in patch /\ index'[f] = work[f]
         \/ (Undo \/ UndoFails) /\ index'[f] = Base[f]
         \/ Edit /\ f \in Staged /\ index'[f] = work[f] \cup {Dirt} /\ work'[f] = index'[f]
         \/ UserCommit /\ index'[f] = work[f]
<1>0. index \in Tree /\ work \in Tree
  BY DEF TypeOK
<1>1. CASE Add \/ AddFails
  <2>1. index' \in {index, Added} /\ Headers \subseteq patch
    BY <1>1 DEF Add, AddFails, Headers
  <2> QED
    BY <1>1, <2>1 DEF Added
<1>2. CASE Undo \/ UndoFails
  BY <1>2 DEF Undo, UndoFails, Reset, HalfReset
<1>3. CASE Edit
  <2>1. PICK g \in Edited :
          /\ work' = [work EXCEPT ![g] = @ \cup {Dirt}]
          /\ \/ index' = index
             \/ g \in Staged /\ index' = [index EXCEPT ![g] = work[g] \cup {Dirt}]
    BY <1>3 DEF Edit
  <2>2. index' = index \/ f # g => index'[f] = index[f]
    BY <1>0, <2>1 DEF Tree
  <2>3. ASSUME index' # index, f = g
        PROVE  f \in Staged /\ index'[f] = work[f] \cup {Dirt} /\ work'[f] = index'[f]
    BY <1>0, <2>1, <2>3 DEF Tree
  <2> QED
    BY <1>3, <2>2, <2>3
<1>4. CASE UserCommit
  BY <1>4 DEF UserCommit
<1>5. \/ index' = index \/ Add \/ AddFails \/ Undo \/ UndoFails \/ Edit
      \/ UserCommit
  BY RepoKinds DEF Changing, CreateBranch, Apply, ApplyFails, Commit, repo
<1> QED
  BY <1>1, <1>2, <1>3, <1>4, <1>5

LEMMA TouchedIsSeen ==
  ASSUME TypeOK, NEW r \in Run, NEW f \in File, Touched(r, f)
  PROVE  f \in Seen(r)
<1>1. \A b \in Branch : refs[b] # NoRef => refs[b] \in DOMAIN commits
  BY DEF TypeOK
<1> QED
  BY <1>1 DEF Touched, Committed, Seen

(* Only git apply brings edits of a run to a file; a commit, a reset, the    *)
(* user, and the next run move what is there.                                *)
LEMMA SeenStep ==
  ASSUME TypeOK, Next, NEW r \in Run
  PROVE  \/ Seen(r)' \subseteq Seen(r)
         \/ /\ r = run /\ pc = "apply" /\ pc' \in {"add", "undo"}
            /\ Seen(r)' \subseteq Seen(r) \cup patch
<1>0. RepoOK /\ (pc # "idle" => run \in Run) /\ r # Dirt
  BY TypeParts DEF TypeOK, Dirt
<1>1. ASSUME Undo \/ UndoFails, NEW f \in File, r \in Base[f]
      PROVE  f \in Seen(r)
  <2>1. run \in Run
    BY <1>0, <1>1 DEF Undo, UndoFails, At
  <2>2. meta[run].base \in DOMAIN commits
    BY <2>1 DEF TypeOK
  <2> QED
    BY <1>1, <2>2 DEF Seen, Base
<1>2. ASSUME NEW f \in File, r \in work'[f]
      PROVE  f \in Seen(r) \/ ((Apply \/ ApplyFails) /\ r = run /\ f \in patch)
  BY <1>0, <1>1, <1>2, WorkStep DEF Seen
<1>3. ASSUME NEW f \in File, r \in index'[f]
      PROVE  f \in Seen(r)
  BY <1>0, <1>1, <1>3, IndexStep DEF Seen
<1>4. ASSUME NEW f \in File, NEW k \in DOMAIN commits', r \in commits'[k][f]
      PROVE  f \in Seen(r)
  <2>1. CASE commits' = commits
    BY <1>4, <2>1 DEF Seen
  <2>2. CASE Commit \/ UserCommit
    <3>1. PICK t \in Tree : /\ commits' = Append(commits, t)
                            /\ t \in {index, index'}
      BY <2>2 DEF Commit, UserCommit, TypeOK
    <3>2. \/ k \in DOMAIN commits /\ commits'[k] = commits[k]
          \/ commits'[k] = t
      BY <1>0, <1>4, <3>1, CommitAdded
    <3> QED
      BY <1>3, <1>4, <3>1, <3>2 DEF Seen
  <2>3. commits' = commits \/ Commit \/ UserCommit
    BY RepoKinds DEF Changing, CreateBranch, Apply, ApplyFails, Add, AddFails, Undo,
                     UndoFails, Edit, repo
  <2> QED
    BY <2>1, <2>2, <2>3
<1>5. Apply \/ ApplyFails => pc = "apply" /\ pc' \in {"add", "undo"}
  BY DEF Apply, ApplyFails, At, Goto
<1>6. ASSUME NEW f \in Seen(r)'
      PROVE  f \in File /\ (r \in work'[f] \/ r \in index'[f]
                           \/ \E k \in DOMAIN commits' : r \in commits'[k][f])
  BY DEF Seen
<1>7. CASE (Apply \/ ApplyFails) /\ r = run
  BY <1>2, <1>3, <1>4, <1>5, <1>6, <1>7
<1>8. CASE ~((Apply \/ ApplyFails) /\ r = run)
  BY <1>2, <1>3, <1>4, <1>6, <1>8
<1> QED
  BY <1>7, <1>8

-----------------------------------------------------------------------------
(* No edit without evidence.                                                 *)

(* The roles that a standard command of the configuration is declared for.   *)
StandardRoles ==
  UNION {config.tools[n].roles : n \in {k \in DOMAIN config.tools : config.tools[k].standard}}

(* What evidence says of the configuration is so; the evidence of a patch    *)
(* that does not apply clears nothing.                                       *)
Faithful(e) ==
  /\ ~e.versioned => e.overall = "failed"
  /\ e.versioned => /\ e.profile = config.profile
                    /\ e.profile = "v2" => /\ e.required = Required(config)
                                           /\ e.verified \subseteq StandardRoles

Early == {"scan", "plan", "execute", "gate", "copy", "validate", "decide", "log",
          "branch", "apply"}
Late == {"log", "branch", "apply", "add", "staged", "undo", "undone", "fail",
         "failing", "committed", "logged"}

Traces ==
  /\ \A r \in Run : Faithful(evidence[r])
  /\ \A r \in Run : r > run \/ (r = run /\ pc \in Early) => Seen(r) = {}
  /\ \A r \in Run : r = run /\ pc \in Late =>
       /\ Authorized(evidence[r], r, NoPolicy)
       /\ pc # "log" => log[r].status # "none"
  /\ \A r \in Run : Seen(r) # {} =>
       Authorized(evidence[r], r, NoPolicy) /\ log[r].status # "none"

LEMMA FaithfulWritten ==
  ASSUME TypeOK, NEW r \in Nat, NEW p \in {NoPolicy, config.policy}
  PROVE  Faithful(Bound(Attached(p), r)) /\ Faithful(Inapplicable) /\ Faithful(NoEvidence)
<1>1. config \in Configs /\ Len(tools) <= Len(config.tools) /\ tools \in Seq(ToolStatus)
  BY DEF TypeOK
<1>2. \A n \in DOMAIN tools : n \in DOMAIN config.tools
  BY <1>1, ConfigTypes
<1>3. Verified \subseteq StandardRoles
  BY <1>2 DEF Verified, StandardRoles
<1>4. Faithful(Bound(Attached(p), r))
  BY <1>3 DEF Faithful, Bound, Attached
<1>5. Faithful(Inapplicable)
  BY DEF Faithful, Inapplicable
<1>6. Faithful(NoEvidence)
  BY DEF Faithful, NoEvidence
<1> QED
  BY <1>4, <1>5, <1>6

(* validation.json is written by the validation of its own run alone, which  *)
(* comes before the run touches anything.                                    *)
LEMMA EvidenceKinds ==
  ASSUME TypeOK, Next
  PROVE  \/ evidence' = evidence
         \/ /\ pc \in {"copy", "validate"} /\ pc' = "decide" /\ run \in Run /\ run' = run
            /\ \E e \in {Inapplicable, Bound(Attached(NoPolicy), run),
                         Bound(Attached(config.policy), run)} :
                 evidence' = [evidence EXCEPT ![run] = e]
<1>1. evidence' = evidence \/ Copy \/ Bind
  BY DEF Next, Work, ApplyPhase, Refuse, RefuseDirty, Start, ScanFails, Scan,
         PlanFails, Plan, Execute, ExecuteFails, GatePatch, Copy, Validate,
         ValidateFails, Bind, Decide, LogApplying, CreateBranch,
         CreateBranchFails, Apply, ApplyFails, NothingToAdd, Add, AddFails, Commit, CommitFails,
         Undo, UndoFails, LogFailure, Fail, LogCommitted, Finish, Leave, Die,
         Edit, UserCommit, files
<1>2. CASE Copy \/ Bind
  BY <1>2 DEF Copy, Bind, At, Goto, TypeOK
<1> QED
  BY <1>1, <1>2

(* The log of a run is never taken back.                                     *)
LEMMA LogKinds ==
  ASSUME TypeOK, Next
  PROVE  /\ \A r \in Run : log[r].status # "none" => log'[r].status # "none"
         /\ pc = "log" /\ pc' = "branch" => log'[run].status # "none"
<1>1. UNCHANGED log \/ LogApplying \/ LogFailure \/ LogCommitted
  BY DEF Next, Work, ApplyPhase, Refuse, RefuseDirty, Start, ScanFails, Scan,
         PlanFails, Plan, Execute, ExecuteFails, GatePatch, Copy, Validate,
         ValidateFails, Bind, Decide, LogApplying, CreateBranch,
         CreateBranchFails, Apply, ApplyFails, NothingToAdd, Add, AddFails, Commit, CommitFails,
         Undo, UndoFails, LogFailure, Fail, LogCommitted, Finish, Leave, Die,
         Edit, UserCommit, files
<1>2. log \in [Run -> ApplyJson] /\ (pc # "idle" => run \in Run)
  BY DEF TypeOK
<1>3. pc = "log" /\ pc' = "branch" => LogApplying
  BY DEF Next, Work, ApplyPhase, Refuse, RefuseDirty, Start, ScanFails, Scan,
         PlanFails, Plan, Execute, ExecuteFails, GatePatch, Copy, Validate,
         ValidateFails, Bind, Decide, LogApplying, CreateBranch,
         CreateBranchFails, Apply, ApplyFails, NothingToAdd, Add, AddFails, Commit, CommitFails,
         Undo, UndoFails, LogFailure, Fail, LogCommitted, Finish, Leave, Die,
         Edit, UserCommit, At, Goto, Report, process
<1>4. CASE LogApplying
  BY <1>2, <1>4 DEF LogApplying, At
<1>5. CASE LogFailure
  BY <1>2, <1>5 DEF LogFailure, At
<1>6. CASE LogCommitted
  BY <1>2, <1>6 DEF LogCommitted, At
<1> QED
  BY <1>1, <1>3, <1>4, <1>5, <1>6

(* How the command moves on: a run is early until git apply, and late only   *)
(* from its decision on.                                                     *)
LEMMA Moves ==
  ASSUME TypeOK, Next
  PROVE  /\ run' = run \/ (run' = run + 1 /\ pc' = "scan")
         /\ pc' \in Early => pc \in Early \/ (pc' = "scan" /\ run' = run + 1)
         /\ pc' = "log" => pc = "log" \/ Authorized(evidence[run], run, NoPolicy)
         /\ pc' \in Late => pc \in Late \/ pc' = "log"
         /\ pc = "log" => pc' \in {"log", "branch", "idle"}
         /\ pc = "apply" => pc' \in {"apply", "add", "undo", "idle"}
<1>1. run' = run \/ (run' = run + 1 /\ pc' = "scan")
  BY DEF Next, Work, ApplyPhase, Refuse, RefuseDirty, Start, ScanFails, Scan,
         PlanFails, Plan, Execute, ExecuteFails, GatePatch, Copy, Validate,
         ValidateFails, Bind, Decide, LogApplying, CreateBranch,
         CreateBranchFails, Apply, ApplyFails, NothingToAdd, Add, AddFails, Commit, CommitFails,
         Undo, UndoFails, LogFailure, Fail, LogCommitted, Finish, Leave, Die,
         Edit, UserCommit, At, Goto, Report, process
<1>2. pc' \in Early => pc \in Early \/ (pc' = "scan" /\ run' = run + 1)
  BY DEF Next, Work, ApplyPhase, Refuse, RefuseDirty, Start, ScanFails, Scan,
         PlanFails, Plan, Execute, ExecuteFails, GatePatch, Copy, Validate,
         ValidateFails, Bind, Decide, LogApplying, CreateBranch,
         CreateBranchFails, Apply, ApplyFails, NothingToAdd, Add, AddFails, Commit, CommitFails,
         Undo, UndoFails, LogFailure, Fail, LogCommitted, Finish, Leave, Die,
         Edit, UserCommit, At, Goto, Report, process, Early
<1>3. pc' = "log" => pc = "log" \/ Authorized(evidence[run], run, NoPolicy)
  BY DEF Next, Work, ApplyPhase, Refuse, RefuseDirty, Start, ScanFails, Scan,
         PlanFails, Plan, Execute, ExecuteFails, GatePatch, Copy, Validate,
         ValidateFails, Bind, Decide, LogApplying, CreateBranch,
         CreateBranchFails, Apply, ApplyFails, NothingToAdd, Add, AddFails, Commit, CommitFails,
         Undo, UndoFails, LogFailure, Fail, LogCommitted, Finish, Leave, Die,
         Edit, UserCommit, At, Goto, Report, process, Cleared
<1>4. pc' \in Late => pc \in Late \/ pc' = "log"
  BY DEF Next, Work, ApplyPhase, Refuse, RefuseDirty, Start, ScanFails, Scan,
         PlanFails, Plan, Execute, ExecuteFails, GatePatch, Copy, Validate,
         ValidateFails, Bind, Decide, LogApplying, CreateBranch,
         CreateBranchFails, Apply, ApplyFails, NothingToAdd, Add, AddFails, Commit, CommitFails,
         Undo, UndoFails, LogFailure, Fail, LogCommitted, Finish, Leave, Die,
         Edit, UserCommit, At, Goto, Report, process, Late
<1>5. pc = "log" => pc' \in {"log", "branch", "idle"}
  BY DEF Next, Work, ApplyPhase, Refuse, RefuseDirty, Start, ScanFails, Scan,
         PlanFails, Plan, Execute, ExecuteFails, GatePatch, Copy, Validate,
         ValidateFails, Bind, Decide, LogApplying, CreateBranch,
         CreateBranchFails, Apply, ApplyFails, NothingToAdd, Add, AddFails, Commit, CommitFails,
         Undo, UndoFails, LogFailure, Fail, LogCommitted, Finish, Leave, Die,
         Edit, UserCommit, At, Goto, Report, process
<1>6. pc = "apply" => pc' \in {"apply", "add", "undo", "idle"}
  BY DEF Next, Work, ApplyPhase, Refuse, RefuseDirty, Start, ScanFails, Scan,
         PlanFails, Plan, Execute, ExecuteFails, GatePatch, Copy, Validate,
         ValidateFails, Bind, Decide, LogApplying, CreateBranch,
         CreateBranchFails, Apply, ApplyFails, NothingToAdd, Add, AddFails, Commit, CommitFails,
         Undo, UndoFails, LogFailure, Fail, LogCommitted, Finish, Leave, Die,
         Edit, UserCommit, At, Goto, Report, process
<1> QED
  BY <1>1, <1>2, <1>3, <1>4, <1>5, <1>6

LEMMA TracesInit == Init => Traces
<1> SUFFICES ASSUME Init PROVE Traces
  OBVIOUS
<1>1. TypeOK
  BY TypeInit
<1>2. \A r \in Run : Faithful(evidence[r])
  BY <1>1, FaithfulWritten DEF Init
<1>3. \A r \in Run : Seen(r) = {}
  BY DEF Init, Seen, Pristine
<1> QED
  BY <1>2, <1>3 DEF Traces, Init, Late

LEMMA TracesStep == TypeOK /\ Traces /\ [Next]_vars => Traces'
<1> SUFFICES ASSUME TypeOK, Traces, [Next]_vars PROVE Traces'
  OBVIOUS
<1>1. CASE UNCHANGED vars
  BY <1>1 DEF vars, validator, repo, files, process, Traces, Seen, Faithful, Required,
              StandardRoles
<1>2. CASE Next
  <2>1. config' = config
    BY <1>2, ToolsStep, TypeParts
  <2>2. ASSUME NEW r \in Run PROVE Faithful(evidence'[r])
    <3>1. Faithful(evidence[r])
      BY DEF Traces
    <3>2. CASE evidence' = evidence
      BY <3>1, <3>2
    <3>3. CASE evidence' # evidence
      <4>1. PICK e \in {Inapplicable, Bound(Attached(NoPolicy), run),
                        Bound(Attached(config.policy), run)} :
              run \in Run /\ evidence' = [evidence EXCEPT ![run] = e]
        BY <1>2, <3>3, EvidenceKinds
      <4>2. Faithful(e)
        BY <4>1, FaithfulWritten
      <4>3. evidence \in [Run -> Evidence]
        BY DEF TypeOK
      <4> QED
        BY <3>1, <4>1, <4>2, <4>3
    <3> QED
      BY <3>2, <3>3
  <2>3. (\A r \in Run : Faithful(evidence[r]))'
    BY <2>1, <2>2 DEF Faithful, Required, StandardRoles
  <2>4. ASSUME NEW r \in Run
        PROVE  (r > run \/ (r = run /\ pc \in Early) => Seen(r) = {})'
    <3> SUFFICES ASSUME r > run' \/ (r = run' /\ pc' \in Early) PROVE Seen(r)' = {}
      OBVIOUS
    <3>1. run \in 0 .. MaxRuns
      BY DEF TypeOK
    <3>2. r > run \/ (r = run /\ pc \in Early)
      BY <1>2, <3>1, Moves
    <3>3. Seen(r) = {}
      BY <3>2 DEF Traces
    <3>4. ~(r = run /\ pc = "apply" /\ pc' \in {"add", "undo"})
      BY <1>2, <3>1, Moves DEF Early
    <3> QED
      BY <1>2, <3>3, <3>4, SeenStep
  <2>5. ASSUME NEW r \in Run
        PROVE  (r = run /\ pc \in Late => /\ Authorized(evidence[r], r, NoPolicy)
                                          /\ pc # "log" => log[r].status # "none")'
    <3> SUFFICES ASSUME r = run', pc' \in Late
                 PROVE  /\ Authorized(evidence'[r], r, NoPolicy)
                        /\ pc' # "log" => log'[r].status # "none"
      BY DEF Authorized
    <3>1. run' = run
      BY <1>2, Moves DEF Late
    <3>2. evidence' = evidence
      BY <1>2, EvidenceKinds DEF Late
    <3>3. pc \in Late \/ (pc' = "log" /\ Authorized(evidence[run], run, NoPolicy))
      BY <1>2, Moves DEF Late
    <3>4. Authorized(evidence'[r], r, NoPolicy)
      BY <3>1, <3>2, <3>3 DEF Traces
    <3>5. pc' # "log" => log'[r].status # "none"
      <4>1. CASE pc = "log"
        BY <1>2, <3>1, <4>1, Moves, LogKinds DEF Late
      <4>2. CASE pc # "log"
        BY <1>2, <3>1, <3>3, <4>2, LogKinds DEF Traces
      <4> QED
        BY <4>1, <4>2
    <3> QED
      BY <3>4, <3>5
  <2>6. ASSUME NEW r \in Run
        PROVE  (Seen(r) # {} => Authorized(evidence[r], r, NoPolicy) /\ log[r].status # "none")'
    <3> SUFFICES ASSUME Seen(r)' # {}
                 PROVE  Authorized(evidence'[r], r, NoPolicy) /\ log'[r].status # "none"
      BY DEF Authorized
    <3>1. Authorized(evidence[r], r, NoPolicy) /\ log[r].status # "none"
      <4>1. CASE Seen(r) # {}
        BY <4>1 DEF Traces
      <4>2. CASE r = run /\ pc = "apply"
        BY <4>2 DEF Traces, Late
      <4> QED
        BY <1>2, <4>1, <4>2, SeenStep
    <3>2. evidence'[r] = evidence[r]
      <4>1. CASE r = run /\ pc \in {"copy", "validate"}
        <5>1. Seen(r) = {}
          BY <4>1 DEF Traces, Early
        <5> QED
          BY <1>2, <4>1, <5>1, SeenStep
      <4>2. CASE ~(r = run /\ pc \in {"copy", "validate"})
        BY <1>2, <4>2, EvidenceKinds DEF TypeOK
      <4> QED
        BY <4>1, <4>2
    <3> QED
      BY <1>2, <3>1, <3>2, LogKinds
  <2> QED
    BY <2>3, <2>4, <2>5, <2>6 DEF Traces
<1> QED
  BY <1>1, <1>2

LEMMA TracesAre == Spec => [](TypeOK /\ Traces)
<1>1. Init => TypeOK /\ Traces
  BY TypeInit, TracesInit
<1>2. (TypeOK /\ Traces) /\ [Next]_vars => (TypeOK /\ Traces)'
  BY TypeStep, TracesStep
<1> QED
  BY <1>1, <1>2, PTL DEF Spec

(* No edit of a run is in the tree or on a branch before its log says so and *)
(* without approved evidence for its own patch, which on declared validators *)
(* has every role checked by a standard command.                             *)
THEOREM NothingUnvalidated == Spec => []TouchedIsValidated
<1>1. TypeOK /\ Traces => TouchedIsValidated
  <2> SUFFICES ASSUME TypeOK, Traces, NEW r \in Run, NEW f \in File, Touched(r, f)
               PROVE  /\ log[r].status # "none"
                      /\ evidence[r].overall = "approved" /\ evidence[r].patch = r
                      /\ config.profile = "v2" =>
                           \A k \in DOMAIN config.tools :
                             \A role \in config.tools[k].roles :
                               \E n \in DOMAIN config.tools :
                                 config.tools[n].standard /\ role \in config.tools[n].roles
    BY DEF TouchedIsValidated
  <2>1. Authorized(evidence[r], r, NoPolicy) /\ log[r].status # "none"
    BY TouchedIsSeen DEF Traces
  <2>2. Faithful(evidence[r])
    BY DEF Traces
  <2>3. /\ evidence[r].overall = "approved" /\ evidence[r].patch = r
        /\ config.profile = "v2" => Required(config) \subseteq StandardRoles
    BY <2>1, <2>2 DEF Authorized, Faithful
  <2> QED
    BY <2>1, <2>3 DEF Required, StandardRoles
<1> QED
  BY <1>1, TracesAre, PTL

-----------------------------------------------------------------------------
(* No edit beyond the budget.                                                *)

(* A set of files within the budget of the command.                          *)
Fit(F) ==
  /\ F \cap Dangerous = {}
  /\ \A f \in F : Rank(Tier[f]) <= Rank(command.budget)
  /\ command.budget = "low" => F \cap Source = {}
  /\ Cardinality(F) <= MaxFiles

Planned == {"execute", "gate", "copy", "validate", "decide"} \cup Late

Budgeted ==
  /\ pc \in Planned => Fit(patch)
  /\ \A r \in Run : Fit(Seen(r))

LEMMA FitSubset ==
  ASSUME NEW F \in SUBSET File, NEW S \in SUBSET F, Fit(F)
  PROVE  Fit(S)
<1>1. IsFiniteSet(F)
  BY FS_Subset
<1>2. Cardinality(S) <= Cardinality(F) /\ Cardinality(S) \in Nat /\ Cardinality(F) \in Nat
  BY <1>1, FS_Subset, FS_CardinalityType
<1>3. MaxFiles \in Nat
  BY DEF MaxFiles
<1>4. Cardinality(S) <= MaxFiles
  BY <1>2, <1>3 DEF Fit
<1> QED
  BY <1>4 DEF Fit

LEMMA FitNothing == Fit({})
BY FS_EmptySet DEF Fit, MaxFiles

(* The plan gate lets only such sets through: the taxonomy bounds the risk   *)
(* of a file by the task's, and the budget bounds the task's.                *)
LEMMA PlanGateFits ==
  ASSUME TypeOK, NEW plan \in Plans, PlanGate(plan)
  PROVE  FilesOf(plan) \in SUBSET File /\ Fit(FilesOf(plan))
<1>1. plan \in SUBSET Task
  OBVIOUS
<1>2. FilesOf(plan) \in SUBSET File
  BY <1>1 DEF FilesOf, Task
<1>3. command.budget \in Budget
  BY DEF TypeOK, Command
<1>4. ASSUME NEW f \in FilesOf(plan)
      PROVE  /\ Rank(Tier[f]) <= Rank(command.budget)
             /\ command.budget = "low" => f \notin Source
  <2>1. PICK t \in plan : f \in t.files
    BY DEF FilesOf
  <2>2. t \in Task /\ t.risk \in Risk /\ f \in File /\ Tier[f] \in Risk \cup {"none"}
    BY <1>1, <1>2, <2>1 DEF Task
  <2>3. ~(Rank(Tier[f]) > Rank(t.risk))
    BY <2>1 DEF PlanGate, Outranked
  <2>4. Rank(Effective(t)) <= Rank(command.budget)
    BY <2>1 DEF PlanGate
  <2>5. Rank(t.risk) <= Rank(Effective(t))
    BY <2>2 DEF Effective, Rank, Risk
  <2>6. /\ Rank(Tier[f]) \in Int /\ Rank(t.risk) \in Int
        /\ Rank(Effective(t)) \in Int /\ Rank(command.budget) \in Int
    BY <1>3, <2>2 DEF Effective, Rank, Risk, Budget
  <2>7. command.budget = "low" => f \notin Source
    BY <2>1, <2>2, <2>4 DEF Effective, Rank, Risk
  <2> QED
    BY <2>3, <2>4, <2>5, <2>6, <2>7
<1> QED
  BY <1>2, <1>4 DEF Fit, PlanGate

LEMMA BudgetedInit == Init => Budgeted
<1> SUFFICES ASSUME Init PROVE Budgeted
  OBVIOUS
<1>1. \A r \in Run : Seen(r) = {}
  BY DEF Init, Seen, Pristine
<1> QED
  BY <1>1, FitNothing DEF Init, Budgeted, Planned, Late

LEMMA BudgetedStep == TypeOK /\ Traces /\ Budgeted /\ [Next]_vars => Budgeted'
<1> SUFFICES ASSUME TypeOK, Traces, Budgeted, [Next]_vars PROVE Budgeted'
  OBVIOUS
<1>1. CASE UNCHANGED vars
  BY <1>1 DEF vars, validator, repo, files, process, Budgeted, Seen, Fit, MaxFiles
<1>2. CASE Next
  <2>1. command' = command
    BY <1>2, ToolsStep, TypeParts
  <2>2. ASSUME pc' \in Planned PROVE Fit(patch')
    <3>1. (patch' = patch /\ pc \in Planned) \/ Plan \/ Execute
      BY <1>2, <2>2 DEF Next, Work, ApplyPhase, Refuse, RefuseDirty, Start,
             ScanFails, Scan, PlanFails, Plan, Execute, ExecuteFails, GatePatch,
             Copy, Validate, ValidateFails, Bind, Decide, LogApplying,
             CreateBranch, CreateBranchFails, Apply, ApplyFails, NothingToAdd,
             Add, AddFails, Commit, CommitFails, Undo, UndoFails, LogFailure, Fail, LogCommitted,
             Finish, Leave, Die, Edit, UserCommit, At, Goto, Report, process,
             Planned, Late
    <3>2. CASE patch' = patch /\ pc \in Planned
      BY <3>2 DEF Budgeted
    <3>3. CASE Plan
      <4>1. pc' # "report"
        BY <2>2 DEF Planned, Late
      <4>2. PICK plan \in Plans : PlanGate(plan) /\ patch' = FilesOf(plan)
        BY <3>3, <4>1 DEF Plan, Report, Goto
      <4> QED
        BY <4>2, PlanGateFits
    <3>4. CASE Execute
      <4>1. patch' \in SUBSET patch /\ patch \in SUBSET File
        BY <3>4 DEF Execute, TypeOK
      <4>2. Fit(patch)
        BY <3>4 DEF Execute, At, Budgeted, Planned
      <4> QED
        BY <4>1, <4>2, FitSubset
    <3> QED
      BY <3>1, <3>2, <3>3, <3>4
  <2>3. ASSUME NEW r \in Run PROVE Fit(Seen(r)')
    <3>1. Seen(r)' \subseteq Seen(r) \/ (r = run /\ pc = "apply" /\ Seen(r)' \subseteq patch)
      BY <1>2, SeenStep DEF Traces, Early
    <3>2. Fit(Seen(r)) /\ (pc = "apply" => Fit(patch))
      BY DEF Budgeted, Planned, Late
    <3>3. Seen(r) \in SUBSET File /\ patch \in SUBSET File
      BY DEF Seen, TypeOK
    <3> QED
      BY <3>1, <3>2, <3>3, FitSubset
  <2> QED
    BY <2>1, <2>2, <2>3 DEF Budgeted, Fit, MaxFiles
<1> QED
  BY <1>1, <1>2

(* No run ever touches a file of the infrastructure, one whose place is of a *)
(* higher risk than the budget, or more files than it allows: a plan cannot  *)
(* get past the gate by giving its tasks a lower risk than their files have. *)
THEOREM NothingBeyondTheBudget == Spec => []TouchedIsWithinBudget
<1>1. Init => TypeOK /\ Traces /\ Budgeted
  BY TypeInit, TracesInit, BudgetedInit
<1>2. TypeOK /\ Traces /\ Budgeted /\ [Next]_vars => (TypeOK /\ Traces /\ Budgeted)'
  BY TypeStep, TracesStep, BudgetedStep
<1>3. TypeOK /\ Budgeted => TouchedIsWithinBudget
  <2> SUFFICES ASSUME TypeOK, Budgeted, NEW r \in Run
               PROVE  Fit({f \in File : Touched(r, f)})
    BY DEF TouchedIsWithinBudget, Fit
  <2>1. {f \in File : Touched(r, f)} \in SUBSET Seen(r) /\ Seen(r) \in SUBSET File
    BY TouchedIsSeen DEF Seen
  <2> QED
    BY <2>1, FitSubset DEF Budgeted
<1> QED
  BY <1>1, <1>2, <1>3, PTL DEF Spec

-----------------------------------------------------------------------------
(* What the files of a run say.                                              *)

NoLog == [status |-> "none", failed |-> FALSE, rolledBack |-> FALSE]

Unsaid == {"scan", "plan", "execute", "gate", "copy", "validate", "decide", "log"}
Applying == {"branch", "apply", "add", "staged", "undo", "undone", "fail", "committed"}

Logged(r, s) == log[r].status = s /\ ~log[r].failed /\ ~log[r].rolledBack

(* The files of the run are as a result with this status says.               *)
Told(r, v) ==
  /\ v \in Reported
  /\ v = "applied" => meta[r].status = "applied"
  /\ v = "apply_failed" => meta[r].status = "failed" /\ log[r].failed
  /\ v = "preview_failed" => /\ meta[r].status \in {"failed", "validation_failed"}
                             /\ log[r].status = "none"
  /\ v = "plan_failed" => meta[r].status = "failed" /\ evidence[r] = NoEvidence
  /\ v = "scan_failed" => meta[r].status \in {"none", "scanned"}

(* What is written of the run that is under way.                             *)
RunRecord ==
  \A r \in Run : r = run =>
    /\ pc = "scan" => meta[r].status = "none"
    /\ pc \in {"scan", "plan"} => evidence[r] = NoEvidence
    /\ pc \in Unsaid => log[r] = NoLog
    /\ pc \in Applying => Logged(r, "applying")
    /\ pc = "failing" => log[r].failed
    /\ pc = "logged" => Logged(r, "committed_local")
    /\ pc \notin {"idle", "report"} => meta[r].status # "applied"
    /\ pc = "report" => Told(r, verdict)

Records ==
  /\ \A r \in Run : r > run =>
       meta[r].status = "none" /\ log[r] = NoLog /\ evidence[r] = NoEvidence
  /\ RunRecord
  /\ \A r \in Run :
       meta[r].status = "applied" => log[r].status = "committed_local" /\ ~log[r].failed
  /\ result.run <= run /\ (pc # "idle" => result.run < run)
  /\ \A r \in Run : r = result.run => Told(r, result.status)

(* A step writes to the files of the run that is under way, and to no other. *)
LEMMA OwnFiles ==
  ASSUME TypeOK, Next, NEW r \in Run, r # run \/ pc = "idle"
  PROVE  meta'[r] = meta[r] /\ log'[r] = log[r] /\ evidence'[r] = evidence[r]
<1>1. /\ meta \in [Run -> RunJson] /\ log \in [Run -> ApplyJson]
      /\ evidence \in [Run -> Evidence] /\ (pc # "idle" => run \in Run)
  BY DEF TypeOK
<1>2. meta'[r] = meta[r]
  <2>1. FilesOK /\ ProcessOK /\ RepoOK
    BY TypeParts
  <2>2. CASE Scan
    BY <2>1, <2>2, Scans DEF Scan, At
  <2>3. CASE \E s \in Settable : SetStatus(s) /\ pc # "idle"
    BY <1>1, <2>1, <2>3, StatusSet DEF Settable
  <2> QED
    BY <2>2, <2>3, MetaKinds
<1>3. log'[r] = log[r]
  <2>1. UNCHANGED log \/ LogApplying \/ LogFailure \/ LogCommitted
    BY <1>2 DEF Next, Work, ApplyPhase, Refuse, RefuseDirty, Start, ScanFails,
           Scan, PlanFails, Plan, Execute, ExecuteFails, GatePatch, Copy,
           Validate, ValidateFails, Bind, Decide, LogApplying, CreateBranch,
           CreateBranchFails, Apply, ApplyFails, NothingToAdd, Add, AddFails, Commit, CommitFails,
           Undo, UndoFails, LogFailure, Fail, LogCommitted, Finish, Leave, Die,
           Edit, UserCommit, files
  <2> QED
    BY <1>1, <2>1 DEF LogApplying, LogFailure, LogCommitted, At
<1>4. evidence'[r] = evidence[r]
  BY <1>1, EvidenceKinds
<1> QED
  BY <1>2, <1>3, <1>4

LEMMA RecordsInit == Init => Records
BY DEF Init, Records, RunRecord, NoLog, NoEvidence

(* The record of a run, at a step that is made while it is under way.        *)
LEMMA RunRecordStep ==
  ASSUME TypeOK, Records, Next, NEW r \in Run, r = run, run' = run
  PROVE  /\ pc' = "scan" => meta'[r].status = "none"
         /\ pc' \in {"scan", "plan"} => evidence'[r] = NoEvidence
         /\ pc' \in Unsaid => log'[r] = NoLog
         /\ pc' \in Applying => Logged(r, "applying")'
         /\ pc' = "failing" => log'[r].failed
         /\ pc' = "logged" => Logged(r, "committed_local")'
         /\ pc' \notin {"idle", "report"} => meta'[r].status # "applied"
<1>1. /\ meta \in [Run -> RunJson] /\ log \in [Run -> ApplyJson]
      /\ evidence \in [Run -> Evidence]
  BY DEF TypeOK
<1>2. /\ pc = "scan" => meta[r].status = "none"
      /\ pc \in {"scan", "plan"} => evidence[r] = NoEvidence
      /\ pc \in Unsaid => log[r] = NoLog
      /\ pc \in Applying => Logged(r, "applying")
      /\ pc = "failing" => log[r].failed
      /\ pc = "logged" => Logged(r, "committed_local")
      /\ pc \notin {"idle", "report"} => meta[r].status # "applied"
  BY DEF Records, RunRecord
<1>3. pc' = "scan" => meta'[r].status = "none"
  BY <1>2 DEF Next, Work, ApplyPhase, Refuse, RefuseDirty, Start, ScanFails,
         Scan, PlanFails, Plan, Execute, ExecuteFails, GatePatch, Copy,
         Validate, ValidateFails, Bind, Decide, LogApplying, CreateBranch,
         CreateBranchFails, Apply, ApplyFails, NothingToAdd, Add, AddFails, Commit, CommitFails,
         Undo, UndoFails, LogFailure, Fail, LogCommitted, Finish, Leave, Die,
         Edit, UserCommit, At, Goto, Report, process, files
<1>4. pc' \in {"scan", "plan"} => evidence'[r] = NoEvidence
  BY <1>2 DEF Next, Work, ApplyPhase, Refuse, RefuseDirty, Start, ScanFails,
         Scan, PlanFails, Plan, Execute, ExecuteFails, GatePatch, Copy,
         Validate, ValidateFails, Bind, Decide, LogApplying, CreateBranch,
         CreateBranchFails, Apply, ApplyFails, NothingToAdd, Add, AddFails, Commit, CommitFails,
         Undo, UndoFails, LogFailure, Fail, LogCommitted, Finish, Leave, Die,
         Edit, UserCommit, At, Goto, Report, process, files
<1>5. pc' \in Unsaid => log'[r] = NoLog
  BY <1>2 DEF Next, Work, ApplyPhase, Refuse, RefuseDirty, Start, ScanFails,
         Scan, PlanFails, Plan, Execute, ExecuteFails, GatePatch, Copy,
         Validate, ValidateFails, Bind, Decide, LogApplying, CreateBranch,
         CreateBranchFails, Apply, ApplyFails, NothingToAdd, Add, AddFails, Commit, CommitFails,
         Undo, UndoFails, LogFailure, Fail, LogCommitted, Finish, Leave, Die,
         Edit, UserCommit, At, Goto, Report, process, files, Unsaid
<1>6. pc' \in Applying => Logged(r, "applying")'
  <2> SUFFICES ASSUME pc' \in Applying PROVE Logged(r, "applying")'
    OBVIOUS
  <2>1. (log' = log /\ pc \in Applying) \/ LogApplying
    BY DEF Next, Work, ApplyPhase, Refuse, RefuseDirty, Start, ScanFails, Scan,
           PlanFails, Plan, Execute, ExecuteFails, GatePatch, Copy, Validate,
           ValidateFails, Bind, Decide, LogApplying, CreateBranch,
           CreateBranchFails, Apply, ApplyFails, NothingToAdd, Add, AddFails, Commit, CommitFails,
           Undo, UndoFails, LogFailure, Fail, LogCommitted, Finish, Leave, Die,
           Edit, UserCommit, At, Goto, Report, process, files, Applying
  <2>2. CASE log' = log /\ pc \in Applying
    BY <1>2, <2>2 DEF Logged
  <2>3. CASE LogApplying
    <3>1. log[r] = NoLog /\ log' = [log EXCEPT ![r].status = "applying"]
      BY <1>2, <2>3 DEF LogApplying, At, Unsaid
    <3> QED
      BY <1>1, <3>1 DEF NoLog, Logged
  <2> QED
    BY <2>1, <2>2, <2>3
<1>7. pc' = "failing" => log'[r].failed
  BY <1>1, <1>2 DEF Next, Work, ApplyPhase, Refuse, RefuseDirty, Start,
         ScanFails, Scan, PlanFails, Plan, Execute, ExecuteFails, GatePatch,
         Copy, Validate, ValidateFails, Bind, Decide, LogApplying, CreateBranch,
         CreateBranchFails, Apply, ApplyFails, NothingToAdd, Add, AddFails, Commit, CommitFails,
         Undo, UndoFails, LogFailure, Fail, LogCommitted, Finish, Leave, Die,
         Edit, UserCommit, At, Goto, Report, process, files
<1>8. pc' = "logged" => Logged(r, "committed_local")'
  <2> SUFFICES ASSUME pc' = "logged" PROVE Logged(r, "committed_local")'
    OBVIOUS
  <2>1. (log' = log /\ pc = "logged") \/ LogCommitted
    BY DEF Next, Work, ApplyPhase, Refuse, RefuseDirty, Start, ScanFails, Scan,
           PlanFails, Plan, Execute, ExecuteFails, GatePatch, Copy, Validate,
           ValidateFails, Bind, Decide, LogApplying, CreateBranch,
           CreateBranchFails, Apply, ApplyFails, NothingToAdd, Add, AddFails, Commit, CommitFails,
           Undo, UndoFails, LogFailure, Fail, LogCommitted, Finish, Leave, Die,
           Edit, UserCommit, At, Goto, Report, process, files
  <2>2. CASE log' = log /\ pc = "logged"
    BY <1>2, <2>2 DEF Logged
  <2>3. CASE LogCommitted
    <3>1. Logged(r, "applying") /\ log' = [log EXCEPT ![r].status = "committed_local"]
      BY <1>2, <2>3 DEF LogCommitted, At, Applying
    <3> QED
      BY <1>1, <3>1 DEF Logged
  <2> QED
    BY <2>1, <2>2, <2>3
<1>9. pc' \notin {"idle", "report"} => meta'[r].status # "applied"
  <2> SUFFICES ASSUME pc' \notin {"idle", "report"} PROVE meta'[r].status # "applied"
    OBVIOUS
  <2>1. \/ meta' = meta /\ pc \notin {"idle", "report"}
        \/ Scan
        \/ \E s \in {"planned", "previewed"} : SetStatus(s)
    BY DEF Next, Work, ApplyPhase, Refuse, RefuseDirty, Start, ScanFails, Scan,
           PlanFails, Plan, Execute, ExecuteFails, GatePatch, Copy, Validate,
           ValidateFails, Bind, Decide, LogApplying, CreateBranch,
           CreateBranchFails, Apply, ApplyFails, NothingToAdd, Add, AddFails, Commit, CommitFails,
           Undo, UndoFails, LogFailure, Fail, LogCommitted, Finish, Leave, Die,
           Edit, UserCommit, At, Goto, Report, process, files
  <2>2. FilesOK /\ ProcessOK /\ RepoOK
    BY TypeParts
  <2>3. CASE Scan
    <3>1. meta'[run].status = "scanned"
      BY <2>2, <2>3, Scans
    <3> QED
      BY <3>1
  <2>4. CASE \E s \in {"planned", "previewed"} : SetStatus(s)
    BY <2>2, <2>4, StatusSet
  <2> QED
    BY <1>2, <2>1, <2>3, <2>4
<1> QED
  BY <1>3, <1>4, <1>5, <1>6, <1>7, <1>8, <1>9

(* What is about to be reported of a run is so.                              *)
LEMMA TellStep ==
  ASSUME TypeOK, Records, Next, NEW r \in Run, r = run, run' = run, pc' = "report"
  PROVE  Told(r, verdict)'
<1>1. /\ meta \in [Run -> RunJson] /\ log \in [Run -> ApplyJson]
      /\ evidence \in [Run -> Evidence]
  BY DEF TypeOK
<1>2. FilesOK /\ ProcessOK /\ RepoOK
  BY TypeParts
<1>3. CASE pc = "report"
  <2>1. UNCHANGED <<meta, log, evidence, verdict>>
    BY <1>3 DEF Next, Work, ApplyPhase, Refuse, RefuseDirty, Start, ScanFails,
           Scan, PlanFails, Plan, Execute, ExecuteFails, GatePatch, Copy,
           Validate, ValidateFails, Bind, Decide, LogApplying, CreateBranch,
           CreateBranchFails, Apply, ApplyFails, NothingToAdd, Add, AddFails, Commit, CommitFails,
           Undo, UndoFails, LogFailure, Fail, LogCommitted, Finish, Leave, Die,
           Edit, UserCommit, At, Goto, process, files
  <2>2. Told(r, verdict)
    BY <1>3 DEF Records, RunRecord
  <2> QED
    BY <2>1, <2>2 DEF Told
<1>4. CASE Scan
  <2>1. verdict' = "scan_failed"
    BY <1>4 DEF Scan, Report, Goto
  <2>2. meta'[r].status = "scanned"
    BY <1>2, <1>4, Scans
  <2> QED
    BY <2>1, <2>2 DEF Told, Reported
<1>5. CASE ScanFails
  <2>1. verdict' = "scan_failed" /\ pc = "scan" /\ meta' = meta
    BY <1>5 DEF ScanFails, At, Report, files
  <2>2. meta[r].status = "none"
    BY <2>1 DEF Records, RunRecord
  <2> QED
    BY <2>1, <2>2 DEF Told, Reported
<1>6. CASE PlanFails \/ Plan
  <2>1. /\ SetStatus("failed") /\ verdict' = "plan_failed" /\ evidence' = evidence
        /\ pc = "plan"
    BY <1>6 DEF PlanFails, Plan, At, Goto, Report
  <2>2. meta'[r].status = "failed"
    BY <1>2, <2>1, StatusSet
  <2>3. evidence[r] = NoEvidence
    BY <2>1 DEF Records, RunRecord
  <2> QED
    BY <2>1, <2>2, <2>3 DEF Told, Reported
<1>7. CASE ExecuteFails \/ GatePatch \/ ValidateFails \/ Decide
  <2>1. /\ SetStatus("failed") \/ SetStatus("validation_failed")
        /\ verdict' = "preview_failed" /\ log' = log /\ pc \in Unsaid
    BY <1>7 DEF ExecuteFails, GatePatch, ValidateFails, Decide, At, Goto, Report, Unsaid
  <2>2. pc # "idle"
    BY <2>1 DEF Unsaid
  <2>3. meta'[r].status \in {"failed", "validation_failed"}
    BY <1>2, <2>1, <2>2, StatusSet
  <2>4. log[r] = NoLog
    BY <2>1 DEF Records, RunRecord
  <2> QED
    BY <2>1, <2>3, <2>4 DEF Told, Reported, NoLog
<1>8. CASE Fail
  <2>1. SetStatus("failed") /\ verdict' = "apply_failed" /\ log' = log /\ pc = "failing"
    BY <1>8 DEF Fail, At, Report
  <2>2. meta'[r].status = "failed"
    BY <1>2, <2>1, StatusSet
  <2> QED
    BY <2>1, <2>2 DEF Told, Reported, Records, RunRecord
<1>9. CASE Finish
  <2>1. SetStatus("applied") /\ verdict' = "applied" /\ pc = "logged"
    BY <1>9 DEF Finish, At, Report
  <2>2. meta'[r].status = "applied"
    BY <1>2, <2>1, StatusSet
  <2> QED
    BY <2>1, <2>2 DEF Told, Reported
<1>10. \/ pc = "report" \/ ScanFails \/ Scan \/ PlanFails \/ Plan \/ ExecuteFails
       \/ GatePatch \/ ValidateFails \/ Decide \/ Fail \/ Finish
  BY DEF Next, Work, ApplyPhase, Refuse, RefuseDirty, Start, ScanFails, Scan,
         PlanFails, Plan, Execute, ExecuteFails, GatePatch, Copy, Validate,
         ValidateFails, Bind, Decide, LogApplying, CreateBranch,
         CreateBranchFails, Apply, ApplyFails, NothingToAdd, Add, AddFails, Commit, CommitFails,
         Undo, UndoFails, LogFailure, Fail, LogCommitted, Finish, Leave, Die,
         Edit, UserCommit, At, Goto, Report, process
<1> QED
  BY <1>3, <1>4, <1>5, <1>6, <1>7, <1>8, <1>9, <1>10

(* The log a finished run leaves stays as it was when it finished.           *)
LEMMA AppliedStep ==
  ASSUME TypeOK, Records, Next, NEW r \in Run, meta'[r].status = "applied"
  PROVE  log'[r].status = "committed_local" /\ ~log'[r].failed
<1>1. /\ meta \in [Run -> RunJson] /\ log \in [Run -> ApplyJson]
      /\ FilesOK /\ ProcessOK /\ RepoOK
  BY TypeParts DEF TypeOK
<1>2. CASE meta[r].status = "applied"
  <2>1. log[r].status = "committed_local" /\ ~log[r].failed
    BY <1>2 DEF Records
  <2>2. log'[r] = log[r]
    <3>1. CASE r # run \/ pc = "idle"
      BY <3>1, OwnFiles
    <3>2. CASE r = run /\ pc # "idle"
      <4>1. pc = "report"
        BY <1>2, <3>2 DEF Records, RunRecord
      <4> QED
        BY <4>1 DEF Next, Work, ApplyPhase, Refuse, RefuseDirty, Start,
               ScanFails, Scan, PlanFails, Plan, Execute, ExecuteFails,
               GatePatch, Copy, Validate, ValidateFails, Bind, Decide,
               LogApplying, CreateBranch, CreateBranchFails, Apply, ApplyFails,
               NothingToAdd, Add, AddFails, Commit, CommitFails, Undo, UndoFails, LogFailure,
               Fail, LogCommitted, Finish, Leave, Die, Edit, UserCommit, At,
               files
    <3> QED
      BY <3>1, <3>2
  <2> QED
    BY <2>1, <2>2
<1>3. CASE meta[r].status # "applied"
  <2>1. r = run /\ pc # "idle"
    BY <1>3, OwnFiles
  <2>2. Finish
    <3>1. CASE Scan
      BY <1>1, <2>1, <3>1, Scans
    <3>2. CASE \E s \in Settable \ {"applied"} : SetStatus(s)
      BY <1>1, <2>1, <3>2, StatusSet DEF Settable
    <3>3. \/ meta' = meta \/ Scan \/ Finish
          \/ \E s \in Settable \ {"applied"} : SetStatus(s)
      BY DEF Next, Work, ApplyPhase, Refuse, RefuseDirty, Start, ScanFails,
             Scan, PlanFails, Plan, Execute, ExecuteFails, GatePatch, Copy,
             Validate, ValidateFails, Bind, Decide, LogApplying, CreateBranch,
             CreateBranchFails, Apply, ApplyFails, NothingToAdd, Add, AddFails,
             Commit, CommitFails, Undo, UndoFails, LogFailure, Fail, LogCommitted, Finish,
             Leave, Die, Edit, UserCommit, files, Settable
    <3> QED
      BY <1>3, <3>1, <3>2, <3>3
  <2> QED
    BY <2>1, <2>2 DEF Finish, At, Records, RunRecord, Logged
<1> QED
  BY <1>2, <1>3

LEMMA RecordsStep == TypeOK /\ Records /\ [Next]_vars => Records'
<1> SUFFICES ASSUME TypeOK, Records, [Next]_vars PROVE Records'
  OBVIOUS
<1>1. CASE UNCHANGED vars
  BY <1>1 DEF vars, validator, repo, files, process, Records, RunRecord, Told, Logged
<1>2. CASE Next
  <2>1. run' = run \/ (run' = run + 1 /\ pc' = "scan" /\ pc = "idle")
    BY <1>2 DEF Next, Work, ApplyPhase, Refuse, RefuseDirty, Start, ScanFails,
           Scan, PlanFails, Plan, Execute, ExecuteFails, GatePatch, Copy,
           Validate, ValidateFails, Bind, Decide, LogApplying, CreateBranch,
           CreateBranchFails, Apply, ApplyFails, NothingToAdd, Add, AddFails, Commit, CommitFails,
           Undo, UndoFails, LogFailure, Fail, LogCommitted, Finish, Leave, Die,
           Edit, UserCommit, At, Goto, Report, process
  <2>2. run \in 0 .. MaxRuns /\ run' \in 0 .. MaxRuns
    BY <1>2, TypeStep DEF TypeOK
  <2>3. ASSUME NEW r \in Run, r > run'
        PROVE  meta'[r].status = "none" /\ log'[r] = NoLog /\ evidence'[r] = NoEvidence
    <3>1. r > run
      BY <2>1, <2>2, <2>3
    <3> QED
      BY <1>2, <3>1, OwnFiles DEF Records
  <2>4. RunRecord'
    <3> SUFFICES ASSUME NEW r \in Run, r = run'
                 PROVE  (/\ pc = "scan" => meta[r].status = "none"
                         /\ pc \in {"scan", "plan"} => evidence[r] = NoEvidence
                         /\ pc \in Unsaid => log[r] = NoLog
                         /\ pc \in Applying => Logged(r, "applying")
                         /\ pc = "failing" => log[r].failed
                         /\ pc = "logged" => Logged(r, "committed_local")
                         /\ pc \notin {"idle", "report"} => meta[r].status # "applied"
                         /\ pc = "report" => Told(r, verdict))'
      BY DEF RunRecord
    <3>1. CASE run' = run
      BY <1>2, <3>1, RunRecordStep, TellStep
    <3>2. CASE run' = run + 1 /\ pc' = "scan" /\ pc = "idle"
      <4>1. meta'[r].status = "none" /\ log'[r] = NoLog /\ evidence'[r] = NoEvidence
        BY <1>2, <2>2, <3>2, OwnFiles DEF Records
      <4> QED
        BY <3>2, <4>1 DEF Applying
    <3> QED
      BY <2>1, <3>1, <3>2
  <2>5. result'.run <= run' /\ (pc' # "idle" => result'.run < run')
    <3>1. result \in CiResult /\ result.run <= run /\ (pc # "idle" => result.run < run)
      BY DEF TypeOK, Records
    <3>2. \/ UNCHANGED result /\ (pc' # "idle" => pc # "idle" \/ run' = run + 1)
          \/ pc' = "idle" /\ run' = run /\ result'.run \in {0, run}
      BY <1>2 DEF Next, Work, ApplyPhase, Refuse, RefuseDirty, Start, ScanFails,
             Scan, PlanFails, Plan, Execute, ExecuteFails, GatePatch, Copy,
             Validate, ValidateFails, Bind, Decide, LogApplying, CreateBranch,
             CreateBranchFails, Apply, ApplyFails, NothingToAdd, Add, AddFails,
             Commit, CommitFails, Undo, UndoFails, LogFailure, Fail, LogCommitted, Finish,
             Leave, Die, Edit, UserCommit, At, Goto, Report, process, files,
             WriteResult
    <3> QED
      BY <2>1, <2>2, <3>1, <3>2 DEF CiResult
  <2>6. ASSUME NEW r \in Run, r = result'.run PROVE Told(r, result.status)'
    <3>1. CASE UNCHANGED result
      <4>1. r # run \/ pc = "idle"
        BY <2>2, <2>6, <3>1 DEF Records
      <4>2. Told(r, result.status)
        BY <2>6, <3>1 DEF Records
      <4> QED
        BY <1>2, <3>1, <4>1, <4>2, OwnFiles DEF Told
    <3>2. CASE Leave
      <4>1. /\ result' = [run |-> run, status |-> verdict] /\ pc = "report"
            /\ UNCHANGED <<meta, log, evidence>>
        BY <3>2 DEF Leave, At, WriteResult
      <4>2. r = run /\ Told(r, verdict)
        BY <2>6, <4>1 DEF Records, RunRecord
      <4> QED
        BY <4>1, <4>2 DEF Told
    <3>3. UNCHANGED result \/ Leave \/ result'.run = 0
      BY <1>2 DEF Next, Work, ApplyPhase, Refuse, RefuseDirty, Start, ScanFails,
             Scan, PlanFails, Plan, Execute, ExecuteFails, GatePatch, Copy,
             Validate, ValidateFails, Bind, Decide, LogApplying, CreateBranch,
             CreateBranchFails, Apply, ApplyFails, NothingToAdd, Add, AddFails,
             Commit, CommitFails, Undo, UndoFails, LogFailure, Fail, LogCommitted, Finish,
             Leave, Die, Edit, UserCommit, files
    <3> QED
      BY <2>6, <3>1, <3>2, <3>3
  <2>7. \A r \in Run : meta'[r].status = "applied" =>
          log'[r].status = "committed_local" /\ ~log'[r].failed
    BY <1>2, AppliedStep
  <2> QED
    BY <2>3, <2>4, <2>5, <2>6, <2>7 DEF Records
<1> QED
  BY <1>1, <1>2

-----------------------------------------------------------------------------
(* On which branch and in which tree the edits of a run are.                 *)

(* While the commit a run started from may still be put back.                *)
Based == {"plan", "execute", "gate", "copy", "validate", "decide", "log", "branch",
          "apply", "add", "staged", "undo", "committed"}

Bare(r) == \A f \in File : ~Touched(r, f)
Gone(r) == log[r].rolledBack \/ (r = run /\ pc = "undone")
Landed(r) == (r = run /\ pc = "committed") \/ log[r].status = "committed_local"

(* The patch is in the tree, and nothing else of the run.                    *)
Patching(r) ==
  \A f \in File : /\ r \in work[f] <=> f \in patch
                  /\ r \in index[f] => f \in patch

(* The run is alone on its own branch until it is committed or undone.       *)
Alone ==
  \A r \in Run : r = run =>
    /\ pc \in {"apply", "add", "staged", "undo", "committed"} => head = r
    /\ pc \in {"apply", "add", "staged", "undo"} =>
         \A b \in Branch : b # r /\ refs[b] # NoRef => \A f \in File : r \notin Committed(b)[f]
    /\ pc \in {"apply", "add", "staged"} => refs[r] = meta[r].base
    /\ pc \in {"add", "staged"} => Patching(r)
    /\ pc = "staged" => patch # {} /\ \A f \in patch : r \in index[f]

(* The commit that is put back is free of the run and of those that were     *)
(* undone before it.                                                         *)
BaseIsFree ==
  \A r \in Run : (r = run \/ log[r].rolledBack) /\ pc \in Based =>
    \A f \in File : r \notin Base[f]

Placed ==
  /\ Alone
  /\ BaseIsFree
  /\ \A r \in Run : Gone(r) => Bare(r)
  /\ \A r \in Run : Landed(r) =>
       /\ refs[r] # NoRef /\ \E f \in File : r \in Committed(r)[f]
       /\ head = r => \E f \in File : r \in work[f]

(* A commit that is there stays as it is.                                    *)
LEMMA CommitsStay ==
  ASSUME TypeOK, Next
  PROVE  \A k \in DOMAIN commits : k \in DOMAIN commits' /\ commits'[k] = commits[k]
<1>1. commits' = commits \/ Commit \/ UserCommit
  BY RepoKinds DEF Changing, CreateBranch, Apply, ApplyFails, Add, AddFails, Undo,
                   UndoFails, Edit, repo
<1>2. CASE Commit \/ UserCommit
  <2>1. RepoOK /\ ToolsOK /\ FilesOK /\ ProcessOK
    BY TypeParts
  <2>2. PICK t \in Tree : commits' = Append(commits, t)
    BY <1>2, <2>1 DEF Commit, UserCommit, RepoOK
  <2> QED
    BY <2>1, <2>2, CommitAdded
<1> QED
  BY <1>1, <1>2

(* The base of a run is the commit it scanned, and stays that.               *)
LEMMA BaseStep ==
  ASSUME TypeOK, Next, pc' \in Based
  PROVE  \/ pc \in Based /\ run' = run /\ Base' = Base
         \/ Scan /\ run' = run /\ Base' = Committed(head)
<1>0. RepoOK /\ FilesOK /\ ProcessOK
  BY TypeParts
<1>1. (pc \in Based /\ ~Scan) \/ Scan
  BY DEF Next, Work, ApplyPhase, Refuse, RefuseDirty, Start, ScanFails, Scan,
         PlanFails, Plan, Execute, ExecuteFails, GatePatch, Copy, Validate,
         ValidateFails, Bind, Decide, LogApplying, CreateBranch,
         CreateBranchFails, Apply, ApplyFails, NothingToAdd, Add, AddFails, Commit, CommitFails,
         Undo, UndoFails, LogFailure, Fail, LogCommitted, Finish, Leave, Die,
         Edit, UserCommit, At, Goto, Report, process, Based
<1>2. run' = run /\ run \in Run
  <2>1. run' = run /\ pc # "idle"
    BY DEF Next, Work, ApplyPhase, Refuse, RefuseDirty, Start, ScanFails, Scan,
           PlanFails, Plan, Execute, ExecuteFails, GatePatch, Copy, Validate,
           ValidateFails, Bind, Decide, LogApplying, CreateBranch,
           CreateBranchFails, Apply, ApplyFails, NothingToAdd, Add, AddFails, Commit, CommitFails,
           Undo, UndoFails, LogFailure, Fail, LogCommitted, Finish, Leave, Die,
           Edit, UserCommit, At, Goto, Report, process, Based
  <2> QED
    BY <2>1 DEF TypeOK
<1>3. CASE pc \in Based /\ ~Scan
  <2>1. meta'[run].base = meta[run].base
    BY <1>0, <1>2, <1>3, MetaKinds, StatusSet DEF Settable, Based
  <2>2. meta[run].base \in DOMAIN commits
    BY <1>2 DEF TypeOK
  <2> QED
    BY <1>2, <1>3, <2>1, <2>2, CommitsStay DEF Base
<1>4. CASE Scan
  <2>1. meta'[run] = [status |-> "scanned", base |-> refs[head], source |-> head]
    BY <1>0, <1>4, Scans
  <2>2. commits' = commits
    BY <1>4 DEF Scan, repo
  <2> QED
    BY <1>2, <1>4, <2>1, <2>2 DEF Base, Committed
<1> QED
  BY <1>1, <1>3, <1>4

(* A branch is moved by the run that is checked out or by the user; what it  *)
(* then stands for was in the tree or in a commit at hand.                   *)
LEMMA BranchStep ==
  ASSUME TypeOK, Next, NEW b \in Branch, refs'[b] # NoRef
  PROVE  \/ refs[b] # NoRef /\ refs'[b] = refs[b] /\ Committed(b)' = Committed(b)
         \/ CreateBranch /\ b = run /\ Committed(b)' = Base
         \/ (Commit \/ UserCommit) /\ b = head /\ Committed(b)' = index'
         \/ (Undo \/ UndoFails) /\ b = head /\ Committed(b)' = Base
<1>0. RepoOK /\ ToolsOK /\ FilesOK /\ ProcessOK
  BY TypeParts
<1>1. /\ refs \in [Branch -> 0 .. Len(commits)] /\ Len(commits) \in Nat
      /\ head \in Branch /\ refs[head] # NoRef
      /\ \A k \in DOMAIN commits : k \in DOMAIN commits' /\ commits'[k] = commits[k]
      /\ pc # "idle" => run \in Run
  BY CommitsStay DEF TypeOK
<1>2. CASE refs' = refs
  BY <1>1, <1>2 DEF Committed
<1>3. CASE CreateBranch
  <2>1. /\ refs' = [refs EXCEPT ![run] = meta[run].base] /\ commits' = commits
        /\ run \in Run
    BY <1>1, <1>3 DEF CreateBranch, At
  <2> QED
    BY <1>1, <1>3, <2>1 DEF Committed, Base
<1>4. CASE Commit \/ UserCommit
  <2>1. PICK t \in Tree : commits' = Append(commits, t) /\ t = index'
    BY <1>0, <1>4 DEF Commit, UserCommit, RepoOK
  <2>2. commits'[Len(commits')] = t
    BY <1>0, <2>1, CommitAdded
  <2>3. refs' = [refs EXCEPT ![head] = Len(commits')]
    BY <1>4 DEF Commit, UserCommit
  <2>4. CASE b = head
    <3>1. refs'[b] = Len(commits')
      BY <1>1, <2>3, <2>4
    <3> QED
      BY <1>4, <2>1, <2>2, <2>4, <3>1 DEF Committed
  <2>5. CASE b # head
    <3>1. refs'[b] = refs[b]
      BY <1>1, <2>3, <2>5
    <3>2. refs[b] \in DOMAIN commits
      BY <1>0, <3>1 DEF RepoOK
    <3> QED
      BY <1>1, <3>1, <3>2 DEF Committed
  <2> QED
    BY <2>4, <2>5
<1>5. CASE (Undo \/ UndoFails) /\ refs' # refs
  <2>1. refs' = [refs EXCEPT ![head] = meta[run].base] /\ commits' = commits
    BY <1>5 DEF Undo, UndoFails, Reset, HalfReset
  <2>2. CASE b = head
    <3>1. refs'[b] = meta[run].base
      BY <1>1, <2>1, <2>2
    <3> QED
      BY <1>5, <2>1, <2>2, <3>1 DEF Committed, Base
  <2>3. CASE b # head
    <3>1. refs'[b] = refs[b]
      BY <1>1, <2>1, <2>3
    <3> QED
      BY <2>1, <3>1 DEF Committed
  <2> QED
    BY <2>2, <2>3
<1> QED
  BY <1>2, <1>3, <1>4, <1>5, RepoKinds
  DEF Changing, repo, Apply, ApplyFails, Add, AddFails, Edit

(* Before the run has a branch of its own.                                   *)
Before == {"plan", "execute", "gate", "copy", "validate", "decide", "log", "branch"}

(* Nobody takes edits back: what is committed is also staged, and that in    *)
(* the tree; and all of it is on the commit the run started from.            *)
Stacked ==
  /\ \A f \in File : Committed(head)[f] \subseteq index[f] /\ index[f] \subseteq work[f]
  /\ pc \in Based => \A f \in File : Base[f] \subseteq Committed(head)[f]
  /\ \A r \in Run : r = run /\ pc \in Before => head = meta[r].source

LEMMA StackedInit == Init => Stacked
BY DEF Init, Stacked, Committed, Based, Before, Pristine

(* What is checked out, after a step: what was, what was staged, or the base.*)
LEMMA HeadStep ==
  ASSUME TypeOK, TypeOK', Stacked, Next
  PROVE  \/ Committed(head)' = Committed(head)
         \/ (Commit \/ UserCommit) /\ Committed(head)' = index'
         \/ (Undo \/ UndoFails) /\ Committed(head)' = Base
<1>1. PICK b \in Branch : b = head'
  BY DEF TypeOK
<1>2. refs'[b] # NoRef /\ Committed(b)' = Committed(head)'
  BY <1>1 DEF TypeOK, Committed
<1>3. CASE CreateBranch
  <2>1. /\ run \in Run /\ pc = "branch" /\ head' \in {head, run} /\ commits' = commits
        /\ refs[meta[run].source] = meta[run].base
        /\ refs' = [refs EXCEPT ![run] = meta[run].base]
    BY <1>3 DEF CreateBranch, At, TypeOK
  <2>2. refs[head] = meta[run].base
    BY <2>1 DEF Stacked, Before
  <2>3. refs'[head'] = refs[head]
    BY <2>1, <2>2 DEF TypeOK
  <2> QED
    BY <2>1, <2>3 DEF Committed
<1>4. CASE ~CreateBranch
  <2>1. head' = head
    BY <1>4, RepoKinds DEF Changing, Apply, ApplyFails, Add, AddFails, Commit, Undo,
                           UndoFails, Edit, UserCommit, repo
  <2> QED
    BY <1>1, <1>2, <1>4, <2>1, BranchStep
<1> QED
  BY <1>3, <1>4

LEMMA StackedStep == TypeOK /\ Stacked /\ [Next]_vars => Stacked'
<1> SUFFICES ASSUME TypeOK, Stacked, [Next]_vars PROVE Stacked'
  OBVIOUS
<1>1. CASE UNCHANGED vars
  BY <1>1 DEF vars, validator, repo, files, process, Stacked, Committed, Base
<1>2. CASE Next
  <2>0. TypeOK'
    BY <1>2, TypeStep
  <2>1. \A f \in File : Committed(head)[f] \subseteq index[f] /\ index[f] \subseteq work[f]
    BY DEF Stacked
  <2>2. ASSUME Undo \/ UndoFails
        PROVE  /\ pc = "undo" /\ pc' \in {"undone", "fail"}
               /\ \/ UNCHANGED <<refs, index, work>>
                  \/ index' = Base /\ \A f \in File : work'[f] \in {Base[f], work[f]}
               /\ \A f \in File : Base[f] \subseteq work[f]
    <3>1. pc = "undo" /\ pc' \in {"undone", "fail"}
      BY <2>2 DEF Undo, UndoFails, At, Goto
    <3>2. \/ UNCHANGED <<refs, index, work>>
          \/ index' = Base /\ \A f \in File : work'[f] \in {Base[f], work[f]}
      BY <2>2 DEF Undo, UndoFails, Reset, HalfReset
    <3>3. \A f \in File : Base[f] \subseteq work[f]
      BY <2>1, <3>1 DEF Stacked, Based
    <3> QED
      BY <3>1, <3>2, <3>3
  <2>3. ASSUME NEW f \in File
        PROVE  Committed(head)'[f] \subseteq index'[f] /\ index'[f] \subseteq work'[f]
    <3>1. CASE Undo \/ UndoFails
      <4>1. CASE UNCHANGED <<refs, index, work>>
        <5>1. commits' = commits /\ head' = head
          BY <3>1 DEF Undo, UndoFails
        <5> QED
          BY <2>1, <4>1, <5>1 DEF Committed
      <4>2. CASE index' = Base /\ \A g \in File : work'[g] \in {Base[g], work[g]}
        <5>1. Committed(head)' = Base \/ Committed(head)' = Committed(head)
          BY <1>2, <2>0, <3>1, HeadStep DEF Undo, UndoFails, Commit, UserCommit, At
        <5>2. \/ refs'[head'] = meta[run].base /\ commits' = commits
              \/ UNCHANGED <<refs, index, work>>
          BY <3>1 DEF Undo, UndoFails, Reset, HalfReset, TypeOK
        <5>3. CASE refs'[head'] = meta[run].base /\ commits' = commits
          <6>1. Committed(head)' = Base
            <7>1. run' = run
              BY <3>1 DEF Undo, UndoFails
            <7> QED
              BY <5>3 DEF Committed, Base
          <6> QED
            BY <2>2, <3>1, <4>2, <6>1
        <5>4. CASE UNCHANGED <<refs, index, work>>
          <6>1. commits' = commits /\ head' = head
            BY <3>1 DEF Undo, UndoFails
          <6> QED
            BY <2>1, <5>4, <6>1 DEF Committed
        <5> QED
          BY <5>2, <5>3, <5>4
      <4> QED
        BY <2>2, <3>1, <4>1, <4>2
    <3>2. CASE ~(Undo \/ UndoFails)
      <4>1. work[f] \subseteq work'[f]
        BY <1>2, <3>2, WorkStep
      <4>2. index'[f] \subseteq work'[f]
        BY <1>2, <2>1, <3>2, <4>1, IndexStep
      <4>3. index[f] \subseteq index'[f]
        BY <1>2, <2>1, <3>2, IndexStep
      <4>4. Committed(head)'[f] \subseteq index'[f]
        BY <1>2, <2>0, <2>1, <3>2, <4>3, HeadStep
      <4> QED
        BY <4>2, <4>4
    <3> QED
      BY <3>1, <3>2
  <2>4. ASSUME pc' \in Based, NEW f \in File PROVE Base'[f] \subseteq Committed(head)'[f]
    <3>1. CASE pc \in Based /\ run' = run /\ Base' = Base
      <4>1. ~(Undo \/ UndoFails)
        BY <2>2, <2>4 DEF Based
      <4>2. Committed(head)[f] \subseteq Committed(head)'[f]
        <5>1. index[f] \subseteq index'[f]
          BY <1>2, <2>1, <4>1, IndexStep
        <5> QED
          BY <1>2, <2>0, <2>1, <4>1, <5>1, HeadStep
      <4> QED
        BY <3>1, <4>2 DEF Stacked
    <3>2. CASE Scan /\ run' = run /\ Base' = Committed(head)
      <4>1. UNCHANGED repo
        BY <3>2 DEF Scan
      <4> QED
        BY <3>2, <4>1 DEF repo, Committed
    <3> QED
      BY <1>2, <2>4, <3>1, <3>2, BaseStep
  <2>5. ASSUME NEW r \in Run, r = run', pc' \in Before PROVE head' = meta'[r].source
    <3>0. FilesOK /\ ProcessOK /\ RepoOK
      BY TypeParts
    <3>1. /\ head' = head /\ run' = run /\ pc # "idle"
          /\ Scan \/ (pc \in Before /\ ~Scan)
      BY <1>2, <2>5 DEF Next, Work, ApplyPhase, Refuse, RefuseDirty, Start,
             ScanFails, Scan, PlanFails, Plan, Execute, ExecuteFails, GatePatch,
             Copy, Validate, ValidateFails, Bind, Decide, LogApplying,
             CreateBranch, CreateBranchFails, Apply, ApplyFails, NothingToAdd,
             Add, AddFails, Commit, CommitFails, Undo, UndoFails, LogFailure,
             Fail, LogCommitted, Finish, Leave, Die, Edit, UserCommit, At, Goto,
             Report, process, repo, Before
    <3>2. CASE Scan
      <4>1. meta'[run] = [status |-> "scanned", base |-> refs[head], source |-> head]
        BY <3>0, <3>2, Scans
      <4> QED
        BY <2>5, <3>1, <4>1
    <3>3. CASE pc \in Before /\ ~Scan
      <4>1. meta'[r].source = meta[r].source
        BY <1>2, <2>5, <3>0, <3>1, <3>3, MetaKinds, StatusSet DEF Settable
      <4> QED
        BY <2>5, <3>1, <3>3, <4>1 DEF Stacked
    <3> QED
      BY <3>1, <3>2, <3>3
  <2> QED
    BY <2>3, <2>4, <2>5 DEF Stacked
<1> QED
  BY <1>1, <1>2

(* A run that is bare stays so, unless it is the one that applies, or its    *)
(* edits are in the commit that is put back.                                 *)
LEMMA BareStep ==
  ASSUME TypeOK, Next, NEW r \in Run, Bare(r),
         pc = "apply" => r # run,
         pc \in {"branch", "undo"} => \A f \in File : r \notin Base[f]
  PROVE  Bare(r)'
<1>1. /\ \A f \in File : r \notin work[f] /\ r \notin index[f]
      /\ \A b \in Branch : refs[b] # NoRef => \A f \in File : r \notin Committed(b)[f]
      /\ r # Dirt
  BY DEF Bare, Touched, Dirt
<1>2. CreateBranch \/ Undo \/ UndoFails => \A f \in File : r \notin Base[f]
  BY DEF CreateBranch, Undo, UndoFails, At
<1>3. Apply \/ ApplyFails => r # run
  BY DEF Apply, ApplyFails, At
<1>4. ASSUME NEW f \in File PROVE r \notin work'[f]
  BY <1>1, <1>2, <1>3, WorkStep
<1>5. ASSUME NEW f \in File PROVE r \notin index'[f]
  BY <1>1, <1>2, IndexStep
<1>6. ASSUME NEW b \in Branch, refs'[b] # NoRef
      PROVE  \A f \in File : r \notin Committed(b)'[f]
  BY <1>1, <1>2, <1>5, <1>6, BranchStep
<1> QED
  BY <1>4, <1>5, <1>6 DEF Bare, Touched

(* What has not been seen is not on any branch.                              *)
LEMMA UnseenIsBare ==
  ASSUME TypeOK, NEW r \in Run, Seen(r) = {}
  PROVE  /\ Bare(r)
         /\ \A b \in Branch : refs[b] # NoRef => \A f \in File : r \notin Committed(b)[f]
<1>1. \A f \in File : ~Touched(r, f)
  BY TouchedIsSeen
<1> QED
  BY <1>1 DEF Bare, Touched

LEMMA BaseIsFreeStep ==
  ASSUME TypeOK, Traces, Records, Placed, Next
  PROVE  BaseIsFree'
<1> SUFFICES ASSUME NEW r \in Run, r = run' \/ log'[r].rolledBack, pc' \in Based
             PROVE  \A f \in File : r \notin Base'[f]
  BY DEF BaseIsFree
<1>1. CASE pc \in Based /\ run' = run /\ Base' = Base
  <2>1. r = run \/ log[r].rolledBack
    <3>1. ~LogFailure
      BY <1>1 DEF LogFailure, At, Based
    <3>2. UNCHANGED log \/ LogApplying \/ LogCommitted
      BY <3>1 DEF Next, Work, ApplyPhase, Refuse, RefuseDirty, Start, ScanFails,
             Scan, PlanFails, Plan, Execute, ExecuteFails, GatePatch, Copy,
             Validate, ValidateFails, Bind, Decide, LogApplying, CreateBranch,
             CreateBranchFails, Apply, ApplyFails, NothingToAdd, Add, AddFails,
             Commit, CommitFails, Undo, UndoFails, LogFailure, Fail, LogCommitted, Finish,
             Leave, Die, Edit, UserCommit, files
    <3>3. log \in [Run -> ApplyJson]
      BY DEF TypeOK
    <3> QED
      BY <1>1, <3>2, <3>3 DEF LogApplying, LogCommitted
  <2> QED
    BY <1>1, <2>1 DEF Placed, BaseIsFree
<1>2. CASE Scan /\ run' = run /\ Base' = Committed(head)
  <2>1. r = run \/ log[r].rolledBack
    BY <1>2 DEF Scan
  <2>2. Bare(r)
    <3>1. CASE r = run
      <4>1. Seen(r) = {}
        BY <1>2, <3>1 DEF Scan, At, Traces, Early
      <4> QED
        BY <4>1, UnseenIsBare
    <3>2. CASE log[r].rolledBack
      BY <3>2 DEF Placed, Gone
    <3> QED
      BY <2>1, <3>1, <3>2
  <2>3. head \in Branch /\ refs[head] # NoRef
    BY DEF TypeOK
  <2> QED
    BY <1>2, <2>2, <2>3 DEF Bare, Touched
<1> QED
  BY <1>1, <1>2, BaseStep

LEMMA AloneStep ==
  ASSUME TypeOK, TypeOK', Traces, Traces', Records, Placed, Next, NEW r \in Run, r = run'
  PROVE  /\ pc' \in {"apply", "add", "staged", "undo", "committed"} => head' = r
         /\ pc' \in {"apply", "add", "staged", "undo"} =>
              \A b \in Branch : b # r /\ refs'[b] # NoRef =>
                \A f \in File : r \notin Committed(b)'[f]
         /\ pc' \in {"apply", "add", "staged"} => refs'[r] = meta'[r].base
         /\ pc' \in {"add", "staged"} => Patching(r)'
         /\ pc' = "staged" => patch' # {} /\ \A f \in patch' : r \in index'[f]
<1>1. pc' \in {"apply", "add", "staged", "undo", "committed"} => run' = run /\ r = run
  BY DEF Next, Work, ApplyPhase, Refuse, RefuseDirty, Start, ScanFails, Scan,
         PlanFails, Plan, Execute, ExecuteFails, GatePatch, Copy, Validate,
         ValidateFails, Bind, Decide, LogApplying, CreateBranch,
         CreateBranchFails, Apply, ApplyFails, NothingToAdd, Add, AddFails, Commit, CommitFails,
         Undo, UndoFails, LogFailure, Fail, LogCommitted, Finish, Leave, Die,
         Edit, UserCommit, At, Goto, Report, process
<1>2. /\ pc \in {"apply", "add", "staged", "undo", "committed"} /\ r = run => head = r
      /\ pc \in {"apply", "add", "staged", "undo"} /\ r = run =>
           \A b \in Branch : b # r /\ refs[b] # NoRef => \A f \in File : r \notin Committed(b)[f]
      /\ pc \in {"apply", "add", "staged"} /\ r = run => refs[r] = meta[r].base
      /\ pc \in {"add", "staged"} /\ r = run => Patching(r)
      /\ pc = "staged" /\ r = run => patch # {} /\ \A f \in patch : r \in index[f]
  BY DEF Placed, Alone
<1>3. pc' \in {"apply", "add", "staged", "undo", "committed"} => head' = r
  BY <1>1, <1>2 DEF Next, Work, ApplyPhase, Refuse, RefuseDirty, Start,
         ScanFails, Scan, PlanFails, Plan, Execute, ExecuteFails, GatePatch,
         Copy, Validate, ValidateFails, Bind, Decide, LogApplying, CreateBranch,
         CreateBranchFails, Apply, ApplyFails, NothingToAdd, Add, AddFails, Commit, CommitFails,
         Undo, UndoFails, LogFailure, Fail, LogCommitted, Finish, Leave, Die,
         Edit, UserCommit, At, Goto, Report, process, repo
<1>4. ASSUME pc' \in {"apply", "add", "staged", "undo"}, NEW b \in Branch, b # r, refs'[b] # NoRef
      PROVE  \A f \in File : r \notin Committed(b)'[f]
  <2>1. CASE pc' = "apply"
    <3>1. Seen(r)' = {}
      BY <2>1 DEF Traces, Early
    <3>2. refs'[b] \in DOMAIN commits'
      <4>1. commits' \in Seq(Tree) /\ refs' \in [Branch -> 0 .. Len(commits')]
        BY DEF TypeOK
      <4> QED
        BY <1>4, <4>1
    <3> QED
      BY <3>1, <3>2 DEF Seen, Committed
  <2>2. CASE pc' # "apply"
    <3>1. /\ pc \in {"apply", "add", "staged", "undo"}
          /\ ~CreateBranch /\ ~Undo /\ ~UndoFails /\ ~UserCommit
      BY <1>4, <2>2 DEF Next, Work, ApplyPhase, Refuse, RefuseDirty, Start,
             ScanFails, Scan, PlanFails, Plan, Execute, ExecuteFails, GatePatch,
             Copy, Validate, ValidateFails, Bind, Decide, LogApplying,
             CreateBranch, CreateBranchFails, Apply, ApplyFails, NothingToAdd,
             Add, AddFails, Commit, CommitFails, Undo, UndoFails, LogFailure, Fail, LogCommitted,
             Finish, Leave, Die, Edit, UserCommit, At, Goto, Report, process
    <3>2. r = run /\ head = r
      BY <1>1, <1>2, <1>4, <3>1
    <3>3. Committed(b)' = Committed(b) /\ refs[b] # NoRef
      BY <1>4, <3>1, <3>2, BranchStep
    <3> QED
      BY <1>2, <1>4, <3>1, <3>2, <3>3
  <2> QED
    BY <2>1, <2>2
<1>5. pc' \in {"apply", "add", "staged"} => refs'[r] = meta'[r].base
  <2> SUFFICES ASSUME pc' \in {"apply", "add", "staged"} PROVE refs'[r] = meta'[r].base
    OBVIOUS
  <2>1. CreateBranch \/ (pc \in {"apply", "add", "staged"} /\ refs' = refs)
    BY DEF Next, Work, ApplyPhase, Refuse, RefuseDirty, Start, ScanFails, Scan,
           PlanFails, Plan, Execute, ExecuteFails, GatePatch, Copy, Validate,
           ValidateFails, Bind, Decide, LogApplying, CreateBranch,
           CreateBranchFails, Apply, ApplyFails, NothingToAdd, Add, AddFails, Commit, CommitFails,
           Undo, UndoFails, LogFailure, Fail, LogCommitted, Finish, Leave, Die,
           Edit, UserCommit, At, Goto, Report, process, repo
  <2>2. meta' = meta
    BY DEF Next, Work, ApplyPhase, Refuse, RefuseDirty, Start, ScanFails, Scan,
           PlanFails, Plan, Execute, ExecuteFails, GatePatch, Copy, Validate,
           ValidateFails, Bind, Decide, LogApplying, CreateBranch,
           CreateBranchFails, Apply, ApplyFails, NothingToAdd, Add, AddFails, Commit, CommitFails,
           Undo, UndoFails, LogFailure, Fail, LogCommitted, Finish, Leave, Die,
           Edit, UserCommit, At, Goto, Report, process, files
  <2>3. refs \in [Branch -> 0 .. Len(commits)]
    BY DEF TypeOK
  <2> QED
    BY <1>1, <1>2, <2>1, <2>2, <2>3 DEF CreateBranch
<1>6. ASSUME pc' \in {"add", "staged"}
      PROVE  /\ r = run /\ patch' = patch
             /\ Apply \/ Add \/ (Edit /\ pc' = pc)
  <2>1. ~Work /\ ~Die
    BY <1>6
    DEF Work, Refuse, RefuseDirty, Start, ScanFails, Scan, PlanFails, Plan,
        Execute, ExecuteFails, GatePatch, Copy, Validate, ValidateFails, Bind,
        Decide, Die, At, Goto, Report, process
  <2>2. ApplyPhase => Apply \/ Add
    BY <1>6
    DEF ApplyPhase, LogApplying, CreateBranch, CreateBranchFails, Apply, ApplyFails,
        NothingToAdd, Add, AddFails, Commit, CommitFails, Undo, UndoFails,
        LogFailure, Fail, LogCommitted, Finish, Leave, At, Goto, Report
  <2>3. ~UserCommit
    BY <1>6 DEF UserCommit, process
  <2>4. Apply \/ Add \/ Edit
    BY <1>1, <2>1, <2>2, <2>3 DEF Next
  <2>5. CASE Apply \/ Add
    BY <1>1, <2>5 DEF Apply, Add
  <2>6. CASE Edit
    BY <1>1, <1>6, <2>6 DEF Edit, process
  <2> QED
    BY <2>4, <2>5, <2>6
<1>7. r # Dirt /\ patch \subseteq File /\ work \in Tree
  <2>1. r # Dirt
    BY r \in Run DEF Dirt, Run
  <2>2. patch \in SUBSET File /\ work \in Tree
    BY Zenon DEF TypeOK
  <2> QED
    BY Zenon, <2>1, <2>2
<1>8. ASSUME pc' \in {"add", "staged"}, NEW f \in File
      PROVE  (r \in work'[f] <=> f \in patch) /\ (r \in index'[f] => f \in patch)
  <2>1. CASE Apply
    <3>1. r \notin work[f] /\ r \notin index[f]
      <4>1. Seen(r) = {}
        BY <1>6, <1>8, <2>1 DEF Apply, At, Traces, Early
      <4> QED
        BY <4>1 DEF Seen
    <3>2. work'[f] = (IF f \in patch THEN work[f] \cup {run} ELSE work[f]) /\ index' = index
      BY <2>1 DEF Apply, Patched
    <3> QED
      BY <1>6, <1>8, <3>1, <3>2
  <2>2. CASE Add
    <3>1. Patching(r) /\ work' = work /\ index' = Added
      BY <1>2, <1>6, <1>8, <2>2 DEF Add, At
    <3>2. index'[f] \in {work[f], index[f]}
      BY <3>1 DEF Added
    <3> QED
      BY <3>1, <3>2 DEF Patching
  <2>3. CASE Edit /\ pc' = pc
    <3>1. Patching(r)
      BY <1>2, <1>6, <1>8, <2>3
    <3>2. work'[f] = work[f] \/ work'[f] = work[f] \cup {Dirt}
      BY <2>3, WorkStep DEF Edit, Apply, ApplyFails, Undo, UndoFails, At
    <3>3. index'[f] = index[f] \/ index'[f] = work[f] \cup {Dirt}
      <4>1. PICK g \in File : \/ index' = index
                              \/ index' = [index EXCEPT ![g] = work[g] \cup {Dirt}]
        BY <2>3 DEF Edit
      <4>2. index \in Tree
        BY DEF TypeOK
      <4> QED
        BY <4>1, <4>2 DEF Tree
    <3> QED
      BY <1>7, <3>1, <3>2, <3>3 DEF Patching
  <2> QED
    BY <1>6, <1>8, <2>1, <2>2, <2>3
<1>9. pc' \in {"add", "staged"} => Patching(r)'
  BY <1>6, <1>8 DEF Patching
<1>10. ASSUME pc' = "staged" PROVE patch' # {} /\ \A f \in patch' : r \in index'[f]
  <2>1. CASE Add
    <3>1. Patching(r) /\ Headers # {} /\ index' = Added
      BY <1>2, <1>6, <1>10, <2>1 DEF Add, At
    <3>2. Headers = patch
      BY <3>1 DEF Headers
    <3>3. \A f \in patch : index'[f] = work[f]
      BY <1>7, <3>1, <3>2 DEF Added
    <3> QED
      BY <1>6, <1>7, <1>10, <3>1, <3>2, <3>3 DEF Patching
  <2>2. CASE Edit /\ pc' = pc
    <3>1. Patching(r) /\ patch # {} /\ \A f \in patch : r \in index[f]
      BY <1>2, <1>6, <1>10, <2>2
    <3>2. PICK g \in File : \/ index' = index
                            \/ index' = [index EXCEPT ![g] = work[g] \cup {Dirt}]
      BY <2>2 DEF Edit
    <3>3. index \in Tree
      BY DEF TypeOK
    <3>4. \A f \in patch : index'[f] = index[f] \/ index'[f] = work[f] \cup {Dirt}
      BY <1>7, <3>2, <3>3 DEF Tree
    <3> QED
      BY <1>6, <1>7, <1>10, <3>1, <3>4 DEF Patching
  <2>3. ~Apply
    BY <1>10 DEF Apply, Goto
  <2> QED
    BY <1>6, <1>10, <2>1, <2>2, <2>3
<1> QED
  BY <1>3, <1>4, <1>5, <1>9, <1>10

(* "rolled_back" is written of a run that the reset has just made bare.      *)
LEMMA GoneStep ==
  ASSUME TypeOK, Records, Placed, Next, NEW r \in Run, Gone(r)'
  PROVE  Bare(r)'
<1>1. CASE Gone(r)
  <2>1. Bare(r)
    BY <1>1 DEF Placed
  <2>2. pc = "apply" => r # run
    BY <1>1 DEF Gone, Records, RunRecord, Logged, Applying
  <2>3. pc \in {"branch", "undo"} => log[r].rolledBack
    BY <1>1 DEF Gone
  <2>4. pc \in {"branch", "undo"} => \A f \in File : r \notin Base[f]
    BY <2>3 DEF Placed, BaseIsFree, Based
  <2> QED
    BY <2>1, <2>2, <2>4, BareStep
<1>2. CASE ~Gone(r)
  <2>1. Undo /\ r = run
    <3>1. log'[r].rolledBack => log[r].rolledBack \/ (r = run /\ pc = "undone")
      <4>1. UNCHANGED log \/ LogApplying \/ LogFailure \/ LogCommitted
        BY DEF Next, Work, ApplyPhase, Refuse, RefuseDirty, Start, ScanFails,
               Scan, PlanFails, Plan, Execute, ExecuteFails, GatePatch, Copy,
               Validate, ValidateFails, Bind, Decide, LogApplying, CreateBranch,
               CreateBranchFails, Apply, ApplyFails, NothingToAdd, Add, AddFails,
               Commit, CommitFails, Undo, UndoFails, LogFailure, Fail, LogCommitted, Finish,
               Leave, Die, Edit, UserCommit, files
      <4>2. log \in [Run -> ApplyJson] /\ (pc # "idle" => run \in Run)
        BY DEF TypeOK
      <4>3. CASE LogFailure
        <5>1. log'[run].rolledBack = (pc = "undone") /\ run \in Run
          BY <4>2, <4>3 DEF LogFailure, At
        <5> QED
          BY <4>2, <4>3, <5>1, OwnFiles DEF LogFailure
      <4>4. CASE LogApplying \/ LogCommitted
        <5>1. PICK s \in {"applying", "committed_local"} :
                run \in Run /\ log' = [log EXCEPT ![run].status = s]
          BY <4>2, <4>4 DEF LogApplying, LogCommitted, At
        <5>2. log[r] \in ApplyJson /\ log[run] \in ApplyJson
          BY <4>2, <5>1
        <5> QED
          BY <4>2, <5>1, <5>2 DEF ApplyJson
      <4> QED
        BY <4>1, <4>3, <4>4
    <3>2. r = run' /\ pc' = "undone"
      BY <1>2, <3>1 DEF Gone
    <3>3. Undo \/ (pc = "undone" /\ run' = run)
      BY <3>2 DEF Next, Work, ApplyPhase, Refuse, RefuseDirty, Start, ScanFails,
             Scan, PlanFails, Plan, Execute, ExecuteFails, GatePatch, Copy,
             Validate, ValidateFails, Bind, Decide, LogApplying, CreateBranch,
             CreateBranchFails, Apply, ApplyFails, NothingToAdd, Add, AddFails,
             Commit, CommitFails, Undo, UndoFails, LogFailure, Fail, LogCommitted, Finish,
             Leave, Die, Edit, UserCommit, At, Goto, Report, process
    <3>4. run' = run
      BY <3>3 DEF Undo
    <3> QED
      BY <1>2, <3>2, <3>3, <3>4 DEF Gone
  <2>2. head = r /\ (\A f \in File : r \notin Base[f]) /\ work' = Base /\ index' = Base
    BY <2>1 DEF Undo, Reset, At, Placed, Alone, BaseIsFree, Based
  <2>3. ASSUME NEW b \in Branch, refs'[b] # NoRef
        PROVE  \A f \in File : r \notin Committed(b)'[f]
    <3>1. CASE b = r
      <4>1. refs \in [Branch -> 0 .. Len(commits)]
        BY DEF TypeOK
      <4>2. refs'[b] = meta[run].base /\ commits' = commits
        BY <2>1, <2>2, <3>1, <4>1 DEF Undo, Reset
      <4> QED
        BY <2>2, <4>2 DEF Committed, Base
    <3>2. CASE b # r
      <4>1. /\ \A c \in Branch : c # r /\ refs[c] # NoRef =>
                  \A f \in File : r \notin Committed(c)[f]
            /\ ~CreateBranch /\ ~Commit /\ ~UserCommit
        BY <2>1 DEF Undo, At, Placed, Alone, CreateBranch, Commit, UserCommit
      <4> QED
        BY <2>2, <2>3, <3>2, <4>1, BranchStep
    <3> QED
      BY <3>1, <3>2
  <2> QED
    BY <2>2, <2>3 DEF Bare, Touched
<1> QED
  BY <1>1, <1>2

(* git commit puts what is staged on the run's branch, its patch with it.    *)
LEMMA CommitMakes ==
  ASSUME TypeOK, Placed, Commit
  PROVE  /\ run \in Run /\ head = run /\ run' = run /\ refs'[run] # NoRef
         /\ Committed(run)' = index /\ Committed(run) = Base
         /\ patch # {} /\ patch \subseteq File
         /\ \A f \in patch : run \in index[f] /\ run \in work[f]
         /\ \A f \in File : run \in index[f] => f \in patch
<1>1. pc = "staged" /\ run \in Run /\ run' = run
  BY DEF Commit, At, TypeOK
<1>2. /\ head = run /\ refs[run] = meta[run].base /\ Patching(run)
      /\ patch # {} /\ \A f \in patch : run \in index[f]
  BY <1>1 DEF Placed, Alone
<1>3. RepoOK
  BY TypeParts
<1>4. PICK t \in Tree : commits' = Append(commits, t) /\ t = index
  BY <1>3 DEF Commit, RepoOK
<1>5. commits'[Len(commits')] = index /\ Len(commits') = Len(commits) + 1
  BY <1>3, <1>4, CommitAdded
<1>6. refs' = [refs EXCEPT ![head] = Len(commits')] /\ refs \in [Branch -> 0 .. Len(commits)]
  BY DEF Commit, TypeOK
<1>7. refs'[run] = Len(commits') /\ Len(commits) \in Nat
  BY <1>1, <1>2, <1>6, <1>3 DEF RepoOK
<1>8. Committed(run)' = index
  BY <1>1, <1>5, <1>7 DEF Committed
<1>9. patch \subseteq File /\ Committed(run) = Base
  BY <1>2 DEF TypeOK, Committed, Base
<1> QED
  BY <1>1, <1>2, <1>5, <1>7, <1>8, <1>9 DEF Patching

(* A run whose commit is made stays on its branch, and in the tree while the *)
(* branch is checked out.                                                    *)
LEMMA LandedStep ==
  ASSUME TypeOK, Records, Placed, Stacked, Next, NEW r \in Run, Landed(r)'
  PROVE  /\ refs'[r] # NoRef /\ \E f \in File : r \in Committed(r)'[f]
         /\ head' = r => \E f \in File : r \in work'[f]
<1>0. /\ refs \in [Branch -> 0 .. Len(commits)] /\ Len(commits) \in Nat /\ work \in Tree
      /\ head \in Branch /\ meta[r].base \in 1 .. Len(commits)
      /\ \A k \in DOMAIN commits : k \in DOMAIN commits' /\ commits'[k] = commits[k]
      /\ pc # "idle" => run \in Run
  BY CommitsStay DEF TypeOK
<1>1. CASE Landed(r)
  <2>1. /\ refs[r] # NoRef /\ \E f \in File : r \in Committed(r)[f]
        /\ head = r => \E f \in File : r \in work[f]
    BY <1>1 DEF Placed
  <2>2. pc \in {"branch", "apply", "add", "staged", "undo"} => r # run
    BY <1>1 DEF Landed, Records, RunRecord, Logged, Applying
  <2>3. pc \in {"apply", "add", "staged", "undo"} => head # r
    BY <1>0, <2>2 DEF Placed, Alone
  <2>4. CASE UNCHANGED repo
    BY <2>1, <2>4 DEF repo, Committed
  <2>5. CASE CreateBranch
    <3>1. /\ run \in Run /\ r # run /\ commits' = commits /\ work' = work
          /\ refs' = [refs EXCEPT ![run] = meta[run].base] /\ head' \in {head, run}
      BY <1>0, <2>2, <2>5 DEF CreateBranch, At
    <3> QED
      BY <1>0, <2>1, <3>1 DEF Committed
  <2>6. CASE Apply \/ ApplyFails \/ Add \/ AddFails \/ Commit \/ Undo \/ UndoFails
    <3>1. /\ head # r /\ head' = head
          /\ refs' = refs \/ \E k \in Nat : refs' = [refs EXCEPT ![head] = k]
      <4>1. pc \in {"apply", "add", "staged", "undo"} /\ head' = head
        BY <2>6 DEF Apply, ApplyFails, Add, AddFails, Commit, Undo, UndoFails, At
      <4>2. CASE Apply \/ ApplyFails \/ Add \/ AddFails
        BY <2>3, <4>1, <4>2 DEF Apply, ApplyFails, Add, AddFails
      <4>3. CASE Commit
        <5>1. refs' = [refs EXCEPT ![head] = Len(commits')] /\ Len(commits') \in Nat
          BY <4>3 DEF Commit, TypeOK
        <5> QED
          BY <2>3, <4>1, <5>1
      <4>4. CASE Undo \/ UndoFails
        <5>1. meta[run].base \in Nat
          BY <1>0, <4>1 DEF TypeOK
        <5> QED
          BY <2>3, <4>1, <4>4, <5>1 DEF Undo, UndoFails, Reset, HalfReset
      <4> QED
        BY <2>6, <4>2, <4>3, <4>4
    <3>2. refs'[r] = refs[r]
      BY <1>0, <3>1
    <3> QED
      BY <1>0, <2>1, <3>1, <3>2 DEF Committed
  <2>7. CASE Edit
    <3>1. PICK f \in File : work' = [work EXCEPT ![f] = @ \cup {Dirt}]
      BY <2>7 DEF Edit
    <3>2. UNCHANGED <<commits, refs, head>>
      BY <2>7 DEF Edit
    <3>3. \A g \in File : work[g] \subseteq work'[g]
      BY <1>0, <3>1 DEF Tree
    <3> QED
      BY <2>1, <3>2, <3>3 DEF Committed
  <2>8. CASE UserCommit
    <3>1. /\ refs' = [refs EXCEPT ![head] = Len(commits')] /\ head' = head /\ work' = work
          /\ commits' = Append(commits, index') /\ index' \in {index, work}
      BY <2>8 DEF UserCommit
    <3>2. commits'[Len(commits')] = index' /\ Len(commits') = Len(commits) + 1
      <4>1. index' \in Tree
        BY <3>1 DEF TypeOK
      <4> QED
        BY <1>0, <3>1, <4>1, CommitAdded, TypeParts
    <3>3. CASE head = r
      <4>1. refs'[r] = Len(commits')
        BY <1>0, <3>1, <3>3
      <4>2. PICK f \in File : r \in Committed(r)[f]
        BY <2>1
      <4>3. r \in index'[f] /\ r \in work[f]
        BY <3>1, <3>3, <4>2 DEF Stacked
      <4>4. Committed(r)' = index'
        BY <3>2, <4>1 DEF Committed
      <4> QED
        BY <1>0, <3>1, <3>2, <4>1, <4>3, <4>4
    <3>4. CASE head # r
      <4>1. refs'[r] = refs[r]
        BY <1>0, <3>1, <3>4
      <4> QED
        BY <1>0, <2>1, <3>1, <3>4, <4>1 DEF Committed
    <3> QED
      BY <3>3, <3>4
  <2> QED
    BY <2>4, <2>5, <2>6, <2>7, <2>8, RepoKinds DEF Changing
<1>2. CASE ~Landed(r)
  <2>1. Commit /\ r = run
    <3>1. log'[r].status = "committed_local" =>
            log[r].status = "committed_local" \/ (LogCommitted /\ r = run)
      <4>1. UNCHANGED log \/ LogApplying \/ LogFailure \/ LogCommitted
        BY DEF Next, Work, ApplyPhase, Refuse, RefuseDirty, Start, ScanFails,
               Scan, PlanFails, Plan, Execute, ExecuteFails, GatePatch, Copy,
               Validate, ValidateFails, Bind, Decide, LogApplying, CreateBranch,
               CreateBranchFails, Apply, ApplyFails, NothingToAdd, Add, AddFails,
               Commit, CommitFails, Undo, UndoFails, LogFailure, Fail, LogCommitted, Finish,
               Leave, Die, Edit, UserCommit, files
      <4>2. CASE r # run \/ pc = "idle"
        BY <4>2, OwnFiles
      <4>3. CASE r = run /\ pc # "idle"
        <5>1. log[run] \in ApplyJson /\ log \in [Run -> ApplyJson]
          BY <4>3 DEF TypeOK
        <5>2. LogApplying => log'[run].status = "applying"
          BY <4>3, <5>1 DEF LogApplying, ApplyJson
        <5>3. LogFailure => log'[run].status = log[run].status
          BY <4>3, <5>1 DEF LogFailure
        <5> QED
          BY <4>1, <4>3, <5>2, <5>3
      <4> QED
        BY <4>2, <4>3
    <3>2. LogCommitted => pc = "committed"
      BY DEF LogCommitted, At
    <3>3. r = run' /\ pc' = "committed"
      BY <1>2, <3>1, <3>2 DEF Landed
    <3>4. run' = run /\ (Commit \/ pc = "committed")
      BY <3>3 DEF Next, Work, ApplyPhase, Refuse, RefuseDirty, Start, ScanFails,
             Scan, PlanFails, Plan, Execute, ExecuteFails, GatePatch, Copy,
             Validate, ValidateFails, Bind, Decide, LogApplying, CreateBranch,
             CreateBranchFails, Apply, ApplyFails, NothingToAdd, Add, AddFails,
             Commit, CommitFails, Undo, UndoFails, LogFailure, Fail, LogCommitted, Finish,
             Leave, Die, Edit, UserCommit, At, Goto, Report, process
    <3> QED
      BY <1>2, <3>3, <3>4 DEF Landed
  <2>2. /\ refs'[run] # NoRef /\ patch # {} /\ patch \subseteq File
        /\ \A f \in patch : run \in index[f] /\ run \in work[f]
        /\ Committed(run)' = index /\ run' = run
    BY <2>1, CommitMakes
  <2>3. work' = work
    BY <2>1 DEF Commit
  <2>4. PICK f \in patch : f \in File /\ run \in index[f] /\ run \in work[f]
    BY <2>2
  <2>5. Committed(r)' = index
    BY <2>1, <2>2 DEF Committed
  <2> QED
    BY <2>1, <2>2, <2>3, <2>4, <2>5
<1> QED
  BY <1>1, <1>2

LEMMA PlacedInit == Init => Placed
<1> SUFFICES ASSUME Init PROVE Placed
  OBVIOUS
<1>1. \A r \in Run : ~Gone(r) /\ ~Landed(r)
  BY DEF Init, Gone, Landed
<1> QED
  BY <1>1 DEF Init, Placed, Alone, BaseIsFree, Based

LEMMA PlacedStep ==
  TypeOK /\ Traces /\ Records /\ Stacked /\ Placed /\ [Next]_vars => Placed'
<1> SUFFICES ASSUME TypeOK, Traces, Records, Stacked, Placed, [Next]_vars PROVE Placed'
  OBVIOUS
<1>1. CASE UNCHANGED vars
  BY <1>1 DEF vars, validator, repo, files, process, Placed, Alone, Patching,
              BaseIsFree, Gone, Bare, Touched, Landed, Committed, Base
<1>2. CASE Next
  <2>1. TypeOK' /\ Traces'
    BY TypeStep, TracesStep
  <2>2. Alone'
    BY <1>2, <2>1, AloneStep DEF Alone
  <2>3. BaseIsFree'
    BY <1>2, BaseIsFreeStep
  <2>4. \A r \in Run : Gone(r)' => Bare(r)'
    BY <1>2, GoneStep
  <2>5. (\A r \in Run : Landed(r) =>
           /\ refs[r] # NoRef /\ \E f \in File : r \in Committed(r)[f]
           /\ head = r => \E f \in File : r \in work[f])'
    BY <1>2, LandedStep
  <2> QED
    BY <2>2, <2>3, <2>4, <2>5 DEF Placed
<1> QED
  BY <1>1, <1>2

-----------------------------------------------------------------------------
(* What goes along with the patch.                                           *)

(* From the preflight to the commit.                                         *)
Underway == {"scan", "plan", "execute", "gate", "copy", "validate", "decide", "log",
             "branch", "apply", "add", "staged"}

(* What the property says of one file of the run's commit.                   *)
Account(r, f) ==
  LET beside == Committed(r)[f] \ commits[meta[r].base][f]
  IN  /\ commits[meta[r].base][f] \subseteq Committed(r)[f]
      /\ r \in beside <=> f \in patch
      /\ Dirt \in beside /\ f \notin Staged => \E q \in Run : q \in beside
      /\ ~command.allowDirty => beside \subseteq {r, Dirt}

(* A change the user did not stage is staged only with the patch of a run;   *)
(* and without --allow-dirty the tree has, beside the commit, only the run's *)
(* patch and what the user did meanwhile.                                    *)
Accounted ==
  /\ \A f \in File \ Staged :
       Dirt \in index[f] /\ Dirt \notin Committed(head)[f] =>
         \E q \in Run : q \in index[f] /\ q \notin Committed(head)[f]
  /\ ~command.allowDirty /\ pc \in Underway =>
       \A f \in File : work[f] \subseteq Committed(head)[f] \cup {Dirt, run}
  /\ \A r \in Run : r = run /\ pc = "committed" => \A f \in File : Account(r, f)

LEMMA AccountedInit == Init => Accounted
BY DEF Init, Accounted, Underway, Pristine, Dirt

(* The part of a change that the user has not staged.                        *)
LEMMA ByHandStep ==
  ASSUME TypeOK, TypeOK', Stacked, Placed, Accounted, Next, NEW f \in File \ Staged,
         Dirt \in index'[f], Dirt \notin Committed(head)'[f]
  PROVE  \E q \in Run : q \in index'[f] /\ q \notin Committed(head)'[f]
<1>1. CASE Committed(head)' = Committed(head) /\ index'[f] = index[f]
  <2>1. PICK q \in Run : q \in index[f] /\ q \notin Committed(head)[f]
    BY <1>1 DEF Accounted
  <2> QED
    BY <1>1, <2>1
<1>2. CASE (Add \/ AddFails) /\ f \in patch /\ index'[f] = work[f]
  <2>1. run \in Run /\ pc = "add" /\ UNCHANGED <<commits, refs, head>>
    BY <1>2 DEF Add, AddFails, At, TypeOK
  <2>2. run \in work[f]
    BY <1>2, <2>1 DEF Placed, Alone, Patching
  <2>3. Committed(head) = Base /\ Committed(head)' = Committed(head)
    BY <2>1 DEF Placed, Alone, Committed, Base
  <2>4. run \notin Base[f]
    BY <2>1 DEF Placed, BaseIsFree, Based
  <2>5. run \in index'[f] /\ run \notin Committed(head)'[f]
    BY <1>2, <2>2, <2>3, <2>4
  <2> QED
    BY <2>1, <2>5
<1>3. CASE Undo \/ UndoFails
  <2>1. \/ UNCHANGED <<commits, refs, head, index>>
        \/ index' = Base /\ commits' = commits /\ refs'[head'] = meta[run].base
    BY <1>3 DEF Undo, UndoFails, Reset, HalfReset, TypeOK
  <2>2. CASE index' = Base /\ commits' = commits /\ refs'[head'] = meta[run].base
    <3>1. index'[f] = Base[f]
      BY <2>2
    <3>2. Committed(head)'[f] = Base[f]
      BY <2>2 DEF Committed, Base
    <3> QED
      BY <3>1, <3>2
  <2>3. CASE UNCHANGED <<commits, refs, head, index>>
    BY <1>1, <2>3 DEF Committed
  <2> QED
    BY <2>1, <2>2, <2>3
<1>4. CASE Committed(head)' = index'
  BY <1>4
<1>5. CASE ~(Undo \/ UndoFails) /\ Committed(head)' = Committed(head) /\ ~UserCommit
  BY <1>1, <1>2, <1>5, IndexStep
<1>6. UserCommit => Committed(head)' = index'
  <2> SUFFICES ASSUME UserCommit PROVE Committed(head)' = index'
    OBVIOUS
  <2>1. RepoOK /\ index' \in Tree /\ commits' = Append(commits, index')
    BY TypeParts DEF UserCommit, TypeOK
  <2>2. commits'[Len(commits')] = index'
    BY <2>1, CommitAdded
  <2>3. refs'[head'] = Len(commits')
    BY DEF UserCommit, TypeOK
  <2> QED
    BY <2>2, <2>3 DEF Committed
<1> QED
  BY <1>3, <1>4, <1>5, <1>6, HeadStep

(* Without --allow-dirty.                                                    *)
LEMMA CleanStep ==
  ASSUME TypeOK, TypeOK', Stacked, Placed, Accounted, Next, ~command.allowDirty,
         pc' \in Underway, NEW f \in File
  PROVE  work'[f] \subseteq Committed(head)'[f] \cup {Dirt, run'}
<1>1. CASE Start
  <2>1. work = Committed(head) /\ UNCHANGED repo
    BY <1>1 DEF Start, TooDirty, Clean
  <2> QED
    BY <2>1 DEF repo, Committed
<1>2. CASE ~Start
  <2>1. pc \in Underway /\ run' = run /\ ~Undo /\ ~UndoFails
    BY <1>2 DEF Next, Work, ApplyPhase, Refuse, RefuseDirty, Start, ScanFails,
           Scan, PlanFails, Plan, Execute, ExecuteFails, GatePatch, Copy,
           Validate, ValidateFails, Bind, Decide, LogApplying, CreateBranch,
           CreateBranchFails, Apply, ApplyFails, NothingToAdd, Add, AddFails,
           Commit, CommitFails, Undo, UndoFails, LogFailure, Fail, LogCommitted,
           Finish, Leave, Die, Edit, UserCommit, At, Goto, Report, process,
           Underway
  <2>2. work[f] \subseteq Committed(head)[f] \cup {Dirt, run}
    BY <2>1 DEF Accounted
  <2>3. work'[f] \subseteq work[f] \cup {Dirt, run}
    BY <2>1, WorkStep
  <2>4. Committed(head)[f] \subseteq Committed(head)'[f]
    <3>1. index[f] \subseteq index'[f] /\ Committed(head)[f] \subseteq index[f]
      BY <2>1, IndexStep DEF Stacked
    <3> QED
      BY <2>1, <3>1, HeadStep
  <2> QED
    BY <2>1, <2>2, <2>3, <2>4
<1> QED
  BY <1>1, <1>2

(* What git commit puts on the branch can be accounted for.                  *)
LEMMA CommitAccounted ==
  ASSUME TypeOK, Stacked, Placed, Accounted, Commit, NEW f \in File
  PROVE  Account(run, f)'
<1>1. /\ run \in Run /\ head = run /\ run' = run
      /\ Committed(run)' = index /\ Committed(run) = Base
      /\ \A g \in patch : run \in index[g]
      /\ run \in index[f] => f \in patch
  BY CommitMakes
<1>2. UNCHANGED <<patch, meta, command>> /\ pc = "staged"
  BY DEF Commit, files, At
<1>3. commits'[meta'[run'].base] = Base
  <2>1. meta[run].base \in DOMAIN commits
    BY <1>1 DEF TypeOK
  <2>2. commits'[meta[run].base] = commits[meta[run].base]
    BY <2>1, CommitsStay DEF Next, ApplyPhase
  <2> QED
    BY <1>1, <1>2, <2>2 DEF Base
<1>4. Base[f] \subseteq index[f] /\ index[f] \subseteq work[f]
  BY <1>1, <1>2 DEF Stacked, Based
<1>5. run \in index[f] \ Base[f] <=> f \in patch
  <2>1. run \notin Base[f]
    BY <1>1, <1>2 DEF Placed, BaseIsFree, Based
  <2> QED
    BY <1>1, <2>1
<1>6. Dirt \in index[f] \ Base[f] /\ f \notin Staged => \E q \in Run : q \in index[f] \ Base[f]
  BY <1>1 DEF Accounted
<1>7. ~command.allowDirty => index[f] \ Base[f] \subseteq {run, Dirt}
  BY <1>1, <1>2, <1>4 DEF Accounted, Underway
<1> QED
  BY <1>1, <1>2, <1>3, <1>4, <1>5, <1>6, <1>7 DEF Account

LEMMA AccountedStep ==
  TypeOK /\ Stacked /\ Placed /\ Accounted /\ [Next]_vars => Accounted'
<1> SUFFICES ASSUME TypeOK, Stacked, Placed, Accounted, [Next]_vars PROVE Accounted'
  OBVIOUS
<1>1. CASE UNCHANGED vars
  BY <1>1 DEF vars, validator, repo, files, process, Accounted, Account, Committed
<1>2. CASE Next
  <2>1. TypeOK' /\ command' = command
    BY <1>2, TypeStep, ToolsStep, TypeParts
  <2>2. ASSUME NEW r \in Run, r = run', pc' = "committed", NEW f \in File
        PROVE  Account(r, f)'
    <3>1. (Commit \/ (Edit /\ pc = "committed")) /\ run' = run
      BY <1>2, <2>2 DEF Next, Work, ApplyPhase, Refuse, RefuseDirty, Start,
             ScanFails, Scan, PlanFails, Plan, Execute, ExecuteFails, GatePatch,
             Copy, Validate, ValidateFails, Bind, Decide, LogApplying,
             CreateBranch, CreateBranchFails, Apply, ApplyFails, NothingToAdd,
             Add, AddFails, Commit, CommitFails, Undo, UndoFails, LogFailure,
             Fail, LogCommitted, Finish, Leave, Die, Edit, UserCommit, At, Goto,
             Report, process
    <3>2. CASE Commit
      <4>1. Account(run, f)'
        BY <3>2, CommitAccounted
      <4> QED
        BY <2>2, <4>1
    <3>3. CASE Edit /\ pc = "committed"
      <4>1. UNCHANGED <<commits, refs, meta, run, patch, command>>
        BY <3>3 DEF Edit, files, process
      <4>2. Account(r, f)
        BY <2>2, <3>1, <3>3 DEF Accounted
      <4> QED
        BY <4>1, <4>2 DEF Account, Committed
    <3> QED
      BY <3>1, <3>2, <3>3
  <2>3. ASSUME NEW f \in File \ Staged
        PROVE  (Dirt \in index[f] /\ Dirt \notin Committed(head)[f] =>
                  \E q \in Run : q \in index[f] /\ q \notin Committed(head)[f])'
    BY <1>2, <2>1, ByHandStep DEF Dirt
  <2>4. (~command.allowDirty /\ pc \in Underway =>
           \A f \in File : work[f] \subseteq Committed(head)[f] \cup {Dirt, run})'
    BY <1>2, <2>1, CleanStep DEF Dirt
  <2> QED
    BY <2>2, <2>3, <2>4 DEF Accounted
<1> QED
  BY <1>1, <1>2

IInv == TypeOK /\ Traces /\ Records /\ Stacked /\ Placed /\ Accounted

LEMMA Inductive == Spec => []IInv
<1>1. Init => IInv
  BY TypeInit, TracesInit, RecordsInit, StackedInit, PlacedInit, AccountedInit DEF IInv
<1>2. IInv /\ [Next]_vars => IInv'
  BY TypeStep, TracesStep, RecordsStep, StackedStep, PlacedStep, AccountedStep DEF IInv
<1> QED
  BY <1>1, <1>2, PTL DEF Spec

(* "rolled_back" in apply.json is the truth: no edit of the run is in the    *)
(* working tree, staged or on a branch, whatever runs after it, and whoever  *)
(* dies.                                                                     *)
THEOREM RolledBackIsTrue == Spec => []RolledBackLeavesNoTrace
<1>1. IInv => RolledBackLeavesNoTrace
  BY DEF IInv, Placed, Gone, Bare, RolledBackLeavesNoTrace
<1> QED
  BY <1>1, Inductive, PTL

(* run.json, apply.json and ci_result.json never contradict each other, and  *)
(* a log that says committed stands for a branch that has the edits.         *)
THEOREM ResultsAreTrue == Spec => []ResultIsTrue
<1>1. IInv => ResultIsTrue
  <2> SUFFICES ASSUME IInv PROVE ResultIsTrue
    OBVIOUS
  <2>1. ASSUME result.run # 0 PROVE result.run \in Run /\ Told(result.run, result.status)
    <3>1. result.run \in Run
      BY <2>1 DEF IInv, TypeOK, CiResult
    <3> QED
      BY <3>1 DEF IInv, Records
  <2>2. \A r \in Run :
          meta[r].status = "applied" => log[r].status = "committed_local" /\ ~log[r].failed
    BY DEF IInv, Records
  <2>3. \A r \in Run : log[r].status = "committed_local" =>
          refs[r] # NoRef /\ \E f \in File : r \in Committed(r)[f]
    BY DEF IInv, Placed, Landed
  <2> QED
    BY <2>1, <2>2, <2>3 DEF ResultIsTrue, Told, Reported
<1> QED
  BY <1>1, Inductive, PTL

(* The commit of a run is the scanned commit with the run's patch, whole and *)
(* in no other file, and beside it only what the user edited in those files  *)
(* or staged, or, under --allow-dirty, what another run left; whatever is in *)
(* tree and index, for any number of runs and acts of the user.              *)
THEOREM CommitsAreAccountedFor == Spec => CommittedIsAccountedFor
<1> DEFINE Step(r) ==
      log'[r].status = "committed_local" /\ log[r].status # "committed_local" =>
        \A f \in File : Account(r, f)
<1>1. ASSUME IInv, Next, NEW r \in Run PROVE Step(r)
  <2> SUFFICES ASSUME log'[r].status = "committed_local", log[r].status # "committed_local"
               PROVE  \A f \in File : Account(r, f)
    OBVIOUS
  <2>0. TypeOK /\ log \in [Run -> ApplyJson]
    BY <1>1 DEF IInv, TypeOK
  <2>1. r = run /\ pc # "idle"
    BY <1>1, <2>0, OwnFiles
  <2>2. LogCommitted
    <3>1. UNCHANGED log \/ LogApplying \/ LogFailure \/ LogCommitted
      BY <1>1 DEF Next, Work, ApplyPhase, Refuse, RefuseDirty, Start, ScanFails,
             Scan, PlanFails, Plan, Execute, ExecuteFails, GatePatch, Copy,
             Validate, ValidateFails, Bind, Decide, LogApplying, CreateBranch,
             CreateBranchFails, Apply, ApplyFails, NothingToAdd, Add, AddFails,
             Commit, CommitFails, Undo, UndoFails, LogFailure, Fail, LogCommitted, Finish,
             Leave, Die, Edit, UserCommit, files
    <3>2. log[run] \in ApplyJson
      BY <2>0, <2>1
    <3>3. LogApplying => log'[run].status = "applying"
      BY <2>0, <2>1, <3>2 DEF LogApplying, ApplyJson
    <3>4. LogFailure => log'[run].status = log[run].status
      BY <2>0, <2>1, <3>2 DEF LogFailure
    <3> QED
      BY <2>1, <3>1, <3>3, <3>4
  <2> QED
    BY <1>1, <2>1, <2>2 DEF LogCommitted, At, IInv, Accounted
<1>2. ASSUME IInv, [Next]_vars PROVE [\A r \in Run : Step(r)]_vars
  BY <1>1, <1>2
<1> QED
  BY <1>2, Inductive, PTL DEF Spec, CommittedIsAccountedFor, Account

=============================================================================
