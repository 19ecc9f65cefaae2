-------------------------- MODULE CandidatePromotion --------------------------
(***************************************************************************)
(* `patchforge apply` (orchestrator/commands/apply.py): the promotion of a *)
(* previewed run to a branch, under the candidate_promotion@1 protocol.    *)
(*                                                                         *)
(* Several processes work on one run of one repository.  An apply reads    *)
(* run.json and patch.diff, takes the promotion lock of the repository,    *)
(* looks for an earlier attempt in apply.json (its write-ahead log), and   *)
(* otherwise builds a candidate commit in a detached worktree, logs it,    *)
(* validates it and publishes it with one Git ref transaction.  It may die *)
(* between any two steps: the lock goes with the process, the files and    *)
(* the refs stay.  A preview rewrites patch.diff, validation.json and      *)
(* run.json without the lock.  The user works on the branches meanwhile.   *)
(***************************************************************************)
EXTENDS Naturals

CONSTANTS
  Proc,         \* operator processes
  Patch,        \* contents of patch.diff
  MaxBuilds,    \* bound on the candidate commits ever built
  Previews,     \* TRUE: the run may be previewed again
  UserEdits,    \* TRUE: the user moves the base and the published branch
  GitTimeouts,  \* TRUE: resolve_ref may time out, which reads as "no such ref"
  None          \* no commit, no log, no file, no holder

ASSUME PromotionAssumption ==
  /\ Patch # {} /\ MaxBuilds \in Nat
  /\ Previews \in BOOLEAN /\ UserEdits \in BOOLEAN /\ GitTimeouts \in BOOLEAN
  /\ None \notin Proc /\ None \notin Patch
  /\ None \notin [patch : Patch, nr : 1 .. MaxBuilds]

VARIABLES
  run,         \* run.json: status and patch_checksum
  patch,       \* patch.diff
  validation,  \* validation.json: the subject it is bound to, and the verdict
  wal,         \* apply.json: promotion_state and candidate_commit
  lock,        \* the owner of the candidate-promotion transaction
  onBase,      \* the live base branch is at the run's base_commit
  branch,      \* refs/heads/patchforge/<run>
  receipt,     \* refs/patchforge/promotions/<run>
  built,       \* number of candidate commits built
  pc,          \* where each process is
  meta,        \* the run.json it read when it started
  cand         \* the candidate it is promoting

files == <<run, patch, validation, wal>>
refs == <<onBase, branch, receipt>>
vars == <<files, refs, lock, built, pc, meta, cand>>

-----------------------------------------------------------------------------

(* A checksum stands for the patch it was taken of; a commit for the patch   *)
(* it contains and the moment it was made (its parent is the base_commit).   *)
Run == [status : {"previewed", "validation_failed", "failed", "applied"},
        checksum : Patch]

Built == [patch : Patch, nr : 1 .. MaxBuilds]

(* A commit the user put on the published branch.                            *)
UserCommit == [patch |-> None, nr |-> 0]

(* agents/validator makes up a run id of its own for every run; apply binds  *)
(* the subject to that one (run_id=output.run_id), and preview as well.      *)
ThisRun == "run"
ValidatorRun == "validator run"

Evidence == [run_id : {ThisRun, ValidatorRun},
             checksum : Patch \cup {None},
             commit : Built \cup {None},
             approved : BOOLEAN]

(* What a preview writes, bound to no candidate; a missing file authorizes   *)
(* as little.                                                                *)
Unbound(ok) == [run_id |-> ValidatorRun, checksum |-> None, commit |-> None,
                approved |-> ok]

Log == [state : {"none", "prepared", "applied"}, commit : Built \cup {None}]

Start(p) == pc[p] = "idle"
Goto(p, place) == pc' = [pc EXCEPT ![p] = place]

(* Seeded fault: the lock is not closed when the command is over.            *)
LeaveLocked(p) ==
  /\ Goto(p, "idle")
  /\ meta' = [meta EXCEPT ![p] = None]
  /\ cand' = [cand EXCEPT ![p] = None]
  /\ UNCHANGED lock

(* The command is over, its locals are gone; _fail and return both unwind    *)
(* through the finally that closes the lock, a process that dies drops it.   *)
Leave(p) ==
  /\ Goto(p, "idle")
  /\ meta' = [meta EXCEPT ![p] = None]
  /\ cand' = [cand EXCEPT ![p] = None]
  /\ lock' = IF lock = p THEN None ELSE lock

-----------------------------------------------------------------------------

Init ==
  /\ \E x \in Patch : /\ run = [status |-> "previewed", checksum |-> x]
                      /\ patch = x
  /\ validation = Unbound(TRUE)
  /\ wal = [state |-> "none", commit |-> None]
  /\ lock = None
  /\ onBase = TRUE
  /\ branch = None
  /\ receipt = None
  /\ built = 0
  /\ pc = [p \in Proc |-> "idle"]
  /\ meta = [p \in Proc |-> None]
  /\ cand = [p \in Proc |-> None]

(* execute: run.json is read and patch.diff checked against it before the    *)
(* lock is taken.  Anything else than a previewed run with its patch ends    *)
(* the command.                                                              *)
ReadRun(p) ==
  /\ Start(p)
  /\ run.status = "previewed"
  /\ patch = run.checksum
  /\ meta' = [meta EXCEPT ![p] = run]
  /\ Goto(p, "read")
  /\ UNCHANGED <<files, refs, lock, built, cand>>

(* acquire_candidate_promotion_lock does not wait.                           *)
Lock(p) ==
  /\ pc[p] = "read"
  /\ lock = None
  /\ lock' = p
  /\ Goto(p, "locked")
  /\ UNCHANGED <<files, refs, built, meta, cand>>

LockBusy(p) ==
  /\ pc[p] = "read"
  /\ lock # None
  /\ Leave(p)
  /\ UNCHANGED <<files, refs, built>>

(* recovery_is_authorized: the persisted evidence is about this run, its     *)
(* patch and the logged commit, and approves it.                             *)
RecoveryAuthorized(p) ==
  /\ validation.run_id = ThisRun
  /\ validation.checksum = meta[p].checksum
  /\ validation.commit = wal.commit
  /\ validation.approved

(* resolve_ref                                                               *)
Resolved(ref) == {ref} \cup IF GitTimeouts THEN {None} ELSE {}

(* Seeded fault: the receipt is not looked at.                               *)
UnpublishedByBranch(b, r) ==
  \/ wal.state = "none"
  \/ wal.state = "prepared" /\ b = None

(* There is no log, or its promotion was not published.                      *)
Unpublished(b, r) ==
  \/ wal.state = "none"
  \/ wal.state = "prepared" /\ b = None /\ r = None

Recoverable(p, b, r) ==
  b = wal.commit /\ r = wal.commit /\ RecoveryAuthorized(p)

(* Recovery, under the lock.  A logged commit that both refs point to is     *)
(* finished if the evidence allows; any other trace of a publication, and a  *)
(* log that says applied, stop the command; otherwise it starts afresh.      *)
Inspect(p) ==
  /\ pc[p] = "locked"
  /\ \E b \in Resolved(branch), r \in Resolved(receipt) :
       IF Unpublished(b, r) THEN /\ Goto(p, "fresh")
                                 /\ UNCHANGED <<lock, meta, cand>>
       ELSE IF Recoverable(p, b, r) THEN /\ Goto(p, "finishing")
                                         /\ cand' = [cand EXCEPT ![p] = wal.commit]
                                         /\ UNCHANGED <<lock, meta>>
       ELSE Leave(p)
  /\ UNCHANGED <<files, refs, built>>

(* run.json is written back with approved_by, from what was read at first.   *)
Approve(p) ==
  /\ pc[p] = "fresh"
  /\ run' = meta[p]
  /\ Goto(p, "approved")
  /\ UNCHANGED <<patch, validation, wal, refs, lock, built, meta, cand>>

(* live_base = metadata.base_commit *)
CheckBase(p) ==
  /\ pc[p] = "approved"
  /\ onBase
  /\ Goto(p, "checked")
  /\ UNCHANGED <<files, refs, lock, built, meta, cand>>

(* commit_candidate reads patch.diff once more.                              *)
Build(p) ==
  /\ pc[p] = "checked"
  /\ patch # None
  /\ built < MaxBuilds
  /\ built' = built + 1
  /\ cand' = [cand EXCEPT ![p] = [patch |-> patch, nr |-> built + 1]]
  /\ Goto(p, "built")
  /\ UNCHANGED <<files, refs, lock, meta>>

Prepare(p) ==
  /\ pc[p] = "built"
  /\ wal' = [state |-> "prepared", commit |-> cand[p]]
  /\ Goto(p, "prepared")
  /\ UNCHANGED <<run, patch, validation, refs, lock, built, meta, cand>>

(* The validator runs in the candidate worktree; its output is bound to the  *)
(* candidate, saved, and decides.                                            *)
Validate(p) ==
  /\ pc[p] = "prepared"
  /\ \E ok \in BOOLEAN :
       /\ validation' = [run_id |-> ValidatorRun, checksum |-> meta[p].checksum,
                         commit |-> cand[p], approved |-> ok]
       /\ IF ok THEN /\ Goto(p, "authorized")
                     /\ UNCHANGED <<lock, meta, cand>>
          ELSE Leave(p)
  /\ UNCHANGED <<run, patch, wal, refs, built>>

(* Seeded fault: the base is not verified again in the transaction.          *)
PromoteOnAnyBase(p) ==
  /\ pc[p] = "authorized"
  /\ branch = None
  /\ receipt = None
  /\ branch' = cand[p]
  /\ receipt' = cand[p]
  /\ Goto(p, "finishing")
  /\ UNCHANGED <<files, onBase, lock, built, meta, cand>>

(* promote_candidate: one transaction verifies the base and creates both     *)
(* refs.                                                                     *)
Promote(p) ==
  /\ pc[p] = "authorized"
  /\ onBase
  /\ branch = None
  /\ receipt = None
  /\ branch' = cand[p]
  /\ receipt' = cand[p]
  /\ Goto(p, "finishing")
  /\ UNCHANGED <<files, onBase, lock, built, meta, cand>>

(* Seeded fault: the return code of the transaction is not looked at.        *)
PromoteUnchecked(p) ==
  /\ pc[p] = "authorized"
  /\ ~(onBase /\ branch = None /\ receipt = None)
  /\ Goto(p, "finishing")
  /\ UNCHANGED <<files, refs, lock, built, meta, cand>>

PromoteRefused(p) ==
  /\ pc[p] = "authorized"
  /\ ~(onBase /\ branch = None /\ receipt = None)
  /\ Leave(p)
  /\ UNCHANGED <<files, refs, built>>

(* _finish: apply.json first, run.json then; the command is over.            *)
FinishLog(p) ==
  /\ pc[p] = "finishing"
  /\ wal' = [state |-> "applied", commit |-> cand[p]]
  /\ Goto(p, "logged")
  /\ UNCHANGED <<run, patch, validation, refs, lock, built, meta, cand>>

FinishRun(p) ==
  /\ pc[p] = "logged"
  /\ run' = [meta[p] EXCEPT !.status = "applied"]
  /\ Leave(p)
  /\ UNCHANGED <<patch, validation, wal, refs, built>>

Applying(p) ==
  pc[p] \in {"read", "locked", "fresh", "approved", "checked", "built",
             "prepared", "authorized", "finishing", "logged"}

(* A step fails and the command ends (an unreadable configuration, a base    *)
(* that moved, a patch that does not apply, a tree the validator changed, a  *)
(* transaction that timed out after all), or the process dies.               *)
Stop(p) ==
  /\ Applying(p) \/ pc[p] \in {"previewing", "patched", "evaluated"}
  /\ Leave(p)
  /\ UNCHANGED <<files, refs, built>>

-----------------------------------------------------------------------------

(* preview.execute asks nothing of the run's status and takes no lock.       *)
ReadForPreview(p) ==
  /\ Previews
  /\ Start(p)
  /\ meta' = [meta EXCEPT ![p] = run]
  /\ Goto(p, "previewing")
  /\ UNCHANGED <<files, refs, lock, built, cand>>

(* The Executor failed, the patch gate blocked or, later, the validator      *)
(* raised; with an empty patch the old artifacts go as well.  Nobody reads   *)
(* the checksum of a failed run.                                             *)
PreviewFails(p) ==
  /\ pc[p] \in {"previewing", "patched"}
  /\ run' = [meta[p] EXCEPT !.status = "failed"]
  /\ \/ UNCHANGED <<patch, validation>>
     \/ pc[p] = "previewing" /\ patch' = None /\ validation' = Unbound(FALSE)
  /\ Leave(p)
  /\ UNCHANGED <<wal, refs, built>>

WritePatch(p) ==
  /\ pc[p] = "previewing"
  /\ \E x \in Patch : /\ patch' = x
                      /\ meta' = [meta EXCEPT ![p].checksum = x]
  /\ Goto(p, "patched")
  /\ UNCHANGED <<run, validation, wal, refs, lock, built, cand>>

(* A run with tasks that failed is not previewed, whatever the validator said. *)
WriteValidation(p) ==
  /\ pc[p] = "patched"
  /\ \E ok, hard_errors \in BOOLEAN :
       /\ validation' = Unbound(ok)
       /\ meta' = [meta EXCEPT ![p].status =
                     IF ok /\ ~hard_errors THEN "previewed" ELSE "validation_failed"]
  /\ Goto(p, "evaluated")
  /\ UNCHANGED <<run, patch, wal, refs, lock, built, cand>>

FinishPreview(p) ==
  /\ pc[p] = "evaluated"
  /\ run' = meta[p]
  /\ Leave(p)
  /\ UNCHANGED <<patch, validation, wal, refs, built>>

-----------------------------------------------------------------------------

(* The user commits to the base branch, or takes a commit back.              *)
MoveBase ==
  /\ UserEdits
  /\ onBase' = ~onBase
  /\ UNCHANGED <<files, branch, receipt, lock, built, pc, meta, cand>>

(* The user commits to the published branch, or deletes it.                  *)
EditBranch ==
  /\ UserEdits
  /\ branch # None
  /\ branch' \in {None, UserCommit} \ {branch}
  /\ UNCHANGED <<files, onBase, receipt, lock, built, pc, meta, cand>>

Apply(p) ==
  \/ ReadRun(p) \/ Lock(p) \/ LockBusy(p) \/ Inspect(p)
  \/ Approve(p) \/ CheckBase(p) \/ Build(p) \/ Prepare(p) \/ Validate(p)
  \/ Promote(p) \/ PromoteRefused(p) \/ FinishLog(p) \/ FinishRun(p)

Preview(p) ==
  \/ ReadForPreview(p) \/ PreviewFails(p) \/ WritePatch(p)
  \/ WriteValidation(p) \/ FinishPreview(p)

Next ==
  \/ \E p \in Proc : Apply(p) \/ Preview(p) \/ Stop(p)
  \/ MoveBase
  \/ EditBranch

Spec == Init /\ [][Next]_vars

(* The operator repeats the command, and it is not stopped every time.       *)
Fairness ==
  \A p \in Proc :
    /\ WF_vars(ReadRun(p))
    /\ SF_vars(Lock(p))
    /\ SF_vars(Inspect(p))
    /\ SF_vars(FinishLog(p))
    /\ SF_vars(FinishRun(p))

FairSpec == Spec /\ Fairness

-----------------------------------------------------------------------------

(* The types of the run's files, the refs and the processes' variables; a    *)
(* process has the lock exactly while it is in the locked part.              *)
TypeOK ==
  /\ run \in Run
  /\ patch \in Patch \cup {None}
  /\ validation \in Evidence
  /\ wal \in Log
  /\ lock \in Proc \cup {None}
  /\ onBase \in BOOLEAN
  /\ branch \in Built \cup {UserCommit, None}
  /\ receipt \in Built \cup {None}
  /\ built \in 0 .. MaxBuilds
  /\ pc \in [Proc -> {"idle", "read", "locked", "fresh", "approved", "checked",
                      "built", "prepared", "authorized", "finishing", "logged",
                      "previewing", "patched", "evaluated"}]
  /\ meta \in [Proc -> Run \cup {None}]
  /\ cand \in [Proc -> Built \cup {None}]
  /\ \A p \in Proc : /\ lock = p <=> Applying(p) /\ pc[p] # "read"
                     /\ pc[p] # "idle" => meta[p] \in Run

(* The log names what was published: no crash, failure or second attempt     *)
(* leaves a receipt whose commit apply.json does not name.                   *)
LogMatchesReceipt ==
  receipt # None => wal.commit = receipt

(* A run is marked applied only once its receipt exists.                     *)
AppliedIsPublished ==
  run.status = "applied" => receipt # None

(* Refs appear together, while the base branch is at the commit the          *)
(* candidate was built on.                                                   *)
PublishedOnLiveBase ==
  [][receipt' # receipt => onBase /\ branch = None /\ branch' = receipt']_vars

(* The promotion of a run is a publication.                                  *)
Abstract == INSTANCE Publication WITH
  Candidate <- Built,
  published <- receipt,
  applied <- wal.state = "applied"

IsPublication == Abstract!Spec

(* A published run is finished by a later attempt if its own was stopped.    *)
PublishedIsFinished ==
  (receipt # None) ~> (run.status = "applied")

=============================================================================
