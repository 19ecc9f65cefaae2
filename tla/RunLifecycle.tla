----------------------------- MODULE RunLifecycle -----------------------------
(***************************************************************************)
(* The run directory and the commands that fill it (orchestrator/commands  *)
(* scan, plan, preview and, in outline, apply; orchestrator/workspace.py). *)
(*                                                                         *)
(* The commands hand a run on to each other through files.  Each reads     *)
(* run.json when it starts, writes its artifacts one by one, and run.json  *)
(* from its memory when it is over; a write replaces the file or, if the   *)
(* process dies, does not.  The operator gives one command after another,  *)
(* in any order, also to a run that failed or was applied.  (Previews that *)
(* race with applies are the subject of CandidatePromotion.)               *)
(***************************************************************************)
EXTENDS Naturals, Sequences, FiniteSets

CONSTANTS
  Patch,        \* contents of patch.diff
  None,         \* no content
  MaxCommands   \* bound on the commands given

ASSUME LifecycleAssumption == MaxCommands \in Nat /\ None \notin Patch

VARIABLES
  run,         \* run.json
  findings,    \* is there a findings.json?  a scan's, which has no analysis
  plan,        \* is there a plan.json?
  patch,       \* patch.diff
  validation,  \* validation.json: what was validated, and the outcome
  pc,          \* where the command that runs is
  mem,         \* run_metadata: run.json as the command read and changed it
  outcome,     \* validator_output.overall_passed
  given,       \* number of commands given
  passed       \* history: the patches a validation approved

disk == <<run, findings, plan, patch, validation>>
command == <<pc, mem, outcome, given>>
lifecycle == <<disk, command, passed>>

-----------------------------------------------------------------------------

RunStatus == {"none", "scanned", "planned", "previewed", "validation_failed",
              "failed", "applied"}

RunJson == [status : RunStatus, checksum : Patch \cup {None}]

NoRun == [status |-> "none", checksum |-> None]

Validation == [of : Patch, ok : BOOLEAN]

RunInit ==
  /\ run = NoRun
  /\ findings = FALSE /\ plan = FALSE
  /\ patch = None /\ validation = None
  /\ pc = "idle" /\ mem = NoRun /\ outcome = FALSE
  /\ given = 0
  /\ passed = {}

(* A command begins by reading run.json.                                     *)
Give(place) ==
  /\ pc = "idle" /\ given < MaxCommands
  /\ given' = given + 1
  /\ pc' = place
  /\ mem' = run
  /\ UNCHANGED <<disk, outcome, passed>>

Goto(place) == pc' = place /\ UNCHANGED <<mem, given>>

(* The command is over; its memory is gone.                                  *)
Quit == /\ pc' = "idle" /\ mem' = NoRun /\ outcome' = FALSE
        /\ UNCHANGED given

(* A check fails before anything is written, a write raises, or the process  *)
(* dies.                                                                     *)
Leave ==
  /\ pc # "idle"
  /\ Quit
  /\ UNCHANGED <<disk, passed>>

(* run_metadata.status = "failed", written over what is there now.           *)
WriteFailed ==
  /\ run' = [mem EXCEPT !.status = "failed"]
  /\ Quit
  /\ UNCHANGED <<findings, plan, patch, validation, passed>>

-----------------------------------------------------------------------------

(* A scan makes a run of its own.                                            *)
Scan == run = NoRun /\ Give("scan")

ScanFails == pc = "scan" /\ WriteFailed

WriteScanned ==
  /\ pc = "scan"
  /\ run' = [mem EXCEPT !.status = "scanned"]
  /\ Goto("findings")
  /\ UNCHANGED <<findings, plan, patch, validation, outcome, passed>>

WriteFindings ==
  /\ pc = "findings"
  /\ findings' = TRUE
  /\ Quit
  /\ UNCHANGED <<run, plan, patch, validation, passed>>

(* ensure_run_exists                                                         *)
Exists == run # NoRun

Plan == Exists /\ (Give("plan") \/ Give("plan from findings"))

(* What a scan finds is no input of the architect.                           *)
NoAnalysis == pc = "plan from findings" /\ findings /\ WriteFailed

(* The architect raises, a gate blocks the plan, or its context cannot be    *)
(* captured after plan.json was written.                                     *)
PlanFails == pc \in {"plan", "plan.json"} /\ WriteFailed

WritePlan ==
  /\ pc = "plan"
  /\ plan' = TRUE
  /\ Goto("plan.json")
  /\ UNCHANGED <<run, findings, patch, validation, outcome, passed>>

FinishPlan ==
  /\ pc = "plan.json"
  /\ run' = [mem EXCEPT !.status = "planned"]
  /\ Quit
  /\ UNCHANGED <<findings, plan, patch, validation, passed>>

-----------------------------------------------------------------------------

Preview == Exists /\ Give("preview")

(* The staging directory cannot be emptied, the executor raises, the patch   *)
(* gate blocks, or the validator raises.                                     *)
PreviewFails == plan /\ pc \in {"preview", "patch.diff"} /\ WriteFailed

(* Without a diff the artifacts of an earlier preview go first.              *)
DropPatch ==
  /\ pc = "preview" /\ plan
  /\ patch' = None
  /\ Goto("empty")
  /\ UNCHANGED <<run, findings, plan, validation, outcome, passed>>

DropValidation ==
  /\ pc = "empty"
  /\ validation' = None
  /\ Goto("emptied")
  /\ UNCHANGED <<run, findings, plan, patch, outcome, passed>>

EmptyFails == pc = "emptied" /\ WriteFailed

WritePatch ==
  /\ pc = "preview" /\ plan
  /\ \E x \in Patch : patch' = x /\ mem' = [mem EXCEPT !.checksum = x]
  /\ pc' = "patch.diff"
  /\ UNCHANGED <<run, findings, plan, validation, outcome, given, passed>>

(* The copy is patched with patch.diff as it is on disk.                     *)
Validate ==
  /\ pc = "patch.diff"
  /\ \E ok \in BOOLEAN :
       /\ outcome' = ok
       /\ passed' = IF ok THEN passed \cup {patch} ELSE passed
  /\ Goto("validated")
  /\ UNCHANGED disk

WriteValidation ==
  /\ pc = "validated"
  /\ validation' = [of |-> patch, ok |-> outcome]
  /\ Goto("validation.json")
  /\ UNCHANGED <<run, findings, plan, patch, outcome, passed>>

(* Seeded fault: run.json is given the validator's word.                     *)
RawVerdicts == IF outcome THEN {"approved", "validation_failed"} ELSE {"validation_failed"}

(* Errors of the executor spoil a validation that passed.                    *)
Verdicts == IF outcome THEN {"previewed", "validation_failed"} ELSE {"validation_failed"}

(* Seeded fault: the checksum of the run is not renewed.                     *)
OldChecksum ==
  /\ pc = "validation.json"
  /\ \E v \in Verdicts :
       run' = [mem EXCEPT !.status = v,
                          !.checksum = IF run.checksum = None THEN @ ELSE run.checksum]
  /\ Quit
  /\ UNCHANGED <<findings, plan, patch, validation, passed>>

FinishPreview ==
  /\ pc = "validation.json"
  /\ \E v \in Verdicts : run' = [mem EXCEPT !.status = v]
  /\ Quit
  /\ UNCHANGED <<findings, plan, patch, validation, passed>>

-----------------------------------------------------------------------------

(* apply, of which CandidatePromotion has the details: only a previewed run  *)
(* with its patch; run.json is written back, then validation.json about the  *)
(* candidate commit.                                                         *)
Apply == run.status = "previewed" /\ patch = run.checksum /\ Give("apply")

WriteApproval ==
  /\ pc = "apply"
  /\ run' = mem
  /\ Goto("candidate")
  /\ UNCHANGED <<findings, plan, patch, validation, outcome, passed>>

ValidateCandidate ==
  /\ pc = "candidate"
  /\ \E ok \in BOOLEAN :
       /\ validation' = [of |-> patch, ok |-> ok]
       /\ IF ok THEN Goto("promoted") /\ UNCHANGED outcome ELSE Quit
  /\ UNCHANGED <<run, findings, plan, patch, passed>>

FinishApply ==
  /\ pc = "promoted"
  /\ run' = [mem EXCEPT !.status = "applied"]
  /\ Quit
  /\ UNCHANGED <<findings, plan, patch, validation, passed>>

Commands == Scan \/ Plan \/ Preview \/ Apply
Steps == ScanFails \/ WriteScanned \/ WriteFindings
         \/ NoAnalysis \/ PlanFails \/ WritePlan \/ FinishPlan
         \/ PreviewFails \/ DropPatch \/ DropValidation \/ EmptyFails \/ WritePatch
         \/ Validate \/ WriteValidation \/ FinishPreview
         \/ WriteApproval \/ ValidateCandidate \/ FinishApply

RunNext == Commands \/ Steps \/ Leave

-----------------------------------------------------------------------------

(* The types of the run directory and of the command at work on it.          *)
RunTypeOK ==
  /\ run \in RunJson /\ mem \in RunJson
  /\ findings \in BOOLEAN /\ plan \in BOOLEAN
  /\ patch \in Patch \cup {None}
  /\ validation \in Validation \cup {None}
  /\ pc \in {"idle", "scan", "findings", "plan", "plan from findings", "plan.json",
             "preview", "empty", "emptied", "patch.diff", "validated",
             "validation.json", "apply", "candidate", "promoted"}
  /\ outcome \in BOOLEAN
  /\ given \in 0 .. MaxCommands
  /\ passed \subseteq Patch

(* Wherever commands were cut off and in whatever order they were given: a   *)
(* run that says it is previewed or applied names a patch that was validated *)
(* and approved, and was never left with the checksum of one preview and the *)
(* verdict of another; and its plan exists.                                  *)
PreviewedIsValidated ==
  run.status \in {"previewed", "applied"} => run.checksum \in passed /\ plan

=============================================================================
