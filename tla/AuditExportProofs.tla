--------------------------- MODULE AuditExportProofs ---------------------------
(***************************************************************************)
(* What holds of a run directory and of the bundles made of it for every   *)
(* number of commands and exports, wherever they are cut off.              *)
(*                                                                         *)
(* The invariant has a part for each side: RunInv says what a command      *)
(* remembers between two of its writes, ExportInv what an export has read  *)
(* so far.                                                                 *)
(***************************************************************************)
EXTENDS AuditExport, TLAPS

USE LifecycleAssumption DEF LifecycleAssumption

(* apply works on a previewed run, and keeps its checksum.                   *)
Applying == {"apply", "candidate", "promoted"}

(* preview has written a patch and named it in the run it holds.             *)
Patched == {"patch.diff", "validated", "validation.json"}

RunInv ==
  /\ RunTypeOK
  /\ PreviewedIsValidated
  /\ pc \in Applying =>
       /\ mem.status = "previewed" /\ mem.checksum \in passed /\ plan
       /\ patch = mem.checksum
  /\ pc \in Patched => plan /\ patch \in Patch /\ mem.checksum = patch
  /\ pc \in {"validated", "validation.json"} /\ outcome => patch \in passed

(* A run is written with another status, and the same checksum.              *)
LEMMA StatusOnly ==
  ASSUME NEW r \in RunJson, NEW status \in RunStatus
  PROVE  LET w == [r EXCEPT !.status = status]
         IN  w \in RunJson /\ w.status = status /\ w.checksum = r.checksum
BY DEF RunJson

LEMMA NoRunTypes == NoRun \in RunJson /\ NoRun.status = "none"
BY DEF NoRun, RunJson, RunStatus

LEMMA RunBegins == RunInit => RunInv
<1> SUFFICES ASSUME RunInit PROVE RunInv
  OBVIOUS
<1>1. findings \in BOOLEAN /\ plan \in BOOLEAN /\ outcome \in BOOLEAN
  BY DEF RunInit
<1>2. run \in RunJson /\ mem \in RunJson /\ passed \subseteq Patch /\ given \in 0 .. MaxCommands
  BY NoRunTypes DEF RunInit
<1>3. RunTypeOK
  BY <1>1, <1>2 DEF RunInit, RunTypeOK
<1> QED
  BY <1>3, NoRunTypes DEF RunInit, RunInv, PreviewedIsValidated, Applying, Patched

(* The count of the commands stays within its bound.                         *)
LEMMA OneMore ==
  ASSUME given \in 0 .. MaxCommands, given < MaxCommands, given' = given + 1
  PROVE  given' \in 0 .. MaxCommands
OBVIOUS

(* A command that starts finds what the last one left.                       *)
LEMMA CommandsKeep == RunInv /\ Commands => RunInv'
<1> SUFFICES ASSUME RunInv, Commands PROVE RunInv'
  OBVIOUS
<1>1. PICK place \in {"scan", "plan", "plan from findings", "preview", "apply"} :
             /\ Give(place)
             /\ place = "apply" => run.status = "previewed" /\ patch = run.checksum
  BY DEF Commands, Scan, Plan, Preview, Apply
<1>2. UNCHANGED <<run, findings, plan, patch, validation, outcome, passed>>
  BY <1>1 DEF Give, disk
<1>3. pc' = place /\ mem' = run
  BY <1>1 DEF Give
<1>4. given' \in 0 .. MaxCommands
  <2>1. given' = given + 1 /\ given < MaxCommands
    BY <1>1 DEF Give
  <2>2. given \in 0 .. MaxCommands
    BY DEF RunInv, RunTypeOK
  <2> QED
    BY <2>1, <2>2, OneMore
<1>5. RunTypeOK'
  <2>1. mem' \in RunJson
    BY <1>3 DEF RunInv, RunTypeOK
  <2> QED
    BY <1>1, <1>2, <1>3, <1>4, <2>1 DEF RunInv, RunTypeOK
<1>6. pc' \notin Patched /\ (pc' \in Applying => place = "apply")
  BY <1>1, <1>3 DEF Patched, Applying
<1>7. pc' \in Applying => /\ mem'.status = "previewed" /\ mem'.checksum \in passed'
                          /\ plan' /\ patch' = mem'.checksum
  BY <1>1, <1>2, <1>3, <1>6 DEF RunInv, PreviewedIsValidated
<1>8. PreviewedIsValidated'
  BY <1>2 DEF RunInv, PreviewedIsValidated
<1> QED
  BY <1>5, <1>6, <1>7, <1>8 DEF RunInv, Patched

(* A command that fails leaves a failed run, or the one that was there.      *)
LEMMA FailuresKeep == RunInv /\ (WriteFailed \/ Leave) => RunInv'
<1> SUFFICES ASSUME RunInv, WriteFailed \/ Leave PROVE RunInv'
  OBVIOUS
<1>1. pc' = "idle" /\ mem' = NoRun /\ outcome' = FALSE
      /\ UNCHANGED <<findings, plan, patch, validation, given, passed>>
  BY DEF WriteFailed, Leave, Quit, disk
<1>2. run' = run \/ run' = [mem EXCEPT !.status = "failed"]
  BY DEF WriteFailed, Leave, disk
<1>3. run' \in RunJson /\ (run' = run \/ run'.status = "failed")
  <2>1. run \in RunJson /\ mem \in RunJson /\ "failed" \in RunStatus
    BY DEF RunInv, RunTypeOK, RunStatus
  <2>2. CASE run' = run
    BY <2>1, <2>2
  <2>3. CASE run' = [mem EXCEPT !.status = "failed"]
    BY <2>1, <2>3, StatusOnly
  <2> QED
    BY <1>2, <2>2, <2>3
<1>4. RunTypeOK'
  BY <1>1, <1>3, NoRunTypes DEF RunInv, RunTypeOK
<1>5. PreviewedIsValidated'
  BY <1>1, <1>3 DEF RunInv, PreviewedIsValidated
<1> QED
  BY <1>1, <1>4, <1>5 DEF RunInv, Applying, Patched

(* A command writes run.json as its last step.                               *)
LEMMA LastWrites ==
  ASSUME RunInv, Quit, NEW status \in RunStatus, run' = [mem EXCEPT !.status = status],
         UNCHANGED <<findings, plan, patch, validation, passed>>,
         status \in {"previewed", "applied"} => mem.checksum \in passed /\ plan
  PROVE  RunInv'
<1>1. run' \in RunJson /\ run'.status = status /\ run'.checksum = mem.checksum
  BY StatusOnly DEF RunInv, RunTypeOK
<1>2. RunTypeOK'
  BY <1>1, NoRunTypes DEF RunInv, RunTypeOK, Quit
<1>3. PreviewedIsValidated'
  BY <1>1 DEF PreviewedIsValidated
<1> QED
  BY <1>2, <1>3 DEF RunInv, Quit, Applying, Patched

LEMMA StepsKeep == RunInv /\ Steps => RunInv'
<1> SUFFICES ASSUME RunInv, Steps PROVE RunInv'
  OBVIOUS
<1>1. CASE ScanFails \/ NoAnalysis \/ PlanFails \/ PreviewFails \/ EmptyFails
  BY <1>1, FailuresKeep DEF ScanFails, NoAnalysis, PlanFails, PreviewFails, EmptyFails
<1>2. CASE WriteScanned
  <2>1. run' \in RunJson /\ run'.status = "scanned"
    BY <1>2, StatusOnly DEF WriteScanned, RunInv, RunTypeOK, RunStatus
  <2>2. RunTypeOK'
    BY <1>2, <2>1 DEF WriteScanned, Goto, RunInv, RunTypeOK
  <2> QED
    BY <1>2, <2>1, <2>2 DEF WriteScanned, Goto, RunInv, PreviewedIsValidated, Applying, Patched
<1>3. CASE WriteFindings \/ DropPatch \/ DropValidation
  <2>1. RunTypeOK'
    BY <1>3, NoRunTypes
    DEF WriteFindings, DropPatch, DropValidation, Goto, Quit, RunInv, RunTypeOK
  <2>2. PreviewedIsValidated'
    BY <1>3 DEF WriteFindings, DropPatch, DropValidation, RunInv, PreviewedIsValidated
  <2> QED
    BY <1>3, <2>1, <2>2
    DEF WriteFindings, DropPatch, DropValidation, Goto, Quit, RunInv, Applying, Patched
<1>4. CASE WritePlan
  <2>1. RunTypeOK'
    BY <1>4 DEF WritePlan, Goto, RunInv, RunTypeOK
  <2> QED
    BY <1>4, <2>1 DEF WritePlan, Goto, RunInv, PreviewedIsValidated, Applying, Patched
<1>5. CASE FinishPlan
  BY <1>5, LastWrites DEF FinishPlan, RunStatus
<1>6. CASE WritePatch
  <2>1. PICK x \in Patch : patch' = x /\ mem' = [mem EXCEPT !.checksum = x]
    BY <1>6 DEF WritePatch
  <2>2. mem' \in RunJson /\ mem'.checksum = x
    BY <2>1 DEF RunInv, RunTypeOK, RunJson
  <2>3. RunTypeOK'
    BY <1>6, <2>1, <2>2 DEF WritePatch, RunInv, RunTypeOK
  <2> QED
    BY <1>6, <2>1, <2>2, <2>3
    DEF WritePatch, RunInv, PreviewedIsValidated, Applying, Patched
<1>7. CASE Validate
  <2>1. patch \in Patch /\ plan /\ mem.checksum = patch
    BY <1>7 DEF Validate, RunInv, Patched
  <2>2. RunTypeOK'
    BY <1>7, <2>1 DEF Validate, Goto, disk, RunInv, RunTypeOK
  <2>3. passed \subseteq passed'
    BY <1>7 DEF Validate
  <2> QED
    BY <1>7, <2>1, <2>2, <2>3
    DEF Validate, Goto, disk, RunInv, PreviewedIsValidated, Applying, Patched
<1>8. CASE WriteValidation
  <2>1. patch \in Patch /\ plan /\ mem.checksum = patch
    BY <1>8 DEF WriteValidation, RunInv, Patched
  <2>2. validation' \in Validation
    BY <1>8, <2>1 DEF WriteValidation, Validation, RunInv, RunTypeOK
  <2>3. RunTypeOK'
    BY <1>8, <2>2 DEF WriteValidation, Goto, RunInv, RunTypeOK
  <2> QED
    BY <1>8, <2>1, <2>3
    DEF WriteValidation, Goto, RunInv, PreviewedIsValidated, Applying, Patched
<1>9. CASE FinishPreview
  <2>1. PICK v \in Verdicts : run' = [mem EXCEPT !.status = v]
    BY <1>9 DEF FinishPreview
  <2>2. v \in RunStatus /\ v # "applied" /\ (v = "previewed" => outcome)
    BY <2>1 DEF Verdicts, RunStatus
  <2>3. v = "previewed" => mem.checksum \in passed /\ plan
    BY <1>9, <2>2 DEF FinishPreview, RunInv, Patched
  <2> QED
    BY <1>9, <2>1, <2>2, <2>3, LastWrites DEF FinishPreview
<1>10. CASE WriteApproval
  <2>1. RunTypeOK'
    BY <1>10 DEF WriteApproval, Goto, RunInv, RunTypeOK
  <2> QED
    BY <1>10, <2>1 DEF WriteApproval, Goto, RunInv, PreviewedIsValidated, Applying, Patched
<1>11. CASE ValidateCandidate
  <2>1. patch \in Patch
    BY <1>11 DEF ValidateCandidate, RunInv, RunTypeOK, Applying
  <2>2. validation' \in Validation
    BY <1>11, <2>1 DEF ValidateCandidate, Validation
  <2>3. UNCHANGED <<run, findings, plan, patch, passed, given>>
        /\ ((Goto("promoted") /\ UNCHANGED outcome) \/ Quit)
    BY <1>11 DEF ValidateCandidate, Goto, Quit
  <2>4. RunTypeOK'
    BY <2>2, <2>3, NoRunTypes DEF Goto, Quit, RunInv, RunTypeOK
  <2>5. PreviewedIsValidated'
    BY <2>3 DEF RunInv, PreviewedIsValidated
  <2> QED
    BY <1>11, <2>3, <2>4, <2>5 DEF ValidateCandidate, Goto, Quit, RunInv, Applying, Patched
<1>12. CASE FinishApply
  <2>1. mem.checksum \in passed /\ plan
    BY <1>12 DEF FinishApply, RunInv, Applying
  <2> QED
    BY <1>12, <2>1, LastWrites DEF FinishApply, RunStatus
<1> QED
  BY <1>1, <1>2, <1>3, <1>4, <1>5, <1>6, <1>7, <1>8, <1>9, <1>10, <1>11, <1>12 DEF Steps

LEMMA RunGoesOn == RunInv /\ (RunNext \/ UNCHANGED lifecycle) => RunInv'
<1>1. RunInv /\ UNCHANGED lifecycle => RunInv'
  <2> SUFFICES ASSUME RunInv, UNCHANGED lifecycle PROVE RunInv'
    OBVIOUS
  <2>1. UNCHANGED <<run, findings, plan, patch, validation, pc, mem, outcome, given, passed>>
    BY DEF lifecycle, disk, command
  <2> QED
    BY <2>1 DEF RunInv, RunTypeOK, PreviewedIsValidated
<1> QED
  BY <1>1, CommandsKeep, StepsKeep, FailuresKeep DEF RunNext

-----------------------------------------------------------------------------

USE ExportAssumption DEF ExportAssumption

(* The run.json an export has in its memory is one that was on disk.         *)
RunRead(x) == x.bytes["run.json"] \in ArchivedRun /\ x.bytes["run.json"].sensitive = "plain"

(* What an export has read so far.                                           *)
Reading(x) ==
  /\ x.hashes = x.bytes
  /\ x.pc \in {"out", "locked", "check"} => x.hashes = Nothing
  /\ x.pc = "read" => 3 \in x.todo \/ RunRead(x)
  /\ x.pc = "pack" => RunRead(x)
  /\ x.pc \in {"read", "pack"} /\ x.opt.redact => 1 \notin x.todo /\ x.hashes[EventLog] = Unread

ExportTypeOK ==
  /\ id \in [Exporter -> Worker \cup Exporter \cup {None}]
  /\ lock \in Exporter \cup {None}
  /\ expired \subseteq Exporter
  /\ ex \in [Exporter -> Local]
  /\ bundle \in Bundle \cup {None}

(* An export has an id from the time it takes the lock.                      *)
Named ==
  \A e \in Exporter : /\ ex[e].pc = "out" => id[e] = None
                      /\ Holding(e) => id[e] # None

ExportInv ==
  /\ ExportTypeOK
  /\ Named
  /\ \A e \in Exporter : Reading(ex[e])
  /\ LeaseHolds
  /\ BundleIsTrue

LEMMA Files ==
  /\ DOMAIN Members = 1 .. 3
  /\ Members[1] = EventLog /\ Members[2] = "patch.diff" /\ Members[3] = "run.json"
  /\ Name = {EventLog, "patch.diff", "run.json"}
<1>1. /\ DOMAIN Members = 1 .. 3
      /\ Members[1] = EventLog /\ Members[2] = "patch.diff" /\ Members[3] = "run.json"
  BY DEF Members
<1>2. 1 .. 3 = {1, 2, 3}
  OBVIOUS
<1> QED
  BY <1>1, <1>2 DEF Name

(* An export that has not begun, or is over, holds nothing.                  *)
LEMMA Outside ==
  ASSUME NEW place \in {"out", "over"}
  PROVE  LET x == [NoExport EXCEPT !.pc = place] IN x \in Local /\ Reading(x)
<1> DEFINE o == CHOOSE o \in Options : TRUE
<1>1. o \in Options
  OBVIOUS
<1>2. Nothing \in Archive
  BY DEF Nothing, Archive
<1>3. NoExport = [pc |-> "out", opt |-> o, todo |-> {},
                  hashes |-> Nothing, bytes |-> Nothing]
  BY DEF NoExport
<1> HIDE DEF o
<1>4. [NoExport EXCEPT !.pc = place] =
        [pc |-> place, opt |-> o, todo |-> {}, hashes |-> Nothing, bytes |-> Nothing]
  BY <1>3
<1> QED
  BY <1>1, <1>2, <1>4 DEF Local, Reading

LEMMA ExportsBegin == Init => ExportInv
<1> SUFFICES ASSUME Init PROVE ExportInv
  OBVIOUS
<1>1. NoExport = [NoExport EXCEPT !.pc = "out"] /\ NoExport.pc = "out"
  BY DEF NoExport
<1>2. NoExport \in Local /\ Reading(NoExport)
  BY <1>1, Outside
<1>3. ex = [e \in Exporter |-> NoExport] /\ lock = None /\ expired = {} /\ bundle = None
      /\ id = [e \in Exporter |-> None]
  BY DEF Init
<1> QED
  BY <1>1, <1>2, <1>3 DEF ExportInv, ExportTypeOK, Named, LeaseHolds, Holding, BundleIsTrue

(* A step of one export leaves the others alone.                             *)
LEMMA OneExport ==
  ASSUME ExportInv, NEW e \in Exporter, NEW x \in Local, Reading(x),
         ex' = [ex EXCEPT ![e] = x]
  PROVE  /\ ex' \in [Exporter -> Local]
         /\ \A q \in Exporter : Reading(ex'[q])
         /\ ex'[e] = x
         /\ \A q \in Exporter : q # e => ex'[q] = ex[q] /\ (Holding(q)' <=> Holding(q))
<1>1. /\ ex' \in [Exporter -> Local]
      /\ ex'[e] = x
      /\ \A q \in Exporter : q # e => ex'[q] = ex[q]
  BY DEF ExportInv, ExportTypeOK
<1>2. \A q \in Exporter : Reading(ex'[q])
  BY <1>1 DEF ExportInv
<1>3. \A q \in Exporter : q # e => (Holding(q)' <=> Holding(q))
  BY <1>1 DEF Holding
<1> QED
  BY <1>1, <1>2, <1>3

(* An export that does not take the lock, and does not let go of it, does    *)
(* not disturb it.                                                           *)
LEMMA LockUntouched ==
  ASSUME ExportInv, NEW e \in Exporter, NEW x \in Local, Reading(x), x.pc # "out",
         ex' = [ex EXCEPT ![e] = x], UNCHANGED <<id, lock, expired, bundle>>,
         Holding(e)' => Holding(e)
  PROVE  ExportInv'
<1>1. /\ ex' \in [Exporter -> Local] /\ ex'[e] = x
      /\ \A q \in Exporter : Reading(ex'[q])
      /\ \A q \in Exporter : q # e => ex'[q] = ex[q] /\ (Holding(q)' <=> Holding(q))
  BY OneExport
<1>2. LeaseHolds'
  BY <1>1 DEF ExportInv, LeaseHolds, Alone
<1>3. BundleIsTrue'
  BY DEF ExportInv, BundleIsTrue
<1>4. Named'
  BY <1>1 DEF ExportInv, Named
<1> QED
  BY <1>1, <1>2, <1>3, <1>4 DEF ExportInv, ExportTypeOK

(* The lock goes when its holder stops reading, and with it that of another  *)
(* export with the same id.                                                  *)
LEMMA LockReleased ==
  ASSUME ExportInv, NEW e \in Exporter, NEW x \in Local, Reading(x),
         x.pc \in {"over", "pack"}, ex' = [ex EXCEPT ![e] = x], UNCHANGED <<id, bundle>>,
         LetGo(e)
  PROVE  ExportInv'
<1>1. /\ ex' \in [Exporter -> Local] /\ ex'[e] = x
      /\ \A q \in Exporter : Reading(ex'[q])
      /\ \A q \in Exporter : q # e => ex'[q] = ex[q] /\ (Holding(q)' <=> Holding(q))
  BY OneExport
<1>2. ~Holding(e)'
  BY <1>1 DEF Holding
<1>3. /\ lock' = lock \/ (lock # None /\ id[lock] = id[e] /\ lock' = None)
      /\ expired' = expired \/ expired' = expired \ {e}
  BY DEF LetGo, ReleaseRow
<1>4. LeaseHolds'
  <2> SUFFICES ASSUME NEW q \in Exporter, Holding(q)', q \notin expired', Alone(q)'
               PROVE  lock' = q
    BY DEF LeaseHolds
  <2>1. q # e /\ Holding(q) /\ q \notin expired
    BY <1>1, <1>2, <1>3
  <2>2. Alone(q)
    BY DEF Alone
  <2>3. lock = q
    BY <2>1, <2>2 DEF ExportInv, LeaseHolds
  <2>4. id[e] # id[q]
    BY <2>1, <2>2 DEF Alone
  <2> QED
    BY <1>3, <2>3, <2>4
<1>5. BundleIsTrue'
  BY DEF ExportInv, BundleIsTrue
<1>6. Named'
  BY <1>1, <1>2 DEF ExportInv, Named
<1> QED
  BY <1>1, <1>3, <1>4, <1>5, <1>6 DEF ExportInv, ExportTypeOK

LEMMA Ends ==
  ASSUME ExportInv, NEW e \in Exporter, Over(e), UNCHANGED id
  PROVE  ExportInv'
<1> DEFINE x == [NoExport EXCEPT !.pc = "over"]
<1>1. x \in Local /\ Reading(x)
  BY Outside
<1>2. x.pc = "over"
  BY DEF NoExport
<1>3. ex' = [ex EXCEPT ![e] = x] /\ UNCHANGED bundle /\ LetGo(e)
  BY DEF Over
<1> HIDE DEF x
<1> QED
  BY <1>1, <1>2, <1>3, LockReleased

(* What an export reads is what is there, of the type of the file.           *)
LEMMA Contents ==
  ASSUME RunTypeOK, NEW name \in OnDisk
  PROVE  /\ Content(name) \in ArchivedRun \cup ArchivedOther \cup {None}
         /\ name = "run.json" => Content(name) \in ArchivedRun
                                 /\ Content(name).sensitive = "plain"
<1>1. Archived(run, "plain") \in ArchivedRun /\ Archived(run, "plain").sensitive = "plain"
  BY DEF Archived, ArchivedRun, RunTypeOK, RunJson
<1>2. name \in {"run.json", EventLog, "patch.diff"}
  BY DEF OnDisk
<1>3. CASE name = "run.json"
  BY <1>1, <1>3 DEF Content
<1>4. CASE name = "patch.diff"
  BY <1>4 DEF Content, ArchivedOther
<1>5. CASE name = EventLog
  BY <1>5 DEF Content, EventLog
<1> QED
  BY <1>2, <1>3, <1>4, <1>5

(* Redaction replaces a field of run.json, in the bytes as in the hashes.    *)
LEMMA Redaction ==
  ASSUME NEW e \in Exporter, NEW f \in Archive, f["run.json"] \in ArchivedRun,
         f["run.json"].sensitive = "plain"
  PROVE  LET g == Redacted(e, f)
             s == IF ex[e].opt.redact THEN "[REDACTED]" ELSE "plain"
         IN  /\ g \in Archive
             /\ g["run.json"] = Archived(f["run.json"], s)
             /\ g["run.json"] \in ArchivedRun
             /\ g["run.json"].sensitive = s
             /\ g[EventLog] = f[EventLog]
<1> DEFINE r == f["run.json"]
<1>1. "run.json" \in Name /\ EventLog \in Name /\ EventLog # "run.json"
  BY Files DEF EventLog
<1>2. \A s \in {"plain", "[REDACTED]"} :
        Archived(r, s) \in ArchivedRun /\ Archived(r, s).sensitive = s
  BY DEF Archived, ArchivedRun
<1>3. r = Archived(r, "plain") /\ [r EXCEPT !.sensitive = "[REDACTED]"] = Archived(r, "[REDACTED]")
  BY DEF Archived, ArchivedRun
<1>4. CASE ex[e].opt.redact
  <2>1. Redacted(e, f) = [f EXCEPT !["run.json"] = Archived(r, "[REDACTED]")]
    BY <1>3, <1>4 DEF Redacted
  <2> HIDE DEF r
  <2> QED
    BY <1>1, <1>2, <1>4, <2>1 DEF Archive, r
<1>5. CASE ~ex[e].opt.redact
  BY <1>1, <1>2, <1>3, <1>5 DEF Redacted
<1> QED
  BY <1>4, <1>5

LEMMA ExportsKeep ==
  ASSUME ExportInv, RunTypeOK, NEW e \in Exporter, Export(e)
  PROVE  ExportInv'
<1>0. ex[e] \in Local /\ Reading(ex[e]) /\ ex \in [Exporter -> Local]
  BY DEF ExportInv, ExportTypeOK
<1>1. CASE Begin(e)
  <2>1. PICK o \in Options : ~o.locking /\ Call(e, o, "check")
    BY <1>1 DEF Begin
  <2> DEFINE x == [ex[e] EXCEPT !.opt = o, !.pc = "check"]
  <2>2. x \in Local /\ x.hashes = ex[e].hashes /\ x.bytes = ex[e].bytes /\ x.opt = o
        /\ x.pc = "check"
    BY <1>0 DEF Local
  <2>3. Reading(x)
    BY <1>0, <1>1, <2>2 DEF Reading, Begin, At
  <2>4. ex' = [ex EXCEPT ![e] = x]
    BY <2>1 DEF Call
  <2> HIDE DEF x
  <2>5. ~Holding(e)'
    BY <1>0, <2>1, <2>2, <2>4 DEF Holding
  <2>6. UNCHANGED <<id, lock, expired, bundle>>
    BY <1>1 DEF Begin, At
  <2> QED
    BY <2>2, <2>3, <2>4, <2>5, <2>6, LockUntouched
<1>2. CASE Acquire(e)
  <2>1. PICK o \in Options : o.locking /\ Call(e, o, "locked")
    BY <1>2 DEF Acquire
  <2>2. PICK w \in Worker \cup {e} :
          /\ lock # None /\ lock \notin expired => id[lock] = w
          /\ id' = [id EXCEPT ![e] = w]
    BY <1>2 DEF Acquire
  <2> DEFINE x == [ex[e] EXCEPT !.opt = o, !.pc = "locked"]
  <2>3. ex[e].pc = "out" /\ lock' = e /\ UNCHANGED <<expired, bundle>>
    BY <1>2 DEF Acquire
  <2>4. x \in Local /\ Reading(x)
    BY <1>0, <2>3 DEF Local, Reading
  <2>5. ex' = [ex EXCEPT ![e] = x] /\ x.pc = "locked"
    BY <1>0, <2>1 DEF Call, Local
  <2> HIDE DEF x
  <2>6. /\ ex' \in [Exporter -> Local] /\ ex'[e] = x
        /\ \A q \in Exporter : Reading(ex'[q])
        /\ \A q \in Exporter : q # e => ex'[q] = ex[q] /\ (Holding(q)' <=> Holding(q))
    BY <2>4, <2>5, OneExport
  <2>7. /\ id' \in [Exporter -> Worker \cup Exporter \cup {None}]
        /\ id'[e] = w /\ w # None /\ id[e] = None
        /\ \A q \in Exporter : q # e => id'[q] = id[q]
    BY <2>2, <2>3 DEF ExportInv, ExportTypeOK, Named
  <2>8. Named'
    BY <2>5, <2>6, <2>7 DEF ExportInv, Named
  <2>9. LeaseHolds'
    <3> SUFFICES ASSUME NEW q \in Exporter, q # e, Holding(q)', q \notin expired', Alone(q)'
                 PROVE  FALSE
      BY <2>3 DEF LeaseHolds
    <3>1. Holding(q) /\ q \notin expired /\ id'[q] = id[q] /\ id[q] # None
      BY <2>3, <2>6, <2>7 DEF ExportInv, Named
    <3>2. w # id[q]
      BY <2>7, <3>1 DEF Alone
    <3>3. Alone(q)
      BY <2>7, <3>1 DEF Alone
    <3>4. lock = q
      BY <3>1, <3>3 DEF ExportInv, LeaseHolds
    <3> QED
      BY <2>2, <3>1, <3>2, <3>4
  <2>10. BundleIsTrue'
    BY <2>3 DEF ExportInv, BundleIsTrue
  <2> QED
    BY <2>3, <2>6, <2>7, <2>8, <2>9, <2>10 DEF ExportInv, ExportTypeOK
<1>3. CASE Turned(e) \/ RereadFails(e) \/ Refuse(e) \/ FileGone(e) \/ PublishFails(e)
  BY <1>3, Ends DEF Turned, RereadFails, Refuse, FileGone, PublishFails, At
<1>4. CASE Reread(e)
  <2> DEFINE x == [ex[e] EXCEPT !.pc = "check"]
  <2>1. /\ ex[e].pc = "locked" /\ ex' = [ex EXCEPT ![e] = x]
        /\ UNCHANGED <<id, lock, expired, bundle>>
    BY <1>4 DEF Reread, At, Proceed
  <2>2. x \in Local /\ Reading(x) /\ x.opt = ex[e].opt /\ x.pc = "check"
    BY <1>0, <2>1 DEF Local, Reading
  <2> HIDE DEF x
  <2>3. Holding(e)' => Holding(e)
    BY <1>0, <2>1, <2>2 DEF Holding
  <2> QED
    BY <2>1, <2>2, <2>3, LockUntouched
<1>5. CASE Collect(e)
  <2> DEFINE listed == OnDisk \ (IF ex[e].opt.redact THEN {EventLog} ELSE {})
             todo == {i \in DOMAIN Members : Members[i] \in listed}
             x == [ex[e] EXCEPT !.todo = todo, !.pc = "read"]
  <2>1. /\ ex[e].pc = "check" /\ ex' = [ex EXCEPT ![e] = x]
        /\ UNCHANGED <<id, lock, expired, bundle>>
    BY <1>5 DEF Collect, At
  <2>2. todo \subseteq 1 .. 3 /\ 3 \in todo /\ (ex[e].opt.redact => 1 \notin todo)
    BY Files DEF OnDisk, EventLog
  <2> HIDE DEF todo
  <2>3. x \in Local /\ x.opt = ex[e].opt /\ x.pc = "read" /\ x.todo = todo
        /\ x.hashes = ex[e].hashes /\ x.bytes = ex[e].bytes
    BY <1>0, <2>2 DEF Local
  <2>4. Nothing[EventLog] = Unread
    BY Files DEF Nothing
  <2>5. Reading(x)
    BY <1>0, <2>1, <2>2, <2>3, <2>4 DEF Reading
  <2> HIDE DEF x
  <2>6. Holding(e)' => Holding(e)
    BY <1>0, <2>1, <2>3 DEF Holding
  <2> QED
    BY <2>1, <2>3, <2>5, <2>6, LockUntouched
<1>6. CASE ReadFile(e)
  <2>1. PICK i \in DOMAIN Members :
          /\ IsNext(e, i) /\ Members[i] \in OnDisk
          /\ ex' = [ex EXCEPT ![e] = WithFile(ex[e], i)]
    BY <1>6 DEF ReadFile
  <2> DEFINE name == Members[i]
             text == Content(name)
             x == WithFile(ex[e], i)
  <2>2. /\ ex[e].pc = "read" /\ UNCHANGED <<id, lock, expired, bundle>>
        /\ ex' = [ex EXCEPT ![e] = x]
    BY <1>6, <2>1 DEF ReadFile, At
  <2>3. /\ text \in ArchivedRun \cup ArchivedOther \cup {None, Unread}
        /\ name = "run.json" => text \in ArchivedRun /\ text.sensitive = "plain"
    BY <2>1, Contents
  <2>4. i \in ex[e].todo
    BY <2>1 DEF IsNext
  <2>5. /\ name \in Name
        /\ name = "run.json" <=> i = 3
        /\ name = EventLog <=> i = 1
    BY <2>1, Files DEF EventLog
  <2> HIDE DEF name, text
  <2>6. /\ ex[e].hashes \in Archive /\ ex[e].bytes \in Archive
        /\ ex[e].hashes = ex[e].bytes
    BY <1>0 DEF Local, Reading
  <2> DEFINE read == [ex[e].bytes EXCEPT ![name] = text]
  <2>7. read \in Archive
    BY <2>3, <2>6 DEF Archive
  <2>8. x = [ex[e] EXCEPT !.todo = @ \ {i}, !.hashes = read, !.bytes = read]
    BY DEF WithFile, name, text
  <2> HIDE DEF read
  <2>9. x.todo = ex[e].todo \ {i} /\ x.hashes = read /\ x.bytes = read
        /\ x.opt = ex[e].opt /\ x.pc = ex[e].pc
    BY <1>0, <2>8 DEF Local
  <2> HIDE DEF x
  <2>10. /\ name \in Name => read[name] = text
         /\ \A n \in Name : n # name => read[n] = ex[e].bytes[n]
    BY <2>6 DEF read, Archive
  <2>11. 3 \in x.todo \/ RunRead(x)
    <3>1. CASE i = 3
      BY <2>3, <2>5, <2>9, <2>10, <3>1 DEF RunRead
    <3>2. CASE i # 3
      <4>1. x.bytes["run.json"] = ex[e].bytes["run.json"]
        BY <2>5, <2>9, <2>10, <3>2, Files
      <4> QED
        BY <1>0, <2>2, <2>9, <3>2, <4>1 DEF RunRead, Reading
    <3> QED
      BY <3>1, <3>2
  <2>12. x.opt.redact => 1 \notin x.todo /\ x.hashes[EventLog] = Unread
    <3>1. ex[e].opt.redact => 1 \notin ex[e].todo /\ ex[e].hashes[EventLog] = Unread
      BY <1>0, <2>2 DEF Reading
    <3>2. i # 1 => x.hashes[EventLog] = ex[e].hashes[EventLog]
      BY <2>5, <2>6, <2>9, <2>10, Files
    <3> QED
      BY <2>4, <2>9, <3>1, <3>2
  <2>13. Reading(x)
    BY <2>2, <2>9, <2>11, <2>12 DEF Reading
  <2>14. Holding(e)' => Holding(e)
    BY <1>0, <2>2, <2>9 DEF Holding
  <2>15. x \in Local
    BY <1>0, <2>7, <2>8 DEF Local
  <2> QED
    <3>1. x.pc # "out"
      BY <2>2, <2>9
    <3> QED
      BY <2>2, <2>13, <2>14, <2>15, <3>1, LockUntouched
<1>7. CASE Release(e)
  <2> DEFINE x == [ex[e] EXCEPT !.pc = "pack"]
  <2>1. /\ ex[e].pc = "read" /\ ex[e].todo = {} /\ ex' = [ex EXCEPT ![e] = x]
        /\ UNCHANGED <<id, bundle>> /\ LetGo(e)
    BY <1>7 DEF Release, At, Proceed
  <2>2. x \in Local /\ Reading(x) /\ x.pc = "pack"
    BY <1>0, <2>1 DEF Local, Reading, RunRead
  <2> HIDE DEF x
  <2> QED
    BY <2>1, <2>2, LockReleased
<1>8. CASE Publish(e)
  <2> DEFINE x == [NoExport EXCEPT !.pc = "over"]
             s == IF ex[e].opt.redact THEN "[REDACTED]" ELSE "plain"
             f == ex[e].bytes
             g == Redacted(e, f)
  <2>1. ex[e].pc = "pack" /\ ex' = [ex EXCEPT ![e] = x] /\ UNCHANGED <<id, lock, expired>>
    BY <1>8 DEF Publish, At
  <2>2. /\ ex[e].hashes = f /\ f \in Archive
        /\ f["run.json"] \in ArchivedRun /\ f["run.json"].sensitive = "plain"
        /\ ex[e].opt.redact => f[EventLog] = Unread
        /\ ex[e].opt.redact \in BOOLEAN /\ ex[e].opt.sign \in BOOLEAN
    <3>1. ex[e].opt \in Option
      BY <1>0 DEF Local
    <3> QED
      BY <1>0, <2>1, <3>1 DEF Reading, RunRead, Local, Option
  <2>3. /\ g \in Archive
        /\ g["run.json"] = Archived(f["run.json"], s)
        /\ g["run.json"] \in ArchivedRun
        /\ g["run.json"].sensitive = s
        /\ g[EventLog] = f[EventLog]
    BY <2>2, Redaction
  <2>4. bundle' = [hashes |-> g, bytes |-> g, meta |-> Archived(f["run.json"], s),
                   profile |-> IF ex[e].opt.redact THEN "redacted" ELSE "full",
                   omitted |-> IF ex[e].opt.redact THEN {EventLog} ELSE {},
                   signed |-> ex[e].opt.sign]
    BY <1>8, <2>2 DEF Publish, Hashes
  <2>5. x \in Local /\ Reading(x) /\ x.pc = "over"
    BY Outside DEF NoExport
  <2> HIDE DEF x, f, g
  <2>6. bundle' \in Bundle
    BY <2>2, <2>3, <2>4 DEF Bundle
  <2>7. BundleIsTrue'
    BY <2>2, <2>3, <2>4 DEF BundleIsTrue, Verifies
  <2>8. /\ ex' \in [Exporter -> Local] /\ ex'[e] = x
        /\ \A q \in Exporter : Reading(ex'[q])
        /\ \A q \in Exporter : q # e => ex'[q] = ex[q] /\ (Holding(q)' <=> Holding(q))
    BY <2>1, <2>5, OneExport
  <2>9. ~Holding(e)'
    BY <2>5, <2>8 DEF Holding
  <2>10. LeaseHolds'
    BY <2>1, <2>8, <2>9 DEF ExportInv, LeaseHolds, Alone
  <2>11. Named'
    BY <2>1, <2>5, <2>8, <2>9 DEF ExportInv, Named
  <2> QED
    BY <2>1, <2>6, <2>7, <2>8, <2>10, <2>11 DEF ExportInv, ExportTypeOK
<1>9. CASE Die(e)
  <2> DEFINE x == [NoExport EXCEPT !.pc = "over"]
  <2>1. ex' = [ex EXCEPT ![e] = x] /\ UNCHANGED <<id, lock, expired, bundle>>
    BY <1>9 DEF Die
  <2>2. x \in Local /\ Reading(x) /\ x.pc = "over"
    BY Outside DEF NoExport
  <2> HIDE DEF x
  <2>3. ~Holding(e)'
    BY <1>0, <2>1, <2>2 DEF Holding
  <2> QED
    BY <2>1, <2>2, <2>3, LockUntouched
<1> QED
  BY <1>1, <1>2, <1>3, <1>4, <1>5, <1>6, <1>7, <1>8, <1>9 DEF Export

(* The 300 seconds of a row run out.                                         *)
LEMMA ExpiryKeeps == ASSUME ExportInv, Expire PROVE ExportInv'
<1>1. /\ UNCHANGED <<id, lock, ex, bundle>> /\ lock \notin expired \cup {None}
      /\ expired' = expired \cup {lock}
  BY DEF Expire
<1>2. LeaseHolds'
  BY <1>1 DEF ExportInv, LeaseHolds, Holding, Alone
<1>3. BundleIsTrue'
  BY <1>1 DEF ExportInv, BundleIsTrue
<1>4. Named'
  BY <1>1 DEF ExportInv, Named, Holding
<1> QED
  BY <1>1, <1>2, <1>3, <1>4 DEF ExportInv, ExportTypeOK

LEMMA Stays == ExportInv /\ UNCHANGED <<id, lock, expired, ex, bundle>> => ExportInv'
BY DEF ExportInv, ExportTypeOK, Named, LeaseHolds, Holding, Alone, BundleIsTrue

Inv == RunInv /\ ExportInv

LEMMA InvInit == Init => Inv
BY RunBegins, ExportsBegin DEF Init, Inv

LEMMA InvStep == Inv /\ [Next]_vars => Inv'
<1> SUFFICES ASSUME Inv, [Next]_vars PROVE Inv'
  OBVIOUS
<1>1. RunInv /\ RunTypeOK /\ ExportInv
  BY DEF Inv, RunInv
<1>2. CASE RunNext /\ UNCHANGED <<id, lock, expired, ex, bundle>>
  BY <1>1, <1>2, RunGoesOn, Stays DEF Inv
<1>3. CASE \E e \in Exporter : Export(e)
  <2>1. PICK e \in Exporter : Export(e)
    BY <1>3
  <2>2. ExportInv'
    BY <1>1, <2>1, ExportsKeep
  <2>3. UNCHANGED lifecycle
    BY <2>1 DEF Export, Begin, Acquire, Turned, Reread, RereadFails, Collect, Refuse,
                ReadFile, FileGone, Release, Publish, PublishFails, Die, At
  <2> QED
    BY <1>1, <2>2, <2>3, RunGoesOn DEF Inv
<1>4. CASE Expire
  <2>1. UNCHANGED lifecycle
    BY <1>4 DEF Expire
  <2> QED
    BY <1>1, <1>4, <2>1, RunGoesOn, ExpiryKeeps DEF Inv
<1>5. CASE UNCHANGED vars
  <2>1. UNCHANGED lifecycle /\ UNCHANGED <<id, lock, expired, ex, bundle>>
    BY <1>5 DEF vars
  <2> QED
    BY <1>1, <2>1, RunGoesOn, Stays DEF Inv
<1> QED
  BY <1>2, <1>3, <1>4, <1>5 DEF Next

(* Every variable keeps its type: the files, the command that runs, the      *)
(* exports with what they have read, and the bundle.                         *)
THEOREM TypeCorrect == Spec => []TypeOK
<1>1. Inv => TypeOK
  BY DEF Inv, RunInv, ExportInv, ExportTypeOK, TypeOK
<1> QED
  BY <1>1, InvInit, InvStep, PTL DEF Spec

(* A previewed or applied run names a patch a validation approved, however   *)
(* many commands were given and wherever they were cut off.                  *)
THEOREM PreviewedCorrect == Spec => []PreviewedIsValidated
<1>1. Inv => PreviewedIsValidated
  BY DEF Inv, RunInv
<1> QED
  BY <1>1, InvInit, InvStep, PTL DEF Spec

(* Whenever a bundle can be found it verifies, and its metadata and run.json *)
(* are redacted alike, for any number of exports beside any number of        *)
(* commands.  (Of the other files nothing is claimed.)                       *)
THEOREM BundlesCorrect == Spec => []BundleIsTrue
<1>1. Inv => BundleIsTrue
  BY DEF Inv, ExportInv
<1> QED
  BY <1>1, InvInit, InvStep, PTL DEF Spec

(* An export keeps the repository lock for the length of its lease, if no    *)
(* other export goes by its id; with one for the same worker it may not.     *)
THEOREM LockCorrect == Spec => []LeaseHolds
<1>1. Inv => LeaseHolds
  BY DEF Inv, ExportInv
<1> QED
  BY <1>1, InvInit, InvStep, PTL DEF Spec

=============================================================================
