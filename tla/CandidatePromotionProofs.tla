----------------------- MODULE CandidatePromotionProofs -----------------------
(***************************************************************************)
(* What holds of a promotion however many processes apply and preview the  *)
(* run, wherever they die, and whatever the user does to the branches.     *)
(***************************************************************************)
EXTENDS CandidatePromotion, TLAPS

USE PromotionAssumption DEF PromotionAssumption

Place == {"idle", "read", "locked", "fresh", "approved", "checked", "built",
          "prepared", "authorized", "finishing", "logged",
          "previewing", "patched", "evaluated"}

(* What Leave does to the variables, for the types.                          *)
LEMMA LeaveTypes ==
  ASSUME TypeOK, NEW p \in Proc, Leave(p)
  PROVE  /\ lock' \in Proc \cup {None}
         /\ pc' \in [Proc -> Place]
         /\ meta' \in [Proc -> Run \cup {None}]
         /\ cand' \in [Proc -> Built \cup {None}]
         /\ \A q \in Proc : /\ lock' = q <=> Applying(q)' /\ pc'[q] # "read"
                            /\ pc'[q] # "idle" => meta'[q] \in Run
<1>1. /\ pc' = [pc EXCEPT ![p] = "idle"]
      /\ meta' = [meta EXCEPT ![p] = None]
      /\ cand' = [cand EXCEPT ![p] = None]
      /\ lock' = IF lock = p THEN None ELSE lock
  BY DEF Leave, Goto
<1>2. /\ lock' \in Proc \cup {None}
      /\ pc' \in [Proc -> Place]
      /\ meta' \in [Proc -> Run \cup {None}]
      /\ cand' \in [Proc -> Built \cup {None}]
  BY <1>1 DEF TypeOK, Place
<1>3. ASSUME NEW q \in Proc
      PROVE  /\ lock' = q <=> Applying(q)' /\ pc'[q] # "read"
             /\ pc'[q] # "idle" => meta'[q] \in Run
  <2>1. CASE q = p
    BY <1>1, <2>1 DEF TypeOK, Applying
  <2>2. CASE q # p
    BY <1>1, <2>2 DEF TypeOK, Applying
  <2> QED
    BY <2>1, <2>2
<1> QED
  BY <1>2, <1>3

(* A step inside the locked part keeps the link between pc and lock.         *)
LEMMA GotoTypes ==
  ASSUME TypeOK, NEW p \in Proc, NEW place \in Place, Goto(p, place),
         lock' = lock, meta' = meta, cand' \in [Proc -> Built \cup {None}],
         lock = p <=> place \notin {"idle", "read", "previewing", "patched", "evaluated"},
         pc[p] # "idle"
  PROVE  /\ lock' \in Proc \cup {None}
         /\ pc' \in [Proc -> Place]
         /\ meta' \in [Proc -> Run \cup {None}]
         /\ \A q \in Proc : /\ lock' = q <=> Applying(q)' /\ pc'[q] # "read"
                            /\ pc'[q] # "idle" => meta'[q] \in Run
<1>1. pc' = [pc EXCEPT ![p] = place]
  BY DEF Goto
<1>2. ASSUME NEW q \in Proc
      PROVE  /\ lock' = q <=> Applying(q)' /\ pc'[q] # "read"
             /\ pc'[q] # "idle" => meta'[q] \in Run
  <2>1. CASE q = p
    BY <1>1, <2>1 DEF TypeOK, Applying, Place
  <2>2. CASE q # p
    BY <1>1, <2>2 DEF TypeOK, Applying
  <2> QED
    BY <2>1, <2>2
<1> QED
  BY <1>1, <1>2 DEF TypeOK, Place

LEMMA TypesInit == Init => TypeOK
<1> SUFFICES ASSUME Init PROVE TypeOK
  OBVIOUS
<1>1. run \in Run /\ patch \in Patch \cup {None}
  BY DEF Init, Run
<1>2. validation \in Evidence
  BY DEF Init, Evidence, Unbound
<1>3. wal \in Log
  BY DEF Init, Log
<1>4. \A p \in Proc : pc[p] = "idle" /\ lock # p
  BY DEF Init
<1>5. /\ pc \in [Proc -> Place]
      /\ meta \in [Proc -> Run \cup {None}]
      /\ cand \in [Proc -> Built \cup {None}]
  BY DEF Init, Place
<1>6. /\ lock \in Proc \cup {None}
      /\ onBase \in BOOLEAN
      /\ branch \in Built \cup {UserCommit, None}
      /\ receipt \in Built \cup {None}
      /\ built \in 0 .. MaxBuilds
  BY DEF Init
<1> QED
  BY <1>1, <1>2, <1>3, <1>4, <1>5, <1>6 DEF TypeOK, Applying, Place

LEMMA TypesStep == TypeOK /\ [Next]_vars => TypeOK'
<1> SUFFICES ASSUME TypeOK, [Next]_vars PROVE TypeOK'
  OBVIOUS
<1>1. ASSUME NEW p \in Proc, ReadRun(p) PROVE TypeOK'
  BY <1>1 DEF ReadRun, TypeOK, files, refs, Start, Goto, Applying
<1>2. ASSUME NEW p \in Proc, Lock(p) PROVE TypeOK'
  BY <1>2 DEF Lock, TypeOK, files, refs, Goto, Applying
<1>3. ASSUME NEW p \in Proc, LockBusy(p) \/ PromoteRefused(p) \/ Stop(p) PROVE TypeOK'
  BY <1>3, LeaveTypes DEF LockBusy, PromoteRefused, Stop, TypeOK, files, refs, Place
<1>4. ASSUME NEW p \in Proc, Inspect(p) PROVE TypeOK'
  <2>1. UNCHANGED <<files, refs, built>> /\ pc[p] = "locked" /\ lock = p
    BY <1>4 DEF Inspect, TypeOK, Applying
  <2>2. CASE Leave(p)
    BY <2>1, <2>2, LeaveTypes DEF TypeOK, files, refs, Place
  <2>3. CASE Goto(p, "fresh") /\ UNCHANGED <<lock, meta, cand>>
    <3>1. cand' \in [Proc -> Built \cup {None}]
      BY <2>3 DEF TypeOK
    <3> QED
      BY <2>1, <2>3, <3>1, GotoTypes DEF TypeOK, files, refs, Place
  <2>4. CASE /\ Goto(p, "finishing") /\ UNCHANGED <<lock, meta>>
             /\ cand' = [cand EXCEPT ![p] = wal.commit]
    <3>1. cand' \in [Proc -> Built \cup {None}]
      BY <2>4 DEF TypeOK, Log
    <3> QED
      BY <2>1, <2>4, <3>1, GotoTypes DEF TypeOK, files, refs, Place
  <2> QED
    BY <1>4, <2>2, <2>3, <2>4 DEF Inspect
<1>5. ASSUME NEW p \in Proc, Approve(p) PROVE TypeOK'
  <2>1. run' \in Run /\ lock = p
    BY <1>5 DEF Approve, TypeOK, Applying
  <2> QED
    BY <1>5, <2>1, GotoTypes DEF Approve, TypeOK, refs, Place
<1>6. ASSUME NEW p \in Proc, CheckBase(p) PROVE TypeOK'
  <2>1. lock = p
    BY <1>6 DEF CheckBase, TypeOK, Applying
  <2> QED
    BY <1>6, <2>1, GotoTypes DEF CheckBase, TypeOK, files, refs, Place
<1>7. ASSUME NEW p \in Proc, Build(p) PROVE TypeOK'
  <2>1. lock = p
    BY <1>7 DEF Build, TypeOK, Applying
  <2>2. patch \in Patch /\ built + 1 \in 1 .. MaxBuilds
    BY <1>7 DEF Build, TypeOK
  <2>3. cand' \in [Proc -> Built \cup {None}] /\ built' \in 0 .. MaxBuilds
    BY <1>7, <2>2 DEF Build, TypeOK, Built
  <2> QED
    BY <1>7, <2>1, <2>3, GotoTypes DEF Build, TypeOK, files, refs, Place
<1>8. ASSUME NEW p \in Proc, Prepare(p) PROVE TypeOK'
  <2>1. lock = p /\ wal' \in Log
    BY <1>8 DEF Prepare, TypeOK, Applying, Log
  <2> QED
    BY <1>8, <2>1, GotoTypes DEF Prepare, TypeOK, refs, Place
<1>9. ASSUME NEW p \in Proc, Validate(p) PROVE TypeOK'
  <2>1. lock = p /\ meta[p] \in Run
    BY <1>9 DEF Validate, TypeOK, Applying
  <2>2. validation' \in Evidence
    BY <1>9, <2>1 DEF Validate, TypeOK, Evidence, Run
  <2>3. UNCHANGED <<run, patch, wal, refs, built>>
    BY <1>9 DEF Validate
  <2>4. CASE Leave(p)
    BY <2>2, <2>3, <2>4, LeaveTypes DEF TypeOK, refs, Place
  <2>5. CASE Goto(p, "authorized") /\ UNCHANGED <<lock, meta, cand>>
    BY <1>9, <2>1, <2>2, <2>3, <2>5, GotoTypes DEF Validate, TypeOK, refs, Place
  <2> QED
    BY <1>9, <2>4, <2>5 DEF Validate
<1>10. ASSUME NEW p \in Proc, Promote(p) PROVE TypeOK'
  <2>1. lock = p
    BY <1>10 DEF Promote, TypeOK, Applying
  <2>2. branch' \in Built \cup {UserCommit, None} /\ receipt' \in Built \cup {None}
    BY <1>10 DEF Promote, TypeOK
  <2> QED
    BY <1>10, <2>1, <2>2, GotoTypes DEF Promote, TypeOK, files, Place
<1>11. ASSUME NEW p \in Proc, FinishLog(p) PROVE TypeOK'
  <2>1. lock = p /\ wal' \in Log
    BY <1>11 DEF FinishLog, TypeOK, Applying, Log
  <2> QED
    BY <1>11, <2>1, GotoTypes DEF FinishLog, TypeOK, refs, Place
<1>12. ASSUME NEW p \in Proc, FinishRun(p) PROVE TypeOK'
  <2>1. meta[p] \in Run
    BY <1>12 DEF FinishRun, TypeOK
  <2>2. run' \in Run
    BY <1>12, <2>1 DEF FinishRun, Run
  <2> QED
    BY <1>12, <2>2, LeaveTypes DEF FinishRun, TypeOK, refs, Place
<1>13. ASSUME NEW p \in Proc, ReadForPreview(p) PROVE TypeOK'
  BY <1>13 DEF ReadForPreview, TypeOK, files, refs, Start, Goto, Applying
<1>14. ASSUME NEW p \in Proc, PreviewFails(p) PROVE TypeOK'
  <2>1. meta[p] \in Run
    BY <1>14 DEF PreviewFails, TypeOK
  <2>2. run' \in Run
    BY <1>14, <2>1 DEF PreviewFails, Run
  <2>3. Unbound(FALSE) \in Evidence
    BY DEF Evidence, Unbound
  <2>4. patch' \in Patch \cup {None} /\ validation' \in Evidence
    BY <1>14, <2>3 DEF PreviewFails, TypeOK
  <2> QED
    BY <1>14, <2>2, <2>4, LeaveTypes DEF PreviewFails, TypeOK, refs, Place
<1>15. ASSUME NEW p \in Proc, WritePatch(p) PROVE TypeOK'
  <2> PICK x \in Patch : patch' = x /\ meta' = [meta EXCEPT ![p].checksum = x]
    BY <1>15 DEF WritePatch
  <2>1. meta[p] \in Run /\ [meta[p] EXCEPT !.checksum = x] \in Run
    BY <1>15 DEF WritePatch, TypeOK, Run
  <2>2. meta' \in [Proc -> Run \cup {None}] /\ \A q \in Proc : meta[q] \in Run => meta'[q] \in Run
    BY <2>1 DEF TypeOK
  <2> QED
    BY <1>15, <2>2 DEF WritePatch, TypeOK, refs, Goto, Applying
<1>16. ASSUME NEW p \in Proc, WriteValidation(p) PROVE TypeOK'
  <2> PICK ok \in BOOLEAN, hard_errors \in BOOLEAN :
        /\ validation' = Unbound(ok)
        /\ meta' = [meta EXCEPT ![p].status =
                      IF ok /\ ~hard_errors THEN "previewed" ELSE "validation_failed"]
    BY <1>16 DEF WriteValidation
  <2>1. meta[p] \in Run
        /\ [meta[p] EXCEPT !.status =
              IF ok /\ ~hard_errors THEN "previewed" ELSE "validation_failed"] \in Run
    BY <1>16 DEF WriteValidation, TypeOK, Run
  <2>2. meta' \in [Proc -> Run \cup {None}] /\ \A q \in Proc : meta[q] \in Run => meta'[q] \in Run
    BY <2>1 DEF TypeOK
  <2>3. validation' \in Evidence
    BY DEF Evidence, Unbound
  <2> QED
    BY <1>16, <2>2, <2>3 DEF WriteValidation, TypeOK, refs, Goto, Applying
<1>17. ASSUME NEW p \in Proc, FinishPreview(p) PROVE TypeOK'
  <2>1. run' \in Run
    BY <1>17 DEF FinishPreview, TypeOK
  <2> QED
    BY <1>17, <2>1, LeaveTypes DEF FinishPreview, TypeOK, refs, Place
<1>18. CASE MoveBase
  BY <1>18 DEF MoveBase, TypeOK, files, Applying
<1>19. CASE EditBranch
  BY <1>19 DEF EditBranch, TypeOK, files, Applying
<1>20. CASE UNCHANGED vars
  BY <1>20 DEF vars, TypeOK, files, refs, Applying
<1> QED
  BY <1>1, <1>2, <1>3, <1>4, <1>5, <1>6, <1>7, <1>8, <1>9, <1>10, <1>11, <1>12,
     <1>13, <1>14, <1>15, <1>16, <1>17, <1>18, <1>19, <1>20 DEF Next, Apply, Preview

(* The files and refs keep their types, and the lock is held exactly by the  *)
(* process that is between its acquisition and its release.                  *)
THEOREM PromotionTypeCorrect == Spec => []TypeOK
<1> QED
  BY TypesInit, TypesStep, PTL DEF Spec

-----------------------------------------------------------------------------

(* Why a run is only marked applied after its publication: whoever is        *)
(* finishing saw or made the receipt, nothing removes a receipt, and nobody  *)
(* else carries the mark in the run.json it holds.                           *)
FinishInv ==
  /\ wal.state # "none" => wal.commit # None
  /\ run.status = "applied" => receipt # None
  /\ \A p \in Proc :
       /\ pc[p] \in {"built", "prepared", "authorized"} => cand[p] # None
       /\ pc[p] \in {"finishing", "logged"} => cand[p] # None /\ receipt = cand[p]
       /\ Applying(p) => meta[p].status = "previewed"
       /\ pc[p] = "evaluated" => meta[p].status # "applied"

LEMMA FinishInvStep == TypeOK /\ FinishInv /\ [Next]_vars => FinishInv'
<1> SUFFICES ASSUME TypeOK, FinishInv, [Next]_vars PROVE FinishInv'
  OBVIOUS
<1>1. ASSUME NEW p \in Proc, ReadRun(p) PROVE FinishInv'
  BY <1>1 DEF ReadRun, FinishInv, Applying, TypeOK, files, refs, Goto, Leave, Start
<1>2. ASSUME NEW p \in Proc, Lock(p) PROVE FinishInv'
  BY <1>2 DEF Lock, FinishInv, Applying, TypeOK, files, refs, Goto, Leave, Start
<1>3. ASSUME NEW p \in Proc, LockBusy(p) PROVE FinishInv'
  BY <1>3 DEF LockBusy, FinishInv, Applying, TypeOK, files, refs, Goto, Leave, Start
<1>4. ASSUME NEW p \in Proc, Inspect(p) PROVE FinishInv'
  <2>1. UNCHANGED <<files, refs>> /\ pc[p] = "locked"
    BY <1>4 DEF Inspect
  <2>2. CASE Leave(p)
    BY <2>1, <2>2 DEF Leave, Goto, FinishInv, Applying, TypeOK, files, refs
  <2>3. CASE Goto(p, "fresh") /\ UNCHANGED <<lock, meta, cand>>
    BY <2>1, <2>3 DEF Goto, FinishInv, Applying, TypeOK, files, refs
  <2>4. CASE /\ Goto(p, "finishing") /\ UNCHANGED <<lock, meta>>
             /\ cand' = [cand EXCEPT ![p] = wal.commit]
             /\ wal.state # "none" /\ wal.commit \in Resolved(receipt)
    <3>1. wal.commit # None /\ receipt = wal.commit
      BY <2>4 DEF FinishInv, Resolved
    <3> QED
      BY <2>1, <2>4, <3>1 DEF Goto, FinishInv, Applying, TypeOK, files, refs
  <2> QED
    BY <1>4, <2>2, <2>3, <2>4 DEF Inspect, Unpublished, Recoverable
<1>5. ASSUME NEW p \in Proc, Approve(p) PROVE FinishInv'
  BY <1>5 DEF Approve, FinishInv, Applying, TypeOK, files, refs, Goto, Leave, Start
<1>6. ASSUME NEW p \in Proc, CheckBase(p) PROVE FinishInv'
  BY <1>6 DEF CheckBase, FinishInv, Applying, TypeOK, files, refs, Goto, Leave, Start
<1>7. ASSUME NEW p \in Proc, Build(p) PROVE FinishInv'
  <2>1. [patch |-> patch, nr |-> built + 1] \in Built
    BY <1>7 DEF Build, TypeOK, Built
  <2>2. \A c \in Built : c # None
    BY DEF Built
  <2> QED
    BY <1>7, <2>1, <2>2 DEF Build, FinishInv, Applying, TypeOK, files, refs, Goto
<1>8. ASSUME NEW p \in Proc, Prepare(p) PROVE FinishInv'
  BY <1>8 DEF Prepare, FinishInv, Applying, TypeOK, files, refs, Goto, Leave, Start
<1>9. ASSUME NEW p \in Proc, Validate(p) PROVE FinishInv'
  BY <1>9 DEF Validate, FinishInv, Applying, TypeOK, files, refs, Goto, Leave, Start
<1>10. ASSUME NEW p \in Proc, Promote(p) PROVE FinishInv'
  <2>1. \A q \in Proc : q # p => pc[q] \notin {"finishing", "logged"}
    BY <1>10 DEF Promote, TypeOK, Applying
  <2>2. cand[p] # None
    BY <1>10 DEF Promote, FinishInv
  <2> QED
    BY <1>10, <2>1, <2>2 DEF Promote, FinishInv, Applying, TypeOK, files, Goto
<1>11. ASSUME NEW p \in Proc, PromoteRefused(p) PROVE FinishInv'
  BY <1>11 DEF PromoteRefused, FinishInv, Applying, TypeOK, files, refs, Goto, Leave, Start
<1>12. ASSUME NEW p \in Proc, FinishLog(p) PROVE FinishInv'
  BY <1>12 DEF FinishLog, FinishInv, Applying, TypeOK, files, refs, Goto, Leave, Start
<1>13. ASSUME NEW p \in Proc, FinishRun(p) PROVE FinishInv'
  BY <1>13 DEF FinishRun, FinishInv, Applying, TypeOK, files, refs, Goto, Leave, Start
<1>14. ASSUME NEW p \in Proc, ReadForPreview(p) PROVE FinishInv'
  BY <1>14 DEF ReadForPreview, FinishInv, Applying, TypeOK, files, refs, Goto, Leave, Start
<1>15. ASSUME NEW p \in Proc, PreviewFails(p) PROVE FinishInv'
  BY <1>15 DEF PreviewFails, FinishInv, Applying, TypeOK, files, refs, Goto, Leave, Start
<1>16. ASSUME NEW p \in Proc, WritePatch(p) PROVE FinishInv'
  BY <1>16 DEF WritePatch, FinishInv, Applying, TypeOK, files, refs, Goto, Leave, Start
<1>17. ASSUME NEW p \in Proc, WriteValidation(p) PROVE FinishInv'
  BY <1>17 DEF WriteValidation, FinishInv, Applying, TypeOK, files, refs, Goto, Leave, Start
<1>18. ASSUME NEW p \in Proc, FinishPreview(p) PROVE FinishInv'
  BY <1>18 DEF FinishPreview, FinishInv, Applying, TypeOK, files, refs, Goto, Leave, Start
<1>19. ASSUME NEW p \in Proc, Stop(p) PROVE FinishInv'
  BY <1>19 DEF Stop, FinishInv, Applying, TypeOK, files, refs, Goto, Leave, Start
<1>20. CASE MoveBase
  BY <1>20 DEF MoveBase, FinishInv, Applying, TypeOK, files, refs, Goto, Leave, Start
<1>21. CASE EditBranch
  BY <1>21 DEF EditBranch, FinishInv, Applying, TypeOK, files, refs, Goto, Leave, Start
<1>22. CASE UNCHANGED vars
  BY <1>22 DEF vars, FinishInv, Applying, TypeOK, files, refs, Goto, Leave, Start
<1> QED
  BY <1>1, <1>2, <1>3, <1>4, <1>5, <1>6, <1>7, <1>8, <1>9, <1>10, <1>11,
     <1>12, <1>13, <1>14, <1>15, <1>16, <1>17, <1>18, <1>19, <1>20, <1>21, <1>22 DEF Next, Apply, Preview

(* A run whose run.json says applied has its receipt in the repository,      *)
(* wherever applies died, whatever previews wrote back and however often     *)
(* resolve_ref timed out.                                                    *)
THEOREM PromotionAppliedIsPublished == Spec => []AppliedIsPublished
<1>1. Init => FinishInv
  BY DEF Init, FinishInv, Applying
<1>2. FinishInv => AppliedIsPublished
  BY DEF FinishInv, AppliedIsPublished
<1> QED
  BY <1>1, <1>2, FinishInvStep, PromotionTypeCorrect, PTL DEF Spec

(* The refs appear together and only while the base is the one the candidate *)
(* was built on: the transaction verifies what CheckBase saw long before.    *)
THEOREM PromotionOnLiveBase == Spec => PublishedOnLiveBase
<1>1. TypeOK /\ [Next]_vars
        => [receipt' # receipt => onBase /\ branch = None /\ branch' = receipt']_vars
  BY DEF Next, Apply, Preview, ReadRun, Lock, LockBusy, Inspect, Approve, CheckBase,
         Build, Prepare, Validate, Promote, PromoteRefused, FinishLog, FinishRun, Stop,
         ReadForPreview, PreviewFails, WritePatch, WriteValidation, FinishPreview,
         MoveBase, EditBranch, refs, vars
<1> QED
  BY <1>1, PromotionTypeCorrect, PTL DEF Spec, PublishedOnLiveBase

-----------------------------------------------------------------------------

(* Why the log keeps naming the receipt when ref lookups do not time out:    *)
(* with a receipt in the repository nobody gets past the inspection to log   *)
(* another commit, and until then the lock keeps everybody else out.         *)
LogInv ==
  /\ receipt # None => wal.commit = receipt
  /\ wal.state = "none" => wal.commit = None
  /\ wal.state = "applied" => receipt # None
  /\ \A p \in Proc :
       /\ pc[p] \in {"fresh", "approved", "checked", "built", "prepared", "authorized"}
            => receipt = None
       /\ pc[p] \in {"prepared", "authorized"} => wal.commit = cand[p] /\ wal.state = "prepared"

LEMMA LogInvStep ==
  ASSUME ~GitTimeouts
  PROVE  TypeOK /\ FinishInv /\ LogInv /\ [Next]_vars => LogInv'
<1> SUFFICES ASSUME TypeOK, FinishInv, LogInv, [Next]_vars PROVE LogInv'
  OBVIOUS
<1>1. ASSUME NEW p \in Proc, ReadRun(p) PROVE LogInv'
  BY <1>1 DEF ReadRun, LogInv, Applying, TypeOK, files, refs, Goto, Leave, Start
<1>2. ASSUME NEW p \in Proc, Lock(p) PROVE LogInv'
  BY <1>2 DEF Lock, LogInv, Applying, TypeOK, files, refs, Goto, Leave, Start
<1>3. ASSUME NEW p \in Proc, LockBusy(p) PROVE LogInv'
  BY <1>3 DEF LockBusy, LogInv, Applying, TypeOK, files, refs, Goto, Leave, Start
<1>4. ASSUME NEW p \in Proc, Inspect(p) PROVE LogInv'
  <2>1. UNCHANGED <<files, refs>> /\ pc[p] = "locked"
    BY <1>4 DEF Inspect
  <2>2. CASE Leave(p)
    BY <2>1, <2>2 DEF Leave, Goto, LogInv, TypeOK, files, refs
  <2>3. CASE /\ Goto(p, "fresh") /\ UNCHANGED <<lock, meta, cand>>
             /\ wal.state = "none" \/ receipt = None
    <3>1. receipt = None
      BY <2>3 DEF LogInv
    <3> QED
      BY <2>1, <2>3, <3>1 DEF Goto, LogInv, TypeOK, files, refs
  <2>4. CASE /\ Goto(p, "finishing") /\ UNCHANGED <<lock, meta>>
             /\ cand' = [cand EXCEPT ![p] = wal.commit]
    BY <2>1, <2>4 DEF Goto, LogInv, TypeOK, files, refs
  <2> QED
    BY <1>4, <2>2, <2>3, <2>4 DEF Inspect, Unpublished, Recoverable, Resolved
<1>5. ASSUME NEW p \in Proc, Approve(p) PROVE LogInv'
  BY <1>5 DEF Approve, LogInv, Applying, TypeOK, files, refs, Goto, Leave, Start
<1>6. ASSUME NEW p \in Proc, CheckBase(p) PROVE LogInv'
  BY <1>6 DEF CheckBase, LogInv, Applying, TypeOK, files, refs, Goto, Leave, Start
<1>7. ASSUME NEW p \in Proc, Build(p) PROVE LogInv'
  BY <1>7 DEF Build, LogInv, Applying, TypeOK, files, refs, Goto, Leave, Start
<1>8. ASSUME NEW p \in Proc, Prepare(p) PROVE LogInv'
  <2>1. \A q \in Proc : q # p => pc[q] \notin {"prepared", "authorized"}
    BY <1>8 DEF Prepare, TypeOK, Applying
  <2>2. receipt = None /\ cand[p] # None
    BY <1>8 DEF Prepare, LogInv, FinishInv
  <2> QED
    BY <1>8, <2>1, <2>2 DEF Prepare, LogInv, TypeOK, refs, Goto
<1>9. ASSUME NEW p \in Proc, Validate(p) PROVE LogInv'
  BY <1>9 DEF Validate, LogInv, Applying, TypeOK, files, refs, Goto, Leave, Start
<1>10. ASSUME NEW p \in Proc, Promote(p) PROVE LogInv'
  <2>1. \A q \in Proc : q # p =>
          pc[q] \notin {"fresh", "approved", "checked", "built", "prepared", "authorized"}
    BY <1>10 DEF Promote, TypeOK, Applying
  <2>2. cand[p] # None /\ wal.commit = cand[p]
    BY <1>10 DEF Promote, FinishInv, LogInv
  <2> QED
    BY <1>10, <2>1, <2>2 DEF Promote, LogInv, TypeOK, files, Goto
<1>11. ASSUME NEW p \in Proc, PromoteRefused(p) PROVE LogInv'
  BY <1>11 DEF PromoteRefused, LogInv, Applying, TypeOK, files, refs, Goto, Leave, Start
<1>12. ASSUME NEW p \in Proc, FinishLog(p) PROVE LogInv'
  <2>1. \A q \in Proc : q # p => pc[q] \notin {"prepared", "authorized"}
    BY <1>12 DEF FinishLog, TypeOK, Applying
  <2>2. receipt # None /\ receipt = cand[p]
    BY <1>12 DEF FinishLog, FinishInv
  <2> QED
    BY <1>12, <2>1, <2>2 DEF FinishLog, LogInv, TypeOK, refs, Goto
<1>13. ASSUME NEW p \in Proc, FinishRun(p) PROVE LogInv'
  BY <1>13 DEF FinishRun, LogInv, Applying, TypeOK, files, refs, Goto, Leave, Start
<1>14. ASSUME NEW p \in Proc, ReadForPreview(p) PROVE LogInv'
  BY <1>14 DEF ReadForPreview, LogInv, Applying, TypeOK, files, refs, Goto, Leave, Start
<1>15. ASSUME NEW p \in Proc, PreviewFails(p) PROVE LogInv'
  BY <1>15 DEF PreviewFails, LogInv, Applying, TypeOK, files, refs, Goto, Leave, Start
<1>16. ASSUME NEW p \in Proc, WritePatch(p) PROVE LogInv'
  BY <1>16 DEF WritePatch, LogInv, Applying, TypeOK, files, refs, Goto, Leave, Start
<1>17. ASSUME NEW p \in Proc, WriteValidation(p) PROVE LogInv'
  BY <1>17 DEF WriteValidation, LogInv, Applying, TypeOK, files, refs, Goto, Leave, Start
<1>18. ASSUME NEW p \in Proc, FinishPreview(p) PROVE LogInv'
  BY <1>18 DEF FinishPreview, LogInv, Applying, TypeOK, files, refs, Goto, Leave, Start
<1>19. ASSUME NEW p \in Proc, Stop(p) PROVE LogInv'
  BY <1>19 DEF Stop, LogInv, Applying, TypeOK, files, refs, Goto, Leave, Start
<1>20. CASE MoveBase
  BY <1>20 DEF MoveBase, LogInv, Applying, TypeOK, files, refs, Goto, Leave, Start
<1>21. CASE EditBranch
  BY <1>21 DEF EditBranch, LogInv, Applying, TypeOK, files, refs, Goto, Leave, Start
<1>22. CASE UNCHANGED vars
  BY <1>22 DEF vars, LogInv, Applying, TypeOK, files, refs, Goto, Leave, Start
<1> QED
  BY <1>1, <1>2, <1>3, <1>4, <1>5, <1>6, <1>7, <1>8, <1>9, <1>10, <1>11,
     <1>12, <1>13, <1>14, <1>15, <1>16, <1>17, <1>18, <1>19, <1>20, <1>21, <1>22 DEF Next, Apply, Preview

LEMMA LogInvariant ==
  ASSUME ~GitTimeouts
  PROVE  Spec => [](TypeOK /\ FinishInv /\ LogInv)
<1>1. Init => FinishInv /\ LogInv
  BY DEF Init, FinishInv, LogInv, Applying
<1>2. TypeOK /\ FinishInv /\ LogInv /\ [Next]_vars => FinishInv' /\ LogInv'
  BY FinishInvStep, LogInvStep
<1> QED
  BY <1>1, <1>2, PromotionTypeCorrect, PTL DEF Spec

(* apply.json names the published commit in every state a crash can leave    *)
(* behind, as long as looking up a ref does not time out.                    *)
THEOREM PromotionLogMatchesReceipt ==
  ASSUME ~GitTimeouts
  PROVE  Spec => []LogMatchesReceipt
<1>1. LogInv => LogMatchesReceipt
  BY DEF LogInv, LogMatchesReceipt
<1> QED
  BY <1>1, LogInvariant, PTL

-----------------------------------------------------------------------------

(* Every step of the protocol publishes, marks applied, or does neither.     *)
LEMMA PublicationStep ==
  TypeOK /\ FinishInv /\ LogInv /\ [Next]_vars => [Abstract!Next]_(Abstract!vars)
<1> SUFFICES ASSUME TypeOK, FinishInv, LogInv, [Next]_vars
             PROVE  [Abstract!Next]_(Abstract!vars)
  OBVIOUS
<1>1. ASSUME NEW p \in Proc, Promote(p) PROVE Abstract!Next
  <2>1. cand[p] \in Built /\ receipt = None /\ receipt' = cand[p] /\ wal' = wal
    BY <1>1 DEF Promote, FinishInv, TypeOK, files
  <2>2. Abstract!Publish(cand[p])
    BY <2>1 DEF Abstract!Publish
  <2> QED
    BY <2>1, <2>2 DEF Abstract!Next
<1>2. ASSUME NEW p \in Proc, FinishLog(p) PROVE Abstract!Next
  <2>1. wal' = [state |-> "applied", commit |-> cand[p]] /\ receipt # None /\ receipt' = receipt
    BY <1>2 DEF FinishLog, FinishInv, refs
  <2> QED
    BY <2>1 DEF Abstract!Next, Abstract!MarkApplied
<1>3. ASSUME NEW p \in Proc, Prepare(p) PROVE UNCHANGED Abstract!vars
  <2>1. wal.state # "applied" /\ receipt' = receipt
    BY <1>3 DEF Prepare, LogInv, refs
  <2>2. wal'.state = "prepared"
    BY <1>3 DEF Prepare
  <2> QED
    BY <2>1, <2>2 DEF Abstract!vars
<1>4. CASE UNCHANGED <<wal, receipt>>
  BY <1>4 DEF Abstract!vars
<1> QED
  BY <1>1, <1>2, <1>3, <1>4
     DEF Next, Apply, Preview, ReadRun, Lock, LockBusy, Inspect, Approve, CheckBase,
         Build, Validate, PromoteRefused, FinishRun, Stop,
         ReadForPreview, PreviewFails, WritePatch, WriteValidation, FinishPreview,
         MoveBase, EditBranch, files, refs, vars

(* candidate_promotion@1 is a publication: a run gets at most one commit,    *)
(* for good, and the log says applied only after it and from then on.        *)
THEOREM PromotionIsPublication ==
  ASSUME ~GitTimeouts
  PROVE  Spec => IsPublication
<1>1. Init => Abstract!Init
  BY DEF Init, Abstract!Init
<1> QED
  BY <1>1, PublicationStep, LogInvariant, PTL DEF Spec, IsPublication, Abstract!Spec

=============================================================================
