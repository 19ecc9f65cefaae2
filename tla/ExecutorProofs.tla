---------------------------- MODULE ExecutorProofs ----------------------------
(***************************************************************************)
(* What holds of the executor for every plan, every set of credentials,    *)
(* every answer of the providers and every number of executions.           *)
(*                                                                         *)
(* The invariant says where an execution is: what was decided before each  *)
(* place of the loops over tasks, files and providers.                     *)
(***************************************************************************)
EXTENDS Executor, FiniteSetTheorems, TLAPS

USE ExecutorAssumption DEF ExecutorAssumption

InTasks == {"task", "file", "call"}
Running == {"ordering"} \cup InTasks

(* The providers asked for the current file in this pass: all that were to   *)
(* be asked before the next.                                                 *)
Asked(risk) == {EffectiveChain(risk)[j] : j \in {i \in Callable(risk, 1) : i < link}}

(* Where the execution is.                                                   *)
Places ==
  /\ pc = "idle" => execution < MaxExecutions
  /\ pc \in {"idle", "ordering"} => changes = << >> /\ at = 1 /\ results = << >>
  /\ pc = "idle" => order = << >> /\ cause = "none"
  /\ pc \in Running => /\ caller # "worker" /\ NamesFiles(plan)
                       /\ caller = "preview" => Preflight
  /\ pc \in InTasks => results \in [DOMAIN plan -> TaskStatus \cup {"none"}]
  /\ pc \in {"file", "call"} => at <= Len(order)
  /\ pc = "call" => /\ fileAt <= Len(CurrentTask.files)
                    /\ Admissible(CurrentTask.risk)
                    /\ failed = Asked(CurrentTask.risk)

-----------------------------------------------------------------------------

(* The chains: at most three providers, none of them twice.                  *)
LEMMA Chains ==
  ASSUME NEW risk \in Risk
  PROVE  /\ DOMAIN Chain(risk) \subseteq 1 .. 3
         /\ \A i \in DOMAIN Chain(risk) : Chain(risk)[i] \in Provider
         /\ \A i, j \in DOMAIN Chain(risk) : Chain(risk)[i] = Chain(risk)[j] => i = j
         /\ risk = "high" => \A i \in DOMAIN Chain(risk) : Chain(risk)[i] = "claude"
<1>1. CASE risk = "low"
  BY <1>1 DEF Chain, Provider
<1>2. CASE risk = "medium"
  BY <1>2 DEF Chain, Provider
<1>3. CASE risk = "high"
  BY <1>3 DEF Chain, Provider
<1> QED
  BY <1>1, <1>2, <1>3 DEF Risk

(* So is what a forced provider leaves of one.                               *)
LEMMA EffectiveChains ==
  ASSUME NEW risk \in Risk, Admissible(risk)
  PROVE  /\ DOMAIN EffectiveChain(risk) \subseteq 1 .. 3
         /\ \A i \in DOMAIN EffectiveChain(risk) :
              /\ EffectiveChain(risk)[i] \in Provider
              /\ \E n \in DOMAIN Chain(risk) : Chain(risk)[n] = EffectiveChain(risk)[i]
              /\ force \in {NoForce, EffectiveChain(risk)[i]}
         /\ \A i, j \in DOMAIN EffectiveChain(risk) :
              EffectiveChain(risk)[i] = EffectiveChain(risk)[j] => i = j
<1>1. CASE force = NoForce
  BY <1>1, Chains DEF EffectiveChain
<1>2. CASE force # NoForce
  <2>1. EffectiveChain(risk) = <<force>>
    BY <1>2 DEF EffectiveChain
  <2>2. PICK n \in DOMAIN Chain(risk) : Chain(risk)[n] = force
    BY <1>2 DEF Admissible
  <2>3. force \in Provider
    BY <2>2, Chains
  <2>4. DOMAIN <<force>> = {1} /\ <<force>>[1] = force
    OBVIOUS
  <2> QED
    BY <2>1, <2>2, <2>3, <2>4
<1> QED
  BY <1>1, <1>2

LEMMA Firsts == ASSUME NEW S \in SUBSET (1 .. 3), S # {} PROVE \E i \in S : IsFirst(i, S)
<1>1. \A i \in S : i \in {1, 2, 3}
  OBVIOUS
<1>2. CASE 1 \in S
  BY <1>1, <1>2 DEF IsFirst
<1>3. CASE 1 \notin S /\ 2 \in S
  BY <1>1, <1>3 DEF IsFirst
<1>4. CASE 1 \notin S /\ 2 \notin S
  <2>1. PICK i \in S : TRUE
    OBVIOUS
  <2>2. \A j \in S : j = 3
    BY <1>1, <1>4
  <2> QED
    BY <2>1, <2>2 DEF IsFirst
<1> QED
  BY <1>2, <1>3, <1>4

(* When it is a provider's turn, it has a credential, the primary is known,  *)
(* and the two are the same exactly if nobody was asked before.              *)
LEMMA Turns ==
  ASSUME TypeOK, NEW i \in 1 .. 3, Turn(i), CurrentTask.risk \in Risk,
         Admissible(CurrentTask.risk), failed = Asked(CurrentTask.risk)
  PROVE  LET provider == EffectiveChain(CurrentTask.risk)[i]
         IN  /\ i \in DOMAIN EffectiveChain(CurrentTask.risk)
             /\ provider \in Provider /\ provider \in eligible
             /\ Primary \in Provider
             /\ provider # Primary => Primary \in failed
             /\ provider = Primary => Primary \notin failed
<1> DEFINE risk == CurrentTask.risk
           all == Callable(risk, 1)
<1>1. i \in Callable(risk, link) /\ \A j \in Callable(risk, link) : i <= j
  BY DEF Turn, IsFirst
<1>2. DOMAIN EffectiveChain(risk) \subseteq 1 .. 3 /\ link \in 1 .. 4
  BY EffectiveChains DEF TypeOK
<1>3. all \in SUBSET (1 .. 3) /\ i \in all
  BY <1>1, <1>2 DEF Callable
<1>4. PICK first \in all : first = CHOOSE j \in all : IsFirst(j, all)
  BY <1>3, Firsts
<1>5. IsFirst(first, all) /\ Primary = EffectiveChain(risk)[first]
  <2>1. \E j \in all : IsFirst(j, all)
    BY <1>3, Firsts
  <2>2. IsFirst(first, all)
    BY <1>4, <2>1
  <2>3. Primary = EffectiveChain(risk)[first]
    BY <1>4 DEF Primary
  <2> QED
    BY <2>2, <2>3
<1>6. i \in DOMAIN EffectiveChain(risk) /\ first \in DOMAIN EffectiveChain(risk)
      /\ EffectiveChain(risk)[i] \in eligible
  BY <1>1, <1>4 DEF Callable
<1>7. EffectiveChain(risk)[i] \in Provider /\ Primary \in Provider
  BY <1>5, <1>6, EffectiveChains
<1>8. ASSUME first # i PROVE Primary \in failed
  <2>1. first < i
    BY <1>2, <1>3, <1>5, <1>8 DEF IsFirst
  <2>2. first \notin Callable(risk, link)
    BY <1>1, <1>2, <1>3, <2>1
  <2>3. first < link
    BY <1>2, <1>3, <1>4, <2>2 DEF Callable
  <2> QED
    <3>1. first \in {j \in Callable(risk, 1) : j < link}
      BY <1>4, <2>3
    <3> QED
      BY <1>5, <3>1 DEF Asked
<1>9. ASSUME first = i PROVE Primary \notin failed
  <2> SUFFICES ASSUME Primary \in failed PROVE FALSE
    OBVIOUS
  <2>1. PICK j \in all : j < link /\ EffectiveChain(risk)[j] = Primary
    BY DEF Asked
  <2>2. j = first
    BY <1>5, <1>6, <2>1, EffectiveChains DEF Callable
  <2> QED
    BY <1>1, <1>2, <1>3, <1>9, <2>1, <2>2 DEF Callable
<1> QED
  BY <1>5, <1>6, <1>7, <1>8, <1>9, EffectiveChains

-----------------------------------------------------------------------------

TypeInv == TypeOK /\ Places

LEMMA Begins == Init => TypeInv
<1> SUFFICES ASSUME Init PROVE TypeInv
  OBVIOUS
<1>1. << >> \in Seq(DOMAIN plan) /\ << >> \in Seq(FileChange)
  OBVIOUS
<1>2. staging \in [File -> Nat]
  BY DEF Init, Absent
<1>3. TypeOK
  BY <1>1, <1>2 DEF Init, TypeOK, OnTarget, Override
<1> QED
  BY <1>3 DEF Init, TypeInv, Places, Running, InTasks

(* The task at hand.                                                         *)
LEMMA TaskAtHand ==
  ASSUME TypeOK, at <= Len(order)
  PROVE  /\ at \in DOMAIN order /\ Current \in DOMAIN plan /\ Current \in Nat
         /\ CurrentTask = plan[Current]
         /\ CurrentTask.risk \in Risk /\ CurrentTask.files \in Seq(File)
<1>1. order \in Seq(DOMAIN plan) /\ at \in Nat \ {0} /\ plan \in Seq(Task)
  BY DEF TypeOK
<1>2. at \in DOMAIN order
  BY <1>1
<1>3. order[at] \in DOMAIN plan
  BY <1>1, <1>2
<1>4. Current \in Nat /\ plan[Current] \in Task
  BY <1>1, <1>3 DEF Current
<1> QED
  BY <1>2, <1>3, <1>4 DEF Current, CurrentTask, Task

(* The file at hand.                                                         *)
LEMMA FileAtHand ==
  ASSUME TypeOK, at <= Len(order), fileAt <= Len(CurrentTask.files)
  PROVE  CurrentFile \in File
<1>1. CurrentTask.files \in Seq(File) /\ fileAt \in Nat \ {0}
  BY TaskAtHand DEF TypeOK
<1> QED
  BY <1>1 DEF CurrentFile

LEMMA ChangeTypes ==
  ASSUME TypeOK, at <= Len(order), NEW file \in File, NEW status \in TaskStatus, NEW to \in Nat,
         NEW provider \in Provider \cup {"nobody"}, NEW primary \in Provider \cup {"nobody"}
  PROVE  LET c == Change(file, status, to, provider, primary)
         IN  /\ c \in FileChange /\ c.task = Current /\ c.file = file /\ c.status = status
             /\ c.from = Original(file) /\ c.to = to
             /\ c.provider = provider /\ c.primary = primary
             /\ c.primaryFailed <=> primary \in failed
<1>1. Original(file) \in Nat
  BY DEF Original, Target, Absent, OnTarget, TypeOK
<1>2. Current \in Nat
  BY TaskAtHand
<1>3. (primary \in failed) \in BOOLEAN
  OBVIOUS
<1> QED
  BY <1>1, <1>2, <1>3 DEF Change, FileChange

LEMMA UnansweredTypes ==
  ASSUME TypeOK, at <= Len(order), NEW file \in File, NEW status \in TaskStatus
  PROVE  LET c == Unanswered(file, status)
         IN  c \in FileChange /\ c.status = status /\ c.provider = "nobody"
<1>1. Absent \in Nat /\ "nobody" \in Provider \cup {"nobody"}
  BY DEF Absent
<1>2. LET c == Change(file, status, Absent, "nobody", "nobody")
      IN  c \in FileChange /\ c.status = status /\ c.provider = "nobody"
  BY <1>1, ChangeTypes
<1> QED
  BY <1>2 DEF Unanswered

(* After an answer, or the refusal to ask, the next file is at hand.         *)
LEMMA Recorded ==
  ASSUME TypeInv, pc \in {"file", "call"}, NEW c \in FileChange, Record(c),
         staging' \in [File -> Nat], writes' \in Nat
  PROVE  TypeInv'
<1>1. /\ UNCHANGED <<caller, plan, force, eligible, execution, cause, order, at, results,
                     attempt, link, failed>>
      /\ pc' = "file"
  BY DEF Record, input, scheduler, call
<1>2. changes' \in Seq(FileChange) /\ fileAt' \in Nat \ {0} /\ statuses' \subseteq TaskStatus
  <2>1. changes \in Seq(FileChange) /\ fileAt \in Nat \ {0} /\ statuses \subseteq TaskStatus
    BY DEF TypeInv, TypeOK
  <2>2. c.status \in TaskStatus
    BY DEF FileChange
  <2> QED
    BY <2>1, <2>2 DEF Record
<1>3. TypeOK'
  BY <1>1, <1>2 DEF TypeInv, TypeOK
<1>4. Places'
  <2>1. (NamesFiles(plan) => NamesFiles(plan)') /\ (Preflight => Preflight')
    BY <1>1 DEF NamesFiles, Preflight, RisksOf, Admissible, Callable, EffectiveChain
  <2>2. /\ caller # "worker" /\ NamesFiles(plan) /\ (caller = "preview" => Preflight)
        /\ results \in [DOMAIN plan -> TaskStatus \cup {"none"}] /\ at <= Len(order)
    BY DEF TypeInv, Places, Running, InTasks
  <2> QED
    BY <1>1, <2>1, <2>2 DEF Places, Running, InTasks
<1> QED
  BY <1>3, <1>4 DEF TypeInv

(* An exception, or the death of the process, ends what is under way.        *)
LEMMA Stopped ==
  ASSUME TypeInv, pc' \in Terminal \cup {"dead"}, execution' \in 0 .. MaxExecutions,
         cause' \in {"none", "analysis only", "force_provider", "arguments", "plan",
                     "cycle", "unsafe path", "policy", "provider"},
         pc' = "done" => pc = "task",
         staging' \in [File -> Nat],
         UNCHANGED <<input, scheduler, fileAt, statuses, call, changes, writes>>
  PROVE  TypeInv'
<1>1. UNCHANGED <<caller, plan, force, eligible, order, at, results, fileAt, statuses,
                  attempt, link, failed, changes, writes>>
  BY DEF input, scheduler, call
<1>2. TypeOK'
  BY <1>1 DEF TypeInv, TypeOK, Terminal
<1>3. Places'
  BY DEF Places, Running, InTasks, Terminal
<1> QED
  BY <1>2, <1>3 DEF TypeInv

(* What the place of an execution says of the rest is kept with its input.   *)
LEMMA InputKept ==
  ASSUME UNCHANGED input
  PROVE  /\ UNCHANGED <<caller, plan, force, eligible>>
         /\ NamesFiles(plan)' <=> NamesFiles(plan)
         /\ Preflight' <=> Preflight
<1>1. UNCHANGED <<caller, plan, force, eligible>>
  BY DEF input
<1> QED
  BY <1>1 DEF NamesFiles, Preflight, RisksOf, Admissible, Callable, EffectiveChain

LEMMA TypesSchedule == TypeInv /\ Schedule => TypeInv'
<1> SUFFICES ASSUME TypeInv, Schedule PROVE TypeInv'
  OBVIOUS
<1>0. TypeOK /\ Places
  BY DEF TypeInv
<1>1. CASE Refuse
  <2>1. execution + 1 \in 0 .. MaxExecutions
    <3>1. execution \in 0 .. MaxExecutions /\ execution < MaxExecutions
      BY <1>0, <1>1 DEF TypeOK, Places, Refuse
    <3> QED
      BY <3>1
  <2>2. cause' = cause /\ staging' \in [File -> Nat] /\ pc' = "refused"
    BY <1>0, <1>1 DEF Refuse, TypeOK
  <2>3. cause' = "none"
    BY <1>0, <1>1, <2>2 DEF Places, Refuse
  <2> QED
    BY <1>1, <2>1, <2>2, <2>3, Stopped DEF Refuse, Terminal
<1>2. CASE Begin
  <2>1. execution' \in 0 .. MaxExecutions
    <3>1. execution \in 0 .. MaxExecutions /\ execution < MaxExecutions
      BY <1>0, <1>2 DEF TypeOK, Places, Begin, Started
    <3> QED
      BY <1>2, <3>1 DEF Begin
  <2>2. staging' \in [File -> Nat]
    <3>1. staging \in [File -> Nat] /\ [f \in File |-> Absent] \in [File -> Nat]
      BY <1>0 DEF TypeOK, Absent
    <3> QED
      BY <1>2, <3>1 DEF Begin, FreshStaging
  <2>3. Faults \in {"none", "analysis only", "force_provider", "arguments", "plan"}
        /\ (Faults = "none" => NamesFiles(plan) /\ caller # "worker")
    BY DEF Faults, Misbound
  <2>4. CASE Faults # "none"
    BY <1>2, <2>1, <2>2, <2>3, <2>4, Stopped DEF Begin, Terminal
  <2>5. CASE Faults = "none"
    <3>1. UNCHANGED <<input, order, at, results, fileAt, statuses, attempt, link, failed,
                      changes, writes>>
      BY <1>2 DEF Begin, scheduler, call
    <3>2. pc' = "ordering" /\ cause' = "none"
      BY <1>2, <2>5 DEF Begin
    <3>3. TypeOK'
      BY <1>0, <2>1, <2>2, <3>1, <3>2, InputKept DEF TypeOK
    <3>4. pc = "idle" /\ (caller = "preview" => Preflight)
      BY <1>2 DEF Begin, Started
    <3>5. Places'
      BY <1>0, <2>3, <2>5, <3>1, <3>2, <3>4, InputKept DEF Places, Running, InTasks
    <3> QED
      BY <3>3, <3>5 DEF TypeInv
  <2> QED
    BY <2>4, <2>5
<1>3. CASE Order
  <2>1. PICK i \in DOMAIN plan : order' = Append(order, i)
    BY <1>3 DEF Order, PickReady, Ready
  <2>2. order' \in Seq(DOMAIN plan)
    <3>1. order \in Seq(DOMAIN plan)
      BY <1>0 DEF TypeOK
    <3> QED
      BY <2>1, <3>1
  <2>3. /\ UNCHANGED <<input, execution, pc, cause, at, results, fileAt, statuses, attempt,
                       link, failed, changes, staging, writes>>
        /\ pc = "ordering"
    BY <1>3 DEF Order, call
  <2>4. TypeOK'
    BY <1>0, <2>2, <2>3, InputKept DEF TypeOK
  <2>5. Places'
    BY <1>0, <2>3, InputKept DEF Places, Running, InTasks
  <2> QED
    BY <2>4, <2>5 DEF TypeInv
<1>4. CASE Cycle
  <2>1. execution \in 0 .. MaxExecutions /\ staging \in [File -> Nat]
    BY <1>0 DEF TypeOK
  <2>2. pc' = "raised" /\ cause' = "cycle"
        /\ UNCHANGED <<input, execution, scheduler, fileAt, statuses, call, changes, staging, writes>>
    BY <1>4 DEF Cycle, Raise
  <2> QED
    BY <2>1, <2>2, Stopped DEF Terminal
<1>5. CASE RunTasks
  <2>1. /\ UNCHANGED <<input, execution, cause, order, at, fileAt, statuses, attempt,
                       link, failed, changes, staging, writes>>
        /\ pc = "ordering" /\ pc' = "task"
    BY <1>5 DEF RunTasks, call
  <2>2. results' \in [DOMAIN plan -> TaskStatus \cup {"none"}]
    BY <1>5 DEF RunTasks
  <2>3. TypeOK'
    BY <1>0, <2>1, <2>2, InputKept DEF TypeOK
  <2>4. Places'
    BY <1>0, <2>1, <2>2, InputKept DEF Places, Running, InTasks
  <2> QED
    BY <2>3, <2>4 DEF TypeInv
<1>6. CASE SkipTask
  <2>1. /\ UNCHANGED <<input, execution, pc, cause, order, fileAt, statuses, attempt,
                       link, failed, staging, writes>>
        /\ pc = "task" /\ at <= Len(order)
        /\ results' = [results EXCEPT ![Current] = "skipped"] /\ at' = at + 1
    BY <1>6 DEF SkipTask, call
  <2>2. results' \in [DOMAIN plan -> TaskStatus \cup {"none"}]
    <3>1. results \in [DOMAIN plan -> TaskStatus \cup {"none"}]
      BY <1>0, <2>1 DEF Places, InTasks
    <3> QED
      BY <2>1, <3>1 DEF TaskStatus
  <2>3. at' \in Nat \ {0}
    <3>1. at \in Nat \ {0}
      BY <1>0 DEF TypeOK
    <3> QED
      BY <2>1, <3>1
  <2>4. changes' \in Seq(FileChange)
    <3>1. CurrentTask.files[1] \in File
      <4>1. CurrentTask.files \in Seq(File) /\ Current \in DOMAIN plan
            /\ CurrentTask = plan[Current]
        BY <1>0, <2>1, TaskAtHand
      <4>2. NamesFiles(plan)
        BY <1>0, <2>1 DEF Places, Running, InTasks
      <4>3. CurrentTask.files # << >>
        BY <4>1, <4>2 DEF NamesFiles
      <4> QED
        BY <4>1, <4>3
    <3>2. Unanswered(CurrentTask.files[1], "skipped") \in FileChange
      BY <1>0, <2>1, <3>1, UnansweredTypes DEF TaskStatus
    <3>3. changes \in Seq(FileChange)
      BY <1>0 DEF TypeOK
    <3> QED
      BY <1>6, <3>2, <3>3 DEF SkipTask
  <2>5. TypeOK'
    BY <1>0, <2>1, <2>2, <2>3, <2>4, InputKept DEF TypeOK
  <2>6. Places'
    BY <1>0, <2>1, <2>2, InputKept DEF Places, Running, InTasks
  <2> QED
    BY <2>5, <2>6 DEF TypeInv
<1>7. CASE StartTask
  <2>1. /\ UNCHANGED <<input, execution, cause, order, at, results, attempt, link, failed,
                       changes, staging, writes>>
        /\ pc = "task" /\ pc' = "file" /\ at <= Len(order) /\ fileAt' = 1 /\ statuses' = {}
    BY <1>7 DEF StartTask, scheduler, call
  <2>2. fileAt' \in Nat \ {0} /\ statuses' \subseteq TaskStatus
    BY <2>1
  <2>3. TypeOK'
    BY <1>0, <2>1, <2>2, InputKept DEF TypeOK
  <2>4. Places'
    BY <1>0, <2>1, InputKept DEF Places, Running, InTasks
  <2> QED
    BY <2>3, <2>4 DEF TypeInv
<1>8. CASE EndTask
  <2>1. /\ UNCHANGED <<input, execution, cause, order, fileAt, statuses, attempt,
                       link, failed, changes, staging, writes>>
        /\ pc = "file" /\ pc' = "task"
        /\ results' = [results EXCEPT ![Current] = Worst(statuses)] /\ at' = at + 1
    BY <1>8 DEF EndTask, call
  <2>2. results' \in [DOMAIN plan -> TaskStatus \cup {"none"}]
    <3>1. results \in [DOMAIN plan -> TaskStatus \cup {"none"}]
      BY <1>0, <2>1 DEF Places, InTasks
    <3>2. Worst(statuses) \in TaskStatus
      BY DEF Worst, TaskStatus
    <3> QED
      BY <2>1, <3>1, <3>2
  <2>3. at' \in Nat \ {0}
    <3>1. at \in Nat \ {0}
      BY <1>0 DEF TypeOK
    <3> QED
      BY <2>1, <3>1
  <2>4. TypeOK'
    BY <1>0, <2>1, <2>2, <2>3, InputKept DEF TypeOK
  <2>5. Places'
    BY <1>0, <2>1, <2>2, InputKept DEF Places, Running, InTasks
  <2> QED
    BY <2>4, <2>5 DEF TypeInv
<1>9. CASE Finish
  <2>1. /\ UNCHANGED <<input, execution, cause, scheduler, fileAt, statuses, call,
                       changes, staging, writes>>
        /\ pc = "task" /\ pc' = "done"
    BY <1>9 DEF Finish
  <2>2. execution \in 0 .. MaxExecutions /\ staging \in [File -> Nat]
        /\ cause \in {"none", "analysis only", "force_provider", "arguments", "plan",
                      "cycle", "unsafe path", "policy", "provider"}
    BY <1>0 DEF TypeOK
  <2> QED
    BY <2>1, <2>2, Stopped DEF Terminal
<1> QED
  BY <1>1, <1>2, <1>3, <1>4, <1>5, <1>6, <1>7, <1>8, <1>9 DEF Schedule

LEMMA TypesFiles == TypeInv /\ Files => TypeInv'
<1> SUFFICES ASSUME TypeInv, Files PROVE TypeInv'
  OBVIOUS
<1>0. /\ TypeOK /\ Places
      /\ execution \in 0 .. MaxExecutions /\ staging \in [File -> Nat] /\ writes \in Nat
  BY DEF TypeInv, TypeOK
<1>1. CASE StopAtFile
  <2>1. PICK why \in {"unsafe path", "policy"} : Raise(why) /\ UNCHANGED <<staging, writes>>
    BY <1>1 DEF StopAtFile
  <2> QED
    BY <1>0, <2>1, Stopped DEF Raise, Terminal
<1>2. CASE TooLarge
  <2>1. pc = "file" /\ at <= Len(order) /\ fileAt <= Len(CurrentTask.files)
        /\ UNCHANGED <<staging, writes>>
    BY <1>0, <1>2 DEF TooLarge, AtFile, Places
  <2>2. Unanswered(CurrentFile, "error") \in FileChange
    BY <1>0, <2>1, FileAtHand, UnansweredTypes DEF TaskStatus
  <2> QED
    BY <1>0, <1>2, <2>1, <2>2, Recorded DEF TooLarge
<1>3. CASE StartFile
  <2>1. /\ UNCHANGED <<input, execution, cause, order, at, results, fileAt, statuses,
                       changes, staging, writes>>
        /\ pc = "file" /\ pc' = "call" /\ fileAt <= Len(CurrentTask.files)
        /\ attempt' = 0 /\ link' = 1 /\ failed' = {} /\ Admissible(CurrentTask.risk)
    BY <1>3 DEF StartFile, scheduler, AtFile
  <2>2. TypeOK'
    <3>1. attempt' \in 0 .. 1 /\ link' \in 1 .. 4 /\ failed' \subseteq Provider
      BY <2>1
    <3> QED
      BY <1>0, <2>1, <3>1, InputKept DEF TypeOK
  <2>3. CurrentTask' = CurrentTask /\ at <= Len(order)
    BY <1>0, <2>1, InputKept DEF CurrentTask, Current, Places
  <2>4. Admissible(CurrentTask.risk)' /\ Asked(CurrentTask.risk)' = {}
    <3>1. Admissible(CurrentTask.risk)'
      BY <2>1, <2>3, InputKept DEF Admissible
    <3>2. DOMAIN EffectiveChain(CurrentTask.risk)' \subseteq 1 .. 3
      <4>1. CurrentTask.risk \in Risk
        BY <1>0, <2>3, TaskAtHand
      <4> QED
        BY <2>1, <2>3, <4>1, InputKept, EffectiveChains DEF EffectiveChain
    <3> QED
      BY <2>1, <3>1, <3>2 DEF Asked, Callable
  <2>5. Places'
    BY <1>0, <2>1, <2>3, <2>4, InputKept DEF Places, Running, InTasks
  <2> QED
    BY <2>2, <2>5 DEF TypeInv
<1> QED
  BY <1>1, <1>2, <1>3 DEF Files

(* What an answer is recorded as.                                            *)
LEMMA AnswerTypes ==
  ASSUME TypeInv, NEW i \in 1 .. 3, Turn(i), NEW status \in TaskStatus, NEW to \in Nat
  PROVE  /\ CurrentFile \in File
         /\ LET c == Change(CurrentFile, status, to, EffectiveChain(CurrentTask.risk)[i], Primary)
            IN  /\ c \in FileChange /\ c.task = Current /\ c.file = CurrentFile
                /\ c.status = status /\ c.from = Original(CurrentFile) /\ c.to = to
                /\ c.provider = EffectiveChain(CurrentTask.risk)[i]
                /\ c.primary = Primary /\ (c.primaryFailed <=> Primary \in failed)
<1>1. /\ TypeOK /\ Places /\ pc = "call"
  BY DEF TypeInv, Turn
<1>2. at <= Len(order) /\ fileAt <= Len(CurrentTask.files)
      /\ Admissible(CurrentTask.risk) /\ failed = Asked(CurrentTask.risk)
  BY <1>1 DEF Places
<1>3. CurrentFile \in File /\ CurrentTask.risk \in Risk
  BY <1>1, <1>2, TaskAtHand, FileAtHand
<1>4. EffectiveChain(CurrentTask.risk)[i] \in Provider /\ Primary \in Provider
  BY <1>1, <1>2, <1>3, Turns
<1> QED
  BY <1>1, <1>2, <1>3, <1>4, ChangeTypes

LEMMA TypesAnswers == TypeInv /\ Answers => TypeInv'
<1> SUFFICES ASSUME TypeInv, Answers PROVE TypeInv'
  OBVIOUS
<1>0. /\ TypeOK /\ Places
      /\ execution \in 0 .. MaxExecutions /\ staging \in [File -> Nat] /\ writes \in Nat
      /\ {"error", "noop", "pending", "applied"} \subseteq TaskStatus
  BY DEF TypeInv, TypeOK, TaskStatus
<1>1. pc = "call"
  BY DEF Answers, Exhausted, Fails, Explodes, Broken, Unchanged, Edited, Turn
<1>2. /\ at <= Len(order) /\ fileAt <= Len(CurrentTask.files) /\ Admissible(CurrentTask.risk)
      /\ failed = Asked(CurrentTask.risk)
  BY <1>0, <1>1 DEF Places
<1>3. CurrentTask.risk \in Risk /\ CurrentFile \in File
  BY <1>0, <1>2, TaskAtHand, FileAtHand
(* What another pass, or another provider, leaves as it is.                  *)
<1>4. ASSUME UNCHANGED <<input, execution, pc, cause, scheduler, fileAt, statuses, changes,
                         staging, writes>>,
             attempt' \in 0 .. 1, link' \in 1 .. 4, failed' \subseteq Provider,
             failed' = Asked(CurrentTask.risk)'
      PROVE  TypeInv'
  <2>1. UNCHANGED <<order, at, results>> /\ CurrentTask' = CurrentTask
    BY <1>4, InputKept DEF scheduler, CurrentTask, Current
  <2>2. TypeOK'
    BY <1>0, <1>4, <2>1, InputKept DEF TypeOK
  <2>3. Admissible(CurrentTask.risk)'
    BY <1>2, <1>4, <2>1, InputKept DEF Admissible
  <2>4. Places'
    BY <1>0, <1>1, <1>4, <2>1, <2>3, InputKept DEF Places, Running, InTasks
  <2> QED
    BY <2>2, <2>4 DEF TypeInv
<1>5. CASE Exhausted
  <2>1. CASE Record(Unanswered(CurrentFile, "error"))
    <3>1. Unanswered(CurrentFile, "error") \in FileChange
      BY <1>0, <1>2, <1>3, UnansweredTypes
    <3> QED
      BY <1>0, <1>1, <1>5, <2>1, <3>1, Recorded DEF Exhausted
  <2>2. CASE /\ attempt' = 1 /\ link' = 1 /\ failed' = {}
             /\ UNCHANGED <<input, execution, pc, cause, scheduler, fileAt, statuses, changes>>
    <3>1. Asked(CurrentTask.risk)' = {}
      <4>1. CurrentTask' = CurrentTask
        BY <2>2, InputKept DEF scheduler, CurrentTask, Current
      <4>2. DOMAIN EffectiveChain(CurrentTask.risk)' \subseteq 1 .. 3
        BY <1>2, <1>3, <2>2, <4>1, InputKept, EffectiveChains DEF EffectiveChain
      <4> QED
        BY <2>2, <4>2 DEF Asked, Callable
    <3>2. attempt' \in 0 .. 1 /\ link' \in 1 .. 4 /\ failed' \subseteq Provider
      BY <2>2
    <3> QED
      BY <1>4, <1>5, <2>2, <3>1, <3>2 DEF Exhausted
  <2> QED
    BY <1>5, <2>1, <2>2 DEF Exhausted
<1>6. CASE Fails
  <2>1. PICK i \in 1 .. 3 :
          /\ Turn(i) /\ link' = i + 1
          /\ failed' = failed \cup {EffectiveChain(CurrentTask.risk)[i]}
          /\ UNCHANGED <<input, execution, pc, cause, scheduler, fileAt, statuses, attempt,
                         changes, staging, writes>>
    BY <1>6 DEF Fails
  <2> DEFINE chain == EffectiveChain(CurrentTask.risk)
             all == Callable(CurrentTask.risk, 1)
  <2>2. i \in DOMAIN chain /\ chain[i] \in Provider
    BY <1>0, <1>2, <1>3, <2>1, Turns
  <2>3. attempt' \in 0 .. 1 /\ link' \in 1 .. 4 /\ failed' \subseteq Provider
    <3>1. attempt \in 0 .. 1 /\ failed \subseteq Provider
      BY <1>0 DEF TypeOK
    <3> QED
      BY <2>1, <2>2, <3>1
  <2>4. CurrentTask' = CurrentTask
    BY <2>1, InputKept DEF scheduler, CurrentTask, Current
  <2>5. EffectiveChain(CurrentTask.risk)' = chain /\ Callable(CurrentTask.risk, 1)' = all
    BY <2>1, <2>4, InputKept DEF EffectiveChain, Callable
  <2>6. /\ i \in Callable(CurrentTask.risk, link)
        /\ \A j \in Callable(CurrentTask.risk, link) : i <= j
    BY <2>1 DEF Turn, IsFirst
  <2>7. DOMAIN chain \subseteq 1 .. 3 /\ link \in 1 .. 4
    BY <1>0, <1>2, <1>3, EffectiveChains DEF TypeOK
  <2>8. {j \in all : j < i + 1} = {j \in all : j < link} \cup {i}
    <3>1. i \in all /\ i >= link
      BY <2>6, <2>7 DEF Callable
    <3>2. \A j \in all : j \in 1 .. 3 /\ (j >= link => j >= i)
      BY <2>6, <2>7 DEF Callable
    <3>3. ASSUME NEW j \in all PROVE j < i + 1 <=> j < link \/ j = i
      BY <2>7, <3>1, <3>2
    <3> HIDE DEF all
    <3> QED
      BY <3>1, <3>3
  <2>9. Asked(CurrentTask.risk)' = {chain[j] : j \in {k \in all : k < i + 1}}
    BY <2>1, <2>5 DEF Asked
  <2>10. failed = {chain[j] : j \in {k \in all : k < link}}
    BY <1>2 DEF Asked
  <2> HIDE DEF chain, all
  <2>11. failed' = Asked(CurrentTask.risk)'
    BY <2>1, <2>8, <2>9, <2>10 DEF chain
  <2> QED
    BY <1>4, <2>1, <2>3, <2>11
<1>7. CASE Explodes
  <2>1. Raise("provider") /\ UNCHANGED <<staging, writes>>
    BY <1>7 DEF Explodes
  <2> QED
    BY <1>0, <2>1, Stopped DEF Raise, Terminal
<1>8. CASE Broken
  <2>1. PICK i \in 1 .. 3 :
          /\ Turn(i) /\ UNCHANGED <<staging, writes>>
          /\ Record(Change(CurrentFile, "error", Absent, EffectiveChain(CurrentTask.risk)[i], Primary))
    BY <1>8 DEF Broken
  <2>2. Absent \in Nat
    BY DEF Absent
  <2>3. Change(CurrentFile, "error", Absent, EffectiveChain(CurrentTask.risk)[i], Primary)
          \in FileChange
    BY <1>0, <2>1, <2>2, AnswerTypes
  <2> QED
    BY <1>0, <1>1, <2>1, <2>3, Recorded
<1>9. CASE Unchanged
  <2>1. PICK i \in 1 .. 3 :
          /\ Turn(i) /\ UNCHANGED <<staging, writes>>
          /\ Record(Change(CurrentFile, "noop", Original(CurrentFile),
                           EffectiveChain(CurrentTask.risk)[i], Primary))
    BY <1>9 DEF Unchanged
  <2>2. Original(CurrentFile) \in Nat
    BY <1>0, <1>3 DEF Original, Target, Absent, OnTarget
  <2>3. Change(CurrentFile, "noop", Original(CurrentFile), EffectiveChain(CurrentTask.risk)[i],
               Primary) \in FileChange
    BY <1>0, <2>1, <2>2, AnswerTypes
  <2> QED
    BY <1>0, <1>1, <2>1, <2>3, Recorded
<1>10. CASE Edited
  <2> DEFINE status == IF CurrentTask.risk = "high" THEN "pending" ELSE "applied"
  <2>1. PICK i \in 1 .. 3 :
          /\ Turn(i) /\ writes' = writes + 1 /\ Stage(writes')
          /\ Record(Change(CurrentFile, status, writes', EffectiveChain(CurrentTask.risk)[i], Primary))
    BY <1>10 DEF Edited
  <2>2. writes' \in Nat /\ status \in TaskStatus
    BY <1>0, <2>1
  <2>3. Change(CurrentFile, status, writes', EffectiveChain(CurrentTask.risk)[i], Primary)
          \in FileChange
    BY <2>1, <2>2, AnswerTypes
  <2>4. staging' \in [File -> Nat]
    BY <1>0, <1>3, <2>1, <2>2 DEF Stage
  <2> QED
    BY <1>1, <2>1, <2>2, <2>3, <2>4, Recorded
<1> QED
  BY <1>5, <1>6, <1>7, <1>8, <1>9, <1>10 DEF Answers

LEMMA TypesStep == TypeInv /\ [Next]_vars => TypeInv'
<1> SUFFICES ASSUME TypeInv, [Next]_vars PROVE TypeInv'
  OBVIOUS
<1>0. TypeOK /\ Places
  BY DEF TypeInv
<1>1. CASE Work
  BY <1>1, TypesSchedule, TypesFiles, TypesAnswers DEF Work
<1>2. CASE Crash
  <2>1. /\ pc' = "dead" /\ pc # "done"
        /\ UNCHANGED <<input, execution, cause, scheduler, fileAt, statuses, call, changes,
                       staging, writes>>
    BY <1>2 DEF Crash, Terminal
  <2>2. execution \in 0 .. MaxExecutions /\ staging \in [File -> Nat]
        /\ cause \in {"none", "analysis only", "force_provider", "arguments", "plan",
                      "cycle", "unsafe path", "policy", "provider"}
    BY <1>0 DEF TypeOK
  <2> QED
    BY <2>1, <2>2, Stopped
<1>3. CASE Rerun
  <2>1. /\ execution < MaxExecutions /\ pc' = "idle" /\ cause' = "none"
        /\ force' \in Forces /\ eligible' \in SUBSET Provider
        /\ order' = << >> /\ at' = 1 /\ results' = << >> /\ fileAt' = 1 /\ statuses' = {}
        /\ attempt' = 0 /\ link' = 1 /\ failed' = {} /\ changes' = << >>
        /\ UNCHANGED <<caller, plan, execution, staging, writes>>
    BY <1>3 DEF Rerun, Override
  <2>2. << >> \in Seq(DOMAIN plan') /\ << >> \in Seq(FileChange)
    OBVIOUS
  <2>3. attempt' \in 0 .. 1 /\ link' \in 1 .. 4 /\ failed' \subseteq Provider
        /\ fileAt' \in Nat \ {0} /\ at' \in Nat \ {0} /\ statuses' \subseteq TaskStatus
    BY <2>1
  <2>4. order' \in Seq(DOMAIN plan') /\ changes' \in Seq(FileChange)
    BY <2>1, <2>2
  <2>5. TypeOK'
    BY <1>0, <2>1, <2>3, <2>4 DEF TypeOK
  <2>6. Places'
    BY <2>1 DEF Places, Running, InTasks
  <2> QED
    BY <2>5, <2>6 DEF TypeInv
<1>4. CASE UNCHANGED vars
  <2>1. UNCHANGED <<input, execution, pc, cause, order, at, results, fileAt, statuses, attempt,
                    link, failed, changes, staging, writes>>
    BY <1>4 DEF vars, scheduler, call
  <2>2. TypeOK'
    BY <1>0, <2>1, InputKept DEF TypeOK
  <2>3. /\ CurrentTask' = CurrentTask
        /\ \A r : (Admissible(r) <=> Admissible(r)') /\ Asked(r) = Asked(r)'
    BY <2>1, InputKept DEF CurrentTask, Current, Admissible, Asked, Callable, EffectiveChain
  <2>4. Places'
    BY <1>0, <2>1, <2>3, InputKept DEF Places, Running, InTasks
  <2> QED
    BY <2>2, <2>4 DEF TypeInv
<1> QED
  BY <1>1, <1>2, <1>3, <1>4 DEF Next

(* Every variable of the executor keeps its type: no task gets a status the  *)
(* dependency check does not know.                                           *)
THEOREM TypeCorrect == Spec => []TypeOK
<1>1. TypeInv => TypeOK
  BY DEF TypeInv
<1> QED
  BY <1>1, Begins, TypesStep, PTL DEF Spec

-----------------------------------------------------------------------------

(* An answer taken at its turn obeys the policy.                             *)
LEMMA AnswerRouted ==
  ASSUME TypeInv, NEW i \in 1 .. 3, Turn(i), NEW status \in TaskStatus, NEW to \in Nat,
         status = "applied" => CurrentTask.risk # "high",
         status = "pending" => CurrentTask.risk = "high"
  PROVE  Routed(Change(CurrentFile, status, to, EffectiveChain(CurrentTask.risk)[i], Primary))
<1> DEFINE provider == EffectiveChain(CurrentTask.risk)[i]
           c == Change(CurrentFile, status, to, provider, Primary)
<1>1. /\ TypeOK /\ Places /\ pc = "call"
  BY DEF TypeInv, Turn
<1>2. at <= Len(order) /\ Admissible(CurrentTask.risk) /\ failed = Asked(CurrentTask.risk)
  BY <1>1 DEF Places
<1>3. CurrentTask.risk \in Risk /\ CurrentTask = plan[Current]
  BY <1>1, <1>2, TaskAtHand
<1>4. /\ i \in DOMAIN EffectiveChain(CurrentTask.risk) /\ provider \in eligible
      /\ provider # Primary => Primary \in failed
      /\ provider = Primary => Primary \notin failed
  BY <1>1, <1>2, <1>3, Turns
<1>5. /\ \E n \in DOMAIN Chain(CurrentTask.risk) : Chain(CurrentTask.risk)[n] = provider
      /\ force \in {NoForce, provider}
  BY <1>2, <1>3, <1>4, EffectiveChains
<1>6. CurrentTask.risk = "high" => provider = "claude"
  BY <1>3, <1>5, Chains
<1>7. /\ c.task = Current /\ c.status = status /\ c.provider = provider
      /\ c.primary = Primary /\ (c.primaryFailed <=> Primary \in failed)
  BY AnswerTypes
<1> HIDE DEF provider, c
<1> QED
  BY <1>3, <1>4, <1>5, <1>6, <1>7 DEF Routed, IsFallback, c, provider

LEMMA RoutedKept ==
  ASSUME RoutedByPolicy, UNCHANGED <<input, changes>>,
         cause' = cause \/ (caller = "preview" => cause' # "policy")
  PROVE  RoutedByPolicy'
BY InputKept DEF RoutedByPolicy, Routed, Chain

LEMMA RoutedMore ==
  ASSUME TypeOK, RoutedByPolicy, NEW c, changes' = Append(changes, c),
         c.provider # "nobody" => Routed(c), UNCHANGED <<input, cause>>
  PROVE  RoutedByPolicy'
<1>1. \A k \in DOMAIN changes' : changes'[k] = c \/ (k \in DOMAIN changes /\ changes'[k] = changes[k])
  <2>1. changes \in Seq(FileChange)
    BY DEF TypeOK
  <2> QED
    BY <2>1
<1>2. \A d : Routed(d)' <=> Routed(d)
  BY InputKept DEF Routed, Chain
<1> QED
  BY <1>1, <1>2, InputKept DEF RoutedByPolicy

LEMMA RoutedStep == TypeInv /\ RoutedByPolicy /\ [Next]_vars => RoutedByPolicy'
<1> SUFFICES ASSUME TypeInv, RoutedByPolicy, [Next]_vars PROVE RoutedByPolicy'
  OBVIOUS
<1>0. /\ TypeOK /\ Places /\ writes \in Nat /\ "error" \in TaskStatus /\ "noop" \in TaskStatus
      /\ "pending" \in TaskStatus /\ "applied" \in TaskStatus /\ "skipped" \in TaskStatus
  BY DEF TypeInv, TypeOK, TaskStatus
<1>1. CASE Refuse \/ Order \/ Cycle \/ RunTasks \/ StartTask \/ EndTask \/ Finish
  BY <1>1, RoutedKept DEF Refuse, Order, Cycle, Raise, RunTasks, StartTask, EndTask, Finish
<1>2. CASE Begin
  BY <1>2, RoutedKept DEF Begin, Faults
<1>3. CASE SkipTask
  <2>1. changes' = Append(changes, Unanswered(CurrentTask.files[1], "skipped"))
        /\ UNCHANGED <<input, cause>>
    BY <1>3 DEF SkipTask
  <2>2. Unanswered(CurrentTask.files[1], "skipped").provider = "nobody"
    BY DEF Unanswered, Change
  <2> QED
    BY <1>0, <2>1, <2>2, RoutedMore
<1>4. CASE StopAtFile
  <2>1. CASE Raise("unsafe path")
    BY <2>1, RoutedKept DEF Raise
  <2>2. CASE ~Admissible(CurrentTask.risk) /\ Raise("policy")
    <3>1. pc = "file" /\ at <= Len(order) /\ (caller = "preview" => Preflight)
      BY <1>0, <1>4 DEF StopAtFile, AtFile, Places, Running, InTasks
    <3>2. CurrentTask.risk \in RisksOf(plan)
      BY <1>0, <3>1, TaskAtHand DEF RisksOf
    <3>3. caller # "preview"
      BY <2>2, <3>1, <3>2 DEF Preflight
    <3> QED
      BY <2>2, <3>3, RoutedKept DEF Raise
  <2> QED
    BY <1>4, <2>1, <2>2 DEF StopAtFile
<1>5. CASE TooLarge
  <2>1. changes' = Append(changes, Unanswered(CurrentFile, "error")) /\ UNCHANGED <<input, cause>>
    BY <1>5 DEF TooLarge, Record
  <2>2. Unanswered(CurrentFile, "error").provider = "nobody"
    BY DEF Unanswered, Change
  <2> QED
    BY <1>0, <2>1, <2>2, RoutedMore
<1>6. CASE StartFile \/ Fails \/ Explodes
  BY <1>6, RoutedKept DEF StartFile, Fails, Explodes, Raise
<1>7. CASE Exhausted
  <2>1. CASE Record(Unanswered(CurrentFile, "error"))
    <3>1. changes' = Append(changes, Unanswered(CurrentFile, "error")) /\ UNCHANGED <<input, cause>>
      BY <2>1 DEF Record
    <3>2. Unanswered(CurrentFile, "error").provider = "nobody"
      BY DEF Unanswered, Change
    <3> QED
      BY <1>0, <3>1, <3>2, RoutedMore
  <2>2. CASE UNCHANGED <<input, cause, changes>>
    BY <2>2, RoutedKept
  <2> QED
    BY <1>7, <2>1, <2>2 DEF Exhausted
<1>8. ASSUME NEW status \in TaskStatus, NEW to \in Nat, NEW i \in 1 .. 3, Turn(i),
             status = "applied" => CurrentTask.risk # "high",
             status = "pending" => CurrentTask.risk = "high",
             Record(Change(CurrentFile, status, to, EffectiveChain(CurrentTask.risk)[i], Primary))
      PROVE  RoutedByPolicy'
  <2> DEFINE c == Change(CurrentFile, status, to, EffectiveChain(CurrentTask.risk)[i], Primary)
  <2>1. Routed(c)
    BY <1>8, AnswerRouted
  <2>2. changes' = Append(changes, c) /\ UNCHANGED <<input, cause>>
    BY <1>8 DEF Record
  <2> HIDE DEF c
  <2> QED
    BY <1>0, <2>1, <2>2, RoutedMore
<1>9. CASE Broken
  <2>1. Absent \in Nat
    BY DEF Absent
  <2> QED
    BY <1>0, <1>8, <1>9, <2>1 DEF Broken
<1>10. CASE Unchanged
  <2>1. CurrentFile \in File
    <3>1. pc = "call"
      BY <1>10 DEF Unchanged, Turn
    <3> QED
      BY <1>0, <3>1, FileAtHand DEF Places
  <2>2. Original(CurrentFile) \in Nat
    BY <1>0, <2>1 DEF TypeOK, Original, Target, Absent, OnTarget
  <2> QED
    BY <1>0, <1>8, <1>10, <2>2 DEF Unchanged
<1>11. CASE Edited
  <2> DEFINE status == IF CurrentTask.risk = "high" THEN "pending" ELSE "applied"
  <2>1. PICK i \in 1 .. 3 :
          /\ Turn(i) /\ writes' = writes + 1
          /\ Record(Change(CurrentFile, status, writes', EffectiveChain(CurrentTask.risk)[i], Primary))
    BY <1>11 DEF Edited
  <2>2. status \in TaskStatus /\ writes' \in Nat
    BY <1>0, <2>1
  <2> QED
    BY <1>8, <2>1, <2>2
<1>12. CASE Crash
  BY <1>12, RoutedKept DEF Crash
<1>13. CASE Rerun
  <2>1. changes' = << >> /\ cause' = "none"
    BY <1>13 DEF Rerun, Override
  <2> QED
    BY <2>1 DEF RoutedByPolicy
<1>14. CASE UNCHANGED vars
  BY <1>14, RoutedKept DEF vars
<1> QED
  BY <1>1, <1>2, <1>3, <1>4, <1>5, <1>6, <1>7, <1>9, <1>10, <1>11, <1>12, <1>13, <1>14
  DEF Next, Work, Schedule, Files, Answers

(* The provider policy is obeyed by every answer, and preview never stops    *)
(* half way because of it, for every plan and every set of credentials.      *)
THEOREM RoutingCorrect == Spec => []RoutedByPolicy
<1>1. Init => RoutedByPolicy
  BY DEF Init, RoutedByPolicy
<1> QED
  BY <1>1, Begins, TypesStep, RoutedStep, PTL DEF Spec

-----------------------------------------------------------------------------

(* Every task comes once, and after the tasks it needs.                      *)
Sorted ==
  \A k \in DOMAIN order :
    /\ \A l \in DOMAIN order : order[l] = order[k] => l = k
    /\ \A j \in DepsOf(order[k]) : \E l \in DOMAIN order : l < k /\ order[l] = j

(* The tasks before the current one are decided, and no other.               *)
DecidedPrefix ==
  pc \in InTasks =>
    \A i \in DOMAIN plan :
      results[i] # "none" <=> \E k \in DOMAIN order : k < at /\ order[k] = i

Unblocked == pc \in {"file", "call"} => ~Blocked(Current)

StopInv == DependentsStop /\ Sorted /\ DecidedPrefix /\ Unblocked

(* Steps that decide nothing.                                                *)
LEMMA StopKept ==
  ASSUME StopInv, UNCHANGED <<input, order, at, results>>,
         pc' \in InTasks => pc \in InTasks,
         pc' \in {"file", "call"} => pc \in {"file", "call"} \/ ~Blocked(Current)
  PROVE  StopInv'
<1>1. \A i : DepsOf(i)' = DepsOf(i) /\ (Decided(i)' <=> Decided(i)) /\ (Blocked(i)' <=> Blocked(i))
  BY InputKept DEF DepsOf, Decided, Blocked
<1>2. DependentsStop'
  BY <1>1, InputKept DEF StopInv, DependentsStop
<1>3. Sorted'
  BY <1>1 DEF StopInv, Sorted
<1>4. DecidedPrefix'
  BY InputKept DEF StopInv, DecidedPrefix
<1>5. Unblocked'
  BY <1>1 DEF StopInv, Unblocked, Current
<1> QED
  BY <1>2, <1>3, <1>4, <1>5 DEF StopInv

LEMMA OrderSorted == TypeInv /\ StopInv /\ Order => StopInv'
<1> SUFFICES ASSUME TypeInv, StopInv, Order PROVE StopInv'
  OBVIOUS
<1>1. PICK i \in Ready : order' = Append(order, i)
  BY DEF Order, PickReady, IsFirst
<1>2. UNCHANGED <<input, pc, at, results>> /\ pc = "ordering"
  BY DEF Order
<1>3. order \in Seq(DOMAIN plan)
  BY DEF TypeInv, TypeOK
<1>4. /\ DOMAIN order' = DOMAIN order \cup {Len(order) + 1}
      /\ \A k \in DOMAIN order : k < Len(order) + 1 /\ order'[k] = order[k]
      /\ order'[Len(order) + 1] = i
      /\ Len(order) + 1 \notin DOMAIN order
  BY <1>1, <1>3 DEF Ready
<1>5. \A j : DepsOf(j)' = DepsOf(j) /\ (Decided(j)' <=> Decided(j))
  BY <1>2, InputKept DEF DepsOf, Decided
<1>6. /\ \A k \in DOMAIN order : order[k] # i
      /\ \A j \in DepsOf(i) : \E l \in DOMAIN order : order[l] = j
  BY DEF Ready, Ordered
<1>7. Sorted'
  <2> SUFFICES ASSUME NEW k \in DOMAIN order'
               PROVE  /\ \A l \in DOMAIN order' : order'[l] = order'[k] => l = k
                      /\ \A j \in DepsOf(order'[k]) :
                           \E l \in DOMAIN order' : l < k /\ order'[l] = j
    BY <1>5 DEF Sorted
  <2>1. CASE k \in DOMAIN order
    BY <1>4, <1>6, <2>1 DEF StopInv, Sorted
  <2>2. CASE k = Len(order) + 1
    BY <1>4, <1>6, <2>2
  <2> QED
    BY <1>4, <2>1, <2>2
<1>8. DependentsStop'
  BY <1>2, <1>5, InputKept DEF StopInv, DependentsStop
<1> QED
  BY <1>2, <1>7, <1>8 DEF StopInv, DecidedPrefix, Unblocked, InTasks

(* The current task is decided: skipped if what it needs is missing.         *)
LEMMA Decide ==
  ASSUME TypeInv, StopInv, pc \in InTasks, at <= Len(order), NEW status \in TaskStatus,
         results' = [results EXCEPT ![Current] = status], at' = at + 1, pc' = "task",
         UNCHANGED <<input, order>>, status = "skipped" <=> Blocked(Current)
  PROVE  StopInv'
<1>1. /\ results \in [DOMAIN plan -> TaskStatus \cup {"none"}]
      /\ at \in DOMAIN order /\ Current \in DOMAIN plan /\ Current = order[at]
      /\ order \in Seq(DOMAIN plan) /\ at \in Nat
  BY TaskAtHand DEF TypeInv, TypeOK, Places, Current
<1>2. /\ \A i \in DOMAIN plan : i # Current => results'[i] = results[i]
      /\ results'[Current] = status /\ status # "none"
      /\ DOMAIN results' = DOMAIN plan
  BY <1>1 DEF TaskStatus
<1>3. \A i : DepsOf(i)' = DepsOf(i) /\ DepsOf(i) \subseteq DOMAIN plan
  BY InputKept DEF DepsOf
<1>4. \A i \in DOMAIN plan : /\ Decided(i) <=> results[i] # "none"
                             /\ Decided(i)' <=> results'[i] # "none"
  <2>1. DOMAIN << >> = {}
    OBVIOUS
  <2> QED
    BY <1>1, <1>2, <2>1 DEF Decided
<1>5. results[Current] = "none"
  <2> SUFFICES ASSUME results[Current] # "none" PROVE FALSE
    OBVIOUS
  <2>1. PICK k \in DOMAIN order : k < at /\ order[k] = Current
    BY <1>1 DEF StopInv, DecidedPrefix
  <2> QED
    BY <1>1, <2>1 DEF StopInv, Sorted
<1>6. \A j \in DepsOf(Current) : j # Current /\ results[j] # "none"
  <2> SUFFICES ASSUME NEW j \in DepsOf(Current) PROVE j # Current /\ results[j] # "none"
    OBVIOUS
  <2>1. PICK l \in DOMAIN order : l < at /\ order[l] = j
    BY <1>1 DEF StopInv, Sorted
  <2>2. results[j] # "none"
    BY <1>3, <2>1 DEF StopInv, DecidedPrefix
  <2> QED
    BY <1>5, <2>2
<1>7. DependentsStop'
  <2> SUFFICES ASSUME NEW i \in DOMAIN plan, results'[i] # "none"
               PROVE  /\ \A j \in DepsOf(i) : results'[j] # "none"
                      /\ results'[i] = "skipped" <=>
                           \E j \in DepsOf(i) : results'[j] \in {"error", "skipped", "pending"}
    BY <1>3, <1>4, InputKept DEF DependentsStop
  <2>1. CASE i = Current
    BY <1>2, <1>3, <1>6, <2>1 DEF Blocked, Blocking
  <2>2. CASE i # Current
    <3>1. /\ \A j \in DepsOf(i) : results[j] # "none"
          /\ results[i] = "skipped" <=>
               \E j \in DepsOf(i) : results[j] \in {"error", "skipped", "pending"}
      BY <1>2, <1>3, <1>4, <2>2 DEF StopInv, DependentsStop
    <3>2. \A j \in DepsOf(i) : j # Current
      BY <1>5, <3>1
    <3> QED
      BY <1>2, <1>3, <2>2, <3>1, <3>2
  <2> QED
    BY <2>1, <2>2
<1>8. Sorted'
  BY <1>3 DEF StopInv, Sorted
<1>9. DecidedPrefix'
  <2> SUFFICES ASSUME NEW i \in DOMAIN plan
               PROVE  results'[i] # "none" <=>
                        \E k \in DOMAIN order : k < at + 1 /\ order[k] = i
    BY InputKept DEF DecidedPrefix
  <2>1. \A k \in DOMAIN order : k < at + 1 <=> k < at \/ k = at
    BY <1>1
  <2>2. CASE i = Current
    BY <1>1, <1>2, <2>1, <2>2
  <2>3. CASE i # Current
    BY <1>1, <1>2, <2>1, <2>3 DEF StopInv, DecidedPrefix
  <2> QED
    BY <2>2, <2>3
<1> QED
  BY <1>7, <1>8, <1>9 DEF StopInv, Unblocked

LEMMA StopStep == TypeInv /\ StopInv /\ [Next]_vars => StopInv'
<1> SUFFICES ASSUME TypeInv, StopInv, [Next]_vars PROVE StopInv'
  OBVIOUS
<1>0. TypeOK /\ Places
  BY DEF TypeInv
<1>1. CASE Refuse \/ Begin \/ Cycle \/ Finish \/ StopAtFile \/ Explodes \/ Crash
  BY <1>1, StopKept
  DEF Refuse, Begin, Cycle, Finish, StopAtFile, Explodes, Crash, Raise, scheduler, InTasks
<1>2. CASE StartTask
  BY <1>2, StopKept DEF StartTask, scheduler, InTasks
<1>3. CASE TooLarge \/ Broken \/ Unchanged \/ Edited
  BY <1>3, StopKept
  DEF TooLarge, AtFile, Broken, Unchanged, Edited, Turn, Record, scheduler, InTasks
<1>4. CASE StartFile \/ Fails
  BY <1>4, StopKept DEF StartFile, AtFile, Fails, Turn, scheduler, InTasks
<1>5. CASE Exhausted
  BY <1>5, StopKept DEF Exhausted, Record, scheduler, InTasks
<1>6. CASE Order
  BY <1>6, OrderSorted
<1>7. CASE RunTasks
  <2>1. /\ UNCHANGED <<input, order, at>> /\ pc = "ordering" /\ pc' = "task"
        /\ results' = [i \in DOMAIN plan |-> "none"]
    BY <1>7 DEF RunTasks
  <2>2. at = 1 /\ order \in Seq(DOMAIN plan)
    BY <1>0, <2>1 DEF Places, TypeOK
  <2>3. \A i \in DOMAIN plan : results'[i] = "none" /\ ~Decided(i)'
    BY <2>1 DEF Decided
  <2>4. DependentsStop'
    BY <2>1, <2>3, InputKept DEF DependentsStop
  <2>5. Sorted'
    BY <2>1, InputKept DEF StopInv, Sorted, DepsOf
  <2>6. \A k \in DOMAIN order : ~(k < 1)
    BY <2>2
  <2>7. DecidedPrefix'
    BY <2>1, <2>2, <2>3, <2>6, InputKept DEF DecidedPrefix
  <2> QED
    BY <2>1, <2>4, <2>5, <2>7 DEF StopInv, Unblocked
<1>8. CASE SkipTask
  BY <1>8, Decide DEF SkipTask, InTasks, TaskStatus
<1>9. CASE EndTask
  <2>1. /\ UNCHANGED <<input, order>> /\ pc = "file" /\ pc' = "task" /\ at' = at + 1
        /\ results' = [results EXCEPT ![Current] = Worst(statuses)]
    BY <1>9 DEF EndTask
  <2>2. Worst(statuses) \in TaskStatus /\ Worst(statuses) # "skipped"
    BY DEF Worst, TaskStatus
  <2>3. at <= Len(order) /\ ~Blocked(Current)
    BY <1>0, <2>1 DEF Places, StopInv, Unblocked
  <2> QED
    BY <2>1, <2>2, <2>3, Decide DEF InTasks
<1>10. CASE Rerun
  <2>1. order' = << >> /\ results' = << >> /\ pc' = "idle"
    BY <1>10 DEF Rerun
  <2> QED
    BY <2>1 DEF StopInv, DependentsStop, Decided, Sorted, DecidedPrefix, Unblocked, InTasks
<1>11. CASE UNCHANGED vars
  BY <1>11, StopKept DEF vars, scheduler
<1> QED
  BY <1>1, <1>2, <1>3, <1>4, <1>5, <1>6, <1>7, <1>8, <1>9, <1>10, <1>11
  DEF Next, Work, Schedule, Files, Answers

(* A task that failed stops everything that needs it and nothing else, in    *)
(* every plan, whatever the order its tasks are listed in.                   *)
THEOREM StoppingCorrect == Spec => []DependentsStop
<1>1. Init => StopInv
  BY DEF Init, StopInv, DependentsStop, Decided, Sorted, DecidedPrefix, Unblocked, InTasks
<1>2. StopInv => DependentsStop
  BY DEF StopInv
<1> QED
  BY <1>1, <1>2, Begins, TypesStep, StopStep, PTL DEF Spec

-----------------------------------------------------------------------------

Active == {"ordering", "task", "file", "call", "done"}

(* A staged content is no missing file.                                      *)
Written == /\ writes >= OnTarget
           /\ \A k \in WithStatus("applied") : changes[k].to # Absent

RebuildInv == StagingFollowsChanges /\ Written

(* Steps that change neither the changes nor the staging directory.          *)
LEMMA RebuildKept ==
  ASSUME RebuildInv, UNCHANGED <<changes, staging, writes>>, pc' \in Active => pc \in Active
  PROVE  RebuildInv'
<1>1. WithStatus("applied")' = WithStatus("applied")
  BY DEF WithStatus
<1>2. StagingFollowsChanges'
  BY <1>1 DEF RebuildInv, StagingFollowsChanges, Active
<1>3. Written'
  BY <1>1 DEF RebuildInv, Written
<1> QED
  BY <1>2, <1>3 DEF RebuildInv

(* A change more, and what it does to the applied ones.                      *)
LEMMA OneMore ==
  ASSUME NEW cs \in Seq(FileChange), NEW c \in FileChange
  PROVE  /\ Len(cs) \in Nat /\ Len(Append(cs, c)) = Len(cs) + 1
         /\ Append(cs, c)[Len(cs) + 1] = c /\ Len(cs) + 1 \notin DOMAIN cs
         /\ DOMAIN Append(cs, c) = DOMAIN cs \cup {Len(cs) + 1}
         /\ \A k \in DOMAIN cs : /\ Append(cs, c)[k] = cs[k]
                                 /\ k \in Nat /\ k <= Len(cs) /\ k - 1 \in 0 .. Len(cs)
OBVIOUS

LEMMA AppliedBefore ==
  ASSUME NEW cs \in Seq(FileChange), NEW c \in FileChange, NEW f, NEW n \in 0 .. Len(cs)
  PROVE  AppliedTo(Append(cs, c), f, n) = AppliedTo(cs, f, n)
<1>1. ~(Len(cs) + 1 <= n)
  BY OneMore
<1> QED
  BY <1>1, OneMore DEF AppliedTo

LEMMA AppliedNow ==
  ASSUME NEW cs \in Seq(FileChange), NEW c \in FileChange, NEW f
  PROVE  AppliedTo(Append(cs, c), f, Len(cs) + 1) =
           AppliedTo(cs, f, Len(cs)) \cup {k \in {Len(cs) + 1} : c.status = "applied" /\ c.file = f}
<1> DEFINE ds == Append(cs, c)
           m == Len(cs) + 1
<1>1. /\ DOMAIN ds = DOMAIN cs \cup {m} /\ ds[m] = c /\ m <= m
      /\ \A k \in DOMAIN cs : ds[k] = cs[k] /\ k <= Len(cs) /\ k <= m /\ k # m
  BY OneMore
<1> HIDE DEF ds, m
<1>2. AppliedTo(ds, f, m) = AppliedTo(cs, f, Len(cs)) \cup
        {k \in {m} : c.status = "applied" /\ c.file = f}
  BY <1>1 DEF AppliedTo
<1> QED
  BY <1>2 DEF ds, m

(* The changes before it lead where they led.                                *)
LEMMA LeadsOn ==
  ASSUME NEW cs \in Seq(FileChange), NEW c \in FileChange,
         NEW f, NEW n \in 0 .. Len(cs), NEW first, NEW content,
         LeadsTo(cs, f, n, first, content)
  PROVE  LeadsTo(Append(cs, c), f, n, first, content)
<1>1. AppliedTo(Append(cs, c), f, n) = AppliedTo(cs, f, n)
  BY AppliedBefore
<1>2. \A k \in AppliedTo(cs, f, n) : Append(cs, c)[k] = cs[k]
  BY OneMore DEF AppliedTo
<1> QED
  BY <1>1, <1>2 DEF LeadsTo

(* One more change of another file, or one that is not applied.              *)
LEMMA LeadsPast ==
  ASSUME NEW cs \in Seq(FileChange), NEW c \in FileChange,
         NEW f, NEW first, NEW content, c.status # "applied" \/ c.file # f,
         LeadsTo(cs, f, Len(cs), first, content)
  PROVE  LeadsTo(Append(cs, c), f, Len(cs) + 1, first, content)
<1> DEFINE new == {k \in {Len(cs) + 1} : c.status = "applied" /\ c.file = f}
<1>1. new = {}
  OBVIOUS
<1>2. AppliedTo(Append(cs, c), f, Len(cs) + 1) = AppliedTo(cs, f, Len(cs)) \cup new
  BY AppliedNow
<1> HIDE DEF new
<1>3. AppliedTo(Append(cs, c), f, Len(cs) + 1) = AppliedTo(cs, f, Len(cs))
  BY <1>1, <1>2
<1>4. \A k \in AppliedTo(cs, f, Len(cs)) : Append(cs, c)[k] = cs[k]
  BY OneMore DEF AppliedTo
<1> QED
  BY <1>3, <1>4 DEF LeadsTo

(* One more applied change leads to its own content.                         *)
LEMMA LeadsHere ==
  ASSUME NEW cs \in Seq(FileChange), NEW c \in FileChange, c.status = "applied", NEW first
  PROVE  LeadsTo(Append(cs, c), c.file, Len(cs) + 1, first, c.to)
<1> DEFINE m == Len(cs) + 1
<1>1. AppliedTo(Append(cs, c), c.file, m) = AppliedTo(cs, c.file, Len(cs)) \cup {m}
  BY AppliedNow
<1>2. \A k \in AppliedTo(cs, c.file, Len(cs)) : k <= m
  BY OneMore DEF AppliedTo
<1>3. m <= m /\ Append(cs, c)[m] = c
  BY OneMore
<1> HIDE DEF m
<1>4. IsLast(m, AppliedTo(Append(cs, c), c.file, m))
  BY <1>1, <1>2, <1>3 DEF IsLast
<1>5. LeadsTo(Append(cs, c), c.file, m, first, c.to)
  BY <1>3, <1>4 DEF LeadsTo, IsLast
<1> QED
  BY <1>5 DEF m

(* The applied changes still follow one another.                             *)
LEMMA FollowOn ==
  ASSUME TypeOK, StagingFollowsChanges, pc \in Active, NEW c \in FileChange
  PROVE  LET ds == Append(changes, c)
         IN  \A k \in WithStatus("applied") :
               /\ ds[k] = changes[k] /\ k \in DOMAIN changes
               /\ LeadsTo(ds, ds[k].file, k - 1, Target(ds[k].file), ds[k].from)
<1>1. changes \in Seq(FileChange)
  BY DEF TypeOK
<1>2. ASSUME NEW k \in WithStatus("applied")
      PROVE  /\ Append(changes, c)[k] = changes[k] /\ k \in DOMAIN changes
             /\ LeadsTo(Append(changes, c), changes[k].file, k - 1, Target(changes[k].file),
                        changes[k].from)
  <2>1. k \in DOMAIN changes /\ k - 1 \in 0 .. Len(changes) /\ Append(changes, c)[k] = changes[k]
    BY <1>1, OneMore DEF WithStatus
  <2>2. LeadsTo(changes, changes[k].file, k - 1, Target(changes[k].file), changes[k].from)
    BY DEF StagingFollowsChanges, Active
  <2> QED
    BY <1>1, <2>1, <2>2, LeadsOn
<1> QED
  BY <1>2

(* A change that is not applied does not disturb the others.                 *)
LEMMA NotApplied ==
  ASSUME TypeOK, RebuildInv, NEW c \in FileChange, c.status # "applied",
         changes' = Append(changes, c), UNCHANGED staging, writes' \in {writes, writes + 1},
         pc \in Active
  PROVE  RebuildInv'
<1>1. changes \in Seq(FileChange) /\ Len(changes') = Len(changes) + 1
  <2>1. changes \in Seq(FileChange)
    BY DEF TypeOK
  <2> QED
    BY <2>1, OneMore
<1>2. WithStatus("applied")' = WithStatus("applied")
  BY <1>1, OneMore DEF WithStatus
<1>3. \A k \in WithStatus("applied") :
        /\ changes'[k] = changes[k]
        /\ LeadsTo(changes', changes'[k].file, k - 1, Target(changes'[k].file), changes'[k].from)
  BY FollowOn DEF RebuildInv
<1>4. ASSUME NEW f \in File PROVE LeadsTo(changes', f, Len(changes'), Absent, staging'[f])
  <2>1. LeadsTo(changes, f, Len(changes), Absent, staging[f])
    BY DEF RebuildInv, StagingFollowsChanges, Active
  <2> QED
    BY <1>1, <2>1, LeadsPast
<1>5. StagingFollowsChanges'
  BY <1>2, <1>3, <1>4 DEF StagingFollowsChanges
<1>6. writes' >= OnTarget
  <2>1. writes \in Nat /\ writes >= 1
    BY DEF TypeOK, RebuildInv, Written, OnTarget
  <2> QED
    BY <2>1 DEF OnTarget
<1>7. Written'
  BY <1>2, <1>3, <1>6 DEF RebuildInv, Written
<1> QED
  BY <1>5, <1>7 DEF RebuildInv

(* An applied change takes the file from what is staged, or from the target, *)
(* to what is staged then.                                                   *)
LEMMA Applied ==
  ASSUME TypeOK, RebuildInv, NEW c \in FileChange, c.status = "applied",
         c.from = Original(c.file), c.to = writes', writes' = writes + 1,
         changes' = Append(changes, c), staging' = [staging EXCEPT ![c.file] = c.to],
         pc \in Active
  PROVE  RebuildInv'
<1>1. changes \in Seq(FileChange) /\ Len(changes') = Len(changes) + 1
      /\ staging \in [File -> Nat] /\ writes \in Nat
  <2>1. changes \in Seq(FileChange) /\ staging \in [File -> Nat] /\ writes \in Nat
    BY DEF TypeOK
  <2> QED
    BY <2>1, OneMore
<1>2. writes' >= OnTarget /\ c.to # Absent
  <2>1. writes >= 1
    BY DEF RebuildInv, Written, OnTarget
  <2> QED
    BY <1>1, <2>1 DEF OnTarget, Absent
<1>3. WithStatus("applied")' = WithStatus("applied") \cup {Len(changes) + 1}
      /\ changes'[Len(changes) + 1] = c
  BY <1>1, OneMore DEF WithStatus
<1>4. \A k \in WithStatus("applied") :
        /\ changes'[k] = changes[k]
        /\ LeadsTo(changes', changes'[k].file, k - 1, Target(changes'[k].file), changes'[k].from)
  BY FollowOn DEF RebuildInv
<1>5. \A f \in File : LeadsTo(changes, f, Len(changes), Absent, staging[f])
  BY DEF RebuildInv, StagingFollowsChanges, Active
<1>6. c.file \in File
  BY DEF FileChange
<1>7. ASSUME NEW f \in File PROVE LeadsTo(changes', f, Len(changes) + 1, Absent, staging'[f])
  <2>1. CASE f = c.file
    <3>1. staging'[f] = c.to
      BY <1>1, <1>6, <2>1
    <3> QED
      BY <1>1, <2>1, <3>1, LeadsHere
  <2>2. CASE f # c.file
    <3>1. staging'[f] = staging[f]
      BY <1>1, <2>2
    <3> QED
      BY <1>1, <1>5, <2>2, <3>1, LeadsPast
  <2> QED
    BY <2>1, <2>2
<1>8. LeadsTo(changes, c.file, Len(changes), Target(c.file), c.from)
  <2>1. LeadsTo(changes, c.file, Len(changes), Absent, staging[c.file])
    BY <1>5, <1>6
  <2>2. \A k \in AppliedTo(changes, c.file, Len(changes)) : changes[k].to # Absent
    BY DEF RebuildInv, Written, AppliedTo, WithStatus
  <2> QED
    BY <2>1, <2>2 DEF LeadsTo, Original
<1>9. LeadsTo(changes', c.file, (Len(changes) + 1) - 1, Target(c.file), c.from)
  <2>1. (Len(changes) + 1) - 1 = Len(changes) /\ Len(changes) \in 0 .. Len(changes)
    BY <1>1
  <2> QED
    BY <1>1, <1>8, <2>1, LeadsOn
<1>10. StagingFollowsChanges'
  BY <1>1, <1>3, <1>4, <1>7, <1>9 DEF StagingFollowsChanges
<1>11. Written'
  BY <1>2, <1>3, <1>4 DEF RebuildInv, Written
<1> QED
  BY <1>10, <1>11 DEF RebuildInv

LEMMA RebuildStep == TypeInv /\ RebuildInv /\ [Next]_vars => RebuildInv'
<1> SUFFICES ASSUME TypeInv, RebuildInv, [Next]_vars PROVE RebuildInv'
  OBVIOUS
<1>0. /\ TypeOK /\ Places /\ writes \in Nat
      /\ "error" \in TaskStatus /\ "noop" \in TaskStatus /\ "skipped" \in TaskStatus
      /\ "pending" \in TaskStatus /\ "applied" \in TaskStatus
  BY DEF TypeInv, TypeOK, TaskStatus
<1>1. CASE Refuse \/ Order \/ Cycle \/ RunTasks \/ StartTask \/ EndTask \/ Finish
  BY <1>1, RebuildKept
  DEF Refuse, Order, Cycle, Raise, RunTasks, StartTask, EndTask, Finish, Active
<1>2. CASE StopAtFile \/ StartFile \/ Fails \/ Explodes \/ Crash
  BY <1>2, RebuildKept DEF StopAtFile, AtFile, StartFile, Fails, Explodes, Turn, Raise, Crash, Active
<1>3. CASE Begin
  <2>1. changes' = << >> /\ UNCHANGED writes
    BY <1>0, <1>3 DEF Begin, Started, Places
  <2>2. pc' \in Active => staging' = [f \in File |-> Absent]
    <3>1. caller \in {"preview", "ci", "worker"}
      BY <1>0 DEF TypeOK
    <3>2. pc' \in Active => Faults = "none"
      BY <1>3 DEF Begin, Active
    <3>3. Faults = "none" => caller # "worker"
      BY DEF Faults, Misbound
    <3> QED
      BY <1>3, <3>1, <3>2, <3>3 DEF Begin, FreshStaging
  <2>3. StagingFollowsChanges'
    <3>1. \A f, n : AppliedTo(<< >>, f, n) = {}
      BY DEF AppliedTo
    <3> QED
      BY <2>1, <2>2, <3>1 DEF StagingFollowsChanges, Active, LeadsTo, WithStatus
  <2> QED
    BY <2>1, <2>3 DEF RebuildInv, Written, WithStatus
<1>4. CASE SkipTask
  <2>1. pc = "task" /\ at <= Len(order)
        /\ changes' = Append(changes, Unanswered(CurrentTask.files[1], "skipped"))
        /\ UNCHANGED <<staging, writes>>
    BY <1>4 DEF SkipTask
  <2>2. Unanswered(CurrentTask.files[1], "skipped") \in FileChange
        /\ Unanswered(CurrentTask.files[1], "skipped").status = "skipped"
    <3>1. CurrentTask.files \in Seq(File) /\ CurrentTask.files # << >>
      BY <1>0, <2>1, TaskAtHand DEF Places, Running, InTasks, NamesFiles
    <3>2. CurrentTask.files[1] \in File
      BY <3>1
    <3> QED
      BY <1>0, <2>1, <3>2, UnansweredTypes
  <2> QED
    BY <1>0, <2>1, <2>2, NotApplied DEF Active
<1>5. ASSUME pc \in {"file", "call"}, fileAt <= Len(CurrentTask.files),
             Record(Unanswered(CurrentFile, "error")), UNCHANGED <<staging, writes>>
      PROVE  RebuildInv'
  <2>1. at <= Len(order)
    BY <1>0, <1>5 DEF Places
  <2>2. Unanswered(CurrentFile, "error") \in FileChange
        /\ Unanswered(CurrentFile, "error").status = "error"
    BY <1>0, <1>5, <2>1, FileAtHand, UnansweredTypes
  <2> QED
    BY <1>0, <1>5, <2>2, NotApplied DEF Record, Active
<1>6. CASE TooLarge
  BY <1>5, <1>6 DEF TooLarge, AtFile
<1>7. CASE Exhausted
  <2>1. pc = "call" /\ fileAt <= Len(CurrentTask.files) /\ UNCHANGED <<staging, writes>>
    BY <1>0, <1>7 DEF Exhausted, Places
  <2>2. CASE Record(Unanswered(CurrentFile, "error"))
    BY <1>5, <2>1, <2>2
  <2>3. CASE UNCHANGED <<pc, changes>>
    BY <2>1, <2>3, RebuildKept
  <2> QED
    BY <1>7, <2>2, <2>3 DEF Exhausted
<1>8. ASSUME NEW status \in TaskStatus, status # "applied", NEW to \in Nat, NEW i \in 1 .. 3,
             Turn(i), UNCHANGED <<staging, writes>>,
             Record(Change(CurrentFile, status, to, EffectiveChain(CurrentTask.risk)[i], Primary))
      PROVE  RebuildInv'
  <2> DEFINE c == Change(CurrentFile, status, to, EffectiveChain(CurrentTask.risk)[i], Primary)
  <2>1. c \in FileChange /\ c.status = status
    BY <1>8, AnswerTypes
  <2>2. changes' = Append(changes, c) /\ UNCHANGED <<staging, writes>> /\ pc = "call"
    BY <1>8 DEF Record, Turn
  <2> HIDE DEF c
  <2> QED
    BY <1>0, <1>8, <2>1, <2>2, NotApplied DEF Active
<1>9. CASE Broken
  <2>1. Absent \in Nat
    BY DEF Absent
  <2> QED
    BY <1>0, <1>8, <1>9, <2>1 DEF Broken
<1>10. CASE Unchanged
  <2>1. CurrentFile \in File
    <3>1. pc = "call"
      BY <1>10 DEF Unchanged, Turn
    <3> QED
      BY <1>0, <3>1, FileAtHand DEF Places
  <2>2. Original(CurrentFile) \in Nat
    BY <1>0, <2>1 DEF TypeOK, Original, Target, Absent, OnTarget
  <2> QED
    BY <1>0, <1>8, <1>10, <2>2 DEF Unchanged
<1>11. CASE Edited
  <2> DEFINE status == IF CurrentTask.risk = "high" THEN "pending" ELSE "applied"
  <2>1. PICK i \in 1 .. 3 :
          /\ Turn(i) /\ writes' = writes + 1 /\ Stage(writes')
          /\ Record(Change(CurrentFile, status, writes', EffectiveChain(CurrentTask.risk)[i], Primary))
    BY <1>11 DEF Edited
  <2> DEFINE c == Change(CurrentFile, status, writes', EffectiveChain(CurrentTask.risk)[i], Primary)
  <2>2. status \in TaskStatus /\ writes' \in Nat
    BY <1>0, <2>1
  <2>3. /\ c \in FileChange /\ c.status = status /\ c.file = CurrentFile
        /\ c.from = Original(CurrentFile) /\ c.to = writes'
    BY <2>1, <2>2, AnswerTypes
  <2>4. changes' = Append(changes, c) /\ pc = "call"
    BY <2>1 DEF Record, Turn
  <2> HIDE DEF c
  <2>5. CASE CurrentTask.risk # "high"
    <3>1. staging' = [staging EXCEPT ![c.file] = c.to] /\ c.status = "applied"
      BY <2>1, <2>3, <2>5 DEF Stage
    <3> QED
      BY <1>0, <2>1, <2>3, <2>4, <3>1, Applied DEF Active
  <2>6. CASE CurrentTask.risk = "high"
    <3>1. UNCHANGED staging /\ c.status # "applied"
      BY <2>1, <2>3, <2>6 DEF Stage
    <3> QED
      BY <1>0, <2>1, <2>3, <2>4, <3>1, NotApplied DEF Active
  <2> QED
    BY <2>5, <2>6
<1>12. CASE Rerun
  <2>1. pc' = "idle" /\ changes' = << >> /\ UNCHANGED writes
    BY <1>12 DEF Rerun
  <2> QED
    BY <2>1 DEF RebuildInv, StagingFollowsChanges, Written, WithStatus
<1>13. CASE UNCHANGED vars
  BY <1>13, RebuildKept DEF vars
<1> QED
  BY <1>1, <1>2, <1>3, <1>4, <1>6, <1>7, <1>9, <1>10, <1>11, <1>12, <1>13
  DEF Next, Work, Schedule, Files, Answers

(* The applied changes of every file lead, one from another, from the text   *)
(* the target has to the one that is staged, for every plan and after every  *)
(* history of executions.                                                    *)
THEOREM StagingCorrect == Spec => []StagingFollowsChanges
<1>1. Init => RebuildInv
  BY DEF Init, RebuildInv, StagingFollowsChanges, Written, WithStatus, OnTarget
<1>2. RebuildInv => StagingFollowsChanges
  BY DEF RebuildInv
<1> QED
  BY <1>1, <1>2, Begins, TypesStep, RebuildStep, PTL DEF Spec

-----------------------------------------------------------------------------

FilesOf(i) == {changes[k].file : k \in ChangesOf(i)}

(* The first n files of the task have their change, one each, and no other.  *)
Covered(i, n) ==
  /\ n \in 0 .. Len(plan[i].files)
  /\ Cardinality(ChangesOf(i)) = n
  /\ FilesOf(i) = {plan[i].files[m] : m \in 1 .. n}

(* How far the loop over the files of a task is that is not decided yet.     *)
Progress(i) == IF pc \in {"file", "call"} /\ i = Current THEN fileAt - 1 ELSE 0

Accounted(i) ==
  /\ results[i] = "none" => Covered(i, Progress(i))
  /\ results[i] = "skipped" => Cardinality(ChangesOf(i)) = 1
  /\ results[i] \notin {"none", "skipped"} => Covered(i, Len(plan[i].files))

CountInv ==
  /\ pc \in InTasks => Ordered = DOMAIN plan
  /\ pc \in InTasks \cup {"done"} => \A i \in DOMAIN plan : Accounted(i)
  /\ pc = "done" => \A i \in DOMAIN plan : Decided(i)

LEMMA OneMoreChange ==
  ASSUME changes \in Seq(FileChange), NEW c \in FileChange, changes' = Append(changes, c)
  PROVE  \A i :
           /\ c.task # i => ChangesOf(i)' = ChangesOf(i) /\ FilesOf(i)' = FilesOf(i)
           /\ c.task = i => /\ Cardinality(ChangesOf(i)') = Cardinality(ChangesOf(i)) + 1
                            /\ FilesOf(i)' = FilesOf(i) \cup {c.file}
<1> DEFINE new == Len(changes) + 1
<1>1. /\ DOMAIN changes' = DOMAIN changes \cup {new} /\ new \notin DOMAIN changes
      /\ \A k \in DOMAIN changes : changes'[k] = changes[k]
      /\ changes'[new] = c
  OBVIOUS
<1> HIDE DEF new
<1> SUFFICES ASSUME NEW i
             PROVE  /\ c.task # i => ChangesOf(i)' = ChangesOf(i) /\ FilesOf(i)' = FilesOf(i)
                    /\ c.task = i => /\ Cardinality(ChangesOf(i)') = Cardinality(ChangesOf(i)) + 1
                                     /\ FilesOf(i)' = FilesOf(i) \cup {c.file}
  OBVIOUS
<1>2. ASSUME c.task # i PROVE ChangesOf(i)' = ChangesOf(i) /\ FilesOf(i)' = FilesOf(i)
  <2>1. ChangesOf(i)' = ChangesOf(i)
    BY <1>1, <1>2 DEF ChangesOf
  <2>2. \A k \in ChangesOf(i) : changes'[k].file = changes[k].file
    BY <1>1 DEF ChangesOf
  <2> QED
    BY <2>1, <2>2 DEF FilesOf
<1>3. ASSUME c.task = i
      PROVE  /\ Cardinality(ChangesOf(i)') = Cardinality(ChangesOf(i)) + 1
             /\ FilesOf(i)' = FilesOf(i) \cup {c.file}
  <2>1. ChangesOf(i)' = ChangesOf(i) \cup {new} /\ new \notin ChangesOf(i)
    BY <1>1, <1>3 DEF ChangesOf
  <2>2. IsFiniteSet(ChangesOf(i))
    <3>1. ChangesOf(i) \in SUBSET (1 .. Len(changes)) /\ Len(changes) \in Nat
      BY DEF ChangesOf
    <3>2. IsFiniteSet(1 .. Len(changes))
      BY <3>1, FS_Interval
    <3> QED
      BY <3>1, <3>2, FS_Subset
  <2>3. Cardinality(ChangesOf(i)') = Cardinality(ChangesOf(i)) + 1
    BY <2>1, <2>2, FS_AddElement
  <2>4. \A k \in ChangesOf(i) : changes'[k].file = changes[k].file
    BY <1>1 DEF ChangesOf
  <2>5. changes'[new].file = c.file
    BY <1>1
  <2>6. FilesOf(i)' = {changes'[k].file : k \in ChangesOf(i) \cup {new}}
    BY <2>1 DEF FilesOf
  <2>7. FilesOf(i)' = FilesOf(i) \cup {c.file}
    BY <2>4, <2>5, <2>6 DEF FilesOf
  <2> QED
    BY <2>3, <2>7
<1> QED
  BY <1>2, <1>3

(* The task at hand is not decided, and the others' accounts are closed.     *)
LEMMA Undecided ==
  ASSUME TypeInv, StopInv, pc \in InTasks, at <= Len(order)
  PROVE  /\ Current \in DOMAIN plan /\ results[Current] = "none"
         /\ results \in [DOMAIN plan -> TaskStatus \cup {"none"}]
<1>1. /\ results \in [DOMAIN plan -> TaskStatus \cup {"none"}]
      /\ at \in DOMAIN order /\ Current \in DOMAIN plan /\ Current = order[at]
      /\ order \in Seq(DOMAIN plan) /\ at \in Nat
  BY TaskAtHand DEF TypeInv, TypeOK, Places, Current
<1>2. results[Current] = "none"
  <2> SUFFICES ASSUME results[Current] # "none" PROVE FALSE
    OBVIOUS
  <2>1. PICK k \in DOMAIN order : k < at /\ order[k] = Current
    BY <1>1 DEF StopInv, DecidedPrefix
  <2> QED
    BY <1>1, <2>1 DEF StopInv, Sorted
<1> QED
  BY <1>1, <1>2

(* Steps that add no change and decide no task.                              *)
LEMMA CountKept ==
  ASSUME CountInv, UNCHANGED <<input, order, at, results, changes>>,
         pc \in InTasks, pc' \in InTasks,
         \A i : Progress(i)' = Progress(i)
  PROVE  CountInv'
<1>1. plan' = plan
  BY InputKept
<1>2. \A i : ChangesOf(i)' = ChangesOf(i) /\ FilesOf(i)' = FilesOf(i)
  BY DEF ChangesOf, FilesOf
<1>3. \A i, n : Covered(i, n) => Covered(i, n)'
  BY <1>1, <1>2 DEF Covered
<1>4. \A i \in DOMAIN plan : Accounted(i)'
  BY <1>1, <1>2, <1>3 DEF CountInv, Accounted
<1>5. Ordered' = Ordered
  BY DEF Ordered
<1> QED
  BY <1>1, <1>4, <1>5 DEF CountInv, InTasks

(* The tasks other than the one at hand, when that one gets its change or    *)
(* its result.                                                               *)
LEMMA OthersAccounted ==
  ASSUME TypeInv, StopInv, CountInv, pc \in InTasks, at <= Len(order),
         UNCHANGED <<input, order>>,
         pc' = "task" \/ (pc' = "file" /\ at' = at),
         NEW i \in DOMAIN plan, i # Current, results'[i] = results[i],
         ChangesOf(i)' = ChangesOf(i), FilesOf(i)' = FilesOf(i)
  PROVE  Accounted(i)'
<1>1. Progress(i) = 0 /\ Progress(i)' = 0
  BY DEF Progress, Current
<1>2. Accounted(i) /\ plan' = plan
  BY InputKept DEF CountInv
<1>3. \A n : Covered(i, n) => Covered(i, n)'
  BY <1>2 DEF Covered
<1> QED
  BY <1>1, <1>2, <1>3 DEF Accounted

(* The file at hand gets its change.                                         *)
LEMMA FileCounted ==
  ASSUME TypeInv, StopInv, CountInv, pc \in {"file", "call"}, fileAt <= Len(CurrentTask.files),
         NEW c \in FileChange, c.task = Current, c.file = CurrentFile, Record(c)
  PROVE  CountInv'
<1>1. /\ UNCHANGED <<input, order, at, results>> /\ pc' = "file" /\ fileAt' = fileAt + 1
      /\ changes' = Append(changes, c)
  BY DEF Record, scheduler
<1>2. /\ at <= Len(order) /\ changes \in Seq(FileChange) /\ fileAt \in Nat \ {0}
      /\ pc \in InTasks /\ TypeOK
  BY DEF TypeInv, TypeOK, Places, InTasks
<1>3. /\ Current \in DOMAIN plan /\ results[Current] = "none"
      /\ plan[Current].files \in Seq(File) /\ CurrentTask = plan[Current]
  BY <1>2, Undecided, TaskAtHand
<1>4. PICK t \in DOMAIN plan : t = Current
  BY <1>3
<1>5. plan' = plan /\ Current' = t
  BY <1>1, <1>4, InputKept DEF Current
<1>6. Covered(t, fileAt - 1)
  BY <1>2, <1>3, <1>4 DEF CountInv, Accounted, Progress
<1>7. /\ Cardinality(ChangesOf(t)') = Cardinality(ChangesOf(t)) + 1
      /\ FilesOf(t)' = FilesOf(t) \cup {CurrentFile}
      /\ \A i : i # t => ChangesOf(i)' = ChangesOf(i) /\ FilesOf(i)' = FilesOf(i)
  BY <1>1, <1>2, <1>4, OneMoreChange
<1>8. PICK n \in Nat : n = fileAt
  BY <1>2
<1>9. PICK files \in Seq(File) : files = plan[t].files
  BY <1>3, <1>4
<1>10. {files[m] : m \in 1 .. n} = {files[m] : m \in 1 .. n - 1} \cup {files[n]}
  <2>1. \A m : m \in 1 .. n <=> m \in 1 .. n - 1 \/ m = n
    BY <1>2, <1>8
  <2> QED
    BY <2>1
<1>11. CurrentFile = files[n] /\ n \in 0 .. Len(files)
  BY <1>2, <1>3, <1>4, <1>8, <1>9 DEF CurrentFile
<1>12. Cardinality(ChangesOf(t)) = n - 1 /\ FilesOf(t) = {files[m] : m \in 1 .. n - 1}
  BY <1>6, <1>8, <1>9 DEF Covered
<1>13. Covered(t, n)'
  <2>1. Cardinality(ChangesOf(t)') = n
    BY <1>7, <1>8, <1>12
  <2>2. FilesOf(t)' = {files[m] : m \in 1 .. n}
    BY <1>7, <1>10, <1>11, <1>12
  <2> QED
    BY <1>5, <1>9, <1>11, <2>1, <2>2 DEF Covered
<1>14. Accounted(t)'
  <2>1. Progress(t)' = n
    BY <1>1, <1>5, <1>8 DEF Progress
  <2>2. results'[t] = "none"
    BY <1>1, <1>3, <1>4
  <2> QED
    BY <1>13, <2>1, <2>2 DEF Accounted
<1>15. ASSUME NEW i \in DOMAIN plan, i # t PROVE Accounted(i)'
  BY <1>1, <1>2, <1>4, <1>7, <1>15, OthersAccounted
<1>16. Ordered' = DOMAIN plan
  BY <1>1, <1>2 DEF CountInv, Ordered
<1> QED
  BY <1>1, <1>5, <1>14, <1>15, <1>16 DEF CountInv, InTasks

(* The task at hand, t, gets its result.                                     *)
LEMMA TaskCounted ==
  ASSUME TypeInv, StopInv, CountInv, pc \in InTasks, at <= Len(order),
         NEW t, t = Current,
         NEW status \in TaskStatus, UNCHANGED <<input, order>>, pc' = "task",
         results' = [results EXCEPT ![Current] = status],
         \A i : i # t => ChangesOf(i)' = ChangesOf(i) /\ FilesOf(i)' = FilesOf(i),
         status = "skipped" => Cardinality(ChangesOf(t)') = 1,
         status # "skipped" => /\ Covered(t, Len(plan[t].files))
                               /\ ChangesOf(t)' = ChangesOf(t)
                               /\ FilesOf(t)' = FilesOf(t)
  PROVE  CountInv'
<1>1. t \in DOMAIN plan /\ results \in [DOMAIN plan -> TaskStatus \cup {"none"}]
  BY Undecided
<1>2. /\ results'[t] = status /\ status # "none"
      /\ \A i \in DOMAIN plan : i # t => results'[i] = results[i]
  BY <1>1 DEF TaskStatus
<1>3. plan' = plan
  BY InputKept
<1>4. Accounted(t)'
  <2>1. CASE status = "skipped"
    BY <1>2, <2>1 DEF Accounted
  <2>2. CASE status # "skipped"
    <3>1. Covered(t, Len(plan[t].files))'
      BY <1>3, <2>2 DEF Covered
    <3> QED
      BY <1>2, <2>2, <3>1 DEF Accounted
  <2> QED
    BY <2>1, <2>2
<1>5. ASSUME NEW i \in DOMAIN plan, i # t PROVE Accounted(i)'
  BY <1>2, <1>5, OthersAccounted
<1>6. Ordered' = DOMAIN plan
  BY DEF CountInv, Ordered
<1> QED
  BY <1>3, <1>4, <1>5, <1>6 DEF CountInv, InTasks

LEMMA CountStep == TypeInv /\ StopInv /\ CountInv /\ [Next]_vars => CountInv'
<1> SUFFICES ASSUME TypeInv, StopInv, CountInv, [Next]_vars PROVE CountInv'
  OBVIOUS
<1>0. /\ TypeOK /\ Places /\ changes \in Seq(FileChange) /\ writes \in Nat
      /\ "error" \in TaskStatus /\ "noop" \in TaskStatus /\ "skipped" \in TaskStatus
      /\ "pending" \in TaskStatus /\ "applied" \in TaskStatus
  BY DEF TypeInv, TypeOK, TaskStatus
<1>1. CASE Refuse \/ Begin \/ Order \/ Cycle \/ StopAtFile \/ Explodes \/ Crash \/ Rerun
  <2>1. pc' \notin InTasks \cup {"done"}
    BY <1>1 DEF Refuse, Begin, Order, Cycle, StopAtFile, Explodes, Crash, Rerun, Raise, InTasks
  <2> QED
    BY <2>1 DEF CountInv
<1>2. CASE RunTasks
  <2>1. /\ UNCHANGED <<input, order, changes>> /\ pc = "ordering" /\ pc' = "task"
        /\ Ordered = DOMAIN plan /\ results' = [i \in DOMAIN plan |-> "none"]
    BY <1>2 DEF RunTasks
  <2>2. changes = << >> /\ plan' = plan /\ plan \in Seq(Task)
    BY <1>0, <2>1, InputKept DEF Places, TypeOK
  <2>3. \A i : ChangesOf(i)' = {} /\ FilesOf(i)' = {}
    BY <2>1, <2>2 DEF ChangesOf, FilesOf
  <2>4. ASSUME NEW i \in DOMAIN plan PROVE Accounted(i)'
    <3>1. results'[i] = "none" /\ Progress(i)' = 0
      BY <2>1 DEF Progress
    <3>2. Len(plan[i].files) \in Nat
      <4>1. plan[i] \in Task
        BY <2>2
      <4> QED
        BY <4>1 DEF Task
    <3>3. Cardinality({}) = 0
      BY FS_EmptySet
    <3>4. {plan'[i].files[m] : m \in 1 .. 0} = {}
      OBVIOUS
    <3>5. Covered(i, 0)'
      <4>1. 0 \in 0 .. Len(plan'[i].files)
        BY <2>2, <3>2
      <4>2. Cardinality(ChangesOf(i)') = 0
        BY <2>3, <3>3
      <4>3. FilesOf(i)' = {plan'[i].files[m] : m \in 1 .. 0}
        BY <2>3, <3>4
      <4> QED
        BY <4>1, <4>2, <4>3 DEF Covered
    <3> QED
      BY <3>1, <3>5 DEF Accounted
  <2>5. Ordered' = DOMAIN plan
    BY <2>1 DEF Ordered
  <2> QED
    BY <2>1, <2>2, <2>4, <2>5 DEF CountInv, InTasks
<1>3. CASE SkipTask
  <2>1. /\ pc = "task" /\ pc' = "task" /\ at <= Len(order) /\ UNCHANGED <<input, order>>
        /\ results' = [results EXCEPT ![Current] = "skipped"]
        /\ changes' = Append(changes, Unanswered(CurrentTask.files[1], "skipped"))
    BY <1>3 DEF SkipTask
  <2> DEFINE c == Unanswered(CurrentTask.files[1], "skipped")
  <2>2. c \in FileChange /\ c.task = Current
    <3>1. CurrentTask.files \in Seq(File) /\ CurrentTask.files # << >>
      BY <1>0, <2>1, TaskAtHand DEF Places, Running, InTasks, NamesFiles
    <3>2. CurrentTask.files[1] \in File
      BY <3>1
    <3>3. c \in FileChange
      BY <1>0, <2>1, <3>2, UnansweredTypes
    <3> QED
      BY <3>3 DEF Unanswered, Change
  <2> HIDE DEF c
  <2>3. PICK t \in DOMAIN plan : t = Current /\ results[t] = "none"
    BY <2>1, Undecided DEF InTasks
  <2>4. /\ Cardinality(ChangesOf(t)') = Cardinality(ChangesOf(t)) + 1
        /\ \A i : i # t => ChangesOf(i)' = ChangesOf(i) /\ FilesOf(i)' = FilesOf(i)
    BY <1>0, <2>1, <2>2, <2>3, OneMoreChange DEF c
  <2>5. Cardinality(ChangesOf(t)) = 0
    BY <2>1, <2>3 DEF CountInv, Accounted, Progress, Covered, InTasks
  <2>6. Cardinality(ChangesOf(t)') = 1
    BY <2>4, <2>5
  <2>7. pc \in InTasks /\ results' = [results EXCEPT ![Current] = "skipped"]
    BY <2>1 DEF InTasks
  <2> QED
    BY <1>0, <2>1, <2>3, <2>4, <2>6, <2>7, TaskCounted
<1>4. CASE StartTask
  <2>1. /\ pc = "task" /\ pc' = "file" /\ fileAt' = 1
        /\ UNCHANGED <<input, order, at, results, changes>>
    BY <1>4 DEF StartTask, scheduler
  <2>2. \A i : Progress(i)' = Progress(i)
    BY <2>1 DEF Progress
  <2> QED
    BY <2>1, <2>2, CountKept DEF InTasks
<1>5. CASE EndTask
  <2>1. /\ pc = "file" /\ pc' = "task" /\ fileAt > Len(CurrentTask.files)
        /\ UNCHANGED <<input, order, changes>>
        /\ results' = [results EXCEPT ![Current] = Worst(statuses)]
    BY <1>5 DEF EndTask
  <2>2. at <= Len(order) /\ fileAt \in Nat
    BY <1>0, <2>1 DEF Places, TypeOK
  <2>3. Worst(statuses) \in TaskStatus /\ Worst(statuses) # "skipped"
    BY DEF Worst, TaskStatus
  <2>4. \A i : ChangesOf(i)' = ChangesOf(i) /\ FilesOf(i)' = FilesOf(i)
    BY <2>1 DEF ChangesOf, FilesOf
  <2>5. Covered(Current, Len(plan[Current].files))
    <3>1. Covered(Current, fileAt - 1)
      BY <2>1, <2>2, Undecided DEF CountInv, Accounted, Progress, InTasks
    <3>2. CurrentTask = plan[Current] /\ Len(plan[Current].files) \in Nat
      BY <1>0, <2>2, TaskAtHand
    <3>3. fileAt - 1 = Len(plan[Current].files)
      BY <2>1, <2>2, <3>1, <3>2 DEF Covered
    <3> QED
      BY <3>1, <3>3
  <2>6. PICK t \in DOMAIN plan : t = Current
    BY <2>1, <2>2, Undecided DEF InTasks
  <2>7. /\ pc \in InTasks /\ Covered(t, Len(plan[t].files))
        /\ results' = [results EXCEPT ![Current] = Worst(statuses)]
    BY <2>1, <2>5, <2>6 DEF InTasks
  <2> QED
    BY <2>1, <2>2, <2>3, <2>4, <2>6, <2>7, TaskCounted
<1>6. CASE Finish
  <2>1. /\ pc = "task" /\ pc' = "done" /\ at > Len(order)
        /\ UNCHANGED <<input, order, at, results, changes>>
    BY <1>6 DEF Finish, scheduler
  <2>2. /\ order \in Seq(DOMAIN plan) /\ at \in Nat /\ plan' = plan
        /\ results \in [DOMAIN plan -> TaskStatus \cup {"none"}]
    BY <1>0, <2>1, InputKept DEF TypeOK, Places, InTasks
  <2>3. ASSUME NEW i \in DOMAIN plan PROVE results[i] # "none"
    <3>1. PICK k \in DOMAIN order : order[k] = i
      BY <2>1 DEF CountInv, Ordered, InTasks
    <3>2. k < at
      BY <2>1, <2>2
    <3> QED
      BY <2>1, <3>1, <3>2 DEF StopInv, DecidedPrefix, InTasks
  <2>4. ASSUME NEW i \in DOMAIN plan PROVE Accounted(i)'
    <3>1. Accounted(i)
      BY <2>1 DEF CountInv, InTasks
    <3>2. ChangesOf(i)' = ChangesOf(i) /\ FilesOf(i)' = FilesOf(i)
      BY <2>1 DEF ChangesOf, FilesOf
    <3>3. \A n : Covered(i, n) => Covered(i, n)'
      BY <2>2, <3>2 DEF Covered
    <3> QED
      BY <2>1, <2>2, <2>3, <3>1, <3>2, <3>3 DEF Accounted
  <2>5. ASSUME NEW i \in DOMAIN plan PROVE Decided(i)'
    <3>1. DOMAIN << >> = {}
      OBVIOUS
    <3> QED
      BY <2>1, <2>2, <2>3, <3>1 DEF Decided
  <2> QED
    BY <2>1, <2>2, <2>4, <2>5 DEF CountInv, InTasks
<1>7. ASSUME pc \in {"file", "call"}, pc' \in {"file", "call"},
             UNCHANGED <<input, order, at, results, fileAt, changes>>
      PROVE  CountInv'
  <2>1. \A i : Progress(i)' = Progress(i)
    BY <1>7 DEF Progress, Current
  <2> QED
    BY <1>7, <2>1, CountKept DEF InTasks
<1>8. CASE StartFile \/ Fails
  BY <1>7, <1>8 DEF StartFile, AtFile, Fails, Turn, scheduler
<1>9. ASSUME pc \in {"file", "call"}, fileAt <= Len(CurrentTask.files),
             Record(Unanswered(CurrentFile, "error"))
      PROVE  CountInv'
  <2>1. at <= Len(order)
    BY <1>0, <1>9 DEF Places
  <2>2. Unanswered(CurrentFile, "error") \in FileChange
    BY <1>0, <1>9, <2>1, FileAtHand, UnansweredTypes
  <2>3. /\ Unanswered(CurrentFile, "error").task = Current
        /\ Unanswered(CurrentFile, "error").file = CurrentFile
    BY DEF Unanswered, Change
  <2> QED
    BY <1>9, <2>2, <2>3, FileCounted
<1>10. CASE TooLarge
  BY <1>9, <1>10 DEF TooLarge, AtFile
<1>11. CASE Exhausted
  <2>1. pc = "call" /\ fileAt <= Len(CurrentTask.files)
    BY <1>0, <1>11 DEF Exhausted, Places
  <2>2. CASE Record(Unanswered(CurrentFile, "error"))
    BY <1>9, <2>1, <2>2
  <2>3. CASE UNCHANGED <<input, pc, scheduler, fileAt, changes>>
    BY <1>7, <2>1, <2>3 DEF scheduler
  <2> QED
    BY <1>11, <2>2, <2>3 DEF Exhausted
<1>12. ASSUME NEW status \in TaskStatus, NEW to \in Nat, NEW i \in 1 .. 3, Turn(i),
              Record(Change(CurrentFile, status, to, EffectiveChain(CurrentTask.risk)[i], Primary))
       PROVE  CountInv'
  <2> DEFINE c == Change(CurrentFile, status, to, EffectiveChain(CurrentTask.risk)[i], Primary)
  <2>1. c \in FileChange
    BY <1>12, AnswerTypes
  <2>2. c.task = Current /\ c.file = CurrentFile
    BY DEF Change
  <2>3. pc = "call" /\ fileAt <= Len(CurrentTask.files)
    BY <1>0, <1>12 DEF Turn, Places
  <2> HIDE DEF c
  <2> QED
    BY <1>12, <2>1, <2>2, <2>3, FileCounted DEF c
<1>13. CASE Broken
  <2>1. Absent \in Nat
    BY DEF Absent
  <2> QED
    BY <1>0, <1>12, <1>13, <2>1 DEF Broken
<1>14. CASE Unchanged
  <2>1. CurrentFile \in File
    <3>1. pc = "call"
      BY <1>14 DEF Unchanged, Turn
    <3> QED
      BY <1>0, <3>1, FileAtHand DEF Places
  <2>2. Original(CurrentFile) \in Nat
    BY <1>0, <2>1 DEF TypeOK, Original, Target, Absent, OnTarget
  <2> QED
    BY <1>0, <1>12, <1>14, <2>2 DEF Unchanged
<1>15. CASE Edited
  <2> DEFINE status == IF CurrentTask.risk = "high" THEN "pending" ELSE "applied"
  <2>1. PICK i \in 1 .. 3 :
          /\ Turn(i) /\ writes' = writes + 1
          /\ Record(Change(CurrentFile, status, writes', EffectiveChain(CurrentTask.risk)[i], Primary))
    BY <1>15 DEF Edited
  <2>2. status \in TaskStatus /\ writes + 1 \in Nat
    BY <1>0
  <2> HIDE DEF status
  <2> QED
    BY <1>12, <2>1, <2>2
<1>16. CASE UNCHANGED vars
  <2>1. UNCHANGED <<input, pc, order, at, results, fileAt, changes>>
    BY <1>16 DEF vars, scheduler
  <2>2. CASE pc \in InTasks
    BY <2>1, <2>2, CountKept DEF Progress, Current
  <2>3. CASE pc \notin InTasks
    <3>1. /\ plan' = plan /\ \A i : ChangesOf(i)' = ChangesOf(i) /\ FilesOf(i)' = FilesOf(i)
          /\ \A i : Decided(i)' = Decided(i)
      BY <2>1, InputKept DEF ChangesOf, FilesOf, Decided
    <3>2. \A i : Progress(i) = 0 /\ Progress(i)' = 0
      BY <2>1, <2>3 DEF Progress, InTasks
    <3>3. \A i, n : Covered(i, n)' = Covered(i, n)
      BY <3>1 DEF Covered
    <3>4. \A i : Accounted(i) => Accounted(i)'
      BY <2>1, <3>1, <3>2, <3>3 DEF Accounted
    <3>5. (\A i \in DOMAIN plan : Accounted(i)) => (\A i \in DOMAIN plan : Accounted(i))'
      BY <3>1, <3>4
    <3>6. (\A i \in DOMAIN plan : Decided(i)) => (\A i \in DOMAIN plan : Decided(i))'
      BY <3>1
    <3> QED
      BY <2>1, <2>3, <3>5, <3>6 DEF CountInv
  <2> QED
    BY <2>2, <2>3
<1> QED
  BY <1>1, <1>2, <1>3, <1>4, <1>5, <1>6, <1>8, <1>10, <1>11, <1>13, <1>14, <1>15, <1>16
  DEF Next, Work, Schedule, Files, Answers

(* An execution that ends normally leaves out no task and no file, for every *)
(* plan and whatever the providers answer: every task is decided, every file *)
(* of a task that ran has exactly one change, a skipped task has one.        *)
THEOREM ExecutionComplete == Spec => []NothingLost
<1>1. Init => StopInv /\ CountInv
  BY DEF Init, StopInv, DependentsStop, Decided, Sorted, DecidedPrefix, Unblocked, InTasks, CountInv
<1>2. TypeInv /\ CountInv => NothingLost
  <2> SUFFICES ASSUME TypeInv, CountInv, pc = "done", NEW i \in DOMAIN plan
               PROVE  /\ Decided(i)
                      /\ Cardinality(ChangesOf(i)) =
                           IF results[i] = "skipped" THEN 1 ELSE Len(plan[i].files)
                      /\ results[i] # "skipped" =>
                           {changes[k].file : k \in ChangesOf(i)} =
                             {plan[i].files[n] : n \in DOMAIN plan[i].files}
    BY DEF NothingLost
  <2>1. Decided(i) /\ Accounted(i) /\ results[i] # "none"
    BY DEF CountInv, Decided
  <2>2. plan[i].files \in Seq(File)
    <3>1. plan \in Seq(Task)
      BY DEF TypeInv, TypeOK
    <3>2. plan[i] \in Task
      BY <3>1
    <3> QED
      BY <3>2 DEF Task
  <2>3. DOMAIN plan[i].files = 1 .. Len(plan[i].files)
    BY <2>2
  <2>4. CASE results[i] = "skipped"
    BY <2>1, <2>4 DEF Accounted
  <2>5. CASE results[i] # "skipped"
    <3>1. Covered(i, Len(plan[i].files))
      BY <2>1, <2>5 DEF Accounted
    <3>2. /\ Cardinality(ChangesOf(i)) = Len(plan[i].files)
          /\ FilesOf(i) = {plan[i].files[m] : m \in DOMAIN plan[i].files}
      BY <2>3, <3>1 DEF Covered
    <3> QED
      BY <2>1, <2>5, <3>2 DEF FilesOf
  <2> QED
    BY <2>4, <2>5
<1> QED
  BY <1>1, <1>2, Begins, TypesStep, StopStep, CountStep, PTL DEF Spec

-----------------------------------------------------------------------------

(* The tasks in order are on no circle: the induction over the order that    *)
(* shows this is the one over the behaviour.                                 *)
CircleInv ==
  /\ \A S \in SUBSET DOMAIN plan : Circle(S) => S \cap Ordered = {}
  /\ pc \in InTasks \cup {"done"} => Ordered = DOMAIN plan
  /\ cause = "cycle" => HasCircle

(* What is left when no task is ready needs itself.                          *)
LEMMA StuckOnCircle ==
  ASSUME Ready = {}, Ordered # DOMAIN plan, Ordered \subseteq DOMAIN plan
  PROVE  HasCircle
<1> DEFINE S == DOMAIN plan \ Ordered
<1>1. S # {} /\ S \in SUBSET DOMAIN plan
  OBVIOUS
<1>2. ASSUME NEW i \in S PROVE DepsOf(i) \cap S # {}
  <2>1. ~(DepsOf(i) \subseteq Ordered) /\ DepsOf(i) \subseteq DOMAIN plan
    BY <1>2 DEF Ready, DepsOf
  <2> QED
    BY <2>1
<1> HIDE DEF S
<1> QED
  BY <1>1, <1>2 DEF HasCircle, Circle

LEMMA CircleKept ==
  ASSUME UNCHANGED <<input, order>>
  PROVE  /\ Ordered' = Ordered /\ plan' = plan
         /\ \A S : Circle(S)' <=> Circle(S)
         /\ HasCircle' <=> HasCircle
<1>1. plan' = plan
  BY InputKept
<1>2. \A S : Circle(S)' <=> Circle(S)
  BY <1>1 DEF Circle, DepsOf
<1> QED
  BY <1>1, <1>2 DEF Ordered, HasCircle

LEMMA CircleStep == TypeInv /\ CircleInv /\ [Next]_vars => CircleInv'
<1> SUFFICES ASSUME TypeInv, CircleInv, [Next]_vars PROVE CircleInv'
  OBVIOUS
<1>0. order \in Seq(DOMAIN plan) /\ Ordered \subseteq DOMAIN plan
  <2>1. order \in Seq(DOMAIN plan)
    BY DEF TypeInv, TypeOK
  <2> QED
    BY <2>1 DEF Ordered
<1>1. CASE Order
  <2>1. PICK i \in Ready : order' = Append(order, i)
    BY <1>1 DEF Order, PickReady, IsFirst
  <2>2. pc = "ordering" /\ pc' = "ordering" /\ cause' = cause /\ plan' = plan
    BY <1>1, InputKept DEF Order
  <2>3. Ordered' = Ordered \cup {i}
    <3>1. /\ DOMAIN order' = DOMAIN order \cup {Len(order) + 1}
          /\ \A k \in DOMAIN order : order'[k] = order[k]
          /\ order'[Len(order) + 1] = i
      BY <1>0, <2>1 DEF Ready
    <3> QED
      BY <3>1 DEF Ordered
  <2>4. \A S : Circle(S)' <=> Circle(S)
    BY <2>2 DEF Circle, DepsOf
  <2>5. ASSUME NEW S \in SUBSET DOMAIN plan, Circle(S) PROVE S \cap Ordered' = {}
    <3>1. S \cap Ordered = {}
      BY <2>5 DEF CircleInv
    <3>2. DepsOf(i) \subseteq Ordered
      BY DEF Ready
    <3>3. i \notin S
      BY <2>5, <3>1, <3>2 DEF Circle
    <3> QED
      BY <2>3, <3>1, <3>3
  <2>6. HasCircle' <=> HasCircle
    BY <2>2, <2>4 DEF HasCircle
  <2> QED
    BY <2>2, <2>4, <2>5, <2>6 DEF CircleInv, InTasks
<1>2. CASE Rerun
  <2>1. order' = << >> /\ pc' = "idle" /\ cause' = "none"
    BY <1>2 DEF Rerun
  <2>2. Ordered' = {}
    BY <2>1 DEF Ordered
  <2> QED
    BY <2>1, <2>2 DEF CircleInv, InTasks
<1>3. ASSUME UNCHANGED <<input, order>>,
             pc' \in InTasks \cup {"done"} => Ordered = DOMAIN plan,
             cause' = "cycle" => HasCircle
      PROVE  CircleInv'
  BY <1>3, CircleKept DEF CircleInv
<1>4. CASE Cycle
  <2>1. UNCHANGED <<input, order>> /\ pc' = "raised" /\ HasCircle
    BY <1>0, <1>4, StuckOnCircle DEF Cycle, Raise, scheduler
  <2> QED
    BY <1>3, <2>1 DEF InTasks
<1>5. CASE RunTasks
  <2>1. UNCHANGED <<input, order, cause>> /\ Ordered = DOMAIN plan
    BY <1>5 DEF RunTasks
  <2> QED
    BY <1>3, <2>1 DEF CircleInv
<1>6. CASE Refuse \/ Begin
  <2>1. UNCHANGED <<input, order>> /\ pc' \notin InTasks \cup {"done"}
    BY <1>6 DEF Refuse, Begin, scheduler, InTasks
  <2>2. cause' = cause \/ cause' # "cycle"
    BY <1>6 DEF Refuse, Begin, Faults
  <2> QED
    BY <1>3, <2>1, <2>2 DEF CircleInv
<1>7. CASE StopAtFile \/ Explodes \/ Crash
  <2>1. UNCHANGED <<input, order>> /\ pc' \notin InTasks \cup {"done"}
    BY <1>7 DEF StopAtFile, Explodes, Crash, Raise, scheduler, InTasks
  <2>2. cause' = cause \/ cause' # "cycle"
    BY <1>7 DEF StopAtFile, Explodes, Crash, Raise
  <2> QED
    BY <1>3, <2>1, <2>2 DEF CircleInv
<1>8. ASSUME UNCHANGED <<input, order, cause>>, pc \in InTasks
      PROVE  CircleInv'
  BY <1>3, <1>8 DEF CircleInv
<1>9. CASE SkipTask \/ StartTask \/ EndTask \/ Finish
  BY <1>8, <1>9 DEF SkipTask, StartTask, EndTask, Finish, scheduler, InTasks
<1>10. CASE TooLarge \/ StartFile
  BY <1>8, <1>10 DEF TooLarge, StartFile, AtFile, Record, scheduler, InTasks
<1>11. CASE Exhausted \/ Fails \/ Broken \/ Unchanged \/ Edited
  BY <1>8, <1>11 DEF Exhausted, Fails, Broken, Unchanged, Edited, Turn, Record, scheduler, InTasks
<1>12. CASE UNCHANGED vars
  <2>1. UNCHANGED <<input, order, pc, cause>>
    BY <1>12 DEF vars, scheduler
  <2> QED
    BY <1>3, <2>1 DEF CircleInv
<1> QED
  BY <1>1, <1>2, <1>4, <1>5, <1>6, <1>7, <1>9, <1>10, <1>11, <1>12
  DEF Next, Work, Schedule, Files, Answers

(* The order of the tasks is found whenever there is one: for every plan, an *)
(* execution stops for a cycle only if there is one, and a plan with a cycle *)
(* never starts a task.                                                      *)
THEOREM OrderingCorrect == Spec => []CyclesAreReal
<1>1. Init => CircleInv
  BY DEF Init, CircleInv, Ordered, InTasks
<1>2. CircleInv => CyclesAreReal
  <2> SUFFICES ASSUME CircleInv, pc \in InTasks \cup {"done"}, NEW S \in SUBSET DOMAIN plan,
                      Circle(S)
               PROVE  FALSE
    BY DEF CyclesAreReal, CircleInv, HasCircle, InTasks
  <2> QED
    BY DEF CircleInv, Circle
<1> QED
  BY <1>1, <1>2, Begins, TypesStep, CircleStep, PTL DEF Spec

=============================================================================
