------------------------------ MODULE Validator ------------------------------
(***************************************************************************)
(* The validator (orchestrator/agents/validator) and the decision taken on *)
(* what it returns (orchestrator/validation_decision.py).                  *)
(*                                                                         *)
(* A validation runs the tools of its configuration one after the other in *)
(* one tree.  Without declared validators the tools are the legacy ones:   *)
(* ruff, pytest and tsc, each of which may fail without stopping the next, *)
(* but not run into its timeout.  Declared (V2) validators stop at the     *)
(* first that does not approve, and only a standard command verifies the   *)
(* roles it is declared for.                                               *)
(***************************************************************************)
EXTENDS Integers, Sequences

CONSTANTS
  Configs,    \* the target configurations
  Role

Profile == {"v1", "v2"}

(* A tool: is it the standard command of a standard adapter, and which roles *)
(* does it declare.  The policy of a configuration is its digest.            *)
Tool == [name : STRING, standard : BOOLEAN, roles : SUBSET Role]

ASSUME ConfigsAssumption ==
  \A c \in Configs : /\ DOMAIN c = {"profile", "tools", "policy"}
                     /\ c.profile \in Profile
                     /\ c.tools \in Seq(Tool)

VARIABLES
  config,   \* the configuration in force
  tools     \* the results of the validation that is running

validator == <<config, tools>>

NoPolicy == "no policy"

ToolStatus == {"approved", "failed", "timeout", "unavailable", "cleanup_failed",
           "not_run"}

(* What can become of a process: it ends well, it ends with pytest's code    *)
(* for "no tests collected", it ends badly, ...                              *)
Outcome == {"ok", "no tests", "bad", "timeout", "missing", "no frontend",
            "not killed"}

(* runners._run and run_tsc: no tests is a pass, and so is no frontend; the  *)
(* legacy runners know of no cleanup.                                        *)
LegacyStatus(outcome) ==
  CASE outcome \in {"ok", "no tests", "no frontend"} -> "approved"
    [] outcome = "timeout" -> "timeout"
    [] OTHER -> "failed"

(* adapters._terminal_state, and the comparison of the tree before and after.*)
DeclaredStatus(outcome, changed) ==
  CASE changed -> "failed"
    [] ~changed /\ outcome = "not killed" -> "cleanup_failed"
    [] ~changed /\ outcome = "timeout" -> "timeout"
    [] ~changed /\ outcome \in {"missing", "no frontend"} -> "unavailable"
    [] ~changed /\ outcome = "ok" -> "approved"
    [] OTHER -> "failed"

(* The results that are followed by no other tool.                           *)
Stops(status) == IF config.profile = "v1" THEN status = "timeout"
                                          ELSE status # "approved"

(* Seeded fault: the tool that stopped the others is counted with them.      *)
SkippedToo(n) == IF config.profile = "v1" THEN << >>
                 ELSE [k \in 1 .. Len(config.tools) - n + 1 |-> "not_run"]

(* The tools after the last one: V1 forgets them, V2 reports them.           *)
Skipped(n) == IF config.profile = "v1" THEN << >>
              ELSE [k \in 1 .. Len(config.tools) - n |-> "not_run"]

Validated == \/ Len(tools) = Len(config.tools)
             \/ tools # << >> /\ Stops(tools[Len(tools)])

StartValidation == tools' = << >> /\ UNCHANGED config

RunTool ==
  /\ ~Validated
  /\ \E outcome \in Outcome, changed \in BOOLEAN :
       LET n == Len(tools) + 1
           s == IF config.profile = "v1" THEN LegacyStatus(outcome)
                                         ELSE DeclaredStatus(outcome, changed)
       IN  /\ outcome \in {"no frontend", "no tests"} =>
                config.tools[n].name = IF outcome = "no tests" THEN "pytest" ELSE "tsc"
           /\ tools' = Append(tools, s) \o (IF Stops(s) THEN Skipped(n) ELSE << >>)
  /\ UNCHANGED config

-----------------------------------------------------------------------------

ToolStatuses == {tools[k] : k \in DOMAIN tools}

(* overall_status of run_v2_validators.                                      *)
DeclaredOverall ==
  CASE tools = << >> -> "incomplete"
    [] tools # << >> /\ ToolStatuses \subseteq {"approved"} -> "approved"
    [] ToolStatuses \cap {"unavailable", "cleanup_failed"} # {} -> "incomplete"
    [] OTHER -> "failed"

Overall ==
  IF config.profile = "v2" THEN DeclaredOverall
  ELSE IF ToolStatuses \subseteq {"approved"} THEN "approved" ELSE "failed"

(* Seeded fault: a command of the user's counts as the standard one.         *)
AnyVerified ==
  UNION {config.tools[k].roles : k \in {n \in DOMAIN tools : tools[n] = "approved"}}

(* The roles an approved tool with its standard command vouches for.         *)
Verified ==
  UNION {config.tools[k].roles :
           k \in {n \in DOMAIN tools : tools[n] = "approved" /\ config.tools[n].standard}}

Required(c) == UNION {c.tools[k].roles : k \in DOMAIN c.tools}

Evidence ==
  [versioned : BOOLEAN, profile : Profile, overall : {"approved", "failed", "incomplete"},
   required : SUBSET Role, verified : SUBSET Role, patch : Nat,
   policy : {c.policy : c \in Configs} \cup {NoPolicy}]

(* attach_validation_decision: the result, with the policy it was made under *)
(* (unless the stand-in for the validator names none).                       *)
Attached(policy) ==
  [versioned |-> TRUE, profile |-> config.profile, overall |-> Overall,
   required |-> IF config.profile = "v2" THEN Required(config) ELSE {},
   verified |-> IF config.profile = "v2" THEN Verified ELSE {},
   patch |-> 0, policy |-> policy]

(* What a caller writes down itself when the patch does not apply.           *)
Inapplicable ==
  [versioned |-> FALSE, profile |-> config.profile, overall |-> "failed",
   required |-> {}, verified |-> {}, patch |-> 0, policy |-> NoPolicy]

(* bind_validation_subject, for a versioned result.                          *)
Bound(e, patch) == IF e.versioned THEN [e EXCEPT !.patch = patch] ELSE e

(* evaluate_validation of a fresh result: of the subjects, whose other       *)
(* fields are equal by construction, the patch and the policy are compared.  *)
Authorized(e, patch, policy) ==
  /\ e.overall = "approved"
  /\ e.versioned => /\ e.patch = patch /\ e.policy = policy
                    /\ e.profile = "v2" => e.required \subseteq e.verified

=============================================================================
