----------------------------- MODULE MCCiCommand -----------------------------
(* Small instances of CiCommand: six documents, which are one more than any  *)
(* budget takes, a file of code, one that only the taxonomy holds back, and  *)
(* one of the infrastructure.                                                *)
EXTENDS CiCommand, TLC

Std(name, role) == [name |-> name, standard |-> TRUE, roles |-> {role}]
Own(name, role) == [name |-> name, standard |-> FALSE, roles |-> {role}]
Old(name) == [name |-> name, standard |-> TRUE, roles |-> {}]

(* The legacy tools; declared ones that verify their roles; and a role that  *)
(* only a command of the user's covers.                                      *)
AllConfigs ==
  {[profile |-> "v1", tools |-> <<Old("ruff"), Old("pytest")>>, policy |-> "legacy"],
   [profile |-> "v2", tools |-> <<Std("ruff", "lint"), Own("command", "lint")>>,
    policy |-> "verified"],
   [profile |-> "v2", tools |-> <<Own("command", "test")>>, policy |-> "declared"]}

Job(risk, F) == [risk |-> risk, files |-> F]

Docs == {"doc", "notes", "guide", "faq", "news", "intro"}

AllFiles == Docs \cup {"code", "config", "build"}

AllPlans == {{Job("low", {"doc"})},
             {Job("low", {"code"})},
             {Job("low", {"doc"}), Job("medium", {"code"})},
             {Job("low", Docs)},
             {Job("low", {"config"})},
             {Job("low", {"build"})}}

Taxonomy == [f \in File |-> CASE f = "config" -> "medium"
                               [] f \in {"code", "build"} -> "none"
                               [] OTHER -> "low"]

Given(allowDirty, budget, form, named) ==
  [allowDirty |-> allowDirty, budget |-> budget, form |-> form, named |-> named]

AllCommands ==
  {Given(FALSE, "medium", "unified", TRUE),
   Given(TRUE, "medium", "git", FALSE), Given(FALSE, "low", "git", FALSE),
   Given(TRUE, "low", "unified", FALSE)}

RealCommands == {c \in AllCommands : c.form = "unified" /\ c.named}

=============================================================================
