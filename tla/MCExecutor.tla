------------------------------ MODULE MCExecutor ------------------------------
(* Small instances of Executor: two files, three tasks, and one plan for     *)
(* each way a plan can fail.                                                 *)
EXTENDS Executor

T(id, files, risk, deps) ==
  [id |-> id, files |-> files, risk |-> risk, deps |-> deps]

(* Listed against its dependencies, with one file edited by both tasks.      *)
Chained == <<T("b", <<"f.py", "new">>, "medium", {"a"}), T("a", <<"f.py">>, "low", {})>>

(* A high-risk task, one that depends on it, and one that does not.          *)
Guarded == <<T("a", <<"f.py">>, "high", {}), T("b", <<"new">>, "low", {"a"}),
             T("c", <<"f.py">>, "low", {})>>

(* A file that is too long and a path that leaves the target.                *)
Awkward == <<T("a", <<"long", "new">>, "low", {}), T("b", <<"../x">>, "low", {"c"}),
             T("c", <<"new">>, "medium", {})>>

Cyclic == <<T("a", <<"new">>, "low", {}), T("b", <<"new">>, "low", {"c"}),
            T("c", <<"new">>, "low", {"b"})>>
Duplicate == <<T("a", <<"new">>, "low", {}), T("a", <<"new">>, "low", {})>>
Dangling == <<T("a", <<"new">>, "low", {"b"})>>
Analysis == <<T("a", << >>, "low", {})>>

AllPlans == {Chained, Guarded, Awkward, Cyclic, Duplicate, Dangling, Analysis}

=============================================================================
