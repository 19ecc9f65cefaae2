----------------------------- MODULE Publication -----------------------------
(***************************************************************************)
(* What promoting a candidate promises: a run is published at most once,   *)
(* the commit it was published as never changes, and only what has been    *)
(* published is ever marked applied.                                       *)
(***************************************************************************)
CONSTANTS Candidate,  \* the commits that may be published
          None        \* not a commit

VARIABLES published,  \* the commit the run was published as, or None
          applied     \* TRUE: the run's log says so

vars == <<published, applied>>

Init == published = None /\ applied = FALSE

Publish(c) ==
  /\ published = None
  /\ published' = c
  /\ UNCHANGED applied

MarkApplied ==
  /\ published # None
  /\ applied' = TRUE
  /\ UNCHANGED published

Next == (\E c \in Candidate : Publish(c)) \/ MarkApplied

Spec == Init /\ [][Next]_vars

=============================================================================
