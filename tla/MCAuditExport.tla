---------------------------- MODULE MCAuditExport ----------------------------
(* Small instances of AuditExport.                                           *)
EXTENDS AuditExport, TLC

Given(force, redact, locking) ==
  [force |-> force, redact |-> redact, locking |-> locking, sign |-> redact]

AllOptions == {Given(FALSE, FALSE, FALSE), Given(TRUE, TRUE, TRUE)}

Symmetry == Permutations(Exporter) \cup Permutations(Patch)

=============================================================================
