---------------------------- MODULE MCAuditLedger ----------------------------
(* Values for TLC.  Runs and contents are interchangeable.                  *)
EXTENDS AuditLedger, TLC

Interchangeable == Permutations(Runs) \cup Permutations(Contents)

=============================================================================
