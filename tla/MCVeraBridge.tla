----------------------------- MODULE MCVeraBridge -----------------------------
EXTENDS VeraPage, TLC

CONSTANTS f1, f2, r1, r2

Interchangeable == Permutations({f1, f2}) \cup Permutations({r1, r2})
=============================================================================
