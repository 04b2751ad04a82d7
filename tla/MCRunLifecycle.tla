--------------------------- MODULE MCRunLifecycle ---------------------------
(* Instances of RunLifecycle for TLC: every run belongs to the one task t. *)
EXTENDS RunPage, TLC

CONSTANTS t

MCTaskOf == [r \in Runs |-> t]
MCTasks == {t}

Clean == {{}}
CleanOrLockfile == {{}, {"lockfile"}}
CleanOrProtected == {{}, {"protected"}}

PassOrFail == {o \in GateOutcomes : o.skipped = 0}

Interchangeable == Permutations(Runs) \cup Permutations(Handlers)
=============================================================================
