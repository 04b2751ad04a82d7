---------------------------- MODULE MCHermesWorker ----------------------------
EXTENDS HermesWorker, TLC

CONSTANTS f1, f2

(* Two plans that meet in one file, where the second adds to it. *)
TwoPlans == {f1 :> "write_file" @@ f2 :> "none", f1 :> "append_file" @@ f2 :> "write_file"}
=============================================================================
