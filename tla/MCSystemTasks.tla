----------------------------- MODULE MCSystemTasks -----------------------------
(* Small instances of SystemTasks for TLC. *)
EXTENDS SystemTasks, TLC

RunnerSymmetry == Permutations(Runners)

================================================================================
