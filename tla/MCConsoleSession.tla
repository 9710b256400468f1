---------------------------- MODULE MCConsoleSession ----------------------------
(* Small instances of ConsoleSession for TLC. *)
EXTENDS ConsoleSession, TLC

TabSymmetry == Permutations(Tabs)

================================================================================
