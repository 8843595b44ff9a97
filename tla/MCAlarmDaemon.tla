---------------------------- MODULE MCAlarmDaemon ----------------------------
(* AlarmDaemon with two process ids and two monitor threads, for TLC.      *)
EXTENDS AlarmDaemon, TLC

(* Process ids and monitor slots are interchangeable (safety runs only).   *)
Symmetry == Permutations(Pids) \cup Permutations(Monitors)
=============================================================================
