---------------------------- MODULE MCSupervisor ----------------------------
(* Small runs.                                                              *)
EXTENDS Supervisor, TLC

\* No two tasks conflict.
NoConflict == {}

\* Ids a worker may give a task are alike.
Alike == Permutations(Planned)
=============================================================================
