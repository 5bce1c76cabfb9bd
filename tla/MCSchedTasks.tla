---------------------------- MODULE MCSchedTasks ----------------------------
(* SchedTasks with the sizes TLC explores.                                 *)
EXTENDS SchedTasks
=============================================================================
