------------------------------ MODULE MCHoming ------------------------------
(***************************************************************************)
(* Homing for TLC.                                                         *)
(***************************************************************************)
EXTENDS Homing

\* The run with a clock leaves Python out: home_start runs without a pause, the
\* threads of a port take a message as soon as it is there, and the main thread
\* stays in the drip move.
TimedNext ==
  IF pc \in {"dispatch", "endstop"} THEN Main
  ELSE IF \E m \in Mcus : rxq[m] # <<>> THEN \E m \in Mcus : ReaderThread(m)
  ELSE IF \E m \in Mcus : inflight[m] # None THEN \E m \in Mcus : handle_trsync_state(m)
  ELSE Next /\ pc' # "wait"
TimedSpec == Init /\ [][TimedNext]_vars
=============================================================================
