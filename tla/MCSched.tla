------------------------------ MODULE MCSched ------------------------------
(***************************************************************************)
(* SchedTimers for TLC.                                                    *)
(***************************************************************************)
EXTENDS SchedTimers

Symmetry == Permutations(Users)
=============================================================================
