----------------------------- MODULE MCStepper -----------------------------
(* Stepper with the sizes TLC explores.                                    *)
EXTENDS Stepper
=============================================================================
