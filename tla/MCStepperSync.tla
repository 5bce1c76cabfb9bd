--------------------------- MODULE MCStepperSync ---------------------------
(* StepperSync with the sizes TLC explores.                                *)
EXTENDS StepperSync
=============================================================================
