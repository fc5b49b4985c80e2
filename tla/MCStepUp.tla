-------------------------------- MODULE MCStepUp --------------------------------
(***************************************************************************)
(* Two step-ups, two people, two operations, two callbacks that can replay *)
(* each other and two business requests that can present the same grant.   *)
(***************************************************************************)
EXTENDS StepUp
================================================================================
