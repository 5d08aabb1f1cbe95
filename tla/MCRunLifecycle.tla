---------------------------- MODULE MCRunLifecycle -----------------------------
(***************************************************************************)
(* Instances of the run life cycle for TLC.                                *)
(***************************************************************************)
EXTENDS RunLifecycle

CONSTANTS r1, r2

================================================================================
