------------------------------ MODULE MCClient ------------------------------
(***************************************************************************)
(* Client for TLC: any step of connect may fail.                           *)
(***************************************************************************)
EXTENDS Client

AllSteps == Range(Steps)
=============================================================================
