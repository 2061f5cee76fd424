-------------------------- MODULE MCOperatorSession --------------------------
(* Instances of OperatorSession for TLC.                                     *)
EXTENDS OperatorSession
==============================================================================
