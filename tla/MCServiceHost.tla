---------------------------- MODULE MCServiceHost -----------------------------
(* ServiceHost for TLC: two processes, side by side or in turn.              *)
EXTENDS ServiceHost
===============================================================================
