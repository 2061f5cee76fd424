----------------------------- MODULE MCTerminal -------------------------------
(* Terminal for TLC: integers of four bits.                                  *)
EXTENDS Terminal
===============================================================================
