--------------------------- MODULE MCShellService ---------------------------
(* ShellService with two incoming streams and one ticket.                  *)
EXTENDS ShellService
=============================================================================
