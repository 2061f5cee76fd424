---------------------------- MODULE MCDesktopShell ----------------------------
(* DesktopShell with small channels.                                         *)
EXTENDS DesktopShell
==============================================================================
