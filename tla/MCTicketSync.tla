---------------------------- MODULE MCTicketSync -----------------------------
(* TicketSync for TLC.                                                       *)
EXTENDS TicketSync
==============================================================================
