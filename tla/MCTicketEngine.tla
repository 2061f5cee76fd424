--------------------------- MODULE MCTicketEngine ---------------------------
(* TicketEngine for TLC: nodes and workers are interchangeable, ids are    *)
(* not (their order breaks ties in the reduction).                         *)
EXTENDS TicketEngine, TLC

Names == Permutations(Node) \cup Permutations(Worker)
=============================================================================
