----------------------------- MODULE TicketState -----------------------------
(* The ticket lifecycle of fortiq-core (ticket/state.rs).                  *)

TicketState == {"OPEN", "IN_PROGRESS", "RESOLVED", "CLOSED"}

(* Shells, chat and files are allowed only in these states.                *)
permits_work(s) == s \in {"OPEN", "IN_PROGRESS"}

(* Mutated form: a closed ticket may be taken up again.                    *)
can_transition_to_reopen(s, next) ==
  \/ s = next
  \/ s = "OPEN" /\ next \in {"IN_PROGRESS", "RESOLVED", "CLOSED"}
  \/ s = "IN_PROGRESS" /\ next \in {"RESOLVED", "CLOSED"}
  \/ s \in {"RESOLVED", "CLOSED"} /\ next \in {"IN_PROGRESS", "CLOSED"}

can_transition_to(s, next) ==
  \/ s = next
  \/ s = "OPEN" /\ next \in {"IN_PROGRESS", "RESOLVED", "CLOSED"}
  \/ s = "IN_PROGRESS" /\ next \in {"RESOLVED", "CLOSED"}
  \/ s = "RESOLVED" /\ next \in {"IN_PROGRESS", "CLOSED"}
==============================================================================
