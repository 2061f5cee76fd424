----------------------------- MODULE TicketReducer -----------------------------
(***************************************************************************)
(* The deterministic reduction of the event graph to ticket state          *)
(* (EventGraph::topological_sort and reducer/ticket.rs).                   *)
(*                                                                         *)
(* Ids are numbers because topological_sort breaks ties between equal      *)
(* Lamport values by (timestamp, id): both are fixed, arbitrary data of    *)
(* the signed object, so the order of the ids stands for the pair.         *)
(*                                                                         *)
(* An aggregate keeps the state, the revision and, in one sequence, the    *)
(* entries of the messages, attachments, shell_sessions and audit lists in *)
(* the order they were applied; titles, bodies and times are left out.     *)
(***************************************************************************)
EXTENDS EventGraph, TicketState, Sequences, FiniteSets

CONSTANTS Ticket,   \* ticket ids
          Item      \* ids of messages, attachments, shell sessions, audits

ASSUME IdsAreOrdered == Id \subseteq Nat

VARIABLE payload    \* payload[e]: the TicketEvent carried by the object e

(* The list a deduplicated entry belongs to.                               *)
EntryKind == {"CHAT", "ATTACHMENT", "SHELL_STARTED", "AUDIT"}

Payload ==
  [kind : {"CREATED"}, ticket : Ticket]
    \cup [kind : {"STATUS"}, ticket : Ticket, new_state : TicketState]
    \cup [kind : EntryKind \cup {"SHELL_ENDED"}, ticket : Ticket, item : Item]

NoPayload == [kind |-> "NONE"]

(* No aggregate for the ticket id in TicketStateStore.                     *)
NoTicket == [state |-> "NONE", revision |-> 0, entries |-> <<>>]

EmptyState == [t \in Ticket |-> NoTicket]

-------------------------------------------------------------------------------
(* SortKey: Lamport value first, then the fixed tie-break.                 *)
Before(e, f) ==
  \/ lamport[e] < lamport[f]
  \/ lamport[e] = lamport[f] /\ e < f

Earliest(S) == CHOOSE e \in S : \A f \in S \ {e} : Before(e, f)

(* Events whose present parents have all been emitted (in-degree zero).    *)
ReadyAfter(n, emitted) ==
  {e \in events[n] \ emitted : parents[e] \cap events[n] \subseteq emitted}

Emitted(s) == {s[i] : i \in DOMAIN s}

(* Kahn's algorithm.  The clean-up of lines 246-261 appends what no pass   *)
(* reached; the parents of a hashed object exist before it, so there is    *)
(* never a cycle and never a remainder.                                    *)
topological_sort(n) ==
  LET prefix[k \in 0 .. Cardinality(events[n])] ==
        IF k = 0 THEN <<>>
        ELSE LET done == prefix[k - 1]
                 ready == ReadyAfter(n, Emitted(done))
             IN  IF ready = {} THEN done ELSE Append(done, Earliest(ready))
  IN  prefix[Cardinality(events[n])]

-------------------------------------------------------------------------------
Has(agg, entry) == \E i \in DOMAIN agg.entries : agg.entries[i] = entry

Add(agg, entry) ==
  [agg EXCEPT !.revision = @ + 1,
              !.entries = IF Has(agg, entry) THEN @ ELSE Append(@, entry)]

(* Whether TicketReducer::apply_event returns Ok.                          *)
Accepts(agg, p) ==
  CASE p.kind = "CREATED" -> agg = NoTicket
    [] p.kind = "STATUS"  -> agg # NoTicket /\ can_transition_to(agg.state, p.new_state)
    [] OTHER              -> agg # NoTicket

(* The aggregate after an accepted event; entries are deduplicated by id,  *)
(* and ending a shell session that is not listed does nothing.             *)
Applied(agg, p) ==
  CASE p.kind = "CREATED" ->
         [state |-> "OPEN", revision |-> 1, entries |-> <<>>]
    [] p.kind = "STATUS" ->
         [agg EXCEPT !.state = p.new_state, !.revision = @ + 1]
    [] p.kind \in EntryKind ->
         IF Has(agg, <<p.kind, p.item>>) THEN agg ELSE Add(agg, <<p.kind, p.item>>)
    [] p.kind = "SHELL_ENDED" ->
         IF Has(agg, <<"SHELL_STARTED", p.item>>)
         THEN Add(agg, <<p.kind, p.item>>) ELSE agg

(* TicketReducer::apply_event on a whole state; an error changes nothing.  *)
apply_event(tickets, e) ==
  LET p == payload[e]
      agg == tickets[p.ticket]
  IN  IF Accepts(agg, p) THEN [tickets EXCEPT ![p.ticket] = Applied(agg, p)] ELSE tickets

(* TicketReducer::reduce: fold the events in topological order, ignoring   *)
(* the ones apply_event refuses.                                           *)
reduce(n) ==
  LET order == topological_sort(n)
      fold[k \in 0 .. Len(order)] ==
        IF k = 0 THEN EmptyState ELSE apply_event(fold[k - 1], order[k])
  IN  fold[Len(order)]

===============================================================================
