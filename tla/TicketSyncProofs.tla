-------------------------- MODULE TicketSyncProofs ---------------------------
(* Safety of the ticket synchronisation for any number of requests, copies,  *)
(* revisions and crashes.                                                    *)
EXTENDS TicketSync, FiniteSetTheorems, TLAPS

(* What keeps AppliedAtMostOnce inductive: a push has filled the operator's  *)
(* replica, an update has moved the client's revision past the one it        *)
(* expected, and neither is ever undone.                                     *)
AppliedLeavesMark ==
  \A r \in ReqId :
    /\ applied[r] =< 1
    /\ applied[r] = 1 =>
         \/ req[r].kind = "push" /\ Known(Operator)
         \/ /\ req[r].kind = "update"
            /\ Known(Client)
            /\ rec[Client].revision > req[r].revision

(* Copies under way belong to issued requests, and an answer means that the  *)
(* peer has handled the request.                                             *)
CopiesBacked ==
  \A r \in ReqId, s \in Slot :
    /\ call[r][s].ph # "idle" => req[r] \in Request
    /\ call[r][s].ph \in {"applied", "rejected"} => r \in handled
    /\ call[r][s].ph = "applied" => call[r][s].canonical \in Ticket

(* Every ticket state on the wire has been a state of the client's ticket.   *)
StatesSeen ==
  /\ Known(Client) => rec[Client].state \in past
  /\ \A r \in ReqId : req[r].kind = "push" => req[r].state \in past
  /\ \A r \in ReqId, s \in Slot :
       call[r][s].canonical # NoTicket => call[r][s].canonical.state \in past

QueuedIssued == \A r \in queued : req[r] \in Request

SyncInv ==
  /\ SyncTypeOK
  /\ AppliedLeavesMark
  /\ CopiesBacked
  /\ StatesSeen
  /\ QueuedIssued
  /\ KeptUntilHandled
  /\ OperatorNeverAhead

------------------------------------------------------------------------------
(* The initial state satisfies the invariant.                                *)
LEMMA SyncInitInv == SyncInit => SyncInv
<1> SUFFICES ASSUME SyncInit PROVE SyncInv
  OBVIOUS
<1>1. SyncTypeOK
  BY SyncBounds DEF SyncInit, SyncTypeOK, Node, Idle, Copy
<1>2. AppliedLeavesMark /\ CopiesBacked /\ StatesSeen
  BY DEF SyncInit, AppliedLeavesMark, CopiesBacked, StatesSeen, Idle, Known,
         NoRequest, NoTicket, Node
<1>3. QueuedIssued /\ KeptUntilHandled /\ OperatorNeverAhead
  BY DEF SyncInit, QueuedIssued, KeptUntilHandled, OperatorNeverAhead, Known, Node
<1> QED BY <1>1, <1>2, <1>3 DEF SyncInv

(* Steps that only lose, send or requeue copies: they touch no ticket, no    *)
(* request content and no history of what was handled, and every copy they   *)
(* make belongs to an issued request and carries no ticket.                  *)
LEMMA TransportInv ==
  ASSUME SyncInv,
         UNCHANGED <<rec, req, handled, applied, past>>,
         SyncTypeOK',
         \A n \in Node : outbox[n] \subseteq outbox'[n],
         \A r \in queued' : r \in queued \/ (req[r] \in Request /\ r \in outbox'[req[r].from]),
         \A r \in ReqId, s \in Slot :
           \/ call'[r][s] = call[r][s]
           \/ call'[r][s] = Idle
           \/ call'[r][s] \in {Sent, Orphan} /\ req[r] \in Request
  PROVE  SyncInv'
<1>1. AppliedLeavesMark'
  BY DEF SyncInv, AppliedLeavesMark, Known
<1>2. CopiesBacked'
  BY DEF SyncInv, CopiesBacked, Idle, Sent, Orphan
<1>3. StatesSeen'
  BY DEF SyncInv, StatesSeen, Known, Idle, Sent, Orphan
<1>4. QueuedIssued' /\ KeptUntilHandled'
  BY DEF SyncInv, QueuedIssued, KeptUntilHandled, Request, Node
<1>5. OperatorNeverAhead'
  BY DEF SyncInv, OperatorNeverAhead, Known
<1> QED BY <1>1, <1>2, <1>3, <1>4, <1>5 DEF SyncInv

(* The copies a transport step leaves behind are well-formed.                *)
LEMMA CopyTyped == Idle \in Copy /\ Sent \in Copy /\ Orphan \in Copy
BY DEF Idle, Sent, Orphan, Copy

(* Taking a command keeps the invariant.                                     *)
LEMMA NetworkStepInv ==
  ASSUME SyncInv, NEW n \in Node, NEW r \in ReqId,
         SyncTickets(n, r) \/ EnqueueFails(n, r)
  PROVE  SyncInv'
<1> USE CopyTyped, SyncBounds
<1>1. CASE SyncTickets(n, r)
  <2>1. \A q \in ReqId, s \in Slot :
          \/ call'[q][s] = call[q][s]
          \/ call'[q][s] = Sent /\ req[q] \in Request
    BY <1>1 DEF SyncTickets, SyncInv, SyncTypeOK
  <2>2. call' \in [ReqId -> [Slot -> Copy]]
    BY <1>1 DEF SyncTickets, SyncInv, SyncTypeOK
  <2>3. SyncTypeOK'
    BY <1>1, <2>2 DEF SyncTickets, SyncInv, SyncTypeOK
  <2>4. /\ \A m \in Node : outbox[m] \subseteq outbox'[m]
        /\ r \in outbox'[n] /\ queued' = queued \cup {r}
        /\ UNCHANGED <<rec, req, handled, applied, past>>
    BY <1>1 DEF SyncTickets, SyncInv, SyncTypeOK
  <2>5. req[r] \in Request /\ req[r].from = n
    BY <1>1 DEF SyncTickets, SyncInv, SyncTypeOK
  <2> QED BY <2>1, <2>3, <2>4, <2>5, TransportInv
<1>2. CASE EnqueueFails(n, r)
  <2>1. SyncTypeOK'
    BY <1>2 DEF EnqueueFails, SyncInv, SyncTypeOK
  <2> QED BY <1>2, <2>1, TransportInv DEF EnqueueFails
<1> QED BY <1>1, <1>2

(* Connections made, failed and lost, and crashes, keep the invariant.       *)
LEMMA ConnectionStepInv ==
  ASSUME SyncInv, NEW n \in Node,
         \/ ConnectionEstablished(n) \/ OutgoingConnectionError(n)
         \/ ConnectionClosed(n) \/ Crash(n)
  PROVE  SyncInv'
<1> USE CopyTyped, SyncBounds
<1>1. CASE ConnectionEstablished(n)
  <2>1. \A q \in ReqId, s \in Slot :
          \/ call'[q][s] = call[q][s]
          \/ call'[q][s] = Sent /\ s \in FirstIdle(q, CopiesDue(n, q))
    BY <1>1 DEF ConnectionEstablished
  <2>2. ASSUME NEW q \in ReqId, NEW s \in FirstIdle(q, CopiesDue(n, q))
        PROVE  req[q] \in Request
    <3>1. CASE q \in dialing[n] \cup outbox[n]
      BY <3>1 DEF SyncInv, SyncTypeOK
    <3>2. CASE q \notin dialing[n] \cup outbox[n]
      <4>1. CopiesDue(n, q) = 0
        BY <3>2 DEF CopiesDue
      <4>2. s \in {t \in IdleSlots(q) : t =< s}
        BY <2>2 DEF FirstIdle, IdleSlots, Slot
      <4>3. IsFiniteSet({t \in IdleSlots(q) : t =< s})
        <5>1. IsFiniteSet(Slot)
          BY FS_Interval DEF Slot
        <5> QED BY <5>1, FS_Subset DEF IdleSlots
      <4>4. Cardinality({t \in IdleSlots(q) : t =< s}) =< 0
        BY <2>2, <4>1 DEF FirstIdle
      <4> QED BY <4>2, <4>3, <4>4, FS_EmptySet, FS_CardinalityType, SMTT(30), ZenonT(20)
    <3> QED BY <3>1, <3>2
  <2>3. call' \in [ReqId -> [Slot -> Copy]]
    BY <1>1 DEF ConnectionEstablished, SyncInv, SyncTypeOK
  <2>4. SyncTypeOK'
    BY <1>1, <2>3 DEF ConnectionEstablished, SyncInv, SyncTypeOK
  <2> QED BY <1>1, <2>1, <2>2, <2>4, TransportInv DEF ConnectionEstablished
<1>2. CASE OutgoingConnectionError(n)
  <2>1. SyncTypeOK'
    BY <1>2, SMTT(30), ZenonT(20) DEF OutgoingConnectionError, SyncInv, SyncTypeOK
  <2> QED BY <1>2, <2>1, TransportInv DEF OutgoingConnectionError
<1>3. CASE ConnectionClosed(n)
  <2>1. \A q \in ReqId, s \in Slot :
          \/ call'[q][s] = call[q][s]
          \/ call'[q][s] = Idle
          \/ call'[q][s] = Orphan /\ call[q][s].ph # "idle"
    BY <1>3 DEF ConnectionClosed, AbandonCallsOf, Abandoned
  <2>2. call' \in [ReqId -> [Slot -> Copy]]
    BY <1>3 DEF ConnectionClosed, AbandonCallsOf, Abandoned, SyncInv, SyncTypeOK
  <2>3. SyncTypeOK'
    BY <1>3, <2>2 DEF ConnectionClosed, SyncInv, SyncTypeOK
  <2> QED BY <1>3, <2>1, <2>3, TransportInv DEF ConnectionClosed, SyncInv, CopiesBacked
<1>4. CASE Crash(n)
  <2>1. \A q \in ReqId, s \in Slot :
          \/ call'[q][s] = Idle
          \/ call'[q][s] = Orphan /\ call[q][s].ph # "idle"
    BY <1>4 DEF Crash, Abandoned
  <2>2. call' \in [ReqId -> [Slot -> Copy]]
    BY <1>4 DEF Crash, Abandoned
  <2>3. SyncTypeOK'
    BY <1>4, <2>2 DEF Crash, SyncInv, SyncTypeOK
  <2> QED BY <1>4, <2>1, <2>3, TransportInv DEF Crash, SyncInv, CopiesBacked
<1> QED BY <1>1, <1>2, <1>3, <1>4

(* A failed call and a lost request keep the invariant.                      *)
LEMMA CallFailsInv ==
  ASSUME SyncInv, NEW r \in ReqId, NEW s \in Slot,
         OutboundFailure(r, s) \/ OrphanLost(r, s)
  PROVE  SyncInv'
<1> USE CopyTyped
<1>1. \A q \in ReqId, t \in Slot :
        \/ call'[q][t] = call[q][t]
        \/ call'[q][t] = Idle
        \/ call'[q][t] = Orphan /\ call[q][t].ph # "idle"
  BY DEF OutboundFailure, OrphanLost, Abandoned, SyncInv, SyncTypeOK
<1>2. call' \in [ReqId -> [Slot -> Copy]]
  <2>1. call \in [ReqId -> [Slot -> Copy]]
    BY DEF SyncInv, SyncTypeOK
  <2>2. \E c \in Copy : call' = [call EXCEPT ![r][s] = c]
    BY <2>1 DEF OutboundFailure, OrphanLost, Abandoned
  <2> QED BY <2>1, <2>2
<1>3. SyncTypeOK'
  BY <1>2 DEF OutboundFailure, OrphanLost, SyncInv, SyncTypeOK
<1> QED BY <1>1, <1>3, TransportInv DEF OutboundFailure, OrphanLost, SyncInv, CopiesBacked

------------------------------------------------------------------------------
(* Tickets: what a step that changes one owes the invariant                  *)

(* The record of n may only be replaced by a later one: the client's is then *)
(* recorded in past, the operator's has a state that is already there.       *)
TicketGrows(n, t) ==
  /\ t \in Ticket
  /\ Known(n) => t.revision >= rec[n].revision
  /\ n = Operator => t.state \in past

(* Replacing a record so keeps what the invariant says of tickets.           *)
LEMMA TicketGrowsInv ==
  ASSUME SyncInv, NEW n \in Node, NEW t, TicketGrows(n, t), SetTicket(n, t)
  PROVE  /\ rec' \in [Node -> Ticket \cup {NoTicket}]
         /\ past \subseteq past' /\ past' \subseteq TicketState
         /\ Known(Client)' => rec'[Client].state \in past'
         /\ OperatorNeverAhead'
         /\ \A m \in Node : Known(m) => Known(m)' /\ rec'[m].revision >= rec[m].revision
<1>1. t \in Ticket /\ t # NoTicket
  BY DEF TicketGrows, Ticket, NoTicket
<1>2. rec \in [Node -> Ticket \cup {NoTicket}] /\ past \subseteq TicketState
  BY DEF SyncInv, SyncTypeOK
<1>3. rec' = [rec EXCEPT ![n] = t]
  BY DEF SetTicket
<1>4. past \subseteq past' /\ past' \subseteq TicketState
  BY <1>1, <1>2 DEF SetTicket, Ticket
<1>5. Known(Client)' => rec'[Client].state \in past'
  BY <1>1, <1>2, <1>3, <1>4 DEF SetTicket, Known, SyncInv, StatesSeen, Node
<1>6. OperatorNeverAhead'
  BY <1>1, <1>2, <1>3, <1>4, TwoNodes
     DEF SetTicket, Known, SyncInv, OperatorNeverAhead, TicketGrows, Node
<1>7. ASSUME NEW m \in Node, Known(m)
      PROVE  Known(m)' /\ rec'[m].revision >= rec[m].revision
  BY <1>1, <1>2, <1>3, <1>7 DEF Known, TicketGrows, Ticket
<1> QED BY <1>1, <1>2, <1>3, <1>4, <1>5, <1>6, <1>7

(* An accepted status change is a later record.                              *)
LEMMA ChangedGrows ==
  ASSUME SyncInv, Known(Client), NEW st \in TicketState
  PROVE  TicketGrows(Client, Changed(rec[Client], st))
BY TwoNodes DEF SyncInv, SyncTypeOK, Known, Changed, TicketGrows, Ticket, Node

(* An imported record is a later one, with a state seen before.              *)
LEMMA ImportGrows ==
  ASSUME SyncInv, NEW n \in Node, NEW t \in Ticket, t.state \in past
  PROVE  TicketGrows(n, import_canonical_ticket(rec[n], t))
<1>1. rec[n] \in Ticket \cup {NoTicket}
  BY DEF SyncInv, SyncTypeOK
<1>2. CASE rec[n] = NoTicket
  BY <1>2 DEF import_canonical_ticket, TicketGrows, Known, Ticket
<1>3. CASE rec[n] # NoTicket /\ import_canonical_ticket(rec[n], t) = rec[n]
  <2>1. rec[n] \in Ticket /\ (n = Operator => rec[n].state \in past)
    BY <1>1, <1>3 DEF SyncInv, OperatorNeverAhead, Known
  <2>2. \A u \in Ticket : u.revision >= u.revision
    BY DEF Ticket
  <2> QED BY <1>3, <2>1, <2>2 DEF TicketGrows
<1>4. CASE rec[n] # NoTicket /\ import_canonical_ticket(rec[n], t) = Changed(rec[n], t.state)
  BY <1>1, <1>4 DEF TicketGrows, Known, Ticket, Changed
<1> QED BY <1>2, <1>3, <1>4 DEF import_canonical_ticket

(* A step that touches no ticket leaves every ticket as good as it was.      *)
LEMMA SameTickets ==
  ASSUME SyncInv, UNCHANGED <<rec, past>>
  PROVE  /\ rec' \in [Node -> Ticket \cup {NoTicket}]
         /\ past \subseteq past' /\ past' \subseteq TicketState
         /\ Known(Client)' => rec'[Client].state \in past'
         /\ OperatorNeverAhead'
         /\ \A m \in Node : Known(m) => Known(m)' /\ rec'[m].revision >= rec[m].revision
<1>1. rec' = rec /\ past' = past
  OBVIOUS
<1>2. /\ rec \in [Node -> Ticket \cup {NoTicket}] /\ past \subseteq TicketState
      /\ Known(Client) => rec[Client].state \in past
      /\ OperatorNeverAhead
  BY DEF SyncInv, SyncTypeOK, StatesSeen
<1>3. ASSUME NEW m \in Node PROVE rec[m].revision >= rec[m].revision
  <2>1. rec[m] \in Ticket \cup {NoTicket}
    BY <1>2
  <2>2. rec[m].revision \in Nat
    BY <2>1 DEF Ticket, NoTicket
  <2> QED BY <2>2
<1>4. OperatorNeverAhead'
  BY <1>1, <1>2 DEF OperatorNeverAhead, Known
<1> QED BY <1>1, <1>2, <1>3, <1>4 DEF Known

(* The mark an applied request left survives while tickets only grow.        *)
LEMMA MarkKept ==
  ASSUME SyncInv, NEW q \in ReqId, applied[q] = 1,
         rec' \in [Node -> Ticket \cup {NoTicket}],
         \A m \in Node : Known(m) => Known(m)' /\ rec'[m].revision >= rec[m].revision
  PROVE  \/ req[q].kind = "push" /\ Known(Operator)'
         \/ /\ req[q].kind = "update" /\ Known(Client)'
            /\ rec'[Client].revision > req[q].revision
<1>1. CASE req[q].kind = "push" /\ Known(Operator)
  BY <1>1 DEF Node
<1>2. CASE req[q].kind = "update" /\ Known(Client) /\ rec[Client].revision > req[q].revision
  <2>1. req[q].revision \in Int
    BY DEF SyncInv, SyncTypeOK, Request, NoRequest
  <2>2. rec[Client].revision \in Int /\ rec'[Client].revision \in Int
    <3>1. \A t \in Ticket \cup {NoTicket} : t.revision \in Int
      BY DEF Ticket, NoTicket
    <3>2. Client \in Node /\ rec \in [Node -> Ticket \cup {NoTicket}]
      BY DEF SyncInv, SyncTypeOK, Node
    <3> QED BY <3>1, <3>2
  <2>3. Known(Client)' /\ rec'[Client].revision >= rec[Client].revision
    BY <1>2 DEF Node
  <2> QED BY <1>2, <2>1, <2>2, <2>3
<1> QED BY <1>1, <1>2 DEF SyncInv, AppliedLeavesMark

(* Adding an entry to a ticket keeps the invariant.                          *)
LEMMA AddEntryInv ==
  ASSUME SyncInv, NEW n \in Node, AddEntry(n)
  PROVE  SyncInv'
<1> DEFINE t == [rec[n] EXCEPT !.revision = @ + 1]
<1>1. SetTicket(n, t) /\ UNCHANGED <<req, handled, applied>> /\ UNCHANGED netVars
  BY DEF AddEntry
<1>2. TicketGrows(n, t)
  BY DEF AddEntry, Known, TicketGrows, Ticket, SyncInv, SyncTypeOK, OperatorNeverAhead
<1> HIDE DEF t
<1>3. /\ rec' \in [Node -> Ticket \cup {NoTicket}]
      /\ past \subseteq past' /\ past' \subseteq TicketState
      /\ Known(Client)' => rec'[Client].state \in past'
      /\ OperatorNeverAhead'
      /\ \A m \in Node : Known(m) => Known(m)' /\ rec'[m].revision >= rec[m].revision
  BY <1>1, <1>2, TicketGrowsInv
<1>4. SyncTypeOK'
  BY <1>1, <1>3, SMTT(30), ZenonT(20) DEF SyncInv, SyncTypeOK, netVars
<1>5. AppliedLeavesMark'
  BY <1>1, <1>3, MarkKept DEF SyncInv, AppliedLeavesMark
<1>6. CopiesBacked' /\ QueuedIssued' /\ KeptUntilHandled'
  BY <1>1 DEF SyncInv, CopiesBacked, QueuedIssued, KeptUntilHandled, netVars
<1>7. StatesSeen'
  BY <1>1, <1>3 DEF SyncInv, StatesSeen, netVars
<1> QED BY <1>3, <1>4, <1>5, <1>6, <1>7 DEF SyncInv

(* Issuing a request whose push state, if it is a push, is a client state.   *)
LEMMA CommandInv ==
  ASSUME SyncInv, NEW r \in ReqId, NEW content \in Request, Command(r, content),
         rec' \in [Node -> Ticket \cup {NoTicket}],
         past \subseteq past', past' \subseteq TicketState,
         Known(Client)' => rec'[Client].state \in past',
         OperatorNeverAhead',
         \A m \in Node : Known(m) => Known(m)' /\ rec'[m].revision >= rec[m].revision,
         content.kind = "push" => content.state \in past'
  PROVE  SyncInv'
<1>1. /\ req' = [req EXCEPT ![r] = content] /\ req[r] = NoRequest
      /\ commands' = [commands EXCEPT ![content.from] = @ \cup {r}]
      /\ UNCHANGED <<outbox, dialing, conn, call, crashes, queued, handled, applied>>
  BY DEF Command
<1>2. SyncTypeOK
  BY DEF SyncInv
<1>3. NoRequest \notin Request
  BY DEF NoRequest, Request
<1>4. \A q \in ReqId : q # r => req'[q] = req[q]
  BY <1>1, <1>2 DEF SyncTypeOK
<1>5. req'[r] = content /\ req' \in [ReqId -> Request \cup {NoRequest}]
  BY <1>1, <1>2 DEF SyncTypeOK
<1>6. \A n \in Node : \A q \in commands'[n] \cup outbox[n] \cup dialing[n] :
        req'[q] \in Request /\ req'[q].from = n
  BY <1>1, <1>2, <1>3, <1>4, <1>5, SMTT(30), ZenonT(20) DEF SyncTypeOK, Request
<1>7. SyncTypeOK'
  <2>1. commands' \in [Node -> SUBSET ReqId]
    BY <1>1, <1>2 DEF SyncTypeOK, Request
  <2> QED BY <1>1, <1>2, <1>5, <1>6, <2>1 DEF SyncTypeOK
<1>8. AppliedLeavesMark'
  <2>1. applied[r] # 1
    <3>1. NoRequest.kind # "push" /\ NoRequest.kind # "update"
      BY DEF NoRequest
    <3> QED BY <1>1, <3>1 DEF SyncInv, AppliedLeavesMark
  <2>2. ASSUME NEW q \in ReqId, q # r, applied[q] = 1
        PROVE  \/ req[q].kind = "push" /\ Known(Operator)'
               \/ req[q].kind = "update" /\ Known(Client)' /\ rec'[Client].revision > req[q].revision
    BY <2>2, MarkKept
  <2> QED BY <1>1, <1>4, <2>1, <2>2 DEF SyncInv, AppliedLeavesMark
<1>9. CopiesBacked'
  BY <1>1, <1>3, <1>4, <1>5 DEF SyncInv, CopiesBacked
<1>10. StatesSeen'
  BY <1>1, <1>4, <1>5, SMTT(30), ZenonT(20) DEF SyncInv, StatesSeen
<1>11. QueuedIssued' /\ KeptUntilHandled'
  BY <1>1, <1>2, <1>3, <1>4 DEF SyncInv, QueuedIssued, KeptUntilHandled, SyncTypeOK
<1> QED BY <1>7, <1>8, <1>9, <1>10, <1>11 DEF SyncInv

(* The three IPC operations keep the invariant.                              *)
LEMMA IssueInv ==
  ASSUME SyncInv, NEW r \in ReqId, NEW st \in TicketState,
         CreateTicket(r) \/ UpdateLocal(r, st) \/ UpdateRemote(r, st)
  PROVE  SyncInv'
<1>1. CASE CreateTicket(r)
  <2> DEFINE t == [state |-> "OPEN", revision |-> 1]
  <2>1. SetTicket(Client, t) /\ Command(r, Push(t)) /\ ~Known(Client)
    BY <1>1 DEF CreateTicket
  <2>2. TicketGrows(Client, t) /\ t \in Ticket
    BY <2>1, TwoNodes DEF TicketGrows, Ticket, TicketState
  <2>3. Push(t) \in Request /\ Push(t).state \in past'
    BY <2>1, <2>2, SMTT(30), ZenonT(20) DEF Push, Request, Ticket, Node, SetTicket
  <2> HIDE DEF t
  <2> QED BY <2>1, <2>2, <2>3, TicketGrowsInv, CommandInv DEF Node
<1>2. CASE UpdateLocal(r, st)
  <2> DEFINE t == Changed(rec[Client], st)
  <2>1. SetTicket(Client, t) /\ Command(r, Push(t)) /\ Known(Client)
    BY <1>2 DEF UpdateLocal
  <2>2. TicketGrows(Client, t)
    BY <2>1, ChangedGrows
  <2>3. t \in Ticket
    BY <2>2 DEF TicketGrows
  <2> HIDE DEF t
  <2>4. Push(t) \in Request /\ Push(t).state \in past'
    BY <2>1, <2>3, SMTT(30), ZenonT(20) DEF Push, Request, Ticket, Node, SetTicket
  <2> QED BY <2>1, <2>2, <2>4, TicketGrowsInv, CommandInv DEF Node
<1>3. CASE UpdateRemote(r, st)
  <2> DEFINE c == [kind |-> "update", from |-> Operator,
                   state |-> st, revision |-> rec[Operator].revision]
  <2>1. Command(r, c) /\ Known(Operator) /\ UNCHANGED <<rec, past>>
    BY <1>3 DEF UpdateRemote
  <2>2. c \in Request /\ c.kind # "push"
    BY <2>1 DEF Request, Known, SyncInv, SyncTypeOK, Ticket, Node
  <2>3. /\ rec' \in [Node -> Ticket \cup {NoTicket}]
        /\ past \subseteq past' /\ past' \subseteq TicketState
        /\ Known(Client)' => rec'[Client].state \in past'
        /\ OperatorNeverAhead'
        /\ \A m \in Node : Known(m) => Known(m)' /\ rec'[m].revision >= rec[m].revision
    BY <2>1, SameTickets
  <2> HIDE DEF c
  <2> QED BY <2>1, <2>2, <2>3, CommandInv
<1> QED BY <1>1, <1>2, <1>3

------------------------------------------------------------------------------
(* Handling one copy of a request                                            *)

(* What a handler owes the invariant when it answers copy s of r with c:     *)
(* tickets only grow, and r is counted only if it was not before and leaves  *)
(* its mark.                                                                 *)
LEMMA HandledInv ==
  ASSUME SyncInv, NEW r \in ReqId, NEW s \in Slot, NEW c \in Copy,
         call' = [call EXCEPT ![r][s] = c],
         handled' = handled \cup {r},
         UNCHANGED <<req, commands, outbox, dialing, conn, crashes, queued>>,
         req[r] \in Request,
         c.ph = "applied" => c.canonical \in Ticket,
         c.canonical # NoTicket => c.canonical.state \in past',
         rec' \in [Node -> Ticket \cup {NoTicket}],
         past \subseteq past', past' \subseteq TicketState,
         Known(Client)' => rec'[Client].state \in past',
         OperatorNeverAhead',
         \A m \in Node : Known(m) => Known(m)' /\ rec'[m].revision >= rec[m].revision,
         \/ applied' = applied
         \/ /\ applied' = [applied EXCEPT ![r] = @ + 1]
            /\ applied[r] = 0
            /\ \/ req[r].kind = "push" /\ Known(Operator)'
               \/ /\ req[r].kind = "update" /\ Known(Client)'
                  /\ rec'[Client].revision > req[r].revision
  PROVE  SyncInv'
<1>1. SyncTypeOK
  BY DEF SyncInv
<1>2. applied' \in [ReqId -> Nat]
  <2>1. applied \in [ReqId -> Nat]
    BY <1>1 DEF SyncTypeOK
  <2>2. CASE applied' = [applied EXCEPT ![r] = @ + 1] /\ applied[r] = 0
    BY <2>1, <2>2, SMTT(30), ZenonT(20)
  <2> QED BY <2>1, <2>2
<1>3. call' \in [ReqId -> [Slot -> Copy]]
  BY <1>1, SMTT(30), ZenonT(20) DEF SyncTypeOK
<1>4. SyncTypeOK'
  BY <1>1, <1>2, <1>3, SMTT(30), ZenonT(20) DEF SyncTypeOK
<1>5. \A q \in ReqId, t \in Slot : call'[q][t] = call[q][t] \/ (q = r /\ call'[q][t] = c)
  BY <1>1 DEF SyncTypeOK
<1>6. AppliedLeavesMark'
  <2>1. ASSUME NEW q \in ReqId, applied[q] = 1
        PROVE  \/ req[q].kind = "push" /\ Known(Operator)'
               \/ req[q].kind = "update" /\ Known(Client)' /\ rec'[Client].revision > req[q].revision
    BY <2>1, MarkKept
  <2>2. CASE applied' = applied
    BY <2>1, <2>2 DEF SyncInv, AppliedLeavesMark
  <2>3. CASE applied' # applied
    <3>1. applied'[r] = 1 /\ \A q \in ReqId : q # r => applied'[q] = applied[q]
      <4>1. applied \in [ReqId -> Nat]
        BY <1>1 DEF SyncTypeOK
      <4>2. applied' = [applied EXCEPT ![r] = @ + 1] /\ applied[r] = 0
        BY <2>3
      <4> QED BY <4>1, <4>2
    <3> QED BY <2>1, <2>3, <3>1 DEF SyncInv, AppliedLeavesMark
  <2> QED BY <2>2, <2>3
<1>7. CopiesBacked'
  BY <1>5 DEF SyncInv, CopiesBacked
<1>8. StatesSeen'
  BY <1>5 DEF SyncInv, StatesSeen
<1>9. QueuedIssued' /\ KeptUntilHandled'
  BY DEF SyncInv, QueuedIssued, KeptUntilHandled
<1> QED BY <1>4, <1>6, <1>7, <1>8, <1>9 DEF SyncInv

(* Handling a copy of a pushed ticket keeps the invariant.                   *)
LEMMA HandlePushInv ==
  ASSUME SyncInv, NEW r \in ReqId, NEW s \in Slot, HandlePush(r, s)
  PROVE  SyncInv'
<1> DEFINE t == [state |-> req[r].state, revision |-> req[r].revision]
           ok == req[r].state = "OPEN" /\ req[r].revision = 1 /\ ~Known(Operator)
           c == IF ok THEN Answered(call[r][s], "applied", t)
                      ELSE Answered(call[r][s], "rejected", NoTicket)
<1>1. req[r] \in Request /\ req[r].kind = "push" /\ req[r].state \in past
  BY DEF HandlePush, SyncInv, CopiesBacked, StatesSeen
<1>2. t \in Ticket /\ t.state \in past
  BY <1>1, SMTT(30), ZenonT(20) DEF Ticket, Request
<1>3. /\ c \in Copy
      /\ c.ph = "applied" => c.canonical \in Ticket
      /\ c.canonical # NoTicket => c.canonical.state \in past
  BY <1>2 DEF Answered, Idle, Copy
<1>4. /\ call' = [call EXCEPT ![r][s] = c]
      /\ handled' = handled \cup {r}
      /\ UNCHANGED <<req, commands, outbox, dialing, conn, crashes, queued>>
  BY DEF HandlePush
<1>5. CASE ok
  <2>1. /\ SetTicket(Operator, import_canonical_ticket(rec[Operator], t))
        /\ applied' = [applied EXCEPT ![r] = @ + 1]
    BY <1>5 DEF HandlePush, Known
  <2>2. applied[r] = 0
    <3>1. applied[r] \in Nat /\ applied[r] =< 1 /\ applied[r] # 1
      BY <1>1, <1>5 DEF SyncInv, SyncTypeOK, AppliedLeavesMark
    <3> QED BY <3>1
  <2> HIDE DEF c, t
  <2>3. TicketGrows(Operator, import_canonical_ticket(rec[Operator], t))
    BY <1>2, ImportGrows DEF Node
  <2>4. Known(Operator)'
    <3> DEFINE u == import_canonical_ticket(rec[Operator], t)
    <3>1. u \in Ticket /\ rec' = [rec EXCEPT ![Operator] = u]
      BY <2>1, <2>3 DEF SetTicket, TicketGrows
    <3>2. Operator \in Node /\ DOMAIN rec = Node
      BY DEF SyncInv, SyncTypeOK, Node
    <3>3. NoTicket \notin Ticket
      BY DEF Ticket, NoTicket
    <3> HIDE DEF u
    <3> QED BY <3>1, <3>2, <3>3 DEF Known
  <2> QED BY <1>1, <1>3, <1>4, <2>1, <2>2, <2>3, <2>4, TicketGrowsInv, HandledInv DEF Node
<1>6. CASE ~ok
  <2>1. UNCHANGED <<rec, past, applied>>
    BY <1>6 DEF HandlePush
  <2> HIDE DEF c, t
  <2>2. /\ rec' \in [Node -> Ticket \cup {NoTicket}]
        /\ past \subseteq past' /\ past' \subseteq TicketState
        /\ Known(Client)' => rec'[Client].state \in past'
        /\ OperatorNeverAhead'
        /\ \A m \in Node : Known(m) => Known(m)' /\ rec'[m].revision >= rec[m].revision
    BY <2>1, SameTickets
  <2> QED BY <1>1, <1>3, <1>4, <2>1, <2>2, HandledInv
<1> QED BY <1>5, <1>6

(* Handling a copy of a signed status mutation keeps the invariant.          *)
LEMMA HandleUpdateInv ==
  ASSUME SyncInv, NEW r \in ReqId, NEW s \in Slot, NEW valid \in BOOLEAN,
         HandleUpdate(r, s, valid)
  PROVE  SyncInv'
<1> DEFINE t == Changed(rec[Client], req[r].state)
           ok == Authorized(r, valid) /\ can_transition_to(rec[Client].state, req[r].state)
           c == AnswerToUpdate(r, call[r][s], valid)
<1>1. req[r] \in Request /\ req[r].kind = "update"
  BY DEF HandleUpdate, SyncInv, CopiesBacked
<1>2. /\ call' = [call EXCEPT ![r][s] = c]
      /\ handled' = handled \cup {r}
      /\ UNCHANGED <<req, commands, outbox, dialing, conn, crashes, queued>>
  BY DEF HandleUpdate
<1>3. CASE ok
  <2>1. /\ SetTicket(Client, t)
        /\ applied' = [applied EXCEPT ![r] = @ + 1]
    BY <1>3 DEF HandleUpdate
  <2>2. Known(Client) /\ rec[Client].revision = req[r].revision
    BY <1>3 DEF Authorized
  <2>3. applied[r] = 0
    <3>1. applied[r] \in Nat /\ applied[r] =< 1
      BY DEF SyncInv, SyncTypeOK, AppliedLeavesMark
    <3>2. rec[Client].revision \in Int
      <4>1. rec[Client] \in Ticket \cup {NoTicket}
        BY DEF SyncInv, SyncTypeOK, Node
      <4>2. \A x \in Ticket : x.revision \in Int
        BY DEF Ticket
      <4>3. NoTicket.revision \in Int
        BY DEF NoTicket
      <4> QED BY <4>1, <4>2, <4>3
    <3>3. applied[r] # 1
      <4>1. applied[r] = 1 => rec[Client].revision > req[r].revision
        BY <1>1 DEF SyncInv, AppliedLeavesMark
      <4> QED BY <2>2, <3>2, <4>1
    <3> QED BY <3>1, <3>3
  <2>4. TicketGrows(Client, t)
    BY <1>1, <2>2, ChangedGrows DEF Request
  <2>5. t \in Ticket /\ t.state \in past'
    BY <2>1, <2>4 DEF TicketGrows, SetTicket
  <2>6. c = Answered(call[r][s], "applied", t)
    BY <1>3 DEF AnswerToUpdate
  <2>7. Known(Client)' /\ rec'[Client].revision > req[r].revision
    <3>1. rec' = [rec EXCEPT ![Client] = t] /\ t.revision = rec[Client].revision + 1
      BY <2>1 DEF SetTicket, Changed
    <3>2. Client \in Node /\ DOMAIN rec = Node /\ req[r].revision \in Nat
      BY <1>1 DEF SyncInv, SyncTypeOK, Node, Request
    <3>3. NoTicket \notin Ticket
      BY DEF Ticket, NoTicket
    <3> HIDE DEF t
    <3>4. rec'[Client] = t /\ t.revision > req[r].revision
      BY <2>2, <3>1, <3>2
    <3> QED BY <2>5, <3>3, <3>4 DEF Known
  <2> HIDE DEF c, t
  <2>8. /\ c \in Copy
        /\ c.ph = "applied" => c.canonical \in Ticket
        /\ c.canonical # NoTicket => c.canonical.state \in past'
    BY <2>5, <2>6 DEF Answered, Idle, Copy
  <2> QED BY <1>1, <1>2, <2>1, <2>3, <2>4, <2>7, <2>8, TicketGrowsInv, HandledInv DEF Node
<1>4. CASE ~ok
  <2>1. UNCHANGED <<rec, past, applied>>
    BY <1>4 DEF HandleUpdate
  <2>2. c = Answered(call[r][s], "rejected", rec[Client])
    BY <1>4 DEF AnswerToUpdate
  <2> HIDE DEF c, t
  <2>3. /\ c \in Copy
        /\ c.ph = "applied" => c.canonical \in Ticket
        /\ c.canonical # NoTicket => c.canonical.state \in past'
    BY <2>1, <2>2 DEF Answered, Idle, Copy, SyncInv, SyncTypeOK, StatesSeen, Known, Node
  <2>4. /\ rec' \in [Node -> Ticket \cup {NoTicket}]
        /\ past \subseteq past' /\ past' \subseteq TicketState
        /\ Known(Client)' => rec'[Client].state \in past'
        /\ OperatorNeverAhead'
        /\ \A m \in Node : Known(m) => Known(m)' /\ rec'[m].revision >= rec[m].revision
    BY <2>1, SameTickets
  <2> QED BY <1>1, <1>2, <2>1, <2>3, <2>4, HandledInv
<1> QED BY <1>3, <1>4

(* Receiving an answer keeps the invariant: the request leaves the outbox    *)
(* only now that it is known to have been handled.                           *)
LEMMA HandleResponseInv ==
  ASSUME SyncInv, NEW r \in ReqId, NEW s \in Slot, HandleResponse(r, s)
  PROVE  SyncInv'
<1> DEFINE n == req[r].from
           c == call[r][s]
           t == import_canonical_ticket(rec[n], c.canonical)
<1>1. req[r] \in Request /\ r \in handled /\ n \in Node
  BY DEF HandleResponse, SyncInv, CopiesBacked, Request
<1>2. /\ call' = [call EXCEPT ![r][s] = Idle]
      /\ outbox' = [outbox EXCEPT ![n] = @ \ {r}]
      /\ UNCHANGED <<req, commands, dialing, conn, crashes, queued, handled, applied>>
  BY DEF HandleResponse
<1>3. /\ rec' \in [Node -> Ticket \cup {NoTicket}]
      /\ past \subseteq past' /\ past' \subseteq TicketState
      /\ Known(Client)' => rec'[Client].state \in past'
      /\ OperatorNeverAhead'
      /\ \A m \in Node : Known(m) => Known(m)' /\ rec'[m].revision >= rec[m].revision
  <2>1. CASE UNCHANGED <<rec, past>>
    BY <2>1, SameTickets
  <2>2. CASE ~UNCHANGED <<rec, past>>
    <3>1. SetTicket(n, t) /\ (c.ph = "applied" \/ c.canonical # NoTicket)
      BY <2>2, SMTT(30), ZenonT(20) DEF HandleResponse
    <3>2. c.canonical \in Ticket /\ c.canonical # NoTicket
      <4>1. c \in Copy /\ (c.ph = "applied" => c.canonical \in Ticket)
        BY DEF SyncInv, CopiesBacked, SyncTypeOK
      <4>2. c.canonical \in Ticket \cup {NoTicket}
        BY <4>1 DEF Copy
      <4>3. NoTicket \notin Ticket
        BY DEF Ticket, NoTicket
      <4> HIDE DEF c
      <4> QED BY <3>1, <4>1, <4>2, <4>3
    <3>3. c.canonical.state \in past
      BY <3>2 DEF SyncInv, StatesSeen
    <3>4. TicketGrows(n, t)
      BY <1>1, <3>2, <3>3, ImportGrows
    <3> HIDE DEF n, t
    <3> QED BY <1>1, <3>1, <3>4, TicketGrowsInv
  <2> QED BY <2>1, <2>2
<1> HIDE DEF t
<1>4. call' \in [ReqId -> [Slot -> Copy]]
  BY <1>2, CopyTyped DEF SyncInv, SyncTypeOK
<1>5. SyncTypeOK'
  BY <1>1, <1>2, <1>3, <1>4 DEF SyncInv, SyncTypeOK
<1>6. \A q \in ReqId, u \in Slot : call'[q][u] = call[q][u] \/ call'[q][u] = Idle
  BY <1>2 DEF SyncInv, SyncTypeOK
<1>7. AppliedLeavesMark'
  BY <1>2, <1>3, MarkKept DEF SyncInv, AppliedLeavesMark
<1>8. CopiesBacked' /\ StatesSeen'
  <2>1. Idle.ph = "idle" /\ Idle.canonical = NoTicket
    BY DEF Idle
  <2>2. CopiesBacked'
    BY <1>2, <1>6, <2>1 DEF SyncInv, CopiesBacked
  <2>3. StatesSeen'
    BY <1>2, <1>3, <1>6, <2>1 DEF SyncInv, StatesSeen
  <2> QED BY <2>2, <2>3
<1>9. QueuedIssued' /\ KeptUntilHandled'
  <2>1. /\ UNCHANGED <<req, queued, handled>> /\ DOMAIN outbox = Node
        /\ outbox' = [outbox EXCEPT ![n] = @ \ {r}]
    BY <1>2 DEF SyncInv, SyncTypeOK
  <2>2. QueuedIssued /\ KeptUntilHandled
    BY DEF SyncInv
  <2>3. ASSUME NEW q \in Request PROVE q.from \in Node
    BY DEF Request
  <2> HIDE DEF n
  <2> QED BY <1>1, <2>1, <2>2, <2>3 DEF QueuedIssued, KeptUntilHandled
<1> QED BY <1>3, <1>5, <1>7, <1>8, <1>9 DEF SyncInv

------------------------------------------------------------------------------
(* Every step keeps the invariant.                                           *)
LEMMA SyncStepInv == SyncInv /\ [SyncNext]_syncVars => SyncInv'
<1> SUFFICES ASSUME SyncInv, [SyncNext]_syncVars PROVE SyncInv'
  OBVIOUS
<1>1. CASE UNCHANGED syncVars
  BY <1>1 DEF syncVars, SyncInv, SyncTypeOK, AppliedLeavesMark, CopiesBacked, StatesSeen,
     QueuedIssued, KeptUntilHandled, OperatorNeverAhead, Known
<1>2. ASSUME NEW n \in Node, NodeStep(n) PROVE SyncInv'
  <2>1. CASE AddEntry(n)
    BY <2>1, AddEntryInv
  <2>2. CASE \E r \in ReqId : SyncTickets(n, r) \/ EnqueueFails(n, r)
    BY <2>2, NetworkStepInv
  <2>3. CASE \/ ConnectionEstablished(n) \/ OutgoingConnectionError(n)
             \/ ConnectionClosed(n) \/ Crash(n)
    BY <2>3, ConnectionStepInv
  <2> QED BY <1>2, <2>1, <2>2, <2>3 DEF NodeStep
<1>3. ASSUME NEW r \in ReqId, RequestStep(r) PROVE SyncInv'
  <2>1. CASE CreateTicket(r)
    BY <2>1, IssueInv DEF TicketState
  <2>2. CASE \E st \in StatusInput : UpdateLocal(r, st) \/ UpdateRemote(r, st)
    BY <2>2, IssueInv, StatusesAreStates
  <2>3. CASE \E s \in Slot : OutboundFailure(r, s) \/ OrphanLost(r, s)
    BY <2>3, CallFailsInv
  <2>4. CASE \E s \in Slot : HandleRequest(r, s)
    BY <2>4, HandlePushInv, HandleUpdateInv DEF HandleRequest
  <2>5. CASE \E s \in Slot : HandleResponse(r, s)
    BY <2>5, HandleResponseInv
  <2> QED BY <1>3, <2>1, <2>2, <2>3, <2>4, <2>5 DEF RequestStep
<1> QED BY <1>1, <1>2, <1>3 DEF SyncNext

(* The inductive invariant holds of every behaviour.                         *)
THEOREM SyncInvariant == SyncSpec => []SyncInv
BY SyncInitInv, SyncStepInv, PTL DEF SyncSpec

(* However often the outbox is replayed, a status mutation changes the       *)
(* client's ticket at most once and a push creates one replica.              *)
THEOREM MutationsAppliedOnce == SyncSpec => []AppliedAtMostOnce
<1>1. SyncInv => AppliedAtMostOnce
  BY DEF SyncInv, AppliedLeavesMark, AppliedAtMostOnce
<1> QED BY <1>1, SyncInvariant, PTL

(* No mutation leaves the outbox before the other node has handled it.       *)
THEOREM MutationsKept == SyncSpec => []KeptUntilHandled
<1>1. SyncInv => KeptUntilHandled
  BY DEF SyncInv
<1> QED BY <1>1, SyncInvariant, PTL

(* The operator's replica shows only states the client's ticket has been in. *)
THEOREM ReplicaNeverAhead == SyncSpec => []OperatorNeverAhead
<1>1. SyncInv => OperatorNeverAhead
  BY DEF SyncInv
<1> QED BY <1>1, SyncInvariant, PTL
==============================================================================
