----------------------------- MODULE TicketSync ------------------------------
(* Synchronisation of one ticket between the client that owns it and the     *)
(* operator, its bootstrap peer: the IPC handlers that issue PushTicket and  *)
(* UpdateStatusSigned, the command, connection and dial-failure arms of the  *)
(* p2p event loop, the durable outbox, and handle_ticket_v2 on both sides.   *)
(*                                                                           *)
(* A request is written to the outbox before it is sent.  It leaves the      *)
(* outbox only when an answer arrives, and every new connection sends again  *)
(* whatever is still there, so one request may travel in several copies.     *)
EXTENDS Integers, FiniteSets, TicketState

CONSTANTS
  Client, Operator,  \* the two nodes
  StatusInput,       \* states the IPC requests ask for
  ReqId,             \* names of the mutation requests that may be issued
  MaxCopies,         \* bound: copies of one request under way at a time
  MaxEntries,        \* bound: revision up to which chats, files... are added
  MaxCrashes         \* bound: process crashes in a behaviour

ASSUME TwoNodes == Client # Operator
ASSUME StatusesAreStates == StatusInput \subseteq TicketState
ASSUME SyncBounds == MaxCopies \in Nat /\ MaxEntries \in Nat /\ MaxCrashes \in Nat

VARIABLES
  rec,       \* rec[n]: the ticket's record in the engine of n
  req,       \* req[r]: content of request r
  commands,  \* commands[n]: SyncTickets commands queued for n's event loop
  outbox,    \* outbox[n]: requests in the TICKET_SYNC outbox files of n
  dialing,   \* dialing[n]: pending_sync_dials of n
  conn,      \* conn[n]: n's swarm is connected to the other node
  call,      \* call[r][s]: copy s of request r, with its pending_sync_tickets entry
  crashes,   \* crashes so far
  queued,    \* history: requests ever written to an outbox
  handled,   \* history: requests the other node has handled at least once
  applied,   \* history: applied[r] counts how often r changed a ticket
  past       \* history: states the client's ticket has been in

netVars == <<commands, outbox, dialing, conn, call, crashes, queued>>
syncVars == <<rec, req, commands, outbox, dialing, conn, call, crashes,
              queued, handled, applied, past>>

Node == {Client, Operator}
Peer(n) == IF n = Client THEN Operator ELSE Client
Slot == 1 .. MaxCopies

Ticket == [state : TicketState, revision : Nat \ {0}]
NoTicket == [state |-> "NONE", revision |-> 0]
Known(n) == rec[n] # NoTicket

(* "push" carries a snapshot of the sender's record; "update" carries the    *)
(* state wanted and, in revision, the expected_revision.                     *)
Request == [kind : {"push", "update"}, from : Node,
            state : TicketState, revision : Nat \ {0}]
NoRequest == [kind |-> "none", from |-> Client, state |-> "NONE", revision |-> 0]

(* "sent": the peer may still handle it and the sender waits for the answer. *)
(* "orphan": the sender has given up, the peer may still handle it.          *)
(* "applied" and "rejected": the answer is on its way to the sender.         *)
Copy == [ph : {"idle", "sent", "orphan", "applied", "rejected"},
         canonical : Ticket \cup {NoTicket}]
Idle == [ph |-> "idle", canonical |-> NoTicket]
Sent == [ph |-> "sent", canonical |-> NoTicket]
Orphan == [ph |-> "orphan", canonical |-> NoTicket]

IdleSlots(r) == {s \in Slot : call[r][s].ph = "idle"}
(* The first k idle slots of r.                                              *)
FirstIdle(r, k) ==
  {s \in IdleSlots(r) : Cardinality({t \in IdleSlots(r) : t =< s}) =< k}

SyncInit ==
  /\ rec = [n \in Node |-> NoTicket]
  /\ req = [r \in ReqId |-> NoRequest]
  /\ commands = [n \in Node |-> {}]
  /\ outbox = [n \in Node |-> {}]
  /\ dialing = [n \in Node |-> {}]
  /\ conn = [n \in Node |-> FALSE]
  /\ call = [r \in ReqId |-> [s \in Slot |-> Idle]]
  /\ crashes = 0
  /\ queued = {} /\ handled = {} /\ past = {}
  /\ applied = [r \in ReqId |-> 0]

------------------------------------------------------------------------------
(* The engine of a node                                                      *)

SetTicket(n, t) ==
  /\ rec' = [rec EXCEPT ![n] = t]
  /\ past' = IF n = Client THEN past \cup {t.state} ELSE past

(* The record after an accepted StatusChanged to s.                          *)
Changed(t, s) == [state |-> s, revision |-> t.revision + 1]

(* import_canonical_ticket: a refused transition leaves the record alone.    *)
import_canonical_ticket(curr, t) ==
  IF curr = NoTicket
  THEN [state |-> t.state, revision |-> IF t.state = "OPEN" THEN 1 ELSE 2]
  ELSE IF /\ t.revision > curr.revision
          /\ t.state # curr.state
          /\ can_transition_to(curr.state, t.state)
       THEN Changed(curr, t.state)
       ELSE curr

(* A chat message, an attachment, a shell record or an audit event.          *)
AddEntry(n) ==
  /\ Known(n)
  /\ rec[n].revision < MaxEntries
  /\ SetTicket(n, [rec[n] EXCEPT !.revision = @ + 1])
  /\ UNCHANGED <<req, handled, applied>> /\ UNCHANGED netVars

------------------------------------------------------------------------------
(* IPC handlers: what they ask of the event loop is a command                *)

Command(r, content) ==
  /\ req[r] = NoRequest
  /\ req' = [req EXCEPT ![r] = content]
  /\ commands' = [commands EXCEPT ![content.from] = @ \cup {r}]
  /\ UNCHANGED <<outbox, dialing, conn, call, crashes, queued, handled, applied>>

Push(t) == [kind |-> "push", from |-> Client, state |-> t.state, revision |-> t.revision]

CreateTicket(r) ==
  LET t == [state |-> "OPEN", revision |-> 1] IN
  /\ ~Known(Client)
  /\ SetTicket(Client, t)
  /\ Command(r, Push(t))

(* UpdateTicketStatus of a ticket of this node.                              *)
UpdateLocal(r, s) ==
  /\ Known(Client)
  /\ can_transition_to(rec[Client].state, s)
  /\ SetTicket(Client, Changed(rec[Client], s))
  /\ Command(r, Push(Changed(rec[Client], s)))

(* UpdateTicketStatus of a ticket of another node.                           *)
UpdateRemote(r, s) ==
  /\ Known(Operator)
  /\ Command(r, [kind |-> "update", from |-> Operator,
                 state |-> s, revision |-> rec[Operator].revision])
  /\ UNCHANGED <<rec, past>>

------------------------------------------------------------------------------
(* The event loop of a node                                                  *)

(* SyncTickets: outbox file first, then the wire or the list waiting for     *)
(* the dial.                                                                 *)
SyncTickets(n, r) ==
  /\ r \in commands[n]
  /\ commands' = [commands EXCEPT ![n] = @ \ {r}]
  /\ outbox' = [outbox EXCEPT ![n] = @ \cup {r}]
  /\ queued' = queued \cup {r}
  /\ IF conn[n]
     THEN /\ IdleSlots(r) # {}
          /\ call' = [call EXCEPT ![r] =
                       [s \in Slot |-> IF s \in FirstIdle(r, 1) THEN Sent ELSE @[s]]]
          /\ UNCHANGED dialing
     ELSE /\ dialing' = [dialing EXCEPT ![n] = @ \cup {r}]
          /\ UNCHANGED call
  /\ UNCHANGED <<rec, req, conn, crashes, handled, applied, past>>

(* The outbox file cannot be written: the caller gets an error.              *)
EnqueueFails(n, r) ==
  /\ r \in commands[n]
  /\ commands' = [commands EXCEPT ![n] = @ \ {r}]
  /\ UNCHANGED <<rec, req, outbox, dialing, conn, call, crashes,
                 queued, handled, applied, past>>

(* Copies of r a new connection of n sends: the waiting command, and the     *)
(* outbox record it left.                                                    *)
CopiesDue(n, r) ==
  (IF r \in dialing[n] THEN 1 ELSE 0) + (IF r \in outbox[n] THEN 1 ELSE 0)

(* Mutated form: only the commands that waited for the dial are sent.        *)
ConnectionEstablishedNoReplay(n) ==
  /\ \A r \in dialing[n] : IdleSlots(r) # {}
  /\ conn' = [conn EXCEPT ![n] = TRUE]
  /\ dialing' = [dialing EXCEPT ![n] = {}]
  /\ call' = [r \in ReqId |->
               [s \in Slot |-> IF r \in dialing[n] /\ s \in FirstIdle(r, 1)
                               THEN Sent ELSE call[r][s]]]
  /\ UNCHANGED <<rec, req, commands, outbox, crashes, queued, handled, applied, past>>

(* Also fires for a further connection to a peer already connected, as when  *)
(* a relayed connection is upgraded to a direct one.                         *)
ConnectionEstablished(n) ==
  /\ \A r \in ReqId : CopiesDue(n, r) =< Cardinality(IdleSlots(r))
  /\ conn' = [conn EXCEPT ![n] = TRUE]
  /\ dialing' = [dialing EXCEPT ![n] = {}]
  /\ call' = [r \in ReqId |->
               [s \in Slot |-> IF s \in FirstIdle(r, CopiesDue(n, r))
                               THEN Sent ELSE call[r][s]]]
  /\ UNCHANGED <<rec, req, commands, outbox, crashes, queued, handled, applied, past>>

OutgoingConnectionError(n) ==
  /\ ~conn[n]
  /\ dialing[n] # {}
  /\ dialing' = [dialing EXCEPT ![n] = {}]
  /\ UNCHANGED <<rec, req, commands, outbox, conn, call, crashes,
                 queued, handled, applied, past>>

(* A copy whose sender stops waiting: a request not yet handled may still    *)
(* reach the peer, an answer is lost.                                        *)
Abandoned(c) == IF c.ph \in {"sent", "orphan"} THEN Orphan ELSE Idle
AbandonCallsOf(ns) ==
  [r \in ReqId |-> [s \in Slot |-> IF req[r].from \in ns THEN Abandoned(call[r][s])
                                                        ELSE call[r][s]]]

(* The last connection goes: every call of n fails.                          *)
ConnectionClosed(n) ==
  /\ conn[n]
  /\ conn' = [conn EXCEPT ![n] = FALSE]
  /\ call' = AbandonCallsOf({n})
  /\ UNCHANGED <<rec, req, commands, outbox, dialing, crashes,
                 queued, handled, applied, past>>

(* Mutated form: a failed call is taken out of the outbox.                   *)
OutboundFailureForgets(r, s) ==
  /\ call[r][s].ph \in {"sent", "applied", "rejected"}
  /\ call' = [call EXCEPT ![r][s] = Abandoned(@)]
  /\ outbox' = [outbox EXCEPT ![req[r].from] = @ \ {r}]
  /\ UNCHANGED <<rec, req, commands, dialing, conn, crashes,
                 queued, handled, applied, past>>

(* The ten-second request timeout, on a connection that stays up.            *)
OutboundFailure(r, s) ==
  /\ call[r][s].ph \in {"sent", "applied", "rejected"}
  /\ call' = [call EXCEPT ![r][s] = Abandoned(@)]
  /\ UNCHANGED <<rec, req, commands, outbox, dialing, conn, crashes,
                 queued, handled, applied, past>>

(* The process of n dies.  Files survive, queues and connections do not.     *)
Crash(n) ==
  /\ crashes < MaxCrashes
  /\ crashes' = crashes + 1
  /\ commands' = [commands EXCEPT ![n] = {}]
  /\ dialing' = [dialing EXCEPT ![n] = {}]
  /\ conn' = [m \in Node |-> FALSE]
  /\ call' = [r \in ReqId |-> [s \in Slot |->
               IF req[r].from = n THEN Abandoned(call[r][s]) ELSE Idle]]
  /\ UNCHANGED <<rec, req, outbox, queued, handled, applied, past>>

------------------------------------------------------------------------------
(* handle_ticket_v2, a request: the peer of the sender handles one copy      *)

(* The copy once the handler has answered c: nobody waits for an orphan.     *)
Answered(c, kind, t) ==
  IF c.ph = "orphan" THEN Idle ELSE [ph |-> kind, canonical |-> t]

HandlePush(r, s) ==
  LET c == call[r][s]
      ok == req[r].state = "OPEN" /\ req[r].revision = 1 /\ ~Known(Operator)
      t == [state |-> req[r].state, revision |-> req[r].revision]
  IN
  /\ req[r].kind = "push"
  /\ c.ph \in {"sent", "orphan"}
  /\ handled' = handled \cup {r}
  /\ IF ok THEN /\ SetTicket(Operator, import_canonical_ticket(NoTicket, t))
                /\ applied' = [applied EXCEPT ![r] = @ + 1]
           ELSE UNCHANGED <<rec, past, applied>>
  /\ call' = [call EXCEPT ![r][s] = IF ok THEN Answered(c, "applied", t)
                                          ELSE Answered(c, "rejected", NoTicket)]
  /\ UNCHANGED <<req, commands, outbox, dialing, conn, crashes, queued>>

(* Mutated form: expected_revision is not compared.                          *)
AuthorizedAnyRevision(r, valid) == Known(Client) /\ valid

(* valid: the certificate, signature and network of the mutation check out.  *)
(* A certificate is good for an hour, an outbox record may be older.         *)
Authorized(r, valid) ==
  /\ Known(Client)
  /\ valid
  /\ rec[Client].revision = req[r].revision

(* Mutated form: a mutation that was not authorized is reported as applied.  *)
AnswerToUpdateOptimistic(r, c, valid) ==
  IF can_transition_to(rec[Client].state, req[r].state)
  THEN Answered(c, "applied", Changed(rec[Client], req[r].state))
  ELSE Answered(c, "rejected", rec[Client])

AnswerToUpdate(r, c, valid) ==
  IF Authorized(r, valid) /\ can_transition_to(rec[Client].state, req[r].state)
  THEN Answered(c, "applied", Changed(rec[Client], req[r].state))
  ELSE Answered(c, "rejected", rec[Client])

HandleUpdate(r, s, valid) ==
  LET c == call[r][s] IN
  /\ req[r].kind = "update"
  /\ c.ph \in {"sent", "orphan"}
  /\ handled' = handled \cup {r}
  /\ IF Authorized(r, valid) /\ can_transition_to(rec[Client].state, req[r].state)
     THEN /\ SetTicket(Client, Changed(rec[Client], req[r].state))
          /\ applied' = [applied EXCEPT ![r] = @ + 1]
     ELSE UNCHANGED <<rec, past, applied>>
  /\ call' = [call EXCEPT ![r][s] = AnswerToUpdate(r, c, valid)]
  /\ UNCHANGED <<req, commands, outbox, dialing, conn, crashes, queued>>

HandleRequest(r, s) ==
  \/ HandlePush(r, s)
  \/ \E valid \in BOOLEAN : HandleUpdate(r, s, valid)

(* A request nobody waits for gets lost.                                     *)
OrphanLost(r, s) ==
  /\ call[r][s].ph = "orphan"
  /\ call' = [call EXCEPT ![r][s] = Idle]
  /\ UNCHANGED <<rec, req, commands, outbox, dialing, conn, crashes,
                 queued, handled, applied, past>>

(* handle_ticket_v2, the response: it ends the request, and the ticket in it *)
(* is imported, the one of a rejection only by a node that does not own it.  *)
HandleResponse(r, s) ==
  LET c == call[r][s]
      n == req[r].from
      imported == \/ c.ph = "applied"
                  \/ c.ph = "rejected" /\ c.canonical # NoTicket /\ n # Client
  IN
  /\ c.ph \in {"applied", "rejected"}
  /\ outbox' = [outbox EXCEPT ![n] = @ \ {r}]
  /\ IF imported THEN SetTicket(n, import_canonical_ticket(rec[n], c.canonical))
                 ELSE UNCHANGED <<rec, past>>
  /\ call' = [call EXCEPT ![r][s] = Idle]
  /\ UNCHANGED <<req, commands, dialing, conn, crashes, queued, handled, applied>>

------------------------------------------------------------------------------
NodeStep(n) ==
  \/ AddEntry(n)
  \/ \E r \in ReqId : SyncTickets(n, r) \/ EnqueueFails(n, r)
  \/ ConnectionEstablished(n) \/ OutgoingConnectionError(n)
  \/ ConnectionClosed(n) \/ Crash(n)

RequestStep(r) ==
  \/ CreateTicket(r)
  \/ \E s \in StatusInput : UpdateLocal(r, s) \/ UpdateRemote(r, s)
  \/ \E s \in Slot : \/ OutboundFailure(r, s) \/ HandleRequest(r, s)
                     \/ OrphanLost(r, s) \/ HandleResponse(r, s)

SyncNext == (\E n \in Node : NodeStep(n)) \/ (\E r \in ReqId : RequestStep(r))

(* Discovery dials a known peer again on every tick.  The links are fair     *)
(* lossy: a request sent again and again reaches its peer while the sender   *)
(* waits for it, and so does an answer given again and again.  A request     *)
(* nobody waits for does not stay on the wire for ever.  No fairness is      *)
(* asked of the steps that lose connections or processes.                    *)
HandleSent(r) == \E s \in Slot : call[r][s].ph = "sent" /\ HandleRequest(r, s)
HandleAnswer(r) == \E s \in Slot : HandleResponse(r, s)

SyncFairness ==
  /\ \A n \in Node : WF_syncVars(~conn[n] /\ ConnectionEstablished(n))
  /\ \A r \in ReqId : SF_syncVars(HandleSent(r)) /\ SF_syncVars(HandleAnswer(r))
  /\ \A r \in ReqId, s \in Slot : WF_syncVars(OrphanLost(r, s))

SyncSpec == SyncInit /\ [][SyncNext]_syncVars /\ SyncFairness

------------------------------------------------------------------------------
(* Every piece of state has its type.  Requests in the queues and files of a *)
(* node are its own, and only requests that were issued are under way.       *)
SyncTypeOK ==
  /\ rec \in [Node -> Ticket \cup {NoTicket}]
  /\ req \in [ReqId -> Request \cup {NoRequest}]
  /\ conn \in [Node -> BOOLEAN]
  /\ call \in [ReqId -> [Slot -> Copy]]
  /\ crashes \in 0 .. MaxCrashes
  /\ applied \in [ReqId -> Nat]
  /\ handled \subseteq ReqId /\ queued \subseteq ReqId
  /\ past \subseteq TicketState
  /\ commands \in [Node -> SUBSET ReqId]
  /\ outbox \in [Node -> SUBSET ReqId]
  /\ dialing \in [Node -> SUBSET ReqId]
  /\ \A n \in Node : \A r \in commands[n] \cup outbox[n] \cup dialing[n] :
       req[r] \in Request /\ req[r].from = n

(* However many copies of a status mutation arrive (the outbox is sent again *)
(* on every connection, and once more beside the command that waited for the *)
(* dial), it changes the client's ticket at most once: expected_revision in  *)
(* the UpdateStatusSigned handler is what makes the retries harmless.        *)
AppliedAtMostOnce == \A r \in ReqId : applied[r] =< 1

(* A mutation accepted into the outbox stays there until the other node has  *)
(* handled it, across failed calls, failed dials, lost connections, lost     *)
(* answers and crashes of either process.                                    *)
KeptUntilHandled == \A r \in queued : r \in outbox[req[r].from] \/ r \in handled

(* The operator's replica only shows states the client's ticket has been in: *)
(* the operator never applies its own mutation ahead of the client's answer. *)
OperatorNeverAhead == Known(Operator) => rec[Operator].state \in past

(* If the connections of a node keep going down (and discovery brings them   *)
(* back), each mutation in its outbox is answered and leaves the outbox: the *)
(* replay on ConnectionEstablished reaches a decision in the end.            *)
OutboxDrains ==
  \A n \in Node : ([]<>(~conn[n])) => \A r \in ReqId : []<>(r \notin outbox[n])
==============================================================================
