-------------------------------- MODULE Chat ---------------------------------
(* Chat messages of one ticket between the client that owns it and the       *)
(* operator: SendChatMessage in the service, which stores the message and    *)
(* then asks the event loop to send it, the chat arms of the event loop, and *)
(* handle_chat on the other node.  Chat has no outbox: a message that is not *)
(* sent when it is written is not sent again.                                *)
EXTENDS Naturals, TicketState

CONSTANTS
  Client, Operator,
  Msg,         \* messages that may be written
  MaxCrashes   \* bound: crashes in a behaviour

ASSUME ChatNodes == Client # Operator /\ MaxCrashes \in Nat

VARIABLES
  status,   \* status[n]: state of the ticket in the engine of n
  msgs,     \* msgs[n]: messages recorded in the engine of n
  ipc,      \* ipc[m]: SendChatMessage of m
  copy,     \* copy[m]: where m is between the two event loops
  reply,    \* reply[m]: what the sender's event loop has to say of m
  from,     \* from[m]: node that writes m
  conn,     \* conn[n]: n is connected to the other node
  crashes

chatVars == <<status, msgs, ipc, copy, reply, from, conn, crashes>>

Node == {Client, Operator}
Peer(n) == IF n = Client THEN Operator ELSE Client

(* The values of ipc: "checked": the ticket was seen open; "stored": the     *)
(* message is recorded; "waiting": for the reply of the event loop, at most  *)
(* 8 seconds; then the answer: "sent": MessageSent; "refused": an Error with *)
(* the reason of the other node; "failed": any other Error, or no answer.    *)
(* Of copy: "dialing": in pending_chat_dials; "request": on the wire;        *)
(* "checked": handle_chat has decided to store it; "over": handled or lost.  *)
ChatInit ==
  /\ status = [n \in Node |-> "OPEN"]
  /\ msgs = [n \in Node |-> {}]
  /\ ipc = [m \in Msg |-> "new"]
  /\ copy = [m \in Msg |-> "none"]
  /\ reply = [m \in Msg |-> "none"]
  /\ from \in [Msg -> Node]
  /\ conn = [n \in Node |-> FALSE]
  /\ crashes = 0

SetIpc(m, ph) == ipc' = [ipc EXCEPT ![m] = ph]
SetCopy(m, ph) == copy' = [copy EXCEPT ![m] = ph]
(* The first reply takes the entry out of pending_chat_messages.             *)
Replied(m, r) == IF reply[m] = "none" THEN [reply EXCEPT ![m] = r] ELSE reply
Store(n, m) == msgs' = [msgs EXCEPT ![n] = @ \cup {m}]

------------------------------------------------------------------------------
(* The service: SendChatMessage                                              *)

Check(m) ==
  /\ ipc[m] = "new"
  /\ SetIpc(m, IF permits_work(status[from[m]]) THEN "checked" ELSE "failed")
  /\ UNCHANGED <<status, msgs, copy, reply, from, conn, crashes>>

StoreLocal(m) ==
  /\ ipc[m] = "checked"
  /\ \/ Store(from[m], m) /\ SetIpc(m, "stored")
     \/ SetIpc(m, "failed") /\ UNCHANGED msgs
  /\ UNCHANGED <<status, copy, reply, from, conn, crashes>>

(* The command goes out, unless there is no peer to send it to or the        *)
(* operator has no session any more.                                         *)
Submit(m) ==
  /\ ipc[m] = "stored"
  /\ \/ SetIpc(m, "waiting") /\ SetCopy(m, "command")
     \/ SetIpc(m, "sent") /\ UNCHANGED copy
     \/ from[m] = Operator /\ SetIpc(m, "failed") /\ UNCHANGED copy
  /\ UNCHANGED <<status, msgs, reply, from, conn, crashes>>

(* The engine keeps no delivery state: the reducer gives every message it    *)
(* records the same one, DELIVERED, and an update changes nothing.           *)
update_message_delivery == UNCHANGED msgs

(* A message that was acknowledged is answered like one that was not sent.   *)
Reply(m) ==
  /\ ipc[m] = "waiting"
  /\ \/ reply[m] = "yes" /\ update_message_delivery /\ SetIpc(m, "sent")
     \/ reply[m] = "no" /\ UNCHANGED msgs /\ SetIpc(m, "refused")
     \/ reply[m] = "error" /\ UNCHANGED msgs /\ SetIpc(m, "failed")
  /\ UNCHANGED <<status, copy, reply, from, conn, crashes>>

(* Eight seconds are over; the copy stays where it is.                       *)
ReplyTimeout(m) ==
  /\ ipc[m] = "waiting"
  /\ SetIpc(m, "sent")
  /\ UNCHANGED <<status, msgs, copy, reply, from, conn, crashes>>

------------------------------------------------------------------------------
(* The event loop of the sender                                              *)

TakeCommand(m) ==
  /\ copy[m] = "command"
  /\ SetCopy(m, IF conn[from[m]] THEN "request" ELSE "dialing")
  /\ UNCHANGED <<status, msgs, ipc, reply, from, conn, crashes>>

Dialing(n) == {m \in Msg : copy[m] = "dialing" /\ from[m] = n}

ConnectionEstablished(n) ==
  /\ ~conn[n]
  /\ conn' = [conn EXCEPT ![n] = TRUE]
  /\ copy' = [m \in Msg |-> IF m \in Dialing(n) THEN "request" ELSE copy[m]]
  /\ UNCHANGED <<status, msgs, ipc, reply, from, crashes>>

OutgoingConnectionError(n) ==
  /\ ~conn[n] /\ Dialing(n) # {}
  /\ copy' = [m \in Msg |-> IF m \in Dialing(n) THEN "over" ELSE copy[m]]
  /\ reply' = [m \in Msg |-> IF m \in Dialing(n) THEN "error" ELSE reply[m]]
  /\ UNCHANGED <<status, msgs, ipc, from, conn, crashes>>

ConnectionClosed(n) ==
  /\ conn[n]
  /\ conn' = [conn EXCEPT ![n] = FALSE]
  /\ UNCHANGED <<status, msgs, ipc, copy, reply, from, crashes>>

(* Request or ack is lost, or takes longer than ten seconds; a slow request  *)
(* may still be handled.                                                     *)
OutboundFailure(m) ==
  /\ copy[m] \in {"request", "checked", "over"} /\ reply[m] = "none"
  /\ reply' = Replied(m, "error")
  /\ UNCHANGED copy \/ (copy[m] = "request" /\ SetCopy(m, "over"))
  /\ UNCHANGED <<status, msgs, ipc, from, conn, crashes>>

------------------------------------------------------------------------------
(* The event loop of the other node: handle_chat                             *)

(* The handler returns an ack, which may get lost.                           *)
Ack(m, r) ==
  /\ SetCopy(m, "over")
  /\ reply' = Replied(m, r) \/ UNCHANGED reply

(* proven: a message to the owner of the ticket carries a valid proof of an  *)
(* operator session.                                                         *)
HandleCheck(m, proven) ==
  /\ copy[m] = "request"
  /\ IF /\ from[m] = Operator => proven
        /\ permits_work(status[Peer(from[m])])
     THEN SetCopy(m, "checked") /\ UNCHANGED reply
     ELSE Ack(m, "no")
  /\ UNCHANGED <<status, msgs, ipc, from, conn, crashes>>

(* Mutated form: the ack does not look at the outcome of the append.         *)
HandleStoreOptimistic(m) ==
  /\ copy[m] = "checked"
  /\ Ack(m, "yes")
  /\ Store(Peer(from[m]), m) \/ UNCHANGED msgs
  /\ UNCHANGED <<status, ipc, from, conn, crashes>>

(* Another thread may have moved the ticket since the check.                 *)
HandleStore(m) ==
  /\ copy[m] = "checked"
  /\ \/ Store(Peer(from[m]), m) /\ Ack(m, "yes")
     \/ UNCHANGED msgs /\ Ack(m, "no")
  /\ UNCHANGED <<status, ipc, from, conn, crashes>>

------------------------------------------------------------------------------
SetStatus(n, s) ==
  /\ s # status[n]
  /\ can_transition_to(status[n], s)
  /\ status' = [status EXCEPT ![n] = s]
  /\ UNCHANGED <<msgs, ipc, copy, reply, from, conn, crashes>>

HeldBy(n, m) ==
  IF from[m] = n THEN copy[m] \in {"command", "dialing"}
                 ELSE copy[m] \in {"request", "checked"}

(* The process of n dies: its handlers, queues and connections with it.      *)
Crash(n) ==
  /\ crashes < MaxCrashes
  /\ crashes' = crashes + 1
  /\ conn' = [k \in Node |-> FALSE]
  /\ ipc' = [m \in Msg |-> IF from[m] = n /\ ipc[m] \in {"checked", "stored", "waiting"}
                            THEN "failed" ELSE ipc[m]]
  /\ copy' = [m \in Msg |-> IF HeldBy(n, m) THEN "over" ELSE copy[m]]
  /\ UNCHANGED <<status, msgs, reply, from>>

MsgStep(m) ==
  \/ Check(m) \/ StoreLocal(m) \/ Submit(m) \/ Reply(m) \/ ReplyTimeout(m)
  \/ TakeCommand(m) \/ OutboundFailure(m)
  \/ \E proven \in BOOLEAN : HandleCheck(m, proven)
  \/ HandleStore(m)

ChatNext ==
  \/ \E m \in Msg : MsgStep(m)
  \/ \E n \in Node : \/ ConnectionEstablished(n) \/ OutgoingConnectionError(n)
                     \/ ConnectionClosed(n) \/ Crash(n)
                     \/ \E s \in {"RESOLVED", "CLOSED"} : SetStatus(n, s)

ChatSpec == ChatInit /\ [][ChatNext]_chatVars

------------------------------------------------------------------------------
(* What an answer means for the two records.  MessageSent: the message is in *)
(* the record of its writer, and no more than that, since it is the answer   *)
(* also when nothing was sent or acknowledged.  A refusal: the message is    *)
(* not in the record of the other node.  The acknowledgement of the other    *)
(* node, which the client does not see: it is in both.  And no node has a    *)
(* message its writer does not have.  A crash of either process, between any *)
(* two steps, changes none of this.                                          *)
AnswersMean ==
  \A m \in Msg :
    /\ ipc[m] = "sent" => m \in msgs[from[m]]
    /\ ipc[m] = "refused" => m \notin msgs[Peer(from[m])]
    /\ reply[m] = "yes" => \A n \in Node : m \in msgs[n]
    /\ m \in msgs[Peer(from[m])] => m \in msgs[from[m]]
==============================================================================
