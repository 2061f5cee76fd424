---------------------------- MODULE FileTransfer -----------------------------
(* Attachments of one ticket sent from one node to another: the SendFile     *)
(* command and its durable outbox, spawn_send_file_stream on the sender, and *)
(* handle_incoming_file_stream with its slots, quota, part file, rename and  *)
(* record on the receiver.  Each attempt to send a file is a stream of its   *)
(* own with a fresh file id.                                                 *)
EXTENDS Integers, Sequences, FiniteSets, TicketState

CONSTANTS
  File,             \* files handed to SendFile
  Size,             \* Size[f]: bytes of f
  Tries,            \* bound: Tries[f] attempts are made at f
  Deaf,             \* files whose sender may stop to read what it is answered
  Slots,            \* MAX_PARALLEL_FILES
  MaxFileSize,      \* MAX_FILE_SIZE
  Quota,            \* MAX_TICKET_STORAGE
  NextStates,       \* bound: states the ticket is moved to
  MaxCrashes        \* bound: process crashes in a behaviour

ASSUME FileBounds ==
  /\ Size \in [File -> Nat] /\ Tries \in [File -> Nat] /\ NextStates \subseteq TicketState
  /\ Deaf \subseteq File
  /\ {Slots, MaxFileSize, Quota, MaxCrashes} \subseteq Nat /\ Slots >= 1

VARIABLES
  toClient,  \* the receiver owns the ticket, so an offer needs authority
  status,    \* state of the ticket on the receiver
  conn,      \* the sender is connected to the receiver
  outbox,    \* FILE_SEND records of the sender
  dialing,   \* pending_file_dials: files that wait for a connection
  out,       \* out[f][k]: sender's side of attempt k at f
  in,        \* in[f][k]: receiver's side of that attempt
  resp,      \* resp[f][k]: bytes the receiver wrote and the sender has not read
  part,      \* attempts with a .part file on the receiver's disk
  final,     \* attempts with a file under its final name
  stored,    \* attempts with an attachment record in the receiver's engine
  sent,      \* attempts with an attachment record in the sender's engine
  crashes,   \* crashes so far
  queued     \* history: files ever written to the outbox

fileVars == <<toClient, status, conn, outbox, dialing, out, in, resp, part, final,
              stored, sent, crashes, queued>>

Try(f) == 1 .. Tries[f]
Attempt == UNION {{f} \X Try(f) : f \in File}

(* The values of out: "signed" and "offered": the offer is out, with or      *)
(* without a session proof; "sending": accepted; "written": all bytes are in *)
(* the stream; "confirmed": the attachment is recorded and the outbox record *)
(* is due.  Of in: "slot": a permit is held; "denying" and "accepting": the  *)
(* answer to the offer is being written; "renamed": the file has its final   *)
(* name; "stored": it is recorded and the last byte is being written.  The   *)
(* reads of the receiver have a deadline, its writes have none.              *)
FileInit ==
  /\ toClient \in BOOLEAN
  /\ status = "OPEN"
  /\ conn = FALSE
  /\ outbox = {} /\ dialing = {} /\ queued = {}
  /\ out = [f \in File |-> [k \in Try(f) |-> "unused"]]
  /\ in = [f \in File |-> [k \in Try(f) |-> "none"]]
  /\ resp = [f \in File |-> [k \in Try(f) |-> <<>>]]
  /\ part = {} /\ final = {} /\ stored = {} /\ sent = {}
  /\ crashes = 0

------------------------------------------------------------------------------
(* Sender: the event loop                                                    *)

Unused(f) == {k \in Try(f) : out[f][k] = "unused"}

(* Starts an attempt at each file of fs, with a proof for those of proven.   *)
Spawn(fs, proven) ==
  /\ \A f \in fs : Unused(f) # {}
  /\ out' = [f \in File |-> [k \in Try(f) |->
               IF f \in fs /\ k \in Unused(f) /\ (\A j \in Unused(f) : k =< j)
               THEN IF f \in proven THEN "signed" ELSE "offered"
               ELSE out[f][k]]]

(* An operator's offer carries the proof of its session.                     *)
Proven(fs) == IF toClient THEN fs ELSE {}

SendFile(f) ==
  /\ f \notin queued
  /\ outbox' = outbox \cup {f}
  /\ queued' = queued \cup {f}
  /\ IF conn THEN Spawn({f}, Proven({f})) /\ UNCHANGED dialing
             ELSE dialing' = dialing \cup {f} /\ UNCHANGED out
  /\ UNCHANGED <<status, conn, in, resp, part, final, stored, sent, crashes>>

(* Waiting files keep their proof; the other records of the outbox are sent  *)
(* again without one.                                                        *)
ConnectionEstablished ==
  /\ conn' = TRUE
  /\ Spawn(outbox \cup dialing, Proven(dialing))
  /\ dialing' = {}
  /\ UNCHANGED <<status, outbox, in, resp, part, final, stored, sent, crashes, queued>>

OutgoingConnectionError ==
  /\ ~conn /\ dialing # {}
  /\ dialing' = {}
  /\ UNCHANGED <<status, conn, outbox, out, in, resp, part, final, stored, sent,
                 crashes, queued>>

ConnectionClosed ==
  /\ conn
  /\ conn' = FALSE
  /\ UNCHANGED <<status, outbox, dialing, out, in, resp, part, final, stored, sent,
                 crashes, queued>>

------------------------------------------------------------------------------
(* Sender: spawn_send_file_stream, one attempt                               *)

Active(f, k) == out[f][k] \notin {"unused", "over"}
SetOut(f, k, ph) == out' = [out EXCEPT ![f][k] = ph]
(* The task ends: what is left in its stream goes with it.                   *)
EndOut(f, k) == SetOut(f, k, "over") /\ resp' = [resp EXCEPT ![f][k] = <<>>]

ReadAccept(f, k) ==
  /\ out[f][k] \in {"signed", "offered"}
  /\ resp[f][k] # <<>> /\ Head(resp[f][k]) = "accept"
  /\ SetOut(f, k, "sending")
  /\ resp' = [resp EXCEPT ![f][k] = Tail(@)]
  /\ UNCHANGED <<status, conn, outbox, dialing, in, part, final, stored, sent,
                 crashes, queued>>

WriteAll(f, k) ==
  /\ out[f][k] = "sending"
  /\ SetOut(f, k, "written")
  /\ UNCHANGED <<status, conn, outbox, dialing, in, resp, part, final, stored, sent,
                 crashes, queued>>

(* The receiver has confirmed: the attachment is recorded ...                *)
ReadAck(f, k) ==
  /\ out[f][k] = "written"
  /\ resp[f][k] = <<"accept">>
  /\ SetOut(f, k, "confirmed")
  /\ sent' = sent \cup {<<f, k>>}
  /\ UNCHANGED <<status, conn, outbox, dialing, in, resp, part, final, stored, crashes, queued>>

(* ... and the outbox record removed.                                        *)
RemoveOutbox(f, k) ==
  /\ out[f][k] = "confirmed"
  /\ EndOut(f, k)
  /\ outbox' = outbox \ {f}
  /\ UNCHANGED <<status, conn, dialing, in, part, final, stored, sent, crashes, queued>>

(* Mutated form: an attempt that fails takes its outbox record with it.      *)
SendFailsForgets(f, k) ==
  /\ Active(f, k)
  /\ EndOut(f, k)
  /\ outbox' = outbox \ {f}
  /\ UNCHANGED <<status, conn, dialing, in, part, final, stored, sent, crashes, queued>>

(* Denied, unreadable file, broken stream, or the record cannot be written.  *)
SendFails(f, k) ==
  /\ Active(f, k)
  /\ EndOut(f, k)
  /\ UNCHANGED <<status, conn, outbox, dialing, in, part, final, stored, sent,
                 crashes, queued>>

------------------------------------------------------------------------------
(* Receiver: handle_incoming_file_stream, one attempt                        *)

Holding == {a \in Attempt : in[a[1]][a[2]] \notin {"none", "over"}}
SetIn(f, k, ph) == in' = [in EXCEPT ![f][k] = ph]
(* A byte is out, for a sender that is still there, and the handler goes on  *)
(* to ph.                                                                    *)
Write(f, k, byte, ph) ==
  /\ SetIn(f, k, ph)
  /\ resp' = IF out[f][k] = "over" THEN resp
             ELSE [resp EXCEPT ![f][k] = Append(@, byte)]
(* The handler begins to write a denial; it returns when the byte is out.    *)
Deny(f, k) == SetIn(f, k, "denying")
Writing(f, k) == in[f][k] \in {"denying", "accepting", "stored"}
(* The bytes of the attempts of S, one element for each.                     *)
Bytes(S) == UNION {{a} \X (1 .. Size[a[1]]) : a \in S}
StoredBytes == Cardinality(Bytes(stored))

(* The event loop takes a stream the sender could open, which it does for a  *)
(* file of legal size only, and tries to acquire a permit for it.            *)
AcceptStream(f, k) ==
  /\ conn
  /\ Active(f, k) /\ Size[f] =< MaxFileSize
  /\ in[f][k] = "none"
  /\ IF Cardinality(Holding) < Slots
     THEN SetIn(f, k, "slot") /\ UNCHANGED resp
     ELSE Write(f, k, "deny", "over")
  /\ UNCHANGED <<status, conn, outbox, dialing, out, part, final, stored, sent,
                 crashes, queued>>

(* Mutated form: the quota is not looked at.                                 *)
OfferOkNoQuota(f, k) ==
  /\ toClient => out[f][k] = "signed"
  /\ permits_work(status)
  /\ Size[f] =< MaxFileSize

(* The checks of an offer, the quota last.                                   *)
OfferOk(f, k) ==
  /\ toClient => out[f][k] = "signed"
  /\ permits_work(status)
  /\ Size[f] =< MaxFileSize
  /\ StoredBytes + Size[f] =< Quota

(* The offer is read: it is accepted, or denied by a check, because the      *)
(* proof has lapsed or because there is no directory.                        *)
ReadOffer(f, k) ==
  /\ in[f][k] = "slot"
  /\ out[f][k] \in {"signed", "offered"}
  /\ (OfferOk(f, k) /\ SetIn(f, k, "accepting")) \/ Deny(f, k)
  /\ UNCHANGED <<status, conn, outbox, dialing, out, resp, part, final, stored,
                 sent, crashes, queued>>

(* The acceptance is out, and the part file created unless that fails; or    *)
(* the stream is broken.                                                     *)
WriteAccept(f, k) ==
  /\ in[f][k] = "accepting"
  /\ \/ Write(f, k, "accept", "receiving") /\ part' = part \cup {<<f, k>>}
     \/ Write(f, k, "accept", "over") /\ UNCHANGED part
     \/ out[f][k] = "over" /\ SetIn(f, k, "over") /\ UNCHANGED <<resp, part>>
  /\ UNCHANGED <<status, conn, outbox, dialing, out, final, stored, sent, crashes, queued>>

(* Mutated form: the reads of the handler have no deadline.                  *)
ReceiveFailsNoTimeout(f, k) ==
  /\ out[f][k] = "over"
  /\ \/ in[f][k] = "slot" /\ SetIn(f, k, "over")
     \/ in[f][k] = "receiving" /\ Deny(f, k)
  /\ part' = part \ {<<f, k>>}
  /\ UNCHANGED <<status, conn, outbox, dialing, out, resp, final, stored, sent,
                 crashes, queued>>

(* The stream breaks, the offer makes no sense, the part file cannot be      *)
(* written, or nothing arrives for FILE_IDLE_TIMEOUT.                        *)
ReceiveFails(f, k) ==
  /\ \/ in[f][k] = "slot" /\ SetIn(f, k, "over")
     \/ in[f][k] = "receiving" /\ Deny(f, k)
  /\ part' = part \ {<<f, k>>}
  /\ UNCHANGED <<status, conn, outbox, dialing, out, resp, final, stored, sent,
                 crashes, queued>>

(* All bytes are there; the digest is right or the part file goes.           *)
ReceiveAll(f, k) ==
  /\ in[f][k] = "receiving"
  /\ out[f][k] = "written"
  /\ \/ SetIn(f, k, "hashed") /\ UNCHANGED part
     \/ Deny(f, k) /\ part' = part \ {<<f, k>>}
  /\ UNCHANGED <<status, conn, outbox, dialing, out, resp, final, stored, sent,
                 crashes, queued>>

(* The part file gets its final name, or is removed.                         *)
Rename(f, k) ==
  /\ in[f][k] = "hashed"
  /\ \/ SetIn(f, k, "renamed") /\ final' = final \cup {<<f, k>>}
     \/ Deny(f, k) /\ UNCHANGED final
  /\ part' = part \ {<<f, k>>}
  /\ UNCHANGED <<status, conn, outbox, dialing, out, resp, stored, sent, crashes,
                 queued>>

(* Mutated form: when the record cannot be written the file is taken away    *)
(* but the record counted.                                                   *)
AddAttachmentKeepsRecord(f, k) ==
  /\ in[f][k] = "renamed"
  /\ stored' = stored \cup {<<f, k>>}
  /\ \/ SetIn(f, k, "stored") /\ UNCHANGED final
     \/ Deny(f, k) /\ final' = final \ {<<f, k>>}
  /\ UNCHANGED <<status, conn, outbox, dialing, out, resp, part, sent, crashes,
                 queued>>

(* add_attachment; if it fails, the file is taken away again.                *)
AddAttachment(f, k) ==
  /\ in[f][k] = "renamed"
  /\ \/ /\ SetIn(f, k, "stored")
        /\ stored' = stored \cup {<<f, k>>}
        /\ UNCHANGED final
     \/ /\ Deny(f, k)
        /\ final' = final \ {<<f, k>>}
        /\ UNCHANGED stored
  /\ UNCHANGED <<status, conn, outbox, dialing, out, resp, part, sent, crashes,
                 queued>>

WriteDenial(f, k) ==
  /\ in[f][k] = "denying"
  /\ Write(f, k, "deny", "over")
  /\ UNCHANGED <<status, conn, outbox, dialing, out, part, final, stored, sent,
                 crashes, queued>>

WriteAck(f, k) ==
  /\ in[f][k] = "stored"
  /\ Write(f, k, "accept", "over")
  /\ UNCHANGED <<status, conn, outbox, dialing, out, part, final, stored, sent,
                 crashes, queued>>

------------------------------------------------------------------------------
(* A lifecycle change on the receiver.                                       *)
SetStatus(s) ==
  /\ s # status
  /\ can_transition_to(status, s)
  /\ status' = s
  /\ UNCHANGED <<conn, outbox, dialing, out, in, resp, part, final, stored, sent,
                 crashes, queued>>

(* Tasks and queues are gone, files and records stay.                        *)
SenderCrash ==
  /\ crashes < MaxCrashes
  /\ crashes' = crashes + 1
  /\ conn' = FALSE /\ dialing' = {}
  /\ out' = [f \in File |-> [k \in Try(f) |-> IF Active(f, k) THEN "over" ELSE out[f][k]]]
  /\ resp' = [f \in File |-> [k \in Try(f) |-> <<>>]]
  /\ UNCHANGED <<status, outbox, in, part, final, stored, sent, queued>>

ReceiverCrash ==
  /\ crashes < MaxCrashes
  /\ crashes' = crashes + 1
  /\ conn' = FALSE
  /\ in' = [f \in File |-> [k \in Try(f) |-> IF <<f, k>> \in Holding THEN "over" ELSE in[f][k]]]
  /\ UNCHANGED <<status, outbox, dialing, out, resp, part, final, stored, sent, queued>>

SenderStep(f, k) == \/ ReadAccept(f, k) \/ WriteAll(f, k) \/ ReadAck(f, k)
                    \/ RemoveOutbox(f, k) \/ SendFails(f, k)
(* The writes of the receiver that hold a permit.                            *)
Answers(f, k) == WriteAccept(f, k) \/ WriteDenial(f, k) \/ WriteAck(f, k)
ReceiverStep(f, k) ==
  \/ AcceptStream(f, k) \/ ReadOffer(f, k) \/ ReceiveFails(f, k) \/ ReceiveAll(f, k)
  \/ Rename(f, k) \/ AddAttachment(f, k) \/ Answers(f, k)

FileNext ==
  /\ \/ \E f \in File : SendFile(f) \/ \E k \in Try(f) : SenderStep(f, k) \/ ReceiverStep(f, k)
     \/ ConnectionEstablished \/ OutgoingConnectionError \/ ConnectionClosed
     \/ \E s \in NextStates : SetStatus(s)
     \/ SenderCrash \/ ReceiverCrash
  /\ UNCHANGED toClient

(* The receiver's task is polled when it is ready and its timers fire.  Its  *)
(* writes have no deadline: they end when the sender reads, or is gone, and  *)
(* nothing is assumed of that for the files of Deaf, nor of the network.     *)
FileFairness ==
  \A f \in File : \A k \in Try(f) :
    WF_fileVars(/\ \/ ReceiveFails(f, k) \/ ReceiveAll(f, k) \/ Rename(f, k)
                   \/ AddAttachment(f, k) \/ (f \notin Deaf /\ Answers(f, k))
                /\ UNCHANGED toClient)

FileSpec == FileInit /\ [][FileNext]_fileVars /\ FileFairness

------------------------------------------------------------------------------
(* A recorded attachment has its complete file under the final name, at any  *)
(* moment of any interleaving and after a crash at any point.                *)
RecordBacked == stored \subseteq final

(* A file leaves the sender's outbox, and gets its own record there, only    *)
(* once the receiver has recorded an attempt at it: denials, broken streams, *)
(* crashes and lost confirmations leave the outbox record in place.          *)
KeptUntilStored ==
  /\ \A f \in queued \ outbox : \E k \in Try(f) : <<f, k>> \in stored
  /\ sent \subseteq stored

(* What a ticket's attachments take on the receiver's disk stays below the   *)
(* quota plus one file for each slot but one: the check reads the records,   *)
(* so transfers that run side by side do not see each other.                 *)
StorageBounded == StoredBytes =< Quota + (Slots - 1) * MaxFileSize

(* Every permit comes back, whatever the sender sends or leaves out and also *)
(* when it never closes its stream, as long as it reads what it is answered. *)
(* A sender that stops reading can hold its permit in the write of an answer *)
(* and nowhere else: the reads have a deadline, the writes have none.        *)
SlotsReturned ==
  \A f \in File : \A k \in Try(f) :
    (<<f, k>> \in Holding)
      ~> (<<f, k>> \notin Holding \/ (f \in Deaf /\ Writing(f, k)))
==============================================================================
