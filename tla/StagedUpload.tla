----------------------------- MODULE StagedUpload -----------------------------
(* A file on its way from a local client to the event loop of the service:   *)
(* the client copies it into the spool, asks SendFile over the command       *)
(* endpoint, and the service imports it into its private outbox-files before *)
(* it hands the event loop the command.  The processes of the service and    *)
(* their endpoints are those of ServiceHost; what the event loop does with   *)
(* the FILE_SEND record is FileTransfer.                                     *)
EXTENDS ServiceHost, FiniteSets

CONSTANTS
  Upload,     \* uploads the clients try, each with a staging name of its own
  MaxSize,    \* MAX_FILE_SIZE; a size of 0 stands for no file
  ChannelCap  \* commands the channel of an event loop holds (32)

ASSUME UploadBounds == MaxSize \in Nat \ {0} /\ ChannelCap \in Nat \ {0}

VARIABLES
  cli,        \* cli[u]: the client is the command line, not the desktop
  client,     \* client[u]: where the client is
  handler,    \* handler[u]: process that handles the request, or "none"
  request,    \* request[u]: next step of its handler
  staged,     \* staged[u]: size of the file in the spool
  part,       \* part[u]: size of the .part file of the import
  private,    \* private[u]: size of the file under its final name
  record,     \* record[u]: the SendFile command is "queued" for the event loop,
              \*            or its FILE_SEND record "kept" in the outbox
  delivered,  \* delivered[u]: the peer has the file
  others      \* others[p]: commands of other requests in the channel of p

fileVars == <<cli, client, handler, request, staged, part, private, record, delivered>>
uploadVars == <<fileVars, others>>
serviceVars == <<hostVars, uploadVars>>

Size == 1 .. MaxSize + 1

UploadInit ==
  /\ HostInit
  /\ cli \in [Upload -> BOOLEAN]
  /\ client = [u \in Upload |-> "new"]
  /\ handler = [u \in Upload |-> "none"]
  /\ request = [u \in Upload |-> "none"]
  /\ staged = [u \in Upload |-> 0]
  /\ part = [u \in Upload |-> 0]
  /\ private = [u \in Upload |-> 0]
  /\ record = [u \in Upload |-> "none"]
  /\ delivered = [u \in Upload |-> FALSE]
  /\ others = [p \in Proc |-> 0]

-------------------------------------------------------------------------------
(* The client: fortiq ticket send-file, or the desktop's send_file           *)

(* The copy under a new uuid; one that fails half-way stays in the spool.    *)
Stage(u) ==
  /\ client[u] = "new"
  /\ \E n \in Size, whole \in BOOLEAN :
       /\ staged' = [staged EXCEPT ![u] = n]
       /\ client' = [client EXCEPT ![u] = IF whole THEN "staged" ELSE "error"]
  /\ UNCHANGED <<cli, handler, request, part, private, record, delivered>>

(* The staging file is the user's own and may still grow.                    *)
Grow(u) ==
  /\ client[u] \in {"staged", "waiting", "gone"} /\ staged[u] \in 1 .. MaxSize
  /\ staged' = [staged EXCEPT ![u] = @ + 1]
  /\ UNCHANGED <<cli, client, handler, request, part, private, record, delivered>>

(* The user is told that it failed: the command line removes its copy.       *)
TellError(u) ==
  /\ client' = [client EXCEPT ![u] = "error"]
  /\ staged' = [staged EXCEPT ![u] = IF cli[u] THEN 0 ELSE @]

(* The request reaches the process that accepts on the command endpoint.     *)
Ask(u) ==
  /\ client[u] = "staged"
  /\ IF endpoint["command"] \in Proc
     THEN /\ client' = [client EXCEPT ![u] = "waiting"]
          /\ handler' = [handler EXCEPT ![u] = endpoint["command"]]
          /\ request' = [request EXCEPT ![u] = "ticket"]
          /\ UNCHANGED staged
     ELSE /\ TellError(u)
          /\ UNCHANGED <<handler, request>>
  /\ UNCHANGED <<cli, part, private, record, delivered>>

(* The answer, or the end of the connection when the service is gone.        *)
TakeAnswer(u) ==
  /\ client[u] = "waiting"
  /\ \/ /\ request[u] = "sent"
        /\ client' = [client EXCEPT ![u] = "sent"]
        /\ UNCHANGED staged
     \/ request[u] \in {"failed", "none"} /\ TellError(u)
  /\ UNCHANGED <<cli, handler, request, part, private, record, delivered>>

(* The client is closed while it waits; the handler does not notice.         *)
ClientGone(u) ==
  /\ client[u] \in {"staged", "waiting"}
  /\ client' = [client EXCEPT ![u] = "gone"]
  /\ UNCHANGED <<cli, handler, request, staged, part, private, record, delivered>>

-------------------------------------------------------------------------------
(* The SendFile handler                                                      *)

Proceed(u, step) == request' = [request EXCEPT ![u] = step]
Fails(u) == Proceed(u, "failed")
At(u, step) == request[u] = step

(* The ticket must permit work, its other side be a peer and, for one that   *)
(* is not the node's own, the session have the capability.                   *)
CheckTicket(u) ==
  /\ At(u, "ticket")
  /\ Proceed(u, "check") \/ Fails(u)
  /\ UNCHANGED <<cli, client, handler, staged, part, private, record, delivered>>

(* The staging name is in the spool, opens without following links and is a  *)
(* file that is small enough.  Each of the checks may refuse it.             *)
CheckStaged(u) ==
  /\ At(u, "check")
  /\ \/ staged[u] \in 1 .. MaxSize /\ Proceed(u, "copy")
     \/ Fails(u)
  /\ UNCHANGED <<cli, client, handler, staged, part, private, record, delivered>>

(* Mutated form: the size is not looked at again once the bytes are copied.  *)
CopyStagedUnbounded(u) ==
  /\ At(u, "copy")
  /\ part' = [part EXCEPT ![u] = staged[u]]
  /\ Proceed(u, "rename")
  /\ UNCHANGED <<cli, client, handler, staged, private, record, delivered>>

(* At most MAX_FILE_SIZE + 1 bytes are copied: a file that has grown past    *)
(* the limit since is refused and its part removed.  A failed copy leaves    *)
(* what it wrote, if anything.                                               *)
CopyStaged(u) ==
  /\ At(u, "copy")
  /\ \/ /\ staged[u] =< MaxSize
        /\ part' = [part EXCEPT ![u] = staged[u]]
        /\ Proceed(u, "rename")
     \/ /\ staged[u] > MaxSize
        /\ UNCHANGED part
        /\ Fails(u)
     \/ /\ part' \in {part, [part EXCEPT ![u] = 1]}
        /\ Fails(u)
  /\ UNCHANGED <<cli, client, handler, staged, private, record, delivered>>

(* sync_all and rename.                                                      *)
FinishImport(u) ==
  /\ At(u, "rename")
  /\ \/ /\ private' = [private EXCEPT ![u] = part[u]]
        /\ part' = [part EXCEPT ![u] = 0]
        /\ Proceed(u, "unlink")
     \/ Fails(u) /\ UNCHANGED <<part, private>>
  /\ UNCHANGED <<cli, client, handler, staged, record, delivered>>

(* The staging file is removed; an error is ignored.                         *)
RemoveSource(u) ==
  /\ At(u, "unlink")
  /\ staged' \in {staged, [staged EXCEPT ![u] = 0]}
  /\ Proceed(u, "command")
  /\ UNCHANGED <<cli, client, handler, part, private, record, delivered>>

-------------------------------------------------------------------------------
(* The bounded channel of commands, which every handler of the process sends *)
(* into and its event loop takes from, when it is not held elsewhere         *)

Queued(p) == others[p] + Cardinality({u \in Upload : handler[u] = p /\ record[u] = "queued"})
Full(p) == Queued(p) = ChannelCap

(* The handler of some other request sends a command.                        *)
OtherSends(p) ==
  /\ Running(p) /\ ipc[p] # NoIpc /\ ~Full(p)
  /\ others' = [others EXCEPT ![p] = @ + 1]
  /\ UNCHANGED fileVars

(* The event loop takes one of those.                                        *)
OtherTaken(p) ==
  /\ others[p] > 0
  /\ others' = [others EXCEPT ![p] = @ - 1]
  /\ UNCHANGED fileVars

(* send waits for room without a limit and fails only when the event loop,   *)
(* which has the receiver, is gone; the 60 s of the reply begin after it.    *)
SendCommand(u) ==
  /\ At(u, "command")
  /\ \/ /\ Running(handler[u]) /\ ~Full(handler[u])
        /\ record' = [record EXCEPT ![u] = "queued"]
        /\ Proceed(u, "answer")
     \/ ~Running(handler[u]) /\ Fails(u) /\ UNCHANGED record
  /\ UNCHANGED <<cli, client, handler, staged, part, private, delivered>>

(* The handler waits in send.                                                *)
Blocked(u) == At(u, "command") /\ Running(handler[u]) /\ Full(handler[u])

(* The event loop takes the command, be the handler still waiting or not,    *)
(* and writes the FILE_SEND record, or cannot.                               *)
QueueSend(u) ==
  /\ record[u] = "queued"
  /\ record' \in {[record EXCEPT ![u] = "kept"], [record EXCEPT ![u] = "none"]}
  /\ UNCHANGED <<cli, client, handler, request, staged, part, private, delivered>>

(* The peer has the file and the record is removed (FileTransfer).           *)
Deliver(u) ==
  /\ record[u] = "kept" /\ \E p \in Proc : Running(p)
  /\ record' = [record EXCEPT ![u] = "none"]
  /\ delivered' = [delivered EXCEPT ![u] = TRUE]
  /\ UNCHANGED <<cli, client, handler, request, staged, part, private>>

(* Mutated form: the reply of the event loop is waited for without a limit.  *)
AnswerSendNoTimeout(u) ==
  /\ At(u, "answer")
  /\ delivered[u] /\ Proceed(u, "sent")
  /\ UNCHANGED <<cli, client, handler, staged, part, private, record, delivered>>

(* The reply of the event loop within 60 s: sent, an error of this attempt,  *)
(* or none; the record stays for the next attempt.                           *)
AnswerSend(u) ==
  /\ At(u, "answer")
  /\ \/ delivered[u] /\ Proceed(u, "sent")
     \/ Fails(u)
  /\ UNCHANGED <<cli, client, handler, staged, part, private, record, delivered>>

(* The event loop of p is gone, and the commands in its channel with it.     *)
ChannelLost(p) ==
  /\ record' = [u \in Upload |-> IF handler[u] = p /\ record[u] = "queued"
                                 THEN "none" ELSE record[u]]
  /\ others' = [others EXCEPT ![p] = 0]

(* run returns; handlers go on until the process ends.                       *)
RunReturns(p) ==
  /\ Return(p)
  /\ ChannelLost(p)
  /\ UNCHANGED <<cli, client, handler, request, staged, part, private, delivered>>

(* The process ends and its handlers with it; files stay as they are.        *)
ProcessEnds(p) ==
  /\ Exit(p)
  /\ handler' = [u \in Upload |-> IF handler[u] = p THEN "none" ELSE handler[u]]
  /\ request' = [u \in Upload |-> IF handler[u] = p /\ request[u] \notin {"sent", "failed"}
                                  THEN "none" ELSE request[u]]
  /\ ChannelLost(p)
  /\ UNCHANGED <<cli, client, staged, part, private, delivered>>

-------------------------------------------------------------------------------
ClientStep(u) == Stage(u) \/ Grow(u) \/ Ask(u) \/ TakeAnswer(u) \/ ClientGone(u)

HandlerStep(u) ==
  \/ CheckTicket(u) \/ CheckStaged(u) \/ CopyStaged(u) \/ FinishImport(u) \/ RemoveSource(u)
  \/ SendCommand(u) \/ AnswerSend(u)

UploadStep(u) == ClientStep(u) \/ HandlerStep(u) \/ QueueSend(u) \/ Deliver(u)

UploadNext ==
  \/ \E p \in Proc : HostStep(p) /\ UNCHANGED uploadVars
  \/ \E p \in Proc : RunReturns(p) \/ ProcessEnds(p)
  \/ \E p \in Proc : (OtherSends(p) \/ OtherTaken(p)) /\ UNCHANGED hostVars
  \/ \E u \in Upload : UploadStep(u) /\ UNCHANGED <<hostVars, others>>

(* The handler is a task of its own, whose file operations return.  Room in  *)
(* the channel goes to the senders in turn (the channel of tokio queues      *)
(* them), so that none is passed over for ever.  Nothing is assumed of the   *)
(* event loop or of the peer.                                                *)
UploadFairness ==
  \A u \in Upload :
    /\ WF_serviceVars((HandlerStep(u) \/ TakeAnswer(u)) /\ UNCHANGED <<hostVars, others>>)
    /\ SF_serviceVars(SendCommand(u) /\ UNCHANGED <<hostVars, others>>)

UploadSpec == UploadInit /\ [][UploadNext]_serviceVars /\ UploadFairness

-------------------------------------------------------------------------------
(* What the event loop is asked to send, and sends again after a restart, is *)
(* a whole file of its own within the size limit: neither a failed import,   *)
(* nor a staging file that grows or is removed, nor the end of client or     *)
(* service leaves a record without one.  And while a client waits, there is  *)
(* a copy of its file that nobody has removed.                               *)
UploadBacked ==
  \A u \in Upload :
    /\ record[u] # "none" \/ delivered[u] => private[u] \in 1 .. MaxSize
    /\ client[u] = "waiting" => staged[u] > 0 \/ private[u] > 0

(* A client that waits is answered or told that it failed, whether or not    *)
(* the peer is ever reached and whenever the service ends.  Only an event    *)
(* loop that for ever takes nothing out of a full channel keeps it waiting:  *)
(* the send into the channel, unlike the reply, has no time limit.           *)
UploadAnswered ==
  \A u \in Upload : client[u] = "waiting" ~> (client[u] # "waiting" \/ []Blocked(u))
===============================================================================
