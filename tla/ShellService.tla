----------------------------- MODULE ShellService -----------------------------
(***************************************************************************)
(* Remote shells on the managed node: admission in the network event loop  *)
(* (handle_incoming_shell_next, node.rs), the task that serves a session   *)
(* next to the lifecycle watcher, and serve_pty (fortiq-shell) with its    *)
(* child process, its reader loop and its tasks.                           *)
(*                                                                         *)
(* The event loop awaits the handshake inline, so `loop` names the session *)
(* it is waiting for.  Of these awaits only the read of the handshake has  *)
(* a deadline; the writes end when the other side takes the bytes, or when *)
(* the stream breaks.  After the authorization is sent a task of its own   *)
(* serves the session: select! { serve, watcher }.  When serve ends it has *)
(* cleaned up; when the watcher ends first, the future of serve is dropped *)
(* where it stands and nothing of its clean-up runs.                       *)
(***************************************************************************)
EXTENDS TicketState, Naturals

CONSTANTS Session,   \* incoming shell streams
          Ticket,    \* tickets whose client_peer_id is this node
          NoTicketId,\* an id of no such ticket
          NoSession, \* the event loop is not in a handshake
          QueueCap   \* capacity of the channel to the PTY writer (128)

ASSUME NamesDiffer == NoSession \notin Session /\ NoTicketId \notin Ticket
ASSUME QueueCapNat == QueueCap \in Nat

VARIABLES status,    \* status[t]: state of the ticket in the ticket store
          active,    \* active_shells, the single-session flag
          loop,      \* the session whose handshake the event loop awaits
          sess       \* sess[s]: the session, its child and its link

shellVars == <<status, active, loop, sess>>

(* link: the operator sends frames (live), has vanished without closing    *)
(* the stream (silent), or the stream is closed or reset (broken).         *)
(* takes: FALSE when the other side has stopped to take what is being      *)
(* written; the write then goes out at some later time, or never.          *)
(* queued: data frames read and not yet written to the PTY; one more than  *)
(* the capacity means that the reader loop is suspended in its send.       *)
(* sender: send_task runs.                                                 *)
Sessions ==
  [pc : {"new", "challenge", "handshake", "refusing", "denied", "granted", "starting",
         "banner", "serving", "draining", "over"},
   ticket : Ticket \cup {NoTicketId}, expired : BOOLEAN,
   link : {"live", "silent", "broken"}, takes : BOOLEAN, child : {"none", "alive", "dead"},
   sender : BOOLEAN, queued : 0 .. QueueCap + 1]

ShellTypeOK ==
  /\ status \in [Ticket -> TicketState]
  /\ active \in BOOLEAN
  /\ loop \in Session \cup {NoSession}
  /\ sess \in [Session -> Sessions]

ShellInit ==
  /\ status = [t \in Ticket |-> "OPEN"]
  /\ active = FALSE
  /\ loop = NoSession
  /\ sess = [s \in Session |->
               [pc |-> "new", ticket |-> NoTicketId, expired |-> FALSE, link |-> "live",
                takes |-> TRUE, child |-> "none", sender |-> FALSE, queued |-> 0]]

Holding(s) == sess[s].pc \in {"granted", "starting", "banner", "serving", "draining"}
Blocked(s) == sess[s].queued > QueueCap
Writing(s) == sess[s].pc \in {"challenge", "refusing", "granted", "banner"}
(* The event loop is in a write, which has no deadline, that nobody takes. *)
Stalled(s) == loop = s /\ Writing(s) /\ ~sess[s].takes /\ sess[s].link # "broken"

-------------------------------------------------------------------------------
(* The event loop takes an incoming stream and writes the challenge.       *)
Incoming(s) ==
  /\ loop = NoSession /\ sess[s].pc = "new"
  /\ loop' = s
  /\ sess' = [sess EXCEPT ![s].pc = "challenge"]
  /\ UNCHANGED <<status, active>>

WriteChallenge(s) ==
  /\ sess[s].pc = "challenge"
  /\ sess' = [sess EXCEPT ![s].pc = "handshake", ![s].takes = TRUE]
  /\ UNCHANGED <<status, active, loop>>

(* The challenge cannot be sent: nothing more is said to the operator.     *)
ChallengeFails(s) ==
  /\ sess[s].pc = "challenge" /\ sess[s].link = "broken"
  /\ loop' = NoSession
  /\ sess' = [sess EXCEPT ![s].pc = "denied"]
  /\ UNCHANGED <<status, active>>

(* Mutated form: the handshake is read without a deadline.                 *)
HandshakeFailsNoTimeout(s) ==
  /\ sess[s].pc = "handshake" /\ sess[s].link = "broken"
  /\ sess' = [sess EXCEPT ![s].pc = "refusing"]
  /\ UNCHANGED <<status, active, loop>>

(* No handshake arrives within five seconds, or it cannot be decoded.      *)
HandshakeFails(s) ==
  /\ sess[s].pc = "handshake"
  /\ sess' = [sess EXCEPT ![s].pc = "refusing"]
  /\ UNCHANGED <<status, active, loop>>

(* The denial goes out, or cannot be sent.                                 *)
SendDenied(s) ==
  /\ sess[s].pc = "refusing"
  /\ loop' = NoSession
  /\ sess' = [sess EXCEPT ![s].pc = "denied"]
  /\ UNCHANGED <<status, active>>

(* A handshake for ticket t arrives; valid is the outcome of the checks of *)
(* network, transport peer, certificate and challenge signature.  The      *)
(* ticket is read again here, and the flag is taken last.                  *)
Handshake(s, t, valid) ==
  /\ sess[s].pc = "handshake" /\ sess[s].link = "live"
  /\ \/ /\ t \in Ticket /\ valid /\ permits_work(status[t]) /\ ~active
        /\ active' = TRUE
        /\ sess' = [sess EXCEPT ![s].pc = "granted", ![s].ticket = t]
     \/ /\ ~(t \in Ticket /\ valid /\ permits_work(status[t]) /\ ~active)
        /\ sess' = [sess EXCEPT ![s].pc = "refusing"]
        /\ UNCHANGED active
  /\ UNCHANGED <<status, loop>>

(* The authorization byte is sent and the session task is spawned.         *)
SendAuthorized(s) ==
  /\ sess[s].pc = "granted"
  /\ loop' = NoSession
  /\ sess' = [sess EXCEPT ![s].pc = "starting", ![s].takes = TRUE]
  /\ UNCHANGED <<status, active>>

(* Mutated form: a failed write forgets to give the flag back.             *)
SendAuthorizedFailsKeepsFlag(s) ==
  /\ sess[s].pc = "granted" /\ sess[s].link = "broken"
  /\ loop' = NoSession
  /\ sess' = [sess EXCEPT ![s].pc = "denied"]
  /\ UNCHANGED <<status, active>>

(* The authorization byte cannot be sent.                                  *)
SendAuthorizedFails(s) ==
  /\ sess[s].pc = "granted" /\ sess[s].link = "broken"
  /\ loop' = NoSession
  /\ active' = FALSE
  /\ sess' = [sess EXCEPT ![s].pc = "denied"]
  /\ UNCHANGED status

-------------------------------------------------------------------------------
(* serve_pty opens the PTY, spawns the shell and writes its banner.        *)
ServeStart(s) ==
  /\ sess[s].pc = "starting"
  /\ sess' = [sess EXCEPT ![s].pc = "banner", ![s].child = "alive"]
  /\ UNCHANGED <<status, active, loop>>

(* The banner is out: the tasks are spawned and the select begins.         *)
SendBanner(s) ==
  /\ sess[s].pc = "banner"
  /\ sess' = [sess EXCEPT ![s].pc = "serving", ![s].sender = TRUE, ![s].takes = TRUE]
  /\ UNCHANGED <<status, active, loop>>

(* serve_pty returns an error: no PTY, no shell, or the banner could not   *)
(* be sent, in which case closing the PTY hangs the new child up.          *)
ServeFails(s) ==
  /\ \/ sess[s].pc = "starting"
     \/ sess[s].pc = "banner" /\ sess[s].link = "broken"
  /\ active' = FALSE
  /\ sess' = [sess EXCEPT ![s].pc = "over", ![s].child = "dead"]
  /\ UNCHANGED <<status, loop>>

(* The reader loop reads a data frame and queues it for the PTY; a frame   *)
(* that does not fit suspends the loop.                                    *)
DataFrame(s) ==
  /\ sess[s].pc = "serving" /\ sess[s].link = "live" /\ ~Blocked(s)
  /\ sess' = [sess EXCEPT ![s].queued = @ + 1]
  /\ UNCHANGED <<status, active, loop>>

(* The child reads its terminal, or exits.                                 *)
ChildReads(s) ==
  /\ sess[s].pc = "serving" /\ sess[s].child = "alive" /\ sess[s].queued > 0
  /\ sess' = [sess EXCEPT ![s].queued = @ - 1]
  /\ UNCHANGED <<status, active, loop>>

ChildExits(s) ==
  /\ sess[s].child = "alive"
  /\ sess' = [sess EXCEPT ![s].child = "dead"]
  /\ UNCHANGED <<status, active, loop>>

(* send_task, woken by output or by the next ping, fails to write.         *)
SenderFails(s) ==
  /\ sess[s].sender /\ sess[s].link = "broken"
  /\ sess' = [sess EXCEPT ![s].sender = FALSE]
  /\ UNCHANGED <<status, active, loop>>

(* Mutated form: the select does not watch send_task.                      *)
ServeEndsIgnoringSender(s) ==
  /\ sess[s].pc = "serving"
  /\ sess[s].child = "dead" \/ (~Blocked(s) /\ sess[s].link # "live")
  /\ sess' = [sess EXCEPT ![s].pc = "draining"]
  /\ UNCHANGED <<status, active, loop>>

(* One branch of the select of serve_pty ends: the child has exited,       *)
(* send_task has ended, or the reader loop sees the end of the stream, an  *)
(* error, or no frame for 60 seconds.  A suspended reader sees nothing.    *)
ServeEnds(s) ==
  /\ sess[s].pc = "serving"
  /\ \/ sess[s].child = "dead"
     \/ ~sess[s].sender
     \/ ~Blocked(s) /\ sess[s].link # "live"
  /\ sess' = [sess EXCEPT ![s].pc = "draining"]
  /\ UNCHANGED <<status, active, loop>>

(* After 50 ms serve_pty kills the child and stops the tasks; the session  *)
(* task returns and its guard frees the flag.                              *)
ServeCleanup(s) ==
  /\ sess[s].pc = "draining"
  /\ active' = FALSE
  /\ sess' = [sess EXCEPT ![s].pc = "over", ![s].child = "dead", ![s].sender = FALSE]
  /\ UNCHANGED <<status, loop>>

(* The child of a session that is given up: while the banner is written    *)
(* the future of serve_pty owns every handle of the PTY.                   *)
Abandoned(s) == IF sess[s].pc = "banner" THEN "dead" ELSE sess[s].child

(* Mutated form: the watcher looks at the certificate only.                *)
WatcherFiresOnExpiry(s) ==
  /\ sess[s].pc \in {"banner", "serving", "draining"} /\ sess[s].expired
  /\ active' = FALSE
  /\ sess' = [sess EXCEPT ![s].pc = "over", ![s].child = Abandoned(s)]
  /\ UNCHANGED <<status, loop>>

(* The watcher, polling every 250 ms, finds the ticket out of the working  *)
(* states or the certificate expired: the future of serve is dropped, the  *)
(* guard frees the flag, the child and the spawned tasks go on.            *)
WatcherFires(s) ==
  /\ sess[s].pc \in {"banner", "serving", "draining"}
  /\ sess[s].expired \/ ~permits_work(status[sess[s].ticket])
  /\ active' = FALSE
  /\ sess' = [sess EXCEPT ![s].pc = "over", ![s].child = Abandoned(s)]
  /\ UNCHANGED <<status, loop>>

(* An orphaned child writes: the reader task finds its channel closed and  *)
(* ends, the last handle of the PTY goes, and the child is hung up.        *)
OrphanHangup(s) ==
  /\ sess[s].pc = "over" /\ sess[s].child = "alive" /\ ~sess[s].sender
  /\ sess' = [sess EXCEPT ![s].child = "dead"]
  /\ UNCHANGED <<status, active, loop>>

-------------------------------------------------------------------------------
(* The environment: the operator, the clock, and the lifecycle.            *)
LinkChanges(s, l) ==
  /\ sess[s].pc \notin {"new", "denied"}
  /\ sess[s].link = "live" \/ (sess[s].link = "silent" /\ l = "broken")
  /\ l \in {"silent", "broken"} /\ l # sess[s].link
  /\ sess' = [sess EXCEPT ![s].link = l]
  /\ UNCHANGED <<status, active, loop>>

(* The other side grants no credit for what is being written.              *)
Stall(s) ==
  /\ Writing(s) /\ sess[s].takes /\ sess[s].link # "broken"
  /\ sess' = [sess EXCEPT ![s].takes = FALSE]
  /\ UNCHANGED <<status, active, loop>>

Expire(s) ==
  /\ Holding(s) /\ ~sess[s].expired
  /\ sess' = [sess EXCEPT ![s].expired = TRUE]
  /\ UNCHANGED <<status, active, loop>>

(* The ticket changes state, by an IPC request or a signed mutation.       *)
SetStatus(t, new) ==
  /\ new # status[t] /\ can_transition_to(status[t], new)
  /\ status' = [status EXCEPT ![t] = new]
  /\ UNCHANGED <<active, loop, sess>>

SessionStep(s) ==
  \/ Incoming(s) \/ WriteChallenge(s) \/ ChallengeFails(s) \/ HandshakeFails(s)
  \/ \E t \in Ticket \cup {NoTicketId}, valid \in BOOLEAN : Handshake(s, t, valid)
  \/ SendDenied(s) \/ SendAuthorized(s) \/ SendAuthorizedFails(s)
  \/ ServeStart(s) \/ SendBanner(s) \/ ServeFails(s)
  \/ DataFrame(s) \/ ChildReads(s) \/ ChildExits(s)
  \/ SenderFails(s) \/ ServeEnds(s) \/ ServeCleanup(s)
  \/ WatcherFires(s) \/ OrphanHangup(s)
  \/ \E l \in {"silent", "broken"} : LinkChanges(s, l)
  \/ Stall(s) \/ Expire(s)

ShellNext ==
  \/ \E s \in Session : SessionStep(s)
  \/ \E t \in Ticket, new \in TicketState : SetStatus(t, new)

(* The runtime keeps polling the event loop, the session tasks and the     *)
(* timers, and a write goes out while the other side takes it.  Nothing is *)
(* assumed of the operator, who may never take one, of the child or of the *)
(* tickets.  Certificates run for an hour, and none of the properties      *)
(* below may rest on their expiry: Expire is not fair.                     *)
Fairness ==
  \A s \in Session :
    /\ WF_shellVars(sess[s].takes /\ WriteChallenge(s))
    /\ WF_shellVars(ChallengeFails(s))
    /\ WF_shellVars(HandshakeFails(s))
    /\ WF_shellVars((sess[s].takes \/ sess[s].link = "broken") /\ SendDenied(s))
    /\ WF_shellVars(sess[s].takes /\ SendAuthorized(s))
    /\ WF_shellVars(SendAuthorizedFails(s))
    /\ WF_shellVars(ServeStart(s))
    /\ WF_shellVars(sess[s].pc = "banner" /\ ServeFails(s))
    /\ WF_shellVars(SenderFails(s))
    /\ WF_shellVars(ServeEnds(s))
    /\ WF_shellVars(ServeCleanup(s))
    /\ WF_shellVars(WatcherFires(s))

ShellSpec == ShellInit /\ [][ShellNext]_shellVars /\ Fairness

-------------------------------------------------------------------------------
(* The flag is exact: it is set while, and only while, some session is     *)
(* between its admission and its end, and there is only one such session,  *)
(* on every path: failed authorization, failed start, normal end, watcher. *)
FlagExact ==
  /\ active <=> \E s \in Session : Holding(s)
  /\ \A s, r \in Session : Holding(s) /\ Holding(r) => s = r

(* A closed ticket ends its session: once the ticket is CLOSED, no session *)
(* admitted under it stays admitted, even if its reader is suspended or    *)
(* its banner is never taken.  The exception is the authorization, written *)
(* in the event loop before there is a watcher, while it is not taken.     *)
ClosedEndsSession ==
  \A s \in Session, t \in Ticket :
    (sess[s].ticket = t /\ status[t] = "CLOSED") ~> (~Holding(s) \/ Stalled(s))

(* A session whose stream has ended is given up, also while its reader is  *)
(* suspended on a child that does not read ("an abandoned stream kept the  *)
(* session, and therefore the single-session flag, alive forever").        *)
BrokenReleased ==
  \A s \in Session : (Holding(s) /\ sess[s].link = "broken") ~> ~Holding(s)

(* The event loop comes back from every admission, whatever the operator   *)
(* sends or leaves out, or is in a write of the challenge, the denial or   *)
(* the authorization that the operator, whose stream is up, does not take: *)
(* these writes have no deadline, the read of the handshake has one.       *)
LoopReturns == \A s \in Session : (loop = s) ~> (loop # s \/ Stalled(s))

-------------------------------------------------------------------------------
(* What the documents say and the code does not do.                        *)

(* "RESOLVED and CLOSED terminate active shells": the shell process of a   *)
(* closed ticket goes.                                                     *)
ClosedKillsShell ==
  \A s \in Session, t \in Ticket :
    (sess[s].ticket = t /\ status[t] = "CLOSED") ~> sess[s].child # "alive"
===============================================================================
