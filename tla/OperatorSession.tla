--------------------------- MODULE OperatorSession ---------------------------
(* The operator session of fortiq-service (ipc_server.rs): the one slot that *)
(* UnlockOperator fills, the four ways it is emptied, the timer task of each *)
(* session, and the terminal clients whose forwarding depends on a session   *)
(* through its cancellation token.                                           *)
EXTENDS Naturals

CONSTANTS
  Session,   \* identities of the sessions UnlockOperator may create
  Terminal,  \* connections to the terminal socket
  NoSession

ASSUME NoSessionDiffers == NoSession \notin Session

VARIABLES
  current,  \* operator_session: the session in the slot, or NoSession
  sess,     \* sess[s]: how far session s has come
  term,     \* term[t]: where handle_terminal_client is, and the token it holds
  shell     \* shell[t]: the OpenShellNext request of t on the p2p side

opVars == <<current, sess, term, shell>>

(* elapsed: the hour is over.  timer: the task sleeping for that hour has    *)
(* not run yet.  cancelled, wiped: cancellation token and workspace.         *)
NotMade == [made |-> FALSE, elapsed |-> FALSE, timer |-> FALSE,
            cancelled |-> FALSE, wiped |-> FALSE]
Fresh == [NotMade EXCEPT !.made = TRUE, !.timer = TRUE]

HoldsToken == {"waiting", "opened", "forwarding"}

OpInit ==
  /\ current = NoSession
  /\ sess = [s \in Session |-> NotMade]
  /\ term = [t \in Terminal |-> [ph |-> "idle", tok |-> NoSession]]
  /\ shell = [t \in Terminal |-> "none"]

------------------------------------------------------------------------------
(* The slot                                                                  *)

(* cancellation_token.cancel() and workspace.wipe() of whatever is taken.    *)
Taken(s) == [sess[s] EXCEPT !.cancelled = TRUE, !.wiped = TRUE]
SessAfterTake == [s \in Session |-> IF s = current THEN Taken(s) ELSE sess[s]]

(* Mutated form: the session that is replaced is only dropped.               *)
UnlockOperatorNoCancel(s) ==
  /\ ~sess[s].made
  /\ sess' = [sess EXCEPT ![s] = Fresh]
  /\ current' = s
  /\ UNCHANGED <<term, shell>>

(* UnlockOperator with the owner's phrase; any other attempt changes nothing.*)
UnlockOperator(s) ==
  /\ ~sess[s].made
  /\ sess' = [SessAfterTake EXCEPT ![s] = Fresh]
  /\ current' = s
  /\ UNCHANGED <<term, shell>>

LockOperator ==
  /\ sess' = SessAfterTake
  /\ current' = NoSession
  /\ UNCHANGED <<term, shell>>

(* The wall clock passes expires_at of s.                                    *)
HourPasses(s) ==
  /\ sess[s].made /\ ~sess[s].elapsed
  /\ sess' = [sess EXCEPT ![s].elapsed = TRUE]
  /\ UNCHANGED <<current, term, shell>>

(* Mutated form: the timer empties the slot whoever is in it.                *)
ExpiryTaskAnySession(s) ==
  /\ sess[s].timer /\ sess[s].elapsed
  /\ sess' = [SessAfterTake EXCEPT ![s].timer = FALSE]
  /\ current' = NoSession
  /\ UNCHANGED <<term, shell>>

(* Mutated form: the timer finds its session and leaves it in the slot.      *)
ExpiryTaskForgets(s) ==
  /\ sess[s].timer /\ sess[s].elapsed
  /\ sess' = [sess EXCEPT ![s].timer = FALSE]
  /\ UNCHANGED <<current, term, shell>>

(* The task UnlockOperator spawned wakes up.                                 *)
ExpiryTask(s) ==
  /\ sess[s].timer /\ sess[s].elapsed
  /\ IF current = s
     THEN /\ sess' = [SessAfterTake EXCEPT ![s].timer = FALSE]
          /\ current' = NoSession
     ELSE /\ sess' = [sess EXCEPT ![s].timer = FALSE]
          /\ UNCHANGED current
  /\ UNCHANGED <<term, shell>>

Lapsed == current # NoSession /\ sess[current].elapsed

(* The part of is_operator_authorized_for and of GetOperatorStatus that      *)
(* empties the slot of a session past its hour.                              *)
DropLapsed ==
  IF Lapsed THEN sess' = SessAfterTake /\ current' = NoSession
            ELSE UNCHANGED <<current, sess>>

(* GetOperatorStatus, or a request refused for want of a session.            *)
CheckSession == Lapsed /\ DropLapsed /\ UNCHANGED <<term, shell>>

------------------------------------------------------------------------------
(* handle_terminal_client                                                    *)

Goto(t, ph) == term' = [term EXCEPT ![t].ph = ph]
At(t, ph) == term[t].ph = ph

TerminalConnect(t) ==
  /\ At(t, "idle")
  /\ DropLapsed
  /\ Goto(t, IF current # NoSession /\ ~Lapsed THEN "authorized" ELSE "done")
  /\ UNCHANGED shell

(* The opening line is missing or malformed, or names no peer or ticket.     *)
TerminalInitFails(t) ==
  /\ At(t, "authorized")
  /\ Goto(t, "done")
  /\ UNCHANGED <<current, sess, shell>>

(* The session may have changed while the client took its time over the      *)
(* opening line: the one now in the slot is used, if there is one.           *)
TerminalInit(t) ==
  /\ At(t, "authorized")
  /\ IF current = NoSession
     THEN Goto(t, "done") /\ UNCHANGED shell
     ELSE /\ term' = [term EXCEPT ![t] = [ph |-> "waiting", tok |-> current]]
          /\ \E where \in {"dialing", "handshake", "error"} :
               shell' = [shell EXCEPT ![t] = where]
  /\ UNCHANGED <<current, sess>>

Cancelled(t) == term[t].tok # NoSession /\ sess[term[t].tok].cancelled

(* The select on cancellation and reply takes any branch that is ready.      *)
ReplyCancelled(t) ==
  /\ At(t, "waiting")
  /\ Cancelled(t)
  /\ Goto(t, "done")
  /\ UNCHANGED <<current, sess, shell>>

ReplyArrives(t) ==
  /\ At(t, "waiting")
  /\ shell[t] \in {"stream", "error"}
  /\ Goto(t, IF shell[t] = "stream" THEN "opened" ELSE "done")
  /\ UNCHANGED <<current, sess, shell>>

(* Status line and first resize are written, the two forwarders spawned; or  *)
(* the client is gone.                                                       *)
ForwardStart(t) ==
  /\ At(t, "opened")
  /\ \E ph \in {"forwarding", "done"} : Goto(t, ph)
  /\ UNCHANGED <<current, sess, shell>>

(* Mutated form: nothing cancels the forwarders.                             *)
ForwardCancelledNever(t) == At(t, "forwarding") /\ FALSE /\ UNCHANGED opVars

ForwardCancelled(t) ==
  /\ At(t, "forwarding")
  /\ Cancelled(t)
  /\ Goto(t, "done")
  /\ UNCHANGED <<current, sess, shell>>

(* Either forwarder ends because a side closed.                              *)
ForwardEnds(t) ==
  /\ At(t, "forwarding")
  /\ Goto(t, "done")
  /\ UNCHANGED <<current, sess, shell>>

(* p2p side of the request: a connection or a failed dial for a request that *)
(* waits for one, and the outcome of the handshake.  The handshake goes on   *)
(* although the terminal may have been cancelled.                            *)
ShellNext(t) ==
  /\ \/ shell[t] = "dialing" /\ \E r \in {"handshake", "error"} : shell' = [shell EXCEPT ![t] = r]
     \/ shell[t] = "handshake" /\ \E r \in {"stream", "error"} : shell' = [shell EXCEPT ![t] = r]
  /\ UNCHANGED <<current, sess, term>>

------------------------------------------------------------------------------
SlotStep ==
  \/ \E s \in Session : UnlockOperator(s) \/ HourPasses(s) \/ ExpiryTask(s)
  \/ LockOperator
  \/ CheckSession

TerminalStep(t) ==
  \/ TerminalConnect(t) \/ TerminalInitFails(t) \/ TerminalInit(t)
  \/ ReplyCancelled(t) \/ ReplyArrives(t) \/ ForwardStart(t)
  \/ ForwardCancelled(t) \/ ForwardEnds(t)
  \/ ShellNext(t)

OpNext == SlotStep \/ \E t \in Terminal : TerminalStep(t)

(* Time passes and the runtime polls ready tasks.  Nothing is assumed of the *)
(* clients, of the network or of the remote peer.                            *)
OpFairness ==
  /\ \A s \in Session : WF_opVars(HourPasses(s)) /\ WF_opVars(ExpiryTask(s))
  /\ \A t \in Terminal :
       /\ WF_opVars(ReplyCancelled(t) \/ ReplyArrives(t))
       /\ WF_opVars(ForwardStart(t))
       /\ WF_opVars(ForwardCancelled(t))

OpSpec == OpInit /\ [][OpNext]_opVars /\ OpFairness

------------------------------------------------------------------------------
(* A session that is not in the slot any more, whichever of lock, expiry,    *)
(* replacement and late check removed it, has been cancelled and wiped, and  *)
(* the one in the slot has not: no terminal keeps a token that nobody will   *)
(* ever cancel.                                                              *)
SlotExact ==
  \A s \in Session : sess[s].made =>
    /\ sess[s].cancelled <=> s # current
    /\ sess[s].wiped <=> s # current

(* A session leaves the slot before its hour is over only through a lock or  *)
(* a replacement: the timer of an earlier session never ends a later one.    *)
OnlyLapsedDropped ==
  [][current # NoSession /\ current' # current =>
       \/ sess[current].elapsed
       \/ LockOperator
       \/ \E s \in Session : UnlockOperator(s)]_opVars

(* A terminal whose session is over comes to an end: lock, expiry and        *)
(* replacement reach it whether it waits for the handshake or forwards.      *)
TerminalsEnd ==
  \A t \in Terminal : (term[t].ph \in HoldsToken /\ Cancelled(t)) ~> At(t, "done")

(* No session outlives its hour.                                             *)
SessionsExpire == \A s \in Session : (current = s) ~> (current # s)
==============================================================================
