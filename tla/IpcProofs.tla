------------------------------ MODULE IpcProofs ------------------------------
(*****************************************************************************)
(* Proofs about two services a node offers its desktop over IPC.             *)
(*                                                                           *)
(* OperatorSession: what leaves the slot of the operator session is          *)
(* cancelled and wiped, and leaves it for a reason, for any number of        *)
(* sessions and terminals.                                                   *)
(*                                                                           *)
(* Chat: what an answer says of the records of the two nodes is right, for   *)
(* any number of messages.  The invariant follows a message through its   *)
(* stations (Stations): it is recorded by its writer before it goes out and  *)
(* by the peer when it is handled, and only then is there an answer that     *)
(* says so.                                                                  *)
(*****************************************************************************)
EXTENDS OperatorSession, Chat, TLAPS

(* A session, in the slot or dropped from it.                                *)
SessionRecord == [made : BOOLEAN, elapsed : BOOLEAN, timer : BOOLEAN,
                  cancelled : BOOLEAN, wiped : BOOLEAN]

(* Whatever is in the slot was put there by UnlockOperator.                  *)
OpInv ==
  /\ sess \in [Session -> SessionRecord]
  /\ current \in Session \cup {NoSession}
  /\ current # NoSession => sess[current].made
  /\ SlotExact

-------------------------------------------------------------------------------
(* The slot is emptied: its session is cancelled and wiped, no other is      *)
(* touched.                                                                  *)
LEMMA TakenShape ==
  ASSUME OpInv
  PROVE  /\ SessAfterTake \in [Session -> SessionRecord]
         /\ \A s \in Session :
              /\ SessAfterTake[s].made = sess[s].made
              /\ s # current => SessAfterTake[s] = sess[s]
              /\ sess[s].made => SessAfterTake[s].cancelled /\ SessAfterTake[s].wiped
<1>1. \A s \in Session : Taken(s) \in SessionRecord /\ Taken(s).made = sess[s].made
                         /\ Taken(s).cancelled /\ Taken(s).wiped
  BY DEF Taken, OpInv, SessionRecord
<1>2. \A s \in Session : sess[s] \in SessionRecord
  BY DEF OpInv
<1>3. \A s \in Session : SessAfterTake[s] = IF s = current THEN Taken(s) ELSE sess[s]
  BY DEF SessAfterTake
<1>4. SessAfterTake \in [Session -> SessionRecord]
  BY <1>1, <1>2 DEF SessAfterTake
<1>5. \A s \in Session : sess[s].made /\ s # current => sess[s].cancelled /\ sess[s].wiped
  BY DEF OpInv, SlotExact
<1> QED BY <1>1, <1>3, <1>4, <1>5

(* The slot is emptied and nothing else happens to the sessions.             *)
LEMMA EmptiedInv ==
  ASSUME OpInv, sess' = SessAfterTake, current' = NoSession PROVE OpInv'
BY TakenShape, NoSessionDiffers DEF OpInv, SlotExact

(* One session changes in its hour or its timer, and the slot does not.      *)
LEMMA MarkedInv ==
  ASSUME OpInv, NEW s \in Session, NEW r \in SessionRecord, sess' = [sess EXCEPT ![s] = r],
         r.made = sess[s].made, r.cancelled = sess[s].cancelled, r.wiped = sess[s].wiped,
         UNCHANGED current
  PROVE  OpInv'
BY DEF OpInv, SlotExact

(* A check drops a session past its hour, or does nothing.                   *)
LEMMA DropLapsedInv == ASSUME OpInv, DropLapsed PROVE OpInv'
BY EmptiedInv DEF DropLapsed, OpInv, SlotExact

(* A new session comes into the slot, and what was there leaves it.          *)
LEMMA UnlockInv == ASSUME OpInv, NEW s \in Session, UnlockOperator(s) PROVE OpInv'
<1>1. sess' = [SessAfterTake EXCEPT ![s] = Fresh] /\ current' = s
  BY DEF UnlockOperator
<1>2. Fresh \in SessionRecord /\ Fresh.made /\ ~Fresh.cancelled /\ ~Fresh.wiped
  BY DEF Fresh, NotMade, SessionRecord
<1>3. sess' \in [Session -> SessionRecord] /\ sess'[s] = Fresh
      /\ \A u \in Session : u # s => sess'[u] = SessAfterTake[u]
  BY <1>1, <1>2, TakenShape
<1>4. SlotExact'
  BY <1>1, <1>2, <1>3, TakenShape DEF SlotExact
<1> QED BY <1>1, <1>2, <1>3, <1>4 DEF OpInv

(* The timer of a session empties the slot if it finds its own session.      *)
LEMMA ExpiryInv == ASSUME OpInv, NEW s \in Session, ExpiryTask(s) PROVE OpInv'
<1>1. CASE current = s
  <2> DEFINE r == [SessAfterTake[s] EXCEPT !.timer = FALSE]
  <2>1. sess' = [SessAfterTake EXCEPT ![s] = r] /\ current' = NoSession
    BY <1>1, TakenShape DEF ExpiryTask
  <2>2. SessAfterTake[s] \in SessionRecord
    BY TakenShape
  <2>3. r \in SessionRecord /\ r.made = SessAfterTake[s].made
        /\ r.cancelled = SessAfterTake[s].cancelled /\ r.wiped = SessAfterTake[s].wiped
    BY <2>2 DEF SessionRecord
  <2> HIDE DEF r
  <2>4. sess' \in [Session -> SessionRecord] /\ sess'[s] = r
        /\ \A u \in Session : u # s => sess'[u] = SessAfterTake[u]
    BY <2>1, <2>3, TakenShape
  <2>5. SlotExact'
    BY <2>1, <2>3, <2>4, TakenShape, NoSessionDiffers DEF SlotExact
  <2> QED BY <2>1, <2>4, <2>5 DEF OpInv
<1>2. CASE current # s
  <2> DEFINE r == [sess[s] EXCEPT !.timer = FALSE]
  <2>1. sess' = [sess EXCEPT ![s] = r] /\ UNCHANGED current
    BY <1>2 DEF ExpiryTask
  <2>2. r \in SessionRecord /\ r.made = sess[s].made
        /\ r.cancelled = sess[s].cancelled /\ r.wiped = sess[s].wiped
    BY DEF OpInv, SessionRecord
  <2> HIDE DEF r
  <2> QED BY <2>1, <2>2, MarkedInv
<1> QED BY <1>1, <1>2

(* The hour of a session passes.                                             *)
LEMMA HourInv == ASSUME OpInv, NEW s \in Session, HourPasses(s) PROVE OpInv'
<1> DEFINE r == [sess[s] EXCEPT !.elapsed = TRUE]
<1>1. sess' = [sess EXCEPT ![s] = r] /\ UNCHANGED current
  BY DEF HourPasses
<1>2. r \in SessionRecord /\ r.made = sess[s].made
      /\ r.cancelled = sess[s].cancelled /\ r.wiped = sess[s].wiped
  BY DEF OpInv, SessionRecord
<1> HIDE DEF r
<1> QED BY <1>1, <1>2, MarkedInv

(* A terminal touches the slot only to drop a session past its hour.         *)
LEMMA TerminalDrops ==
  ASSUME NEW t \in Terminal, TerminalStep(t) PROVE DropLapsed \/ UNCHANGED <<current, sess>>
BY DEF TerminalStep, TerminalConnect, TerminalInitFails, TerminalInit, ReplyCancelled,
       ReplyArrives, ForwardStart, ForwardCancelled, ForwardEnds, ShellNext

-------------------------------------------------------------------------------
(* At first the slot is empty and no session was made.                       *)
LEMMA OpInitInv == OpInit => OpInv
BY NoSessionDiffers DEF OpInit, OpInv, SlotExact, NotMade, SessionRecord

(* Every step of the slot and of the terminals keeps the invariant.          *)
LEMMA OpStepInv == OpInv /\ [OpNext]_opVars => OpInv'
<1> SUFFICES ASSUME OpInv, [OpNext]_opVars PROVE OpInv'
  OBVIOUS
<1>1. CASE UNCHANGED <<current, sess>>
  BY <1>1 DEF OpInv, SlotExact
<1>2. CASE SlotStep
  <2>1. ASSUME NEW s \in Session, UnlockOperator(s) \/ HourPasses(s) \/ ExpiryTask(s)
        PROVE  OpInv'
    BY <2>1, UnlockInv, HourInv, ExpiryInv
  <2>2. CASE LockOperator
    BY <2>2, EmptiedInv DEF LockOperator
  <2>3. CASE CheckSession
    BY <2>3, DropLapsedInv DEF CheckSession
  <2> QED BY <1>2, <2>1, <2>2, <2>3 DEF SlotStep
<1>3. ASSUME NEW t \in Terminal, TerminalStep(t) PROVE OpInv'
  BY <1>1, <1>3, TerminalDrops, DropLapsedInv
<1> QED BY <1>1, <1>2, <1>3 DEF OpNext, opVars

(* Every session that UnlockOperator made and that is not in the slot has    *)
(* been cancelled and wiped, and the one in the slot has not.                *)
THEOREM SlotAlwaysExact == OpSpec => []SlotExact
<1>1. OpInv => SlotExact
  BY DEF OpInv
<1> QED BY <1>1, OpInitInv, OpStepInv, PTL DEF OpSpec

(* A session is taken out of the slot before its hour only by LockOperator   *)
(* or UnlockOperator: neither the timer of another session nor the check of  *)
(* a terminal does it.                                                       *)
THEOREM OnlyLapsedAreDropped == OpSpec => OnlyLapsedDropped
<1> DEFINE Allowed == current # NoSession /\ current' # current =>
                        \/ sess[current].elapsed
                        \/ LockOperator
                        \/ \E s \in Session : UnlockOperator(s)
<1>1. OpNext => Allowed
  <2> SUFFICES ASSUME OpNext, current # NoSession, current' # current,
                      ~LockOperator, ~(\E s \in Session : UnlockOperator(s))
               PROVE  sess[current].elapsed
    OBVIOUS
  <2>1. ASSUME NEW s \in Session, ExpiryTask(s) PROVE sess[current].elapsed
    BY <2>1 DEF ExpiryTask
  <2>2. ASSUME NEW s \in Session PROVE ~HourPasses(s)
    BY DEF HourPasses
  <2>3. CASE CheckSession
    BY <2>3 DEF CheckSession, Lapsed
  <2>4. ASSUME NEW t \in Terminal, TerminalStep(t) PROVE sess[current].elapsed
    BY <2>4, TerminalDrops DEF DropLapsed, Lapsed
  <2> QED BY <2>1, <2>2, <2>3, <2>4 DEF OpNext, SlotStep
<1>2. [OpNext]_opVars => [Allowed]_opVars
  BY <1>1
<1> QED BY <1>2, PTL DEF OpSpec, OnlyLapsedDropped

-------------------------------------------------------------------------------
(* What the client of the IPC request has been told ...                      *)
IpcPhase == {"new", "checked", "stored", "waiting", "sent", "refused", "failed"}
(* ... the way of the message to the peer ...                                *)
CopyPhase == {"none", "command", "dialing", "request", "checked", "over"}
(* ... and its answer.                                                       *)
ReplyPhase == {"none", "yes", "no", "error"}

(* The type of the state.                                                    *)
ChatTypeOK ==
  /\ msgs \in [Node -> SUBSET Msg]
  /\ ipc \in [Msg -> IpcPhase]
  /\ copy \in [Msg -> CopyPhase]
  /\ reply \in [Msg -> ReplyPhase]
  /\ from \in [Msg -> Node]

(* The stations of a message: it is recorded by its writer before it goes    *)
(* out, by the other node when it is handled, and only then can there be an  *)
(* ack that says so.                                                         *)
Stations(m) ==
  /\ ipc[m] \in {"new", "checked", "stored"} => copy[m] = "none"
  /\ ipc[m] \in {"stored", "waiting", "sent"} \/ copy[m] # "none" => m \in msgs[from[m]]
  /\ m \in msgs[Peer(from[m])] => copy[m] = "over"
  /\ reply[m] = "yes" => m \in msgs[Peer(from[m])]
  /\ reply[m] = "no" \/ ipc[m] = "refused" =>
       copy[m] = "over" /\ m \notin msgs[Peer(from[m])]

(* The inductive invariant of the chat.                                      *)
ChatInv == ChatTypeOK /\ \A m \in Msg : Stations(m)

(* There are two nodes, each the peer of the other.                          *)
LEMMA TwoNodes ==
  \A n \in Node : Peer(n) \in Node /\ Peer(n) # n /\ Node = {n, Peer(n)}
BY ChatNodes DEF Node, Peer

(* A step of one message leaves the stations of the others alone.            *)
LEMMA OthersStay ==
  ASSUME ChatInv, NEW m \in Msg, NEW k \in Msg \ {m}, from' = from,
         \A n \in Node : msgs'[n] \subseteq msgs[n] \cup {m} /\ msgs[n] \subseteq msgs'[n],
         ipc'[k] = ipc[k], copy'[k] = copy[k], reply'[k] = reply[k]
  PROVE  Stations(k)'
<1>1. from[k] \in Node /\ Peer(from[k]) \in Node
  BY TwoNodes DEF ChatInv, ChatTypeOK
<1>2. /\ k \in msgs'[from[k]] <=> k \in msgs[from[k]]
      /\ k \in msgs'[Peer(from[k])] <=> k \in msgs[Peer(from[k])]
  BY <1>1
<1>3. Stations(k)
  BY DEF ChatInv
<1>4. Peer(from[k])' = Peer(from[k])
  BY DEF Peer
<1> QED
  BY <1>2, <1>3, <1>4 DEF Stations

(* The steps of one message keep it,                                         *)
LEMMA MsgStepInv == ASSUME ChatInv, NEW m \in Msg, MsgStep(m) PROVE ChatInv'
<1> USE DEF IpcPhase, CopyPhase, ReplyPhase
<1>0. /\ from[m] \in Node /\ Peer(from[m]) \in Node /\ Peer(from[m]) # from[m]
      /\ Stations(m) /\ ChatTypeOK
  BY TwoNodes DEF ChatInv, ChatTypeOK
<1>1. ASSUME from' = from, ChatTypeOK', Stations(m)',
             \A n \in Node : msgs'[n] \subseteq msgs[n] \cup {m} /\ msgs[n] \subseteq msgs'[n],
             \A k \in Msg \ {m} : ipc'[k] = ipc[k] /\ copy'[k] = copy[k] /\ reply'[k] = reply[k]
      PROVE  ChatInv'
  <2>1. \A k \in Msg \ {m} : Stations(k)'
    BY <1>1, OthersStay
  <2> QED
    BY <1>1, <2>1 DEF ChatInv
<1>p. ASSUME from' = from PROVE Peer(from[m])' = Peer(from[m])
  BY <1>p DEF Peer
<1>2. CASE Check(m)
  BY <1>0, <1>1, <1>p, <1>2 DEF Check, SetIpc, ChatTypeOK, Stations
<1>3. CASE StoreLocal(m)
  BY <1>0, <1>1, <1>p, <1>3 DEF StoreLocal, Store, SetIpc, ChatTypeOK, Stations
<1>4. CASE Submit(m)
  BY <1>0, <1>1, <1>p, <1>4 DEF Submit, SetIpc, SetCopy, ChatTypeOK, Stations
<1>5. CASE Reply(m)
  <2>1. /\ ipc[m] = "waiting" /\ UNCHANGED msgs
        /\ \/ reply[m] = "yes" /\ SetIpc(m, "sent")
           \/ reply[m] = "no" /\ SetIpc(m, "refused")
           \/ reply[m] = "error" /\ SetIpc(m, "failed")
    BY <1>5 DEF Reply, update_message_delivery
  <2> QED
    BY <1>0, <1>1, <1>p, <1>5, <2>1 DEF Reply, SetIpc, ChatTypeOK, Stations
<1>6. CASE ReplyTimeout(m)
  BY <1>0, <1>1, <1>p, <1>6 DEF ReplyTimeout, SetIpc, ChatTypeOK, Stations
<1>7. CASE TakeCommand(m)
  BY <1>0, <1>1, <1>p, <1>7 DEF TakeCommand, SetCopy, ChatTypeOK, Stations
<1>8. CASE OutboundFailure(m)
  BY <1>0, <1>1, <1>p, <1>8 DEF OutboundFailure, Replied, SetCopy, ChatTypeOK, Stations
<1>9. CASE \E proven \in BOOLEAN : HandleCheck(m, proven)
  BY <1>0, <1>1, <1>p, <1>9 DEF HandleCheck, Ack, Replied, SetCopy, ChatTypeOK, Stations
<1>10. CASE HandleStore(m)
  <2>1. /\ copy[m] = "checked" /\ copy' = [copy EXCEPT ![m] = "over"]
        /\ UNCHANGED <<ipc, from>>
    BY <1>10 DEF HandleStore, Ack, SetCopy
  <2>2. CASE /\ msgs' = [msgs EXCEPT ![Peer(from[m])] = @ \cup {m}]
             /\ reply' = [reply EXCEPT ![m] = "yes"] \/ reply' = reply
    BY <1>0, <1>1, <1>p, <2>1, <2>2 DEF ChatTypeOK, Stations
  <2>3. CASE /\ msgs' = msgs
             /\ reply' = [reply EXCEPT ![m] = "no"] \/ reply' = reply
    BY <1>0, <1>1, <1>p, <2>1, <2>3 DEF ChatTypeOK, Stations
  <2> QED
    BY <1>10, <2>2, <2>3 DEF HandleStore, Store, Ack, Replied
<1> QED
  BY <1>2, <1>3, <1>4, <1>5, <1>6, <1>7, <1>8, <1>9, <1>10 DEF MsgStep

(* and those of the connections, the processes and the tickets.              *)
LEMMA NodeStepInv ==
  ASSUME ChatInv, NEW n \in Node,
         \/ ConnectionEstablished(n) \/ OutgoingConnectionError(n)
         \/ ConnectionClosed(n) \/ Crash(n)
         \/ \E s \in {"RESOLVED", "CLOSED"} : SetStatus(n, s)
  PROVE  ChatInv'
<1> USE DEF IpcPhase, CopyPhase, ReplyPhase, ChatInv
<1>0. msgs' = msgs /\ from' = from
  BY DEF ConnectionEstablished, OutgoingConnectionError, ConnectionClosed, Crash, SetStatus
<1>p. \A m \in Msg : Peer(from[m])' = Peer(from[m])
  BY <1>0 DEF Peer
<1>1. CASE ConnectionEstablished(n)
  BY <1>0, <1>p, <1>1 DEF ConnectionEstablished, Dialing, ChatTypeOK, Stations
<1>2. CASE OutgoingConnectionError(n)
  BY <1>0, <1>p, <1>2 DEF OutgoingConnectionError, Dialing, ChatTypeOK, Stations
<1>3. CASE ConnectionClosed(n)
  BY <1>0, <1>p, <1>3 DEF ConnectionClosed, ChatTypeOK, Stations
<1>4. CASE Crash(n)
  BY <1>0, <1>p, <1>4 DEF Crash, HeldBy, ChatTypeOK, Stations
<1>5. CASE \E s \in {"RESOLVED", "CLOSED"} : SetStatus(n, s)
  BY <1>0, <1>p, <1>5 DEF SetStatus, ChatTypeOK, Stations
<1> QED
  BY <1>1, <1>2, <1>3, <1>4, <1>5

(* MessageSent means that the writer has recorded the message, a refusal     *)
(* that the peer has not, an acknowledgement that both have, and the peer    *)
(* never has what its writer lacks, through lost answers, broken connections *)
(* and crashes, for any number of messages and crashes.                      *)
THEOREM AnswersAlwaysMean == ChatSpec => []AnswersMean
<1>1. ChatInit => ChatInv
  BY TwoNodes DEF ChatInit, ChatInv, ChatTypeOK, Stations, IpcPhase, CopyPhase, ReplyPhase
<1>2. ChatInv /\ [ChatNext]_chatVars => ChatInv'
  <2>1. ASSUME ChatInv, UNCHANGED chatVars PROVE ChatInv'
    BY <2>1 DEF chatVars, ChatInv, ChatTypeOK, Stations, Peer
  <2> QED
    BY <2>1, MsgStepInv, NodeStepInv DEF ChatNext
<1>3. ChatInv => AnswersMean
  <2> SUFFICES ASSUME ChatInv, NEW m \in Msg
               PROVE  /\ ipc[m] = "sent" => m \in msgs[from[m]]
                      /\ ipc[m] = "refused" => m \notin msgs[Peer(from[m])]
                      /\ reply[m] = "yes" => \A n \in Node : m \in msgs[n]
                      /\ m \in msgs[Peer(from[m])] => m \in msgs[from[m]]
    BY DEF AnswersMean
  <2>1. Node = {from[m], Peer(from[m])}
    BY TwoNodes DEF ChatInv, ChatTypeOK
  <2> QED
    BY <2>1 DEF ChatInv, Stations
<1> QED
  BY <1>1, <1>2, <1>3, PTL DEF ChatSpec
===============================================================================
