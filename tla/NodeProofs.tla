----------------------------- MODULE NodeProofs ------------------------------
(*****************************************************************************)
(* Proofs about two parts of the network node.                               *)
(*                                                                           *)
(* PeerLinks: the registry is exact and no command waits for a peer that is  *)
(* connected, for any number of peers and commands.                          *)
(*                                                                           *)
(* ShellService: the single session flag is exact, for any set of streams    *)
(* and tickets and any channel capacity.                                     *)
(*****************************************************************************)
EXTENDS PeerLinks, ShellService, TLAPS

(* What the registry holds of a peer.                                        *)
Entry == [known : BOOLEAN, connected : BOOLEAN, transport : Link \cup {"P2P"},
          addresses : BOOLEAN, hello : BOOLEAN]

(* The steps of a command for a peer.                                        *)
Phase == {"new", "waiting", "sent", "answered"}
(* A command.                                                                *)
CallRecord == [ph : Phase, queue : Queue \cup {"none"}, peer : Peer \cup {"none"},
               addr : Address]

(* A command waits in one of the queues and for one of the peers.            *)
LinkInv ==
  /\ conns \in [Peer -> SUBSET Link]
  /\ reg \in [Peer -> Entry]
  /\ call \in [Call -> CallRecord]
  /\ \A c \in Call : Waiting(c) => call[c].peer \in Peer /\ call[c].queue \in Queue
  /\ RegistryExact
  /\ NoneWaitsConnected

-------------------------------------------------------------------------------
(* The commands that wait for p in the queues qs move on, the others stay.   *)
LEMMA ReleaseShape ==
  ASSUME LinkInv, NEW p \in Peer, NEW qs, NEW ph \in Phase \ {"waiting"}
  PROVE  /\ Release(p, qs, ph) \in [Call -> CallRecord]
         /\ \A c \in Call :
              \/ Release(p, qs, ph)[c] = call[c] /\ ~(call[c].peer = p /\ call[c].queue \in qs)
              \/ Release(p, qs, ph)[c] = call[c] /\ ~Waiting(c)
              \/ Release(p, qs, ph)[c].ph # "waiting"
<1>1. ASSUME NEW c \in Call
      PROVE  [call[c] EXCEPT !.ph = ph] \in CallRecord /\ [call[c] EXCEPT !.ph = ph].ph = ph
  BY DEF LinkInv, CallRecord
<1>2. \A c \in Call : call[c] \in CallRecord
  BY DEF LinkInv
<1> QED BY <1>1, <1>2 DEF Release

(* A step that leaves connections and registry alone, and in which every     *)
(* command that waits did before, or waits for a peer that is not connected. *)
LEMMA CallsInv ==
  ASSUME LinkInv, UNCHANGED conns, reg' \in [Peer -> Entry],
         \A p \in Peer : reg'[p].connected = reg[p].connected,
         call' \in [Call -> CallRecord],
         \A c \in Call : Waiting(c)' =>
           \/ Waiting(c) /\ call'[c] = call[c]
           \/ call'[c].peer \in Peer /\ call'[c].queue \in Queue /\ ~Connected(call'[c].peer)
  PROVE  LinkInv'
BY DEF LinkInv, RegistryExact, NoneWaitsConnected, Connected, Waiting

(* A new command and the queue it goes to.                                   *)
LEMMA EnqueueShape ==
  ASSUME LinkInv, NEW c \in Call, NEW q \in Queue, NEW p \in Peer, NEW a \in Address,
         NEW ph \in Phase
  PROVE  LET r == [ph |-> ph, queue |-> q, peer |-> p, addr |-> a] IN
         /\ r \in CallRecord
         /\ Enqueue(c, q, p, a, ph) = [call EXCEPT ![c] = r]
BY DEF Enqueue, CallRecord

(* A command is sent, waits, or is answered at once.                         *)
LEMMA CommandInv == ASSUME LinkInv, NEW c \in Call, Command(c) PROVE LinkInv'
<1> PICK q \in Queue, p \in Peer, a \in Address :
      CommandConnected(c, q, p, a) \/ CommandDials(c, q, p, a) \/ CommandStuck(c, q, p, a)
  BY DEF Command
<1>1. UNCHANGED <<conns, reg>> /\ reg \in [Peer -> Entry] /\ call \in [Call -> CallRecord]
  BY DEF LinkInv, CommandConnected, CommandDials, CommandStuck
<1>2. ASSUME NEW ph \in Phase, call' = Enqueue(c, q, p, a, ph),
             ph = "waiting" => ~Connected(p)
      PROVE  LinkInv'
  <2> DEFINE r == [ph |-> ph, queue |-> q, peer |-> p, addr |-> a]
  <2>1. r \in CallRecord /\ call' = [call EXCEPT ![c] = r]
    BY <1>2, EnqueueShape
  <2>2. r.ph = ph /\ r.peer = p /\ r.queue = q
    OBVIOUS
  <2> HIDE DEF r
  <2>3. call' \in [Call -> CallRecord] /\ call'[c] = r
        /\ \A d \in Call : d # c => call'[d] = call[d]
    BY <1>1, <2>1
  <2>4. \A d \in Call : Waiting(d)' =>
          \/ Waiting(d) /\ call'[d] = call[d]
          \/ call'[d].peer \in Peer /\ call'[d].queue \in Queue /\ ~Connected(call'[d].peer)
    BY <1>2, <2>2, <2>3 DEF Waiting
  <2> QED BY <1>1, <2>3, <2>4, CallsInv
<1>3. CASE CommandConnected(c, q, p, a)
  BY <1>2, <1>3 DEF CommandConnected, Phase
<1>4. CASE CommandDials(c, q, p, a)
  BY <1>2, <1>4 DEF CommandDials, Phase
<1>5. CASE CommandStuck(c, q, p, a) /\ q # "shell"
  BY <1>2, <1>5 DEF CommandStuck, Phase
<1>6. CASE CommandStuck(c, q, p, a) /\ q = "shell"
  <2> DEFINE r == [ph |-> "answered", queue |-> q, peer |-> p, addr |-> a]
             f == Release(p, {"shell"}, "answered")
  <2>1. call' = [f EXCEPT ![c] = r]
    BY <1>6 DEF CommandStuck
  <2>2. r \in CallRecord /\ r.ph # "waiting"
    BY EnqueueShape DEF Phase
  <2>3. f \in [Call -> CallRecord]
        /\ \A d \in Call : f[d] = call[d] \/ f[d].ph # "waiting"
    BY ReleaseShape DEF Phase
  <2> HIDE DEF r, f
  <2>4. call' \in [Call -> CallRecord]
    BY <2>1, <2>2, <2>3
  <2>5. \A d \in Call : Waiting(d)' => Waiting(d) /\ call'[d] = call[d]
    BY <2>1, <2>2, <2>3 DEF Waiting
  <2> QED BY <1>1, <2>4, <2>5, CallsInv
<1> QED BY <1>3, <1>4, <1>5, <1>6

(* A command that was sent is answered.                                      *)
LEMMA AnswerInv == ASSUME LinkInv, NEW c \in Call, Answer(c) PROVE LinkInv'
<1> DEFINE r == [call[c] EXCEPT !.ph = "answered"]
<1>1. /\ UNCHANGED <<conns, reg>> /\ call' = [call EXCEPT ![c] = r]
      /\ reg \in [Peer -> Entry] /\ call \in [Call -> CallRecord]
  BY DEF Answer, LinkInv
<1>2. r \in CallRecord /\ r.ph # "waiting"
  BY <1>1 DEF CallRecord, Phase
<1> HIDE DEF r
<1>3. call' \in [Call -> CallRecord]
      /\ \A d \in Call : Waiting(d)' => Waiting(d) /\ call'[d] = call[d]
  BY <1>1, <1>2 DEF Waiting
<1> QED BY <1>1, <1>3, CallsInv

-------------------------------------------------------------------------------
(* A connection comes: the peer is marked and nothing waits for it any more. *)
LEMMA EstablishedInv ==
  ASSUME LinkInv, NEW p \in Peer, NEW k \in Link, Established(p, k) PROVE LinkInv'
<1> DEFINE e == [reg[p] EXCEPT !.known = TRUE, !.connected = TRUE,
                               !.transport = k, !.addresses = TRUE]
           f == Release(p, Queue, "sent")
<1>1. /\ conns' = [conns EXCEPT ![p] = conns[p] \cup {k}]
      /\ reg' = [reg EXCEPT ![p] = e] /\ call' = f
      /\ conns \in [Peer -> SUBSET Link] /\ reg \in [Peer -> Entry]
  BY DEF Established, LinkInv
<1>2. e \in Entry /\ e.connected
  BY <1>1 DEF Entry
<1>3. f \in [Call -> CallRecord]
      /\ \A c \in Call : f[c].ph = "waiting" =>
           f[c] = call[c] /\ call[c].peer # p /\ call[c].peer \in Peer /\ call[c].queue \in Queue
  <2>1. f \in [Call -> CallRecord]
        /\ \A c \in Call :
             \/ f[c] = call[c] /\ ~(call[c].peer = p /\ call[c].queue \in Queue)
             \/ f[c] = call[c] /\ ~Waiting(c)
             \/ f[c].ph # "waiting"
    BY ReleaseShape DEF Phase
  <2> HIDE DEF f
  <2> QED BY <2>1 DEF LinkInv, Waiting
<1> HIDE DEF e, f
<1>4. conns' \in [Peer -> SUBSET Link] /\ conns'[p] # {}
      /\ \A q \in Peer : q # p => conns'[q] = conns[q]
  BY <1>1
<1>5. reg' \in [Peer -> Entry] /\ reg'[p] = e /\ \A q \in Peer : q # p => reg'[q] = reg[q]
  BY <1>1, <1>2
<1>6. RegistryExact'
  BY <1>2, <1>4, <1>5 DEF LinkInv, RegistryExact, Connected
<1>7. NoneWaitsConnected'
  BY <1>1, <1>3, <1>4 DEF LinkInv, NoneWaitsConnected, Connected, Waiting
<1> QED BY <1>1, <1>3, <1>4, <1>5, <1>6, <1>7 DEF LinkInv, Waiting

(* A connection goes: the peer is marked when it was the last.               *)
LEMMA ClosedInv ==
  ASSUME LinkInv, NEW p \in Peer, NEW k \in Link, ConnectionClosed(p, k) PROVE LinkInv'
<1> DEFINE e == [reg[p] EXCEPT !.connected = FALSE]
<1>1. /\ k \in conns[p] /\ conns' = [conns EXCEPT ![p] = conns[p] \ {k}]
      /\ reg' = (IF conns[p] = {k} THEN [reg EXCEPT ![p] = e] ELSE reg)
      /\ UNCHANGED call
      /\ conns \in [Peer -> SUBSET Link] /\ reg \in [Peer -> Entry]
  BY DEF ConnectionClosed, LinkInv
<1>2. e \in Entry /\ ~e.connected
  BY <1>1 DEF Entry
<1> HIDE DEF e
<1>3. conns' \in [Peer -> SUBSET Link] /\ conns'[p] = conns[p] \ {k}
      /\ \A q \in Peer : q # p => conns'[q] = conns[q]
  BY <1>1
<1>4. reg' \in [Peer -> Entry] /\ \A q \in Peer : q # p => reg'[q] = reg[q]
  BY <1>1, <1>2
<1>5. RegistryExact'
  <2>1. CASE conns[p] = {k}
    BY <1>1, <1>2, <1>3, <1>4, <2>1 DEF LinkInv, RegistryExact, Connected
  <2>2. CASE conns[p] # {k}
    BY <1>1, <1>3, <1>4, <2>2 DEF LinkInv, RegistryExact, Connected
  <2> QED BY <2>1, <2>2
<1>6. NoneWaitsConnected'
  BY <1>1, <1>3 DEF LinkInv, NoneWaitsConnected, Connected, Waiting
<1> QED BY <1>1, <1>3, <1>4, <1>5, <1>6 DEF LinkInv, Waiting

(* A dial fails: what waits for the peer it names is answered, or nothing.   *)
LEMMA DialFailsInv ==
  ASSUME LinkInv, NEW p \in Peer, NEW a \in Address, DialFails(p, a) PROVE LinkInv'
<1>1. /\ UNCHANGED <<conns, reg>> /\ reg \in [Peer -> Entry]
      /\ call \in [Call -> CallRecord]
      /\ call' = call \/ \E q \in Peer : call' = Release(q, Queue, "answered")
  BY DEF DialFails, Names, LinkInv
<1>2. call' \in [Call -> CallRecord]
      /\ \A c \in Call : Waiting(c)' => Waiting(c) /\ call'[c] = call[c]
  <2>1. CASE call' = call
    BY <1>1, <2>1 DEF Waiting
  <2>2. ASSUME NEW q \in Peer, call' = Release(q, Queue, "answered")
        PROVE  call' \in [Call -> CallRecord]
               /\ \A c \in Call : Waiting(c)' => Waiting(c) /\ call'[c] = call[c]
    BY <2>2, ReleaseShape DEF Waiting, Phase
  <2> QED BY <1>1, <2>1, <2>2
<1> QED BY <1>1, <1>2, CallsInv

(* HELLO, identify and rendezvous do not touch the mark of the connection.   *)
LEMMA RegisteredInv ==
  ASSUME LinkInv, NEW p \in Peer,
         HelloOrIdentify(p) \/ \E addresses \in BOOLEAN : Discovered(p, addresses)
  PROVE  LinkInv'
<1>1. UNCHANGED <<conns, call>> /\ reg \in [Peer -> Entry] /\ call \in [Call -> CallRecord]
  BY DEF HelloOrIdentify, Discovered, LinkInv
<1>2. PICK e \in Entry : reg' = [reg EXCEPT ![p] = e] /\ e.connected = reg[p].connected
  <2>1. CASE HelloOrIdentify(p)
    <3>1. PICK hello \in BOOLEAN :
            reg' = [reg EXCEPT ![p].hello = @ \/ hello, ![p].addresses = TRUE]
      BY <2>1 DEF HelloOrIdentify
    <3> DEFINE e == [reg[p] EXCEPT !.hello = reg[p].hello \/ hello, !.addresses = TRUE]
    <3>2. reg' = [reg EXCEPT ![p] = e]
      BY <1>1, <3>1
    <3>3. e \in Entry /\ e.connected = reg[p].connected
      BY <1>1 DEF Entry
    <3> QED BY <3>2, <3>3
  <2>2. ASSUME NEW addresses \in BOOLEAN, Discovered(p, addresses)
        PROVE  \E e \in Entry : reg' = [reg EXCEPT ![p] = e] /\ e.connected = reg[p].connected
    <3> DEFINE e == [reg[p] EXCEPT !.known = TRUE, !.addresses = reg[p].addresses \/ addresses]
    <3>2. reg' = [reg EXCEPT ![p] = e]
      BY <1>1, <2>2 DEF Discovered
    <3>3. e \in Entry /\ e.connected = reg[p].connected
      BY <1>1 DEF Entry
    <3> QED BY <3>2, <3>3
  <2> QED BY <2>1, <2>2
<1>3. reg' \in [Peer -> Entry] /\ \A q \in Peer : reg'[q].connected = reg[q].connected
  BY <1>1, <1>2
<1>4. call' \in [Call -> CallRecord]
      /\ \A c \in Call : Waiting(c)' => Waiting(c) /\ call'[c] = call[c]
  BY <1>1 DEF Waiting
<1> QED BY <1>1, <1>3, <1>4, CallsInv

-------------------------------------------------------------------------------
(* At first nobody is connected and no command was issued.                   *)
LEMMA LinkInitInv == LinkInit => LinkInv
BY DEF LinkInit, LinkInv, RegistryExact, NoneWaitsConnected, Connected, Waiting, NoCall,
       NotKnown, Entry, CallRecord, Phase, Address, Queue, Link

(* Every command and every event of the swarm keeps the invariant.           *)
LEMMA LinkStepInv == LinkInv /\ [LinkNext]_linkVars => LinkInv'
<1> SUFFICES ASSUME LinkInv, [LinkNext]_linkVars PROVE LinkInv'
  OBVIOUS
<1>1. CASE UNCHANGED linkVars
  BY <1>1 DEF linkVars, LinkInv, RegistryExact, NoneWaitsConnected, Connected, Waiting
<1>2. ASSUME NEW c \in Call, Command(c) \/ Answer(c) PROVE LinkInv'
  BY <1>2, CommandInv, AnswerInv
<1>3. ASSUME NEW p \in Peer, SwarmEvent(p) PROVE LinkInv'
  <2>1. ASSUME NEW a \in Address, DialFails(p, a) PROVE LinkInv'
    BY <2>1, DialFailsInv
  <2>2. ASSUME NEW a \in Address, NEW q \in Peer, NEW k \in Link, DialSucceeds(p, a, q, k)
        PROVE  LinkInv'
    BY <2>2, EstablishedInv DEF DialSucceeds
  <2>3. ASSUME NEW k \in Link, Inbound(p, k) \/ ConnectionClosed(p, k) PROVE LinkInv'
    BY <2>3, EstablishedInv, ClosedInv DEF Inbound
  <2>4. CASE HelloOrIdentify(p) \/ \E addresses \in BOOLEAN : Discovered(p, addresses)
    BY <2>4, RegisteredInv
  <2> QED BY <1>3, <2>1, <2>2, <2>3, <2>4 DEF SwarmEvent, DialEnds
<1> QED BY <1>1, <1>2, <1>3 DEF LinkNext

(* What ListPeers reports as connected is connected and the rest is not,     *)
(* however relayed and direct connections with any number of peers overlap.  *)
THEOREM RegistryAlwaysExact == LinkSpec => []RegistryExact
<1>1. LinkInv => RegistryExact
  BY DEF LinkInv
<1> QED BY <1>1, LinkInitInv, LinkStepInv, PTL DEF LinkSpec

(* No command is left in a queue of a peer that is connected.                *)
THEOREM NoneEverWaitsConnected == LinkSpec => []NoneWaitsConnected
<1>1. LinkInv => NoneWaitsConnected
  BY DEF LinkInv
<1> QED BY <1>1, LinkInitInv, LinkStepInv, PTL DEF LinkSpec

-------------------------------------------------------------------------------
(* The initial state satisfies both invariants.                            *)
LEMMA ShellInitInv == ShellInit => ShellTypeOK /\ FlagExact
<1> SUFFICES ASSUME ShellInit PROVE ShellTypeOK /\ FlagExact
  OBVIOUS
<1>1. [pc |-> "new", ticket |-> NoTicketId, expired |-> FALSE, link |-> "live",
       takes |-> TRUE, child |-> "none", sender |-> FALSE, queued |-> 0] \in Sessions
  BY QueueCapNat DEF Sessions
<1>2. ShellTypeOK
  BY <1>1 DEF ShellInit, ShellTypeOK, TicketState
<1>3. \A s \in Session : ~Holding(s)
  BY DEF ShellInit, Holding
<1>4. active = FALSE
  BY DEF ShellInit
<1> QED
  BY <1>2, <1>3, <1>4 DEF FlagExact

(* Giving a field another value of its type gives a session again.         *)
LEMMA FieldTyped ==
  ASSUME NEW r \in Sessions
  PROVE  /\ \A v \in {"new", "challenge", "handshake", "refusing", "denied", "granted", "starting",
                     "banner", "serving", "draining", "over"} : [r EXCEPT !.pc = v] \in Sessions
         /\ \A v \in Ticket \cup {NoTicketId} : [r EXCEPT !.ticket = v] \in Sessions
         /\ \A v \in {"live", "silent", "broken"} : [r EXCEPT !.link = v] \in Sessions
         /\ \A v \in {"none", "alive", "dead"} : [r EXCEPT !.child = v] \in Sessions
         /\ \A v \in 0 .. QueueCap + 1 : [r EXCEPT !.queued = v] \in Sessions
         /\ \A v \in BOOLEAN : [r EXCEPT !.expired = v] \in Sessions
         /\ \A v \in BOOLEAN : [r EXCEPT !.sender = v] \in Sessions
         /\ \A v \in BOOLEAN : [r EXCEPT !.takes = v] \in Sessions
BY DEF Sessions

(* A step that gives one session another value of its type.                *)
LEMMA SessionTyped ==
  ASSUME ShellTypeOK, NEW s \in Session, NEW r \in Sessions,
         sess' = [sess EXCEPT ![s] = r],
         active' \in BOOLEAN, loop' \in Session \cup {NoSession}, status' = status
  PROVE  ShellTypeOK'
BY DEF ShellTypeOK

(* Every step of a session keeps the types.                                *)
LEMMA SessionStepTyped ==
  ASSUME ShellTypeOK, NEW s \in Session, SessionStep(s)
  PROVE  ShellTypeOK'
<1>0. /\ sess[s] \in Sessions /\ active \in BOOLEAN
      /\ loop \in Session \cup {NoSession} /\ sess[s].queued \in 0 .. QueueCap + 1
  BY DEF ShellTypeOK, Sessions
<1> DEFINE With(r) == sess' = [sess EXCEPT ![s] = r]
<1>1. CASE Incoming(s)
  <2>1. With([sess[s] EXCEPT !.pc = "challenge"])
    BY <1>1 DEF Incoming
  <2> QED
    BY <1>0, <1>1, <2>1, FieldTyped, SessionTyped DEF Incoming
<1>2. CASE HandshakeFails(s)
  <2>1. With([sess[s] EXCEPT !.pc = "refusing"])
    BY <1>2 DEF HandshakeFails
  <2> QED
    BY <1>0, <1>2, <2>1, FieldTyped, SessionTyped DEF HandshakeFails
<1>3. ASSUME NEW t \in Ticket \cup {NoTicketId}, NEW valid \in BOOLEAN, Handshake(s, t, valid)
      PROVE  ShellTypeOK'
  <2>1. \/ With([[sess[s] EXCEPT !.pc = "granted"] EXCEPT !.ticket = t])
        \/ With([sess[s] EXCEPT !.pc = "refusing"])
    BY <1>3 DEF Handshake
  <2>2. active' \in BOOLEAN /\ loop' \in Session \cup {NoSession} /\ status' = status
    BY <1>0, <1>3 DEF Handshake
  <2> QED
    BY <1>0, <2>1, <2>2, FieldTyped, SessionTyped
<1>4. CASE SendAuthorized(s)
  <2>1. With([[sess[s] EXCEPT !.pc = "starting"] EXCEPT !.takes = TRUE])
    BY <1>4 DEF SendAuthorized
  <2> QED
    BY <1>0, <1>4, <2>1, FieldTyped, SessionTyped DEF SendAuthorized
<1>5. CASE SendAuthorizedFails(s)
  <2>1. With([sess[s] EXCEPT !.pc = "denied"]) /\ active' \in BOOLEAN
    BY <1>5 DEF SendAuthorizedFails
  <2> QED
    BY <1>0, <1>5, <2>1, FieldTyped, SessionTyped DEF SendAuthorizedFails
<1>6. CASE ServeStart(s)
  <2>1. With([[sess[s] EXCEPT !.pc = "banner"] EXCEPT !.child = "alive"])
    BY <1>6 DEF ServeStart
  <2> QED
    BY <1>0, <1>6, <2>1, FieldTyped, SessionTyped DEF ServeStart
<1>7. CASE ServeFails(s)
  <2>1. With([[sess[s] EXCEPT !.pc = "over"] EXCEPT !.child = "dead"]) /\ active' \in BOOLEAN
    BY <1>7 DEF ServeFails
  <2> QED
    BY <1>0, <1>7, <2>1, FieldTyped, SessionTyped DEF ServeFails
<1>8. CASE DataFrame(s)
  <2>1. With([sess[s] EXCEPT !.queued = @ + 1])
    BY <1>8 DEF DataFrame
  <2>2. sess[s].queued + 1 \in 0 .. QueueCap + 1
    BY <1>0, <1>8, QueueCapNat DEF DataFrame, Blocked
  <2> QED
    BY <1>0, <1>8, <2>1, <2>2, FieldTyped, SessionTyped DEF DataFrame
<1>9. CASE ChildReads(s)
  <2>1. With([sess[s] EXCEPT !.queued = @ - 1])
    BY <1>9 DEF ChildReads
  <2>2. sess[s].queued - 1 \in 0 .. QueueCap + 1
    BY <1>0, <1>9, QueueCapNat DEF ChildReads
  <2> QED
    BY <1>0, <1>9, <2>1, <2>2, FieldTyped, SessionTyped DEF ChildReads
<1>10. CASE ChildExits(s) \/ OrphanHangup(s)
  <2>1. With([sess[s] EXCEPT !.child = "dead"])
    BY <1>10 DEF ChildExits, OrphanHangup
  <2> QED
    BY <1>0, <1>10, <2>1, FieldTyped, SessionTyped DEF ChildExits, OrphanHangup
<1>11. CASE SenderFails(s)
  <2>1. With([sess[s] EXCEPT !.sender = FALSE])
    BY <1>11 DEF SenderFails
  <2> QED
    BY <1>0, <1>11, <2>1, FieldTyped, SessionTyped DEF SenderFails
<1>12. CASE ServeEnds(s)
  <2>1. With([sess[s] EXCEPT !.pc = "draining"])
    BY <1>12 DEF ServeEnds
  <2> QED
    BY <1>0, <1>12, <2>1, FieldTyped, SessionTyped DEF ServeEnds
<1>13. CASE ServeCleanup(s)
  <2>1. /\ With([[[sess[s] EXCEPT !.pc = "over"] EXCEPT !.child = "dead"] EXCEPT !.sender = FALSE])
        /\ active' \in BOOLEAN
    BY <1>13 DEF ServeCleanup
  <2> QED
    BY <1>0, <1>13, <2>1, FieldTyped, SessionTyped DEF ServeCleanup
<1>14. CASE WatcherFires(s)
  <2>1. /\ With([[sess[s] EXCEPT !.pc = "over"] EXCEPT !.child = Abandoned(s)])
        /\ active' \in BOOLEAN
    BY <1>14 DEF WatcherFires
  <2>2. Abandoned(s) \in {"none", "alive", "dead"}
    BY <1>0 DEF Abandoned, Sessions
  <2> QED
    BY <1>0, <1>14, <2>1, <2>2, FieldTyped, SessionTyped DEF WatcherFires
<1>15. ASSUME NEW l \in {"silent", "broken"}, LinkChanges(s, l)
       PROVE  ShellTypeOK'
  <2>1. With([sess[s] EXCEPT !.link = l])
    BY <1>15 DEF LinkChanges
  <2> QED
    BY <1>0, <1>15, <2>1, FieldTyped, SessionTyped DEF LinkChanges
<1>16. CASE Expire(s)
  <2>1. With([sess[s] EXCEPT !.expired = TRUE])
    BY <1>16 DEF Expire
  <2> QED
    BY <1>0, <1>16, <2>1, FieldTyped, SessionTyped DEF Expire
<1>17. CASE WriteChallenge(s)
  <2>1. With([[sess[s] EXCEPT !.pc = "handshake"] EXCEPT !.takes = TRUE])
    BY <1>17 DEF WriteChallenge
  <2> QED
    BY <1>0, <1>17, <2>1, FieldTyped, SessionTyped DEF WriteChallenge
<1>18. CASE ChallengeFails(s) \/ SendDenied(s)
  <2>1. With([sess[s] EXCEPT !.pc = "denied"])
    BY <1>18 DEF ChallengeFails, SendDenied
  <2> QED
    BY <1>0, <1>18, <2>1, FieldTyped, SessionTyped DEF ChallengeFails, SendDenied
<1>19. CASE SendBanner(s)
  <2>1. With([[[sess[s] EXCEPT !.pc = "serving"] EXCEPT !.sender = TRUE] EXCEPT !.takes = TRUE])
    BY <1>19 DEF SendBanner
  <2> QED
    BY <1>0, <1>19, <2>1, FieldTyped, SessionTyped DEF SendBanner
<1>20. CASE Stall(s)
  <2>1. With([sess[s] EXCEPT !.takes = FALSE])
    BY <1>20 DEF Stall
  <2> QED
    BY <1>0, <1>20, <2>1, FieldTyped, SessionTyped DEF Stall
<1> QED
  BY <1>1, <1>2, <1>3, <1>4, <1>5, <1>6, <1>7, <1>8, <1>9, <1>10, <1>11, <1>12, <1>13,
     <1>14, <1>15, <1>16, <1>17, <1>18, <1>19, <1>20 DEF SessionStep

(* Every step of a session keeps the flag exact.                           *)
LEMMA SessionStepFlag ==
  ASSUME ShellTypeOK, FlagExact, NEW s \in Session, SessionStep(s)
  PROVE  FlagExact'
<1> USE DEF ShellTypeOK, Sessions, Holding
<1>1. ASSUME active' = active, \A r \in Session : Holding(r)' <=> Holding(r)
      PROVE  FlagExact'
  BY <1>1 DEF FlagExact
<1>2. CASE \/ Incoming(s) \/ WriteChallenge(s) \/ ChallengeFails(s) \/ HandshakeFails(s)
           \/ SendDenied(s) \/ SendAuthorized(s) \/ ServeStart(s) \/ SendBanner(s)
           \/ ServeEnds(s)
  <2>1. active' = active
    BY <1>2 DEF Incoming, WriteChallenge, ChallengeFails, HandshakeFails, SendDenied,
                SendAuthorized, ServeStart, SendBanner, ServeEnds
  <2>2. \A r \in Session : Holding(r)' <=> Holding(r)
    BY <1>2 DEF Incoming, WriteChallenge, ChallengeFails, HandshakeFails, SendDenied,
                SendAuthorized, ServeStart, SendBanner, ServeEnds
  <2> QED
    BY <1>1, <2>1, <2>2
<1>3. CASE \/ DataFrame(s) \/ ChildReads(s) \/ ChildExits(s) \/ SenderFails(s)
           \/ OrphanHangup(s) \/ Stall(s) \/ Expire(s)
           \/ \E l \in {"silent", "broken"} : LinkChanges(s, l)
  <2>1. active' = active
    BY <1>3 DEF DataFrame, ChildReads, ChildExits, SenderFails, OrphanHangup, Stall, Expire,
                LinkChanges
  <2>2. \A r \in Session : Holding(r)' <=> Holding(r)
    BY <1>3 DEF DataFrame, ChildReads, ChildExits, SenderFails, OrphanHangup, Stall, Expire,
                LinkChanges
  <2> QED
    BY <1>1, <2>1, <2>2
<1>4. ASSUME NEW t \in Ticket \cup {NoTicketId}, NEW valid \in BOOLEAN, Handshake(s, t, valid)
      PROVE  FlagExact'
  <2>1. /\ sess[s].pc = "handshake"
        /\ \/ ~active /\ active' = TRUE /\ sess' = [sess EXCEPT ![s].pc = "granted", ![s].ticket = t]
           \/ active' = active /\ sess' = [sess EXCEPT ![s].pc = "refusing"]
    BY <1>4 DEF Handshake
  <2>2. CASE ~active /\ active' = TRUE /\ sess' = [sess EXCEPT ![s].pc = "granted", ![s].ticket = t]
    <3>1. /\ Holding(s)'
          /\ \A r \in Session \ {s} : sess'[r] = sess[r]
      BY <2>2
    <3> QED
      BY <2>2, <3>1 DEF FlagExact
  <2>3. CASE active' = active /\ sess' = [sess EXCEPT ![s].pc = "refusing"]
    <3>1. /\ ~Holding(s)' /\ ~Holding(s)
          /\ \A r \in Session \ {s} : sess'[r] = sess[r]
      BY <2>1, <2>3
    <3> QED
      BY <2>3, <3>1 DEF FlagExact
  <2> QED
    BY <2>1, <2>2, <2>3
<1>5. CASE \/ SendAuthorizedFails(s) \/ ServeFails(s) \/ ServeCleanup(s) \/ WatcherFires(s)
  <2>1. /\ Holding(s) /\ active' = FALSE
        /\ sess'[s].pc \in {"denied", "over"}
        /\ \A r \in Session \ {s} : sess'[r] = sess[r]
    BY <1>5 DEF SendAuthorizedFails, ServeFails, ServeCleanup, WatcherFires
  <2> QED
    BY <2>1 DEF FlagExact
<1> QED
  BY <1>2, <1>3, <1>4, <1>5 DEF SessionStep

(* A change of a ticket keeps both invariants.                             *)
LEMMA SetStatusInv ==
  ASSUME ShellTypeOK, FlagExact, NEW t \in Ticket, NEW new \in TicketState,
         SetStatus(t, new)
  PROVE  ShellTypeOK' /\ FlagExact'
  BY DEF SetStatus, ShellTypeOK, FlagExact, Holding

(* The flag is exact in every reachable state: a failed authorization, a   *)
(* failed start, a normal end and the watcher all give it back, and no two *)
(* sessions are ever admitted together.                                    *)
THEOREM FlagAlwaysExact == ShellSpec => [](ShellTypeOK /\ FlagExact)
<1>1. ShellTypeOK /\ FlagExact /\ [ShellNext]_shellVars => (ShellTypeOK /\ FlagExact)'
  <2> SUFFICES ASSUME ShellTypeOK, FlagExact, [ShellNext]_shellVars
               PROVE  ShellTypeOK' /\ FlagExact'
    OBVIOUS
  <2>1. CASE UNCHANGED shellVars
    BY <2>1 DEF shellVars, ShellTypeOK, FlagExact, Holding
  <2>2. CASE \E s \in Session : SessionStep(s)
    BY <2>2, SessionStepTyped, SessionStepFlag
  <2>3. CASE \E t \in Ticket, new \in TicketState : SetStatus(t, new)
    BY <2>3, SetStatusInv
  <2> QED
    BY <2>1, <2>2, <2>3 DEF ShellNext
<1> QED
  BY <1>1, ShellInitInv, PTL DEF ShellSpec
===============================================================================
