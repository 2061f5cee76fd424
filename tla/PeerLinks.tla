------------------------------ MODULE PeerLinks ------------------------------
(* The connections of one node as its event loop sees them (node.rs): the    *)
(* peer registry, the dials in progress, and the four queues of commands     *)
(* that wait for a connection (pending_shell_next, pending_sync_dials,       *)
(* pending_chat_dials, pending_file_dials), which are filled, flushed and    *)
(* failed in the same places.                                                *)
EXTENDS Naturals

CONSTANTS
  Peer,      \* the other nodes
  Call       \* commands the service may issue

VARIABLES
  relay,  \* network.relay_peer is configured; never changes
  conns,  \* conns[p]: kinds of the connections established with p
  dial,   \* dial[p]: dials of the swarm in progress to reach p
  reg,    \* reg[p]: the DiscoveredPeer of the registry
  call    \* call[c]: a command and the queue it is in

linkVars == <<relay, conns, dial, reg, call>>

(* Bound: at most one connection of each kind with a peer.                   *)
Link == {"relay", "direct"}
Queue == {"shell", "sync", "chat", "file"}
(* "none": the command names no address and the candidates are dialled;      *)
(* "full": an address that ends in /p2p/<id> of the command's peer; "other": *)
(* in the id of another one, which nothing compares with the command's peer; *)
(* "bare": an address without an id.                                         *)
Address == {"none", "full", "other", "bare"}
(* The peers the events of a dial to address a for a command to p may name.  *)
Names(p, a) == IF a \in {"none", "full"} THEN {p}
               ELSE IF a = "other" THEN Peer \ {p} ELSE {}
NoCall == [ph |-> "new", queue |-> "none", peer |-> "none", addr |-> "none"]

NotKnown == [known |-> FALSE, connected |-> FALSE, transport |-> "P2P",
             addresses |-> FALSE, hello |-> FALSE]

LinkInit ==
  /\ relay \in BOOLEAN
  /\ conns = [p \in Peer |-> {}]
  /\ dial = [p \in Peer |-> {}]
  /\ reg = [p \in Peer |-> NotKnown]
  /\ call = [c \in Call |-> NoCall]

Connected(p) == conns[p] # {}
Waiting(c) == call[c].ph = "waiting"
(* The commands waiting for p in the queues qs move on to ph.                *)
Release(p, qs, ph) ==
  [c \in Call |-> IF Waiting(c) /\ call[c].peer = p /\ call[c].queue \in qs
                  THEN [call[c] EXCEPT !.ph = ph] ELSE call[c]]

------------------------------------------------------------------------------
(* dial_peer_candidates: the relay circuit and the addresses of the registry.*)
(* A peer that is being dialled is not dialled again.                        *)
Candidates(p) == relay \/ reg[p].addresses
DialCandidates(p) ==
  dial' = IF dial[p] \cap {"none", "full"} = {}
          THEN [dial EXCEPT ![p] = @ \cup {"none"}] ELSE dial

(* The swarm takes the dial of a command with address a.                     *)
StartDial(p, a) ==
  IF a = "none" THEN Candidates(p) /\ DialCandidates(p)
                ELSE dial' = [dial EXCEPT ![p] = @ \cup {a}]

Enqueue(c, q, p, a, ph) ==
  [call EXCEPT ![c] = [ph |-> ph, queue |-> q, peer |-> p, addr |-> a]]

CommandConnected(c, q, p, a) ==
  /\ call[c] = NoCall
  /\ Connected(p)
  /\ call' = Enqueue(c, q, p, a, "sent")
  /\ UNCHANGED <<conns, dial, reg>>

CommandDials(c, q, p, a) ==
  /\ call[c] = NoCall
  /\ ~Connected(p)
  /\ StartDial(p, a)
  /\ call' = Enqueue(c, q, p, a, "waiting")
  /\ UNCHANGED <<conns, reg>>

(* Mutated form: nobody is told that no dial was started.                    *)
CommandStuckSilent(c, q, p, a) ==
  /\ call[c] = NoCall
  /\ ~Connected(p)
  /\ call' = Enqueue(c, q, p, a, "waiting")
  /\ UNCHANGED <<conns, dial, reg>>

(* No address is known or the swarm refuses: OpenShellNext fails what waits  *)
(* for a shell on p, the other commands stay in their queue.                 *)
CommandStuck(c, q, p, a) ==
  /\ call[c] = NoCall
  /\ ~Connected(p)
  /\ call' = IF q = "shell"
             THEN [Release(p, {"shell"}, "answered") EXCEPT
                     ![c] = [ph |-> "answered", queue |-> q, peer |-> p, addr |-> a]]
             ELSE Enqueue(c, q, p, a, "waiting")
  /\ UNCHANGED <<conns, dial, reg>>

------------------------------------------------------------------------------
(* Events of the swarm                                                       *)

(* Mutated form: the chat queue is not flushed.                              *)
EstablishedNoChat(p, k) ==
  /\ k \in Link \ conns[p]
  /\ conns' = [conns EXCEPT ![p] = @ \cup {k}]
  /\ reg' = [reg EXCEPT ![p] = [@ EXCEPT !.known = TRUE, !.connected = TRUE,
                                         !.transport = k, !.addresses = TRUE]]
  /\ call' = Release(p, Queue \ {"chat"}, "sent")

(* ConnectionEstablished: record_connection, then the four queues.           *)
Established(p, k) ==
  /\ k \in Link \ conns[p]
  /\ conns' = [conns EXCEPT ![p] = @ \cup {k}]
  /\ reg' = [reg EXCEPT ![p] = [@ EXCEPT !.known = TRUE, !.connected = TRUE,
                                         !.transport = k, !.addresses = TRUE]]
  /\ call' = Release(p, Queue, "sent")

(* A dial ends in a connection: with the peer its address names, or with the *)
(* owner of a bare address, which may be another one than the command's.     *)
DialSucceeds(p, a, q, k) ==
  /\ a \in dial[p]
  /\ q \in Names(p, a) \/ a = "bare"
  /\ Established(q, k)
  /\ dial' = [dial EXCEPT ![p] = @ \ {a}]

(* A connection the peer opened, or a relayed one upgraded by DCUtR.         *)
Inbound(p, k) == Established(p, k) /\ UNCHANGED dial

(* Mutated form: a failed dial leaves the file queue alone.                  *)
DialFailsNotFiles(p, a) ==
  /\ a \in dial[p]
  /\ dial' = [dial EXCEPT ![p] = @ \ {a}]
  /\ \/ \E q \in Names(p, a) :
          ~Connected(q) /\ call' = Release(q, Queue \ {"file"}, "answered")
     \/ (p \in Names(p, a) => Connected(p)) /\ UNCHANGED call
  /\ UNCHANGED <<conns, reg>>

(* OutgoingConnectionError fails what waits for the peer it names: for a     *)
(* bare address none, for another peer's one of which nothing may wait.      *)
DialFails(p, a) ==
  /\ a \in dial[p]
  /\ dial' = [dial EXCEPT ![p] = @ \ {a}]
  /\ \/ \E q \in Names(p, a) : ~Connected(q) /\ call' = Release(q, Queue, "answered")
     \/ (p \in Names(p, a) => Connected(p)) /\ UNCHANGED call
  /\ UNCHANGED <<conns, reg>>

(* Mutated form: the first connection that goes marks the peer.              *)
ConnectionClosedAny(p, k) ==
  /\ k \in conns[p]
  /\ conns' = [conns EXCEPT ![p] = @ \ {k}]
  /\ reg' = [reg EXCEPT ![p].connected = FALSE]
  /\ UNCHANGED <<dial, call>>

(* ConnectionClosed, with the number of connections that remain.             *)
ConnectionClosed(p, k) ==
  /\ k \in conns[p]
  /\ conns' = [conns EXCEPT ![p] = @ \ {k}]
  /\ reg' = IF conns[p] = {k} THEN [reg EXCEPT ![p].connected = FALSE] ELSE reg
  /\ UNCHANGED <<dial, call>>

(* HELLO and identify come over a connection, and may be handled after it is *)
(* gone.  An entry that had to be made would say connected.                  *)
HelloOrIdentify(p) ==
  /\ reg[p].known /\ (Connected(p) \/ reg[p].transport # "P2P")
  /\ \E hello \in BOOLEAN :
       reg' = [reg EXCEPT ![p].hello = @ \/ hello, ![p].addresses = TRUE]
  /\ UNCHANGED <<conns, dial, call>>

(* Rendezvous reports p, with or without addresses: it enters the registry   *)
(* and is dialled unless it is connected.                                    *)
Discovered(p, addresses) ==
  /\ reg' = [reg EXCEPT ![p].known = TRUE, ![p].addresses = @ \/ addresses]
  /\ IF ~Connected(p) /\ (Candidates(p) \/ addresses)
     THEN DialCandidates(p) \/ UNCHANGED dial
     ELSE UNCHANGED dial
  /\ UNCHANGED <<conns, call>>

(* The request, or the task, of a command that was sent ends.                *)
Answer(c) ==
  /\ call[c].ph = "sent"
  /\ call' = [call EXCEPT ![c].ph = "answered"]
  /\ UNCHANGED <<conns, dial, reg>>

------------------------------------------------------------------------------
Command(c) ==
  \E q \in Queue, p \in Peer, a \in Address :
    CommandConnected(c, q, p, a) \/ CommandDials(c, q, p, a) \/ CommandStuck(c, q, p, a)

DialEnds(p, a) == DialFails(p, a) \/ \E q \in Peer, k \in Link : DialSucceeds(p, a, q, k)

SwarmEvent(p) ==
  \/ \E a \in Address : DialEnds(p, a)
  \/ \E k \in Link : Inbound(p, k) \/ ConnectionClosed(p, k)
  \/ HelloOrIdentify(p)
  \/ \E addresses \in BOOLEAN : Discovered(p, addresses)

LinkNext ==
  /\ (\E c \in Call : Command(c) \/ Answer(c)) \/ \E p \in Peer : SwarmEvent(p)
  /\ UNCHANGED relay

(* The swarm gives every dial a deadline.                                    *)
LinkFairness ==
  \A p \in Peer, a \in Address : WF_linkVars(DialEnds(p, a) /\ UNCHANGED relay)
LinkSpec == LinkInit /\ [][LinkNext]_linkVars /\ LinkFairness

(* Discovery runs every REDISCOVERY_INTERVAL: every peer stays registered,   *)
(* and a dial the swarm is asked for again and again starts.                 *)
DialsDiscovered(p) ==
  ~Connected(p) /\ dial[p] = {} /\ Discovered(p, TRUE) /\ dial'[p] # {} /\ UNCHANGED relay
StayRegistered == \A p \in Peer : SF_linkVars(DialsDiscovered(p))

------------------------------------------------------------------------------
(* What ListPeers reports as connected is connected and the rest is not,     *)
(* also while a relayed and a direct connection overlap and when HELLO or    *)
(* identify is handled late.                                                 *)
RegistryExact == \A p \in Peer : reg[p].connected <=> Connected(p)

(* A command never waits for a connection that is there: no order of         *)
(* commands, dials, inbound connections and errors strands it in its queue.  *)
NoneWaitsConnected == \A c \in Call : Waiting(c) => ~Connected(call[c].peer)

(* OpenShellNext, whose caller has no deadline of its own, does not wait for *)
(* ever: each dial that concerns the peer ends, and no dial is an answer     *)
(* too.  The exception is an address of the caller's that names no peer, or  *)
(* another peer than the one the shell is asked for: its events answer the   *)
(* command of nobody, or of somebody else.                                   *)
ShellReleased ==
  \A c \in Call :
    (Waiting(c) /\ call[c].queue = "shell" /\ call[c].addr \in {"none", "full"})
      ~> ~Waiting(c)

(* If the peers stay registered, a command of any kind, dialled or not, is   *)
(* sent or refused in the end.                                               *)
WaitersReleased == StayRegistered => \A c \in Call : Waiting(c) ~> ~Waiting(c)
==============================================================================
