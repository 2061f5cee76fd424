------------------------------ MODULE EventGraph ------------------------------
(***************************************************************************)
(* The replicated causal event graph of fortiq-core (event/graph.rs) on    *)
(* top of the content-addressed object store (store/fs.rs).                *)
(*                                                                         *)
(* Every node keeps a disk store of signed objects and, in memory, the     *)
(* graph built from them: the events inserted so far, the map from an      *)
(* object id to the inserted events that name it as a parent, and the      *)
(* heads.  Objects travel between nodes in any order, are inserted in any  *)
(* order, and the memory of a node is lost and rebuilt in any order when   *)
(* it restarts.                                                            *)
(*                                                                         *)
(* An event id is the hash of its content (object/envelope.rs), so the     *)
(* parents and the Lamport value of an id never change once the object     *)
(* has been signed: parents and lamport below are the content of the       *)
(* signed objects, shared by every node, and born is the set of ids that   *)
(* have been signed by some node.                                          *)
(***************************************************************************)
EXTENDS Naturals

CONSTANTS Node,     \* the replicas
          Id        \* object ids; the hash makes every signed object's id new

VARIABLES born,     \* ids of the objects signed so far by any node
          parents,  \* parents[e]: Event::parents of the object e
          lamport,  \* lamport[e]: Event::lamport of the object e
          store,    \* store[n]: ids under <root>/objects of node n
          events,   \* events[n]: keys of EventGraph::events
          children, \* children[n][e]: EventGraph::children of e
          heads     \* heads[n]: EventGraph::heads

objects == <<born, parents, lamport>>
graph == <<events, children, heads>>
graphVars == <<objects, store, graph>>

TypeOK ==
  /\ born \subseteq Id
  /\ parents \in [Id -> SUBSET Id]
  /\ lamport \in [Id -> Nat]
  /\ store \in [Node -> SUBSET Id]
  /\ events \in [Node -> SUBSET Id]
  /\ children \in [Node -> [Id -> SUBSET Id]]
  /\ heads \in [Node -> SUBSET Id]

GraphInit ==
  /\ born = {}
  /\ parents = [e \in Id |-> {}]
  /\ lamport = [e \in Id |-> 0]
  /\ store = [n \in Node |-> {}]
  /\ events = [n \in Node |-> {}]
  /\ children = [n \in Node |-> [e \in Id |-> {}]]
  /\ heads = [n \in Node |-> {}]

-------------------------------------------------------------------------------
(* Mutated forms of the definitions below, each a bug the code could have. *)

(* The clock is copied from the heads and not advanced.                    *)
NextLamportNotAdvanced(n) ==
  IF heads[n] = {} THEN {1} ELSE {lamport[h] : h \in heads[n]}

(* The clock follows any one head instead of the largest.                  *)
NextLamportOfAnyHead(n) ==
  IF heads[n] = {} THEN {1} ELSE {lamport[h] + 1 : h \in heads[n]}

(* An inserted event is always made a head, even if its children arrived   *)
(* before it.                                                              *)
LinkAlwaysHead(n, e) ==
  /\ children' = [children EXCEPT ![n] =
                    [i \in Id |-> IF i \in parents[e] THEN @[i] \cup {e} ELSE @[i]]]
  /\ heads' = [heads EXCEPT ![n] = (@ \ parents[e]) \cup {e}]
  /\ events' = [events EXCEPT ![n] = @ \cup {e}]

-------------------------------------------------------------------------------
(* EventGraph::next_lamport over the heads: one more than the largest      *)
(* Lamport value of a head, and 1 in an empty graph.                       *)
NextLamport(n) ==
  {l \in {1} \cup {lamport[h] + 1 : h \in heads[n]} :
     \A h \in heads[n] : lamport[h] < l}

(* The two Lamport checks of EventGraph::insert: against the parents       *)
(* already present, and against the children that arrived first.           *)
LamportRespected(n, e) ==
  /\ \A p \in parents[e] \cap events[n] : lamport[p] < lamport[e]
  /\ \A c \in children[n][e] \cap events[n] : lamport[e] < lamport[c]

(* The part of EventGraph::insert after its checks.                        *)
Link(n, e) ==
  /\ children' = [children EXCEPT ![n] =
                    [i \in Id |-> IF i \in parents[e] THEN @[i] \cup {e} ELSE @[i]]]
  /\ heads' = [heads EXCEPT ![n] =
                 (@ \ parents[e]) \cup (IF children[n][e] = {} THEN {e} ELSE {})]
  /\ events' = [events EXCEPT ![n] = @ \cup {e}]

(* Signing a new object whose parents are the current heads, and writing   *)
(* it to disk before the graph is touched: the first half of               *)
(* TicketEngine::append_ticket_event.                                      *)
SignAndPut(n, e) ==
  /\ e \notin born
  /\ born' = born \cup {e}
  /\ parents' = [parents EXCEPT ![e] = heads[n]]
  /\ \E l \in NextLamport(n) : lamport' = [lamport EXCEPT ![e] = l]
  /\ store' = [store EXCEPT ![n] = @ \cup {e}]
  /\ UNCHANGED graph

(* FsObjectStore::put of an object received from another node; idempotent. *)
Put(n, e) ==
  /\ \E m \in Node : e \in store[m]
  /\ store' = [store EXCEPT ![n] = @ \cup {e}]
  /\ UNCHANGED <<objects, graph>>

(* EventGraph::insert of an object that is on disk: a no-op for an event   *)
(* already present, an error that changes nothing when a Lamport check     *)
(* fails, otherwise the event is linked in.                                *)
Insert(n, e) ==
  /\ e \in store[n]
  /\ \/ /\ e \in events[n] \/ ~LamportRespected(n, e)
        /\ UNCHANGED graph
     \/ /\ e \notin events[n] /\ LamportRespected(n, e)
        /\ Link(n, e)
  /\ UNCHANGED <<objects, store>>

(* The process stops: the graph is memory only, the store is not.  After   *)
(* it TicketEngine::open inserts the stored objects again, in directory    *)
(* order, which is any order.                                              *)
Crash(n) ==
  /\ events' = [events EXCEPT ![n] = {}]
  /\ children' = [children EXCEPT ![n] = [e \in Id |-> {}]]
  /\ heads' = [heads EXCEPT ![n] = {}]
  /\ UNCHANGED <<objects, store>>

GraphNext ==
  \E n \in Node :
    \/ \E e \in Id : SignAndPut(n, e)
    \/ \E e \in Id : Put(n, e)
    \/ \E e \in store[n] : Insert(n, e)
    \/ Crash(n)

GraphSpec == GraphInit /\ [][GraphNext]_graphVars

-------------------------------------------------------------------------------
(* Heads are exact: the heads of a node are the inserted events that no    *)
(* inserted event names as a parent ("An event is a head if it has no      *)
(* children in the graph yet", event/heads.rs), also when children arrive  *)
(* before their parents.                                                   *)
HeadsExact ==
  \A n \in Node :
    heads[n] = {e \in events[n] : \A c \in events[n] : e \notin parents[c]}

(* The children map is exact, for parents that are present and for those   *)
(* that have not arrived.                                                  *)
ChildrenExact ==
  \A n \in Node : \A e \in Id :
    children[n][e] = {c \in events[n] : e \in parents[c]}

(* No node ever refuses an object another node signed: the Lamport checks  *)
(* of EventGraph::insert hold for every signed object in every arrival     *)
(* order, so the graphs of two nodes with the same objects are the same.   *)
NeverRejected ==
  \A n \in Node : \A e \in born \ events[n] : LamportRespected(n, e)

(* A head dominates: every inserted event has a Lamport value at most that *)
(* of some head, so the next append of the node comes after every event of *)
(* its graph in the order of topological_sort.  This is what lets          *)
(* append_ticket_event apply the new event to the old state instead of     *)
(* reducing the graph again.                                               *)
AppendIsLast ==
  \A n \in Node : \A e \in events[n] : \A l \in NextLamport(n) : lamport[e] < l
===============================================================================
