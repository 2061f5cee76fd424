------------------------- MODULE TicketEngineProofs --------------------------
(*****************************************************************************)
(* Proofs about TicketEngine for every set of nodes, workers, tickets, items *)
(* and object ids.                                                           *)
(*                                                                           *)
(* First the engine is shown to implement EventGraph step by step, which     *)
(* carries the theorems about the graph over to it.                          *)
(*                                                                           *)
(* Then AckedInv, the strengthening of AckedSurvives: while a node is        *)
(* loading, what it acknowledged before the crash is inserted or still to be *)
(* loaded. It is inductive only together with GraphInv, which says that an   *)
(* object on disk is signed and that a signed object is never refused, so    *)
(* inserting a stored object always succeeds.                                *)
(*                                                                           *)
(* Then EngineInv, for StateIsReduction and the refinement of                *)
(* TicketLifecycle. WorkInv says that the workers of a node exclude each     *)
(* other from its graph, so that nothing is inserted between the signature   *)
(* of an event and its insertion, and the event is still the latest when it  *)
(* is applied to the state. ReductionInv says of which events the state and  *)
(* what is shown are the reduction: a state is allowed to lack remote events *)
(* for as long as a reduction is due, and what a node showed before a crash  *)
(* is the reduction of events it will load again.                            *)
(*****************************************************************************)
EXTENDS TicketEngine, TicketReducerProofs

(* Every step of the engine is a step of the event graph or leaves it      *)
(* alone.                                                                  *)
LEMMA EngineStepIsGraphStep == [EngineNext]_engineVars => [GraphNext]_graphVars
<1> SUFFICES ASSUME [EngineNext]_engineVars PROVE [GraphNext]_graphVars
  OBVIOUS
<1>1. CASE UNCHANGED engineVars
  BY <1>1 DEF engineVars
<1>2. ASSUME NEW n \in Node, NEW w \in Worker, WorkerStep(n, w)
      PROVE  [GraphNext]_graphVars
  <2>1. CASE \E t \in Ticket : create_ticket(n, w, t)
    BY <2>1 DEF create_ticket, Accept
  <2>2. CASE \E t \in Ticket, s \in StatusInput : update_ticket_state(n, w, t, s)
    BY <2>2 DEF update_ticket_state, Accept
  <2>3. CASE \E k \in EntryInput, t \in Ticket, i \in Item : add_entry(n, w, k, t, i)
    BY <2>3 DEF add_entry, Accept
  <2>4. CASE \E t \in Ticket : import_canonical_ticket(n, w, t)
    BY <2>4 DEF import_canonical_ticket, Accept
  <2>5. CASE \E e \in Id : AppendPut(n, w, e)
    BY <2>5 DEF AppendPut, GraphNext
  <2>6. CASE AppendInsert(n, w)
    <3>1. Insert(n, op[n][w].written)
      BY <2>6 DEF AppendInsert
    <3> QED
      BY <3>1 DEF GraphNext, Insert
  <2>7. CASE \E ids \in SUBSET born : BatchStart(n, w, ids)
    BY <2>7 DEF BatchStart
  <2>8. CASE \E e \in Id : BatchPut(n, w, e) \/ BatchInsert(n, w, e)
    <3>1. PICK e \in Id : Put(n, e) \/ Insert(n, e)
      BY <2>8 DEF BatchPut, BatchInsert
    <3> QED
      BY <3>1 DEF GraphNext, Insert
  <2>9. CASE BatchReduce(n, w)
    BY <2>9 DEF BatchReduce
  <2> QED
    BY <1>2, <2>1, <2>2, <2>3, <2>4, <2>5, <2>6, <2>7, <2>8, <2>9 DEF WorkerStep
<1>3. ASSUME NEW n \in Node, EngineCrash(n) PROVE [GraphNext]_graphVars
  BY <1>3 DEF EngineCrash, GraphNext
<1>4. ASSUME NEW n \in Node, NEW e \in Id, OpenInsert(n, e) PROVE [GraphNext]_graphVars
  BY <1>4 DEF OpenInsert, GraphNext, Insert
<1>5. ASSUME NEW n \in Node, OpenReduce(n) PROVE [GraphNext]_graphVars
  BY <1>5 DEF OpenReduce
<1> QED
  BY <1>1, <1>2, <1>3, <1>4, <1>5 DEF EngineNext

(* The engine implements the event graph.                                  *)
THEOREM EngineImplementsGraph == EngineSpec => GraphSpec
<1>1. EngineInit => GraphInit
  BY DEF EngineInit
<1> QED
  BY <1>1, EngineStepIsGraphStep, PTL DEF EngineSpec, GraphSpec

(* The heads the engine appends to are exact in every interleaving of its  *)
(* workers and across restarts.                                            *)
THEOREM EngineHeadsExact == EngineSpec => []HeadsExact
BY EngineImplementsGraph, HeadsAlwaysExact, PTL

-------------------------------------------------------------------------------
(* What a node acknowledged is inserted, or still to be loaded from disk.  *)
AckedInv ==
  /\ up \in [Node -> BOOLEAN]
  /\ toload \in [Node -> SUBSET Id]
  /\ acked \in [Node -> SUBSET Id]
  /\ \A n \in Node : acked[n] \subseteq events[n] \cup toload[n]
  /\ \A n \in Node : toload[n] \subseteq store[n]
  /\ \A n \in Node : up[n] => toload[n] = {}

(* Inserting a stored object succeeds and removes nothing.                 *)
LEMMA InsertSucceeds ==
  ASSUME GraphInv, NEW n \in Node, NEW e, Insert(n, e)
  PROVE  /\ e \in Id
         /\ events' = [events EXCEPT ![n] = @ \cup {e}]
<1>1. e \in store[n] /\ e \in born /\ e \in Id
  BY DEF Insert, GraphInv, TypeOK, OnlySigned
<1>2. CASE e \in events[n]
  BY <1>1, <1>2 DEF Insert, graph, GraphInv, TypeOK
<1>3. CASE e \notin events[n]
  <2>1. LamportRespected(n, e)
    BY <1>1, <1>3, ChecksHold DEF NeverRejected
  <2> QED
    BY <1>1, <1>3, <2>1 DEF Insert, Link
<1> QED
  BY <1>1, <1>2, <1>3

(* Every step keeps the acknowledged events inserted or to be loaded.      *)
LEMMA AckedStep == GraphInv /\ AckedInv /\ [EngineNext]_engineVars => AckedInv'
<1> SUFFICES ASSUME GraphInv, AckedInv, [EngineNext]_engineVars PROVE AckedInv'
  OBVIOUS
<1> USE DEF AckedInv
<1>0. events \in [Node -> SUBSET Id]
  BY DEF GraphInv, TypeOK
<1>s. /\ store \in [Node -> SUBSET Id] /\ store' \in [Node -> SUBSET Id]
      /\ \A n \in Node : store[n] \subseteq store'[n]
  <2>1. [GraphNext]_graphVars
    BY EngineStepIsGraphStep
  <2>2. GraphInv'
    BY <2>1, GraphStepInv
  <2>3. \A n \in Node : store[n] \subseteq store'[n]
    BY <2>1, GraphStepImmutable DEF graphVars
  <2> QED
    BY <2>2, <2>3 DEF GraphInv, TypeOK
<1>1. CASE UNCHANGED engineVars
  BY <1>1 DEF engineVars, graphVars, graph
<1>2. ASSUME UNCHANGED <<events, up, toload, acked>> PROVE AckedInv'
  BY <1>2, <1>s
<1>3. ASSUME NEW n \in Node, NEW w \in Worker, WorkerStep(n, w) PROVE AckedInv'
  <2>1. CASE \E t \in Ticket : create_ticket(n, w, t)
    BY <1>2, <2>1 DEF create_ticket, Accept, graphVars, graph
  <2>2. CASE \E t \in Ticket, s \in StatusInput : update_ticket_state(n, w, t, s)
    BY <1>2, <2>2 DEF update_ticket_state, Accept, graphVars, graph
  <2>3. CASE \E k \in EntryInput, t \in Ticket, i \in Item : add_entry(n, w, k, t, i)
    BY <1>2, <2>3 DEF add_entry, Accept, graphVars, graph
  <2>4. CASE \E t \in Ticket : import_canonical_ticket(n, w, t)
    BY <1>2, <2>4 DEF import_canonical_ticket, Accept, graphVars, graph
  <2>5. CASE \E e \in Id : AppendPut(n, w, e)
    BY <1>2, <2>5 DEF AppendPut, SignAndPut, graph
  <2>6. CASE AppendInsert(n, w)
    <3>1. Insert(n, op[n][w].written) /\ UNCHANGED <<up, toload>>
      BY <2>6 DEF AppendInsert
    <3>2. \/ acked' = acked
          \/ acked' = [acked EXCEPT ![n] = @ \cup {op[n][w].written}]
      BY <2>6 DEF AppendInsert
    <3>3. /\ op[n][w].written \in Id
          /\ events' = [events EXCEPT ![n] = @ \cup {op[n][w].written}]
      BY <3>1, InsertSucceeds
    <3>4. acked' \in [Node -> SUBSET Id]
      BY <3>2, <3>3
    <3>5. \A m \in Node : acked'[m] \subseteq events'[m] \cup toload'[m]
      BY <1>0, <3>1, <3>2, <3>3
    <3> QED
      BY <1>s, <3>1, <3>4, <3>5
  <2>7. CASE \E ids \in SUBSET born : BatchStart(n, w, ids)
    BY <1>2, <2>7 DEF BatchStart, graphVars, graph
  <2>8. CASE \E e \in Id : BatchPut(n, w, e)
    BY <1>2, <2>8 DEF BatchPut, Put, graph
  <2>9. CASE \E e \in Id : BatchInsert(n, w, e)
    <3>1. PICK e \in Id : Insert(n, e) /\ UNCHANGED <<up, toload, acked>>
      BY <2>9 DEF BatchInsert
    <3>2. events' = [events EXCEPT ![n] = @ \cup {e}]
      BY <3>1, InsertSucceeds
    <3> QED
      BY <1>0, <1>s, <3>1, <3>2
  <2>10. CASE BatchReduce(n, w)
    BY <1>2, <2>10 DEF BatchReduce, graphVars, graph
  <2> QED
    BY <1>3, <2>1, <2>2, <2>3, <2>4, <2>5, <2>6, <2>7, <2>8, <2>9, <2>10 DEF WorkerStep
<1>4. ASSUME NEW n \in Node, EngineCrash(n) PROVE AckedInv'
  <2>1. acked[n] \subseteq store[n] /\ store[n] \subseteq Id
    BY DEF GraphInv, TypeOK, OnlySigned
  <2>2. /\ events' = [events EXCEPT ![n] = {}]
        /\ up' = [up EXCEPT ![n] = FALSE]
        /\ toload' = [toload EXCEPT ![n] = store[n]]
        /\ acked' = acked
    BY <1>4 DEF EngineCrash, Crash
  <2> QED
    BY <1>0, <1>s, <2>1, <2>2
<1>5. ASSUME NEW n \in Node, NEW e \in Id, OpenInsert(n, e) PROVE AckedInv'
  <2>1. /\ ~up[n]
        /\ Insert(n, e)
        /\ toload' = [toload EXCEPT ![n] = @ \ {e}]
        /\ UNCHANGED <<up, acked>>
    BY <1>5 DEF OpenInsert
  <2>2. events' = [events EXCEPT ![n] = @ \cup {e}]
    BY <2>1, InsertSucceeds
  <2> QED
    BY <1>0, <1>s, <2>1, <2>2
<1>6. ASSUME NEW n \in Node, OpenReduce(n) PROVE AckedInv'
  BY <1>6, <1>s DEF OpenReduce, graphVars, graph
<1> QED
  BY <1>1, <1>3, <1>4, <1>5, <1>6 DEF EngineNext

(* An append that returned Ok is never lost: on a node that is up it is in *)
(* the graph, whatever crashed and in whatever order open() loaded.        *)
THEOREM AckedAlwaysSurvives == EngineSpec => []AckedSurvives
<1>1. EngineInit => AckedInv
  BY DEF EngineInit, GraphInit, AckedInv
<1>2. EngineSpec => []GraphInv
  BY EngineImplementsGraph, GraphInvariant, PTL
<1>3. AckedInv => AckedSurvives
  BY DEF AckedInv, AckedSurvives
<1> QED
  BY <1>1, <1>2, <1>3, AckedStep, PTL DEF EngineSpec

-------------------------------------------------------------------------------
(* A worker at one of these steps holds the graph lock.                      *)
Holding == {"insert", "batch"}

(* What a worker can be doing.                                               *)
Operation ==
  {Idle, [pc |-> "reduce"]}
    \cup [pc : {"append"}, todo : Seq(Payload)]
    \cup [pc : {"insert"}, written : Id, todo : Seq(Payload)]
    \cup [pc : {"batch"}, todo : SUBSET Id, written : SUBSET Id, count : Nat]

(* Objects: their payload does not change and there are finitely many.       *)
ObjectsOK ==
  /\ IsFiniteSet(born)
  /\ payload \in [Id -> Payload \cup {NoPayload}]
  /\ \A e \in born : payload[e] \in Payload

(* What worker w of node n is doing.                                         *)
WorkerOK(n, w) ==
  LET o == op[n][w] IN
  /\ o \in Operation
  /\ ~up[n] => o = Idle
  /\ o.pc = "append" => o.todo # <<>>
  /\ o.pc = "insert" => o.written \in born /\ \A c \in events[n] : Before(c, o.written)
  /\ o.pc \in Holding => \A v \in Worker : op[n][v].pc \in Holding => v = w

(* Every worker does one of these things, and one at most of each node holds *)
(* the graph lock for writing.                                               *)
WorkInv ==
  /\ ObjectsOK
  /\ DOMAIN op = Node /\ \A n \in Node : DOMAIN op[n] = Worker
  /\ \A n \in Node, w \in Worker : WorkerOK(n, w)

(* The fields of what a worker is doing, by the place where it is.           *)
LEMMA OperationFields ==
  ASSUME NEW o \in Operation
  PROVE  /\ o.pc \in {"idle", "append", "insert", "batch", "reduce"}
         /\ o.pc = "append" => o = [pc |-> "append", todo |-> o.todo] /\ o.todo \in Seq(Payload)
         /\ o.pc = "insert" => o.written \in Id /\ o.todo \in Seq(Payload)
         /\ o.pc = "batch" => /\ o \in [pc : {"batch"}, todo : SUBSET Id,
                                        written : SUBSET Id, count : Nat]
                              /\ o.todo \subseteq Id /\ o.written \subseteq Id /\ o.count \in Nat
         /\ o.pc = "idle" => o = Idle
<1>1. CASE o \in {Idle, [pc |-> "reduce"]}
  BY <1>1 DEF Idle
<1>2. CASE o \in [pc : {"append"}, todo : Seq(Payload)]
  BY <1>2
<1>3. CASE o \in [pc : {"insert"}, written : Id, todo : Seq(Payload)]
  BY <1>3
<1>4. CASE o \in [pc : {"batch"}, todo : SUBSET Id, written : SUBSET Id, count : Nat]
  BY <1>4
<1> QED BY <1>1, <1>2, <1>3, <1>4 DEF Operation

(* A worker that is doing something belongs to a node that is up.            *)
LEMMA BusyIsUp ==
  ASSUME NEW n \in Node, NEW w \in Worker, WorkerOK(n, w), op[n][w].pc # "idle"
  PROVE  up[n]
<1>1. op[n][w] # Idle
  BY DEF Idle
<1> QED BY <1>1 DEF WorkerOK

(* A step of worker w of node n that leaves it with o, and that inserts only *)
(* while w holds the graph lock.                                             *)
LEMMA WorkerMoves ==
  ASSUME WorkInv, ObjectsOK', GraphInv, NEW n \in Node, NEW w \in Worker, NEW o \in Operation,
         op' = [op EXCEPT ![n][w] = o], up' = up, up[n],
         born \subseteq born', \A e \in born : lamport'[e] = lamport[e],
         \A m \in Node : m # n => events'[m] = events[m],
         events'[n] = events[n] \/ op[n][w].pc \in Holding,
         o.pc = "append" => o.todo # <<>>,
         o.pc = "insert" => /\ o.written \in born'
                            /\ \A c \in events'[n] : Before(c, o.written)',
         o.pc \in Holding => op[n][w].pc \in Holding \/ GraphLockFree(n)
  PROVE  WorkInv'
<1>1. /\ DOMAIN op' = Node /\ \A m \in Node : DOMAIN op'[m] = Worker
      /\ \A m \in Node, v \in Worker :
           op'[m][v] = IF m = n /\ v = w THEN o ELSE op[m][v]
  BY DEF WorkInv
<1>2. \A m \in Node : events[m] \subseteq born
  BY DEF GraphInv, OnlySigned
<1>3. \A c, d \in born : Before(c, d) => Before(c, d)'
  BY DEF Before
<1>4. \A m \in Node, v \in Worker : WorkerOK(m, v)
  BY DEF WorkInv
<1>5. WorkerOK(n, w)'
  <2>1. op'[n][w] = o
    BY <1>1
  <2>2. ASSUME o.pc \in Holding, NEW v \in Worker, op'[n][v].pc \in Holding PROVE v = w
    BY <1>1, <1>4, <2>2 DEF WorkerOK, GraphLockFree, Holding
  <2>3. o \in Operation'
    BY DEF Operation, Idle, Payload, EntryKind, TicketState
  <2> QED BY <2>1, <2>2, <2>3 DEF WorkerOK
<1>6. ASSUME NEW m \in Node, NEW v \in Worker, ~(m = n /\ v = w) PROVE WorkerOK(m, v)'
  <2>1. op'[m][v] = op[m][v] /\ WorkerOK(m, v)
    BY <1>1, <1>4, <1>6
  <2>2. ASSUME op[m][v].pc = "insert"
        PROVE  op[m][v].written \in born' /\ \A c \in events'[m] : Before(c, op[m][v].written)'
    <3>1. events'[m] = events[m]
      BY <1>4, <1>6, <2>2 DEF WorkerOK, Holding
    <3> QED BY <1>2, <1>3, <2>1, <2>2, <3>1 DEF WorkerOK
  <2>3. ASSUME op[m][v].pc \in Holding, NEW u \in Worker, op'[m][u].pc \in Holding PROVE u = v
    BY <1>1, <1>4, <1>6, <2>3 DEF WorkerOK, GraphLockFree, Holding
  <2>4. op[m][v] \in Operation'
    BY <2>1 DEF WorkerOK, Operation, Idle, Payload, EntryKind, TicketState
  <2> QED BY <2>1, <2>2, <2>3, <2>4 DEF WorkerOK
<1> QED BY <1>1, <1>5, <1>6 DEF WorkInv

(* A request is taken up with something to append.                           *)
LEMMA AcceptWork ==
  ASSUME WorkInv, GraphInv, NEW n \in Node, NEW w \in Worker,
         NEW todo \in Seq(Payload), todo # <<>>, Accept(n, w, todo)
  PROVE  WorkInv'
<1> DEFINE o == [pc |-> "append", todo |-> todo]
<1>1. o \in Operation
  BY DEF Operation
<1>2. /\ up[n] /\ up' = up /\ op' = [op EXCEPT ![n][w] = o]
      /\ UNCHANGED <<born, lamport, events, payload>>
  BY DEF Accept, graphVars, objects, graph
<1>3. ObjectsOK'
  BY <1>2 DEF WorkInv, ObjectsOK
<1>4. o.pc = "append" /\ o.todo # <<>> /\ o.pc # "insert" /\ o.pc \notin Holding
  BY DEF Holding
<1> HIDE DEF o
<1> QED BY <1>1, <1>2, <1>3, <1>4, WorkerMoves

(* What the callers append is a payload.                                     *)
LEMMA PayloadsTyped ==
  /\ \A t \in Ticket : Created(t) \in Payload
  /\ \A t \in Ticket, s \in TicketState : StatusChanged(t, s) \in Payload
  /\ \A t \in Ticket, i \in Item, k \in EntryKind \cup {"SHELL_ENDED"} : Entry(k, t, i) \in Payload
BY DEF Payload, Created, StatusChanged, Entry

(* Sequences of one and of two elements.                                     *)
LEMMA SeqOfOne == ASSUME NEW S, NEW a \in S PROVE <<a>> \in Seq(S) /\ <<a>> # <<>>
OBVIOUS

(* Likewise.                                                                 *)
LEMMA SeqOfTwo == ASSUME NEW S, NEW a \in S, NEW b \in S PROVE <<a, b>> \in Seq(S) /\ <<a, b>> # <<>>
OBVIOUS

(* The four kinds of request.                                                *)
LEMMA RequestWork ==
  ASSUME WorkInv, GraphInv, state \in [Node -> TicketStates], NEW n \in Node, NEW w \in Worker,
         \/ \E t \in Ticket : create_ticket(n, w, t)
         \/ \E t \in Ticket, s \in StatusInput : update_ticket_state(n, w, t, s)
         \/ \E k \in EntryInput, t \in Ticket, i \in Item : add_entry(n, w, k, t, i)
         \/ \E t \in Ticket : import_canonical_ticket(n, w, t)
  PROVE  \E todo \in Seq(Payload) : todo # <<>> /\ Accept(n, w, todo)
<1>1. ASSUME NEW t \in Ticket, create_ticket(n, w, t)
      PROVE  \E todo \in Seq(Payload) : todo # <<>> /\ Accept(n, w, todo)
  <2>1. <<Created(t)>> \in Seq(Payload) /\ <<Created(t)>> # <<>>
    BY PayloadsTyped, SeqOfOne
  <2> QED BY <1>1, <2>1 DEF create_ticket
<1>2. ASSUME NEW t \in Ticket, NEW s \in StatusInput, update_ticket_state(n, w, t, s)
      PROVE  \E todo \in Seq(Payload) : todo # <<>> /\ Accept(n, w, todo)
  <2>1. StatusChanged(t, s) \in Payload
    BY PayloadsTyped, InputsAreTyped
  <2>2. <<StatusChanged(t, s)>> \in Seq(Payload) /\ <<StatusChanged(t, s)>> # <<>>
    BY <2>1, SeqOfOne
  <2> QED BY <1>2, <2>2 DEF update_ticket_state
<1>3. ASSUME NEW k \in EntryInput, NEW t \in Ticket, NEW i \in Item, add_entry(n, w, k, t, i)
      PROVE  \E todo \in Seq(Payload) : todo # <<>> /\ Accept(n, w, todo)
  <2>1. Entry(k, t, i) \in Payload
    BY PayloadsTyped, InputsAreTyped
  <2>2. <<Entry(k, t, i)>> \in Seq(Payload) /\ <<Entry(k, t, i)>> # <<>>
    BY <2>1, SeqOfOne
  <2> QED BY <1>3, <2>2 DEF add_entry
<1>4. ASSUME NEW t \in Ticket, import_canonical_ticket(n, w, t)
      PROVE  \E todo \in Seq(Payload) : todo # <<>> /\ Accept(n, w, todo)
  <2>1. PICK m \in Node : /\ state[m][t] # NoTicket
                          /\ ImportTodo(n, t, state[m][t]) # <<>>
                          /\ Accept(n, w, ImportTodo(n, t, state[m][t]))
    BY <1>4 DEF import_canonical_ticket
  <2>2. state[m][t] \in Aggregate
    BY DEF TicketStates
  <2>3. state[m][t].state \in TicketState
    BY <2>1, <2>2, AggregateFields
  <2> DEFINE s == state[m][t].state
  <2>4. Created(t) \in Payload /\ StatusChanged(t, s) \in Payload
    BY <2>3, PayloadsTyped
  <2>5. /\ <<Created(t)>> \in Seq(Payload) /\ <<StatusChanged(t, s)>> \in Seq(Payload)
        /\ <<Created(t), StatusChanged(t, s)>> \in Seq(Payload) /\ <<>> \in Seq(Payload)
    <3> HIDE DEF s
    <3> QED BY <2>4, SeqOfOne, SeqOfTwo
  <2>6. ImportTodo(n, t, state[m][t]) \in Seq(Payload)
    BY <2>5 DEF ImportTodo
  <2> QED BY <2>1, <2>6
<1> QED BY <1>1, <1>2, <1>3, <1>4

(* append_ticket_event up to the write-ahead: the new object is later than   *)
(* everything in the graph.                                                  *)
LEMMA AppendPutWork ==
  ASSUME WorkInv, GraphInv, GraphInv', NEW n \in Node, NEW w \in Worker, NEW e \in Id,
         AppendPut(n, w, e)
  PROVE  /\ WorkInv'
         /\ \A c \in born : payload'[c] = payload[c] /\ lamport'[c] = lamport[c]
<1>1. WorkerOK(n, w) /\ ObjectsOK
  BY DEF WorkInv
<1>2. op[n][w].pc = "append" /\ GraphLockFree(n) /\ SignAndPut(n, e)
  BY DEF AppendPut
<1> DEFINE p == Head(op[n][w].todo)
           todo == Tail(op[n][w].todo)
           o == [pc |-> "insert", written |-> e, todo |-> todo]
<1>3. p \in Payload /\ todo \in Seq(Payload)
  <2>1. op[n][w].todo \in Seq(Payload) /\ op[n][w].todo # <<>>
    BY <1>1, <1>2, OperationFields DEF WorkerOK
  <2> QED BY <2>1
<1>4. op' = [op EXCEPT ![n][w] = o] /\ up' = up /\ payload' = [payload EXCEPT ![e] = p]
  BY DEF AppendPut, Goto
<1> HIDE DEF p, todo
<1>5. o \in Operation /\ o.pc = "insert" /\ o.written = e
  BY <1>3 DEF Operation
<1> HIDE DEF o
<1>6. up[n]
  BY <1>1, <1>2, BusyIsUp
<1>7. e \notin born /\ born' = born \cup {e} /\ events' = events
  BY <1>2 DEF SignAndPut, graph
<1>8. PICK l \in NextLamport(n) : lamport' = [lamport EXCEPT ![e] = l]
  BY <1>2 DEF SignAndPut
<1>9. \A c \in born : payload'[c] = payload[c] /\ lamport'[c] = lamport[c]
  BY <1>4, <1>7, <1>8 DEF ObjectsOK, GraphInv, TypeOK
<1>10. ObjectsOK'
  <2>1. IsFiniteSet(born')
    BY <1>1, <1>7, FS_AddElement DEF ObjectsOK
  <2>2. payload' \in [Id -> Payload \cup {NoPayload}]
    BY <1>1, <1>3, <1>4 DEF ObjectsOK
  <2>3. \A c \in born' : payload'[c] \in Payload
    BY <1>1, <1>3, <1>4, <1>7, <1>9 DEF ObjectsOK
  <2> QED BY <2>1, <2>2, <2>3 DEF ObjectsOK
<1>11. ASSUME NEW c \in events'[n] PROVE Before(c, e)'
  <2>1. c \in born /\ c \in events[n]
    BY <1>7 DEF GraphInv, OnlySigned
  <2>2. lamport[c] < l
    BY <1>8, <2>1, GraphInvImplies DEF AppendIsLast
  <2>3. lamport'[c] = lamport[c] /\ lamport'[e] = l
    BY <1>8, <1>9, <2>1 DEF GraphInv, TypeOK
  <2> QED BY <2>2, <2>3 DEF Before
<1>12. WorkInv'
  BY <1>2, <1>4, <1>5, <1>6, <1>7, <1>9, <1>10, <1>11, WorkerMoves
<1> QED BY <1>9, <1>12

(* The rest of append_ticket_event.  The insertion succeeds, and the event   *)
(* is applied to the state.                                                  *)
LEMMA AppendInsertWork ==
  ASSUME WorkInv, GraphInv, NEW n \in Node, NEW w \in Worker, AppendInsert(n, w)
  PROVE  /\ WorkInv'
         /\ UNCHANGED <<born, lamport, payload, up, toload>> /\ up[n]
         /\ op[n][w].pc = "insert" /\ op'[n][w].pc \in {"append", "idle"}
         /\ op' = [op EXCEPT ![n][w] = op'[n][w]]
         /\ op[n][w].written \in born
         /\ \A c \in events[n] : Before(c, op[n][w].written)
         /\ events' = [events EXCEPT ![n] = @ \cup {op[n][w].written}]
         /\ SetState(n, apply_event(state[n], op[n][w].written))
<1> DEFINE o == op[n][w]
           e == o.written
           ok == (e \in events[n] \/ LamportRespected(n, e)) /\ Accepts(state[n][payload[e].ticket], payload[e])
           new == IF ok /\ o.todo # <<>> THEN [pc |-> "append", todo |-> o.todo] ELSE Idle
<1>1. WorkerOK(n, w) /\ ObjectsOK
  BY DEF WorkInv
<1>2. /\ o.pc = "insert" /\ Insert(n, e)
      /\ SetState(n, IF e \in events[n] \/ LamportRespected(n, e)
                     THEN apply_event(state[n], e) ELSE state[n])
      /\ op' = [op EXCEPT ![n][w] = new]
      /\ UNCHANGED <<payload, up, toload>>
  BY DEF AppendInsert, Goto
<1>3. e \in born /\ \A c \in events[n] : Before(c, e)
  BY <1>1, <1>2 DEF WorkerOK
<1>4. events' = [events EXCEPT ![n] = @ \cup {e}]
  BY <1>2, InsertSucceeds
<1>5. e \in events[n] \/ LamportRespected(n, e)
  BY <1>3, ChecksHold DEF NeverRejected
<1>6. UNCHANGED <<born, lamport>>
  BY <1>2 DEF Insert, objects
<1>7. up[n]
  BY <1>1, <1>2, BusyIsUp
<1>8. o.todo \in Seq(Payload)
  BY <1>1, <1>2, OperationFields DEF WorkerOK
<1>9. /\ new \in Operation /\ new.pc \in {"append", "idle"}
      /\ new.pc = "append" => new.todo # <<>>
  <2>1. CASE new = Idle
    BY <2>1 DEF Operation, Idle
  <2>2. CASE new = [pc |-> "append", todo |-> o.todo] /\ o.todo # <<>>
    <3> HIDE DEF new
    <3>1. new \in Operation /\ new.pc = "append" /\ new.todo = o.todo
      BY <1>8, <2>2 DEF Operation
    <3> QED BY <2>2, <3>1
  <2> QED BY <2>1, <2>2
<1>10. ObjectsOK'
  BY <1>1, <1>2, <1>6 DEF ObjectsOK
<1> HIDE DEF new
<1>11. op'[n][w] = new
  BY <1>2 DEF WorkInv
<1>12. \A m \in Node : m # n => events'[m] = events[m]
  BY <1>4 DEF GraphInv, TypeOK
<1>13. o.pc \in Holding /\ new.pc # "insert" /\ new.pc \notin Holding
  BY <1>2, <1>9 DEF Holding
<1>14. WorkInv'
  BY <1>2, <1>6, <1>7, <1>9, <1>10, <1>12, <1>13, WorkerMoves
<1> QED BY <1>2, <1>3, <1>4, <1>5, <1>6, <1>7, <1>9, <1>11, <1>14

(* The steps of apply_remote_objects under the graph lock.                   *)
LEMMA BatchWork ==
  ASSUME WorkInv, GraphInv, NEW n \in Node, NEW w \in Worker,
         \/ \E ids \in SUBSET born : BatchStart(n, w, ids)
         \/ \E e \in Id : BatchPut(n, w, e) \/ BatchInsert(n, w, e)
  PROVE  /\ WorkInv'
         /\ UNCHANGED <<born, lamport, payload, up, toload, state, shown>> /\ up[n]
         /\ op'[n][w].pc \in {"batch", "reduce"}
         /\ op' = [op EXCEPT ![n][w] = op'[n][w]]
         /\ \A m \in Node : events[m] \subseteq events'[m]
         /\ \A m \in Node : m # n => events'[m] = events[m]
<1>1. WorkerOK(n, w) /\ ObjectsOK
  BY DEF WorkInv
<1>2. born \subseteq Id
  BY DEF GraphInv, TypeOK
<1>3. PICK o \in Operation : /\ op' = [op EXCEPT ![n][w] = o]
                             /\ o.pc \in {"batch", "reduce"}
                             /\ op[n][w].pc = "batch" \/ GraphLockFree(n)
                             /\ op[n][w].pc = "batch" \/ events' = events
  <2>1. ASSUME NEW ids \in SUBSET born, BatchStart(n, w, ids)
        PROVE  \E o \in Operation : /\ op' = [op EXCEPT ![n][w] = o]
                                    /\ o.pc \in {"batch", "reduce"}
                                    /\ op[n][w].pc = "batch" \/ GraphLockFree(n)
                                    /\ op[n][w].pc = "batch" \/ events' = events
    <3> DEFINE o == [pc |-> "batch", todo |-> ids, written |-> {}, count |-> 0]
    <3>1. o \in Operation /\ o.pc = "batch"
      BY <1>2 DEF Operation
    <3>2. op' = [op EXCEPT ![n][w] = o] /\ GraphLockFree(n) /\ events' = events
      BY <2>1 DEF BatchStart, Goto, graphVars, graph
    <3> HIDE DEF o
    <3> QED BY <3>1, <3>2
  <2>2. ASSUME NEW e \in Id, BatchPut(n, w, e)
        PROVE  \E o \in Operation : /\ op' = [op EXCEPT ![n][w] = o]
                                    /\ o.pc \in {"batch", "reduce"}
                                    /\ op[n][w].pc = "batch" \/ GraphLockFree(n)
                                    /\ op[n][w].pc = "batch" \/ events' = events
    <3> DEFINE b == op[n][w]
               o == [b EXCEPT !.todo = @ \ {e}, !.written = {e}]
    <3>1. b.pc = "batch" /\ op' = [op EXCEPT ![n][w] = o]
      BY <2>2 DEF BatchPut, Goto
    <3>2. b \in [pc : {"batch"}, todo : SUBSET Id, written : SUBSET Id, count : Nat]
      BY <1>1, <3>1, OperationFields DEF WorkerOK
    <3>3. o \in [pc : {"batch"}, todo : SUBSET Id, written : SUBSET Id, count : Nat]
      <4> HIDE DEF b
      <4> QED BY <3>2
    <3> HIDE DEF o
    <3>4. o \in Operation /\ o.pc = "batch"
      BY <3>3 DEF Operation
    <3> QED BY <3>1, <3>4
  <2>3. ASSUME NEW e \in Id, BatchInsert(n, w, e)
        PROVE  \E o \in Operation : /\ op' = [op EXCEPT ![n][w] = o]
                                    /\ o.pc \in {"batch", "reduce"}
                                    /\ op[n][w].pc = "batch" \/ GraphLockFree(n)
                                    /\ op[n][w].pc = "batch" \/ events' = events
    <3> DEFINE b == op[n][w]
               count == IF e \in events[n] \/ LamportRespected(n, e) THEN b.count + 1 ELSE b.count
               o == IF b.todo # {} THEN [b EXCEPT !.written = {}, !.count = count]
                    ELSE IF count > 0 THEN [pc |-> "reduce"] ELSE Idle
    <3>1. b.pc = "batch" /\ op' = [op EXCEPT ![n][w] = o] /\ Insert(n, e)
      BY <2>3 DEF BatchInsert, Goto
    <3>2. b \in [pc : {"batch"}, todo : SUBSET Id, written : SUBSET Id, count : Nat]
      BY <1>1, <3>1, OperationFields DEF WorkerOK
    <3>3. e \in events[n] \/ LamportRespected(n, e)
      <4>1. e \in born
        BY <3>1 DEF Insert, GraphInv, OnlySigned
      <4> QED BY <4>1, ChecksHold DEF NeverRejected
    <3>4. count = b.count + 1 /\ count \in Nat /\ count > 0
      <4>1. b.count \in Nat
        BY <3>2
      <4>2. count = b.count + 1
        BY <3>3
      <4> HIDE DEF count, b
      <4> QED BY <4>1, <4>2
    <3>5. o \in Operation /\ o.pc \in {"batch", "reduce"}
      <4>1. CASE b.todo # {}
        <5>1. o = [b EXCEPT !.written = {}, !.count = count]
          BY <4>1
        <5> HIDE DEF b, count, o
        <5>2. o \in [pc : {"batch"}, todo : SUBSET Id, written : SUBSET Id, count : Nat]
          BY <3>2, <3>4, <5>1
        <5> QED BY <5>2 DEF Operation
      <4>2. CASE b.todo = {}
        <5>1. o = [pc |-> "reduce"]
          BY <3>4, <4>2
        <5> HIDE DEF o
        <5> QED BY <5>1 DEF Operation
      <4> QED BY <4>1, <4>2
    <3> HIDE DEF o
    <3> QED BY <3>1, <3>5
  <2> QED BY <2>1, <2>2, <2>3
<1>4. /\ UNCHANGED <<payload, up, toload, state, shown>> /\ UNCHANGED <<born, lamport>>
  BY DEF BatchStart, BatchPut, BatchInsert, UNCHANGED_State, graphVars, objects, Put, Insert
<1>5. /\ \A m \in Node : events[m] \subseteq events'[m]
      /\ \A m \in Node : m # n => events'[m] = events[m]
  <2>1. CASE events' = events
    BY <2>1
  <2>2. CASE \E e \in Id : events' = [events EXCEPT ![n] = @ \cup {e}]
    BY <2>2 DEF GraphInv, TypeOK
  <2> QED BY <2>1, <2>2, InsertSucceeds DEF BatchStart, BatchPut, BatchInsert, graphVars, graph, Put
<1>6. up[n]
  <2>1. up[n] \/ op[n][w].pc = "batch"
    BY DEF BatchStart, BatchPut, BatchInsert
  <2> QED BY <1>1, <2>1, BusyIsUp
<1>7. ObjectsOK'
  BY <1>1, <1>4 DEF ObjectsOK
<1>8. op'[n][w] = o
  BY <1>3 DEF WorkInv
<1>9. WorkInv'
  <2>1. o.pc # "append" /\ o.pc # "insert"
    BY <1>3
  <2>2. (op[n][w].pc = "batch" => op[n][w].pc \in Holding)
    BY DEF Holding
  <2> QED BY <1>3, <1>4, <1>5, <1>6, <1>7, <2>1, <2>2, WorkerMoves
<1> QED BY <1>3, <1>4, <1>5, <1>6, <1>8, <1>9

(* The reduction that ends apply_remote_objects.                             *)
LEMMA ReduceWork ==
  ASSUME WorkInv, GraphInv, NEW n \in Node, NEW w \in Worker, BatchReduce(n, w)
  PROVE  /\ WorkInv' /\ up[n]
         /\ UNCHANGED <<born, lamport, payload, up, toload, events>>
         /\ SetState(n, reduce(n))
<1>1. WorkerOK(n, w) /\ ObjectsOK
  BY DEF WorkInv
<1>2. /\ op[n][w].pc = "reduce" /\ SetState(n, reduce(n)) /\ op' = [op EXCEPT ![n][w] = Idle]
      /\ UNCHANGED <<born, lamport, payload, up, toload, events>>
  BY DEF BatchReduce, Goto, graphVars, objects, graph
<1>3. up[n]
  BY <1>1, <1>2, BusyIsUp
<1>4. Idle \in Operation /\ Idle.pc = "idle" /\ Idle.pc \notin Holding
  BY DEF Operation, Idle, Holding
<1>5. ObjectsOK'
  BY <1>1, <1>2 DEF ObjectsOK
<1>6. WorkInv'
  BY <1>2, <1>3, <1>4, <1>5, WorkerMoves
<1> QED BY <1>2, <1>3, <1>6

(* A crash, and the steps of open().                                         *)
LEMMA OpenWork ==
  ASSUME WorkInv, GraphInv, NEW n \in Node,
         EngineCrash(n) \/ OpenReduce(n) \/ \E e \in Id : OpenInsert(n, e),
         up \in [Node -> BOOLEAN]
  PROVE  WorkInv' /\ UNCHANGED <<born, lamport, payload>>
<1>1. \A m \in Node, v \in Worker : WorkerOK(m, v)
  BY DEF WorkInv
<1>2. UNCHANGED <<born, lamport, payload>>
  BY DEF EngineCrash, OpenReduce, OpenInsert, Crash, Insert, graphVars, objects
<1>3. ObjectsOK'
  BY <1>2 DEF WorkInv, ObjectsOK
<1>4. \A c, d : Before(c, d)' <=> Before(c, d)
  BY <1>2 DEF Before
<1>5. \A m \in Node : m # n => events'[m] = events[m] /\ up'[m] = up[m] /\ op'[m] = op[m]
  <2>1. CASE EngineCrash(n)
    BY <2>1 DEF EngineCrash, Crash, GraphInv, TypeOK, WorkInv
  <2>2. CASE OpenReduce(n)
    BY <2>2 DEF OpenReduce, graphVars, graph
  <2>3. CASE \E e \in Id : OpenInsert(n, e)
    BY <2>3, InsertSucceeds DEF OpenInsert, GraphInv, TypeOK
  <2> QED BY <2>1, <2>2, <2>3
<1>6. op'[n] = [v \in Worker |-> Idle] \/ (op'[n] = op[n] /\ ~up[n])
  BY DEF EngineCrash, OpenReduce, OpenInsert, WorkInv
<1>7. DOMAIN op' = Node
  BY DEF EngineCrash, OpenReduce, OpenInsert, WorkInv
<1>8. Idle \in Operation /\ Idle.pc = "idle"
  BY DEF Operation, Idle
<1>9. \A v \in Worker : op'[n][v] = Idle
  BY <1>1, <1>6 DEF WorkerOK
<1>10. \A v \in Worker : WorkerOK(n, v)'
  BY <1>8, <1>9 DEF WorkerOK, Holding
<1>11. ASSUME NEW m \in Node, m # n, NEW v \in Worker PROVE WorkerOK(m, v)'
  <2>1. WorkerOK(m, v) /\ op'[m] = op[m] /\ events'[m] = events[m] /\ up'[m] = up[m]
    BY <1>1, <1>5, <1>11
  <2>2. op[m][v] \in Operation'
    BY <2>1 DEF WorkerOK, Operation, Idle, Payload, EntryKind, TicketState
  <2> QED BY <1>2, <1>4, <2>1, <2>2 DEF WorkerOK
<1>12. \A m \in Node : DOMAIN op'[m] = Worker
  BY <1>5, <1>6 DEF WorkInv
<1> QED BY <1>2, <1>3, <1>7, <1>10, <1>11, <1>12 DEF WorkInv

-------------------------------------------------------------------------------
(* n shows the ticket states of x.                                           *)
Shows(n, x) == shown[n] = [t \in Ticket |-> x[t].state]

(* The state of a node that is up is the reduction of some of the events of  *)
(* its graph, of all of them unless a reduction is due; and what any node    *)
(* shows is the reduction of some of the events it has or will load.         *)
NodeReduced(n) ==
  /\ state[n] \in TicketStates
  /\ up[n] => /\ Shows(n, state[n])
              /\ \E A \in SUBSET events[n] :
                   ReducesTo(A, state[n]) /\ (~ReductionDue(n) => A = events[n])
  /\ \E A \in SUBSET (events[n] \cup toload[n]), x \in TicketStates :
       ReducesTo(A, x) /\ Shows(n, x)

(* Every node reduces what it has.                                           *)
ReductionInv ==
  /\ state \in [Node -> TicketStates] /\ DOMAIN shown = Node
  /\ \A n \in Node : NodeReduced(n)

(* The possible states are the same before and after a step.                 *)
LEMMA TicketStatesConstant == TicketStates' = TicketStates
BY DEF TicketStates, Aggregate, NoTicket, EntryKind, TicketState

(* What n shows of every ticket, before and after a step.                    *)
ShownFollows(n) ==
  \A t \in Ticket : /\ shown[n][t] \in TicketState \cup {"NONE"}
                    /\ shown'[n][t] \in TicketState \cup {"NONE"}
                    /\ Follows(shown[n][t], shown'[n][t]) \/ shown'[n][t] = shown[n][t]

(* The graph of a node is one that reduce can be applied to, and the sets of *)
(* events a node has or will load are known.                                 *)
LEMMA NodeGraph ==
  ASSUME GraphInv, AckedInv, WorkInv, NEW n \in Node
  PROVE  /\ GraphOf(n)
         /\ events[n] \cup toload[n] \subseteq store[n] /\ store[n] \subseteq born
         /\ \A A \in SUBSET (events[n] \cup toload[n]) : Known(A)
         /\ \A A \in SUBSET store[n] : Known(A)
<1>1. events[n] \cup toload[n] \subseteq store[n] /\ store[n] \subseteq born /\ born \subseteq Id
  BY DEF GraphInv, TypeOK, OnlySigned, AckedInv
<1>2. ASSUME NEW A \in SUBSET born PROVE Known(A)
  <2>1. IsFiniteSet(A)
    BY FS_Subset DEF WorkInv, ObjectsOK
  <2> QED BY <1>1, <2>1 DEF Known, WorkInv, ObjectsOK
<1>3. GraphOf(n)
  BY <1>1, <1>2 DEF GraphOf, Ordered, GraphInv, TypeOK, SignedLater
<1> QED BY <1>1, <1>2, <1>3

(* A step that leaves the state of m alone, and its graph unless a reduction *)
(* is due.                                                                   *)
LEMMA NodeStays ==
  ASSUME GraphInv, AckedInv, WorkInv, NEW m \in Node, NodeReduced(m),
         \A e \in born : lamport'[e] = lamport[e] /\ payload'[e] = payload[e],
         state'[m] = state[m], shown'[m] = shown[m], up'[m] = up[m],
         events[m] \subseteq events'[m],
         events[m] \cup toload[m] \subseteq events'[m] \cup toload'[m],
         up[m] /\ ~ReductionDue(m)' => ~ReductionDue(m) /\ events'[m] = events[m]
  PROVE  NodeReduced(m)' /\ ShownFollows(m)
<1>1. events[m] \cup toload[m] \subseteq born
  BY NodeGraph
<1>2. ASSUME NEW A \in SUBSET (events[m] \cup toload[m]), NEW x, ReducesTo(A, x)
      PROVE  ReducesTo(A, x)'
  BY <1>1, <1>2, ReductionStays
<1>3. ASSUME up'[m]
      PROVE  /\ Shows(m, state[m])'
             /\ (\E A \in SUBSET events[m] :
                   ReducesTo(A, state[m]) /\ (~ReductionDue(m) => A = events[m]))'
  <2>1. PICK A \in SUBSET events[m] :
          ReducesTo(A, state[m]) /\ (~ReductionDue(m) => A = events[m])
    BY <1>3 DEF NodeReduced
  <2>2. ReducesTo(A, state[m])'
    <3>1. PICK x : x = state[m]
      OBVIOUS
    <3>2. ReducesTo(A, x)'
      BY <1>2, <2>1, <3>1
    <3>3. x = state'[m]
      BY <3>1
    <3> QED BY <3>2, <3>3 DEF ReducesTo
  <2>3. A \in SUBSET events'[m] /\ (~ReductionDue(m)' => A = events'[m])
    BY <1>3, <2>1
  <2>4. Shows(m, state[m])'
    BY <1>3 DEF NodeReduced, Shows
  <2> QED BY <2>2, <2>3, <2>4
<1>4. PICK A \in SUBSET (events[m] \cup toload[m]), x \in TicketStates :
        ReducesTo(A, x) /\ Shows(m, x)
  BY DEF NodeReduced
<1>5. NodeReduced(m)'
  BY <1>2, <1>3, <1>4 DEF NodeReduced, Shows
<1>6. ShownFollows(m)
  <2> SUFFICES ASSUME NEW t \in Ticket
               PROVE  shown[m][t] \in TicketState \cup {"NONE"} /\ shown'[m][t] = shown[m][t]
    BY DEF ShownFollows
  <2>1. shown[m][t] = x[t].state /\ x[t] \in Aggregate
    BY <1>4 DEF Shows, TicketStates
  <2> QED BY <2>1, StateOfAggregate
<1> QED BY <1>5, <1>6

(* A node the step does not concern.                                         *)
LEMMA OtherNode ==
  ASSUME GraphInv, AckedInv, WorkInv, NEW m \in Node, NodeReduced(m),
         \A e \in born : lamport'[e] = lamport[e] /\ payload'[e] = payload[e],
         state'[m] = state[m], shown'[m] = shown[m], up'[m] = up[m],
         events'[m] = events[m], toload'[m] = toload[m], op'[m] = op[m]
  PROVE  NodeReduced(m)' /\ ShownFollows(m)
<1>1. ReductionDue(m)' <=> ReductionDue(m)
  BY DEF ReductionDue
<1> QED BY <1>1, NodeStays

(* The state of n becomes y, the reduction of more events than the one shown *)
(* so far was the reduction of.                                              *)
LEMMA NodeMoves ==
  ASSUME GraphInv, ReductionInv, NEW n \in Node, UNCHANGED <<lamport, payload>>,
         NEW A, NEW x, ReducesTo(A, x), Shows(n, x),
         NEW B, A \subseteq B, Known(B), NEW y, ReducesTo(B, y), SetState(n, y),
         B \subseteq events'[n], ~ReductionDue(n)' => B = events'[n]
  PROVE  NodeReduced(n)' /\ ShownFollows(n)
<1>1. Ordered
  BY DEF Ordered, GraphInv, TypeOK
<1>2. FollowsAll(x, y)
  BY <1>1, ReductionFollows
<1>3. Known(A)
  BY FS_Subset DEF Known
<1>4. x \in TicketStates /\ y \in TicketStates
  BY <1>1, <1>3, ReducesToType
<1>5. state'[n] = y /\ shown'[n] = [t \in Ticket |-> y[t].state]
  BY DEF SetState, ReductionInv
<1>6. ReducesTo(B, y)'
  BY ReductionStays
<1>7. Shows(n, y)'
  BY <1>5 DEF Shows
<1>8. /\ (\E C \in SUBSET events[n] :
            ReducesTo(C, state[n]) /\ (~ReductionDue(n) => C = events[n]))'
      /\ (\E C \in SUBSET (events[n] \cup toload[n]), z \in TicketStates :
            ReducesTo(C, z) /\ Shows(n, z))'
  <2>1. B \in SUBSET events'[n] /\ B \in SUBSET (events'[n] \cup toload'[n])
    OBVIOUS
  <2>2. ReducesTo(B, state[n])'
    BY <1>5, <1>6 DEF ReducesTo
  <2>3. TicketStates' = TicketStates
    BY DEF TicketStates, Aggregate, NoTicket, EntryKind, TicketState
  <2> QED BY <1>4, <1>6, <1>7, <2>1, <2>2, <2>3
<1>9. state'[n] \in TicketStates' /\ Shows(n, state[n])'
  BY <1>4, <1>5, <1>7 DEF Shows, TicketStates, Aggregate, NoTicket, EntryKind, TicketState
<1>10. NodeReduced(n)'
  BY <1>8, <1>9 DEF NodeReduced
<1>11. ShownFollows(n)
  <2> SUFFICES ASSUME NEW t \in Ticket
               PROVE  /\ shown[n][t] \in TicketState \cup {"NONE"}
                      /\ shown'[n][t] \in TicketState \cup {"NONE"}
                      /\ Follows(shown[n][t], shown'[n][t]) \/ shown'[n][t] = shown[n][t]
    BY DEF ShownFollows
  <2>1. shown[n][t] = x[t].state /\ shown'[n][t] = y[t].state
    BY <1>5 DEF Shows
  <2>2. x[t] \in Aggregate /\ y[t] \in Aggregate
    BY <1>4 DEF TicketStates
  <2> QED BY <1>2, <2>1, <2>2, StateOfAggregate DEF FollowsAll
<1> QED BY <1>10, <1>11

(* append_ticket_event applies the event it inserted to the state.           *)
LEMMA AppendInsertReduces ==
  ASSUME GraphInv, AckedInv, WorkInv, ReductionInv, NEW n \in Node, NEW w \in Worker,
         AppendInsert(n, w)
  PROVE  NodeReduced(n)' /\ ShownFollows(n)
<1> DEFINE e == op[n][w].written
<1>1. /\ UNCHANGED <<born, lamport, payload, up, toload>> /\ up[n]
      /\ op[n][w].pc = "insert" /\ op'[n][w].pc \in {"append", "idle"}
      /\ op' = [op EXCEPT ![n][w] = op'[n][w]]
      /\ e \in born /\ \A c \in events[n] : Before(c, e)
      /\ events' = [events EXCEPT ![n] = @ \cup {e}]
      /\ SetState(n, apply_event(state[n], e))
  BY AppendInsertWork
<1>2. PICK A \in SUBSET events[n] :
        ReducesTo(A, state[n]) /\ (~ReductionDue(n) => A = events[n])
  BY <1>1 DEF ReductionInv, NodeReduced
<1>3. Shows(n, state[n])
  BY <1>1 DEF ReductionInv, NodeReduced
<1>4. Known(A) /\ Ordered
  BY NodeGraph DEF GraphOf
<1>5. e \in Id /\ payload[e] \in Payload
  BY <1>1 DEF WorkInv, ObjectsOK, GraphInv, TypeOK
<1> HIDE DEF e
<1>6. ReducesTo(A \cup {e}, apply_event(state[n], e))
  <2>1. PICK x : x = state[n]
    OBVIOUS
  <2>2. ReducesTo(A \cup {e}, apply_event(x, e))
    BY <1>1, <1>2, <1>4, <1>5, <2>1, ReductionAppends
  <2> QED BY <2>1, <2>2
<1>7. Known(A \cup {e})
  BY <1>4, <1>5, FS_AddElement DEF Known
<1>8. events'[n] = events[n] \cup {e}
  BY <1>1 DEF GraphInv, TypeOK
<1>9. ~ReductionDue(n)' => ~ReductionDue(n)
  <2>1. \A v \in Worker : v # w => op'[n][v] = op[n][v]
    BY <1>1 DEF WorkInv
  <2> QED BY <1>1, <2>1 DEF ReductionDue
<1>10. A \cup {e} \subseteq events'[n] /\ (~ReductionDue(n)' => A \cup {e} = events'[n])
  BY <1>2, <1>8, <1>9
<1> DEFINE x == state[n]
           y == apply_event(state[n], e)
           B == A \cup {e}
<1>11. /\ ReducesTo(A, x) /\ Shows(n, x) /\ A \subseteq B /\ Known(B) /\ ReducesTo(B, y)
       /\ SetState(n, y) /\ B \subseteq events'[n] /\ (~ReductionDue(n)' => B = events'[n])
  BY <1>1, <1>2, <1>3, <1>6, <1>7, <1>10
<1> HIDE DEF x, y, B
<1> QED BY <1>1, <1>11, NodeMoves

(* The whole graph is reduced, after a batch or at the end of open().        *)
LEMMA ReduceReducesNode ==
  ASSUME GraphInv, AckedInv, WorkInv, ReductionInv, NEW n \in Node, SetState(n, reduce(n)),
         UNCHANGED <<lamport, payload, events>>, up[n] \/ toload[n] = {}
  PROVE  NodeReduced(n)' /\ ShownFollows(n)
<1> DEFINE y == reduce(n)
           B == events[n]
<1>1. ReducesTo(B, y) /\ Known(B) /\ SetState(n, y) /\ B = events'[n]
  BY NodeGraph, ReduceReduces
<1>2. toload[n] = {}
  BY DEF AckedInv
<1>3. PICK A \in SUBSET (events[n] \cup toload[n]), x \in TicketStates :
        ReducesTo(A, x) /\ Shows(n, x)
  BY DEF ReductionInv, NodeReduced
<1>4. A \subseteq B
  BY <1>2
<1> HIDE DEF y, B
<1> QED BY <1>1, <1>3, <1>4, NodeMoves

(* A crash loses the state; open() is to load what is on disk.               *)
LEMMA CrashReduces ==
  ASSUME GraphInv, AckedInv, WorkInv, ReductionInv, NEW n \in Node, EngineCrash(n)
  PROVE  NodeReduced(n)' /\ ShownFollows(n)
<1>1. /\ ~up'[n] /\ state'[n] = EmptyState /\ toload'[n] = store[n]
      /\ shown' = shown /\ UNCHANGED <<lamport, payload>>
  BY DEF EngineCrash, Crash, AckedInv, ReductionInv, objects
<1>2. PICK A \in SUBSET (events[n] \cup toload[n]), x \in TicketStates :
        ReducesTo(A, x) /\ Shows(n, x)
  BY DEF ReductionInv, NodeReduced
<1>3. A \subseteq toload'[n]
  BY <1>1, NodeGraph
<1>4. ReducesTo(A, x)' /\ Shows(n, x)'
  BY <1>1, <1>2, ReductionStays DEF Shows
<1>5. EmptyState' = EmptyState /\ TicketStates' = TicketStates
  BY DEF EmptyState, TicketStates, Aggregate, NoTicket, EntryKind, TicketState
<1>6. NodeReduced(n)'
  BY <1>1, <1>2, <1>3, <1>4, <1>5, EmptyType DEF NodeReduced
<1>7. ShownFollows(n)
  <2> SUFFICES ASSUME NEW t \in Ticket
               PROVE  shown[n][t] \in TicketState \cup {"NONE"} /\ shown'[n][t] = shown[n][t]
    BY DEF ShownFollows
  <2>1. shown[n][t] = x[t].state /\ x[t] \in Aggregate
    BY <1>2 DEF Shows, TicketStates
  <2> QED BY <1>1, <2>1, StateOfAggregate
<1> QED BY <1>6, <1>7

(* The inductive invariant of the engine.                                    *)
EngineInv == GraphInv /\ AckedInv /\ WorkInv /\ ReductionInv

(* It holds of nodes that have nothing.                                      *)
LEMMA EngineInitInv == EngineInit => EngineInv
<1> SUFFICES ASSUME EngineInit PROVE EngineInv
  OBVIOUS
<1>1. GraphInv
  BY GraphInitInv DEF EngineInit
<1>2. AckedInv
  BY DEF EngineInit, GraphInit, AckedInv
<1>3. WorkInv
  <2>1. born = {} /\ payload = [e \in Id |-> NoPayload]
    BY DEF EngineInit, GraphInit
  <2>2. ObjectsOK
    BY <2>1, FS_EmptySet DEF ObjectsOK
  <2>3. op = [n \in Node |-> [w \in Worker |-> Idle]]
    BY DEF EngineInit
  <2>4. Idle \in Operation /\ Idle.pc = "idle"
    BY DEF Idle, Operation
  <2>5. \A n \in Node, w \in Worker : WorkerOK(n, w)
    BY <2>3, <2>4 DEF WorkerOK, Holding
  <2> QED BY <2>2, <2>3, <2>5 DEF WorkInv
<1>4. ASSUME NEW n \in Node PROVE NodeReduced(n)
  <2>1. state[n] = EmptyState /\ shown[n] = [t \in Ticket |-> "NONE"] /\ events[n] = {}
    BY DEF EngineInit, GraphInit
  <2>2. ReducesTo({}, EmptyState)
    <3> DEFINE h == [e \in {} |-> EmptyState]
    <3>1. Trace({}, h) /\ EndsIn({}, h, EmptyState)
      BY DEF Trace, EndsIn
    <3> HIDE DEF h
    <3> QED BY <3>1 DEF ReducesTo
  <2>3. Shows(n, EmptyState)
    BY <2>1 DEF Shows, EmptyState, NoTicket
  <2> QED BY <2>1, <2>2, <2>3, EmptyType DEF NodeReduced
<1>5. ReductionInv
  <2>1. state \in [Node -> TicketStates] /\ DOMAIN shown = Node
    BY EmptyType DEF EngineInit
  <2> QED BY <1>4, <2>1 DEF ReductionInv
<1> QED BY <1>1, <1>2, <1>3, <1>5 DEF EngineInv

(* Nothing is reduced in a step that leaves the states alone.                *)
LEMMA StatesStay ==
  ASSUME EngineInv, UNCHANGED <<state, shown>>,
         \A e \in born : lamport'[e] = lamport[e] /\ payload'[e] = payload[e],
         up' = up, UNCHANGED <<events, toload>>,
         \A n \in Node : ReductionDue(n) => ReductionDue(n)'
  PROVE  ReductionInv' /\ \A n \in Node : ShownFollows(n)
<1>1. ASSUME NEW n \in Node PROVE NodeReduced(n)' /\ ShownFollows(n)
  <2>1. NodeReduced(n)
    BY DEF EngineInv, ReductionInv
  <2> QED BY <2>1, NodeStays DEF EngineInv
<1> QED BY <1>1, TicketStatesConstant DEF ReductionInv, EngineInv

(* The steps of a worker, action by action.                                  *)
LEMMA WorkerReduces ==
  ASSUME EngineInv, GraphInv', NEW n \in Node, NEW w \in Worker, WorkerStep(n, w)
  PROVE  WorkInv' /\ ReductionInv' /\ \A m \in Node : ShownFollows(m)
<1>0. GraphInv /\ AckedInv /\ WorkInv /\ ReductionInv
  BY DEF EngineInv
<1>a. \A m \in Node : NodeReduced(m)
  BY <1>0 DEF ReductionInv
<1>1. ASSUME \/ \E t \in Ticket : create_ticket(n, w, t)
             \/ \E t \in Ticket, s \in StatusInput : update_ticket_state(n, w, t, s)
             \/ \E k \in EntryInput, t \in Ticket, i \in Item : add_entry(n, w, k, t, i)
             \/ \E t \in Ticket : import_canonical_ticket(n, w, t)
      PROVE  WorkInv' /\ ReductionInv' /\ \A m \in Node : ShownFollows(m)
  <2>1. state \in [Node -> TicketStates]
    BY <1>0 DEF ReductionInv
  <2>2. PICK todo \in Seq(Payload) : todo # <<>> /\ Accept(n, w, todo)
    BY <1>0, <1>1, <2>1, RequestWork
  <2>3. WorkInv'
    BY <1>0, <2>2, AcceptWork
  <2>4. /\ op[n][w] = Idle /\ op' = [op EXCEPT ![n][w] = [pc |-> "append", todo |-> todo]]
        /\ UNCHANGED <<lamport, payload, state, shown, up, events, toload>>
    BY <2>2 DEF Accept, UNCHANGED_State, graphVars, objects, graph
  <2>5. \A m \in Node : ReductionDue(m) => ReductionDue(m)'
    BY <1>0, <2>4 DEF ReductionDue, WorkInv, Idle
  <2> QED BY <2>3, <2>4, <2>5, StatesStay
<1>2. ASSUME NEW e \in Id, AppendPut(n, w, e)
      PROVE  WorkInv' /\ ReductionInv' /\ \A m \in Node : ShownFollows(m)
  <2>1. WorkInv' /\ \A c \in born : payload'[c] = payload[c] /\ lamport'[c] = lamport[c]
    BY <1>0, <1>2, AppendPutWork
  <2>2. /\ op[n][w].pc = "append" /\ \E o : op' = [op EXCEPT ![n][w] = o]
        /\ UNCHANGED <<state, shown, up, events, toload>>
    BY <1>2 DEF AppendPut, Goto, UNCHANGED_State, SignAndPut, graph
  <2>3. \A m \in Node : ReductionDue(m) => ReductionDue(m)'
    BY <1>0, <2>2 DEF ReductionDue, WorkInv
  <2> QED BY <2>1, <2>2, <2>3, StatesStay
<1>3. ASSUME AppendInsert(n, w)
      PROVE  WorkInv' /\ ReductionInv' /\ \A m \in Node : ShownFollows(m)
  <2>1. /\ WorkInv' /\ UNCHANGED <<born, lamport, payload, up, toload>>
        /\ op' = [op EXCEPT ![n][w] = op'[n][w]]
        /\ events' = [events EXCEPT ![n] = @ \cup {op[n][w].written}]
        /\ SetState(n, apply_event(state[n], op[n][w].written))
    BY <1>0, <1>3, AppendInsertWork
  <2>2. NodeReduced(n)' /\ ShownFollows(n)
    BY <1>0, <1>3, AppendInsertReduces
  <2>3. ASSUME NEW m \in Node, m # n PROVE NodeReduced(m)' /\ ShownFollows(m)
    <3>1. state'[m] = state[m] /\ shown'[m] = shown[m]
      BY <1>0, <2>1, <2>3 DEF SetState, ReductionInv
    <3>2. events'[m] = events[m]
      BY <1>0, <2>1, <2>3 DEF GraphInv, TypeOK
    <3>3. op'[m] = op[m]
      BY <1>0, <2>1, <2>3 DEF WorkInv
    <3> QED BY <1>0, <1>a, <2>1, <3>1, <3>2, <3>3, OtherNode
  <2>4. state' \in [Node -> TicketStates] /\ DOMAIN shown' = Node
    <3>1. state'[n] \in TicketStates'
      BY <2>2 DEF NodeReduced
    <3> QED BY <1>0, <2>1, <3>1, TicketStatesConstant DEF SetState, ReductionInv
  <2> QED BY <2>1, <2>2, <2>3, <2>4, TicketStatesConstant DEF ReductionInv
<1>4. ASSUME \/ \E ids \in SUBSET born : BatchStart(n, w, ids)
             \/ \E e \in Id : BatchPut(n, w, e) \/ BatchInsert(n, w, e)
      PROVE  WorkInv' /\ ReductionInv' /\ \A m \in Node : ShownFollows(m)
  <2>1. /\ WorkInv'
        /\ UNCHANGED <<born, lamport, payload, up, toload, state, shown>>
        /\ op'[n][w].pc \in {"batch", "reduce"}
        /\ op' = [op EXCEPT ![n][w] = op'[n][w]]
        /\ \A m \in Node : events[m] \subseteq events'[m]
        /\ \A m \in Node : m # n => events'[m] = events[m]
    BY <1>0, <1>4, BatchWork
  <2>2. ReductionDue(n)'
    BY <2>1 DEF ReductionDue
  <2>3. NodeReduced(n)' /\ ShownFollows(n)
    BY <1>0, <1>a, <2>1, <2>2, NodeStays
  <2>4. ASSUME NEW m \in Node, m # n PROVE NodeReduced(m)' /\ ShownFollows(m)
    <3>1. op'[m] = op[m]
      BY <1>0, <2>1, <2>4 DEF WorkInv
    <3> QED BY <1>0, <1>a, <2>1, <2>4, <3>1, OtherNode
  <2> QED BY <1>0, <2>1, <2>3, <2>4, TicketStatesConstant DEF ReductionInv
<1>5. ASSUME BatchReduce(n, w)
      PROVE  WorkInv' /\ ReductionInv' /\ \A m \in Node : ShownFollows(m)
  <2>1. /\ WorkInv' /\ up[n] /\ UNCHANGED <<born, lamport, payload, up, toload, events>>
        /\ SetState(n, reduce(n))
    BY <1>0, <1>5, ReduceWork
  <2>2. NodeReduced(n)' /\ ShownFollows(n)
    BY <1>0, <2>1, ReduceReducesNode
  <2>3. ASSUME NEW m \in Node, m # n PROVE NodeReduced(m)' /\ ShownFollows(m)
    <3>1. state'[m] = state[m] /\ shown'[m] = shown[m]
      BY <1>0, <2>1, <2>3 DEF SetState, ReductionInv
    <3>2. op'[m] = op[m]
      BY <1>0, <1>5, <2>3 DEF BatchReduce, Goto, WorkInv
    <3> QED BY <1>0, <1>a, <2>1, <3>1, <3>2, OtherNode
  <2>4. state' \in [Node -> TicketStates] /\ DOMAIN shown' = Node
    <3>1. state'[n] \in TicketStates'
      BY <2>2 DEF NodeReduced
    <3> QED BY <1>0, <2>1, <3>1, TicketStatesConstant DEF SetState, ReductionInv
  <2> QED BY <2>1, <2>2, <2>3, <2>4, TicketStatesConstant DEF ReductionInv
<1> QED BY <1>1, <1>2, <1>3, <1>4, <1>5 DEF WorkerStep

(* Every step keeps the invariant, and what a node shows of a ticket follows *)
(* what it showed before.                                                    *)
LEMMA EngineStepReduces ==
  ASSUME EngineInv, [EngineNext]_engineVars
  PROVE  EngineInv' /\ \A m \in Node : ShownFollows(m)
<1>0. GraphInv /\ AckedInv /\ WorkInv /\ ReductionInv
  BY DEF EngineInv
<1>1. GraphInv' /\ AckedInv'
  BY <1>0, EngineStepIsGraphStep, GraphStepInv, AckedStep
<1>2. ASSUME UNCHANGED engineVars
      PROVE  WorkInv' /\ ReductionInv' /\ \A m \in Node : ShownFollows(m)
  <2>1. /\ UNCHANGED <<born, lamport, events, payload, state, shown, up, toload, op>>
    BY <1>2 DEF engineVars, graphVars, objects, graph
  <2>2. WorkInv'
    <3>1. ObjectsOK'
      BY <1>0, <2>1 DEF WorkInv, ObjectsOK
    <3>2. ASSUME NEW n \in Node, NEW w \in Worker PROVE WorkerOK(n, w)'
      <4>1. WorkerOK(n, w)
        BY <1>0 DEF WorkInv
      <4>2. \A c, d : Before(c, d)' <=> Before(c, d)
        BY <2>1 DEF Before
      <4>3. op[n][w] \in Operation'
        BY <4>1 DEF WorkerOK, Operation, Idle, Payload, EntryKind, TicketState
      <4> QED BY <2>1, <4>1, <4>2, <4>3 DEF WorkerOK
    <3> QED BY <1>0, <2>1, <3>1, <3>2 DEF WorkInv
  <2>3. \A n \in Node : ReductionDue(n) => ReductionDue(n)'
    BY <2>1 DEF ReductionDue
  <2> QED BY <2>1, <2>2, <2>3, StatesStay
<1>3. ASSUME NEW n \in Node, EngineCrash(n) \/ OpenReduce(n) \/ \E e \in Id : OpenInsert(n, e)
      PROVE  WorkInv' /\ ReductionInv' /\ \A m \in Node : ShownFollows(m)
  <2>1. WorkInv' /\ UNCHANGED <<born, lamport, payload>>
    BY <1>0, <1>3, OpenWork DEF AckedInv
  <2>2. NodeReduced(n)' /\ ShownFollows(n) /\ state'[n] \in TicketStates
    <3>1. NodeReduced(n)' /\ ShownFollows(n)
      <4>1. CASE EngineCrash(n)
        BY <1>0, <4>1, CrashReduces
      <4>2. CASE OpenReduce(n)
        <5>1. SetState(n, reduce(n)) /\ toload[n] = {} /\ events' = events
          BY <4>2 DEF OpenReduce, graphVars, graph
        <5> QED BY <1>0, <2>1, <5>1, ReduceReducesNode
      <4>3. ASSUME NEW e \in Id, OpenInsert(n, e) PROVE NodeReduced(n)' /\ ShownFollows(n)
        <5>1. /\ ~up[n] /\ up' = up /\ state' = state /\ shown' = shown /\ Insert(n, e)
              /\ toload' = [toload EXCEPT ![n] = @ \ {e}]
          BY <4>3 DEF OpenInsert, UNCHANGED_State
        <5>2. events'[n] = events[n] \cup {e} /\ toload'[n] = toload[n] \ {e}
          <6>1. events' = [events EXCEPT ![n] = @ \cup {e}]
            BY <1>0, <5>1, InsertSucceeds
          <6>2. n \in DOMAIN events /\ n \in DOMAIN toload
            BY <1>0 DEF GraphInv, TypeOK, AckedInv
          <6> QED BY <5>1, <6>1, <6>2
        <5>3. NodeReduced(n)
          BY <1>0 DEF ReductionInv
        <5>4. /\ events[n] \subseteq events'[n]
              /\ events[n] \cup toload[n] \subseteq events'[n] \cup toload'[n]
          BY <5>2
        <5> QED BY <1>0, <2>1, <5>1, <5>3, <5>4, NodeStays
      <4> QED BY <1>3, <4>1, <4>2, <4>3
    <3> QED BY <3>1, TicketStatesConstant DEF NodeReduced
  <2>3. ASSUME NEW m \in Node, m # n
        PROVE  /\ state'[m] = state[m] /\ shown'[m] = shown[m] /\ up'[m] = up[m]
               /\ events'[m] = events[m] /\ toload'[m] = toload[m] /\ op'[m] = op[m]
    <3>1. CASE EngineCrash(n)
      BY <1>0, <2>3, <3>1 DEF EngineCrash, Crash, GraphInv, TypeOK, WorkInv, AckedInv, ReductionInv
    <3>2. CASE OpenReduce(n)
      BY <1>0, <2>3, <3>2 DEF OpenReduce, SetState, graphVars, graph, AckedInv, ReductionInv
    <3>3. ASSUME NEW e \in Id, OpenInsert(n, e)
          PROVE  /\ state'[m] = state[m] /\ shown'[m] = shown[m] /\ up'[m] = up[m]
                 /\ events'[m] = events[m] /\ toload'[m] = toload[m] /\ op'[m] = op[m]
      <4>1. /\ UNCHANGED <<state, shown, up, op>> /\ Insert(n, e)
            /\ toload' = [toload EXCEPT ![n] = @ \ {e}]
        BY <3>3 DEF OpenInsert, UNCHANGED_State
      <4>2. events' = [events EXCEPT ![n] = @ \cup {e}]
        BY <1>0, <4>1, InsertSucceeds
      <4> QED BY <1>0, <2>3, <4>1, <4>2 DEF GraphInv, TypeOK, AckedInv
    <3> QED BY <1>3, <3>1, <3>2, <3>3
  <2>4. ASSUME NEW m \in Node, m # n PROVE NodeReduced(m)' /\ ShownFollows(m)
    <3>1. NodeReduced(m)
      BY <1>0 DEF ReductionInv
    <3> QED BY <1>0, <2>1, <2>3, <2>4, <3>1, OtherNode
  <2>5. state' \in [Node -> TicketStates] /\ DOMAIN shown' = Node
    <3>1. \E s : state' = [state EXCEPT ![n] = s] \/ state' = state
      BY <1>3 DEF EngineCrash, OpenReduce, OpenInsert, SetState, UNCHANGED_State
    <3>2. DOMAIN shown' = Node
      BY <1>0, <1>3 DEF EngineCrash, OpenReduce, OpenInsert, SetState, UNCHANGED_State, ReductionInv
    <3> QED BY <1>0, <2>2, <3>1, <3>2 DEF ReductionInv
  <2> QED BY <2>1, <2>2, <2>4, <2>5, TicketStatesConstant DEF ReductionInv
<1>4. ASSUME NEW n \in Node, NEW w \in Worker, WorkerStep(n, w)
      PROVE  WorkInv' /\ ReductionInv' /\ \A m \in Node : ShownFollows(m)
  BY <1>1, <1>4, WorkerReduces
<1>5. WorkInv' /\ ReductionInv' /\ \A m \in Node : ShownFollows(m)
  BY <1>2, <1>3, <1>4 DEF EngineNext
<1> QED BY <1>1, <1>5 DEF EngineInv

(* The inductive invariant holds of every behaviour of the engine.           *)
THEOREM EngineInvariant == EngineSpec => []EngineInv
<1>1. EngineInv /\ [EngineNext]_engineVars => EngineInv'
  BY EngineStepReduces
<1> QED BY <1>1, EngineInitInv, PTL DEF EngineSpec

(* Whenever no reduction is due, the state a node serves from is what a full *)
(* reduction of its graph gives.                                             *)
THEOREM StateAlwaysReduction == EngineSpec => []StateIsReduction
<1>1. ASSUME EngineInv, NEW n \in Node, up[n], ~ReductionDue(n) PROVE state[n] = reduce(n)
  <2>1. GraphOf(n) /\ Known(events[n])
    BY <1>1, NodeGraph DEF EngineInv
  <2>2. ReducesTo(events[n], state[n])
    BY <1>1 DEF EngineInv, ReductionInv, NodeReduced
  <2>3. ReducesTo(events[n], reduce(n))
    BY <2>1, ReduceReduces
  <2> DEFINE x == state[n]
             y == reduce(n)
             S == events[n]
  <2>4. Known(S) /\ ReducesTo(S, x) /\ ReducesTo(S, y) /\ Ordered
    BY <2>1, <2>2, <2>3 DEF GraphOf
  <2> HIDE DEF x, y, S
  <2>5. x = y
    BY <2>4, ReductionUnique
  <2> QED BY <2>5 DEF x, y
<1>2. EngineInv => StateIsReduction
  BY <1>1 DEF StateIsReduction
<1> QED BY <1>2, EngineInvariant, PTL

(* Two nodes that serve from the same events serve the same state, however   *)
(* the events reached them, in whatever batches and order, and whatever each *)
(* of them applied one by one, reduced again or loaded after a crash.        *)
Converged ==
  \A m, n \in Node :
    up[m] /\ up[n] /\ ~ReductionDue(m) /\ ~ReductionDue(n) /\ events[m] = events[n]
      => state[m] = state[n]

(* The state of a node is a function of the set of its events alone: not of  *)
(* its topological order, its load order or its history of merges.           *)
THEOREM AlwaysConverged == EngineSpec => []Converged
<1>1. ASSUME EngineInv, NEW m \in Node, NEW n \in Node, up[m], up[n],
             ~ReductionDue(m), ~ReductionDue(n), events[m] = events[n]
      PROVE  state[m] = state[n]
  <2>1. PICK S, x, y : S = events[n] /\ x = state[m] /\ y = state[n]
    OBVIOUS
  <2>2. ReducesTo(S, x) /\ ReducesTo(S, y)
    BY <1>1, <2>1 DEF EngineInv, ReductionInv, NodeReduced
  <2>3. Ordered /\ Known(S)
    BY <1>1, <2>1, NodeGraph DEF EngineInv, GraphOf
  <2>4. x = y
    BY <2>2, <2>3, ReductionUnique
  <2> QED BY <2>1, <2>4
<1>2. EngineInv => Converged
  BY <1>1 DEF Converged
<1> QED BY <1>2, EngineInvariant, PTL

(* The steps of an engine, as steps of the abstract lifecycle.               *)
LEMMA EngineStepIsLifecycleStep ==
  ASSUME EngineInv, [EngineNext]_engineVars
  PROVE  Lifecycle!LifecycleNext
<1> DEFINE status == [v \in Node \X Ticket |-> shown[v[1]][v[2]]]
<1> SUFFICES ASSUME NEW v \in Node \X Ticket
             PROVE  \/ Lifecycle!Appear(v) \/ Lifecycle!Progress(v) \/ Lifecycle!Close(v)
                    \/ status'[v] = status[v]
  BY DEF Lifecycle!LifecycleNext
<1>1. PICK n \in Node, t \in Ticket : v[1] = n /\ v[2] = t
  OBVIOUS
<1> DEFINE a == shown[n][t]
           b == shown'[n][t]
<1>2. status[v] = a /\ status'[v] = b
  BY <1>1
<1>3. /\ a \in TicketState \cup {"NONE"} /\ b \in TicketState \cup {"NONE"}
      /\ Follows(a, b) \/ a = b
  BY EngineStepReduces DEF ShownFollows
<1>4. \/ a = "NONE" /\ b \in {"OPEN", "IN_PROGRESS", "RESOLVED", "CLOSED"}
      \/ a \in {"OPEN", "IN_PROGRESS", "RESOLVED"} /\ b \in {"IN_PROGRESS", "RESOLVED", "CLOSED"}
      \/ a = b
  <2> HIDE DEF a, b
  <2> QED BY <1>3 DEF Follows, TicketState
<1> HIDE DEF a, b
<1> QED BY <1>2, <1>4
        DEF Lifecycle!Appear, Lifecycle!Progress, Lifecycle!Close, Lifecycle!Working

(* What every node shows of every ticket follows the abstract lifecycle.     *)
THEOREM EngineImplementsLifecycle == EngineSpec => LifecycleRefined
<1>1. EngineInit => Lifecycle!LifecycleInit
  BY DEF EngineInit, Lifecycle!LifecycleInit
<1>2. EngineInv /\ [EngineNext]_engineVars => Lifecycle!LifecycleNext
  BY EngineStepIsLifecycleStep
<1> QED BY <1>1, <1>2, EngineInvariant, PTL
        DEF EngineSpec, LifecycleRefined, Lifecycle!LifecycleSpec
===============================================================================
