----------------------------- MODULE TicketEngine -----------------------------
(***************************************************************************)
(* TicketEngine (engine.rs): the threads of a node that share one event    *)
(* graph and one reduced state, each behind its own RwLock.                *)
(*                                                                         *)
(* A worker is one caller: an IPC request, the network event loop or a     *)
(* file task.  What it does between two lock acquisitions is one step:     *)
(*   update_ticket_state / import_canonical_ticket read the state (check), *)
(*     then append without having kept any lock;                           *)
(*   append_ticket_event holds the graph lock while it writes the object   *)
(*     to disk ("insert" comes next), inserts it and applies it;           *)
(*   apply_remote_objects holds the graph lock for the whole batch,        *)
(*     releases it, and takes a read lock to reduce the graph again.       *)
(* A crash loses the graph, the state and the workers; open() loads the    *)
(* objects in directory order and reduces.                                 *)
(***************************************************************************)
EXTENDS TicketReducer

CONSTANTS Worker,      \* the concurrent callers of a node
          StatusInput, \* the ticket states the callers ask for
          EntryInput,  \* the kinds of entry the callers add
          MaxBatch,    \* bound: objects in one batch
          MaxCrashes   \* bound: crashes of all nodes together

ASSUME InputsAreTyped ==
  /\ StatusInput \subseteq TicketState
  /\ EntryInput \subseteq EntryKind \cup {"SHELL_ENDED"}

VARIABLES state,    \* state[n]: TicketStateStore of node n
          up,       \* up[n]: open() has returned
          toload,   \* toload[n]: objects open() has still to insert
          op,       \* op[n][w]: what worker w of node n is doing
          shown,    \* shown[n][t]: last state a reader of n could see of t
          acked,    \* acked[n]: events whose append returned Ok on n
          crashes   \* crashes so far

engineVars == <<graphVars, payload, state, up, toload, op, shown, acked, crashes>>

Idle == [pc |-> "idle"]

(* In op, todo is what remains to be appended, or the ids of the batch that  *)
(* remain to be ingested; written is the id the worker has put on disk and   *)
(* not yet inserted; count is what apply_remote_objects counts.              *)
EngineInit ==
  /\ GraphInit
  /\ payload = [e \in Id |-> NoPayload]
  /\ state = [n \in Node |-> EmptyState]
  /\ up = [n \in Node |-> TRUE]
  /\ toload = [n \in Node |-> {}]
  /\ op = [n \in Node |-> [w \in Worker |-> Idle]]
  /\ shown = [n \in Node |-> [t \in Ticket |-> "NONE"]]
  /\ acked = [n \in Node |-> {}]
  /\ crashes = 0

(* Mutated form: the graph lock is not taken.                              *)
GraphLockFreeAlways(n) == n \in Node

(* Nobody of node n holds the graph lock for writing.                      *)
GraphLockFree(n) == \A w \in Worker : op[n][w].pc \notin {"insert", "batch"}

Goto(n, w, o) == op' = [op EXCEPT ![n][w] = o]

(* The state of node n becomes s, and readers see it.                      *)
SetState(n, s) ==
  /\ state' = [state EXCEPT ![n] = s]
  /\ shown' = [shown EXCEPT ![n] = [t \in Ticket |-> s[t].state]]

UNCHANGED_State == UNCHANGED <<state, shown>>

(* A worker without a request takes one.  Bound: only while there are ids  *)
(* left to sign what the requests under way may still append.              *)
Accept(n, w, todo) ==
  /\ up[n] /\ op[n][w] = Idle
  /\ Cardinality({x \in Node \X Worker : op[x[1]][x[2]].pc = "append"}) + Len(todo)
       <= Cardinality(Id \ born)
  /\ op' = [op EXCEPT ![n][w] = [pc |-> "append", todo |-> todo]]
  /\ UNCHANGED <<graphVars, payload, up, toload, acked, crashes>> /\ UNCHANGED_State

-------------------------------------------------------------------------------
Created(t) == [kind |-> "CREATED", ticket |-> t]
StatusChanged(t, s) == [kind |-> "STATUS", ticket |-> t, new_state |-> s]
Entry(k, t, i) == [kind |-> k, ticket |-> t, item |-> i]

(* create_ticket: a fresh uuid, appended without a check.                  *)
create_ticket(n, w, t) ==
  /\ \A e \in born : payload[e] # Created(t)
  /\ \A m \in Node, v \in Worker : op[m][v].pc = "append" => op[m][v].todo[1] # Created(t)
  /\ Accept(n, w, <<Created(t)>>)

(* update_ticket_state: the transition is checked on the state as it is    *)
(* now; the append comes later.  A refused request changes nothing.        *)
update_ticket_state(n, w, t, s) ==
  /\ state[n][t] # NoTicket /\ can_transition_to(state[n][t].state, s)
  /\ Accept(n, w, <<StatusChanged(t, s)>>)

(* add_chat_message, add_attachment, record_event, start_shell_session and *)
(* end_shell_session: appended without a check, be there such a ticket or  *)
(* not.                                                                    *)
add_entry(n, w, k, t, i) == Accept(n, w, <<Entry(k, t, i)>>)

(* import_canonical_ticket of the record r node n received.                *)
ImportTodo(n, t, r) ==
  LET curr == state[n][t]
  IN  IF curr = NoTicket
      THEN IF r.state = "OPEN" THEN <<Created(t)>>
                               ELSE <<Created(t), StatusChanged(t, r.state)>>
      ELSE IF r.revision > curr.revision /\ r.state # curr.state
           THEN <<StatusChanged(t, r.state)>> ELSE <<>>

import_canonical_ticket(n, w, t) ==
  \E m \in Node \ {n} :
    /\ state[m][t] # NoTicket
    /\ ImportTodo(n, t, state[m][t]) # <<>>
    /\ Accept(n, w, ImportTodo(n, t, state[m][t]))

-------------------------------------------------------------------------------
(* append_ticket_event up to the write-ahead of the object: lock the       *)
(* graph, take the heads as parents, sign, put.                            *)
AppendPut(n, w, e) ==
  /\ op[n][w].pc = "append" /\ GraphLockFree(n)
  /\ SignAndPut(n, e)
  /\ payload' = [payload EXCEPT ![e] = Head(op[n][w].todo)]
  /\ Goto(n, w, [pc |-> "insert", written |-> e, todo |-> Tail(op[n][w].todo)])
  /\ UNCHANGED <<up, toload, acked, crashes>> /\ UNCHANGED_State

(* The rest of append_ticket_event: insert, apply to the state, return.    *)
(* An event apply_event refuses is an error for the caller (which makes    *)
(* import_canonical_ticket stop) but stays in the graph and on disk.       *)
AppendInsert(n, w) ==
  LET o == op[n][w]
      p == payload[o.written]
      inserted == o.written \in events[n] \/ LamportRespected(n, o.written)
      ok == inserted /\ Accepts(state[n][p.ticket], p)
  IN  /\ o.pc = "insert"
      /\ Insert(n, o.written)
      /\ SetState(n, IF inserted THEN apply_event(state[n], o.written) ELSE state[n])
      /\ acked' = [acked EXCEPT ![n] = IF ok THEN @ \cup {o.written} ELSE @]
      /\ Goto(n, w, IF ok /\ o.todo # <<>> THEN [pc |-> "append", todo |-> o.todo] ELSE Idle)
      /\ UNCHANGED <<payload, up, toload, crashes>>

-------------------------------------------------------------------------------
(* apply_remote_objects: the graph lock is taken for the batch.  Bound: a  *)
(* batch brings at least one object that is new to the graph.              *)
BatchStart(n, w, ids) ==
  /\ up[n] /\ op[n][w] = Idle /\ GraphLockFree(n)
  /\ Cardinality(ids) <= MaxBatch /\ ~(ids \subseteq events[n])
  /\ \E m \in Node \ {n} : ids \subseteq store[m]
  /\ Goto(n, w, [pc |-> "batch", todo |-> ids, written |-> {}, count |-> 0])
  /\ UNCHANGED <<graphVars, payload, up, toload, acked, crashes>> /\ UNCHANGED_State

(* One object of the batch is written to disk ...                          *)
BatchPut(n, w, e) ==
  /\ op[n][w].pc = "batch" /\ op[n][w].written = {} /\ e \in op[n][w].todo
  /\ Put(n, e)
  /\ Goto(n, w, [op[n][w] EXCEPT !.todo = @ \ {e}, !.written = {e}])
  /\ UNCHANGED <<payload, up, toload, acked, crashes>> /\ UNCHANGED_State

(* ... and inserted; insert errors are logged and not counted.  After the  *)
(* last one the graph lock is released and, if anything came in, the       *)
(* reduction follows.                                                      *)
BatchInsert(n, w, e) ==
  LET o == op[n][w]
      count == IF e \in events[n] \/ LamportRespected(n, e) THEN o.count + 1 ELSE o.count
  IN  /\ o.pc = "batch" /\ e \in o.written
      /\ Insert(n, e)
      /\ Goto(n, w, IF o.todo # {} THEN [o EXCEPT !.written = {}, !.count = count]
                    ELSE IF count > 0 THEN [pc |-> "reduce"] ELSE Idle)
      /\ UNCHANGED <<payload, up, toload, acked, crashes>> /\ UNCHANGED_State

(* The reduction, under a read lock of the graph that is kept until the    *)
(* state is replaced.                                                      *)
BatchReduce(n, w) ==
  /\ op[n][w].pc = "reduce" /\ GraphLockFree(n)
  /\ SetState(n, reduce(n))
  /\ Goto(n, w, Idle)
  /\ UNCHANGED <<graphVars, payload, up, toload, acked, crashes>>

-------------------------------------------------------------------------------
(* The process is killed; what is on disk is all open() finds.             *)
EngineCrash(n) ==
  /\ crashes < MaxCrashes
  /\ crashes' = crashes + 1
  /\ Crash(n)
  /\ up' = [up EXCEPT ![n] = FALSE]
  /\ toload' = [toload EXCEPT ![n] = store[n]]
  /\ state' = [state EXCEPT ![n] = EmptyState]
  /\ op' = [op EXCEPT ![n] = [w \in Worker |-> Idle]]
  /\ UNCHANGED <<payload, shown, acked>>

(* open() inserts the objects in directory order, ignoring errors ...      *)
OpenInsert(n, e) ==
  /\ ~up[n] /\ e \in toload[n]
  /\ Insert(n, e)
  /\ toload' = [toload EXCEPT ![n] = @ \ {e}]
  /\ UNCHANGED <<payload, up, op, acked, crashes>> /\ UNCHANGED_State

(* Mutated form: requests are served before everything is loaded.          *)
OpenReduceEarly(n) ==
  /\ ~up[n]
  /\ SetState(n, reduce(n))
  /\ up' = [up EXCEPT ![n] = TRUE]
  /\ toload' = [toload EXCEPT ![n] = {}]
  /\ UNCHANGED <<graphVars, payload, op, acked, crashes>>

(* ... and reduces the graph.                                              *)
OpenReduce(n) ==
  /\ ~up[n] /\ toload[n] = {}
  /\ SetState(n, reduce(n))
  /\ up' = [up EXCEPT ![n] = TRUE]
  /\ UNCHANGED <<graphVars, payload, toload, op, acked, crashes>>

WorkerStep(n, w) ==
  \/ \E t \in Ticket : create_ticket(n, w, t)
  \/ \E t \in Ticket, s \in StatusInput : update_ticket_state(n, w, t, s)
  \/ \E k \in EntryInput, t \in Ticket, i \in Item : add_entry(n, w, k, t, i)
  \/ \E t \in Ticket : import_canonical_ticket(n, w, t)
  \/ \E e \in Id : AppendPut(n, w, e)
  \/ AppendInsert(n, w)
  \/ \E ids \in SUBSET born : BatchStart(n, w, ids)
  \/ \E e \in Id : BatchPut(n, w, e) \/ BatchInsert(n, w, e)
  \/ BatchReduce(n, w)

EngineNext ==
  \E n \in Node :
    \/ \E w \in Worker : WorkerStep(n, w)
    \/ EngineCrash(n)
    \/ \E e \in Id : OpenInsert(n, e)
    \/ OpenReduce(n)

EngineSpec == EngineInit /\ [][EngineNext]_engineVars

-------------------------------------------------------------------------------
(* A worker of n has inserted remote objects it has not reduced yet.       *)
ReductionDue(n) == \E w \in Worker : op[n][w].pc \in {"batch", "reduce"}

(* The state is the reduction of the graph whenever no reduction is due:   *)
(* applying an appended event to the old state gives what a full reduction *)
(* of the new graph gives, also when the append runs between the insertion *)
(* of remote objects and their reduction, and after a restart in any load  *)
(* order ("Local materialized views are disposable caches").               *)
StateIsReduction ==
  \A n \in Node : up[n] /\ ~ReductionDue(n) => state[n] = reduce(n)

(* An append that returned Ok is in the graph for good: a restart, in any  *)
(* load order, brings it back.                                             *)
AckedSurvives == \A n \in Node : up[n] => acked[n] \subseteq events[n]

Lifecycle == INSTANCE TicketLifecycle
               WITH View <- Node \X Ticket, Absent <- "NONE",
                    status <- [v \in Node \X Ticket |-> shown[v[1]][v[2]]]

(* What every node shows of every ticket follows the abstract lifecycle:   *)
(* nothing leaves CLOSED and nothing returns to OPEN, through concurrent   *)
(* updates, merges of diverged graphs, imports and restarts.               *)
LifecycleRefined == Lifecycle!LifecycleSpec
===============================================================================
