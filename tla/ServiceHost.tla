----------------------------- MODULE ServiceHost ------------------------------
(* The processes of fortiq-service started for one configuration path: what  *)
(* each does before it serves, the files they share, and the two local IPC   *)
(* endpoints.  Three ways to start one are                                   *)
(*   "daemon":     --service-run (run_daemon),                               *)
(*   "foreground": no sub-command (async_main),                              *)
(*   "status":     `ticket status` (async_main, which returns early).        *)
(* A step that can fail ends the process (every `?`), which is Exit.         *)
EXTENDS Integers, Sequences

CONSTANTS
  Proc,      \* process slots
  Kinds,     \* how processes are started
  Obj,       \* signed objects the services append
  MaxStarts  \* bound: processes started in a behaviour

ASSUME HostBounds ==
  /\ MaxStarts \in Nat
  /\ Kinds \subseteq {"daemon", "foreground", "status"}
  /\ Proc \cap {"none", "absent", "stale"} = {}

VARIABLES
  unix,       \* sockets and create_new, or named pipes and plain writes
  usable,     \* the system grants every endpoint that is free
  genesis,    \* the Genesis file is absent or valid
  lock,       \* process that holds the lock of the file at the lock path
  nodekey,    \* node.key of the ticket store: Absent, Torn or a key
  idfile,     \* the [identity] file, likewise
  disk,       \* objects in the store
  endpoint,   \* endpoint[c]: process that listens there, "absent" or "stale"
  pc,         \* pc[p]: next step of p
  kind,       \* kind[p]: how p was started
  signer,     \* signer[p]: key of p's ticket engine
  ident,      \* ident[p]: transport key of p
  loaded,     \* loaded[p]: objects in p's event graph
  ipc,        \* ipc[p][c]: p's IPC server of endpoint c
  starts,     \* processes started so far
  keys,       \* keys generated so far
  announced,  \* history: transport keys services have run with
  overlap,    \* history: the lock was taken while a process that returned was
              \*          still shutting down its tasks
  signed,     \* history: keys the ticket engines of services have run with
  unkept      \* history: node.key could not be written, or was made by a process
              \*          that had not taken the lock

files == <<lock, nodekey, idfile, disk, endpoint>>
memory == <<signer, ident, loaded, ipc>>
hostVars == <<unix, usable, genesis, lock, nodekey, idfile, disk, endpoint,
              pc, kind, signer, ident, loaded, ipc, starts, keys, announced, overlap,
              signed, unkept>>

(* Contents of a key file that are not a key; keys are numbered from 1.      *)
Absent == 0
Torn == -1

Channel == {"command", "terminal"}
NoIpc == [c \in Channel |-> "off"]

(* Mutated form: run_daemon opens the ticket store before it takes the lock. *)
OrderLockLate ==
  [daemon     |-> [config |-> "key", open |-> "lock", lock |-> "identity",
                   identity |-> "genesis", genesis |-> "run"],
   foreground |-> [config |-> "genesis", genesis |-> "key", open |-> "lock",
                   lock |-> "identity", identity |-> "run"],
   status     |-> [config |-> "genesis", genesis |-> "key", open |-> "report"]]

(* The step that follows each step of run_daemon and of async_main; "key"    *)
(* leads to "open" in all of them.                                           *)
Order ==
  [daemon     |-> [config |-> "lock", lock |-> "key", open |-> "identity",
                   identity |-> "genesis", genesis |-> "run"],
   foreground |-> [config |-> "genesis", genesis |-> "key", open |-> "lock",
                   lock |-> "identity", identity |-> "run"],
   status     |-> [config |-> "genesis", genesis |-> "key", open |-> "report"]]

Running(p) == pc[p] = "run"
Closing(p) == pc[p] = "closing"
Serving(p) == \A c \in Channel : ipc[p][c] = "accept" /\ endpoint[c] = p

HostInit ==
  /\ unix \in BOOLEAN /\ usable \in BOOLEAN /\ genesis \in BOOLEAN
  /\ lock = "none" /\ nodekey = Absent /\ idfile = Absent /\ disk = {}
  /\ endpoint = [c \in Channel |-> "absent"]
  /\ pc = [p \in Proc |-> "off"]
  /\ kind = [p \in Proc |-> "none"]
  /\ signer = [p \in Proc |-> Absent] /\ ident = [p \in Proc |-> Absent]
  /\ loaded = [p \in Proc |-> {}]
  /\ ipc = [p \in Proc |-> NoIpc]
  /\ starts = 0 /\ keys = 0 /\ announced = {} /\ overlap = FALSE
  /\ signed = {} /\ unkept = FALSE

Rigid == UNCHANGED <<unix, usable, genesis>>
Kept == Rigid /\ UNCHANGED <<signed, unkept>>
Goto(p, step) == pc' = [pc EXCEPT ![p] = step]
Advance(p, step) == Goto(p, Order[kind[p]][step])

-------------------------------------------------------------------------------
Start(p, k) ==
  /\ pc[p] = "off" /\ starts < MaxStarts
  /\ starts' = starts + 1
  /\ kind' = [kind EXCEPT ![p] = k]
  /\ Goto(p, "config")
  /\ Kept /\ UNCHANGED <<keys, announced, overlap>> /\ UNCHANGED files /\ UNCHANGED memory

(* Config::load reads and validates; load_canonical_genesis reads, decodes   *)
(* and verifies, and a file that is there but does not verify is an error.   *)
ReadConfig(p) ==
  /\ \/ pc[p] = "config"
     \/ pc[p] = "genesis" /\ genesis
  /\ Advance(p, pc[p])
  /\ Kept /\ UNCHANGED <<kind, starts, keys, announced, overlap>>
  /\ UNCHANGED files /\ UNCHANGED memory

(* Mutated form: the lock is shared.                                         *)
acquire_instance_lock_shared(p) ==
  /\ pc[p] = "lock"
  /\ lock' = p
  /\ overlap' = (overlap \/ \E q \in Proc : Closing(q))
  /\ Advance(p, "lock")
  /\ Kept /\ UNCHANGED <<nodekey, idfile, disk, endpoint, kind, starts, keys, announced>>
  /\ UNCHANGED memory

(* try_lock_exclusive on the file at the lock path, created if absent.       *)
acquire_instance_lock(p) ==
  /\ pc[p] = "lock"
  /\ lock = "none"
  /\ lock' = p
  /\ overlap' = (overlap \/ \E q \in Proc : Closing(q))
  /\ Advance(p, "lock")
  /\ Kept /\ UNCHANGED <<nodekey, idfile, disk, endpoint, kind, starts, keys, announced>>
  /\ UNCHANGED memory

-------------------------------------------------------------------------------
(* TicketEngine::try_new                                                     *)

(* node.key is read; a missing or short one is replaced by a new key.        *)
ReadNodeKey(p) ==
  /\ pc[p] = "key"
  /\ IF nodekey \in {Absent, Torn}
     THEN /\ keys' = keys + 1
          /\ signer' = [signer EXCEPT ![p] = keys + 1]
          /\ unkept' = (unkept \/ lock # p)
          /\ Goto(p, "truncate")
     ELSE /\ signer' = [signer EXCEPT ![p] = nodekey]
          /\ Goto(p, "open")
          /\ UNCHANGED <<keys, unkept>>
  /\ Rigid /\ UNCHANGED <<kind, starts, announced, overlap, signed, ident, loaded, ipc>>
  /\ UNCHANGED files

(* Mutated form: of the two branches that make a key, only the one of a      *)
(* short file writes it.                                                     *)
WriteNodeKeyShort(p) ==
  /\ \/ /\ pc[p] = "truncate"
        /\ nodekey' = nodekey
        /\ Goto(p, IF nodekey = Torn THEN "write" ELSE "open")
     \/ /\ pc[p] = "write"
        /\ nodekey' = signer[p]
        /\ Goto(p, "open")
  /\ Kept /\ UNCHANGED <<lock, idfile, disk, endpoint, kind, starts, keys, announced, overlap>>
  /\ UNCHANGED memory

(* std::fs::write creates or truncates, then writes.  Its error is ignored.  *)
WriteNodeKey(p) ==
  /\ \/ /\ pc[p] = "truncate"
        /\ \/ nodekey' = Torn /\ UNCHANGED unkept /\ Goto(p, "write")
           \/ nodekey' = nodekey /\ unkept' = TRUE /\ Goto(p, "open")
     \/ /\ pc[p] = "write"
        /\ \/ nodekey' = signer[p] /\ UNCHANGED unkept
           \/ nodekey' = nodekey /\ unkept' = TRUE
        /\ Goto(p, "open")
  /\ Rigid /\ UNCHANGED <<lock, idfile, disk, endpoint, kind, starts, keys, announced,
                         overlap, signed>>
  /\ UNCHANGED memory

(* open: the objects on disk become the event graph.                         *)
OpenStore(p) ==
  /\ pc[p] = "open"
  /\ loaded' = [loaded EXCEPT ![p] = disk]
  /\ Advance(p, "open")
  /\ Kept /\ UNCHANGED <<kind, starts, keys, announced, overlap, signer, ident, ipc>>
  /\ UNCHANGED files

-------------------------------------------------------------------------------
(* load_or_create_identity                                                   *)

(* The step that hands the key to the swarm and spawns the IPC server.       *)
GotIdentity(p, k) ==
  /\ ident' = [ident EXCEPT ![p] = k]
  /\ Advance(p, "identity")

(* A file without a key in it is an error: only Exit is left.                *)
ReadIdentity(p) ==
  /\ pc[p] = "identity"
  /\ IF idfile = Absent
     THEN /\ keys' = keys + 1
          /\ ident' = [ident EXCEPT ![p] = keys + 1]
          /\ Goto(p, "create")
     ELSE /\ idfile # Torn
          /\ GotIdentity(p, idfile)
          /\ UNCHANGED keys
  /\ Kept /\ UNCHANGED <<kind, starts, announced, overlap, signer, loaded, ipc>>
  /\ UNCHANGED files

(* write_private_file: create_new on unix, create or truncate elsewhere.     *)
CreateIdentity(p) ==
  /\ pc[p] = "create"
  /\ unix => idfile = Absent
  /\ idfile' = Torn
  /\ Goto(p, "fill")
  /\ Kept /\ UNCHANGED <<lock, nodekey, disk, endpoint, kind, starts, keys, announced, overlap>>
  /\ UNCHANGED memory

FillIdentity(p) ==
  /\ pc[p] = "fill"
  /\ idfile' = ident[p]
  /\ Advance(p, "identity")
  /\ Kept /\ UNCHANGED <<lock, nodekey, disk, endpoint, kind, starts, keys, announced, overlap>>
  /\ UNCHANGED memory

-------------------------------------------------------------------------------
(* The service runs: fortiq_p2p::run, and the IPC server as a task           *)

(* run_ipc_server is spawned; the swarm takes the transport key, and from    *)
(* here on the ticket engine signs.                                          *)
Spawn(p) ==
  /\ Running(p) /\ ipc[p] = NoIpc
  /\ announced' = announced \cup {ident[p]}
  /\ signed' = signed \cup {signer[p]}
  /\ ipc' = [ipc EXCEPT ![p] = [c \in Channel |-> IF unix THEN "remove" ELSE "bind"]]
  /\ Rigid /\ UNCHANGED <<pc, kind, starts, keys, overlap, unkept, signer, ident, loaded>>
  /\ UNCHANGED files

(* The endpoints once p listens no more: a socket file outlives its process. *)
Closed(p) ==
  [c \in Channel |-> IF endpoint[c] # p THEN endpoint[c]
                     ELSE IF unix THEN "stale" ELSE "absent"]

(* Mutated form: the socket file of an earlier service is left in place.     *)
RemoveSocketNot(p, c) ==
  /\ ipc[p][c] = "remove"
  /\ ipc' = [ipc EXCEPT ![p][c] = "bind"]
  /\ Kept /\ UNCHANGED <<pc, kind, starts, keys, announced, overlap, signer, ident, loaded>>
  /\ UNCHANGED files

(* remove_file, whose error is ignored, then the directory is made.          *)
RemoveSocket(p, c) ==
  /\ ipc[p][c] = "remove"
  /\ ipc' = [ipc EXCEPT ![p][c] = "bind"]
  /\ \/ endpoint' = [endpoint EXCEPT ![c] = "absent"]
     \/ ~usable /\ UNCHANGED endpoint
  /\ Kept /\ UNCHANGED <<pc, kind, starts, keys, announced, overlap, signer, ident, loaded>>
  /\ UNCHANGED <<lock, nodekey, idfile, disk>>

(* UnixListener::bind, or the first instance of the named pipe.              *)
Bind(p, c) ==
  /\ ipc[p][c] = "bind"
  /\ endpoint[c] = "absent"
  /\ endpoint' = [endpoint EXCEPT ![c] = p]
  /\ ipc' = [ipc EXCEPT ![p][c] = "accept"]
  /\ Kept /\ UNCHANGED <<pc, kind, starts, keys, announced, overlap, signer, ident, loaded>>
  /\ UNCHANGED <<lock, nodekey, idfile, disk>>

(* One endpoint fails: try_join! drops the other one too, and the service    *)
(* goes on without IPC.  A bind fails when the name is taken or refused; the *)
(* accept loop of a named pipe also when the next instance is refused.       *)
IpcFails(p, c) ==
  /\ \/ ipc[p][c] = "bind" /\ (endpoint[c] # "absent" \/ ~usable)
     \/ ipc[p][c] = "accept" /\ ~unix /\ ~usable
  /\ ipc' = [ipc EXCEPT ![p] = [d \in Channel |-> "failed"]]
  /\ endpoint' = Closed(p)
  /\ Kept /\ UNCHANGED <<pc, kind, starts, keys, announced, overlap, signer, ident, loaded>>
  /\ UNCHANGED <<lock, nodekey, idfile, disk>>

(* A ticket event is appended, for the event loop or for an IPC client: on   *)
(* disk before it is in the graph.                                           *)
AppendEvent(p, o) ==
  /\ Running(p) \/ Closing(p)
  /\ ipc[p] # NoIpc /\ o \notin disk
  /\ disk' = disk \cup {o}
  /\ loaded' = [loaded EXCEPT ![p] = @ \cup {o}]
  /\ Kept /\ UNCHANGED <<lock, nodekey, idfile, endpoint, pc, kind, starts, keys, announced,
                        overlap>>
  /\ UNCHANGED <<signer, ident, ipc>>

(* fortiq_p2p::run returns, at Ctrl-C or with an error, or is dropped at the *)
(* stop of a Windows service: the lock goes with run_daemon or async_main,   *)
(* the tasks of the IPC server only when the runtime is dropped after that.  *)
Return(p) ==
  /\ Running(p) /\ ipc[p] # NoIpc
  /\ Goto(p, "closing")
  /\ lock' = "none"
  /\ Kept /\ UNCHANGED <<nodekey, idfile, disk, endpoint, kind, starts, keys, announced, overlap>>
  /\ UNCHANGED memory

(* The process ends: it has returned, fails before it runs or is killed.     *)
Exit(p) ==
  /\ pc[p] # "off"
  /\ Goto(p, "off")
  /\ lock' = IF lock = p THEN "none" ELSE lock
  /\ endpoint' = Closed(p)
  /\ kind' = [kind EXCEPT ![p] = "none"]
  /\ signer' = [signer EXCEPT ![p] = Absent]
  /\ ident' = [ident EXCEPT ![p] = Absent]
  /\ loaded' = [loaded EXCEPT ![p] = {}]
  /\ ipc' = [ipc EXCEPT ![p] = NoIpc]
  /\ Kept /\ UNCHANGED <<nodekey, idfile, disk, starts, keys, announced, overlap>>

-------------------------------------------------------------------------------
Work(p) ==
  \/ ReadConfig(p) \/ acquire_instance_lock(p)
  \/ ReadNodeKey(p) \/ WriteNodeKey(p) \/ OpenStore(p)
  \/ ReadIdentity(p) \/ CreateIdentity(p) \/ FillIdentity(p)
  \/ Spawn(p)
  \/ \E c \in Channel : RemoveSocket(p, c) \/ Bind(p, c) \/ IpcFails(p, c)

HostStep(p) ==
  \/ \E k \in Kinds : Start(p, k)
  \/ Work(p)
  \/ \E o \in Obj : AppendEvent(p, o)

HostNext == \E p \in Proc : HostStep(p) \/ Return(p) \/ Exit(p)

(* A process that is not ended takes its next step.                          *)
HostFairness == \A p \in Proc : WF_hostVars(Work(p))

HostSpec == HostInit /\ [][HostNext]_hostVars /\ HostFairness

-------------------------------------------------------------------------------
(* One service instance per configuration path: two processes never run the  *)
(* node at the same time.                                                    *)
OneService == \A p, q \in Proc : Running(p) /\ Running(q) => p = q

(* The node has one PeerId for ever.  Whatever processes start, race, fail   *)
(* or die between creating and filling the identity file, every service that *)
(* ever runs announces the same transport key.                               *)
OnePeerId == \A k, l \in announced : k = l

(* The events of a node are signed with one key for ever.  Whatever service  *)
(* dies between truncating node.key and writing it, every one that ever runs *)
(* signs with the same key, unless the key could not be written, which the   *)
(* code ignores, or was made without the lock: async_main opens the store    *)
(* before it takes it, so that its first start races with another one.       *)
OneSigner == unkept \/ \A k, l \in signed : k = l

(* A client that opens an endpoint whose IPC server accepts reaches that     *)
(* server: no other start has taken the name away from a running service,    *)
(* unless it took the lock while an earlier one was shutting down.           *)
EndpointReaches ==
  \A p \in Proc, c \in Channel :
    Running(p) /\ ipc[p][c] = "accept" => endpoint[c] = p \/ overlap

(* A daemon works on the whole store: nothing an earlier service appended is *)
(* missing from the event graph it opened, unless that service was shutting  *)
(* down when the daemon took the lock.  (async_main opens the store before   *)
(* it has the lock and cannot promise this; the unit that `service install`  *)
(* writes for systemd starts async_main, the one in packaging/ a daemon.)    *)
DaemonSeesStore ==
  \A p \in Proc :
    Running(p) /\ kind[p] = "daemon" => disk \subseteq loaded[p] \/ overlap

(* Where the system grants free endpoints, a service that runs comes to      *)
(* serve both, whatever socket files dead services have left, unless it ends *)
(* first or another one was shutting down when it took the lock.             *)
ServesInTheEnd ==
  usable => \A p \in Proc : Running(p) ~> (Serving(p) \/ ~Running(p) \/ overlap)
===============================================================================
