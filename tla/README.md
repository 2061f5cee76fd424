# Fortiq in TLA+

Specifications of the parts of Fortiq that are hard to test: the event graph
and the ticket engine every node is built on, the protocols between two nodes,
the shell a node serves, the session and terminals of an operator, the shell
pane of the desktop application with its terminal emulator, and the processes of
the service: how they start, share their files and end, and how a file gets into
them. TLC checks small instances; TLAPS proves every invariant, action property and
refinement that the passing runs check, for every value of the constants. What rests
on fairness is model-checked only.

All line numbers are those of `src/`; `PROJECT.json` has the lines behind every
definition. A definition whose comment calls it a mutated form is a plausible bug:
put in the place of the definition `PROJECT.json` names with it, it makes the
property it is listed with fail.

## The system

A Fortiq node is a background service. Its parts, and how they interact:

| part | code | modules |
|---|---|---|
| event graph: signed immutable events, Lamport clocks, heads | `fortiq-core/src/event`, `store` | `EventGraph`, `TicketReducerProofs` |
| ticket lifecycle and reducer: graph to tickets | `ticket/state.rs`, `reducer/ticket.rs` | `TicketState`, `TicketLifecycle`, `TicketReducer`, `TicketReducerProofs` |
| ticket engine: threads, two locks, disk, reopen | `engine.rs` | `TicketEngine`, `TicketEngineProofs` |
| ticket sync between client and operator, with a durable outbox | `fortiq-p2p/src/node.rs`, `ipc_server.rs` | `TicketSync`, `TicketSyncProofs` |
| chat | the same | `Chat`, `IpcProofs` |
| file transfer | the same | `FileTransfer`, `FileTransferProofs` |
| connections, dials, discovery, waiting commands | `node.rs` | `PeerLinks`, `NodeProofs` |
| the shell a node serves | `node.rs`, `fortiq-shell/src/lib.rs` | `ShellService`, `NodeProofs` |
| operator session, terminal endpoint | `fortiq-service/src/ipc_server.rs` | `OperatorSession`, `IpcProofs` |
| shell pane of the desktop | `fortiq-desktop/src` | `DesktopShell` |
| terminal emulator of the pane | `fortiq-desktop/src/terminal` | `Terminal`, `TerminalProofs` |
| start, lock, key files, IPC endpoints and end of service processes | `fortiq-service/src/main.rs`, `service_manager.rs`, `ipc_server.rs`, `fortiq-p2p/src/identity.rs`, `engine.rs` | `ServiceHost`, `ServiceHostProofs` |
| file uploads from command line and desktop to the event loop | `fortiq-cli/src/main.rs`, `fortiq-desktop/src/backend.rs`, `ipc_server.rs` | `StagedUpload`, `ServiceHostProofs` |

IPC threads and the event loop of a service share one engine. A ticket belongs
to the node that made it (the client); the operator's node holds a replica.
The client's node serves shells, and the operator reaches them through the
terminal endpoint of the local service, from the desktop or the command line.

### How the modules fit together

* `EventGraph` is the abstract specification of the storage: objects are signed,
  stored, inserted in any order, and a crash loses what is in memory.
* `TicketReducer` extends it with payloads and the sort; `TicketEngine` extends
  that with threads, locks, crash and reopen. `TicketLifecycle` is the abstract
  promise of what somebody who watches a ticket on a node can see; that the engine
  keeps it (`LifecycleRefined`) is checked by TLC and proved by TLAPS. That the
  engine takes only steps of `EventGraph`, which its actions are built from, is
  proved (`EngineImplementsGraph`), so that the theorems about graphs hold of it.
* `TicketSync`, `Chat`, `FileTransfer`, `ShellService` use `TicketState` and take
  a ticket as its state: the engine's work is a step there, and what can
  happen between two of them is a step of another action.
* `PeerLinks` is the part of the event loop that the protocols share.
* `StagedUpload` extends `ServiceHost`: its requests are handled by the processes
  of that module, reached through its endpoints, and end with them. Where it
  stops, at a record in the outbox, `FileTransfer` begins.
* `MC...` modules add symmetry sets and values of constants only.

## Modules and code

**EventGraph** (`event/graph.rs`, `heads.rs`, `store/fs.rs`). Per node `store` (the
objects on disk), `events`, `children` and `heads` (the graph in memory); shared by
all, `born`, `parents` and `lamport`, the content of what was signed. `SignAndPut`,
`Put`, `Insert`, `Crash`. An id stands for a content: hashes do not collide and
signatures verify. Objects may be inserted before their parents.

**TicketReducer** (`reducer/ticket.rs`, `topological_sort` of `graph.rs`). The
sort picks the earliest ready event by Lamport value, timestamp and id;
`apply_event` is the reducer on one ticket aggregate, whose entries are kinds and
items instead of texts.

**TicketEngine** (`engine.rs`). `op[n][w]` says where worker `w` of node `n` is
between two lock acquisitions. `create_ticket`, `update_ticket_state`,
`add_entry`, `import_canonical_ticket` check and leave work to append;
`AppendPut` and `AppendInsert` are the two halves of `append_ticket_event` under
the graph lock; `BatchPut`, `BatchInsert`, `BatchReduce` are
`apply_remote_objects`, whose reduction comes after the lock was released;
`EngineCrash`, `OpenInsert`, `OpenReduce` are restart. `shown` and `acked` record
what readers saw and callers were told.

**TicketSync** (`node.rs` ticket arms, `ipc_server.rs` create and update,
`engine.rs` outbox). Client and operator, requests with up to `MaxCopies` copies
in flight, an outbox that survives crashes, connections as each side sees them.
`rec` is the ticket on both sides, `past` the states the client's has had,
`handled` and `applied` what became of each request.

**Chat** (`SendChatMessage` in `ipc_server.rs`, chat arms and `handle_chat` in
`node.rs`). `ipc[m]` is the request of the service, `copy[m]` the message between
the event loops, `reply[m]` what the sender's loop reports. Check and append are
two steps on both sides, because other threads change the ticket in between.
`update_message_delivery` records nothing, and `MessageSent` is also the answer when
the message was not sent or not acknowledged in time; both are modelled so.

**FileTransfer** (`spawn_send_file_stream`, `handle_incoming_file_stream`, the
`SendFile` and connection arms). A file may be sent by several tries at once; a
try is the sending task, the stream and the receiving task. The stream's answers
are a byte sequence, so that a confirmation can be in it when the sender dies. The
receiver's three answers (denial, acceptance, confirmation) are writes without a
deadline and steps of their own; the senders of `Deaf` may never take one. A sender
that ends takes what is in its stream with it.

**PeerLinks** (`PeerRegistry`, `dial_candidates`, `dial_peer_candidates`, the
command arms, connection events, rendezvous). The four queues of waiting commands
are one function from commands to queue and phase. libp2p's swarm is modelled by
what it reports: a dial ends in a connection or an error. The address of a command
is none, one that names its peer, one that names another, or a bare one; `Names`
says which peers a dial to it can reach and an error of it be about.

**ShellService** (`handle_incoming_shell_next`, `serve_pty`). Sessions go from
the incoming stream through challenge, handshake, the flag, the denial or the
authorization, all awaited inside the event loop, and the banner and `serve_pty` with
its bounded PTY queue, in a task, to its clean-up, or are dropped by the watcher; the
shell process has a life of its own. Only the handshake has a deadline. An operator
whose `takes` is false, from `Stall` on, takes nothing that is written to it.

**OperatorSession** (`UnlockOperator`, `LockOperator`, lazy expiry, expiry task,
`handle_terminal_client`). Sessions and terminals, each with its place in the
code; a cancellation token is the set of sessions that were cancelled.

**DesktopShell** (`backend.rs`, `terminal/session.rs`, dispatcher of `main.rs`).
The actor handles one command at a time and awaits bounded channels and, when it
opens a shell, the answers of the service; a session has a writer, a reader and an
output task. The sessions of `Deaf` are served by a service that may leave a request
without an answer and input unread.

**Terminal** (`terminal/screen.rs`, `parser.rs`, reader loop of `session.rs`). The two
buffers of the screen are functions from rows and columns to characters. One
action is one callback of the escape sequence parser or one resize. Positions are
`u16` and movements `i16`, whose width is the constant `Half`; in a build with
overflow checks (`checked`) an overflow is a panic, in the others it wraps. `paper`
is the endless roll on which a printer would have put the plain output so far, `kept`
the primary screen when the alternate one was entered: history that says what the
primary screen should show.

**ServiceHost** (`main.rs`, `service_manager.rs`, `identity.rs`, `TicketEngine::try_new`,
listeners of `ipc_server.rs`). A process is a program counter that runs through the
steps of `run_daemon` or `async_main` in the order of the code (`Order`); the lock,
`node.key`, the identity file, the store and the two endpoints are what processes
share. A file is created and filled in two steps. `Exit` ends a process anywhere,
killed or by an error; `Return` is the orderly end, after which the lock is free but
the IPC tasks still run until the runtime is dropped. `overlap` records that a
process took the lock in that window, `signed` the keys that services have signed
with, `unkept` that `node.key` could not be written or was made without the lock. The
unit of `packaging/systemd` starts `--service-run` and with it a daemon; the one that
`service install` writes (`service_manager.rs:308`) has no argument and starts
`async_main`, the "foreground" of the model.

**StagedUpload** (`cmd_ticket_send_file`, desktop `send_file`, `SendFile` and
`import_staged_upload_from` of `ipc_server.rs`). The client, its staging file, the
handler with the `.part` file and the private copy, the command in the channel of
the event loop and the record it becomes. The channel has room for `ChannelCap`
commands, those of other handlers (`others`) included, and the send into it has no
deadline. The staging file may grow at any time.

## Runs

Deadlock is checked except where the system may really stop (bounded numbers of
objects, attempts or shells are used up); those cfg files say so.

| run | instance | states | what it shows |
|---|---|---|---|
| `engine` | 2 nodes, 2 workers each, 3 objects, 1 crash | 590,000 | heads are exact in every arrival order, no signed object is refused, an append sorts last; the incrementally kept state is the reduction of the graph whenever none is due; what was acknowledged comes back; the engine implements the lifecycle |
| `sync` | 2 requests, 2 copies each, 1 crash | 130,000 | a mutation is applied at most once and kept until handled; the replica is never ahead; the outbox drains |
| `chat` | 2 messages, 1 crash | 208,000 | what each answer means for the records of the two nodes |
| `files` | 2 files, one sent twice, 2 slots, quota of 1 file, 1 crash | 412,000 | records have their files, the outbox keeps a file until it is stored, disk use is bounded, slots come back unless a sender leaves an answer unread |
| `links` | 1 peer, 2 commands, with and without a relay | 126,000 | the registry is exact, no command waits for a peer that is connected, shell commands are released by every dial that concerns their peer, all commands once the peer is discovered |
| `shell` | 2 sessions, 1 ticket, queue of 1 | 66,000 | the flag is exact, closed tickets and broken streams end sessions, the event loop comes back unless an operator leaves an answer of the admission untaken |
| `operator` | 2 sessions, 2 terminals | 12,000 | what leaves the slot is cancelled, timers end only their own session, terminals and sessions end |
| `desktop` | 2 sessions, channels of 1 | 38,000 | the actor comes back unless a service owes it an answer or leaves input unread, replaced sessions stop, ends are reported after the last output |
| `host` | 2 processes of 3 kinds, 2 starts, Unix and Windows | 349,000 | one PeerId and one signer for ever, endpoints reach the running service, a daemon sees the whole store, a service comes to serve |
| `uploads` | 1 upload, 1 process started twice | 424,000 | what is to be sent is a whole private file within the limit, a client that waits is answered unless the event loop never takes from its full channel |
| `terminal` | panes up to 2 by 2, 4-bit integers, 4 lines of paper | 192,000 | the cursor stays inside, plain output is shown as on paper, the alternate screen leaves the primary one alone, panics need very large arguments |

### Disagreements between code and documentation

The run `shell_closed_kills` has a property that the documentation states and TLC
refutes; the trace is a behaviour of the code, and `PROJECT.json` quotes the lines.
When the watcher wins the `select!`, `serve` is dropped and its clean-up does not
run. The shell process of a closed ticket goes on. (The flag is free then, so a
second process may be started beside it.)

The models also contain these behaviours, which no property forbids because the
code does nothing against them; a maintainer should know of them:

* RESOLVED and back to IN_PROGRESS within 250 ms is not seen by the watcher
  (`WatcherFires` reads the current state only).
* The 60-second deadline of a served shell does not run while the reader waits for
  room in the PTY queue (`Blocked` in `ServeEnds`).
* The unbiased `select!` of a terminal may take the reply of the shell although its
  session was just locked; the terminal ends right after (`TerminalsEnd`).
* The quota counts recorded attachments, so transfers side by side can exceed it.
  `StorageBounded` has the bound that does hold.
* A chat message or a file accepted before its ticket is closed is added after.
* `ShellClosed` names no session, so the one of an earlier session can arrive after
  the `ShellOpened` of the next and show the window as disconnected while a
  session runs.
* A service that returns frees its lock while its IPC tasks still run. A process
  that starts in that moment can lose its endpoint to the old one, fail to bind
  it, or miss an object the old one appends: `EndpointReaches`, `ServesInTheEnd` and
  `DaemonSeesStore` hold up to `overlap`, and TLC refutes each without it.
* `async_main` opens the ticket store before it takes the lock, so a service it
  runs (in the foreground, or by the unit of `service install`) may work on an event
  graph that lacks what an earlier one appended last; `DaemonSeesStore` speaks of
  daemons only.
* For the same reason two first starts can each make a `node.key`, and a key that
  cannot be written is used all the same and another one made at the next start:
  `OneSigner` holds up to `unkept`.
* A process that dies between creating and filling the identity file leaves one
  that every later start refuses; nothing repairs it.
* Failed imports leave `.part` files, and a desktop whose upload fails leaves its
  staging file.
* `CloseShell` ends the writer task; the split stream stays open until the other
  end gives up.
* `MessageSent` says nothing about the peer: it is the answer also to a message that
  was not acknowledged, and no state of delivery is recorded (`AnswersMean`).
* Writes without a deadline. An operator that takes nothing can hold the event loop
  in the challenge, a denial or the authorization (`Stalled`); a sender of a file that
  does not read can hold a slot in the write of an answer (`Writing`); a local service
  that does not answer or read can hold the actor of the desktop (`Held`); an event
  loop that takes no command out of its full channel holds the upload handlers
  (`Blocked`). The liveness properties name these states as their exceptions, and
  show that nothing else keeps the waiting one waiting.
* A shell command whose address is bare or names another peer is answered only
  when discovery leads to the peer (`ShellReleased`, `WaitersReleased`).

### Bounds

The properties relate at most two actors and the object they share, so two
nodes, two sessions, two messages are what the races are between. Three objects
give a common ancestor and two concurrent events, and are enough for a check, a
concurrent append and a batch. In `links` one peer is
enough: a dial for it that leads to another is, for the one, a dial that ends and
says nothing, and for the other a connection that comes or an error that can only
release what waits. Of two files one is sent twice, so that two attempts at one file and two
files compete for the slots, and three attempts for a quota of one; the sender of
the other may be deaf. One of two desktop sessions has a deaf service. One crash is
enough for properties that compare the state before and after it. Queues and
channels have capacity one or two because only full, empty and neither matter.
In `host` two starts are two processes side by side or one after the other. Sizes
of files in `uploads` are within the limit or one past it; nothing in the code
relates two uploads, each of which has names of its own. A pane of two by two
has a first and a last row and column that differ, and one of width or height
one makes them the same; four lines of paper fill it and scroll twice. The arguments 7 and
8 are the largest of a four-bit `i16` and the first that turns negative, 1 and 2
are not wild.
`Tries`, `MaxCopies`, `MaxCrashes`, `MaxStarts`, `MaxEntries`, `MaxBatch`, `MaxLines` and the input sets
`StatusInput`, `EntryInput`, `NextStates` appear in the guards of the actions they bound.
Symmetry is used over names that no definition orders, in runs whose properties
are invariants, action properties or refinements of specifications without
fairness.

### Fairness

* Tasks that can run do run: the tokio runtime polls every woken task and fires
  timers (weak fairness of the steps of a task).
* `DesktopShell`: senders that wait for room in a tokio channel are served in order,
  hence strong fairness of the sends. The requests to the service and the writes of
  input have no deadline; they end for the sessions outside `Deaf`, and a write also
  when the stream has ended.
* `TicketSync`: discovery reconnects (weak fairness of `ConnectionEstablished`), and a
  request or an answer that is under way again and again is delivered in the end
  (strong fairness); `OutboxDrains` says so of a node whose connections keep going
  down, because only a new connection makes it send the outbox again.
* `PeerLinks`: the swarm ends every dial, by its timeout. `WaitersReleased` has the
  assumption that the peers stay registered as its premise (`StayRegistered`).
* `ServiceHost`: a process that is not ended takes its next step; whether `usable`
  endpoints are granted is fixed at the start and a premise of `ServesInTheEnd`.
* `StagedUpload`: the handler's file operations and its timer return, and room in the
  channel goes to the senders in turn (strong fairness of `SendCommand`); nothing is
  assumed of the event loop or the peer.
* `FileTransfer`: the receiver's reads, which have a deadline, and its file operations
  end; its writes, which have none, end for the senders outside `Deaf`.
* `ShellService`: a write ends while the operator `takes` what is written, or fails when
  the stream is broken. Whether and for how long the operator does is not assumed,
  and neither is anything of the child process.
* Nothing assumes anything of a user.

## Proofs

Proved for every value of the constants, from the assumptions named in the
modules (`ASSUME`), which TLC evaluates in the runs:

* `TicketReducerProofs`, the graph: `HeadsExact`, `NeverRejected`,
  `AppendIsLast`. `GraphInv` is the inductive invariant: besides the
  type it says that the children index is exact, that heads dominate (every
  event in a graph has a Lamport value at most that of some head), and that an
  object signed later than its parents has a larger value. Heads dominating is
  what makes an append sort last; the Lamport order of signed objects is what
  makes a refusal impossible in any order of arrival.
* `TicketReducerProofs`, the reducer. `ReducesTo(S, x)` says without an algorithm that
  `x` is what applying the events of `S` in the order of Lamport value and id gives.
  `ReductionUnique`: there is one such `x`. `ReduceReduces`: `reduce` computes it, by
  induction over the events that `topological_sort` has emitted (the earliest of the
  rest is always ready, because its parents are earlier still) and over its fold.
  `ReductionAppends`: an event that sorts last is simply applied. `ReductionFollows`:
  if `A` is a subset of `B`, the reduction of `B` shows of every ticket a state that
  the lifecycle allows after the one the reduction of `A` shows. That is not obvious,
  since an additional event may sort before others and make the reducer refuse them;
  it holds because `Follows` is kept by an event applied to both sides, and by one
  applied to the larger side only.
* `TicketEngineProofs`: `EngineImplementsGraph`, every step of the engine is a step of
  `EventGraph` or leaves its variables alone, so the theorems above hold of the
  engine; and `AckedSurvives`, whose invariant follows an acknowledged event from
  the store through `toload` to the graph.
  `StateIsReduction` and `LifecycleRefined` rest on `EngineInv`. Its part `WorkInv` says
  that one worker at most of a node holds the graph lock and that an event that was
  written and not yet inserted is later than everything in the graph: this is what the
  lock is for. Its part `ReductionInv` says that the state of a running node is the
  reduction of some of its events, of all of them unless a reduction is due, and that
  what a node shows is the reduction of events it has or, after a crash, will load
  again. So every change of what is shown goes from the reduction of a set to the
  reduction of a larger one, and `ReductionFollows` makes it a step of the lifecycle.
  `AlwaysConverged`: nodes with the same events serve the same state.
* `NodeProofs`, the shell: `FlagExact`. The invariant says which phases own the flag and
  that at most one session is in one of them.
* `TicketSyncProofs`: `AppliedAtMostOnce`, `KeptUntilHandled`, `OperatorNeverAhead`. The
  invariant `SyncInv` adds that an applied update has left the ticket at a larger
  revision than the request names (so a second copy is refused), that an answer
  under way means the request was handled, and that every ticket in a message
  has a state of `past`.
* `FileTransferProofs`: `RecordBacked`, `KeptUntilStored`, `StorageBounded`. The invariant
  `FileInv` says of every attempt how the sender, the bytes under way and the receiver
  relate (`Agreed`): a second "accept" in the stream is a record, and whoever is
  confirmed has one. For the bound, at most `Slots` attempts hold a permit, so at most
  `Slots - 1` others are between their check of the quota and their record.
* `TerminalProofs`: `ScreenShape` and `PanicOnlyWild`, for integers of any width of at
  least four bits and panes of any size. The invariant adds that positions are
  below the range of `i16` as long as nothing wild was asked for, which is what
  keeps the sums of `move_cursor` from overflowing. `ShowsOutput`, for any amount of
  output: one character, line feed, carriage return or backspace brings the screen and
  the paper from the same lines to the same lines, a scroll included.
* `ServiceHostProofs`: `OneService`, `OnePeerId`, `OneSigner`, `EndpointReaches`,
  `DaemonSeesStore`. The
  invariant says which steps of which kind of process are behind the lock, what the
  identity file holds while a process is between creating and filling it, and that
  without an `overlap` no process is shutting down while another is past the
  lock; that makes the process past the lock the only one to touch the files. For
  `OneSigner`, `SignerInv` adds that, unless a key was `unkept`, a process between
  truncating and writing `node.key` holds the lock and no service has signed yet, and
  that any key a service has signed with is the one in the file.
  `UploadBacked`: the invariant says where the bytes of an upload are at each step of
  its handler. `UploadImplementsHost`: `StagedUpload` takes steps of `ServiceHost` or
  leaves its variables alone, so that the theorems above hold with uploads
  (`UploadKeepsHost`).
* `IpcProofs`, the operator session: `SlotExact` and the action property `OnlyLapsedDropped`. The
  invariant adds that the session in the slot was made by an unlock, so the timers
  and checks that find another one there leave it alone.
* `IpcProofs`, the chat: `AnswersMean`. The invariant follows a message through its
  stations: its writer has it before it goes out, the peer when it is handled, and an
  answer exists only after that.
* `NodeProofs`, the links: `RegistryExact` and `NoneWaitsConnected`. The invariant adds that a
  command that waits does so in one of the four queues and for a peer, so that the
  connection that releases the queues of its peer releases all that wait for it.

Besides that bounds are naturals and names differ, the assumptions on constants are: ids
are ordered, at least one slot (`FileTransfer`), integers of at least four bits
(`Terminal`), and callers that pass the ticket states and entry kinds of the code's enums
(`TicketEngine`).

Induction over data is done in first-order form: a nonempty set of naturals has a least
element (`LeastNat`), a recursive function has a value because its steps can be iterated
(`Iteration`), and two traces of a finite set of events agree because there is no first
event at which they differ (`TraceUnique`).

Model-checked only: liveness and everything that rests on fairness (the prover
has no `ENABLED`), which includes all properties of `DesktopShell`; and, in the run
`shell_closed_kills`, the property that the code does not have.

## Not modelled

* Cryptography (signatures, hashes, mnemonics, certificates): the outcome of a
  verification is a Boolean chosen by the environment.
* The network below libp2p's events; rendezvous and relay servers.
* The canonical codec: a pure function over byte sequences, of which the other
  modules need only that it fails or succeeds. Torn or corrupt object files.
* The authority's policy: conjunctions of verifications, whose outcome is chosen
  freely where the protocols ask for it.
* The exchange of heads and objects as a protocol; what it delivers is the batches
  of `TicketEngine`.
* The contents of the configuration, service installation, the other commands of
  the command line client, settings and dialogs of the desktop, the lock of the
  desktop: one-shot requests or pure I/O.
* Colours and the visibility of the cursor (`handle_sgr`, mode 25), which the pane
  does not show, and the key map; the split of output into frames, which the
  parser library takes care of; the cancellation of a frame read by a resize,
  which the window never sends.
* A lock path that differs between processes because their environment does, and
  a runtime directory that the service manager removes with a lock in it.
* `PROJECT.json` lists the hazards that no property covers, with the reason.
