----------------------------- MODULE DesktopShell -----------------------------
(* The remote shell of the desktop application: BackendActor, which handles  *)
(* one command of the GUI at a time, the two tasks TerminalSession::spawn    *)
(* starts for a session, the task that forwards its output, and the          *)
(* dispatcher that turns DesktopEvents into properties of the window.        *)
EXTENDS Naturals, Sequences, SequencesExt

CONSTANTS
  Session,   \* sessions that may be started, one StartShell each
  Deaf,      \* sessions whose service may stop to answer and to read
  None,
  CmdCap,    \* capacity of a session's command channel (128 in the code)
  TextCap,   \* capacity of its text channel (128)
  EventCap   \* capacity of the channel of DesktopEvents (128)

ASSUME DesktopCapacities ==
  /\ None \notin Session /\ Deaf \subseteq Session
  /\ CmdCap \in Nat \ {0} /\ TextCap \in Nat \ {0} /\ EventCap \in Nat \ {0}

VARIABLES
  actor,        \* what BackendActor awaits, and the session it is starting
  terminal_tx,  \* session the actor sends input to
  stream,       \* stream[s]: the terminal stream as the service leaves it
  writer,       \* writer[s]: the task that owns the write half
  reader,       \* reader[s]: the task that owns the read half
  cmds,         \* cmds[s]: command channel
  text,         \* text[s]: updates in the text channel
  output,       \* output[s]: the task that forwards text as ShellOutput
  events,       \* channel of DesktopEvents
  ui            \* terminal_connected, and whose text the window shows

desktopVars == <<actor, terminal_tx, stream, writer, reader, cmds, text, output, events,
                 ui>>
taskVars == <<writer, reader, cmds, text>>

(* The values of actor.at: "input": in the send of ShellInput; "close": in   *)
(* close_shell before it sends Close; "closed": before it sends ShellClosed; *)
(* then start_shell: "resolve", "handshake", "opened" and "denied" before    *)
(* the event is sent.  Of writer: "writing": input is being written to the   *)
(* stream.  An event does not carry its session and its sender in the code;  *)
(* here it does, for the properties.                                         *)
DesktopInit ==
  /\ actor = [at |-> "idle", new |-> None, old |-> None]
  /\ terminal_tx = None
  /\ stream = [s \in Session |-> "none"]
  /\ writer = [s \in Session |-> "none"]
  /\ reader = [s \in Session |-> "none"]
  /\ cmds = [s \in Session |-> <<>>]
  /\ text = [s \in Session |-> 0]
  /\ output = [s \in Session |-> "none"]
  /\ events = <<>>
  /\ ui = [connected |-> FALSE, shows |-> None]

(* event_tx.send(..).await, by the actor or by the output task.              *)
Emit(kind, s, by) ==
  /\ Len(events) < EventCap
  /\ events' = Append(events, [kind |-> kind, of |-> s, by |-> by])

Writer(s) == writer[s] \in {"on", "writing"}
(* tx.send(..).await on the channel of s; an error when the writer is gone.  *)
SendCommand(s, cmd) ==
  IF Writer(s) THEN /\ Len(cmds[s]) < CmdCap
                    /\ cmds' = [cmds EXCEPT ![s] = Append(@, cmd)]
               ELSE UNCHANGED cmds

Started(s) == stream[s] # "none" \/ actor.new = s

------------------------------------------------------------------------------
(* BackendActor                                                              *)

(* StartShell begins with close_shell.                                       *)
StartShell(s) ==
  /\ actor.at = "idle" /\ ~Started(s)
  /\ actor' = [at |-> "close", new |-> s, old |-> None]
  /\ UNCHANGED <<terminal_tx, stream, taskVars, output, events, ui>>

CloseShell ==
  /\ actor.at = "idle"
  /\ actor' = [at |-> "close", new |-> None, old |-> None]
  /\ UNCHANGED <<terminal_tx, stream, taskVars, output, events, ui>>

ShellInput ==
  /\ actor.at = "idle"
  /\ actor' = [actor EXCEPT !.at = IF terminal_tx = None THEN "idle" ELSE "input"]
  /\ UNCHANGED <<terminal_tx, stream, taskVars, output, events, ui>>

(* The actor takes no other command before its send has ended.               *)
SendInput ==
  /\ actor.at = "input"
  /\ SendCommand(terminal_tx, "Input")
  /\ actor' = [actor EXCEPT !.at = "idle"]
  /\ UNCHANGED <<terminal_tx, stream, writer, reader, text, output, events, ui>>

AfterClose == IF actor.new = None THEN "idle" ELSE "resolve"

(* close_shell takes terminal_tx and sends Close.                            *)
SendClose ==
  /\ actor.at = "close"
  /\ terminal_tx' = None
  /\ IF terminal_tx = None
     THEN actor' = [actor EXCEPT !.at = AfterClose] /\ UNCHANGED cmds
     ELSE /\ SendCommand(terminal_tx, "Close")
          /\ actor' = [actor EXCEPT !.at = "closed", !.old = terminal_tx]
  /\ UNCHANGED <<stream, writer, reader, text, output, events, ui>>

SendClosed ==
  /\ actor.at = "closed"
  /\ Emit("ShellClosed", actor.old, "actor")
  /\ actor' = [actor EXCEPT !.at = AfterClose, !.old = None]
  /\ UNCHANGED <<terminal_tx, stream, taskVars, output, ui>>

(* The peer of the ticket is found, and the output task is spawned; or it is *)
(* not found, or is this node.                                               *)
Resolve ==
  /\ actor.at = "resolve"
  /\ \/ /\ actor' = [actor EXCEPT !.at = "handshake"]
        /\ output' = [output EXCEPT ![actor.new] = "on"]
        /\ UNCHANGED <<events, stream>>
     \/ /\ Emit("ShellDenied", actor.new, "actor")
        /\ actor' = [at |-> "idle", new |-> None, old |-> None]
        /\ stream' = [stream EXCEPT ![actor.new] = "refused"]
        /\ UNCHANGED output
  /\ UNCHANGED <<terminal_tx, taskVars, ui>>

(* TerminalSession::spawn returns: the service accepted and both tasks run,  *)
(* or it refused or cannot be reached.                                       *)
Handshake ==
  /\ actor.at = "handshake"
  /\ LET s == actor.new IN
     \/ /\ stream' = [stream EXCEPT ![s] = "open"]
        /\ writer' = [writer EXCEPT ![s] = "on"]
        /\ reader' = [reader EXCEPT ![s] = "on"]
        /\ terminal_tx' = s
        /\ actor' = [actor EXCEPT !.at = "opened"]
     \/ /\ stream' = [stream EXCEPT ![s] = "refused"]
        /\ actor' = [actor EXCEPT !.at = "denied"]
        /\ UNCHANGED <<writer, reader, terminal_tx>>
  /\ UNCHANGED <<cmds, text, output, events, ui>>

SendOutcome ==
  /\ actor.at \in {"opened", "denied"}
  /\ Emit(IF actor.at = "opened" THEN "ShellOpened" ELSE "ShellDenied", actor.new, "actor")
  /\ actor' = [at |-> "idle", new |-> None, old |-> None]
  /\ UNCHANGED <<terminal_tx, stream, taskVars, output, ui>>

------------------------------------------------------------------------------
(* The tasks of a session.  The stream is split: when the writer is done the *)
(* write half is dropped, and the stream stays open for the reader.  Ping,   *)
(* Pong and Resize frames change nothing here and are left out.              *)

StopWriter(s) == writer' = [writer EXCEPT ![s] = "off"] /\ cmds' = [cmds EXCEPT ![s] = <<>>]

(* Mutated form: the writer goes on after Close.                             *)
WriterTakesDeaf(s) ==
  /\ writer[s] = "on" /\ cmds[s] # <<>>
  /\ cmds' = [cmds EXCEPT ![s] = Tail(@)]
  /\ UNCHANGED <<actor, terminal_tx, stream, writer, reader, text, output, events, ui>>

(* Mutated form: input is left in the channel.                               *)
WriterTakesNoInput(s) ==
  /\ writer[s] = "on"
  /\ IF cmds[s] # <<>> THEN Head(cmds[s]) = "Close" ELSE terminal_tx # s
  /\ StopWriter(s)
  /\ UNCHANGED <<actor, terminal_tx, stream, reader, text, output, events, ui>>

(* Close, or the end of the channel, ends the writer.                        *)
WriterTakes(s) ==
  /\ writer[s] = "on"
  /\ \/ /\ cmds[s] # <<>> /\ Head(cmds[s]) = "Input"
        /\ cmds' = [cmds EXCEPT ![s] = Tail(@)]
        /\ writer' = [writer EXCEPT ![s] = "writing"]
     \/ /\ IF cmds[s] # <<>> THEN Head(cmds[s]) = "Close" ELSE terminal_tx # s
        /\ StopWriter(s)
  /\ UNCHANGED <<actor, terminal_tx, stream, reader, text, output, events, ui>>

(* The service has read the input; or the write fails, which ends the writer.*)
WriterWrites(s) ==
  /\ writer[s] = "writing"
  /\ \/ /\ stream[s] = "open"
        /\ writer' = [writer EXCEPT ![s] = "on"]
        /\ UNCHANGED cmds
     \/ stream[s] = "ended" /\ StopWriter(s)
  /\ UNCHANGED <<actor, terminal_tx, stream, reader, text, output, events, ui>>

(* A Data frame: the screen is rendered and goes to the text channel.        *)
ReaderOutput(s) ==
  /\ reader[s] = "on" /\ stream[s] = "open"
  /\ text[s] < TextCap
  /\ text' = [text EXCEPT ![s] = @ + 1]
  /\ UNCHANGED <<actor, terminal_tx, stream, writer, reader, cmds, output, events, ui>>

(* The service, or the remote end, closes the stream.                        *)
StreamEnds(s) ==
  /\ stream[s] = "open"
  /\ stream' = [stream EXCEPT ![s] = "ended"]
  /\ UNCHANGED <<actor, terminal_tx, taskVars, output, events, ui>>

(* The reader sees the end and aborts the writer.                            *)
ReaderEnds(s) ==
  /\ reader[s] = "on" /\ stream[s] = "ended"
  /\ reader' = [reader EXCEPT ![s] = "off"]
  /\ StopWriter(s)
  /\ UNCHANGED <<actor, terminal_tx, stream, text, output, events, ui>>

------------------------------------------------------------------------------
(* The output task of a session, and the dispatcher                          *)

OutputText(s) ==
  /\ output[s] = "on" /\ text[s] > 0
  /\ Emit("ShellOutput", s, "output")
  /\ text' = [text EXCEPT ![s] = @ - 1]
  /\ UNCHANGED <<actor, terminal_tx, stream, writer, reader, cmds, output, ui>>

(* The sender of the text channel was dropped with the reader, or never got  *)
(* to one.                                                                   *)
TextClosed(s) == text[s] = 0 /\ (reader[s] = "off" \/ stream[s] = "refused")

(* Mutated form: the task ends without a word.                               *)
OutputEndsSilently(s) ==
  /\ output[s] = "on" /\ TextClosed(s)
  /\ output' = [output EXCEPT ![s] = "off"]
  /\ UNCHANGED <<actor, terminal_tx, stream, taskVars, events, ui>>

OutputEnds(s) ==
  /\ output[s] = "on" /\ TextClosed(s)
  /\ Emit("ShellClosed", s, "output")
  /\ output' = [output EXCEPT ![s] = "off"]
  /\ UNCHANGED <<actor, terminal_tx, stream, taskVars, ui>>

Dispatch ==
  /\ events # <<>>
  /\ events' = Tail(events)
  /\ LET e == Head(events) IN
     ui' = IF e.kind = "ShellOutput" THEN [ui EXCEPT !.shows = e.of]
           ELSE [ui EXCEPT !.connected = e.kind = "ShellOpened"]
  /\ UNCHANGED <<actor, terminal_tx, stream, taskVars, output>>

------------------------------------------------------------------------------
Requests == Resolve \/ Handshake
ActorStep == SendInput \/ SendClose \/ SendClosed \/ SendOutcome
GuiCommand == CloseShell \/ ShellInput \/ \E s \in Session : StartShell(s)
TaskStep(s) ==
  WriterTakes(s) \/ WriterWrites(s) \/ ReaderEnds(s) \/ OutputText(s) \/ OutputEnds(s)

DesktopNext ==
  \/ GuiCommand \/ Requests \/ ActorStep \/ Dispatch
  \/ \E s \in Session : TaskStep(s) \/ ReaderOutput(s) \/ StreamEnds(s)

(* The runtime runs every task that can go on and the window takes its       *)
(* events.  The requests to the service and the writes to it have no         *)
(* deadline: that they end is assumed outside Deaf only.  Strong fairness    *)
(* where a task waits for room in a channel: tokio's channels serve their    *)
(* senders in the order they came.                                           *)
DesktopFairness ==
  /\ SF_desktopVars(ActorStep \/ (actor.new \notin Deaf /\ Requests))
  /\ WF_desktopVars(Dispatch)
  /\ \A s \in Session :
       /\ WF_desktopVars(WriterTakes(s)) /\ WF_desktopVars(ReaderEnds(s))
       /\ WF_desktopVars((s \notin Deaf \/ stream[s] = "ended") /\ WriterWrites(s))
       /\ SF_desktopVars(OutputText(s)) /\ SF_desktopVars(OutputEnds(s))

DesktopSpec == DesktopInit /\ [][DesktopNext]_desktopVars /\ DesktopFairness

------------------------------------------------------------------------------
(* A write of input waits for a service that reads no more.                  *)
Unread(s) == s \in Deaf /\ writer[s] = "writing" /\ stream[s] = "open"
(* The actor waits for an answer that a service owes it, or for room in the  *)
(* channel of a session whose input is not read.                             *)
Held ==
  \/ actor.at \in {"resolve", "handshake"} /\ actor.new \in Deaf
  \/ /\ actor.at \in {"input", "close"} /\ terminal_tx # None
     /\ Unread(terminal_tx) /\ Len(cmds[terminal_tx]) = CmdCap

(* BackendActor, which handles nothing else meanwhile, comes back from every *)
(* command: no full channel of a session that is typed into, is closing, has *)
(* ended or is flooding the window with output keeps it for ever.  What can  *)
(* keep it is a service that does not answer a request, or does not read the *)
(* input of the session until the channel is full.                           *)
ActorReturns == (actor.at # "idle") ~> (actor.at = "idle" \/ Held)

(* A session that was closed or replaced stops taking input: its writer ends *)
(* even when its channel is full or its stream is already gone, unless it is *)
(* in the write of input that the service does not read.                     *)
SupersededStops ==
  \A s \in Session : (Writer(s) /\ terminal_tx # s) ~> (writer[s] = "off" \/ Unread(s))

(* The end of a stream is told to the window after the last output of its    *)
(* session: when the output task's ShellClosed is the next event to be taken *)
(* nothing of the session is left in the text channel or among the events.   *)
(* The ShellClosed that CloseShell itself sends has no such place, and the   *)
(* stream of a session the user closed may stay open.                        *)
EndReported ==
  \A s \in Session :
    (stream[s] = "ended" /\ output[s] = "on")
      ~> /\ events # <<>>
         /\ Head(events) = [kind |-> "ShellClosed", of |-> s, by |-> "output"]
         /\ reader[s] = "off" /\ text[s] = 0
         /\ \A i \in DOMAIN events : events[i].of = s => events[i].kind # "ShellOutput"
==============================================================================
