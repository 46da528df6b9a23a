--------------------------- MODULE ProcessSupervisor ---------------------------
(***************************************************************************)
(* Terminals and commands the server runs for its clients (iowb-process):  *)
(* the map of live processes, the readers that turn output into replay     *)
(* chunks and events, the writer or PTY control thread that serves input,  *)
(* resize and kill, and the watcher that waits for the child, drains its   *)
(* readers for a bounded time and publishes how it ended.                  *)
(*                                                                         *)
(* A chunk of output is its number in the order the readers of the process *)
(* read it.  A step is one await, one lock section or one channel call.    *)
(***************************************************************************)
EXTENDS Naturals, Sequences, SequencesExt

CONSTANTS Procs,        \* process ids (a bound)
          Kinds,        \* kinds of process that are started (a bound)
          Controls,     \* kinds of control that are sent (a bound)
          MaxChunks,    \* bound on the output of a process
          MaxInputs,    \* PROCESS_INPUT_CAPACITY
          ReplayLimit,  \* PROCESS_OUTPUT_REPLAY_BYTES, in chunks
          EventCap      \* PROCESS_EVENT_CAPACITY

Requests == {"input", "resize", "kill"}

ASSUME ProcessSupervisorAssumption ==
    /\ Kinds \subseteq {"pipe", "pty"}
    /\ Controls \subseteq Requests
    /\ {MaxChunks, MaxInputs} \subseteq Nat
    /\ {ReplayLimit, EventCap} \subseteq Nat \ {0}

VARIABLES
    kind,     \* "none" before start, then "pipe" or "pty"
    child,    \* "none", "alive" or "exited"
    holder,   \* a descendant keeps the pipes or the PTY of the child open
    listed,   \* ProcessManager.processes
    reader,   \* each output reader: where it stands, the chunk it holds
    gate,     \* PTY output gate
    control,  \* input writer or PTY control thread: "off", "on", "ended"
    inbox,    \* what was sent to it and is not handled yet
    stalled,  \* the process whose full inbox a socket waits to write to, if any
    killed,   \* the child was told to die
    stage,    \* where the watcher of the process stands
    ending,   \* how the child ended, as the watcher saw it
    made,     \* chunks read so far
    buffer,   \* ProcessOutputBuffer
    kept,     \* history: chunks that were ever put in the buffer
    events,   \* process events the bridge has not received yet
    lagged    \* the bridge has missed events

procVars == <<kind, child, holder, listed, reader, gate, control, inbox,
              stalled, killed, stage, ending, made, buffer, kept, events, lagged>>

Streams == {"stdout", "stderr"}
Idle == [at |-> "idle", chunk |-> 0]
Off  == [at |-> "off", chunk |-> 0]
Done == [at |-> "done", chunk |-> 0]
\* A PTY has one reader, which reports as stdout.
StreamsOf(k) == IF k = "pty" THEN {"stdout"} ELSE Streams

\* The stages of the watcher, in order; the last four are those of drains.
Stages == {"none", "waiting", "ended", "stdout", "cut stdout", "stderr",
           "cut stderr", "drained", "over"}

OutputEvent(p, s, n) == [type |-> "output", proc |-> p, stream |-> s,
                         chunk |-> n]
EndEvent(p, how) == [type |-> how, proc |-> p, stream |-> "none", chunk |-> 0]
ProcEvents == [type : {"output", "exited", "failed"}, proc : Procs,
               stream : Streams \cup {"none"}, chunk : Nat]

ProcTypeOK ==
    /\ kind \in [Procs -> {"none", "pipe", "pty"}]
    /\ child \in [Procs -> {"none", "alive", "exited"}]
    /\ holder \in [Procs -> BOOLEAN]
    /\ gate \in [Procs -> BOOLEAN]
    /\ killed \in [Procs -> BOOLEAN]
    /\ listed \subseteq Procs
    /\ reader \in [Procs -> [Streams ->
           [at : {"off", "idle", "read", "pushed", "done"}, chunk : Nat]]]
    /\ control \in [Procs -> {"off", "on", "ended"}]
    /\ inbox \in [Procs -> Seq(Requests)]
    /\ stalled \subseteq Procs
    /\ stage \in [Procs -> Stages]
    /\ ending \in [Procs -> {"none", "exited", "killed", "failed"}]
    /\ made \in [Procs -> Nat]
    /\ buffer \in [Procs -> Seq([stream : Streams, chunk : Nat])]
    /\ \A p \in Procs : Len(buffer[p]) <= ReplayLimit
    /\ kept \in [Procs -> SUBSET Nat]
    /\ events \in Seq(ProcEvents) /\ Len(events) <= EventCap
    /\ lagged \in BOOLEAN

ProcInit ==
    /\ kind = [p \in Procs |-> "none"]
    /\ child = [p \in Procs |-> "none"]
    /\ holder = [p \in Procs |-> FALSE]
    /\ listed = {}
    /\ reader = [p \in Procs |-> [s \in Streams |-> Off]]
    /\ gate = [p \in Procs |-> TRUE]
    /\ control = [p \in Procs |-> "off"]
    /\ inbox = [p \in Procs |-> <<>>]
    /\ stalled = {}
    /\ killed = [p \in Procs |-> FALSE]
    /\ stage = [p \in Procs |-> "none"]
    /\ ending = [p \in Procs |-> "none"]
    /\ made = [p \in Procs |-> 0]
    /\ buffer = [p \in Procs |-> <<>>]
    /\ kept = [p \in Procs |-> {}]
    /\ events = <<>>
    /\ lagged = FALSE

-----------------------------------------------------------------------------
(* Bounded sequences.                                                       *)

\* The last n elements of s.
LastN(s, n) == IF Len(s) <= n THEN s ELSE SubSeq(s, Len(s) - n + 1, Len(s))

\* Faulty variant: nothing makes room.
PushChunkUnbounded(b, c) == Append(b, c)
\* ProcessOutputBuffer::push: the oldest chunks make room.
PushChunk(b, c) == LastN(Append(b, c), ReplayLimit)

\* tokio broadcast: a slow receiver loses the oldest events.
Emit(es) ==
    /\ events' = LastN(events \o es, EventCap)
    /\ lagged' = (lagged \/ Len(events \o es) > EventCap)
Quiet == UNCHANGED <<events, lagged>>

-----------------------------------------------------------------------------
(* Start.                                                                   *)

\* start and start_pty: a command that cannot be spawned changes nothing.
StartProcess(p, k) ==
    /\ kind[p] = "none"
    /\ kind' = [kind EXCEPT ![p] = k]
    /\ child' = [child EXCEPT ![p] = "alive"]
    /\ listed' = listed \cup {p}
    /\ reader' = [reader EXCEPT ![p] =
                     [s \in Streams |-> IF s \in StreamsOf(k) THEN Idle ELSE Off]]
    /\ control' = [control EXCEPT ![p] = "on"]
    /\ stage' = [stage EXCEPT ![p] = "waiting"]
    /\ UNCHANGED <<holder, gate, inbox, stalled, killed, ending, made, buffer,
                   kept>>
    /\ Quiet

-----------------------------------------------------------------------------
(* The child, outside the server.                                           *)

\* The child exits by itself or because it was told to; a descendant that
\* inherited its output may keep that open.
ChildExits(p) ==
    /\ child[p] = "alive"
    /\ child' = [child EXCEPT ![p] = "exited"]
    /\ \E h \in BOOLEAN : holder' = [holder EXCEPT ![p] = h]
    /\ UNCHANGED <<kind, listed, reader, gate, control, inbox, stalled, killed,
                   stage, ending, made, buffer, kept>>
    /\ Quiet

HolderLeaves(p) ==
    /\ holder[p]
    /\ holder' = [holder EXCEPT ![p] = FALSE]
    /\ UNCHANGED <<kind, child, listed, reader, gate, control, inbox, stalled,
                   killed, stage, ending, made, buffer, kept>>
    /\ Quiet

-----------------------------------------------------------------------------
(* Readers: spawn_output_reader and spawn_pty_reader.                       *)

SetReader(p, s, r) == reader' = [reader EXCEPT ![p][s] = r]
ReaderOnly == UNCHANGED <<kind, child, holder, listed, gate, control, inbox,
                          stalled, killed, stage, ending>>

\* Output the child left behind can be read after it has exited.
ReadChunk(p, s) ==
    /\ reader[p][s].at = "idle"
    /\ made[p] < MaxChunks
    /\ made' = [made EXCEPT ![p] = @ + 1]
    /\ SetReader(p, s, [at |-> "read", chunk |-> made[p] + 1])
    /\ UNCHANGED <<buffer, kept>>
    /\ ReaderOnly
    /\ Quiet

\* The PTY reader takes the gate's lock here and drops the chunk when the
\* gate is closed; it keeps the lock until the event is sent.
KeepChunk(p, s) ==
    /\ reader[p][s].at = "read"
    /\ IF gate[p]
       THEN /\ buffer' = [buffer EXCEPT ![p] =
                   PushChunk(@, [stream |-> s, chunk |-> reader[p][s].chunk])]
            /\ kept' = [kept EXCEPT ![p] = @ \cup {reader[p][s].chunk}]
            /\ SetReader(p, s, [reader[p][s] EXCEPT !.at = "pushed"])
       ELSE /\ SetReader(p, s, Idle)
            /\ UNCHANGED <<buffer, kept>>
    /\ UNCHANGED made
    /\ ReaderOnly
    /\ Quiet

SendChunk(p, s) ==
    /\ reader[p][s].at = "pushed"
    /\ SetReader(p, s, Idle)
    /\ Emit(<<OutputEvent(p, s, reader[p][s].chunk)>>)
    /\ UNCHANGED <<made, buffer, kept>>
    /\ ReaderOnly

\* End of the stream: Ok(0), or EIO from a PTY whose slave is closed.
ReadEnd(p, s) ==
    /\ reader[p][s].at = "idle"
    /\ child[p] = "exited" /\ ~holder[p]
    /\ SetReader(p, s, Done)
    /\ UNCHANGED <<made, buffer, kept>>
    /\ ReaderOnly
    /\ Quiet

ReadFails(p, s) ==
    /\ reader[p][s].at = "idle"
    /\ SetReader(p, s, Done)
    /\ Emit(<<EndEvent(p, "failed")>>)
    /\ UNCHANGED <<made, buffer, kept>>
    /\ ReaderOnly

\* An aborted reader task stops where it waits, not between push and send.
ReadCut(p, s) ==
    /\ stage[p] = (IF s = "stdout" THEN "cut stdout" ELSE "cut stderr")
    /\ kind[p] = "pipe"
    /\ reader[p][s].at = "idle"
    /\ SetReader(p, s, Done)
    /\ UNCHANGED <<made, buffer, kept>>
    /\ ReaderOnly
    /\ Quiet

-----------------------------------------------------------------------------
(* The watcher: the task that start and start_pty spawn.                    *)

WatcherOnly == UNCHANGED <<kind, reader, control, inbox, stalled, made, buffer,
                           kept>>
SetStage(p, v) == stage' = [stage EXCEPT ![p] = v]

\* child.wait() returns.
WaitReturns(p) ==
    /\ stage[p] = "waiting"
    /\ child[p] = "exited"
    /\ SetStage(p, "ended")
    /\ \E how \in {"exited", "failed"} : ending' = [ending EXCEPT ![p] = how]
    /\ UNCHANGED <<child, holder, listed, gate, killed>>
    /\ WatcherOnly
    /\ Quiet

\* kill_rx fires: child.kill() also waits for the child.
KillReturns(p) ==
    /\ stage[p] = "waiting"
    /\ kind[p] = "pipe"
    /\ killed[p]
    /\ child' = [child EXCEPT ![p] = "exited"]
    /\ \E h \in BOOLEAN : holder' = [holder EXCEPT ![p] = @ \/ h]
    /\ SetStage(p, "ended")
    /\ ending' = [ending EXCEPT ![p] = "killed"]
    /\ UNCHANGED <<listed, gate, killed>>
    /\ WatcherOnly
    /\ Quiet

Unlist(p) ==
    /\ stage[p] = "ended"
    /\ listed' = listed \ {p}
    /\ SetStage(p, "stdout")
    /\ UNCHANGED <<child, holder, gate, killed, ending>>
    /\ WatcherOnly
    /\ Quiet

\* drain_output_reader, and the wait for reader_done of a PTY.
AfterDrain(p) == IF kind[p] = "pipe" /\ stage[p] \in {"stdout", "cut stdout"}
                 THEN "stderr" ELSE "drained"
Drained(p, s) ==
    /\ stage[p] \in (IF s = "stdout" THEN {"stdout", "cut stdout"}
                                     ELSE {"stderr", "cut stderr"})
    /\ reader[p][s].at = "done"
    /\ SetStage(p, AfterDrain(p))
    /\ UNCHANGED <<child, holder, listed, gate, killed, ending>>
    /\ WatcherOnly
    /\ Quiet

\* Faulty variants: the reader of a pipe is left behind; a PTY has no timeout.
DrainTimeoutNoAbort(p, s) ==
    /\ stage[p] = s
    /\ reader[p][s].at # "done"
    /\ SetStage(p, AfterDrain(p))
    /\ UNCHANGED <<child, holder, listed, gate, killed, ending>>
    /\ WatcherOnly
    /\ Quiet
DrainTimeoutPipe(p, s) == kind[p] = "pipe" /\ DrainTimeoutNoAbort(p, s)
\* The drain times out: a pipe's reader task is aborted and awaited, a PTY's
\* reader thread is left behind.
DrainTimeout(p, s) ==
    /\ stage[p] = s
    /\ reader[p][s].at # "done"
    /\ SetStage(p, IF kind[p] = "pty" THEN "drained"
                   ELSE IF s = "stdout" THEN "cut stdout" ELSE "cut stderr")
    /\ UNCHANGED <<child, holder, listed, gate, killed, ending>>
    /\ WatcherOnly
    /\ Quiet

\* What the watcher publishes.  A kill that failed is reported as well.
EndEvents(p, failed) ==
    IF ending[p] = "failed" THEN <<EndEvent(p, "failed")>>
    ELSE IF failed THEN <<EndEvent(p, "exited"), EndEvent(p, "failed")>>
    ELSE <<EndEvent(p, "exited")>>

\* A PTY's gate is closed and the exit published under the gate's lock, which
\* a reader between push and send still holds.
PublishEnd(p) ==
    /\ stage[p] = "drained"
    /\ kind[p] = "pty" => \A s \in Streams : reader[p][s].at # "pushed"
    /\ SetStage(p, "over")
    /\ gate' = [gate EXCEPT ![p] = (kind[p] = "pipe")]
    /\ \E failed \in (IF ending[p] = "killed" THEN BOOLEAN ELSE {FALSE}) :
           Emit(EndEvents(p, failed))
    /\ UNCHANGED <<child, holder, listed, killed, ending>>
    /\ WatcherOnly

-----------------------------------------------------------------------------
(* Control: write_input, resize_terminal and abort, and who serves them.    *)

PipesOnly == UNCHANGED <<kind, child, holder, listed, reader, gate, stage,
                         ending, made, buffer, kept>>
ControlOnly == PipesOnly /\ UNCHANGED stalled

\* send_control.  A pipe's channel is bounded, and the sender waits for room;
\* the PTY's is not (the bound is the model's).  A resize of a pipe does
\* nothing, and its kill is a oneshot of its own, which needs no writer.
SendControl(p, r) ==
    /\ p \in listed
    /\ \/ /\ r = "kill" /\ kind[p] = "pipe"
          /\ ~killed[p]
          /\ killed' = [killed EXCEPT ![p] = TRUE]
          /\ UNCHANGED inbox
       \/ /\ r = "input" \/ kind[p] = "pty"
          /\ control[p] = "on"
          /\ Len(inbox[p]) < MaxInputs
          /\ inbox' = [inbox EXCEPT ![p] = Append(@, r)]
          /\ UNCHANGED killed
    /\ UNCHANGED control
    /\ ControlOnly
    /\ Quiet

\* input_tx.send().await on a full channel: the sender waits, and its clone of
\* the record keeps the channel open.
AwaitRoom(p) ==
    /\ p \in listed /\ kind[p] = "pipe"
    /\ control[p] = "on"
    /\ Len(inbox[p]) >= MaxInputs
    /\ stalled' = stalled \cup {p}
    /\ UNCHANGED <<inbox, control, killed>>
    /\ PipesOnly
    /\ Quiet

\* The writer took an input: the one that waited is sent.
RoomFound(p) ==
    /\ p \in stalled
    /\ control[p] = "on"
    /\ Len(inbox[p]) < MaxInputs
    /\ inbox' = [inbox EXCEPT ![p] = Append(@, "input")]
    /\ stalled' = stalled \ {p}
    /\ UNCHANGED <<control, killed>>
    /\ PipesOnly
    /\ Quiet

\* The writer ended: InputClosed.
RoomGone(p) ==
    /\ p \in stalled
    /\ control[p] = "ended"
    /\ stalled' = stalled \ {p}
    /\ UNCHANGED <<inbox, control, killed>>
    /\ PipesOnly
    /\ Quiet

TakeControl(p) ==
    /\ control[p] = "on"
    /\ inbox[p] # <<>>
    /\ inbox' = [inbox EXCEPT ![p] = Tail(@)]
    /\ ControlOnly

\* Writing fails when nobody reads the input: the thread ends.
ServeInput(p) ==
    /\ TakeControl(p)
    /\ Head(inbox[p]) = "input"
    /\ \/ Quiet /\ UNCHANGED control
       \/ /\ Emit(<<EndEvent(p, "failed")>>)
          /\ control' = [control EXCEPT ![p] = "ended"]
    /\ UNCHANGED killed

ServeResize(p) ==
    /\ TakeControl(p)
    /\ Head(inbox[p]) = "resize"
    /\ \/ Quiet
       \/ Emit(<<EndEvent(p, "failed")>>)
    /\ UNCHANGED <<control, killed>>

\* The control thread of a PTY ends after a kill, whether it worked or not.
ServeKill(p) ==
    /\ TakeControl(p)
    /\ Head(inbox[p]) = "kill"
    /\ \/ Quiet /\ killed' = [killed EXCEPT ![p] = TRUE]
       \/ Emit(<<EndEvent(p, "failed")>>) /\ UNCHANGED killed
    /\ control' = [control EXCEPT ![p] = "ended"]

\* The last sender is dropped with the record.
ControlEnds(p) ==
    /\ control[p] = "on"
    /\ p \notin listed \cup stalled
    /\ inbox[p] = <<>>
    /\ control' = [control EXCEPT ![p] = "ended"]
    /\ UNCHANGED <<inbox, killed>>
    /\ ControlOnly
    /\ Quiet

-----------------------------------------------------------------------------
ReaderStep(p, s) == KeepChunk(p, s) \/ SendChunk(p, s)
WatcherStep(p) ==
    \/ WaitReturns(p) \/ KillReturns(p) \/ Unlist(p) \/ PublishEnd(p)
    \/ \E s \in Streams : Drained(p, s) \/ DrainTimeout(p, s)

ProcNext ==
    \E p \in Procs :
        \/ \E k \in Kinds : StartProcess(p, k)
        \/ ChildExits(p) \/ HolderLeaves(p)
        \/ \E s \in Streams : \/ ReadChunk(p, s) \/ ReaderStep(p, s)
                              \/ ReadEnd(p, s) \/ ReadFails(p, s)
                              \/ ReadCut(p, s)
        \/ WatcherStep(p)
        \/ \E r \in Controls : SendControl(p, r)
        \/ ServeInput(p) \/ ServeResize(p) \/ ServeKill(p) \/ ControlEnds(p)

=============================================================================
