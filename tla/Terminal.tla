------------------------------- MODULE Terminal -------------------------------
(***************************************************************************)
(* Processes and the client that watches them: ProcessSupervisor and       *)
(* EventSocket joined by the bridge that turns process events into hub     *)
(* events, by the replay a Subscribe command takes from the live           *)
(* processes, and by the control commands that come over the socket.       *)
(***************************************************************************)
EXTENDS ProcessSupervisor, EventSocket

VARIABLE old  \* history: chunks of each process the client was not owed

vars == <<procVars, socketVars, old>>

ProcTask == UNCHANGED procVars
SocketTask == UNCHANGED socketVars

\* What a client may send, and what it may be sent.  A subscription names any
\* boards, chats and (finitely many) processes.
Commands == [op : {"ask", "tell"}]
    \cup [op : {"control"}, proc : Procs, what : Controls \ {"kill"}]
    \cup [op : {"subscribe"}, boards : SUBSET Sessions, chats : ChatSubs,
           procs : {ps \in SUBSET Procs : IsFiniteSet(ps)}]
ClientEvents == ProcEvents \cup SessionEvents \cup {Reply}

TypeOK ==
    /\ ProcTypeOK /\ SocketTypeOK
    /\ hubq \in Seq(ClientEvents)
    /\ direct \in Seq(ClientEvents)
    /\ commands \in Seq(Commands)
    /\ got \subseteq ClientEvents
    /\ old \in [Procs -> SUBSET Nat]
Init == ProcInit /\ SocketInit /\ old = [p \in Procs |-> {}]

-----------------------------------------------------------------------------
\* spawn_process_event_bridge: the oldest event goes to the hub.  A bridge
\* that lagged logs a warning and goes on.
Bridge ==
    /\ events # <<>>
    /\ events' = Tail(events)
    /\ Received(<<Head(events)>>)
    /\ UNCHANGED <<kind, child, holder, listed, reader, gate, control, inbox,
                   stalled, killed, stage, ending, made, buffer, kept, lagged>>
    /\ UNCHANGED <<conn, direct, commands, boardSubs, chatSubs, boards, got,
                   counts>>

\* output_snapshot: what the replay buffer of a live process holds, as events.
Snapshot(p) ==
    IF p \notin listed THEN <<>>
    ELSE [i \in DOMAIN buffer[p] |->
             OutputEvent(p, buffer[p][i].stream, buffer[p][i].chunk)]

\* Process ids are replayed one after the other, each once.
Replay(order) == FlattenSeq([i \in DOMAIN order |-> Snapshot(order[i])])

\* The agent events are those of the sessions that run: any event of them.
Subscribe ==
    /\ commands # <<>>
    /\ \E agents \in {<<>>} \cup {<<ChatEvent(s)>> : s \in counts.spoken} :
           HandleSubscribe(agents, Replay(SetToSeq(Head(commands).procs)))
    /\ old' = [p \in Procs |->
                 IF p \in Head(commands).procs
                 THEN old[p] \ {e.chunk : e \in ToSet(Snapshot(p))} ELSE old[p]]
    /\ ProcTask

\* The socket's task waits for nothing: while it waits to write to a process it
\* handles no command and delivers no event.
Free == stalled = {}

\* ProcessInput and ResizeTerminal: answered only when they fail.  A resize of a
\* pipe does nothing, and input that meets a full pipe inbox makes the task wait.
ControlCommand ==
    /\ TakeCommand("control")
    /\ UNCHANGED <<boardSubs, chatSubs, gap>>
    /\ LET c == Head(commands)
           ignored == kind[c.proc] = "pipe" /\ c.what = "resize"
       IN  \/ /\ c.proc \in listed /\ ignored
              /\ UNCHANGED <<conn, direct>> /\ ProcTask
           \/ /\ c.proc \in listed /\ ~ignored /\ control[c.proc] = "on"
              /\ SendControl(c.proc, c.what) \/ AwaitRoom(c.proc)
              /\ UNCHANGED <<conn, direct>>
           \/ /\ c.proc \in listed => ~ignored /\ control[c.proc] # "on"
              /\ SendDirect(<<Reply>>) /\ ProcTask

\* write_input returns to the command that waited for room.
ResumeInput ==
    \E p \in stalled :
        \/ RoomFound(p) /\ SocketTask
        \/ /\ RoomGone(p) /\ SendDirect(<<Reply>>)
           /\ UNCHANGED <<hubq, missed, commands, boardSubs, chatSubs, boards, got,
                          gap, counts>>

ClientCommand == \E c \in Commands : ClientSends(c)

Delivery == Free /\ (DeliverDirect \/ DeliverHub \/ DeliverLagged)
Command == Free /\ (HandleAnswered \/ HandleSilent)

Next ==
    \/ /\ \/ ProcNext /\ SocketTask
          \/ Bridge
          \/ Free /\ ControlCommand
          \/ ResumeInput
          \/ /\ \/ Delivery \/ Command \/ Leave \/ ClientCommand
                \/ \E e \in SessionEvents : PublishSession(e)
                \/ \E s \in Sessions : RegisterBoard(s) \/ DeleteSession(s)
             /\ ProcTask
       /\ UNCHANGED old
    \/ Connect /\ ProcTask /\ old' = kept
    \/ Free /\ Subscribe

Spec == Init /\ [][Next]_vars

ProcStep(A) == A /\ SocketTask /\ UNCHANGED old

\* Nobody can read what is written any more: each write ends at once.
WriteToNobody(p) == child[p] = "exited" /\ ~holder[p] /\ ServeInput(p)

\* Tasks and threads of the server run, and its timeouts fire; nothing is
\* assumed of children, descendants and clients, and a write of input may wait
\* as long as somebody could read it.
Fairness ==
    /\ \A p \in Procs :
          /\ WF_vars(ProcStep(WatcherStep(p)))
          /\ \A s \in Streams : /\ WF_vars(ProcStep(ReaderStep(p, s)))
                               /\ WF_vars(ProcStep(ReadCut(p, s)))
    /\ WF_vars(Bridge /\ UNCHANGED old)
    /\ \A p \in Procs : WF_vars(ProcStep(WriteToNobody(p)))
    /\ WF_vars(ResumeInput /\ UNCHANGED old)
    /\ WF_vars(Free /\ (DeliverHub \/ DeliverLagged) /\ ProcTask /\ UNCHANGED old)
FairSpec == Spec /\ Fairness

-----------------------------------------------------------------------------
(* Properties.                                                              *)

\* Output on its way to the client, in order: what the bridge and the hub
\* still hold.
Pipeline == hubq \o events

\* Once the exit of a process is published no reader can still send a chunk
\* of it, even when a descendant keeps its output open (lib.rs:300-304 and
\* the tests pty_exit_stays_prompt_... and pipe_exit_is_published_after_...).
NoOutputFollowsExit ==
    \A p \in Procs :
        /\ stage[p] = "over" => \A s \in Streams : reader[p][s].at # "pushed"
        /\ \A i \in DOMAIN Pipeline :
              Pipeline[i].type = "exited" /\ Pipeline[i].proc = p
                  => \A j \in (i + 1)..Len(Pipeline) :
                        ~(/\ Pipeline[j].type = "output"
                          /\ Pipeline[j].proc = p)

Numbers(es, p) ==
    {es[i].chunk : i \in {j \in DOMAIN es : /\ es[j].type = "output"
                                            /\ es[j].proc = p}}
Sent(p) == {e.chunk : e \in {f \in got : f.type = "output" /\ f.proc = p}}
InHand(p) == {reader[p][s].chunk : s \in {t \in Streams :
                                              reader[p][t].at = "pushed"}}

\* A client that subscribes to a live process misses nothing between the
\* replayed tail and the live stream: what the buffer held when it subscribed,
\* and every chunk since it connected, has reached it or is on its way, unless
\* the hub dropped events of this client or of the bridge, or the replay did
\* not fit.  It rests on the hub being subscribed before the snapshot is
\* taken, and on a chunk being buffered before it is sent.
NoGapAfterReplay ==
    conn = "open" /\ ~gap /\ ~lagged =>
        \A p \in Procs :
            kept[p] \ old[p] \subseteq Sent(p) \cup Numbers(direct, p)
                                    \cup Numbers(Pipeline, p) \cup InHand(p)

\* The task of a socket never waits for room in the direct channel it alone
\* empties (processes_and_websocket.rs:212-214).
HandlerNeverWaits == conn # "blocked"

\* "A client must name the exact board session it has opened before live or
\* replayed chat events for that session are delivered" (websocket.rs:12-13).
\* No run checks it: the deletion of a session whose run still speaks breaks it.
BoardChatsAreAskedFor ==
    [][\A e \in got' \ got :
          e.type = "chat" /\ e.session \in counts.owned
              => e.session \in boardSubs]_vars

\* Once the child has exited, or a pipe process was killed that ignores all
\* else, the end of the process is published, even when a descendant keeps its
\* output open for ever or a pipe never runs dry.
EndIsPublished ==
    \A p \in Procs : child[p] = "exited" \/ (kind[p] = "pipe" /\ killed[p])
                        ~> stage[p] = "over"

\* The socket's task waits to write to a process that may still read.
Unread == \E p \in stalled : child[p] = "alive" \/ holder[p]

\* A published exit reaches a client that stays, or it was told it fell behind,
\* unless its task waits for ever on input that somebody leaves unread.
ExitReachesClient ==
    \A p \in Procs :
        \/ <>[]Unread
        \/ (conn = "open" /\ EndEvent(p, "exited") \in ToSet(Pipeline))
              ~> (conn # "open" \/ gap \/ lagged \/ EndEvent(p, "exited") \in got)

\* What a viewer counts on: every end is published and arrives.
ExitIsServed == EndIsPublished /\ ExitReachesClient
=============================================================================
