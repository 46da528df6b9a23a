------------------------------ MODULE EventSocket ------------------------------
(***************************************************************************)
(* The event stream of a client: the broadcast hub (WsHub), the socket     *)
(* task that merges what the hub sends with what is sent to this client    *)
(* alone, the commands the client sends, and the filter that decides which *)
(* session events it may see (processes_and_websocket.rs).                 *)
(*                                                                         *)
(* One task serves a socket: it handles commands, and it is the only       *)
(* receiver of the direct channel those commands answer through.           *)
(***************************************************************************)
EXTENDS Naturals, Sequences, SequencesExt

CONSTANTS Sessions,    \* sessions events are published for
          HubCap,      \* capacity of the hub, per receiver
          DirectCap,   \* capacity of the direct channel of a socket
          CommandCap,  \* WS_COMMAND_CHANNEL_CAPACITY
          MaxConnects, \* bound on connections
          MaxCommands, \* bound on commands
          MaxSessionEvents \* bound on session events

ASSUME EventSocketAssumption ==
    /\ {HubCap, CommandCap} \subseteq Nat \ {0}
    /\ DirectCap \in Nat /\ DirectCap >= 2  \* what a connection is sent first
    /\ {MaxConnects, MaxCommands, MaxSessionEvents} \subseteq Nat

VARIABLES
    conn,       \* "closed", "open", "deaf" (the client left), "blocked"
    hubq,       \* hub events this socket has not received yet
    missed,     \* the hub has dropped events of this socket
    direct,     \* direct channel
    commands,   \* commands the socket has not handled yet
    boardSubs,  \* board_session_subscriptions
    chatSubs,   \* chat_session_subscriptions, an Option
    boards,     \* SessionManager.board_session_ids
    got,        \* events the client of this connection received
    gap,        \* history: this connection lost events or part of a replay
    counts      \* history: connections, commands and session events so far,
                \* the sessions that had any, and those that were a board's

socketVars == <<conn, hubq, missed, direct, commands, boardSubs, chatSubs,
                boards, got, gap, counts>>

Reply == [type |-> "reply"]
EveryChat == [any |-> TRUE, ids |-> {}]
ChatSubs == {EveryChat} \cup [any : {FALSE}, ids : SUBSET Sessions]
\* An Output or ChatRecoveryRequired event, and any other event of a session.
ChatEvent(s) == [type |-> "chat", session |-> s]
StatusEvent(s) == [type |-> "status", session |-> s]
SessionEvents == {ChatEvent(s) : s \in Sessions}
                     \cup {StatusEvent(s) : s \in Sessions}

Counts == [connects : Nat, commands : Nat, events : Nat,
           spoken : SUBSET Sessions, owned : SUBSET Sessions]

SocketTypeOK ==
    /\ conn \in {"closed", "open", "deaf", "blocked"}
    /\ Len(hubq) <= HubCap
    /\ Len(direct) <= DirectCap
    /\ Len(commands) <= CommandCap
    /\ boardSubs \subseteq Sessions
    /\ chatSubs \in ChatSubs
    /\ boards \subseteq Sessions
    /\ {missed, gap} \subseteq BOOLEAN
    /\ counts \in Counts

SocketInit ==
    /\ conn = "closed"
    /\ hubq = <<>> /\ missed = FALSE
    /\ direct = <<>> /\ commands = <<>>
    /\ boardSubs = {} /\ chatSubs = EveryChat
    /\ boards = {}
    /\ got = {} /\ gap = FALSE
    /\ counts = [connects |-> 0, commands |-> 0, events |-> 0, spoken |-> {},
                 owned |-> {}]

-----------------------------------------------------------------------------
(* The hub.                                                                 *)

\* WsHub::publish: each receiver keeps the newest HubCap events.
Received(es) ==
    IF conn = "closed" THEN UNCHANGED <<hubq, missed, gap>>
    ELSE LET all == hubq \o es
             lost == Len(all) > HubCap
         IN /\ hubq' = IF lost THEN SubSeq(all, Len(all) - HubCap + 1, Len(all))
                       ELSE all
            /\ missed' = (missed \/ lost)
            /\ gap' = (gap \/ lost)

\* An agent run or a board publishes an event of a session.
PublishSession(e) ==
    /\ counts.events < MaxSessionEvents
    /\ counts' = [counts EXCEPT !.events = @ + 1,
                                !.spoken = @ \cup {e.session}]
    /\ Received(<<e>>)
    /\ UNCHANGED <<conn, direct, commands, boardSubs, chatSubs, boards, got>>

\* create_or_update_scoped, mark_board_session and remember_persisted_session
\* classify a session before its first run starts.
RegisterBoard(s) ==
    /\ s \notin boards
    /\ s \notin counts.spoken
    /\ boards' = boards \cup {s}
    /\ counts' = [counts EXCEPT !.owned = @ \cup {s}]
    /\ UNCHANGED <<conn, hubq, missed, direct, commands, boardSubs, chatSubs,
                   got, gap>>

\* delete_session: its run is told to stop, but what it publishes until it
\* does, and what is queued, is no longer classified.  The list of sessions
\* goes to every client.
DeleteSession(s) ==
    /\ s \in boards
    /\ boards' = boards \ {s}
    /\ Received(<<Reply>>)
    /\ UNCHANGED <<conn, direct, commands, boardSubs, chatSubs, got, counts>>

-----------------------------------------------------------------------------
(* Connecting and leaving.                                                  *)

\* handle_socket: the hub is subscribed before anything is sent.
Connect ==
    /\ conn = "closed"
    /\ counts.connects < MaxConnects
    /\ counts' = [counts EXCEPT !.connects = @ + 1]
    /\ conn' = "open"
    /\ hubq' = <<>> /\ missed' = FALSE
    /\ direct' = <<Reply, Reply>>  \* Connected, ActiveSessions
    /\ commands' = <<>>
    /\ boardSubs' = {} /\ chatSubs' = EveryChat
    /\ got' = {} /\ gap' = FALSE
    /\ UNCHANGED boards

\* The client goes away; its task notices when it sends.
Leave ==
    /\ conn = "open"
    /\ conn' = "deaf"
    /\ UNCHANGED <<hubq, missed, direct, commands, boardSubs, chatSubs, boards,
                   got, gap, counts>>

-----------------------------------------------------------------------------
(* Delivery.                                                                *)

\* ws_event_visible_to_connection, with the subscriptions and the classification
\* of the moment of delivery.
Visible(e) ==
    IF e.type \notin {"chat", "status"} THEN TRUE
    ELSE IF e.session \in boards THEN e.session \in boardSubs
    ELSE e.type = "chat" /\ ~chatSubs.any => e.session \in chatSubs.ids

\* send_ws_event: to a client that left it fails, and the socket closes.
Deliver(e) ==
    IF ~Visible(e) THEN UNCHANGED <<conn, got>>
    ELSE IF conn = "deaf" THEN conn' = "closed" /\ UNCHANGED got
    ELSE got' = got \cup {e} /\ UNCHANGED conn

DeliverDirect ==
    /\ conn \in {"open", "deaf"}
    /\ direct # <<>>
    /\ Deliver(Head(direct))
    /\ direct' = Tail(direct)
    /\ UNCHANGED <<hubq, missed, commands, boardSubs, chatSubs, boards, gap,
                   counts>>

DeliverHub ==
    /\ conn \in {"open", "deaf"}
    /\ ~missed
    /\ hubq # <<>>
    /\ Deliver(Head(hubq))
    /\ hubq' = Tail(hubq)
    /\ UNCHANGED <<missed, direct, commands, boardSubs, chatSubs, boards, gap,
                   counts>>

\* RecvError::Lagged: the client is told that events were skipped.
DeliverLagged ==
    /\ conn \in {"open", "deaf"}
    /\ missed
    /\ missed' = FALSE
    /\ Deliver(Reply)
    /\ UNCHANGED <<hubq, direct, commands, boardSubs, chatSubs, boards, gap,
                   counts>>

-----------------------------------------------------------------------------
(* Commands.                                                                *)

\* The reader task forwards a command and waits while the channel is full.
ClientSends(c) ==
    /\ conn = "open"
    /\ Len(commands) < CommandCap
    /\ counts.commands < MaxCommands
    /\ counts' = [counts EXCEPT !.commands = @ + 1]
    /\ commands' = Append(commands, c)
    /\ UNCHANGED <<conn, hubq, missed, direct, boardSubs, chatSubs, boards,
                   got, gap>>

TakeCommand(op) ==
    /\ conn \in {"open", "deaf"}
    /\ commands # <<>>
    /\ Head(commands).op = op
    /\ commands' = Tail(commands)
    /\ UNCHANGED <<hubq, missed, boards, got, counts>>

\* direct_tx.send().await in the task that receives from the same channel: it
\* waits for room nobody will make.
SendDirect(es) ==
    IF Len(direct) = DirectCap
    THEN conn' = "blocked" /\ UNCHANGED direct
    ELSE direct' = direct \o es /\ UNCHANGED conn

\* Ping, and a StartSession, AbortSession, ProcessInput or ResizeTerminal that
\* fails: one answer.
HandleAnswered ==
    /\ TakeCommand("ask")
    /\ SendDirect(<<Reply>>)
    /\ UNCHANGED <<boardSubs, chatSubs, gap>>

\* ... and one of those that succeeds: none.
HandleSilent ==
    /\ TakeCommand("tell")
    /\ UNCHANGED <<conn, direct, boardSubs, chatSubs, gap>>

\* Faulty variant: the last event that fits is lost.
HandleSubscribeShort(agents, replay) ==
    LET c == Head(commands)
        all == <<Reply>> \o agents \o replay
        room == DirectCap - Len(direct)
    IN /\ TakeCommand("subscribe")
       /\ boardSubs' = c.boards \cap boards
       /\ chatSubs' = c.chats
       /\ SendDirect(SubSeq(all, 1, IF room < Len(all) THEN room ELSE Len(all) - 1))
       /\ gap' = (gap \/ Len(all) > room)
\* Subscribe.  agents: the agent events that are replayed, those it may not see
\* left out; replay: the output snapshots of the processes the client names.
\* try_send drops what does not fit: the agent loop breaks, and a process loop
\* breaks for its process.
HandleSubscribe(agents, replay) ==
    LET c == Head(commands)
        subs == c.boards \cap boards
        Shown(e) == IF e.session \in boards THEN e.session \in subs
                    ELSE e.type = "chat" /\ ~c.chats.any
                             => e.session \in c.chats.ids
        all == <<Reply>> \o agents \o replay
        room == DirectCap - Len(direct)
    IN /\ TakeCommand("subscribe")
       /\ \A i \in DOMAIN agents : Shown(agents[i])
       /\ boardSubs' = subs
       /\ chatSubs' = c.chats
       /\ SendDirect(SubSeq(all, 1, IF room < Len(all) THEN room ELSE Len(all)))
       /\ gap' = (gap \/ Len(all) > room)

=============================================================================
