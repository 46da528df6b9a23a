------------------------------- MODULE CodexTurn -------------------------------
(***************************************************************************)
(* A client of the Codex app-server: one process per call, JSON lines over *)
(* its pipes.  A live turn is set up with three requests; the lines read   *)
(* meanwhile and afterwards become notifications for the task that puts    *)
(* the reply together.  Other calls are one request, or a compaction that  *)
(* waits for its notification.                                             *)
(*                                                                         *)
(* The server is not part of the repository: it may tell of other turns    *)
(* and threads, ask something itself, refuse, fall silent and die.         *)
(***************************************************************************)
EXTENDS Naturals, Sequences, SequencesExt, FiniteSets, TLC

CONSTANTS LineRoom,  \* lines the pipe of the server holds
          NoteRoom   \* capacity of the channel between client and task

ASSUME CodexTurnAssumption == {LineRoom, NoteRoom} \subseteq Nat \ {0}

VARIABLES
    plan,    \* the call, and what the server will do
    server,  \* how far it is
    pipe,    \* lines on the way to the client
    client,  \* the client: its step, the turn it follows, the abort
    notes,   \* notifications on the way to the task
    said,    \* what the task has made of them
    ended    \* how the call ended

codexVars == <<plan, server, pipe, client, notes, said, ended>>

NoTurn == "none"
NoReply == [of |-> NoTurn, item |-> 0, whole |-> FALSE]
Part(note) == [of |-> note.turn, item |-> note.item, whole |-> FALSE]
Full(note) == [of |-> note.turn, item |-> note.item, whole |-> TRUE]

Silent == [final |-> NoReply, waiting |-> NoReply, streamed |-> {}, done |-> {},
           tools |-> {}, usage |-> NoTurn, error |-> FALSE, shown |-> FALSE]

Asking == {"init", "thread", "turn"}
Awaited(at) == CASE at = "init" -> 1 [] at = "thread" -> 2 [] at = "turn" -> 3

-----------------------------------------------------------------------------
(* The normalizer of notifications *)

TakeWaiting(n, thinking) ==
    IF n.waiting = NoReply THEN n
    ELSE [n EXCEPT !.waiting = NoReply, !.shown = TRUE,
                   !.final = IF thinking THEN @ ELSE n.waiting]

Capture(n, note) ==
    IF note.method = "message" /\ note.phase # "commentary"
    THEN [n EXCEPT !.final = Full(note)] ELSE n

\* An item is shown once; one that was streamed is only captured.
AgentMessage(n, note) ==
    LET got == Capture(n, note)
    IN IF note.item \in n.streamed THEN got
       ELSE IF note.phase # "none" THEN [TakeWaiting(got, TRUE) EXCEPT !.shown = TRUE]
       ELSE [TakeWaiting(got, TRUE) EXCEPT !.waiting = Full(note)]

CompletedItem(n, note) ==
    IF note.item \in n.done THEN Capture(n, note)
    ELSE LET new == [n EXCEPT !.done = @ \cup {note.item}]
         IN CASE note.method = "message" -> AgentMessage(new, note)
              [] note.method = "review" -> [new EXCEPT !.final = Full(note), !.shown = TRUE]
              [] note.method = "tool" -> [new EXCEPT !.tools = @ \cup {note.item}, !.shown = TRUE]
              [] OTHER -> new

TurnCompleted(n, note) ==
    LET all == FoldLeft(CompletedItem, n, note.items)
    IN CASE note.status = "completed" -> TakeWaiting(all, FALSE)
         [] note.status = "failed" -> [TakeWaiting(all, TRUE) EXCEPT !.error = TRUE, !.shown = TRUE]
         [] OTHER -> TakeWaiting(all, TRUE)

PushNotification(n, note) ==
    CASE note.method = "usage" -> [n EXCEPT !.usage = note.turn]
      [] note.method = "delta" ->
            [n EXCEPT !.streamed = @ \cup {note.item}, !.shown = TRUE, !.final = Part(note)]
      [] note.method = "ended" -> TurnCompleted(n, note)
      [] note.method = "error" -> [n EXCEPT !.error = TRUE, !.shown = TRUE]
      [] note.method = "diff" -> [n EXCEPT !.tools = @ \cup {note.item}, !.shown = TRUE]
      [] OTHER -> CompletedItem(n, note)

-----------------------------------------------------------------------------
(* The server *)

Note(turn, thread, method, item, phase) ==
    [type |-> "note", turn |-> turn, thread |-> thread, method |-> method,
     item |-> item, phase |-> phase]
Ended(turn, status, items) ==
    [type |-> "note", turn |-> turn, thread |-> "mine", method |-> "ended",
     item |-> 0, phase |-> "none", status |-> status, items |-> items]

\* The completed items of a turn, which its last notification may repeat.
Items(script) == SelectSeq(script, LAMBDA note : note.method \in {"message", "tool", "review"})

CodexInit(plans) ==
    /\ plan \in plans
    /\ server = [told |-> 1, answered |-> 0, own |-> 0, other |-> 0, status |-> "none",
                 interrupt |-> FALSE, asked |-> {}, open |-> {}, up |-> TRUE]
    /\ pipe = <<>>
    /\ client = [at |-> "init", turn |-> NoTurn, saw |-> FALSE, strayed |-> {},
                 abort |-> FALSE, heard |-> FALSE, outcome |-> "none"]
    /\ notes = <<>>
    /\ said = Silent
    /\ ended = [at |-> "running", reply |-> NoReply, usage |-> NoTurn]

Write(line) == server.up /\ Len(pipe) < LineRoom /\ pipe' = Append(pipe, line)

Answer ==
    /\ server.answered < server.told
    /\ \E ok \in {TRUE} \cup (IF server.told \in plan.refuses THEN {FALSE} ELSE {}) :
          Write([type |-> "response", id |-> server.told, ok |-> ok,
                 turn |-> IF server.told = 3 /\ plan.gives THEN "own" ELSE NoTurn])
    /\ server' = [server EXCEPT !.answered = server.told]
    /\ UNCHANGED <<plan, client, notes, said, ended>>

\* The turn of the call: at once, or once its start was answered.
TellOwn ==
    /\ server.told >= 3 /\ (plan.early \/ server.answered >= 3)
    /\ server.status = "none"
    /\ LET next == server.own + 1
           status == IF server.interrupt THEN "interrupted" ELSE plan.status
       IN \/ /\ next <= Len(plan.own)
             /\ Write(plan.own[next])
             /\ server' = [server EXCEPT !.own = next]
          \/ /\ next > Len(plan.own) \/ server.interrupt
             /\ Write(Ended("own", status, IF plan.repeats THEN Items(SubSeq(plan.own, 1, server.own))
                                           ELSE <<>>))
             /\ server' = [server EXCEPT !.status = status]
    /\ UNCHANGED <<plan, client, notes, said, ended>>

\* Turns that are not this call's, of its thread and of others.
TellOther ==
    /\ server.told >= 2 /\ server.other < Len(plan.other)
    /\ Write(plan.other[server.other + 1])
    /\ server' = [server EXCEPT !.other = @ + 1]
    /\ UNCHANGED <<plan, client, notes, said, ended>>

Ask ==
    /\ \E id \in plan.asks \ server.asked :
          /\ Write([type |-> "ask", id |-> id])
          /\ server' = [server EXCEPT !.asked = @ \cup {id}, !.open = @ \cup {id}]
    /\ UNCHANGED <<plan, client, notes, said, ended>>

Die ==
    /\ server.up /\ plan.dies
    /\ server' = [server EXCEPT !.up = FALSE]
    /\ UNCHANGED <<plan, pipe, client, notes, said, ended>>

-----------------------------------------------------------------------------
(* The client *)

MatchesThread(note) == note.thread # "other"
IsThreadLevel(note) == note.method = "usage"
ConfirmsActivity(note) == note.method \notin {"usage", "user", "compaction"}

\* Faulty variant: a thread may have any number of turns.
MatchesThreadOnly(note, turn) == TRUE
MatchesTurn(note, turn) == turn = NoTurn \/ note.turn = turn

Forwards(note, turn) ==
    /\ MatchesThread(note)
    /\ IF IsThreadLevel(note)
       THEN client.saw /\ (MatchesTurn(note, turn) \/ note.turn = NoTurn)
       ELSE MatchesTurn(note, turn)

Over(c, outcome) == [c EXCEPT !.at = "over", !.outcome = outcome]

Send(note) == Len(notes) < NoteRoom /\ notes' = Append(notes, note)

\* Of the lines about other turns that reach the task, those with text, and
\* those whose text would wait to be the reply.
Stray(note) ==
    IF note.turn = "own" \/ note.method \notin {"delta", "message", "review"} THEN {}
    ELSE {"text"} \cup (IF note.method = "message" /\ note.phase = "none" THEN {"waits"} ELSE {})

\* Setup forwards every notification, whatever it is about.
ReadSetup(line) ==
    IF line.type # "note" /\ line.id = Awaited(client.at)
    THEN /\ client' = IF line.type = "ask" \/ ~line.ok THEN Over(client, "error")
                      ELSE IF client.at = "turn" THEN [client EXCEPT !.at = "live", !.turn = line.turn]
                      ELSE [client EXCEPT !.at = IF @ = "init" THEN "thread" ELSE "turn"]
         /\ server' = [server EXCEPT !.told = IF client'.at \in Asking THEN Awaited(client'.at) ELSE @]
         /\ UNCHANGED notes
    ELSE IF line.type = "note"
    THEN /\ Send(line)
         /\ client' = [client EXCEPT !.strayed = @ \cup Stray(line)]
         /\ UNCHANGED server
    ELSE /\ server' = IF line.type = "ask" THEN [server EXCEPT !.open = @ \ {line.id}] ELSE server
         /\ UNCHANGED <<client, notes>>

ReadLive(line) ==
    CASE line.type = "response" -> UNCHANGED <<client, server, notes>>
      [] line.type = "ask" ->
            server' = [server EXCEPT !.open = @ \ {line.id}] /\ UNCHANGED <<client, notes>>
      [] line.type = "note" ->
            LET turn == IF client.turn = NoTurn /\ MatchesThread(line) THEN line.turn
                        ELSE client.turn
                known == [client EXCEPT
                             !.turn = turn,
                             !.saw = @ \/ /\ MatchesThread(line) /\ MatchesTurn(line, turn)
                                          /\ line.turn # NoTurn /\ ConfirmsActivity(line)]
            IN /\ IF Forwards(line, turn) THEN Send(line) ELSE UNCHANGED notes
               /\ client' = IF line.method = "ended" /\ MatchesThread(line) /\ MatchesTurn(line, turn)
                            THEN Over(known, line.status) ELSE known
               /\ UNCHANGED server

\* A request reads on until its response; it answers nothing.
ReadRequest(line) ==
    /\ IF line.type # "note" /\ line.id = Awaited(client.at)
       THEN client' = IF line.type = "ask" \/ ~line.ok THEN Over(client, "error")
                      ELSE IF client.at = "init" THEN [client EXCEPT !.at = "thread"]
                      ELSE IF plan.kind = "request" THEN Over(client, "completed")
                      ELSE [client EXCEPT !.at = IF @ = "thread" THEN "turn" ELSE "waiting"]
       ELSE UNCHANGED client
    /\ server' = [server EXCEPT !.told = IF client'.at \in Asking THEN Awaited(client'.at) ELSE @]
    /\ UNCHANGED notes

\* wait_for_context_compaction looks at the thread, not at the turn; the item of the
\* compaction may say that it failed.
ReadCompaction(line) ==
    /\ client' = IF line.type # "note" \/ ~MatchesThread(line) THEN client
                 ELSE IF line.method = "compaction"
                 THEN Over(client, IF line.phase = "failed" THEN "error" ELSE "completed")
                 ELSE IF line.method = "ended" /\ line.status # "completed"
                 THEN Over(client, "error") ELSE client
    /\ UNCHANGED <<server, notes>>

ReadLine ==
    /\ pipe # <<>> /\ client.at # "over"
    /\ LET line == Head(pipe)
       IN CASE plan.kind # "live" /\ client.at \in Asking -> ReadRequest(line)
            [] plan.kind = "live" /\ client.at \in Asking -> ReadSetup(line)
            [] client.at = "live" -> ReadLive(line)
            [] client.at = "waiting" -> ReadCompaction(line)
    /\ pipe' = Tail(pipe)
    /\ UNCHANGED <<plan, said, ended>>

ServerClosed ==
    /\ pipe = <<>> /\ ~server.up /\ client.at # "over"
    /\ client' = Over(client, "error")
    /\ UNCHANGED <<plan, server, pipe, notes, said, ended>>

\* The timeout of a request or of the setup; a live turn has none.
TimeOut ==
    /\ client.at \in Asking \cup {"waiting"}
    /\ client' = Over(client, "error")
    /\ UNCHANGED <<plan, server, pipe, notes, said, ended>>

Abort ==
    /\ plan.aborts /\ ~client.abort /\ ended.at = "running"
    /\ client' = [client EXCEPT !.abort = TRUE]
    /\ UNCHANGED <<plan, server, pipe, notes, said, ended>>

HearAbort ==
    /\ client.at = "live" /\ client.abort /\ ~client.heard
    /\ IF client.turn = NoTurn
       THEN client' = Over(client, "interrupted") /\ UNCHANGED server
       ELSE /\ client' = [client EXCEPT !.heard = TRUE]
            /\ server' = [server EXCEPT !.told = 4, !.interrupt = client.turn = "own"]
    /\ UNCHANGED <<plan, pipe, notes, said, ended>>

\* Faulty variant: a quiet turn counts as interrupted, whether or not anyone asked.
GiveUpUnasked ==
    /\ client.at = "live"
    /\ client' = Over(client, "interrupted")
    /\ UNCHANGED <<plan, server, pipe, notes, said, ended>>

\* Two seconds after the interrupt the turn counts as interrupted.
GiveUp ==
    /\ client.at = "live" /\ client.heard
    /\ client' = Over(client, "interrupted")
    /\ UNCHANGED <<plan, server, pipe, notes, said, ended>>

-----------------------------------------------------------------------------
(* The task *)

TakeNote ==
    /\ notes # <<>> /\ ended.at = "running"
    /\ said' = PushNotification(said, Head(notes))
    /\ notes' = Tail(notes)
    /\ UNCHANGED <<plan, server, pipe, client, ended>>

\* finish_codex_app_server_outcome
Transcript == [of |-> "transcript", item |-> 0, whole |-> TRUE]
Shown(n) == IF n.final # NoReply THEN n.final ELSE IF n.shown THEN Transcript ELSE NoReply
Settled(n, outcome) ==
    LET End(at, reply) == [at |-> at, reply |-> reply, usage |-> n.usage]
    IN IF plan.kind # "live" \/ (outcome = "completed" /\ plan.rollover)
       THEN End(IF outcome = "completed" THEN "completed" ELSE "failed", NoReply)
       ELSE CASE outcome = "completed" ->
                   End(IF n.final = NoReply THEN "failed" ELSE "completed", n.final)
              [] outcome = "interrupted" -> End("aborted", Shown(n))
              [] outcome = "failed" -> End("failed", Shown(n))
              [] outcome = "error" -> End("failed", NoReply)
Settle == Settled(TakeWaiting(said, FALSE), client.outcome)

\* Faulty variant: what the client sent before it returned is left.
FinishAtReturn ==
    /\ client.at = "over" /\ ended.at = "running"
    /\ ended' = Settle
    /\ UNCHANGED <<plan, server, pipe, client, notes, said>>

FinishTurn ==
    /\ client.at = "over" /\ ended.at = "running" /\ notes = <<>>
    /\ ended' = Settle
    /\ UNCHANGED <<plan, server, pipe, client, notes, said>>

CodexNext ==
    \/ Answer \/ TellOwn \/ TellOther \/ Ask \/ Die
    \/ ReadLine \/ ServerClosed \/ TimeOut \/ Abort \/ HearAbort \/ GiveUp
    \/ TakeNote \/ FinishTurn

-----------------------------------------------------------------------------
CodexTypeOK ==
    /\ server.told \in 1..4 /\ server.answered <= server.told
    /\ server.open \subseteq server.asked
    /\ Len(pipe) <= LineRoom /\ Len(notes) <= NoteRoom
    /\ client.at \in Asking \cup {"live", "waiting", "over"}
    /\ ended.at \in {"running", "completed", "failed", "aborted"}

\* What the notifications of the call's own turn amount to.
OwnTurn == FoldLeft(PushNotification, Silent,
                    Append(plan.own, Ended("own", plan.status, <<>>)))

\* The client trusts a usage once it has seen its turn do something; what is
\* done while the setup is still reading does not count.
UsageFollowsActivity ==
    \E j \in DOMAIN plan.own : plan.own[j].method = "usage" /\
        \E i \in 1..(j - 1) : ConfirmsActivity(plan.own[i])

\* A call whose turn the server named completes only when the server says that
\* this turn did, and a call is aborted only when someone asked for it.
EndsAsTold ==
    /\ ended.at = "completed" /\ plan.kind = "live" /\ plan.gives => server.status = "completed"
    /\ ended.at = "aborted" => client.abort \/ server.status = "interrupted" \/ ~plan.gives

\* Text of a turn that is not the call's reaches the task in the setup or never.
OthersAreKeptOut ==
    plan.kind = "live" /\ plan.gives =>
        \A k \in DOMAIN notes : Stray(notes[k]) \subseteq client.strayed

\* The call serves its own turn.  (handle_live_jsonrpc_line.)
OwnTurnServed == EndsAsTold /\ OthersAreKeptOut

\* A turn whose id the server gave completes with its own reply and usage,
\* whatever else the server tells once the turn is live; setup lets other turns
\* through, and then a text that waits, or one among the turn's own, may displace
\* the reply.
ReplyIsOwn ==
    ended.at = "completed" /\ plan.kind = "live" /\ plan.gives =>
        /\ ~plan.rollover /\ OwnTurn.final # NoReply
           /\ client.strayed \cap (IF plan.early THEN {"text", "waits"} ELSE {"waits"}) = {} =>
              ended.reply = OwnTurn.final
        /\ ~plan.early /\ UsageFollowsActivity => ended.usage = "own"
=============================================================================
