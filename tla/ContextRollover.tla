---------------------------- MODULE ContextRollover ----------------------------
(***************************************************************************)
(* Clean-context rollovers of one Codex chat: a request compacts the chat  *)
(* (manual) or retries its failed turn in a clean native thread (retry),   *)
(* and a successful compaction run switches the chat to that thread in one *)
(* transaction.  Turns, aborts, late reports of native threads and server  *)
(* deaths interleave with it.                                              *)
(*                                                                         *)
(* A row of durable_chat_runs is a turn, the compaction run of a call, or  *)
(* the failed prompt run again after it.  A call is one handler of a       *)
(* request; two calls may carry the same request id.  Every turn that      *)
(* fails is taken to fail because its context is too large.  ChatRuns      *)
(* looks into turns and startup recovery step by step; here a turn has     *)
(* only the steps a rollover can meet.                                     *)
(***************************************************************************)
EXTENDS Naturals, FiniteSets, Sequences, SequencesExt

CONSTANTS Turns,        \* turns the user starts (a bound)
          Calls,        \* handlers of compaction requests (a bound)
          Kind,         \* [Calls -> {"manual", "retry"}]
          Request,      \* [Calls -> request ids]
          MaxRecoveries, \* DURABLE_CHAT_RUN_MAX_RECOVERY_ATTEMPTS
          MaxDeaths     \* bound on server deaths

ASSUME ContextRolloverAssumption ==
    /\ Kind \in [Calls -> {"manual", "retry"}]
    /\ \A c, d \in Calls : Request[c] = Request[d] => Kind[c] = Kind[d]
    /\ {MaxRecoveries, MaxDeaths} \subseteq Nat

VARIABLES
    mode,     \* "up", "recovering" or "down", the deaths so far, and the
              \* open rows recovery found and has not treated yet
    row,      \* durable_chat_runs
    born,     \* rows in the order of their created_at
    roll,     \* session_context_rollovers, by the call that inserts the row
    chat,     \* the session: active flag and native thread
    said,     \* user message of each turn: "none", "kept", "renamed", "lost"
    call,     \* where each handler stands, and what it read
    task,     \* where the task that drives a row stands, and its outcome
    attached, \* the row whose abort sender the runtime record holds
    report,   \* rows whose native thread id was checked, not written yet
    aborting, \* rows an abort listed and will mark
    answered, \* rows whose final assistant message is persisted
    raced     \* history: "turn" when a turn began during the checks of a call,
              \* "report" when a thread was being written as a rollover was
              \* activated

rollVars == <<mode, row, born, roll, chat, said, call, task, attached, report,
              aborting, answered, raced>>

Turn(t) == <<"turn", t>>
Compact(c) == <<"compact", c>>
Again(c) == <<"again", c>>
Rows == {Turn(t) : t \in Turns} \cup {Compact(c) : c \in Calls}
            \cup {Again(c) : c \in Calls}
CompactRows == {Compact(c) : c \in Calls}
NoRow == <<"none", "none">>
NoThread == <<"no", "thread">>
\* The native thread a row's provider creates when it resumes none.
NewThread(x) == x
Threads == Rows \cup {NoThread}
NoTurn == "none"

Open == {"running", "recovering"}
Statuses == Open \cup {"none", "completed", "failed", "aborted", "interrupted",
                       "superseded"}
ActiveRows == {x \in Rows : row[x].status \in Open}

ModeType == [at : {"up", "recovering", "down"}, deaths : 0..MaxDeaths,
             rows : SUBSET Rows]
RowType == [status : Statuses, thread : Threads, tries : 0..MaxRecoveries]
RollStates == {"none", "starting", "active", "failed"}
RollType == [state : RollStates, candidate : Threads, from : Threads]
ChatType == [active : BOOLEAN, thread : Threads]
CallSteps == {"none", "read", "replaced", "prepared", "over"}
CallType == [at : CallSteps, turn : Turns \cup {NoTurn},
             source : Rows \cup {NoRow}, seen : SUBSET Turns, from : Threads]
TaskSteps == {"none", "starting", "live", "ending", "deactivate", "terminal",
              "release", "failing"}
TaskEnds == {"none", "completed", "failed", "aborted", "activated"}
TaskType == [at : TaskSteps, how : TaskEnds]

RollTypeOK ==
    /\ mode \in ModeType
    /\ row \in [Rows -> RowType]
    /\ born \in Seq(Rows) /\ IsInjective(born)
    /\ roll \in [Calls -> RollType]
    /\ chat \in ChatType
    /\ said \in [Turns -> {"none", "kept", "renamed", "lost"}]
    /\ call \in [Calls -> CallType]
    /\ task \in [Rows -> TaskType]
    /\ attached \in Rows \cup {NoRow}
    /\ {report, aborting, answered} \subseteq SUBSET Rows
    /\ raced \subseteq {"turn", "report"}

RollInit ==
    /\ mode = [at |-> "up", deaths |-> 0, rows |-> {}]
    /\ row = [x \in Rows |-> [status |-> "none", thread |-> NoThread, tries |-> 0]]
    /\ born = <<>>
    /\ roll = [c \in Calls |-> [state |-> "none", candidate |-> NoThread,
                                from |-> NoThread]]
    /\ chat = [active |-> FALSE, thread |-> NoThread]
    /\ said = [t \in Turns |-> "none"]
    /\ call = [c \in Calls |-> [at |-> "none", turn |-> NoTurn, source |-> NoRow,
                                seen |-> {}, from |-> NoThread]]
    /\ task = [x \in Rows |-> [at |-> "none", how |-> "none"]]
    /\ attached = NoRow
    /\ report = {} /\ aborting = {} /\ answered = {}
    /\ raced = {}

-----------------------------------------------------------------------------
(* Reading the tables.                                                      *)

\* The last element of q that is in S, as a set of at most one.
LastOf(q, S) == {x \in S : \E i \in DOMAIN q :
                     /\ q[i] = x
                     /\ \A j \in DOMAIN q : j > i => q[j] \notin S}

Existing == {x \in Rows : row[x].status # "none"}
LatestRow == LastOf(born, Existing)
\* latest_context_rollover: a rollover is created with its compaction run.
LatestRoll == {c \in Calls : Compact(c) \in
                   LastOf(born, {Compact(d) : d \in {e \in Calls :
                                                 roll[e].state # "none"}})}
\* durable_chat_run_for_user_message.
RowOf(t) == LastOf(born, Existing \cap
                   ({Turn(t)} \cup {Again(c) : c \in {d \in Calls :
                                                        call[d].turn = t}}))

\* context_recovery, but for its text.  A compaction run has no user message.
ContextRecovery ==
    \/ \E c \in LatestRoll : /\ Kind[c] = "retry"
                             /\ roll[c].state \in {"starting", "failed"}
    \/ /\ \A c \in LatestRoll : Kind[c] = "retry" /\ roll[c].state = "active"
       /\ \E x \in LatestRow \ CompactRows : row[x].status = "failed"

\* resolve_retry_context_rollover_source: the failed row a retry of t starts
\* from, as a set of at most one.
RetrySource(t) ==
    LET own == {x \in RowOf(t) : row[x].status = "failed"}
        again == {Compact(c) : c \in {d \in LatestRoll :
                      /\ Kind[d] = "retry" /\ roll[d].state = "failed"
                      /\ call[d].turn = t /\ row[Compact(d)].status = "failed"}}
    IN (IF own # {} THEN own ELSE again) \cap LatestRow

-----------------------------------------------------------------------------
(* Turns, as far as a rollover meets them.                                  *)

\* start_agent_session_scoped: what is checked (context_recovery) holds when
\* the turn begins, or held a moment before.  Open rows are interrupted.
BeginTurn(t) ==
    /\ mode.at = "up"
    /\ said[t] = "none"
    /\ ~ContextRecovery
    /\ said' = [said EXCEPT ![t] = "kept"]
    /\ chat' = [chat EXCEPT !.active = TRUE]
    /\ row' = [x \in Rows |->
                 IF x = Turn(t) THEN [status |-> "running",
                                      thread |-> chat.thread, tries |-> 0]
                 ELSE IF x \in ActiveRows
                 THEN [row[x] EXCEPT !.status = "interrupted"] ELSE row[x]]
    /\ born' = Append(born, Turn(t))
    /\ task' = [task EXCEPT ![Turn(t)].at = "starting"]
    /\ raced' = raced \cup {"turn" : c \in {d \in Calls :
                                call[d].at \in {"read", "replaced"}}}
    /\ UNCHANGED <<mode, roll, call, attached, report, aborting, answered>>

\* register: the record is replaced, and with it the abort sender it held.
Register(x) ==
    /\ task[x].at = "starting"
    /\ task' = [task EXCEPT ![x].at = "live"]
    /\ attached' = x
    /\ UNCHANGED <<mode, row, born, roll, chat, said, call, report, aborting,
                   answered, raced>>

\* Faulty variant: the rollover is forgotten.
StartFailsRowOnly(x) ==
    /\ task[x].at = "starting"
    /\ row' = [row EXCEPT ![x].status = "failed"]
    /\ task' = [task EXCEPT ![x].at = "failing"]
    /\ UNCHANGED <<mode, born, roll, chat, said, call, attached, report, aborting,
                   answered, raced>>
\* start fails.  The caller fails the rollover first, then the row, then the
\* flag.
StartFails(x) ==
    /\ task[x].at = "starting"
    /\ roll' = [c \in Calls |-> IF Compact(c) = x /\ roll[c].state = "starting"
                                THEN [roll[c] EXCEPT !.state = "failed"]
                                ELSE roll[c]]
    /\ row' = [row EXCEPT ![x].status = "failed"]
    /\ task' = [task EXCEPT ![x].at = "failing"]
    /\ UNCHANGED <<mode, born, chat, said, call, attached, report, aborting,
                   answered, raced>>

StartFailed(x) ==
    /\ task[x].at = "failing"
    /\ chat' = [chat EXCEPT !.active = FALSE]
    /\ task' = [task EXCEPT ![x] = [at |-> "none", how |-> "none"]]
    /\ UNCHANGED <<mode, row, born, roll, said, call, attached, report, aborting,
                   answered, raced>>

\* The provider ends by itself; a manual compaction is no provider run.
IsManual(x) == \E c \in Calls : x = Compact(c) /\ Kind[c] = "manual"
ProviderEnds(x) ==
    /\ task[x].at = "live"
    /\ ~IsManual(x)
    /\ \E how \in {"completed", "failed"} :
           task' = [task EXCEPT ![x] = [at |-> "ending", how |-> how]]
    /\ UNCHANGED <<mode, row, born, roll, chat, said, call, attached, report,
                   aborting, answered, raced>>

\* Its abort sender was used or dropped.
ProviderStopped(x) ==
    /\ task[x].at = "live"
    /\ ~IsManual(x)
    /\ attached # x
    /\ task' = [task EXCEPT ![x] = [at |-> "ending", how |-> "aborted"]]
    /\ UNCHANGED <<mode, row, born, roll, chat, said, call, attached, report,
                   aborting, answered, raced>>

-----------------------------------------------------------------------------
(* Native threads: persist_native_session_id.                               *)

ReportedThread(x) == IF row[x].thread = NoThread THEN NewThread(x)
                     ELSE row[x].thread
\* context_native_session_ids.
ArchivedThreads ==
    UNION {{roll[c].from, roll[c].candidate} \ {NoThread} :
              c \in {d \in Calls : roll[d].state # "none"}}

\* Faulty variant: a chat with rollovers is not looked at.
ThreadCheckedBlindly(x) ==
    /\ task[x].at = "live" /\ x \notin CompactRows
    /\ report' = report \cup {x}
    /\ UNCHANGED <<mode, row, born, roll, chat, said, call, task, attached,
                   aborting, answered, raced>>
\* An ordinary run: once the chat has rollovers only its own thread counts.
ThreadChecked(x) ==
    /\ task[x].at = "live"
    /\ x \notin CompactRows
    /\ x \notin report
    /\ chat.thread # ReportedThread(x)
    /\ ArchivedThreads = {}
    /\ report' = report \cup {x}
    /\ UNCHANGED <<mode, row, born, roll, chat, said, call, task, attached,
                   aborting, answered, raced>>

ThreadWritten(x) ==
    /\ x \in report
    /\ row' = [row EXCEPT ![x].thread = ReportedThread(x)]
    /\ chat' = [chat EXCEPT !.thread = ReportedThread(x)]
    /\ report' = report \ {x}
    /\ UNCHANGED <<mode, born, roll, said, call, task, attached, aborting,
                   answered, raced>>

\* set_context_rollover_candidate: the clean thread of a compaction run.
StageCandidate(c) ==
    /\ task[Compact(c)].at = "live"
    /\ Kind[c] = "retry"
    /\ roll[c].state = "starting"
    /\ roll[c].candidate = NoThread
    /\ row[Compact(c)].status \in Open
    /\ row[Compact(c)].thread = NoThread
    /\ roll' = [roll EXCEPT ![c].candidate = NewThread(Compact(c))]
    /\ row' = [row EXCEPT ![Compact(c)].thread = NewThread(Compact(c))]
    /\ UNCHANGED <<mode, born, chat, said, call, task, attached, report,
                   aborting, answered, raced>>

-----------------------------------------------------------------------------
(* The two requests: compact_and_retry_session_context (of the message of   *)
(* turn t) and compact_session_context.                                     *)

\* A request id that has a rollover is answered from it.
Known(c) == \E d \in Calls : Request[d] = Request[c] /\ roll[d].state # "none"
Idle == ~chat.active /\ attached = NoRow

\* The handler looks at the rollovers, the flag and the rows, and reads the
\* visible messages.
ReadChat(c, t, source) ==
    /\ mode.at = "up"
    /\ call[c].at = "none"
    /\ ~Known(c)
    /\ Idle
    /\ call' = [call EXCEPT ![c] =
                   [at |-> "read", turn |-> t, source |-> source,
                    seen |-> {u \in Turns : said[u] \in {"kept", "renamed"}},
                    from |-> chat.thread]]
    /\ born' = Append(born, Compact(c))
    /\ UNCHANGED <<mode, row, roll, chat, said, task, attached, report, aborting,
                   answered, raced>>

CompactAndRetry(c, t) ==
    /\ Kind[c] = "retry"
    /\ said[t] # "none"
    /\ \E x \in RetrySource(t) : ReadChat(c, t, x)

\* A manual compaction needs a thread, and no failed turn to recover.
CompactManually(c) ==
    /\ Kind[c] = "manual"
    /\ ~ContextRecovery
    /\ chat.thread # NoThread
    /\ \E t \in Turns : said[t] \in {"kept", "renamed"}
    /\ ReadChat(c, NoTurn, NoRow)

\* Faulty variant: no message is preserved.
ReplaceMessagesRenaming(c) ==
    /\ call[c].at = "read"
    /\ said' = [t \in Turns |-> IF t \in call[c].seen THEN "renamed"
                                ELSE IF said[t] = "none" THEN "none" ELSE "lost"]
    /\ call' = [call EXCEPT ![c].at = "replaced"]
    /\ UNCHANGED <<mode, row, born, roll, chat, task, attached, report, aborting,
                   answered, raced>>
\* The stored messages become what was read, under new ids but for the
\* message that failed.
ReplaceMessages(c) ==
    /\ call[c].at = "read"
    /\ said' = [t \in Turns |->
                  IF t \in call[c].seen
                  THEN IF t = call[c].turn /\ said[t] = "kept" THEN "kept"
                       ELSE "renamed"
                  ELSE IF said[t] = "none" THEN "none" ELSE "lost"]
    /\ call' = [call EXCEPT ![c].at = "replaced"]
    /\ UNCHANGED <<mode, row, born, roll, chat, task, attached, report, aborting,
                   answered, raced>>

\* Faulty variant: nobody asks whether the row is still failed.
PrepareAnyway(c) ==
    LET manual == Kind[c] = "manual"
        thread == IF manual THEN call[c].from ELSE NoThread
    IN /\ call[c].at = "replaced"
       /\ call' = [call EXCEPT ![c].at = IF Known(c) THEN "over" ELSE "prepared"]
       /\ roll' = IF Known(c) THEN roll
                  ELSE [roll EXCEPT ![c] = [state |-> "starting",
                            from |-> call[c].from, candidate |-> thread]]
       /\ row' = [x \in Rows |->
                    IF x = Compact(c) /\ ~Known(c)
                    THEN [status |-> "running", tries |-> 0, thread |-> thread]
                    ELSE row[x]]
       /\ UNCHANGED <<mode, born, chat, said, task, attached, report, aborting,
                      answered, raced>>
\* prepare_context_rollover and prepare_manual_context_rollover: one
\* transaction.  The failed row of a retry is superseded; if it is no longer
\* failed, or the request has a rollover by now, nothing is stored.
Prepare(c) ==
    LET manual == Kind[c] = "manual"
        source == call[c].source
    IN /\ call[c].at = "replaced"
       /\ IF Known(c) \/ (~manual /\ row[source].status # "failed")
          THEN /\ call' = [call EXCEPT ![c].at = "over"]
               /\ UNCHANGED <<roll, row>>
          ELSE /\ call' = [call EXCEPT ![c].at = "prepared"]
               /\ roll' = [roll EXCEPT ![c] =
                     [state |-> "starting", from |-> call[c].from,
                      candidate |-> IF manual THEN call[c].from ELSE NoThread]]
               /\ row' = [x \in Rows |->
                     IF x = Compact(c)
                     THEN [status |-> "running", tries |-> 0,
                           thread |-> IF manual THEN call[c].from ELSE NoThread]
                     ELSE IF x = source
                     THEN [row[x] EXCEPT !.status = "superseded"] ELSE row[x]]
       /\ UNCHANGED <<mode, born, chat, said, task, attached, report, aborting,
                      answered, raced>>

\* set_active, the attempt row, and the start of the provider run or of the
\* compaction task.
Launch(c) ==
    /\ call[c].at = "prepared"
    /\ call' = [call EXCEPT ![c].at = "over"]
    /\ chat' = [chat EXCEPT !.active = TRUE]
    /\ task' = [task EXCEPT ![Compact(c)].at =
                   IF Kind[c] = "manual" THEN "live" ELSE "starting"]
    /\ UNCHANGED <<mode, row, born, roll, said, attached, report, aborting,
                   answered, raced>>

-----------------------------------------------------------------------------
(* The end of a run.                                                        *)

\* complete_context_rollover is eligible.
CanComplete(c) ==
    /\ roll[c].state = "starting"
    /\ roll[c].candidate # NoThread
    /\ row[Compact(c)].thread = roll[c].candidate
    /\ row[Compact(c)].status \in Open

\* Faulty variant: the run is left to be ended later.
ActivateEarly(c) ==
    /\ roll' = [roll EXCEPT ![c].state = "active"]
    /\ chat' = [active |-> FALSE, thread |-> roll[c].candidate]
    /\ UNCHANGED <<row, born, raced>>
\* activate_completed_context_rollover: mapping, marker, the prompt to run
\* again if its message is still there, and the end of the run, together.
Activate(c) ==
    LET again == Kind[c] = "retry" /\ said[call[c].turn] = "kept" IN
    /\ roll' = [roll EXCEPT ![c].state = "active"]
    /\ chat' = [active |-> FALSE, thread |-> roll[c].candidate]
    /\ row' = [x \in Rows |->
                 IF x = Compact(c) THEN [row[x] EXCEPT !.status = "completed"]
                 ELSE IF again /\ x = Again(c)
                 THEN [status |-> "running", tries |-> 0,
                       thread |-> roll[c].candidate]
                 ELSE row[x]]
    /\ born' = IF again THEN Append(born, Again(c)) ELSE born
    /\ raced' = raced \cup {"report" : x \in report}

FailRoll(c) ==
    roll' = [roll EXCEPT ![c].state = IF @ = "starting" THEN "failed" ELSE @]

\* finish, of a compaction run: activation, or failure of the rollover.
FinishCompact(c) ==
    LET x == Compact(c) IN
    /\ task[x].at = "ending"
    /\ Kind[c] = "retry"
    /\ IF task[x].how = "completed" /\ CanComplete(c)
       THEN /\ Activate(c)
            /\ task' = [task EXCEPT ![x] = [at |-> "deactivate",
                                            how |-> "activated"]]
       ELSE /\ FailRoll(c)
            /\ task' = [task EXCEPT ![x] = [at |-> "deactivate", how |->
                           IF @.how = "aborted" THEN "aborted" ELSE "failed"]]
            /\ UNCHANGED <<chat, row, born, raced>>
    /\ UNCHANGED <<mode, said, call, attached, report, aborting, answered>>

\* finish, of any other run: the assistant message.
FinishAnswer(x) ==
    /\ task[x].at = "ending"
    /\ x \notin CompactRows
    /\ answered' = answered \cup {x}
    /\ task' = [task EXCEPT ![x].at = "deactivate"]
    /\ UNCHANGED <<mode, row, born, roll, chat, said, call, attached, report,
                   aborting, raced>>

FinishInactive(x) ==
    /\ task[x].at = "deactivate"
    /\ chat' = [chat EXCEPT !.active = FALSE]
    /\ task' = [task EXCEPT ![x].at = "terminal"]
    /\ UNCHANGED <<mode, row, born, roll, said, call, attached, report, aborting,
                   answered, raced>>

\* Faulty variant: a run that was ended with its rollover is ended again.
FinishTerminalAlways(x) ==
    /\ task[x].at = "terminal"
    /\ row' = [row EXCEPT ![x].status = task[x].how]
    /\ task' = [task EXCEPT ![x].at = "release"]
    /\ UNCHANGED <<mode, born, roll, chat, said, call, attached, report, aborting,
                   answered, raced>>
FinishTerminal(x) ==
    /\ task[x].at = "terminal"
    /\ row' = IF task[x].how = "activated" THEN row
              ELSE [row EXCEPT ![x].status = task[x].how]
    /\ task' = [task EXCEPT ![x].at = "release"]
    /\ UNCHANGED <<mode, born, roll, chat, said, call, attached, report, aborting,
                   answered, raced>>

\* The record of the chat gives up its abort sender.  The prompt that was
\* staged is started after that (start_context_rollover_follow_up).
FinishRelease(x) ==
    /\ task[x].at = "release"
    /\ attached' = NoRow
    /\ task' = [y \in Rows |->
                  IF y = x THEN [at |-> "none", how |-> "none"]
                  ELSE IF /\ task[x].how = "activated"
                          /\ \E c \in Calls : x = Compact(c) /\ y = Again(c)
                          /\ row[y].status # "none"
                  THEN [at |-> "starting", how |-> "none"] ELSE task[y]]
    /\ chat' = IF \E c \in Calls : /\ x = Compact(c)
                                   /\ task[x].how = "activated"
                                   /\ row[Again(c)].status # "none"
               THEN [chat EXCEPT !.active = TRUE] ELSE chat
    /\ UNCHANGED <<mode, row, born, roll, said, call, report, aborting, answered,
                   raced>>

\* run_manual_context_compaction: the app server compacts the thread, or not.
ManualEnds(c) ==
    LET x == Compact(c) IN
    /\ task[x].at = "live"
    /\ Kind[c] = "manual"
    /\ \/ /\ CanComplete(c)
          /\ Activate(c)
          /\ task' = [task EXCEPT ![x].at = "none"]
       \/ /\ FailRoll(c)
          /\ row' = [row EXCEPT ![x].status = "failed"]
          /\ task' = [task EXCEPT ![x].at = "failing"]
          /\ UNCHANGED <<chat, born, raced>>
    /\ UNCHANGED <<mode, said, call, attached, report, aborting, answered>>

-----------------------------------------------------------------------------
(* abort_agent_session.                                                     *)

\* A provider run is attached: its sender is taken.  Otherwise the open rows
\* are listed, each is marked, and the flag is cleared.
Abort ==
    /\ mode.at = "up"
    /\ aborting = {}
    /\ chat.active
    /\ IF attached # NoRow
       THEN attached' = NoRow /\ UNCHANGED <<aborting, chat>>
       ELSE /\ aborting' = ActiveRows
            /\ chat' = IF ActiveRows = {} THEN [chat EXCEPT !.active = FALSE]
                       ELSE chat
            /\ UNCHANGED attached
    /\ UNCHANGED <<mode, row, born, roll, said, call, task, report, answered,
                   raced>>

AbortMark(x) ==
    /\ x \in aborting
    /\ row' = [row EXCEPT ![x].status = "aborted"]
    /\ aborting' = aborting \ {x}
    /\ chat' = IF aborting = {x} THEN [chat EXCEPT !.active = FALSE] ELSE chat
    /\ UNCHANGED <<mode, born, roll, said, call, task, attached, report, answered,
                   raced>>

-----------------------------------------------------------------------------
(* The server dies and starts again.                                        *)

Die ==
    /\ mode.at # "down"
    /\ mode.deaths < MaxDeaths
    /\ mode' = [at |-> "down", deaths |-> mode.deaths + 1, rows |-> {}]
    /\ task' = [x \in Rows |-> [at |-> "none", how |-> "none"]]
    /\ call' = [c \in Calls |-> IF call[c].at = "none" THEN call[c]
                                ELSE [call[c] EXCEPT !.at = "over"]]
    /\ attached' = NoRow
    /\ report' = {} /\ aborting' = {}
    /\ UNCHANGED <<row, born, roll, chat, said, answered, raced>>

\* reconcile_stale_manual_context_rollovers.
Reconciled ==
    [c \in Calls |-> IF /\ Kind[c] = "manual" /\ roll[c].state = "starting"
                        /\ row[Compact(c)].status \notin Open
                     THEN [roll[c] EXCEPT !.state = "failed"] ELSE roll[c]]

Restart ==
    /\ mode.at = "down"
    /\ mode' = [mode EXCEPT !.at = "recovering", !.rows = ActiveRows]
    /\ roll' = Reconciled
    /\ UNCHANGED <<row, born, chat, said, call, task, attached, report, aborting,
                   answered, raced>>

\* recover_interrupted_chat_runs: of the rows it found open only the newest is
\* resumed, a limited number of times, and a manual compaction never.  The
\* others come first, being older.
RecoverNot(x) ==
    /\ x \in mode.rows
    /\ \/ x \notin LastOf(born, mode.rows)
       \/ IsManual(x)
       \/ row[x].tries >= MaxRecoveries
    /\ row' = [row EXCEPT ![x].status = "interrupted"]
    /\ mode' = [mode EXCEPT !.rows = @ \ {x}]
    /\ UNCHANGED <<born, roll, chat, said, call, task, attached, report,
                   aborting, answered, raced>>

\* recover_agent_run: the answer was persisted; or it cannot be resumed; or it
\* is started, with the candidate of its rollover or the thread it had.
RecoverRow(x) ==
    /\ mode.rows = {x}
    /\ ~IsManual(x)
    /\ row[x].tries < MaxRecoveries
    /\ mode' = [mode EXCEPT !.rows = {}]
    /\ \/ /\ row' = [row EXCEPT ![x].tries = @ + 1, ![x].status =
                        IF x \in answered THEN "completed" ELSE "failed"]
          /\ chat' = [chat EXCEPT !.active = FALSE]
          /\ UNCHANGED task
       \/ /\ x \notin answered
          /\ row' = [row EXCEPT ![x].tries = @ + 1, ![x].status = "recovering"]
          /\ chat' = [chat EXCEPT !.active = TRUE]
          /\ task' = [task EXCEPT ![x].at = "starting"]
    /\ UNCHANGED <<born, roll, said, call, attached, report, aborting, answered,
                   raced>>

\* The rows are done: manual rollovers are reconciled again, and a chat that
\* nothing resumed is shown idle.
Recovered ==
    /\ mode.at = "recovering"
    /\ mode.rows = {}
    /\ mode' = [mode EXCEPT !.at = "up"]
    /\ roll' = Reconciled
    /\ chat' = [chat EXCEPT !.active = @ /\ \E x \in Rows : task[x].at # "none"]
    /\ UNCHANGED <<row, born, said, call, task, attached, report, aborting,
                   answered, raced>>

-----------------------------------------------------------------------------
TaskStep(x) ==
    \/ Register(x) \/ StartFails(x) \/ StartFailed(x)
    \/ ThreadWritten(x)
    \/ FinishAnswer(x) \/ FinishInactive(x) \/ FinishTerminal(x)
    \/ FinishRelease(x)
CallStep(c) ==
    \/ ReplaceMessages(c) \/ Prepare(c) \/ Launch(c) \/ FinishCompact(c)
RollNext ==
    \/ \E t \in Turns : BeginTurn(t)
    \/ \E x \in Rows : \/ TaskStep(x) \/ ProviderEnds(x) \/ ProviderStopped(x)
                       \/ ThreadChecked(x) \/ AbortMark(x)
                       \/ RecoverNot(x) \/ RecoverRow(x)
    \/ \E c \in Calls : \/ CompactManually(c)
                        \/ \E t \in Turns : CompactAndRetry(c, t)
                        \/ CallStep(c) \/ StageCandidate(c) \/ ManualEnds(c)
    \/ Abort \/ Die \/ Restart \/ Recovered

RollSpec == RollInit /\ [][RollNext]_rollVars

\* Handlers, tasks and recovery run on; providers end in the end, or are
\* stopped; nothing is assumed of users and of deaths.
RollFairness ==
    /\ \A x \in Rows :
          /\ WF_rollVars(TaskStep(x))
          /\ WF_rollVars(ProviderEnds(x) \/ ProviderStopped(x))
          /\ WF_rollVars(AbortMark(x))
          /\ WF_rollVars(RecoverNot(x) \/ RecoverRow(x))
    /\ \A c \in Calls : WF_rollVars(CallStep(c)) /\ WF_rollVars(ManualEnds(c))
    /\ WF_rollVars(Restart) /\ WF_rollVars(Recovered)
RollFairSpec == RollSpec /\ RollFairness

-----------------------------------------------------------------------------
(* Properties.                                                              *)

\* A failed prompt is answered once: of the runs of one user message, across
\* retries, repeated requests, aborts and recoveries, at most one completes.
PromptAnsweredOnce ==
    \A t \in Turns :
        Cardinality({x \in {Turn(t)} \cup {Again(c) : c \in
                              {d \in Calls : call[d].turn = t}} :
                       row[x].status = "completed"}) <= 1

\* The compaction run of an active rollover is not reopened or resumed, and
\* what it switched the chat to is a thread the rollover staged.
ActivationIsWhole ==
    \A c \in Calls : roll[c].state = "active" =>
        /\ row[Compact(c)].status \notin Open \cup {"failed", "none"}
        /\ roll[c].candidate # NoThread

\* After a rollover in a clean thread the chat never goes back to a thread it
\* left, whatever providers of archived threads report, unless a report that
\* was checked before is written after the activation.
ThreadMove ==
    \A c \in Calls :
        /\ Kind[c] = "retry" /\ roll[c].state = "active" /\ "report" \notin raced
        /\ chat'.thread # chat.thread
        => \E d \in Calls : /\ roll[d].state = "starting" /\ roll'[d].state = "active"
                            /\ chat'.thread = roll'[d].candidate
ThreadNeverGoesBack == [][ThreadMove]_rollVars

\* No user message disappears from the chat, and the one a pending rollover
\* wants to run again keeps its id, unless a turn began while a request was
\* being checked.
TranscriptKept ==
    "turn" \notin raced =>
              /\ \A t \in Turns : said[t] # "lost"
              /\ \A c \in Calls : roll[c].state = "starting" /\ Kind[c] = "retry"
                                  /\ said[call[c].turn] = "renamed"
                    => \E d \in Calls : Kind[d] = "manual" /\ call[d].at # "none"

\* A rollover that was prepared is settled: activated or failed.  A retry
\* whose server died may wait for ever (see RetryRemainsPossible).
RolloversSettle ==
    \A c \in Calls : roll[c].state = "starting" ~>
        \/ roll[c].state # "starting"
        \/ Kind[c] = "retry" /\ mode.deaths > 0

\* "leave the visible transcript untouched so the same recovery can be
\* retried" (manager.rs): a chat that asks for recovery and has nothing going
\* on accepts a retry of some message.
RetryRemainsPossible ==
    /\ mode.at = "up" /\ ContextRecovery /\ Idle
    /\ ActiveRows = {} /\ \A x \in Rows : task[x].at = "none"
    /\ \A c \in Calls : call[c].at \in {"none", "over"}
    => \E t \in Turns : RetrySource(t) # {}
=============================================================================
