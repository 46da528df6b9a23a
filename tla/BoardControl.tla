----------------------------- MODULE BoardControl -----------------------------
(***************************************************************************)
(* Who drives an agentic board, and who may write its snapshot.            *)
(*                                                                         *)
(* A board is one JSON file.  Request handlers load it, change it and save *)
(* it under BOARD_MUTATION_LOCK.  The worker that executes the board, the  *)
(* poller for automatic retries and scheduled starts, and the recovery     *)
(* after a restart load and save the same file without that lock;          *)
(* save_board merges what they write with newer control state on disk.     *)
(* PROJECT_EXECUTION_OWNERS, in memory, lets one board run per project;    *)
(* the boards here share one project.                                      *)
(*                                                                         *)
(* A load, a save and a lock section are steps of their own, so everything *)
(* that has a stale copy of the file can write it back late.  The cards    *)
(* are executable subtasks whose parents are broken down and approved,     *)
(* without side effects, research or test-first validation.                *)
(***************************************************************************)
EXTENDS Naturals, FiniteSets

CONSTANTS Boards,       \* boards of one project
          Tasks,        \* executable subtasks of a board
          Workers,      \* tokio tasks that may execute boards (a bound)
          NoBoard, NoTask, NoWorker,
          DependsOn,    \* blocked_by of each task
          AutoRetry,    \* boards with automatic retry enabled
          MaxRetries,   \* auto_retry.maxAttempts
          Requests,     \* kinds of request that are made (a bound)
          MaxRevision,  \* bound on control requests per board
          MaxCrashes    \* bound on server deaths

ASSUME BoardControlAssumption ==
    /\ NoBoard \notin Boards
    /\ NoTask \notin Tasks
    /\ NoWorker \notin Workers
    /\ DependsOn \in [Tasks -> SUBSET Tasks]
    /\ AutoRetry \subseteq Boards
    /\ Requests \subseteq {"pause", "start", "abort", "schedule", "unschedule",
                    "now", "retry", "promote", "demote"}
    /\ {MaxRetries, MaxRevision, MaxCrashes} \subseteq Nat

VARIABLES
    disk,       \* the snapshot file of each board
    owner,      \* PROJECT_EXECUTION_OWNERS of the project
    lock,       \* BOARD_MUTATION_LOCK: its holder and what it will save
    starts,     \* requests about to call start_board_execution
    poll,       \* the board the poller has read, and what it will save
    wboard,     \* board of each worker
    pc,         \* where each worker stands
    snap,       \* the copy of the board each worker holds
    wtask,      \* task each worker executes
    recovering, \* boards whose recovery task has not run yet
    finished,   \* history: tasks completed on each board
    crashes

workerVars == <<wboard, pc, snap, wtask>>
requestVars == <<lock, starts, poll>>
vars == <<disk, owner, requestVars, workerVars, recovering, finished, crashes>>

\* "blocked" is a failure a retry may fix, "failed" one that needs a fix
\* subtask, "waiting" a card blocked on a dependency.
TaskStatuses == {"backlog", "todo", "in_progress", "done", "blocked",
                 "failed", "waiting"}
BoardStatuses == {"paused", "pausing", "running", "scheduled", "cancelled",
                  "blocked", "completed"}
Board == [rev : Nat,                 \* control_revision
          status : BoardStatuses,
          active : BOOLEAN,
          loop : BOOLEAN,            \* loop_started
          pause : BOOLEAN,           \* pause_requested
          cur : Tasks \cup {NoTask}, \* current_task_id
          call : BOOLEAN,            \* board_has_in_flight_work
          sched : BOOLEAN,           \* scheduled_start_at is set
          retry : BOOLEAN,           \* auto_retry.nextRetryAt is set
          tries : Nat,               \* auto_retry.attempts
          task : [Tasks -> TaskStatuses]]

\* A board to which create_board has added its cards.
Blank == [rev |-> 0, status |-> "paused", active |-> FALSE, loop |-> FALSE,
          pause |-> FALSE, cur |-> NoTask, call |-> FALSE, sched |-> FALSE,
          retry |-> FALSE, tries |-> 0, task |-> [t \in Tasks |-> "todo"]]

Unlocked == [board |-> NoBoard, image |-> Blank, next |-> "none",
             by |-> NoWorker]
NoPoll == [board |-> NoBoard, image |-> Blank, start |-> FALSE]
PCs == {"idle", "recover", "surrender", "top", "plan", "choose", "prepare",
        "reload", "attach", "recheck", "dial", "started", "linking", "call",
        "result", "interrupted", "redial", "relinking", "recall", "answered",
        "exit", "release"}

IdleWorkers == {w \in Workers : pc[w] = "idle"}
WorkersOf(b) == {w \in Workers : wboard[w] = b}

-----------------------------------------------------------------------------
(* The board as a value: what the handlers and the worker do to a copy.     *)

In(d, value) == {t \in Tasks : d.task[t] = value}
Unmet(d, t) == {u \in DependsOn[t] \ {t} : d.task[u] # "done"}
\* Faulty variant: dependencies are not looked at.
AnyTodo(d) == In(d, "todo")

Runnable(d) == {t \in In(d, "todo") : Unmet(d, t) = {}}
MoveAll(d, T, value) ==
    [d EXCEPT !.task = [t \in Tasks |-> IF t \in T THEN value ELSE @[t]]]
Move(d, t, value) == MoveAll(d, {t}, value)
Halt(d, value) ==
    [d EXCEPT !.status = value, !.active = FALSE, !.loop = FALSE]
Bump(d) == [d EXCEPT !.rev = @ + 1]

Reconcile(d) ==
    MoveAll(d, {t \in In(d, "waiting") : Unmet(d, t) = {}}, "todo")


SettlePause(d) ==
    [Halt(MoveAll(d, In(d, "in_progress") \cap {d.cur}, "todo"), "paused")
        EXCEPT !.pause = FALSE, !.cur = NoTask]

\* Faulty variant: a status of its own for a pause that waits.
StoppingPause(d) ==
    IF d.call THEN [Bump(d) EXCEPT !.status = "stopping", !.pause = TRUE]
    ELSE SettlePause(Bump(d))

RequestPause(d) ==
    IF d.call
    THEN [Bump(d) EXCEPT !.status = "pausing", !.active = TRUE, !.pause = TRUE]
    ELSE SettlePause(Bump(d))

PrepareResume(d) ==
    [Bump(d) EXCEPT !.status = "running", !.active = TRUE, !.pause = FALSE,
                    !.sched = FALSE]

MarkStarted(d) == [PrepareResume(d) EXCEPT !.loop = TRUE]

Cancel(d) ==
    [Halt(MoveAll(Bump(d), In(d, "in_progress"), "todo"), "cancelled")
        EXCEPT !.cur = NoTask, !.call = FALSE]

MarkScheduled(d) ==
    [Bump(d) EXCEPT !.status = "scheduled", !.sched = TRUE, !.pause = FALSE,
                    !.call = FALSE]

DropSchedule(d) ==
    IF d.status = "scheduled"
    THEN [Halt(Bump(d), "paused") EXCEPT !.sched = FALSE, !.pause = FALSE]
    ELSE [Bump(d) EXCEPT !.sched = FALSE]

RequestRetry(d, T) ==
    [MoveAll(d, T, "todo") EXCEPT !.status = "running", !.active = TRUE,
                                  !.loop = FALSE]

Resumable(d) ==
    \/ d.status \in {"paused", "pausing"}
    \/ /\ d.status \in {"blocked", "cancelled"}
       /\ \E t \in Tasks : d.task[t] \notin {"backlog", "done"}

ArmRetry(b, d) ==
    IF b \in AutoRetry /\ Resumable(d) /\ In(d, "blocked") # {}
    THEN [d EXCEPT !.retry = d.tries < MaxRetries]
    ELSE d

\* The worker found nothing to run.
Conclude(d) ==
    IF In(d, "todo") # {}
    THEN Halt(MoveAll(d, In(d, "todo"), "waiting"), "blocked")
    ELSE IF In(d, "waiting") \cup In(d, "blocked") \cup In(d, "failed") # {}
    THEN Halt(d, "blocked")
    ELSE IF In(d, "done") # {} /\ In(d, "in_progress") = {}
    THEN [Halt(d, "completed") EXCEPT !.cur = NoTask]
    ELSE Halt(d, "paused")

\* Faulty variants: the copy of the worker wins; the copy keeps its status.
PreserveNothing(run, current) == run
PreserveRevision(run, current) ==
    IF current.rev <= run.rev THEN run ELSE [run EXCEPT !.rev = current.rev]

\* save_board: what is written when the copy run replaces the file current.
PreserveNewerControlState(run, current) ==
    LET control == [run EXCEPT
                      !.rev = current.rev, !.status = current.status,
                      !.active = current.active, !.loop = current.loop,
                      !.pause = current.pause, !.sched = current.sched]
        stopped == In(run, "in_progress") \ In(current, "in_progress")
    IN  IF current.rev <= run.rev THEN run
        ELSE IF current.status \notin {"paused", "pausing", "cancelled"}
        THEN control
        ELSE [control EXCEPT
                 !.cur = current.cur, !.call = current.call,
                 !.task = [t \in Tasks |-> IF t \in stopped
                                           THEN current.task[t] ELSE @[t]]]

SaveBoard(b, d) ==
    disk' = [disk EXCEPT ![b] = PreserveNewerControlState(d, @)]

-----------------------------------------------------------------------------
Init ==
    /\ disk = [b \in Boards |-> Blank]
    /\ owner = NoBoard
    /\ lock = Unlocked
    /\ starts = {}
    /\ poll = NoPoll
    /\ wboard = [w \in Workers |-> NoBoard]
    /\ pc = [w \in Workers |-> "idle"]
    /\ snap = [w \in Workers |-> Blank]
    /\ wtask = [w \in Workers |-> NoTask]
    /\ recovering = {}
    /\ finished = [b \in Boards |-> {}]
    /\ crashes = 0

-----------------------------------------------------------------------------
(* Requests.  A handler takes the lock, loads and changes its copy in one    *)
(* step, and saves and releases in another.                                  *)

Edit(b, image, next) ==
    /\ lock = Unlocked
    /\ lock' = [board |-> b, image |-> image, next |-> next, by |-> NoWorker]
    /\ UNCHANGED <<disk, starts, poll, workerVars, recovering, finished,
                   crashes>>

May(request, b) == request \in Requests /\ disk[b].rev < MaxRevision

PauseBoard(b) == /\ May("pause", b)
                 /\ Edit(b, RequestPause(disk[b]), "none")
                 /\ UNCHANGED owner

\* start_board resumes in one lock section and starts in another.
StartBoard(b) == /\ May("start", b)
                 /\ Edit(b, PrepareResume(disk[b]), "start")
                 /\ UNCHANGED owner

AbortBoard(b) == /\ May("abort", b)
                 /\ Edit(b, Cancel(disk[b]), "none")
                 /\ UNCHANGED owner

ScheduleBoard(b) ==
    /\ May("schedule", b)
    /\ ~disk[b].loop /\ ~disk[b].active /\ disk[b].status # "running"
    /\ Edit(b, MarkScheduled(disk[b]), "none")
    /\ UNCHANGED owner

ClearBoardSchedule(b) == /\ May("unschedule", b)
                         /\ Edit(b, DropSchedule(disk[b]), "none")
                         /\ UNCHANGED owner

\* A schedule in the past starts the board at once.
ScheduleNow(b) ==
    /\ May("now", b)
    /\ starts' = starts \cup {b}
    /\ UNCHANGED <<disk, owner, lock, poll, workerVars, recovering,
                   finished, crashes>>

RetryAttentionTasks(b) ==
    /\ May("retry", b)
    /\ \E T \in SUBSET In(disk[b], "blocked") \ {{}} :
          Edit(b, RequestRetry(Reconcile(disk[b]), T), "start")
    /\ UNCHANGED owner

PromoteTask(b, t) ==
    /\ May("promote", b)
    /\ disk[b].task[t] \in {"backlog", "todo", "blocked", "waiting"}
    /\ Edit(b, Move(disk[b], t, "todo"), "start")
    /\ UNCHANGED owner

DemoteTask(b, t) ==
    /\ May("demote", b)
    /\ disk[b].task[t] \notin {"in_progress", "done"}
    /\ Edit(b, Move(disk[b], t, "backlog"), "none")
    /\ UNCHANGED owner

\* The first lock section of start_board_execution, up to the save.
StartBoardExecution(b) ==
    /\ b \in starts
    /\ lock = Unlocked
    /\ disk[b].rev < MaxRevision
    /\ owner \in {NoBoard, b}
    /\ owner' = b
    /\ lock' = [board |-> b, image |-> MarkStarted(disk[b]),
                next |-> IF ~disk[b].loop \/ owner = NoBoard THEN "spawn"
                         ELSE "none",
                by |-> NoWorker]
    /\ lock'.next = "spawn" => IdleWorkers # {}
    /\ starts' = starts \ {b}
    /\ UNCHANGED <<disk, poll, workerVars, recovering, finished, crashes>>

\* Another board owns the project: 409, nothing is saved.
RefuseStart(b) ==
    /\ b \in starts
    /\ lock = Unlocked
    /\ owner \notin {NoBoard, b}
    /\ starts' = starts \ {b}
    /\ UNCHANGED <<disk, owner, lock, poll, workerVars, recovering,
                   finished, crashes>>

SaveEdit ==
    /\ lock.board # NoBoard
    /\ lock.by = NoWorker
    /\ lock.next # "spawn"
    /\ SaveBoard(lock.board, lock.image)
    /\ starts' = IF lock.next = "start" THEN starts \cup {lock.board}
                 ELSE starts
    /\ lock' = Unlocked
    /\ UNCHANGED <<owner, poll, workerVars, recovering, finished, crashes>>

SaveStart(w) ==
    /\ lock.next = "spawn"
    /\ w \in IdleWorkers
    /\ SaveBoard(lock.board, lock.image)
    /\ wboard' = [wboard EXCEPT ![w] = lock.board]
    /\ pc' = [pc EXCEPT ![w] = "top"]
    /\ lock' = Unlocked
    /\ UNCHANGED <<owner, starts, poll, snap, wtask, recovering, finished,
                   crashes>>

-----------------------------------------------------------------------------
(* The poller reads every board without the lock and saves later.           *)

Poll(b, image, start) ==
    /\ poll = NoPoll
    /\ poll' = [board |-> b, image |-> image, start |-> start]
    /\ UNCHANGED <<disk, owner, lock, starts, workerVars, recovering, finished,
                   crashes>>

MayRetry(b) == b \in AutoRetry /\ ~disk[b].loop /\ Resumable(disk[b])

PollArmsRetry(b) ==
    /\ MayRetry(b)
    /\ disk[b].tries >= MaxRetries \/ ~disk[b].retry
    /\ Poll(b, IF disk[b].tries < MaxRetries THEN ArmRetry(b, disk[b])
               ELSE [disk[b] EXCEPT !.retry = FALSE], FALSE)

\* The retry time is reached.
PollRetries(b) ==
    LET due == In(disk[b], "blocked") IN
    /\ MayRetry(b)
    /\ disk[b].retry /\ disk[b].tries < MaxRetries
    /\ IF due = {}
       THEN Poll(b, [disk[b] EXCEPT !.retry = FALSE], FALSE)
       ELSE Poll(b, [RequestRetry(disk[b], due) EXCEPT
                        !.retry = FALSE, !.tries = @ + 1], TRUE)

\* The scheduled time is reached, or was dropped by an earlier poll.
PollSchedule(b) ==
    /\ disk[b].status = "scheduled"
    /\ IF disk[b].sched
       THEN Poll(b, [disk[b] EXCEPT !.sched = FALSE], TRUE)
       ELSE Poll(b, [disk[b] EXCEPT !.status = "paused"], FALSE)

PollSaves ==
    /\ poll # NoPoll
    /\ SaveBoard(poll.board, poll.image)
    /\ starts' = IF poll.start THEN starts \cup {poll.board} ELSE starts
    /\ poll' = NoPoll
    /\ UNCHANGED <<owner, lock, workerVars, recovering, finished, crashes>>

-----------------------------------------------------------------------------
(* execute_board_loop.                                                      *)

At(w, label) == pc[w] = label
Goto(w, label) == pc' = [pc EXCEPT ![w] = label]
File(w) == disk[wboard[w]]

\* The worker reads the file, or changes the copy it holds.
Hold(w, d, label) ==
    /\ snap' = [snap EXCEPT ![w] = d]
    /\ Goto(w, label)
    /\ UNCHANGED <<disk, owner, requestVars, wboard, wtask, recovering,
                   finished, crashes>>

\* The worker saves the copy it holds, changed to d.
Publish(w, d, label) ==
    /\ SaveBoard(wboard[w], d)
    /\ snap' = [snap EXCEPT ![w] = d]
    /\ Goto(w, label)
    /\ UNCHANGED <<owner, requestVars, wboard, recovering, crashes>>

LoadBoard(w) ==
    LET d == File(w)
        ended == d.status \in {"cancelled", "blocked", "completed"}
        paused == d.status = "paused" \/ d.pause
        armed == IF d.status = "blocked" THEN ArmRetry(wboard[w], d) ELSE d
    IN  /\ At(w, "top")
        /\ \/ ended /\ Hold(w, Halt(armed, d.status), "exit")
           \/ ~ended /\ paused /\ Hold(w, SettlePause(d), "exit")
           \/ ~ended /\ ~paused /\ Hold(w, Reconcile(d), "plan")

SavePlan(w) ==
    /\ At(w, "plan")
    /\ Publish(w, snap[w], "choose")
    /\ UNCHANGED <<wtask, finished>>

PickTask(w) ==
    /\ At(w, "choose")
    /\ \E t \in Runnable(snap[w]) :
          /\ wtask' = [wtask EXCEPT ![w] = t]
          /\ Publish(w, [Move(snap[w], t, "in_progress") EXCEPT
                            !.status = "running", !.cur = t], "prepare")
    /\ UNCHANGED finished

NothingToRun(w) ==
    /\ At(w, "choose")
    /\ Runnable(snap[w]) = {}
    /\ Publish(w, Conclude(snap[w]), "release")
    /\ UNCHANGED <<wtask, finished>>

\* ensure_managed_git_branch_for_task_group, then the save after it.
PrepareGit(w) ==
    /\ At(w, "prepare")
    /\ \/ Publish(w, snap[w], "reload")
       \/ Publish(w, Halt(Move(snap[w], wtask[w], "blocked"), "blocked"),
                  "release")
    /\ UNCHANGED <<wtask, finished>>

\* The worker reads the file again and looks for a pause, nothing else.
Recheck(w, from, d, to) ==
    /\ At(w, from)
    /\ IF File(w).status = "paused" \/ File(w).pause
       THEN Hold(w, SettlePause(File(w)), "exit")
       ELSE Hold(w, d, to)

ReloadBoard(w) == Recheck(w, "reload", File(w), "attach")

\* attach_rag_context_for_task, then the save after it.
SaveContext(w) ==
    /\ At(w, "attach")
    /\ Publish(w, snap[w], "recheck")
    /\ UNCHANGED <<wtask, finished>>

BeginCall(w) == Recheck(w, "recheck", [File(w) EXCEPT !.call = TRUE], "dial")

SaveCall(w) ==
    /\ At(w, "dial")
    /\ Publish(w, snap[w], "started")
    /\ UNCHANGED <<wtask, finished>>

\* The session exists; link_board_task_session records it under the lock.
LinkTaskSession(w) ==
    /\ pc[w] \in {"started", "redial"}
    /\ lock = Unlocked
    /\ lock' = [board |-> wboard[w], image |-> [File(w) EXCEPT !.call = TRUE],
                next |-> "none", by |-> w]
    /\ Goto(w, IF At(w, "started") THEN "linking" ELSE "relinking")
    /\ UNCHANGED <<disk, owner, starts, poll, wboard, snap, wtask, recovering,
                   finished, crashes>>

SaveLink(w) ==
    /\ lock.by = w
    /\ SaveBoard(lock.board, lock.image)
    /\ lock' = Unlocked
    /\ Goto(w, IF At(w, "linking") THEN "call" ELSE "recall")
    /\ UNCHANGED <<owner, starts, poll, wboard, snap, wtask, recovering,
                   finished, crashes>>

\* The turn ends, or could not be started; the worker reads the file again,
\* but not after a second attempt.
ProviderAnswers(w) ==
    \/ /\ pc[w] \in {"started", "call"}
       /\ Hold(w, File(w), "result")
    \/ /\ pc[w] \in {"redial", "recall"}
       /\ Hold(w, snap[w], "answered")

\* wait_for_shared_provider_turn saw an aborted board.
\* Faulty variant: only a pause interrupts the provider.
ProviderPaused(w) ==
    /\ pc[w] \in {"call", "recall"}
    /\ File(w).status = "pausing"
    /\ Hold(w, IF At(w, "call") THEN File(w) ELSE snap[w], "interrupted")

ProviderInterrupted(w) ==
    /\ pc[w] \in {"call", "recall"}
    /\ File(w).status = "cancelled"
    /\ Hold(w, IF At(w, "call") THEN File(w) ELSE snap[w], "interrupted")

\* A blocker the provider reported on itself is tried once more.
RetryBlocker(w) ==
    /\ At(w, "result")
    /\ Publish(w, snap[w], "redial")
    /\ UNCHANGED <<wtask, finished>>

\* Validation, repair, compaction and git ran since the file was read.
ApplyResult(w, outcome) ==
    /\ pc[w] \in {"result", "answered", "interrupted"}
    /\ At(w, "interrupted") => outcome = "blocked"
    /\ Publish(w, [Move(snap[w], wtask[w], outcome) EXCEPT
                      !.cur = NoTask, !.call = FALSE], "top")
    /\ wtask' = [wtask EXCEPT ![w] = NoTask]
    /\ finished' = [finished EXCEPT ![wboard[w]] =
                      IF outcome = "done" THEN @ \cup {wtask[w]} ELSE @]

\* The task is done but its branch cannot be merged.
FinalizeGitFails(w) ==
    /\ pc[w] \in {"result", "answered"}
    /\ Publish(w, Halt(Move(snap[w], wtask[w], "blocked"), "blocked"),
               "release")
    /\ UNCHANGED <<wtask, finished>>

SaveExit(w) ==
    /\ At(w, "exit")
    /\ Publish(w, snap[w], "release")
    /\ UNCHANGED <<wtask, finished>>

Leave(w) ==
    /\ wboard' = [wboard EXCEPT ![w] = NoBoard]
    /\ snap' = [snap EXCEPT ![w] = Blank]
    /\ wtask' = [wtask EXCEPT ![w] = NoTask]
    /\ Goto(w, "idle")

\* Faulty variant: only the worker of a halted board gives up the claim.
ReleaseHalted(w) ==
    /\ At(w, "release")
    /\ owner' = IF owner = wboard[w] /\ ~File(w).active THEN NoBoard
                ELSE owner
    /\ Leave(w)
    /\ UNCHANGED <<disk, requestVars, recovering, finished, crashes>>

ReleaseProject(w) ==
    /\ At(w, "release")
    /\ owner' = IF owner = wboard[w] THEN NoBoard ELSE owner
    /\ Leave(w)
    /\ UNCHANGED <<disk, requestVars, recovering, finished, crashes>>

-----------------------------------------------------------------------------
(* Restart: recover_active_boards runs one task per board that was active.  *)

Crash ==
    /\ crashes < MaxCrashes
    /\ crashes' = crashes + 1
    /\ owner' = NoBoard
    /\ lock' = Unlocked
    /\ starts' = {}
    /\ poll' = NoPoll
    /\ wboard' = [w \in Workers |-> NoBoard]
    /\ pc' = [w \in Workers |-> "idle"]
    /\ snap' = [w \in Workers |-> Blank]
    /\ wtask' = [w \in Workers |-> NoTask]
    /\ recovering' = {b \in Boards : \/ disk[b].status = "running"
                                     \/ disk[b].active
                                     \/ disk[b].loop}
    /\ UNCHANGED <<disk, finished>>

RecoverBoard(b, w) ==
    /\ b \in recovering
    /\ w \in IdleWorkers
    /\ recovering' = recovering \ {b}
    /\ wboard' = [wboard EXCEPT ![w] = b]
    /\ \/ /\ owner \in {NoBoard, b}
          /\ owner' = b
          /\ snap' = [snap EXCEPT ![w] =
                        [disk[b] EXCEPT !.status = "running", !.active = TRUE,
                                        !.loop = TRUE, !.pause = FALSE,
                                        !.cur = NoTask]]
          /\ Goto(w, "recover")
       \/ /\ owner \notin {NoBoard, b}
          /\ UNCHANGED owner
          /\ snap' = [snap EXCEPT ![w] = Halt(disk[b], "blocked")]
          /\ Goto(w, "surrender")
    /\ UNCHANGED <<disk, requestVars, wtask, finished, crashes>>


SaveRecovered(w) ==
    /\ At(w, "recover")
    /\ Publish(w, snap[w], "top")
    /\ UNCHANGED <<wtask, finished>>

SaveSurrender(w) ==
    /\ At(w, "surrender")
    /\ SaveBoard(wboard[w], snap[w])
    /\ Leave(w)
    /\ UNCHANGED <<owner, requestVars, recovering, finished, crashes>>

-----------------------------------------------------------------------------
Request(b) ==
    \/ PauseBoard(b) \/ StartBoard(b) \/ AbortBoard(b) \/ ScheduleBoard(b)
    \/ ClearBoardSchedule(b) \/ ScheduleNow(b) \/ RetryAttentionTasks(b)
    \/ \E t \in Tasks : PromoteTask(b, t) \/ DemoteTask(b, t)
    \/ PollArmsRetry(b) \/ PollRetries(b) \/ PollSchedule(b)

ServeRequest(b) == StartBoardExecution(b) \/ RefuseStart(b)

Execute(w) ==
    \/ LoadBoard(w) \/ SavePlan(w) \/ PickTask(w) \/ NothingToRun(w)
    \/ PrepareGit(w) \/ ReloadBoard(w) \/ SaveContext(w) \/ BeginCall(w)
    \/ SaveCall(w) \/ LinkTaskSession(w) \/ SaveLink(w)
    \/ ProviderInterrupted(w) \/ FinalizeGitFails(w)
    \/ \E outcome \in {"done", "blocked", "failed"} : ApplyResult(w, outcome)
    \/ SaveExit(w) \/ ReleaseProject(w) \/ SaveRecovered(w)
    \/ SaveSurrender(w)

Next ==
    \/ \E b \in Boards : Request(b) \/ ServeRequest(b)
    \/ SaveEdit \/ PollSaves \/ Crash
    \/ \E w \in Workers :
          \/ Execute(w) \/ ProviderAnswers(w) \/ RetryBlocker(w)
          \/ SaveStart(w)
          \/ \E b \in Boards : RecoverBoard(b, w)

Spec == Init /\ [][Next]_vars

\* Storage, git and the requests of this server finish; a provider need not
\* answer, but an aborted one is stopped.  The lock is granted in the end.
Fairness ==
    /\ WF_vars(SaveEdit) /\ WF_vars(PollSaves)
    /\ \A b \in Boards : SF_vars(ServeRequest(b))
    /\ \A w \in Workers :
          /\ WF_vars(Execute(w)) /\ SF_vars(LinkTaskSession(w))
          /\ WF_vars(SaveStart(w))
    /\ WF_vars(\E b \in Boards, w \in Workers : RecoverBoard(b, w))

FairSpec == Spec /\ Fairness

-----------------------------------------------------------------------------
TypeOK ==
    /\ disk \in [Boards -> Board]
    /\ owner \in Boards \cup {NoBoard}
    /\ lock \in [board : Boards \cup {NoBoard}, image : Board,
                 next : {"none", "start", "spawn"},
                 by : Workers \cup {NoWorker}]
    /\ starts \subseteq Boards
    /\ poll \in [board : Boards \cup {NoBoard}, image : Board,
                 start : BOOLEAN]
    /\ wboard \in [Workers -> Boards \cup {NoBoard}]
    /\ pc \in [Workers -> PCs]
    /\ snap \in [Workers -> Board]
    /\ wtask \in [Workers -> Tasks \cup {NoTask}]
    /\ recovering \subseteq Boards
    /\ finished \in [Boards -> SUBSET Tasks]
    /\ crashes \in Nat

\* Workers that may run cards of b; one that recovery sent away only saves.
Drivers(b) == {w \in WorkersOf(b) : pc[w] # "surrender"}

\* A claimed project has a worker of the board that claimed it, or a start
\* that is about to spawn one: no interleaving of starts, exits and a restart
\* leaks the claim, which would refuse every other board until a restart.
ClaimHasWorker ==
    owner # NoBoard => \/ Drivers(owner) # {}
                       \/ lock.board = owner /\ lock.next = "spawn"

ProviderPCs == {"started", "linking", "call", "redial", "relinking", "recall"}
WorkPCs == ProviderPCs \cup {"prepare", "reload", "attach", "recheck", "dial",
                             "result", "interrupted", "answered"}
Executing == {w \in Workers : pc[w] \in ProviderPCs}

\* A card is given to a provider only when every card it depends on has been
\* completed, however stale the copies of the board written in between.
WorkFollowsDependencies ==
    \A w \in Executing :
        DependsOn[wtask[w]] \ {wtask[w]} \subseteq finished[wboard[w]]

\* No save of a worker, of the poller or of the recovery, however stale its
\* copy, takes back the revision of a control request.
RevisionsGrow == [][\A b \in Boards : disk'[b].rev >= disk[b].rev]_vars

\* Requests that make a board run again without raising its revision.
Unrevised == {"retry", "promote"}

\* Only a request resumes an aborted board: no save of a worker that loaded
\* the board before the abort makes it run again.  That needs every request
\* that resumes a board to raise its revision.  Excepted are therefore boards
\* with automatic retry, which the poller saves, retries and promotions, and
\* what follows a restart, whose recovery undoes an abort.
Revised == crashes = 0 /\ Requests \cap Unrevised = {}
AbortHolds ==
    [][Revised => \A b \in Boards \ AutoRetry, w \in Workers :
         Execute(w) /\ disk[b].status = "cancelled"
             => disk'[b].status # "running"]_vars

\* Aborting a board stops every worker it has, even one whose provider never
\* answers, unless the board is resumed meanwhile.
AbortStopsWorkers ==
    \A b \in Boards :
        disk[b].status = "cancelled" ~>
            (disk[b].status # "cancelled" \/ WorkersOf(b) = {})

-----------------------------------------------------------------------------
(* What makes ClaimHasWorker and WorkFollowsDependencies inductive.         *)

\* An idle worker has no board and holds no copy.
SlotsMatch ==
    \A w \in Workers : /\ wboard[w] = NoBoard <=> pc[w] = "idle"
                       /\ pc[w] = "idle" => snap[w] = Blank

LockShape ==
    /\ lock = Unlocked \/ lock.board \in Boards
    /\ lock.by \in Workers => /\ lock.next = "none"
                             /\ pc[lock.by] \in {"linking", "relinking"}
    /\ poll = NoPoll \/ poll.board \in Boards

\* No copy of a board shows a card as done that no worker has completed.
Genuine(d, b) == In(d, "done") \subseteq finished[b]
DoneIsFinished ==
    /\ \A b \in Boards : Genuine(disk[b], b)
    /\ lock # Unlocked => Genuine(lock.image, lock.board)
    /\ poll # NoPoll => Genuine(poll.image, poll.board)
    /\ \A w \in Workers : pc[w] # "idle" => Genuine(snap[w], wboard[w])

WorkReady ==
    \A w \in Workers : pc[w] \in WorkPCs =>
        /\ wtask[w] \in Tasks
        /\ DependsOn[wtask[w]] \ {wtask[w]} \subseteq finished[wboard[w]]

\* The inductive invariant.
IInv == TypeOK /\ SlotsMatch /\ LockShape /\ ClaimHasWorker
        /\ DoneIsFinished /\ WorkReady

-----------------------------------------------------------------------------
(* What the repository says of boards and the code does not keep.           *)

\* docs/design/kanban.md: "Only run one executable subtask per project at a
\* time."  Two workers of the project never run cards at the same time.
OneExecutor == Cardinality(Executing) <= 1

\* docs/design/kanban.md: "If the user does not want an item to run, it should
\* be moved back to Backlog."  No save of a worker takes a card back out of the
\* backlog.
BacklogHolds ==
    [][\A b \in Boards, t \in Tasks, w \in Workers :
         Execute(w) /\ disk[b].task[t] = "backlog"
             => disk'[b].task[t] = "backlog"]_vars

\* request_board_pause: "Board pause requested; waiting for current work to
\* finish".  A board that is pausing has a worker whose work it waits for, or
\* a request, a poll or a recovery under way that may start one.
PausingHasWorker ==
    \A b \in Boards :
        disk[b].status = "pausing" =>
            \/ b \in starts \cup recovering \cup {lock.board, poll.board}
            \/ WorkersOf(b) # {}
=============================================================================
