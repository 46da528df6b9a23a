# io-workbench: TLA+ models of the workbench server

io-workbench is a self-hosted development workbench: one Rust process serves a
web UI over HTTP and WebSocket, keeps its state in SQLite and JSON files, and
runs the command line agents (Codex, Claude, Gemini), shells, git and database
tools of its users as child processes.  This directory models the parts of it
whose correctness depends on the order of steps: who owns a durable row, a
process, a flag or a copy, what a crash leaves behind, and what a restart makes
of it.  TLC checks the models on small instances; TLAPS proves the most
important of the checked properties for every instance.

Contents: 1 inventory, 2 modules and code, 3 runs, 4 fairness, 5 proofs, 6 what
is only model-checked, 7 what is not modelled, 8 disagreements with the code,
9 plan, 10 files.

## 1. Inventory

Paths are below `src/crates/`; `ab/` stands for `iowb-server/src/agentic_board/`
and `core/` for `iowb-core/src/core/`.  "M": every operation that changes state
is an action; "p": partly modelled (section 7 says what is left out); "-": not
modelled.

| | Component | Source | State it keeps | Operations | What is hard about it |
|---|---|---|---|---|---|
| p | Chat turns | `core/app_state/{agent_sessions,compaction}.rs`, `core/agent_runtime/manager.rs`, `iowb-server/.../recovery_and_routing.rs`, `iowb-storage/.../durable_*.rs` | rows of `durable_chat_runs`, the `active` flag of a session in storage and in a cache, one runtime record per session, the provider process | start, supersede, abort, finish, startup recovery | requests interleave at every await; the server may die between two storage calls; recovery must not repeat an answered prompt |
| p | Context rollover and manual compaction | `core/app_state/{compaction,recovery}.rs`, `core/agent_commands/recovery.rs`, `iowb-storage/.../context_rollovers.rs` | rollover rows tied to a compaction run, the native thread of a session | compact & retry, compact, stage, activate, fail, reconcile | a request id used twice; a turn that begins during the checks; late reports of an archived thread |
| p | Session registry, forks and history | `core/sessions/*.rs`, `core/app_state/forks.rs`, `iowb-storage/.../sessions.rs` | a bounded cache over the `sessions` table, the ids of board sessions, fork rows, tombstones | create, update, fork, delete, restart | cache and table are written by different paths; eviction; concurrent fork requests |
| p | External session discovery | `iowb-core/src/external_sessions/*.rs`, `iowb-storage/.../projects_and_external_history.rs` | an index, a table and a memory cache of transcripts other tools write | synchronise, read whole, tail or page | the files grow and are replaced while they are read |
| p | Board execution control | `ab/{execution,provider_runtime,persistence_and_prompt_generation}.rs`, `ab/http/controls.rs`, `agentic_board.rs` | one JSON file per board, the claim of a project, a mutation lock, one worker task per started board | pause, start, abort, schedule, retry, move; the worker's loop; the poller; recovery | worker, poller and recovery write the file without the lock, from copies read long before |
| p | Board planning, hierarchy and scope | `ab/hierarchy/*.rs`, `ab/orchestration/*.rs`, `ab/normalization.rs`, `ab/http/{scope,tasks,research}.rs` | the tree of cards with approvals, dependencies and planning errors | break down, approve, roll up, edit, delete, resolve | the user changes the tree while the worker holds a copy of it |
| p | Board discussion and authoring | `ab/discussion/*.rs`, `ab/persistence_and_prompt_generation.rs` | proposals in the board file, backlog prompts | accept a proposal (split, merge, edit, move, replace ...), generate cards | a prompt answered after the board moved on |
| p | Board task results and quality assurance | `ab/task_execution/*.rs`, `ab/execution_support.rs`, `ab/validation_and_settings.rs` | results, evidence, follow-ups and verdicts on cards | run a card, collect evidence, validate, judge, check | what an answer is worth depends on what the work tree showed before and after it |
| M | Managed git for boards | `ab/task_execution/managed_git.rs` | a ledger of groups, branches of the project's repository | branch, commit, switch, merge, push | any command may fail; others use the repository |
| p | Agent event parsing and provider adapters | `core/*_normalizer*.rs`, `core/agent_commands/*.rs`, `core/direct_ai.rs` | buffers of one run | read, assemble, normalise, conclude | output is cut and interleaved anyhow |
| M | Codex app-server client | `iowb-core/src/codex_app_server/*.rs` | one child and its pending requests per call | start or resume a thread, run a turn, compact, interrupt | notifications of other turns, requests of the server, death, time-outs |
| M | Process supervision | `iowb-process/src/lib.rs` | the table of shells, bounded replay buffers, control channels | start, read, write, resize, kill, drain, watch | exit, drains and output race; a descendant keeps a pipe open |
| M | WebSocket hub and replay | `core/managers.rs`, `iowb-server/.../processes_and_websocket.rs` | a bounded broadcast channel, a direct channel and subscriptions per socket | publish, subscribe, replay, deliver | lagging receivers; events between replay and subscription |
| p | Git endpoints | `iowb-server/src/git/` | the user's repository, work tree and remote | stage, discard, hunks, commit, stash, branch, push, pull, init ... | several git commands per request, with users and agents in between |
| p | Database workspace and transfers | `iowb-server/src/database/`, `iowb-storage/.../database_connections_and_jobs.rs` | profiles, pools, transfer jobs, the users' tables | transfer, export, import, copy, paste, edit, query | a profile changes while its pool is in use; tables change between two statements |
| - | HTTP API, storage and migrations, file system, protocol types, RAG interface, command line, web UI | `iowb-server/src/server/`, `iowb-storage`, `iowb-fs`, `iowb-protocol`, `iowb-rag-plugin-api`, `iowb-cli`, `iowb-ui` | none that is shared, or single SQL statements that appear in the models of their users | - | - |

How they interact.  An HTTP request or a board's worker calls
`start_agent_session`, which writes the session and its durable row and spawns a
task around the provider; that task publishes events to the hub and finishes the
row, the flag and the record.  What the provider prints reaches it through
AgentOutput, CodexTurn or GatewayReply.  A rollover adds a compaction run and a
resumed run to the rows of a chat.  A board's worker takes the next card
(BoardCards), works on it (CardAttempt), waits for the provider as for any chat
and aborts the session when the board was aborted (BoardControl).  Processes send
their output through the bridge to the hub and from there to each socket
(Terminal).  At startup rows are recovered before the listener opens, and boards
when the router is built.  Components that share state or channels are composed
(ProcessSupervisor and EventSocket in Terminal; BoardTree, BoardScope and
BoardCards); the others meet only in calls that the models take as steps whose
outcome is free: to ChatRuns a board is one more client, to BoardControl a
provider call is a step that may never end.

## 2. Modules and code

An action is one storage call, one lock section, one step of a channel or one
external command; what a function read before an await is kept in a variable.

### Chat turns: ChatRuns, TurnLedger, ChatRunsLedger

What must be true: a row that says it is running has a task that will settle it;
a prompt is invoked no more often than the counted attempts allow, and never
after its answer was saved; a settled row stays settled; a session is not shown
as active for ever; all of that over any number of restarts.

| Variable | Code |
|---|---|
| `sess`, `status`, `attempts`, `stamp` | columns of `durable_chat_runs` (`created_at` as a clock) |
| `origin`, `lastUser`, `answers` | the prompt of a row, the last message of the transcript, answers saved with its `durableRunId` |
| `cached`, `stored` | `active` in SessionManager's map, and in the table |
| `records`, `handle` | `AgentRuntimeManager::runs`, and whose abort sender a record holds |
| `pc`, `outcome`, `snap`, `stale` | locals of `start_agent_session_scoped`, the task in `start`, and `finish` |
| `aborting`, `abortTodo` | a detached `abort_agent_session` |
| `server`, `todo`, `recovered` | phases of startup and the locals of `recover_interrupted_chat_runs` |

Actions follow the code in order: `BeginTurn, ListStale, InterruptStale,
PersistTurn | PersistFails, RejectTurn, RegisterRun, SpawnProvider | SpawnFails`
for a start; `ProviderExits`, or `StopProvider, ProviderStopped`, then
`FinishMessage ... FinishRelease` for a task; `AbortAttached`, or `AbortDetached,
AbortMark, AbortSettle`; `Crash, Restart, SynthesizeRun | ClearOrphan,
BeginRecovery, Recover*, EndRecovery`.

`TurnLedger` is the promise to a caller with no mention of tasks, flags or
processes.  `ChatRunsLedger` instantiates it with the refinement mapping
`phaseOf` and holds the parts of the inductive invariant.

A start over the context limit is `RejectTurn`.  In recovery a launch that fails
finishes inside the loop, the model lets the loop go on meanwhile: more
behaviours, not fewer.

### Context rollover: ContextRollover

What must be true: of the runs of one prompt at most one completes; an active
rollover has a staged thread and is never reopened; a chat that moved to a clean
thread is not sent back; no message is lost.

| Variable | Code |
|---|---|
| `row`, `born` | `durable_chat_runs` in creation order: turns, compaction runs, resumed runs |
| `roll` | `session_context_rollovers`: state, candidate thread, thread before |
| `chat`, `said` | the session's active flag and native thread; its user messages |
| `call` | a handler of a compaction request and what it read |
| `task`, `attached` | the task that drives a row; whose abort sender the record holds |
| `report`, `aborting` | thread ids checked and not written yet; rows an abort will mark |
| `mode` | up, recovering or down, with the rows recovery still has to treat |
| `answered`, `raced` | history, for the properties |

Two calls may carry one request id.  Turns have only the steps a rollover can
meet; ChatRuns looks into them.  Every failed turn is taken to have failed
because its context is too large.  What the materialised context says is data.

### Session registry: SessionRegistry

What must be true: the cache says what the table says; a request for a fork makes
one destination; what a fork hid stays hidden only on its behalf.

`stored` (the `sessions` table), `cache`, `recent` (order of eviction), `boardIds`
(what the event filter asks), `drives` (where a run is that works for a session),
`usage` (the row `set_token_usage` has read), `footer` (the footer of a turn that is
over), `deletion`, `forks`, `fork`, `thread`, `tombs`, `restarts`.

Most requests change table and cache in one lock section.  The others take several
steps, and the model takes each of them: a deletion; a fork; the footer, which
`finish` reads with `get_session_summary` and writes back with `upsert_session`, no
lock held between (`ReadForFooter, WriteFooter`); and the activation of a clean thread,
which sets `active = 0` in the table behind the back of the cache
(`ReadForActivation, ActivateRollover, RereadActivated, RememberActivated`).
While one of them is under way cache and table do differ; `torn` is history and
names the ids others wrote meanwhile, or that a footer wrote over.  A restart finds
rows that compaction left inactive or active.  A fork that lost, or failed, deletes
its native thread; when the provider refuses, the code logs it and the thread is
`leaked`: no session maps it and no tombstone hides it, so the conversation is listed
as an external one.

`NamesAreApart`: ids are fresh UUIDs.  Bounds: a session has one footer, one usage
request and one activation under way.  What a footer says besides the columns of
`SessionRow` (usage, times) is left out, and so are forks of forks.

### External history: ExternalHistory

`file` (the transcripts, written by others at any time), `index` and `syncing`
(`external_history_sources`, and the scan under way), `saved` (the table of parsed
messages), `memo, memoSize, lastRead, now` (the memory cache, its bytes, the
access times and the number of accesses), `reader`, `answer`.  A file is its
number of complete lines, half a line, its identity and a stamp that every write
changes.  The cache's limit on entries is left out, that on bytes is modelled.

### Boards in control: BoardControl

What must be true: the claim on a project always has somebody who will release
it; a card reaches a provider only after the cards it depends on; no save,
however late, takes back a control request; an abort gets rid of the workers.

| Variable | Code |
|---|---|
| `disk` | the board files: the fields of `AgenticBoard` that control execution, `call` for `board_has_in_flight_work` |
| `owner` | `PROJECT_EXECUTION_OWNERS` for the one project the boards share |
| `lock` | `BOARD_MUTATION_LOCK`: who holds it and the copy to be saved |
| `starts` | requests between their edit and `start_board_execution` |
| `poll` | the copy the poller holds |
| `wboard`, `pc`, `snap`, `wtask` | a worker: its board, its place in `execute_board_loop_inner`, its copy `stored`, its card |
| `recovering` | the tasks `recover_active_boards` has spawned |
| `finished`, `crashes` | history: cards a worker completed, crashes |

A handler takes the lock and computes its copy in one action, and saves in another
(`SaveEdit`, `SaveStart`), since the others do not take the lock.  `SaveBoard` is
the merge of `save_board` with newer control state; a worker keeps the unmerged
copy, as the code does.  Any runnable card may be picked.  Domain: boards whose
hierarchy is broken down and approved; the set of cards is fixed (BoardCards has
the rest).  The poller works on one board at a time and may come at any moment.

### Cards: BoardTree, BoardScope, BoardCards

What must be true: what is in execution stays approved all the way up with its
dependencies done, whatever the user does meanwhile; work that left changes in
the project keeps its card until the user decides about them; the worker comes to
rest.

`BoardTree` has the pure functions on the cards of a board: levels, approvals,
eligibility, `RefreshRollups`, `Normalize`, dependency and hierarchy issues.
`BoardScope` has one function per request of a user, from the cards and the card
in execution to the new cards and an answer ("ok", "conflict" or a planning
error, which is saved).  `BoardCards` is the machine: `board` (the stored board),
`worker` (its place, its card and the copy it holds), `planner` (a breakdown the
user waits for), `left` (requests still to come), `prompts` (backlog prompts that
wait for the provider).  A worker saves its copy without the lock, so a request
made during a card is overwritten as in the code.

`touched` is what a card has on record of its work.  Files (`changed_files`) are
added to by every attempt and kept by edits; effects (`side_effect_evidence`) are
those of the last attempt: each attempt replaces them, an edit of the scope clears
them, and so does a merge into the card.  A card reports only effects it declared.
Every board that is stored was normalised to `orchestration_version` 3 or later, so
the flat branch of `execution.rs:826`, which replaces the files, is not taken;
`normalization.rs:766-777` clears the files of rows that predate `ownershipPolicy`,
which no board of the model holds.

Kept of the five levels are story, task and subtask.  Dependencies are between
subtasks, and between the roots prompts make.  Priorities, suggestions of
providers, agents-knowledge cards and the restart of a prompt are left out.

### One card: CardAttempt

What the worker does with one card after the other: `job` (the board and its
settings), `state` (what is stored of each card), `ledger` (`git_ledger`), `hand`
(the worker's step and what it holds: snapshots before and after, the files its
turns wrote, its answer), `git` (branches, work tree, remote), `noise` (how often
others interfered).  Steps are those of `execute_board_loop_inner` and
`execute_provider_task_with_fallback`: find the tree clean,
read the base and create the group's branch; tests first, which must fail; a turn,
repair of a malformed answer, another provider; snapshots and attribution;
validation and judgment; then commit, switch back, fast-forward merge and push of
a group with nothing left to do.  Every git command may fail, and others edit,
switch, commit and push.  A file's content is one of five kinds.

### Processes and sockets: ProcessSupervisor, EventSocket, Terminal

What must be true: the exit of a process is the last the client hears of it, and
reaches the client; a subscription leaves no gap between replay and live events.

`ProcessSupervisor`: `kind, child, holder, listed, reader, gate, control, inbox,
stalled, killed, stage, ending, made, buffer, kept, events, lagged` for the child,
its readers, its control thread, its watcher and the bounded channel of events.
Input for a pipe goes through a bounded inbox.  When it is full the socket's task
itself waits for room (`AwaitRoom`, `ResumeInput`; `stalled` names the process) and
delivers nothing meanwhile: `Free` guards every other step of that task.  A kill goes
by its own channel and does not wait for the writer of input.
`EventSocket`: `conn, hubq, missed, direct, commands, boardSubs, chatSubs, boards,
got, gap, counts` for one socket task.  `Terminal` joins them by the bridge, by
the replay a Subscribe takes, and by the controls that come over the socket;
`old` is history: the chunks the client was not owed.  A deleted board session
loses its place in `boards` (`DeleteSession`) while its run may still publish.
Several sockets do not
share anything but the hub, which keeps a cursor for each.

### Replies: AgentOutput, CodexTurn, GatewayReply

What must be true: the stored reply of a run is what its whole output says, for
any cut of the output, but for characters the cut went through; a turn's reply is
made of its own notifications.

`AgentOutput`: `agent, child, read, queue, norm, run` - two readers, the queue to
the task, the three normalizers, the conclusion at exit or abort.  `CodexTurn`:
`plan, server, pipe, client, notes, said, ended` - setup, live turn, plain requests
and compactions against a server that tells of other turns, asks, refuses, falls
silent and dies; a call ends as its server told or its user asked, and no text of
another turn reaches a live turn (`OwnTurnServed`); `ReplyIsOwn` says what the reply
is made of.  `GatewayReply`: `chat, ask, body, turn` - the conversation that is
sent, the addresses tried one by one, the stream and its line assembly.  Texts are
sequences of line numbers; lines are read in halves.  Wording, JSON shapes and how
lines are wrapped are left out.

A read of at most 8192 bytes is decoded by itself, so a character two reads share
is damaged: the two halves of a `wide` line meet inside a character, and one that is
read in two is `torn`.  A published event is clipped as a whole, so a `long` line
that shares its event with others is `clipped`.  `OutputIsWhole` says what is left
to promise.  Usage, error and tools are those of the whole output.  A reply the
provider names is exact, given which lines were torn.  Where none is named the lines
shown take its place: a suffix, in order, of what the whole output shows, with
stderr's text among them, and all of it when nothing came from stderr.

### Workspace: DatabaseWorkspace, GitWorkspace

`DatabaseWorkspace`: `profiles, pools, tables, file, clip, jobs, serve`.  A request
captures its profiles when it starts and finds or opens a pool at its first remote
call; nothing locks a table between two calls.  What must be true: a transfer adds
rows of its source only and reports no clean copy that misses one, an import is
whole, no request reaches a server its profile does not name.

A live table is read in pages, each a statement of its own without ORDER BY: every
page may come in its own order, so an export of more than one page can repeat one
row and miss another even if nobody writes.  A transfer is promised more because it
fails on a key it meets twice: it counts as many rows as the source has, and if none
failed and the target has a key, none is missing.  In what order rows stand in a
page or a file is not promised.  A value is written as JSON: spans of time
shift by the time zone when they are copied (`Shift`), infinite numbers become
null (`JsonRow`, `MappedRow`).  An INSERT whose reply is lost counts as failed while
its row is there.  Left out: milliseconds, whose truncation may make two spans one,
and blobs, which come as objects that wrap their bytes.

`GitWorkspace`: `repo, nested, remote, calls, spent`.  One file, and a directory
that may be a repository of its own; a content is a set of hunks, a branch the
sequence of its commits.  What must be true: the parent stays out of a repository
that has stood there since the request began (`ParentKeepsOut`), no version of a
file is lost that the request did not name (`NothingLost`), and a request nobody
disturbed does what it says (`Serves`).  A call remembers the repository and the nested one it began
with (`before`), whether anyone changed them since (`clean`), and whether a nested
repository the search finds stood all the time (`stood`), without a link in the
parent (`loose`).

A nested repository may be `hidden`: the search of the workspace passes over
directories by name (`build`, `target`, ...) and drops a repository that git fails to
name.  `ParentKeepsOut` is about those it finds (`Found`); of the others the code
takes the files for its own (`BoundaryKept`, section 8).  A discard is promised for the files
that were the project's when the request began.

The text of a diff is decoded as UTF-8 with replacement, and `diff.lines()` strips a
CR, so lines of a `Lossy` hunk reach the patch as something else (`Decoded`).  Such a
hunk may be refused, also as context of another, or stage the damaged lines in place
of those picked; the hunks staged are promised as far as decoding leaves them what
they were.  The upstream of a push is read in two commands (the two
steps of `ReadUpstream`).

## 3. Runs

| Run | Instance | What it shows |
|---|---|---|
| `chat_turns` | 2 rows, 2 sessions, room for 1 record, 1 retry, 1 crash | types, open rows are attended, lone sessions settle, no invocation after an answer, settled rows stay settled, refinement of TurnLedger |
| `chat_live` | 2 rows of 1 session, 1 retry, 2 crashes, no aborts, fairness | the budget of invocations; both turns settle, a superseded provider is stopped even if it never exits |
| `board_abort` | 1 card, 2 workers, start and abort, revision 5, fairness | an abort is not undone by a worker's copy, and an aborted board loses its workers or is resumed |
| `board_requests` | fresh chained board paused, started and retried; two half-done boards with every other request, the poller and 1 crash; revision 3 | claim, dependency order, types and revisions while workers and the poller hold stale copies |
| `terminal` | 1 process (pipe or PTY), 2 chunks, 2 commands, buffers of 1 or 2, hub 2, direct 4 | order of the end, replay without a gap, every end is published and reaches a client that stays, unless its socket waits on input nobody reads |
| `rollover` | 2 turns, 3 retry calls (two of one request) and a compaction, 1 death, fairness | every rollover property, and that rollovers settle |
| `services` | 2 sessions and 2 handlers of one fork request, cache of 1, 1 restart; 2 files, 2 readers, 3 writes, cache of 1 line | what the registry and the history serve is what is stored and written, outside the windows of section 2 |
| `cards` | 5 boards of up to 7 cards, 1 request of the user at any point or 2 prompts, any answers; 12 boards for CardAttempt | soundness of work in progress, changed files stay on record until the user decides and effects until an attempt, an edit or a merge, done is earned, groups are delivered, the worker comes to rest |
| `workspace` | the instances of MCWorkspace for the database, command line output, app-server, git and gateway | transfers and pools, replies, turns, git requests |

Violations, each a disagreement between the code and a line of the repository
(section 8):

| Run | Instance | Property violated |
|---|---|---|
| `board_one` | 2 chained cards, 2 workers, start and pause | `OneExecutor`: a board has one worker |
| `terminal_wait` | a client that sends pings | `HandlerNeverWaits`: a socket's task waits for no room it makes itself |
| `rollover_retry` | as `rollover` | `RetryRemainsPossible`: a failed compaction can be retried |

The MC modules for several components have a variable `focus`: a behaviour is about
one part or one small instance, the rest stands still.  Since the parts share no
state this loses nothing, and their sizes add up instead of multiplying.  In
`MCTerminal` an instance begins with a process that runs, its other threads at rest,
and the bounds on what it is not about used up; in `MCRollover`, with a chat whose
last turn is over; in `MCBoardRequests`, with cards an earlier worker completed.
All these are states the program reaches.

Bounds.  Two rows of a session are the smallest case in which one turn supersedes
another, and every pair of actors of the code (old task, new request, abort,
recovery) is among them; a second crash falls into the recovery from the first.
`MaxRevision` bounds control requests (a start costs two): 5 is start, pause,
start, the shortest sequence that gives a board two workers; two workers are all
that two starts spawn.  Two chunks and a replay buffer of one make the buffer, the
channel and the hub overflow; more chunks only repeat that.  Two handlers of one
request, another request and a manual compaction are the pairs of rollover calls
that can meet; recoveries are counted once.  A cache of one session or line
evicts at the second.  Each board of `cards` has one thing that makes it hard: a
chain with effects to approve, a story without a plan, checked work, research, a
failed attempt in a shelved story; seven ids for cards in all.  `MCWorkspace`
lists which git and database requests meet: two handlers at a time, three where
profiles change, since each property is about one request and those who interfere
with it.

Symmetry: rows of `chat_turns` and workers of the board runs without liveness are
interchangeable (order comes from `stamp`; workers are tokio tasks).  Deadlock is
checked in `cards`, where it would be a worker that is at work and has no step to
take; elsewhere the system rests once the bounds are used up.

## 4. Fairness

`ChatRuns!FairSpec`: weak fairness of every task that is ready (the tokio
scheduler), of the steps of an abort that has begun and of startup (a supervisor
restarts the server).  Requests, aborts and crashes are free.  A provider that
still has its abort handle exits in the end; one that was told to stop need not,
the task kills it: that is what `SignalledRunStops` is about.
`BoardControl!FairSpec`: weak fairness of a worker's own steps, of a save whose
copy is ready, and of recovery; strong fairness of what waits for the mutation
lock, as others may take it in between (a thread that waits for it gets it in the
end).  Nothing is assumed of a provider's answer.
`Terminal!Fairness`: the watcher of a process, the steps of its readers that need
no output, the drains' time-outs, the bridge, the delivery of the hub while the
socket's task is free, a task that waits for room once there is some, and the write
of input that nobody can read any more, which fails at once.  Nothing is assumed of
children, descendants and clients; a write may wait as long as somebody could read
it, and `ExitReachesClient` excepts a socket that waits so for ever.
`ContextRollover!RollFairness`: tasks, handlers that were started, recovery and the
restart go on; providers end or are stopped.
`BoardCards!Fairness`: a worker at work, or a breakdown the user waits for, takes
its next step; the user is free.

## 5. Proofs

Eight modules hold theorems.  tlapm checks them for every value of the constants
under the named assumptions of the modules, which only say what the constants are
(ranges of numbers, ids that differ, finite sets); nothing is assumed of the
program.  A theorem is about the `Spec` of its component, which starts at the
component's `Init`.  The pattern is the same everywhere: an inductive invariant
that TLC checked first on the component's run, `InitInv`, one lemma per action
(with one step per conjunct the action can disturb), `NextInv`, and a last step by
PTL.

**Chat turns** (`ChatRunsProofs`).  `ChatRunsLedger!IInv` says that where a task
stands tells what it has spent: before the spawn an attempt is unspent
(`AttemptIsUnspent`), before the save no answer exists (`AnswerIsUnsaved`), an open
row has a task or is still on the list of recovery (`OpenRowIsHeld`), and startup is
alone (`BootIsAlone`); without the last, a request could interfere with recovery and
none of the others is preserved.  `PromptHasOneRun` says that of the rows of one
prompt at most one may still invoke it, `FlagFollowsTask` where the flag of a
session with a single turn may stand.  Theorems: `TypeCorrect`, `BudgetHolds`
(`InvocationBudget`), `OpenRowsAreDriven` (`OpenRowHasTask`), `SettledForGood`
(`TerminalIsFinal`), `LoneSessionsSettle`, `AnsweredPromptsRest`
(`NoInvocationAfterAnswer`), and `RunsImplementLedger`: each step of ChatRuns maps
to a step or a stutter of TurnLedger.

**Board control** (`BoardControlProofs`).  `BoardControl!IInv` adds to the types
that idle workers hold nothing (`SlotsMatch`), the shape of the lock (`LockShape`),
that no copy of a board anywhere (file, lock, poller, worker) shows a card as done
that nobody completed (`DoneIsFinished`), and that a worker with a card has its
dependencies behind it (`WorkReady`).  `DoneIsFinished` is needed because
dependencies are read from a copy that may be arbitrarily old.  One lemma per
operation on a copy says it keeps the type, adds no done card and does not lower
the revision, and `PreserveMerges` that the merge of `save_board` does.  Theorems:
`Invariance`, `TypeCorrect`, `ClaimIsHeld`, `DependenciesFirst`,
`RevisionsNeverGoBack`.  `AbortsHold` needs a second invariant: only the copy a
request is about to save is newer than the file (`CopiesAreOld`), and all copies
that carry the revision of an abort are stopped (`Known`).  It holds only while
nothing changes a status without a new revision, so `AbortHolds` excepts boards
that retry by themselves, and behaviours with a retry, a promotion or a restart:
there the code does resume an aborted board with the old revision (section 8).

**Terminal** (`TerminalProofs`).  `DrainOrder`: at each stage of the watcher the
drained readers have nothing in hand.  `ExitOrder`: in the events and the hub's
queue nothing of a process is behind its exit, across both queues.
`NothingMissing`: a chunk that is kept and owed to the client is in its hands, in
one of three queues, or with a reader that has stored and not sent it; this is
where a replay and the live events must overlap.  Theorems: `TypeCorrect`,
`ExitComesLast`, `ReplayLeavesNoGap`.  Facts about
concatenation, tails and snapshots are lemmas of the module.

**Context rollover** (`ContextRolloverProofs`).  `IInv` relates rows, handlers and
tasks: what status a row can have at each step of its task (`RowsAreSound`,
`CallsAreSound`), what a handler read is still there (`SourcesAreSound`), rows are
born once, startup is alone, of the rows of one prompt one carries it
(`OneCarrier`), thread reports are of known rows, a handler saw every message
unless a turn began during its checks (`SeenIsAll`), and a retry is of the newest
row (`NewestIsRetried`).  Theorems: `TypeCorrect`, `AnsweredOnce`, `ActivatedWhole`,
`MessagesStay`, `ThreadsStay`.

**Session registry** (`SessionProofs`).  Every conjunct of `RegistryInv` but one is
about one id: a row maps its own thread (`RowsAreOwn`), the cache is current but for
the windows of section 2 (`Current`),
an unborn fork is unknown, a handler's row is what it made, a thread is mapped or
its handler will compensate, a hidden source has an heir; and of the handlers of
one request one is the heir (`OneHeir`).  A step's proof says what changes
elsewhere and at its own id.  Theorem: `RegistryIsServed`.

**External history** (also `SessionProofs`).  `HistoryInv` says of everything that
was read when it was read: what carries the stamp or the fingerprint a file
has now is what the file has now.  A write makes a new stamp, so it leaves nothing
to show.  That the eviction ends with a cache that fits is shown without induction,
by the least of the sets that would do.  Theorems: `HistoryIsTyped`,
`HistoryIsServed`.

**Card attempts** (`CardProofs`), three invariants.  `Known` says what the
worker and the ledger hold.  `Evident` says what the worker has seen of the files
while nobody else touched them: tests that were required failed before the work,
and the snapshots show what its turns wrote.  `Delivering` says how far a group is
on its way while nobody interferes: one entry per group, an entry that is finished
when its cards are, a branch that starts at the base, commits that are at the end
of a branch and branches that end in the order they were merged.  Theorems:
`TypeCorrect`, `DoneEarned` (`DoneIsEarned`), `GroupsDelivered` (`GroupDelivered`).

**Cards** (also `CardProofs`).  `Recorded` says that the stored board is well formed
and its work approved, which is what `Normalize` makes of every board that is saved,
and that the copy a worker holds has all the marks of the stored one; the last is
needed because a worker saves its copy over what others stored meanwhile.  There
is one lemma `...Keeps` per operation on cards, for refused and half applied results
too: of all of them only the resolution of a scope drops the mark of a file, and the
mark of an effect goes also with an attempt at the card, an edit of it, or a merge
into it.  Boards to
start from were saved before (`CardsAssumption`); answers add cards only
while the model has a spare id (`AddsNothing` otherwise).  Theorems:
`MarksStayOnRecord` (`ChangesStayOnRecord`), `WorkStaysApproved` (the first part of
`WorkInProgressIsSound`).

**Database** (`WorkspaceProofs`).  Between two points of a request other requests
may write its tables, so the invariant follows each request from point to point:
what it captured when it began, and, while nobody else has written its tables
(`clean`), what it has read, counted and still has to do of them.  No page is assumed
to agree with another: what was added came from rows of the source (`CameFrom`), and
if the target has a key no two added rows came from the same one (`Differ`), so
a transfer that counted as many as the source has and failed none has them all
(`DifferentIsAll`, a counting argument on finite sets).  Behaviours start
with any well-formed tables and any connections, and no request (`DatabaseStart`).
Theorems: `DatabaseIsServed` (`DatabaseServed`), and `PoolsAreBounded`, that neither
cache of pools outgrows its limit although its lock is released while a pool opens.

**App-server turns** (`WorkspaceProofs`).  `CodexInv`: what is in the pipe is true of
the turn, and the client has heard only what was in the pipe.  `PlanIsSound` says
what a server may tell: notes of its own turn that are not its end, notes of other
turns, and one of three ends.  Theorem: `OwnTurnIsServed` (`OwnTurnServed`).

**Git** (`GitProofs`).  A git command is one step and a request is several.
`GitInv` says of every request what it may still touch while a repository the search
finds stands in the directory (`WorksOutside`), and, while nobody disturbed it, how far it has
come in what it was asked (`Follows`): a discard whose index is already that of the
last commit, a commit whose first path is in the index, hunks whose places are
those of the diff shown.  What decoding does to the lines of a diff is in three
lemmas (`DecodedIs`, `DiffIs`, `TakenIsDiff`).  Each action has a lemma `...Safe` (it keeps out and loses
nothing) and, if a promise tells of its request, one `...Serves`.  Behaviours start
with any repository, nested repository and remote of the right types, and no
request (`GitStart`).  Theorem: `GitIsServed` (`GitServed`).

The proof of `GitServed` found that its statement held only within the bounds of
the run.  `ParentKeepsOut` was stated of whatever stood in the directory at the time
of a step; but another request may remove the repository there and a third make it
anew, so that a request touches what was not there when it looked: it is now stated
while the repository has stood since the request began.  The first commit was
said to hold every file although those in an uninitialized submodule cannot be
added, and a resolution to leave no conflict in any file; it now says which
content it leaves in its own.

So did the attempt at `WorkInProgressIsSound`.  Its last part was said of whatever
blocks a card, the fixes a retry waits for included.  Once an edit has ended in a
planning error, which clears the running card, the user may resolve a scope that
drops such a fix while the retried card is worked on; two requests are needed, and
the run has one.  It is now said of the dependencies of a card.

The attempts at proofs changed what is stated and how.  Two groups whose cards
alternate share branches, which `GroupDelivered` did not allow for; a CASE with
two true guards let TLC choose the right one silently (all such CASEs are IFs
now); the eviction order of the history cache was not determined by the old
variables.

## 6. Only model-checked

- Liveness (`TurnsSettle`, `SignalledRunStops`, `AbortStopsWorkers`,
  `RolloversSettle`, `ExitIsServed`, `BoardComesToRest`): fairness and ENABLED are
  out of the prover's reach.
- `RepliesServed`: a reply is a fold over the lines, notifications or chunks of a
  whole run, so a proof is an induction over data.  For the app-server this is
  `ReplyIsOwn`; that a call ends as told is proved.
- The second and third parts of `WorkInProgressIsSound` (side effects are approved,
  dependencies are done): they need an invariant on the levels of cards, on what
  may reopen a done one, and on which single card is executed.  That what is in
  progress is approved all the way up is proved.
- The `TypeOK` of MC modules that join components; those of the components with
  proofs are theorems, but for the order of activity of SessionRegistry.

## 7. Not modelled

- Chat turns: the attempt log, the `auto_resume` column (always set), a run still
  attached to another live server, storage errors other than the failed insert and
  a failed save of the answer.  Among them are the `?` of
  `agent_sessions.rs:155,162,271-281`: a start that fails there leaves the session
  active with no run.  A failure to mark the row at the end of `finish` is only
  logged by the code.  A restart loads the latest `max_sessions` sessions
  (`lifecycle.rs:14,40`); the model loads all, of which it has one or two.
- Board control: the fallback to another provider and the repair of a malformed call
  (`provider_runtime.rs:92-178`), each one more turn of the wait the model has;
  CardAttempt has them.
- External history: a replaced file gets a new identity; the reuse of an inode for
  another file of the same length and time is left out.
- Sessions: a turn's usage and times, which the footer writes; the retries of a fork
  by the provider.
- Board control and cards: bootstrap, creation, listing and repair of boards
  (`boards.rs`), telemetry of execution, storage errors, retry delays and scheduled
  times (any order of a due time and another event is explored).
- Session listings, titles and search; how each tool's lines are parsed; what a
  snapshot of a thread says.
- Git: tags, fetch and remote status, a commit message written by a model,
  requests addressed to the nested repository itself, merges of diverged histories.
- Database: the explorer and object details, which only read.
- Agents: how a command line is resolved and its arguments are built.
- Settings, credentials, notifications and file watching; HTTP decoding and access
  checks; SQL and migrations; path checks; the RAG plugin (another repository); the
  command line and the browser code.

## 8. Disagreements with the code

Three have a run; `PROJECT.json` quotes the lines.

- `board_one`: start, pause, start gives a board two workers that run cards at the
  same time, though `kanban.md` says one subtask per project.
- `terminal_wait`: a socket's task waits for room in a channel only it drains, when
  a client sends pings or failing commands faster than it reads.
- `rollover_retry`: after an aborted "Compact & retry" the chat refuses ordinary
  turns and refuses the retry.

Three more contradict a line of the repository.  A module states each as a property
that no run checks; TLC finds it violated when it takes the place of the properties
of the configuration named.

- `Terminal!BoardChatsAreAskedFor` (`terminal.cfg`): a deleted board session is taken
  for an ordinary one while its run, only told to stop, still publishes; its events
  then go to every connection that named no chats
  (`iowb-core/src/core/sessions/management.rs:73-76`), though
  `iowb-protocol/src/protocol/websocket.rs:11-13` excludes them.
- `BoardCards!ReportedEffectsAreAsked` (`cards.cfg` with two requests): an edit of the
  scope clears what a card reported of effects outside the project
  (`ab/discussion/task_updates.rs:135`); deleting the card, or resolving its scope, then
  asks nothing, though `src/docs/design/kanban.md:876` says the user must be asked.
- `GitWorkspace!BoundaryKept` (`workspace.cfg`): a repository in a directory named
  `build`, `target`, `node_modules` and so on is unknown to the endpoints
  (`iowb-server/src/git/catalog.rs:161,486-494`): a discard of a path above it removes
  it, though `iowb-server/src/git/repository.rs:500-502` says a parent never treats such
  files as its own.

Also met while modelling; no line of the repository states the contrary of these:

- Boards: a start after the worker's last look at the file leaves the board running
  with nobody to run it; a pause between the worker's last check and its save
  settles at once and the provider is called on a paused board; after a restart a
  card in progress is never picked again; a retry or promotion of an aborted board,
  or a recovery, resumes it without a new revision, so that stale copies of workers
  fight over it; two workers can put a done card back.
- Cards: two parents whose children depend on each other's wait for ever; a refused
  merge or edit is saved half applied when it ends in a planning error; ids made of
  the number of cards may collide; resolving a scope leaves children with a missing
  parent; a worker's stale save drops generated cards and revives an old prompt;
  the fix a retry waited for may be resolved away while the card runs (what marks
  missing dependencies looks at dependencies only); a merge of a card above another
  into it deletes it with the effects it reported.
- Attempts: after a failed branch creation and a retry the ledger's oldest entry is
  found and the group is never committed; the evidence gate asks nothing of checks
  and of flat boards; a pause counts as a provider failure and switches the
  provider; the base of a group is whatever is checked out; a group begun on
  another's branch is merged there and never reaches the base; a commit made by
  the agent itself completes a group without merge and push; a user who switches
  branches between switch and merge has the wrong branch merged and pushed.
- Chats and sessions: `replace_session_messages` overwrites what was appended since
  the idle check; the upserts of a late run bring a deleted session back;
  `context_recovery` is empty when the latest rollover is manual; the recovery of a
  row can leave its rollover "starting"; the footer of a turn writes back the row it
  read, over what a new turn stored meanwhile, and brings a deleted session back; a
  rename during the activation of a clean thread takes the thread back; the thread
  of a fork that lost may stay and be listed as an external conversation.
- Terminal: a client that types more than a program reads has its whole socket wait,
  so it hears of no other process, and of no exit, until that program reads.
- Replies: a read of an agent's output, or a gateway's chunk, that ends inside a
  character damages the text; a late
  answer of a superseded turn lands behind the new prompt; an error event after
  text is stored as a completed answer; a request of the app-server with the id of
  the awaited answer is taken for the answer; `turn/completed` before the answer of
  `turn/start` is waited for for ever.
- Database: a job whose server dies stays "running"; concurrent edits of a row lose
  one; `SET search_path` stays on a pooled connection; pages come without ORDER BY,
  so an export can miss a row and repeat another; times shift by the zone of the
  server when they are copied; an INSERT whose reply is lost is counted as failed.
- Git: a line that ends with CR or is no UTF-8 is staged damaged, or its hunk is
  refused; `stash@{n}` may be another stash by then; a push pushes the local branch
  named like the upstream; a nested repository made between discovery and `add` is
  entered; a failed restore is ignored; a revert resets whatever commit is latest.
- Settings and file watching (not modelled): a migration of the gateway key may
  overwrite a newer one; a watched directory that was deleted and made again is not
  watched.

## 9. Plan

Done: every module of section 2 with its run; the proofs of section 5.  Next, in
order:

1. The rest of `WorkInProgressIsSound`: the dependencies, with an invariant on
   levels and done cards of the worker's copy and the stored board.
2. The parts of section 7 that keep state of their own: settings and credentials,
   file watching.

## 10. Files

`*.cfg` is named after its run; modules `MC...` give the constants their values.
`...Proofs` extend the modules they are about.  Operators whose comment calls them a
faulty variant are bugs put in on purpose, one per property, to show that the
property notices; no specification uses them.
