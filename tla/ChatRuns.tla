------------------------------- MODULE ChatRuns -------------------------------
(***************************************************************************)
(* Chat turns of the workbench server: the durable row of a turn, the      *)
(* visible "active" flag of its session, the in-memory abort handle of its *)
(* provider process, and what a restart of the server does with the rows   *)
(* the previous process left open.                                         *)
(*                                                                         *)
(* A run is one row of durable_chat_runs.  pc[r] is where the task that    *)
(* drives r stands: the request that starts it, the select loop that       *)
(* watches the provider, the steps of `finish', or startup recovery.       *)
(* Every step is one storage call, one lock section or one process event,  *)
(* so tasks interleave, and the server can die, between any two of them.   *)
(***************************************************************************)
EXTENDS Naturals, FiniteSets

CONSTANTS Sessions,     \* chat sessions (of one provider)
          Runs,         \* ids available for durable rows (a bound)
          NoRun,        \* no run
          NoSession,    \* no session
          MaxAttempts,  \* DURABLE_CHAT_RUN_MAX_RECOVERY_ATTEMPTS
          MaxRecords,   \* AgentRuntimeManager.max_runs
          MaxCrashes,   \* bound on server deaths
          Abortable     \* sessions whose user aborts (a bound)

ASSUME ChatRunsAssumption ==
    /\ NoRun \notin Runs
    /\ NoSession \notin Sessions
    /\ MaxAttempts \in Nat
    /\ MaxRecords \in Nat \ {0}
    /\ MaxCrashes \in Nat
    /\ Abortable \subseteq Sessions

VARIABLES
    \* storage: survives the server
    sess,       \* session of each run
    origin,     \* run whose prompt this run executes
    status,     \* durable_chat_runs.status
    attempts,   \* durable_chat_runs.resume_attempts
    stamp,      \* durable_chat_runs.created_at
    clock,      \* next value of stamp
    lastUser,   \* last conversation message: the user prompt, or NoRun
    answers,    \* assistant messages persisted for each run
    stored,     \* sessions.active in storage
    \* memory of the server process
    server,     \* "down", "synthesizing", "recovering" or "up"
    cached,     \* SessionSummary.active in the session cache
    records,    \* sessions with an AgentRuntimeRecord
    handle,     \* run whose abort_tx the record of a session holds
    pc,         \* control state of the task that drives each run
    outcome,    \* runtime status handed to finish
    snap,       \* active flag in the summary finish read back
    stale,      \* rows a starting turn still has to interrupt
    aborting,   \* sessions whose detached abort is in progress
    abortTodo,  \* rows that abort still has to mark
    todo,       \* rows startup recovery still has to handle
    recovered,  \* recovered_session_ids of startup recovery
    \* history
    invoked,    \* provider invocations of each run
    crashes

rowVars    == <<sess, origin, status, attempts, stamp, clock>>
chatVars   == <<lastUser, answers>>
flagVars   == <<cached, stored>>
recordVars == <<records, handle>>
finishVars == <<outcome, snap>>
abortVars  == <<aborting, abortTodo>>
bootVars   == <<server, todo, recovered, crashes>>
vars == <<rowVars, chatVars, flagVars, recordVars, finishVars, abortVars,
          bootVars, pc, stale, invoked>>

Active   == {"running", "recovering"}
Terminal == {"completed", "failed", "aborted", "interrupted"}
Outcomes == {"completed", "failed", "aborted"}

\* Control states in which a request or recovery is still launching the run.
Launching == {"claimed", "persisted", "registered", "settle"}
\* Control states of a task that will still settle the row of its run.
Driving == {"claimed", "persisted", "registered", "live", "stopping",
            "message", "inactive", "terminal"}
PCs == Driving \cup {"idle", "begun", "listed", "settle", "snapshot",
                     "upsert", "release"}

ActiveRunsOf(s) == {r \in Runs : sess[r] = s /\ status[r] \in Active}
\* Ids are random UUIDs: one that was used in a request is never used again.
FreshRuns == {r \in Runs : sess[r] = NoSession}

Goto(r, label) == pc' = [pc EXCEPT ![r] = label]
SetStatus(r, value) == status' = [status EXCEPT ![r] = value]
SetActive(s, flag) == /\ cached' = [cached EXCEPT ![s] = flag]
                      /\ stored' = [stored EXCEPT ![s] = flag]

-----------------------------------------------------------------------------
Init ==
    /\ sess = [r \in Runs |-> NoSession]
    /\ origin = [r \in Runs |-> NoRun]
    /\ status = [r \in Runs |-> "none"]
    /\ attempts = [r \in Runs |-> 0]
    /\ stamp = [r \in Runs |-> 0]
    /\ clock = 1
    /\ lastUser = [s \in Sessions |-> NoRun]
    /\ answers = [r \in Runs |-> 0]
    /\ stored = [s \in Sessions |-> FALSE]
    /\ server = "up"
    /\ cached = [s \in Sessions |-> FALSE]
    /\ records = {}
    /\ handle = [s \in Sessions |-> NoRun]
    /\ pc = [r \in Runs |-> "idle"]
    /\ outcome = [r \in Runs |-> "failed"]
    /\ snap = [r \in Runs |-> FALSE]
    /\ stale = [r \in Runs |-> {}]
    /\ aborting = {}
    /\ abortTodo = [s \in Sessions |-> {}]
    /\ todo = {}
    /\ recovered = {}
    /\ invoked = [r \in Runs |-> 0]
    /\ crashes = 0

-----------------------------------------------------------------------------
(* Faulty variants of actions below: each is a plausible bug that one of the *)
(* properties has to notice.  No specification uses them.                    *)

\* The listener opens before startup recovery is over.
BeginTurnEarly(r, s) ==
    /\ server \in {"recovering", "up"}
    /\ r \in FreshRuns
    /\ sess' = [sess EXCEPT ![r] = s]
    /\ SetActive(s, TRUE)
    /\ Goto(r, "begun")
    /\ UNCHANGED <<origin, status, attempts, stamp, clock, chatVars,
                   recordVars, finishVars, abortVars, bootVars, stale, invoked>>

\* A refused turn returns without clearing the flag.
RejectTurnUnsettled(r) ==
    /\ pc[r] = "persisted"
    /\ SetStatus(r, "failed")
    /\ Goto(r, "idle")
    /\ UNCHANGED <<sess, origin, attempts, stamp, clock, chatVars, flagVars,
                   recordVars, finishVars, abortVars, bootVars, stale, invoked>>

\* The row is marked running when its process starts.
SpawnProviderMarks(r) ==
    /\ pc[r] = "registered"
    /\ invoked' = [invoked EXCEPT ![r] = @ + 1]
    /\ SetStatus(r, "running")
    /\ Goto(r, "live")
    /\ UNCHANGED <<sess, origin, attempts, stamp, clock, chatVars, flagVars,
                   recordVars, finishVars, abortVars, bootVars, stale>>

\* Only a replaced sender is taken for an abort, not a used one.
StopProviderIfReplaced(r) ==
    /\ pc[r] = "live"
    /\ handle[sess[r]] \in Runs \ {r}
    /\ Goto(r, "stopping")
    /\ UNCHANGED <<rowVars, chatVars, flagVars, recordVars, finishVars,
                   abortVars, bootVars, stale, invoked>>

\* The task of an aborted run ends without finish().
StopProviderDrops(r) ==
    /\ pc[r] = "live"
    /\ handle[sess[r]] # r
    /\ Goto(r, "idle")
    /\ UNCHANGED <<rowVars, chatVars, flagVars, recordVars, finishVars,
                   abortVars, bootVars, stale, invoked>>

\* Only the cache learns that the session is idle.
FinishInactiveCached(r) ==
    /\ pc[r] = "inactive"
    /\ cached' = [cached EXCEPT ![sess[r]] = FALSE]
    /\ Goto(r, "terminal")
    /\ UNCHANGED <<rowVars, chatVars, stored, recordVars, finishVars,
                   abortVars, bootVars, stale, invoked>>

\* finish() returns before it marks the row.
FinishInactiveReturns(r) ==
    /\ pc[r] = "inactive"
    /\ SetActive(sess[r], FALSE)
    /\ Goto(r, "snapshot")
    /\ UNCHANGED <<rowVars, chatVars, recordVars, finishVars, abortVars,
                   bootVars, stale, invoked>>

\* The abort writes a status no reader knows.
AbortMarkUnknown(s, r) ==
    /\ s \in aborting
    /\ r \in abortTodo[s]
    /\ SetStatus(r, "cancelled")
    /\ abortTodo' = [abortTodo EXCEPT ![s] = @ \ {r}]
    /\ UNCHANGED <<sess, origin, attempts, stamp, clock, chatVars, flagVars,
                   recordVars, finishVars, aborting, bootVars, pc, stale,
                   invoked>>

\* The row of the prompt is opened again instead of a new one.
SynthesizeReopens(s, r) ==
    /\ server = "synthesizing"
    /\ stored[s] /\ ActiveRunsOf(s) = {}
    /\ r = lastUser[s]
    /\ SetStatus(r, "running")
    /\ UNCHANGED <<sess, origin, stamp, clock, attempts, chatVars, flagVars,
                   recordVars, finishVars, abortVars, bootVars, pc, stale,
                   invoked>>

\* A row recovery gives up on is left open.
RecoverInterruptSkips(r) ==
    /\ server = "recovering"
    /\ r \in todo
    /\ \A q \in todo : stamp[r] <= stamp[q]
    /\ \A q \in Runs : pc[q] \notin Launching
    /\ \/ \E q \in todo : sess[q] = sess[r] /\ stamp[q] > stamp[r]
       \/ attempts[r] >= MaxAttempts
    /\ todo' = todo \ {r}
    /\ UNCHANGED <<rowVars, chatVars, flagVars, recordVars, finishVars,
                   abortVars, server, recovered, crashes, pc, stale, invoked>>

\* The claim does not count the attempt.
RecoverClaimUncounted(r) ==
    /\ server = "recovering"
    /\ r \in todo
    /\ \A q \in todo : stamp[r] <= stamp[q]
    /\ \A q \in Runs : pc[q] \notin Launching
    /\ \A q \in todo : sess[q] = sess[r] => stamp[q] <= stamp[r]
    /\ attempts[r] < MaxAttempts
    /\ SetStatus(r, "recovering")
    /\ todo' = todo \ {r}
    /\ Goto(r, "claimed")
    /\ UNCHANGED <<sess, origin, attempts, stamp, clock, chatVars, flagVars,
                   recordVars, finishVars, abortVars, server, recovered,
                   crashes, stale, invoked>>

\* The transcript is not consulted before the prompt is sent again.
RecoverResumeBlindly(r) ==
    /\ pc[r] = "claimed"
    /\ SetActive(sess[r], TRUE)
    /\ recovered' = recovered \cup {sess[r]}
    /\ Goto(r, "persisted")
    /\ UNCHANGED <<rowVars, chatVars, recordVars, finishVars, abortVars,
                   server, todo, crashes, stale, invoked>>

-----------------------------------------------------------------------------
(* Starting a turn.  Nothing here asks whether the session already runs.   *)

\* create_or_update marks the session active, in the cache and in storage.
BeginTurn(r, s) ==
    /\ server = "up"
    /\ r \in FreshRuns
    /\ sess' = [sess EXCEPT ![r] = s]
    /\ SetActive(s, TRUE)
    /\ Goto(r, "begun")
    /\ UNCHANGED <<origin, status, attempts, stamp, clock, chatVars, recordVars,
                   finishVars, abortVars, bootVars, stale, invoked>>

\* The rows to supersede are listed first ...
ListStale(r) ==
    /\ pc[r] = "begun"
    /\ stale' = [stale EXCEPT ![r] = ActiveRunsOf(sess[r])]
    /\ Goto(r, "listed")
    /\ UNCHANGED <<rowVars, chatVars, flagVars, recordVars, finishVars,
                   abortVars, bootVars, invoked>>

\* ... and marked one by one, whatever their status is by then.
InterruptStale(r, q) ==
    /\ pc[r] = "listed"
    /\ q \in stale[r]
    /\ SetStatus(q, "interrupted")
    /\ stale' = [stale EXCEPT ![r] = @ \ {q}]
    /\ UNCHANGED <<sess, origin, attempts, stamp, clock, chatVars, flagVars,
                   recordVars, finishVars, abortVars, bootVars, pc, invoked>>

\* One transaction writes the user message and the durable row.
PersistTurn(r) ==
    /\ pc[r] = "listed"
    /\ stale[r] = {}
    /\ SetStatus(r, "running")
    /\ origin' = [origin EXCEPT ![r] = r]
    /\ stamp' = [stamp EXCEPT ![r] = clock]
    /\ clock' = clock + 1
    /\ lastUser' = [lastUser EXCEPT ![sess[r]] = r]
    /\ Goto(r, "persisted")
    /\ UNCHANGED <<sess, attempts, answers, flagVars, recordVars, finishVars,
                   abortVars, bootVars, stale, invoked>>

\* The transaction fails: the request clears the flag and returns the error.
PersistFails(r) ==
    /\ pc[r] = "listed"
    /\ stale[r] = {}
    /\ Goto(r, "settle")
    /\ UNCHANGED <<rowVars, chatVars, flagVars, recordVars, finishVars,
                   abortVars, bootVars, stale, invoked>>

\* The context is over the rollover threshold, or start() is refused.
RejectTurn(r) ==
    /\ pc[r] = "persisted"
    /\ SetStatus(r, "failed")
    /\ Goto(r, "settle")
    /\ recovered' = recovered \ {sess[r]}
    /\ UNCHANGED <<sess, origin, attempts, stamp, clock, chatVars, flagVars,
                   recordVars, finishVars, abortVars, server, todo, crashes,
                   stale, invoked>>

\* The set_active(false) that ends every early exit of start and recovery.
Settle(r) ==
    /\ pc[r] = "settle"
    /\ SetActive(sess[r], FALSE)
    /\ Goto(r, "idle")
    /\ UNCHANGED <<rowVars, chatVars, recordVars, finishVars, abortVars,
                   bootVars, stale, invoked>>

\* The provider command cannot be prepared: finish(Failed), inside start().
\* (In recovery the loop waits for it; the model lets it go on meanwhile.)
PrepareFails(r) ==
    /\ pc[r] = "persisted"
    /\ outcome' = [outcome EXCEPT ![r] = "failed"]
    /\ Goto(r, "message")
    /\ UNCHANGED <<rowVars, chatVars, flagVars, recordVars, snap, abortVars,
                   bootVars, stale, invoked>>

\* register() replaces the record of the session: the sender it held is
\* dropped.  Above max_runs the least recently used record goes as well.
RegisterRun(r) ==
    /\ pc[r] = "persisted"
    /\ LET s     == sess[r]
           grown == records \cup {s}
       IN  \/ /\ Cardinality(grown) <= MaxRecords
              /\ records' = grown
              /\ handle' = [handle EXCEPT ![s] = r]
           \/ /\ Cardinality(grown) > MaxRecords
              /\ \E old \in grown \ {s} :
                    /\ records' = grown \ {old}
                    /\ handle' = [handle EXCEPT ![s] = r, ![old] = NoRun]
    /\ Goto(r, "registered")
    /\ UNCHANGED <<rowVars, chatVars, flagVars, finishVars, abortVars, bootVars,
                   stale, invoked>>

SpawnProvider(r) ==
    /\ pc[r] = "registered"
    /\ invoked' = [invoked EXCEPT ![r] = @ + 1]
    /\ Goto(r, "live")
    /\ UNCHANGED <<rowVars, chatVars, flagVars, recordVars, finishVars,
                   abortVars, bootVars, stale>>

SpawnFails(r) ==
    /\ pc[r] = "registered"
    /\ outcome' = [outcome EXCEPT ![r] = "failed"]
    /\ Goto(r, "message")
    /\ UNCHANGED <<rowVars, chatVars, flagVars, recordVars, snap, abortVars,
                   bootVars, stale, invoked>>

-----------------------------------------------------------------------------
(* The select loop of the run's task.                                      *)

ProviderExits(r) ==
    /\ pc[r] = "live"
    /\ \E o \in {"completed", "failed"} : outcome' = [outcome EXCEPT ![r] = o]
    /\ Goto(r, "message")
    /\ UNCHANGED <<rowVars, chatVars, flagVars, recordVars, snap, abortVars,
                   bootVars, stale, invoked>>

\* abort_rx resolves when the sender was used, and also when it was dropped:
\* the run stops as soon as its record no longer holds its handle.
StopProvider(r) ==
    /\ pc[r] = "live"
    /\ handle[sess[r]] # r
    /\ Goto(r, "stopping")
    /\ UNCHANGED <<rowVars, chatVars, flagVars, recordVars, finishVars,
                   abortVars, bootVars, stale, invoked>>

ProviderStopped(r) ==
    /\ pc[r] = "stopping"
    /\ outcome' = [outcome EXCEPT ![r] = "aborted"]
    /\ Goto(r, "message")
    /\ UNCHANGED <<rowVars, chatVars, flagVars, recordVars, snap, abortVars,
                   bootVars, stale, invoked>>

-----------------------------------------------------------------------------
(* finish(): one action per storage call or lock section, in its order.    *)

FinishMessage(r) ==
    /\ pc[r] = "message"
    /\ \/ /\ answers' = [answers EXCEPT ![r] = @ + 1]
          /\ lastUser' = [lastUser EXCEPT ![sess[r]] = NoRun]
       \/ \* no text to save, or the append failed and was only logged
          UNCHANGED <<answers, lastUser>>
    /\ Goto(r, "inactive")
    /\ UNCHANGED <<rowVars, flagVars, recordVars, finishVars, abortVars,
                   bootVars, stale, invoked>>

FinishInactive(r) ==
    /\ pc[r] = "inactive"
    /\ SetActive(sess[r], FALSE)
    /\ Goto(r, "terminal")
    /\ UNCHANGED <<rowVars, chatVars, recordVars, finishVars, abortVars,
                   bootVars, stale, invoked>>

\* mark_durable_chat_run_terminal does not look at the status it replaces.
FinishTerminal(r) ==
    /\ pc[r] = "terminal"
    /\ SetStatus(r, outcome[r])
    /\ outcome' = [outcome EXCEPT ![r] = "failed"]
    /\ Goto(r, "snapshot")
    /\ UNCHANGED <<sess, origin, attempts, stamp, clock, chatVars, flagVars,
                   recordVars, snap, abortVars, bootVars, stale, invoked>>

FinishReadSummary(r) ==
    /\ pc[r] = "snapshot"
    /\ snap' = [snap EXCEPT ![r] = stored[sess[r]]]
    /\ Goto(r, "upsert")
    /\ UNCHANGED <<rowVars, chatVars, flagVars, recordVars, outcome, abortVars,
                   bootVars, stale, invoked>>

FinishWriteSummary(r) ==
    /\ pc[r] = "upsert"
    /\ stored' = [stored EXCEPT ![sess[r]] = snap[r]]
    /\ snap' = [snap EXCEPT ![r] = FALSE]
    /\ Goto(r, "release")
    /\ UNCHANGED <<rowVars, chatVars, cached, recordVars, outcome, abortVars,
                   bootVars, stale, invoked>>

\* The record is found by its key: it may by now hold another run's handle.
FinishRelease(r) ==
    /\ pc[r] = "release"
    /\ handle' = [handle EXCEPT ![sess[r]] = NoRun]
    /\ Goto(r, "idle")
    /\ UNCHANGED <<rowVars, chatVars, flagVars, records, finishVars, abortVars,
                   bootVars, stale, invoked>>

Finish(r) == \/ FinishMessage(r)     \/ FinishInactive(r)
             \/ FinishTerminal(r)    \/ FinishReadSummary(r)
             \/ FinishWriteSummary(r) \/ FinishRelease(r)

-----------------------------------------------------------------------------
(* abort_agent_session.                                                    *)

AbortAttached(s) ==
    /\ server = "up"
    /\ s \in Abortable
    /\ handle[s] # NoRun
    /\ handle' = [handle EXCEPT ![s] = NoRun]
    /\ UNCHANGED <<rowVars, chatVars, flagVars, records, finishVars, abortVars,
                   bootVars, pc, stale, invoked>>

\* No handle to take: the abort settles the rows and the flag itself.
AbortDetached(s) ==
    /\ server = "up"
    /\ s \in Abortable
    /\ handle[s] = NoRun
    /\ s \notin aborting
    /\ \E r \in Runs : sess[r] = s
    /\ aborting' = aborting \cup {s}
    /\ abortTodo' = [abortTodo EXCEPT ![s] = ActiveRunsOf(s)]
    /\ UNCHANGED <<rowVars, chatVars, flagVars, recordVars, finishVars,
                   bootVars, pc, stale, invoked>>

AbortMark(s, r) ==
    /\ s \in aborting
    /\ r \in abortTodo[s]
    /\ SetStatus(r, "aborted")
    /\ abortTodo' = [abortTodo EXCEPT ![s] = @ \ {r}]
    /\ UNCHANGED <<sess, origin, attempts, stamp, clock, chatVars, flagVars,
                   recordVars, finishVars, aborting, bootVars, pc, stale,
                   invoked>>

AbortSettle(s) ==
    /\ s \in aborting
    /\ abortTodo[s] = {}
    /\ SetActive(s, FALSE)
    /\ aborting' = aborting \ {s}
    /\ UNCHANGED <<rowVars, chatVars, recordVars, finishVars, abortTodo,
                   bootVars, pc, stale, invoked>>

-----------------------------------------------------------------------------
(* Death and restart of the server.                                        *)

\* Sessions synthesize_legacy_durable_runs looks at.
Orphaned(s) == stored[s] /\ ActiveRunsOf(s) = {}

\* Providers die with the server that owns them (PR_SET_PDEATHSIG).  A crash
\* is only explored while enough ids are left for the rows a restart may add.
Crash ==
    /\ server # "down"
    /\ crashes < MaxCrashes
    /\ Cardinality(FreshRuns)
          >= Cardinality({s \in Sessions : Orphaned(s) /\ lastUser[s] # NoRun})
    /\ crashes' = crashes + 1
    /\ server' = "down"
    /\ cached' = [s \in Sessions |-> FALSE]
    /\ records' = {}
    /\ handle' = [s \in Sessions |-> NoRun]
    /\ pc' = [r \in Runs |-> "idle"]
    /\ outcome' = [r \in Runs |-> "failed"]
    /\ snap' = [r \in Runs |-> FALSE]
    /\ stale' = [r \in Runs |-> {}]
    /\ aborting' = {}
    /\ abortTodo' = [s \in Sessions |-> {}]
    /\ todo' = {}
    /\ recovered' = {}
    /\ UNCHANGED <<rowVars, chatVars, stored, invoked>>

\* SessionManager::load keeps the active flags it finds.
Restart ==
    /\ server = "down"
    /\ server' = "synthesizing"
    /\ cached' = stored
    /\ UNCHANGED <<rowVars, chatVars, stored, recordVars, finishVars, abortVars,
                   todo, recovered, crashes, pc, stale, invoked>>

\* The last conversation message is a prompt: a new row is made to run it.
SynthesizeRun(s, r) ==
    /\ server = "synthesizing"
    /\ Orphaned(s)
    /\ lastUser[s] # NoRun
    /\ r \in FreshRuns
    /\ SetStatus(r, "running")
    /\ sess' = [sess EXCEPT ![r] = s]
    /\ origin' = [origin EXCEPT ![r] = lastUser[s]]
    /\ stamp' = [stamp EXCEPT ![r] = clock]
    /\ clock' = clock + 1
    /\ UNCHANGED <<attempts, chatVars, flagVars, recordVars, finishVars,
                   abortVars, bootVars, pc, stale, invoked>>

\* The last conversation message is an answer: only the flag was left over.
\* (A session without any message keeps its flag until the end of recovery.)
ClearOrphan(s) ==
    /\ server = "synthesizing"
    /\ Orphaned(s)
    /\ lastUser[s] = NoRun
    /\ \E r \in Runs : sess[r] = s /\ answers[r] > 0
    /\ SetActive(s, FALSE)
    /\ UNCHANGED <<rowVars, chatVars, recordVars, finishVars, abortVars,
                   bootVars, pc, stale, invoked>>

\* recover_interrupted_chat_runs lists the open rows once.
BeginRecovery ==
    /\ server = "synthesizing"
    /\ \A s \in Sessions : Orphaned(s) =>
          /\ lastUser[s] = NoRun
          /\ \A r \in Runs : sess[r] = s => answers[r] = 0
    /\ server' = "recovering"
    /\ todo' = {r \in Runs : status[r] \in Active}
    /\ UNCHANGED <<rowVars, chatVars, flagVars, recordVars, finishVars,
                   abortVars, recovered, crashes, pc, stale, invoked>>

\* Rows are taken oldest first, one at a time.
NextRecovery(r) ==
    /\ server = "recovering"
    /\ r \in todo
    /\ \A q \in todo : stamp[r] <= stamp[q]
    /\ \A q \in Runs : pc[q] \notin Launching

Newest(r) == \A q \in todo : sess[q] = sess[r] => stamp[q] <= stamp[r]

\* An older row of the session, or no attempt left.
RecoverInterrupt(r) ==
    /\ NextRecovery(r)
    /\ ~Newest(r) \/ attempts[r] >= MaxAttempts
    /\ SetStatus(r, "interrupted")
    /\ todo' = todo \ {r}
    /\ UNCHANGED <<sess, origin, attempts, stamp, clock, chatVars, flagVars,
                   recordVars, finishVars, abortVars, server, recovered,
                   crashes, pc, stale, invoked>>

\* mark_durable_chat_run_recovering: claim the row and count the attempt.
RecoverClaim(r) ==
    /\ NextRecovery(r)
    /\ Newest(r)
    /\ status[r] \in Active
    /\ attempts[r] < MaxAttempts
    /\ SetStatus(r, "recovering")
    /\ attempts' = [attempts EXCEPT ![r] = @ + 1]
    /\ todo' = todo \ {r}
    /\ Goto(r, "claimed")
    /\ UNCHANGED <<sess, origin, stamp, clock, chatVars, flagVars, recordVars,
                   finishVars, abortVars, server, recovered, crashes, stale,
                   invoked>>

\* The answer was saved before the crash: do not ask the provider again.
RecoverAnswered(r) ==
    /\ pc[r] = "claimed"
    /\ answers[r] > 0
    /\ SetStatus(r, "completed")
    /\ Goto(r, "settle")
    /\ UNCHANGED <<sess, origin, attempts, stamp, clock, chatVars, flagVars,
                   recordVars, finishVars, abortVars, bootVars, stale, invoked>>

\* Project path or runtime configuration no longer valid.
RecoverFails(r) ==
    /\ pc[r] = "claimed"
    /\ answers[r] = 0
    /\ SetStatus(r, "failed")
    /\ Goto(r, "settle")
    /\ UNCHANGED <<sess, origin, attempts, stamp, clock, chatVars, flagVars,
                   recordVars, finishVars, abortVars, bootVars, stale, invoked>>

RecoverResume(r) ==
    /\ pc[r] = "claimed"
    /\ answers[r] = 0
    /\ SetActive(sess[r], TRUE)
    /\ recovered' = recovered \cup {sess[r]}
    /\ Goto(r, "persisted")
    /\ UNCHANGED <<rowVars, chatVars, recordVars, finishVars, abortVars, server,
                   todo, crashes, stale, invoked>>

\* mark_unrecovered_active_sessions_interrupted, then the listener opens.
EndRecovery ==
    /\ server = "recovering"
    /\ todo = {}
    /\ \A q \in Runs : pc[q] \notin Launching
    /\ LET lost == {s \in Sessions : cached[s] /\ s \notin recovered}
       IN  /\ cached' = [s \in Sessions |-> cached[s] /\ s \notin lost]
           /\ stored' = [s \in Sessions |-> stored[s] /\ s \notin lost]
    /\ server' = "up"
    /\ recovered' = {}
    /\ UNCHANGED <<rowVars, chatVars, recordVars, finishVars, abortVars, todo,
                   crashes, pc, stale, invoked>>

-----------------------------------------------------------------------------
Request(r) == \/ ListStale(r)
              \/ \E q \in Runs : InterruptStale(r, q)
              \/ PersistTurn(r) \/ PersistFails(r) \/ RejectTurn(r)
              \/ Settle(r) \/ PrepareFails(r) \/ RegisterRun(r)
              \/ SpawnProvider(r) \/ SpawnFails(r)

Stop(r) == StopProvider(r) \/ ProviderStopped(r)

Recover(r) == \/ RecoverInterrupt(r) \/ RecoverClaim(r) \/ RecoverAnswered(r)
              \/ RecoverFails(r) \/ RecoverResume(r)

Boot == \/ Restart
        \/ \E s \in Sessions, r \in Runs : SynthesizeRun(s, r)
        \/ \E s \in Sessions : ClearOrphan(s)
        \/ BeginRecovery
        \/ \E r \in Runs : Recover(r)
        \/ EndRecovery

AbortStep(s) == \/ AbortSettle(s)
                \/ \E r \in Runs : AbortMark(s, r)

Next == \/ \E r \in Runs, s \in Sessions : BeginTurn(r, s)
        \/ \E r \in Runs : \/ Request(r)
                           \/ ProviderExits(r)
                           \/ Stop(r)
                           \/ Finish(r)
        \/ \E s \in Sessions : \/ AbortAttached(s)
                               \/ AbortDetached(s)
                               \/ AbortStep(s)
        \/ Crash
        \/ Boot

Spec == Init /\ [][Next]_vars

\* The tokio scheduler runs every ready task, and the server is restarted.
\* Clients and crashes are free; a provider need not exit by itself.
TaskFairness == /\ \A r \in Runs : WF_vars(Request(r) \/ Stop(r) \/ Finish(r))
                /\ \A s \in Sessions : WF_vars(AbortStep(s))
                /\ WF_vars(Boot)

\* A provider that is left alone exits in the end; nothing is assumed of one
\* that was told to stop.
ExitFairness ==
    \A r \in Runs : WF_vars(ProviderExits(r) /\ handle[sess[r]] = r)

FairSpec == Spec /\ TaskFairness /\ ExitFairness

-----------------------------------------------------------------------------
(* Properties.                                                             *)

TypeOK ==
    /\ sess \in [Runs -> Sessions \cup {NoSession}]
    /\ origin \in [Runs -> Runs \cup {NoRun}]
    /\ status \in [Runs -> {"none"} \cup Active \cup Terminal]
    /\ attempts \in [Runs -> Nat]
    /\ stamp \in [Runs -> Nat]
    /\ clock \in Nat
    /\ lastUser \in [Sessions -> Runs \cup {NoRun}]
    /\ answers \in [Runs -> Nat]
    /\ stored \in [Sessions -> BOOLEAN]
    /\ server \in {"down", "synthesizing", "recovering", "up"}
    /\ cached \in [Sessions -> BOOLEAN]
    /\ records \subseteq Sessions
    /\ handle \in [Sessions -> Runs \cup {NoRun}]
    /\ pc \in [Runs -> PCs]
    /\ outcome \in [Runs -> Outcomes]
    /\ snap \in [Runs -> BOOLEAN]
    /\ stale \in [Runs -> SUBSET Runs]
    /\ aborting \subseteq Sessions
    /\ abortTodo \in [Sessions -> SUBSET Runs]
    /\ todo \subseteq Runs
    /\ recovered \subseteq Sessions
    /\ invoked \in [Runs -> Nat]
    /\ crashes \in Nat

\* The provider is invoked at most once per counted attempt of a row, and the
\* attempts stay within the limit, however often the server dies: the claim
\* of startup recovery counts the attempt before the process is spawned.
InvocationBudget ==
    \A r \in Runs : invoked[r] <= 1 + attempts[r] /\ attempts[r] <= MaxAttempts

\* While the server is up, every row that says "running" or "recovering" has a
\* task that will settle it: no start, abort, recovery or crash leaves a row
\* open with nobody attached to it.
OpenRowHasTask ==
    server = "up" => \A r \in Runs : status[r] \in Active => pc[r] \in Driving

\* Once the answer of a prompt is saved, no provider is started for it again,
\* in this process or after a restart.
NoInvocationAfterAnswer ==
    [][\A r \in Runs : invoked'[r] > invoked[r] =>
          \A q \in Runs : origin[q] = origin[r] => answers[q] = 0]_vars

\* A comment of recover_interrupted_chat_runs: "A session can only have one
\* provider invocation attached."  Starting a turn does not see to it.
SingleInvocation ==
    \A p, q \in Runs :
        (sess[p] = sess[q] /\ {pc[p], pc[q]} \subseteq {"live", "stopping"})
            => p = q

\* A settled row is never opened again: late marks replace one terminal status
\* by another, they do not bring a turn back to life.
TerminalIsFinal ==
    [][\A r \in Runs : status[r] \in Terminal => status'[r] \in Terminal]_vars

\* A session that has had a single turn shows as idle, in memory and in
\* storage, once that turn is over.
LoneSessionSettles ==
    \A r \in Runs :
        (/\ server = "up"
         /\ status[r] \in Terminal
         /\ pc[r] = "idle"
         /\ sess[r] \notin aborting
         /\ \A q \in Runs \ {r} : sess[q] # sess[r])
        => ~cached[sess[r]] /\ ~stored[sess[r]]

\* Every turn that was accepted is settled in the end.
TurnsSettle == \A r \in Runs : status[r] \in Active ~> status[r] \in Terminal

\* A run whose abort handle is gone stops, even if its provider never exits.
SignalledRunStops ==
    \A r \in Runs : (pc[r] = "live" /\ handle[sess[r]] # r) ~> pc[r] = "idle"
=============================================================================
