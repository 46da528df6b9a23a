---------------------------- MODULE SessionRegistry ----------------------------
(***************************************************************************)
(* The sessions of the workbench: rows in the sessions table, a bounded    *)
(* cache of them that its write lock protects, and the set of board        *)
(* session ids that the event filter asks.  Runs, users and fork handlers  *)
(* write them; a deletion and a fork touch table and cache in two steps,   *)
(* and the footer of a turn and the activation of a clean thread read and  *)
(* write the table behind the back of the cache.                           *)
(*                                                                         *)
(* A row is its active flag, its board flag and its native thread; a clean *)
(* thread counts as the session's own, the threads it replaces are hidden  *)
(* by their rollovers (ContextRollover).                                   *)
(* A fork ("edit from here") clones a session up to a prompt, for Codex    *)
(* into a forked native thread, and may hide its source.  Native threads   *)
(* that no session maps are listed as external conversations.              *)
(***************************************************************************)
EXTENDS Naturals, FiniteSets, Sequences, SequencesExt

CONSTANTS Sessions,     \* ordinary session ids
          Forks,        \* handlers of fork requests (a bound)
          ForkOf,       \* [Forks -> [source, request, replace]]
          MaxCached,    \* IO_WORKBENCH_MAX_SESSIONS
          MaxRestarts   \* bound on server deaths

ASSUME SessionRegistryAssumption ==
    /\ MaxCached \in Nat \ {0} /\ MaxRestarts \in Nat
    /\ \A h \in Forks : ForkOf[h].source \in Sessions

VARIABLES
    stored,   \* the sessions table
    cache,    \* SessionManager.sessions
    boardIds, \* SessionManager.board_session_ids
    recent,   \* ids by last_activity, the latest last
    drives,   \* sessions a run works for: "no", "run", or where it is in the
              \* activation of a clean thread, with the row it has read
    usage,    \* the row a request for the token usage has read, or Absent
    footer,   \* the footer of a turn that is over: "no", "due", "read", and
              \* the row it was read from
    deletion, \* [ids -> "no", "found", "gone"] the handler that deletes it
    forks,    \* handlers whose row is in session_forks
    fork,     \* where each fork handler stands, and the row it has made
    thread,   \* forked native threads: "none", "there", "deleted", "leaked"
    tombs,    \* deleted_sessions
    torn,     \* history: written by others during a deletion or an unfinished
              \* fork, overwritten by a footer, or replaced by a fork
    restarts

registryVars == <<stored, cache, boardIds, recent, drives, usage, footer, deletion,
                  forks, fork, thread, tombs, torn, restarts>>

Ids == Sessions \cup Forks      \* a fork's destination has the handler's name
Unmapped == "none"
SessionRow == [active : BOOLEAN, board : BOOLEAN, native : Ids \cup {Unmapped}]
Absent == [active |-> FALSE, board |-> FALSE, native |-> "no row"]

\* Ids are fresh UUIDs.
ASSUME NamesAreApart ==
    /\ Sessions \cap Forks = {}
    /\ Unmapped \notin Ids /\ Absent.native \notin Ids

DriveStates == {"no", "run", "activating", "activated", "reread"}
NoFooter == [at |-> "no", row |-> Absent]

RegistryTypeOK ==
    /\ stored \in [Ids -> SessionRow \cup {Absent}]
    /\ cache \in [Ids -> SessionRow \cup {Absent}]
    /\ boardIds \subseteq Ids
    /\ IsInjective(recent) /\ ToSet(recent) \subseteq Ids
    /\ drives \in [Ids -> [at : DriveStates, read : SessionRow \cup {Absent}]]
    /\ usage \in [Ids -> SessionRow \cup {Absent}]
    /\ footer \in [Ids -> [at : {"no", "due", "read"}, row : SessionRow \cup {Absent}]]
    /\ deletion \in [Ids -> {"no", "found", "gone"}]
    /\ forks \subseteq Forks
    /\ fork \in [Forks -> [at : {"none", "checked", "forked", "stored", "undo",
                                "over", "lost"}, row : SessionRow \cup {Absent}]]
    /\ thread \in [Forks -> {"none", "there", "deleted", "leaked"}]
    /\ {tombs, torn} \subseteq SUBSET Ids
    /\ restarts \in 0..MaxRestarts

RegistryInit ==
    /\ stored = [s \in Ids |-> Absent] /\ cache = [s \in Ids |-> Absent]
    /\ boardIds = {} /\ recent = <<>>
    /\ drives = [s \in Ids |-> [at |-> "no", read |-> Absent]]
    /\ usage = [s \in Ids |-> Absent] /\ footer = [s \in Ids |-> NoFooter]
    /\ deletion = [s \in Ids |-> "no"]
    /\ forks = {} /\ fork = [h \in Forks |-> [at |-> "none", row |-> Absent]]
    /\ thread = [h \in Forks |-> "none"]
    /\ tombs = {} /\ torn = {} /\ restarts = 0

-----------------------------------------------------------------------------
(* Helpers.  Every writer holds the write lock of the cache, so it is one   *)
(* step; it works on the cached row, or else on the stored one.             *)

Seeded(s) == IF cache[s] # Absent THEN cache[s] ELSE stored[s]

\* Faulty variant.
TouchedTwice(s) == Append(recent, s)
Touched(s) == Append(SelectSeq(recent, LAMBDA x : x # s), s)

\* evict_if_needed: the sessions with the oldest last_activity leave.
Evicted(c, order) ==
    LET present == SelectSeq(order, LAMBDA x : c[x] # Absent)
        kept == IF Len(present) <= MaxCached THEN present
                ELSE SubSeq(present, Len(present) - MaxCached + 1, Len(present))
    IN [s \in Ids |-> IF s \in ToSet(kept) THEN c[s] ELSE Absent]

\* A write while a deletion has removed the row, but not yet the cached one,
\* or to a fork that is not remembered yet.
TornBy(s) == IF deletion[s] = "gone" \/ (s \in Forks /\ fork[s].at = "stored")
             THEN torn \cup {s} ELSE torn

\* Upsert entry as session s, and touch it.
Put(s, entry) ==
    /\ stored' = [stored EXCEPT ![s] = entry]
    /\ cache' = [cache EXCEPT ![s] = entry]
    /\ recent' = Touched(s)
    /\ torn' = TornBy(s)
PutEvicting(s, entry) ==
    /\ stored' = [stored EXCEPT ![s] = entry]
    /\ recent' = Touched(s)
    /\ cache' = Evicted([cache EXCEPT ![s] = entry], recent')
    /\ torn' = TornBy(s)

-----------------------------------------------------------------------------
(* Runs.                                                                    *)

\* create_or_update, and append_user_message_with_durable_run: a turn begins
\* on a new or an existing session, in the scope of a board or not.
CreateOrUpdate(s, board) ==
    /\ drives[s].at = "no"
    /\ s \in Forks => stored[s] # Absent
    /\ LET old == IF Seeded(s) # Absent THEN Seeded(s)
                  ELSE [active |-> TRUE, board |-> FALSE, native |-> Unmapped]
       IN /\ PutEvicting(s, [old EXCEPT !.active = TRUE, !.board = @ \/ board])
          /\ boardIds' = IF old.board \/ board THEN boardIds \cup {s} ELSE boardIds
    /\ drives' = [drives EXCEPT ![s].at = "run"]
    /\ UNCHANGED <<usage, footer, deletion, forks, fork, thread, tombs, restarts>>

\* mark_board_session
MarkBoardSession(s) ==
    /\ Seeded(s) # Absent
    /\ ~Seeded(s).board
    /\ Put(s, [Seeded(s) EXCEPT !.board = TRUE])
    /\ boardIds' = boardIds \cup {s}
    /\ UNCHANGED <<drives, usage, footer, deletion, forks, fork, thread, tombs,
                   restarts>>

\* append_message_with_metadata: only a cached session can take a message.
AppendMessage(s) ==
    /\ drives[s].at = "run"
    /\ cache[s] # Absent
    /\ Put(s, cache[s])
    /\ UNCHANGED <<boardIds, drives, usage, footer, deletion, forks, fork, thread,
                   tombs, restarts>>

\* set_native_session_id: the thread of a run is known.
SetNativeSessionId(s) ==
    /\ drives[s].at = "run"
    /\ Seeded(s) # Absent
    /\ Seeded(s).native = Unmapped
    /\ Put(s, [Seeded(s) EXCEPT !.native = s])
    /\ UNCHANGED <<boardIds, drives, usage, footer, deletion, forks, fork, thread,
                   tombs, restarts>>

\* The run is over, or failed to start: set_active(false), if there is a row.
\* A run that is over still owes its footer; bound: one footer of a session is
\* followed at a time.
SetInactive(s) ==
    /\ drives[s].at = "run"
    /\ drives' = [drives EXCEPT ![s].at = "no"]
    /\ \/ UNCHANGED footer
       \/ footer[s].at = "no" /\ footer' = [footer EXCEPT ![s].at = "due"]
    /\ IF Seeded(s) = Absent
       THEN UNCHANGED <<stored, cache, recent, torn>>
       ELSE Put(s, [Seeded(s) EXCEPT !.active = FALSE])
    /\ UNCHANGED <<boardIds, usage, deletion, forks, fork, thread, tombs, restarts>>

\* The footer pass of finish reads the row, adds what the turn reported, which
\* is no part of a row here, and upserts it: without the lock of the cache, and
\* also if the row was deleted meanwhile.
ReadForFooter(s) ==
    /\ footer[s].at = "due"
    /\ footer' = [footer EXCEPT ![s] = IF stored[s] = Absent THEN NoFooter
                                       ELSE [at |-> "read", row |-> stored[s]]]
    /\ UNCHANGED <<stored, cache, boardIds, recent, drives, usage, deletion, forks,
                   fork, thread, tombs, torn, restarts>>

WriteFooter(s) ==
    /\ footer[s].at = "read"
    /\ stored' = [stored EXCEPT ![s] = footer[s].row]
    /\ torn' = IF stored[s] = footer[s].row THEN torn ELSE torn \cup {s}
    /\ footer' = [footer EXCEPT ![s] = NoFooter]
    /\ UNCHANGED <<cache, boardIds, recent, drives, usage, deletion, forks, fork,
                   thread, tombs, restarts>>

\* activate_completed_context_rollover, at the end of a run that compacted: the
\* row is read, written with the clean thread in one transaction with the
\* rollover, read again, and remembered.
Drive(s, at, row) == drives' = [drives EXCEPT ![s] = [at |-> at, read |-> row]]

ReadForActivation(s) ==
    /\ drives[s].at = "run"
    /\ stored[s] # Absent
    /\ Drive(s, "activating", stored[s])
    /\ UNCHANGED <<stored, cache, boardIds, recent, usage, footer, deletion, forks,
                   fork, thread, tombs, torn, restarts>>

\* complete_context_rollover: the rollover goes with the row of its session.
ActivateRollover(s) ==
    /\ drives[s].at = "activating"
    /\ IF stored[s] = Absent
       THEN Drive(s, "run", Absent) /\ UNCHANGED stored
       ELSE /\ stored' = [stored EXCEPT ![s] =
                              [drives[s].read EXCEPT !.active = FALSE, !.native = s]]
            /\ Drive(s, "activated", Absent)
    /\ UNCHANGED <<cache, boardIds, recent, usage, footer, deletion, forks, fork,
                   thread, tombs, torn, restarts>>

RereadActivated(s) ==
    /\ drives[s].at = "activated"
    /\ IF stored[s] = Absent THEN Drive(s, "run", Absent)
       ELSE Drive(s, "reread", stored[s])
    /\ UNCHANGED <<stored, cache, boardIds, recent, usage, footer, deletion, forks,
                   fork, thread, tombs, torn, restarts>>

\* remember_persisted_session, with the row that was read again.
RememberActivated(s) ==
    /\ drives[s].at = "reread"
    /\ LET row == drives[s].read IN
       /\ recent' = Touched(s)
       /\ cache' = Evicted([cache EXCEPT ![s] = row], recent')
       /\ boardIds' = IF row.board THEN boardIds \cup {s} ELSE boardIds
       /\ torn' = IF stored[s] = row THEN torn ELSE torn \cup {s}
    /\ Drive(s, "run", Absent)
    /\ UNCHANGED <<stored, usage, footer, deletion, forks, fork, thread, tombs,
                   restarts>>

-----------------------------------------------------------------------------
(* Users.                                                                   *)

\* rename and update_model
Rename(s) ==
    /\ Seeded(s) # Absent
    /\ PutEvicting(s, Seeded(s))
    /\ UNCHANGED <<boardIds, drives, usage, footer, deletion, forks, fork, thread,
                   tombs, restarts>>

\* A request for the token usage reads the session, counts, and then takes the
\* lock (set_token_usage); bound: one request of a session at a time.
ReadForUsage(s) ==
    /\ usage[s] = Absent
    /\ Seeded(s) # Absent
    /\ usage' = [usage EXCEPT ![s] = Seeded(s)]
    /\ UNCHANGED <<stored, cache, boardIds, recent, drives, footer, deletion, forks,
                   fork, thread, tombs, torn, restarts>>

SetTokenUsage(s) ==
    /\ usage[s] # Absent
    /\ LET entry == IF cache[s] # Absent THEN cache[s] ELSE usage[s] IN
       /\ stored' = [stored EXCEPT ![s] = entry]
       /\ cache' = [cache EXCEPT ![s] = entry]
       /\ torn' = IF entry = stored[s] THEN TornBy(s) ELSE torn \cup {s}
    /\ usage' = [usage EXCEPT ![s] = Absent]
    /\ UNCHANGED <<boardIds, recent, drives, footer, deletion, forks, fork, thread,
                   tombs, restarts>>

\* delete reads the session; a run that works for it was only told to stop.
DeleteBegins(s) ==
    /\ deletion[s] = "no"
    /\ Seeded(s) # Absent
    /\ deletion' = [deletion EXCEPT ![s] = "found"]
    /\ UNCHANGED <<stored, cache, boardIds, recent, drives, usage, footer, forks,
                   fork, thread, tombs, torn, restarts>>

\* The native thread of a fork's destination gets a tombstone; the row goes,
\* with the fork it was the destination of.
DeleteRow(s) ==
    /\ deletion[s] = "found"
    /\ tombs' = IF s \in forks /\ Seeded(s).native \in Ids
                THEN tombs \cup {Seeded(s).native} ELSE tombs
    /\ forks' = forks \ {s}
    /\ stored' = [stored EXCEPT ![s] = Absent]
    /\ deletion' = [deletion EXCEPT ![s] = IF stored[s] = Absent THEN "no" ELSE "gone"]
    /\ UNCHANGED <<cache, boardIds, recent, drives, usage, footer, fork, thread, torn,
                   restarts>>

DeleteForgets(s) ==
    /\ deletion[s] = "gone"
    /\ cache' = [cache EXCEPT ![s] = Absent]
    /\ boardIds' = boardIds \ {s}
    /\ deletion' = [deletion EXCEPT ![s] = "no"]
    /\ UNCHANGED <<stored, recent, drives, usage, footer, forks, fork, thread, tombs,
                   torn, restarts>>

-----------------------------------------------------------------------------
(* Forks: fork_session_before_message.                                      *)

Same(h, g) == ForkOf[h].request = ForkOf[g].request
                  /\ ForkOf[h].source = ForkOf[g].source
Source(h) == ForkOf[h].source

\* A known request is answered from its row; the source has to be idle.
ForkBegins(h) ==
    /\ fork[h].at = "none"
    /\ IF \E g \in forks : Same(h, g)
       THEN fork' = [fork EXCEPT ![h].at = "over"]
       ELSE /\ Seeded(Source(h)) # Absent
            /\ ~Seeded(Source(h)).active
            /\ fork' = [fork EXCEPT ![h] = [at |-> "checked",
                           row |-> [Seeded(Source(h)) EXCEPT !.active = FALSE]]]
    /\ UNCHANGED <<stored, cache, boardIds, recent, drives, usage, footer, deletion,
                   forks, thread, tombs, torn, restarts>>

ForkedRow(h, native) ==
    [at |-> "forked", row |-> [fork[h].row EXCEPT !.native = native]]
\* The prompt has turns before it: the thread of the source is forked, or
\* that fails.  Otherwise the fork needs no thread.
ForkThread(h) ==
    /\ fork[h].at = "checked"
    /\ \/ /\ fork[h].row.native # Unmapped
          /\ thread' = [thread EXCEPT ![h] = "there"]
          /\ fork' = [fork EXCEPT ![h] = ForkedRow(h, h)]
       \/ /\ fork' = [fork EXCEPT ![h] = ForkedRow(h, Unmapped)]
          /\ UNCHANGED thread
       \/ /\ fork' = [fork EXCEPT ![h].at = "over"]
          /\ UNCHANGED thread
    /\ UNCHANGED <<stored, cache, boardIds, recent, drives, usage, footer, deletion,
                   forks, tombs, torn, restarts>>

\* Faulty variant: an earlier fork of the request is not looked for.
CreateSessionForkAgain(h) ==
    /\ fork[h].at = "forked"
    /\ stored' = [stored EXCEPT ![h] = fork[h].row]
    /\ recent' = Touched(h)
    /\ forks' = forks \cup {h}
    /\ fork' = [fork EXCEPT ![h].at = "stored"]
    /\ UNCHANGED <<cache, boardIds, drives, usage, footer, deletion, thread, tombs,
                   torn, restarts>>
\* create_session_fork: one transaction.
CreateSessionFork(h) ==
    /\ fork[h].at = "forked"
    /\ IF (\E g \in forks : Same(h, g)) \/ stored[Source(h)].active
       THEN /\ fork' = [fork EXCEPT ![h].at = "undo"]
            /\ UNCHANGED <<stored, recent, forks>>
       ELSE /\ stored' = [stored EXCEPT ![h] = fork[h].row]
            /\ recent' = Touched(h)
            /\ forks' = forks \cup {h}
            /\ fork' = [fork EXCEPT ![h].at = "stored"]
    /\ UNCHANGED <<cache, boardIds, drives, usage, footer, deletion, thread, tombs,
                   torn, restarts>>

\* remember_persisted_session, with the row the handler made.
Remember(h) ==
    /\ fork[h].at = "stored"
    /\ cache' = Evicted([cache EXCEPT ![h] = fork[h].row], recent)
    /\ boardIds' = IF fork[h].row.board THEN boardIds \cup {h} ELSE boardIds
    /\ torn' = IF stored[h] = fork[h].row THEN torn ELSE torn \cup {h}
    /\ fork' = [fork EXCEPT ![h].at = "over"]
    /\ UNCHANGED <<stored, recent, drives, usage, footer, deletion, forks, thread,
                   tombs, restarts>>

\* delete_compensating_codex_fork: a delete_thread that fails is only logged,
\* and nothing hides the thread that leaks.
CompensateFork(h) ==
    /\ fork[h].at = "undo"
    /\ \E left \in {"deleted", "leaked"} :
          thread' = [thread EXCEPT ![h] = IF @ = "there" THEN left ELSE @]
    /\ fork' = [fork EXCEPT ![h].at = "over"]
    /\ UNCHANGED <<stored, cache, boardIds, recent, drives, usage, footer, deletion,
                   forks, tombs, torn, restarts>>

-----------------------------------------------------------------------------
(* Startup.                                                                 *)

Replaced == {Source(h) : h \in {g \in forks : ForkOf[g].replace}}
\* list_sessions_including_board leaves replaced sources out.
Known == {s \in Ids : stored[s] # Absent}
Loadable == Known \ Replaced
LoadedCache == Evicted([s \in Ids |-> IF s \in Loadable THEN stored[s] ELSE Absent],
                       recent)

LoadedBoardIds == {s \in Loadable : stored[s].board}

\* The server dies and starts again: load, the runs that are resumed, the
\* sessions whose manual compaction is stale (made inactive in the table, then
\* by set_active, which caches them past the limit), and
\* mark_unrecovered_active_sessions_interrupted, before any request is served.
RestartServer(resumed, stale) ==
    /\ restarts < MaxRestarts
    /\ restarts' = restarts + 1
    /\ resumed \subseteq {s \in Known : stored[s].active}
    /\ stale \subseteq Known \ resumed
    /\ LET idle(s) == s \in stale \/ (LoadedCache[s] # Absent /\ s \notin resumed)
           kept(s) == IF idle(s) THEN [stored[s] EXCEPT !.active = FALSE]
                      ELSE LoadedCache[s]
       IN /\ cache' = [s \in Ids |-> kept(s)]
          /\ stored' = [s \in Ids |-> IF idle(s) THEN kept(s) ELSE stored[s]]
    /\ recent' = SelectSeq(recent, LAMBDA x : x \notin stale) \o SetToSeq(stale)
    /\ boardIds' = LoadedBoardIds
    /\ drives' = [s \in Ids |-> [at |-> IF s \in resumed THEN "run" ELSE "no",
                                 read |-> Absent]]
    /\ usage' = [s \in Ids |-> Absent] /\ footer' = [s \in Ids |-> NoFooter]
    /\ deletion' = [s \in Ids |-> "no"]
    /\ fork' = [h \in Forks |-> IF fork[h].at \in {"none", "over"} THEN fork[h]
                                ELSE [fork[h] EXCEPT !.at = "lost"]]
    /\ torn' = Replaced
    /\ UNCHANGED <<forks, thread, tombs>>

-----------------------------------------------------------------------------
RegistryNext ==
    \/ \E s \in Ids :
          \/ \E board \in BOOLEAN : CreateOrUpdate(s, board)
          \/ MarkBoardSession(s) \/ AppendMessage(s) \/ SetNativeSessionId(s)
          \/ SetInactive(s) \/ ReadForFooter(s) \/ WriteFooter(s)
          \/ ReadForActivation(s) \/ ActivateRollover(s) \/ RereadActivated(s)
          \/ RememberActivated(s)
          \/ Rename(s) \/ ReadForUsage(s) \/ SetTokenUsage(s)
          \/ DeleteBegins(s) \/ DeleteRow(s) \/ DeleteForgets(s)
    \/ \E h \in Forks :
          \/ ForkBegins(h) \/ ForkThread(h) \/ CreateSessionFork(h) \/ Remember(h)
          \/ CompensateFork(h)
    \/ \E resumed, stale \in SUBSET Known : RestartServer(resumed, stale)

RegistrySpec == RegistryInit /\ [][RegistryNext]_registryVars

-----------------------------------------------------------------------------
(* Properties.                                                              *)

\* What the cache answers is what the table holds, and the event filter knows
\* every board session a run works for, cached or not; but for the windows of a
\* deletion and of the activation of a clean thread, for a fork that was used
\* before it was remembered, and for a footer that overwrote another write.
Activated(s) == drives[s].at \in {"activated", "reread"}
CacheIsCurrent ==
    \A s \in Ids : s \notin torn =>
        /\ cache[s] \in {Absent, stored[s]} \/ deletion[s] = "gone" \/ Activated(s)
        /\ drives[s].at # "no" /\ Seeded(s).board => s \in boardIds

\* Repeated and concurrent requests to fork a session make one destination,
\* and the deletion of the native thread of a request that lost was asked for.
ForkOnce ==
    /\ \A g, h \in forks : Same(g, h) => g = h
    /\ \A h \in Forks : fork[h].at = "over" /\ fork[h].row.native = h
                          /\ h \notin forks /\ stored[h] = Absent
                          => thread[h] \in {"deleted", "leaked"} \/ h \in tombs

\* A session is hidden by a fork only as long as the fork's destination exists.
HiddenSourceHasHeir ==
    \A s \in Replaced : \E h \in forks : Source(h) = s /\ stored[h] # Absent

\* The thread of a fork is never listed as an external conversation once its
\* handler has answered: a session maps it or a tombstone hides it, also after
\* the destination is deleted.  The one exception is the thread of a request
\* that lost, which the provider failed to delete.
ForkStaysHidden ==
    \A h \in Forks : thread[h] = "there" /\ fork[h].at = "over" =>
        h \in tombs \/ \E s \in Ids : h \in {stored[s].native, cache[s].native}

\* What a fork promises: one destination for a request however often it is
\* repeated, and a source and a thread that are hidden only on its behalf.
ForksAreWhole == ForkOnce /\ HiddenSourceHasHeir /\ ForkStaysHidden

\* The registry answers with what is stored, for sessions and for forks.
RegistryServed == CacheIsCurrent /\ ForksAreWhole
=============================================================================
