---------------------------- MODULE ChatRunsLedger ----------------------------
(***************************************************************************)
(* ChatRuns implements TurnLedger: the phase of a turn is read off the     *)
(* status of its durable row, the rest of the ledger is in the rows and    *)
(* the transcript already.                                                 *)
(***************************************************************************)
EXTENDS ChatRuns

phaseOf == [r \in Runs |-> IF status[r] = "none" THEN "absent"
                           ELSE IF status[r] \in Active THEN "open"
                           ELSE "closed"]

Ledger == INSTANCE TurnLedger WITH Turns <- Runs, Retries <- MaxAttempts,
              phase <- phaseOf, retries <- attempts,
              invoked <- invoked, answers <- answers

\* Whatever the interleaving of starts, aborts, crashes and recoveries, the
\* durable rows behave like a ledger of turns.
ImplementsLedger == Ledger!Spec

-----------------------------------------------------------------------------
(* What makes the invariants inductive: where each task stands tells what  *)
(* it has already spent and saved.                                         *)

\* A task that has not spawned its provider yet still has an unspent attempt.
BeforeSpawn == {"claimed", "persisted", "registered"}
\* A task that has not saved its answer yet runs a row without one.
BeforeAnswer == {"persisted", "registered", "live", "stopping", "message"}

\* A run that has a row or a task has a session.
BoundToSession ==
    \A r \in Runs : status[r] # "none" \/ pc[r] # "idle" => sess[r] \in Sessions

\* A row that is not written yet has no history, and its task is a request
\* that has not reached the insert, or that failed in it.
FreshIsBlank ==
    \A r \in Runs :
        /\ status[r] = "none" =>
              /\ attempts[r] = 0 /\ invoked[r] = 0 /\ answers[r] = 0
              /\ pc[r] \in {"idle", "begun", "listed", "settle"}
        /\ pc[r] \in {"begun", "listed"} => status[r] = "none"

\* Requests are served only when startup is over, and no task of the previous
\* process is left when the rows to recover are listed.
BootIsAlone ==
    /\ server \in {"down", "synthesizing"} => \A r \in Runs : pc[r] = "idle"
    /\ server # "up" => /\ aborting = {}
                       /\ \A r \in Runs : pc[r] \notin {"begun", "listed"}
    /\ server # "recovering" => todo = {}

AttemptIsUnspent ==
    \A r \in Runs :
        /\ attempts[r] <= MaxAttempts
        /\ invoked[r] <= 1 + attempts[r]
        /\ pc[r] \in BeforeSpawn => invoked[r] <= attempts[r]

AnswerIsUnsaved ==
    \A r \in Runs :
        /\ answers[r] <= 1
        /\ pc[r] \in BeforeAnswer => answers[r] = 0

\* Rows listed to be interrupted, aborted or recovered do exist.
ListedRowsExist ==
    /\ \A r \in Runs : \A q \in stale[r] : status[q] # "none"
    /\ \A s \in Sessions : \A q \in abortTodo[s] : status[q] # "none"
    /\ \A q \in todo : status[q] \in Active /\ pc[q] = "idle"

\* Open rows are driven by a task or still on the list of startup recovery.
OpenRowIsHeld ==
    \A r \in Runs : status[r] \in Active =>
        \/ pc[r] \in Driving
        \/ server \in {"down", "synthesizing"}
        \/ server = "recovering" /\ r \in todo

\* A row belongs to a prompt of its own session: its own, or the one a restart
\* found unanswered.
PromptOfSession ==
    /\ \A r \in Runs :
          /\ status[r] = "none" <=> origin[r] = NoRun
          /\ origin[r] # NoRun => /\ sess[origin[r]] = sess[r]
                                  /\ status[origin[r]] # "none"
    /\ \A s \in Sessions : lastUser[s] # NoRun =>
          sess[lastUser[s]] = s /\ status[lastUser[s]] # "none"

Alive(r) == status[r] \in Active \/ pc[r] # "idle"

\* Of the rows of a prompt at most one is open or has a task, and while it is
\* the others have no answer; the prompt a session ends with has none at all.
PromptHasOneRun ==
    /\ \A p, q \in Runs :
          p # q /\ origin[p] = origin[q] /\ origin[p] # NoRun /\ Alive(p)
              => ~Alive(q) /\ answers[q] = 0
    /\ \A s \in Sessions, q \in Runs :
          origin[q] # NoRun /\ origin[q] = lastUser[s] => answers[q] = 0

Lone(r) == sess[r] # NoSession /\ \A q \in Runs \ {r} : sess[q] # sess[r]
Shown(s) == cached[s] \/ stored[s]
Cleared == {"terminal", "snapshot", "upsert", "release"}

\* A snapshot lives from the read to the write of finish, and claims, like the
\* list of recovered sessions, only while startup recovery lasts.
ShortLived ==
    /\ \A r \in Runs : snap[r] => pc[r] = "upsert"
    /\ server # "recovering" =>
          recovered = {} /\ \A r \in Runs : pc[r] # "claimed"

\* The flag of a session with a single turn is up only until the task of the
\* turn, or the end of startup recovery, has taken it down.
FlagOf(r) ==
    /\ server # "down" => cached[sess[r]] = stored[sess[r]]
    /\ pc[r] \in Cleared => ~Shown(sess[r]) /\ ~snap[r]
    /\ server = "up" /\ pc[r] = "idle" => ~Shown(sess[r])
    /\ (/\ server = "recovering" /\ sess[r] \in recovered
        /\ pc[r] = "idle") => ~Shown(sess[r])

FlagFollowsTask == \A r \in Runs : Lone(r) => FlagOf(r)

IInv == /\ TypeOK
        /\ BoundToSession
        /\ FreshIsBlank
        /\ BootIsAlone
        /\ AttemptIsUnspent
        /\ AnswerIsUnsaved
        /\ ListedRowsExist
        /\ OpenRowIsHeld
        /\ PromptOfSession
        /\ PromptHasOneRun
        /\ ShortLived
        /\ FlagFollowsTask
=============================================================================
