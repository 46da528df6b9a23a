------------------------------ MODULE CardAttempt ----------------------------
(***************************************************************************)
(* What the worker of a board does with one card after the other: the       *)
(* branch of the card's group, tests written before the work, the turns of  *)
(* the provider, what the work tree shows of them, validation, the judgment *)
(* and, when a group has no card left to do, its commit, merge and push.    *)
(* Others use the same repository meanwhile.                                *)
(* (src/crates/iowb-server/src/agentic_board/execution.rs and               *)
(* task_execution/; which card is next, and what follows a card, is in      *)
(* BoardCards; pausing and aborting are in BoardControl.)                   *)
(***************************************************************************)
EXTENDS Naturals, Sequences, FiniteSets

CONSTANTS Groups,  \* groups of cards
          Jobs     \* boards to start from

Making == {"implementation", "test_implementation"}
Checking == {"qa", "research"}

\* A board: how it works, and its cards in the order they are run.
JobType == [hier : BOOLEAN,      \* hierarchical orchestration
            managed : BOOLEAN,   \* git policy
            tdd : BOOLEAN,       \* tests come before the work,
            strict : BOOLEAN,    \* and must fail,
            lenient : BOOLEAN,   \* or may be missing
            scripts : BOOLEAN,   \* validation is configured
            repairs : Nat,       \* turns to repair a malformed tool call
            fallback : BOOLEAN,  \* another provider is configured
            tries : Nat,         \* attempts at a card
            fixes : Nat,         \* failed attempts at its tests
            cards : Seq([kind : Making \cup Checking, group : Groups,
                         root : BOOLEAN]),
            bounds : [edits : Nat,     \* what its provider may write,
                      others : Nat,    \* what others do to the repository,
                      again : Nat]]    \* and how often the user retries

ASSUME AttemptAssumption == Jobs \subseteq JobType

VARIABLES
    job,     \* the board
    state,   \* what is stored of each card
    ledger,  \* git_ledger: the entries of groups, in the order they were made
    hand,    \* the worker: its step, its card, and what it holds
    git,     \* the project's repository and its remote
    noise    \* edits, others' steps and retries so far

attemptVars == <<job, state, ledger, hand, git, noise>>

-----------------------------------------------------------------------------
(* The repository.  A tree holds one source file and one test; branch 0 is  *)
(* the one the project started on, branch c the one made for card c.        *)

Files == {"code", "test"}
Tree(code, test) == [f \in Files |-> IF f = "code" THEN code ELSE test]
Original == Tree("old", "none")
TipOf(b) == git.tips[b][Len(git.tips[b])]
IsBranch(b) == Len(git.tips[b]) > 0
WorkIsClean == git.work = TipOf(git.branch)
Untracked(f) == TipOf(git.branch)[f] = "none" /\ git.work[f] # "none"
Modified(f) == git.work[f] # TipOf(git.branch)[f] /\ ~Untracked(f)

\* Files that differ between the branches must be clean.
MaySwitch(b) ==
    /\ IsBranch(b)
    /\ \A f \in Files : TipOf(b)[f] # TipOf(git.branch)[f]
                            => git.work[f] = TipOf(git.branch)[f]
Switched(b) ==
    [git EXCEPT !.branch = b,
                !.work = [f \in Files |-> IF TipOf(b)[f] = TipOf(git.branch)[f]
                                          THEN git.work[f] ELSE TipOf(b)[f]]]
Committed == [git EXCEPT !.tips[git.branch] = Append(@, git.work)]
Extends(s, t) == Len(t) <= Len(s) /\ SubSeq(s, 1, Len(t)) = t

\* What a snapshot says of a file.  A modified file's line starts with a space,
\* which is trimmed before the line is cut: the snapshot then names a path that
\* is not there, and lists the file itself among the clean ones.
Snapshot == [f \in Files |-> [hash |-> git.work[f],
                              clean |-> ~Untracked(f),
                              stray |-> Modified(f)]]

\* Paths of a delta: a file, or the path that is not there.
Changed(a, b) == {f \in Files : <<a[f].hash, a[f].clean>> # <<b[f].hash, b[f].clean>>}
Strays(a, b) == {f \in Files : a[f].stray # b[f].stray}
\* changed_by_subtask: new, or clean before.
Attributable(a, b) == \/ \E f \in Changed(a, b) : a[f].clean
                      \/ \E f \in Strays(a, b) : b[f].stray
Touched(a, b) == Changed(a, b) # {} \/ Strays(a, b) # {}
\* Files that the kind of the card may not touch.
Violations(kind, a, b) ==
    CASE kind \in Checking -> Touched(a, b)
      [] kind = "test_implementation" ->
            "code" \in Changed(a, b) \/ Strays(a, b) # {}
      [] OTHER -> FALSE

\* Validation: the configured scripts, and the tests generated for a card.
ScriptsPass == git.work["code"] # "broken"
TestsPass == git.work["code"] = "new" /\ git.work["test"] # "none"

-----------------------------------------------------------------------------
(* The ledger of managed groups.                                            *)

KindOf(c) == job.cards[c].kind
GroupOf(c) == job.cards[c].group
EntriesOf(g) == {i \in DOMAIN ledger : ledger[i].group = g}
\* managed_git_entry finds the oldest entry of the group.
OldestIn(l, g) == CHOOSE i \in DOMAIN l :
                     l[i].group = g /\ \A j \in DOMAIN l : l[j].group = g => i <= j
EntryOf(g) == OldestIn(ledger, g)
HasEntry(g, statuses) == EntriesOf(g) # {} /\ ledger[EntryOf(g)].status \in statuses

NeedsBranch(c) == /\ job.managed /\ job.cards[c].root
                  /\ ~HasEntry(GroupOf(c), {"running", "completed"})
NeedsTests(c) == job.tdd /\ ~job.hier /\ KindOf(c) = "implementation"

-----------------------------------------------------------------------------
NoShot == [f \in Files |-> [hash |-> "none", clean |-> TRUE, stray |-> FALSE]]
Resting == [at |-> "off", card |-> 0, mode |-> "first", answer |-> "none",
            left |-> 0, before |-> NoShot, after |-> NoShot,
            fell |-> FALSE,   \* the fallback has become the provider
            found |-> Original,
            wrote |-> {},     \* files its turns wrote
            calm |-> TRUE]    \* nobody else touched the repository
Quiet == [edits |-> 0, others |-> 0, again |-> 0]
Afresh == [status |-> "todo", passed |-> FALSE, tests |-> FALSE, red |-> FALSE,
           fixes |-> 0, tries |-> 0]

AttemptInit ==
    /\ job \in Jobs
    /\ state = [c \in DOMAIN job.cards |-> Afresh]
    /\ ledger = <<>>
    /\ hand = [Resting EXCEPT !.at = "pick"]
    /\ git = [branch |-> 0,
              tips |-> [b \in 0..Len(job.cards) |->
                          IF b = 0 THEN <<Original>> ELSE <<>>],
              work |-> Original,
              origin |-> [b \in 0..Len(job.cards) |->
                          IF b = 0 THEN <<Original>> ELSE <<>>]]
    /\ noise = Quiet

This == hand.card
ThisGroup == GroupOf(This)
\* Between cards the worker holds nothing of the last one.
GoTo(step) ==
    hand' = IF step \in {"pick", "off"}
            THEN [Resting EXCEPT !.at = step, !.card = hand.card, !.fell = hand.fell]
            ELSE [hand EXCEPT !.at = step]
Stay == UNCHANGED <<job, noise>>

-----------------------------------------------------------------------------
(* The branch of a group: ensure_managed_git_branch_for_task_group.         *)

GitSteps == {"tree", "base", "create", "finalize", "back", "merge", "push"}
AfterBranch(c) == IF NeedsTests(c) THEN "baseline" ELSE "start"

Picks(c) ==
    /\ state' = [state EXCEPT ![c] =
                    [state[c] EXCEPT !.status = "in_progress", !.tries = @ + 1]]
    /\ hand' = [Resting EXCEPT !.at = IF NeedsBranch(c) THEN "tree" ELSE AfterBranch(c),
                               !.card = c, !.fell = hand.fell]

PickCard ==
    /\ hand.at = "pick"
    /\ LET todo == {c \in DOMAIN state : state[c].status = "todo"}
       IN  \/ \E c \in todo : (\A d \in todo : c <= d) /\ Picks(c)
           \/ todo = {} /\ GoTo("off") /\ UNCHANGED state
    /\ Stay /\ UNCHANGED <<ledger, git>>

\* Every error of git blocks the card and stops the board; the oldest entry of
\* the group is marked.
GitFails(l) ==
    /\ ledger' = [l EXCEPT ![OldestIn(l, ThisGroup)].status = "failed"]
    /\ state' = [state EXCEPT ![This] = [state[This] EXCEPT !.status = "blocked",
                     !.passed = hand.at \notin {"tree", "base", "create"} /\ @]]
    /\ GoTo("off") /\ UNCHANGED git

\* A command that fails by itself or takes too long.
CommandFails == /\ hand.at \in GitSteps \ {"tree"} /\ GitFails(ledger) /\ Stay

\* A new entry; the work tree must be clean.
CheckTree ==
    /\ hand.at = "tree"
    /\ LET l == Append(ledger, [group |-> ThisGroup, status |-> "running",
                                base |-> 0, branch |-> 0, commit |-> FALSE])
       IN  IF WorkIsClean THEN ledger' = l /\ GoTo("base") /\ UNCHANGED <<state, git>>
           ELSE GitFails(l)
    /\ Stay

Entry == ledger[EntryOf(ThisGroup)]
SetEntry(e) == ledger' = [ledger EXCEPT ![EntryOf(ThisGroup)] = e]

\* The group's base is the branch that happens to be checked out.
ReadBase ==
    /\ hand.at = "base"
    /\ SetEntry([Entry EXCEPT !.base = git.branch])
    /\ GoTo("create") /\ Stay /\ UNCHANGED <<state, git>>

\* git switch, then git switch -c: the branch must not exist.
CreateCardBranch ==
    /\ hand.at = "create"
    /\ IF MaySwitch(Entry.base) /\ ~IsBranch(This)
       THEN LET at == Switched(Entry.base)
            IN  /\ git' = [at EXCEPT !.branch = This, !.tips[This] = git.tips[Entry.base]]
                /\ SetEntry([Entry EXCEPT !.branch = This])
                /\ GoTo(AfterBranch(This)) /\ UNCHANGED state
       ELSE GitFails(ledger)
    /\ Stay

-----------------------------------------------------------------------------
(* Tests before the work: ensure_tdd_baseline_for_task.                     *)

\* Settles the card; the worker takes the next one.
SettleAs(card) == state' = [state EXCEPT ![This] = card] /\ GoTo("pick")

\* A card that has seen its tests fail goes on, for a number of attempts.
UseBaseline ==
    /\ hand.at = "baseline"
    /\ IF state[This].tests /\ state[This].red
       THEN IF state[This].fixes >= job.fixes THEN SettleAs([state[This] EXCEPT !.status = "blocked"])
            ELSE GoTo("start") /\ UNCHANGED state
       ELSE GoTo("tests") /\ UNCHANGED state
    /\ Stay /\ UNCHANGED <<ledger, git>>

\* Commands with status done or another one, or no commands at all, be it
\* because the provider failed.
TestsAnswered ==
    /\ hand.at = "tests"
    /\ \E got \in {"tests", "unfinished", "nothing"} :
          hand' = [hand EXCEPT !.at = "red", !.answer = got]
    /\ Stay /\ UNCHANGED <<state, ledger, git>>

\* A command that takes too long counts as failing.
RunBaseline ==
    /\ hand.at = "red"
    /\ \E late \in BOOLEAN :
          LET commands == hand.answer # "nothing"
              failed == commands /\ (late \/ ~TestsPass)
              accepted == \/ hand.answer = "tests" /\ (failed \/ ~job.strict)
                          \/ ~commands /\ job.lenient
          IN  IF accepted
              THEN /\ state' = [state EXCEPT ![This] =
                                   [state[This] EXCEPT !.tests = commands, !.red = failed]]
                   /\ GoTo("start")
              ELSE SettleAs([state[This] EXCEPT !.status = "blocked", !.passed = FALSE,
                                                  !.tests = commands, !.red = failed])
    /\ Stay /\ UNCHANGED <<ledger, git>>

-----------------------------------------------------------------------------
(* The turns of the provider.                                               *)

TakeSnapshot ==
    /\ hand.at = "start"
    /\ hand' = [hand EXCEPT !.at = "turn", !.mode = "first", !.left = job.repairs,
                            !.before = Snapshot, !.found = git.work]
    /\ Stay /\ UNCHANGED <<state, ledger, git>>

\* The provider edits the project while it generates tests, works on the card,
\* or puts its result right.
ProviderEdits ==
    /\ hand.at \in {"tests", "turn", "repair"} /\ noise.edits < job.bounds.edits
    /\ noise' = [noise EXCEPT !.edits = @ + 1]
    /\ \E f \in Files, v \in {"new", "broken"} :
          /\ git.work[f] # v /\ (f = "test" => v = "new")
          /\ git' = [git EXCEPT !.work[f] = v]
          /\ hand' = [hand EXCEPT !.wrote = IF hand.at = "turn" THEN @ \cup {f} ELSE @]
    /\ UNCHANGED <<job, state, ledger>>

\* What a turn ends with: a result with evidence, or without any; one that names
\* no known status; a follow-up; an obstacle the provider could get around; a
\* malformed tool call, another failure, or no turn at all.
TurnAnswers == {"done", "claim", "odd", "followup", "obstacle", "malformed", "down", "error"}
Failures == {"malformed", "down", "error"}

\* Another turn: for a malformed call, with the other provider, or because the
\* obstacle is one it could get around.
CallsAgain(a) == a = "malformed" /\ hand.mode = "first" /\ hand.left > 0
FallsBack(a) == /\ a \in Failures /\ ~CallsAgain(a)
                /\ hand.mode = "first" /\ job.fallback /\ ~hand.fell
IsRetried(a) == /\ a = "obstacle" /\ hand.mode # "again"
                /\ state[This].tries < job.tries

\* Faulty variant: the files are looked at again before the next turn.
RetryingAfresh == [hand EXCEPT !.mode = "again", !.before = Snapshot]
Retrying == [hand EXCEPT !.mode = "again"]

TurnEnds ==
    /\ hand.at = "turn"
    /\ \E a \in TurnAnswers :
          \/ CallsAgain(a) /\ hand' = [hand EXCEPT !.left = @ - 1] /\ UNCHANGED state
          \/ /\ FallsBack(a)
             /\ hand' = [hand EXCEPT !.mode = "fallback", !.fell = TRUE]
             /\ UNCHANGED state
          \/ /\ IsRetried(a)
             /\ hand' = Retrying
             /\ state' = [state EXCEPT ![This] = [state[This] EXCEPT !.tries = @ + 1]]
          \/ /\ ~CallsAgain(a) /\ ~FallsBack(a) /\ ~IsRetried(a)
             /\ IF a = "error" /\ hand.mode # "again"
                THEN SettleAs([state[This] EXCEPT !.status = "failed", !.passed = FALSE])
                ELSE /\ hand' = [hand EXCEPT !.at = "report", !.answer = a]
                     /\ UNCHANGED state
    /\ Stay /\ UNCHANGED <<ledger, git>>

-----------------------------------------------------------------------------
(* The judgment.                                                            *)

Owned == Attributable(hand.before, hand.after)
IsTouched == Touched(hand.before, hand.after)

\* strict_result_schema_issues, of an answer that came with these changes.
HasIssues(a, before, after) ==
    \/ a = "odd"
    \/ a = "claim" /\ IF job.hier THEN ~Attributable(before, after)
                      ELSE ~Touched(before, after)

\* The files are looked at again.  A failed turn blocks the card, or passes for
\* a follow-up if it changed files and its process exited with code 0.
RecordChanges ==
    /\ hand.at = "report"
    /\ \E salvaged \in BOOLEAN :
          LET seen == Snapshot
              answer == IF salvaged THEN "followup" ELSE hand.answer
          IN  /\ salvaged => /\ hand.answer \in {"malformed", "down"}
                             /\ Touched(hand.before, seen)
              /\ IF answer \in Failures
                 THEN SettleAs([state[This] EXCEPT !.status = "blocked", !.passed = FALSE])
                 ELSE /\ hand' = [hand EXCEPT !.after = seen, !.answer = answer,
                                     !.at = IF HasIssues(answer, hand.before, seen)
                                            THEN "repair" ELSE "check"]
                      /\ UNCHANGED state
    /\ Stay /\ UNCHANGED <<ledger, git>>

\* One more turn puts the result right, or the first one stands.
ResultRepaired ==
    /\ hand.at = "repair"
    /\ \E a \in {"done", "claim", "odd", "followup", hand.answer} :
          hand' = [hand EXCEPT !.at = "check", !.answer = a]
    /\ Stay /\ UNCHANGED <<state, ledger, git>>

RunsTests == state[This].tests /\ KindOf(This) # "qa"

\* A result with status done needs files, or evidence, by the card's kind; the
\* line about validation that every result gets is evidence.
EvidenceHolds ==
    job.hier => /\ KindOf(This) \in Making => Owned
                /\ ~Violations(KindOf(This), hand.before, hand.after)

\* Faulty variant: only cards in progress count as unfinished.
FinishesEarly(c) == /\ job.managed /\ HasEntry(GroupOf(c), {"running"})
                    /\ \A d \in DOMAIN job.cards : d # c /\ GroupOf(d) = GroupOf(c)
                          => state[d].status # "in_progress"

\* The group of a card that is done has an open entry and no unfinished card.
Finishes(c) == /\ job.managed /\ HasEntry(GroupOf(c), {"running"})
               /\ \A d \in DOMAIN job.cards : d # c /\ GroupOf(d) = GroupOf(c)
                     => state[d].status \notin {"todo", "in_progress"}

\* Failing validation makes a follow-up of any result.
Valid(late) == /\ ~late /\ (RunsTests => TestsPass)
               /\ (job.scripts => ScriptsPass)

\* A result without its evidence blocks the card.  Where a follow-up is a card of
\* its own, the card is done all the same.
StatusFor(answer) ==
    IF answer \in {"done", "claim"} THEN IF EvidenceHolds THEN "done" ELSE "blocked"
    ELSE IF answer # "followup" THEN "failed"
    ELSE IF job.hier => KindOf(This) = "qa" THEN "done" ELSE "blocked"

\* The card's new state, after validation in time or too late.
Judge(late) ==
    LET answer == IF Valid(late) THEN hand.answer ELSE "followup"
        done == answer \in {"done", "claim"}
        status == StatusFor(answer)
        more == IF NeedsTests(This)
                THEN (IF Valid(late) THEN 0 ELSE 1) + (IF done THEN 0 ELSE 1) ELSE 0
    IN  /\ state' = [state EXCEPT ![This] =
                        [state[This] EXCEPT !.status = status,
                           !.passed = done /\ status = "done", !.fixes = @ + more]]
        /\ GoTo(IF status = "done" /\ Finishes(This) THEN "finalize" ELSE "pick")

JudgeResult ==
    /\ hand.at = "check"
    /\ \E late \in BOOLEAN : (late => RunsTests \/ job.scripts) /\ Judge(late)
    /\ Stay /\ UNCHANGED <<ledger, git>>

-----------------------------------------------------------------------------
(* The end of a group: finalize_managed_git_task_group.                     *)

\* Everything in the work tree is committed on the group's branch.
CommitGroup ==
    /\ hand.at = "finalize"
    /\ IF git.branch # Entry.branch THEN GitFails(ledger)
       ELSE /\ git' = IF WorkIsClean THEN git ELSE Committed
            /\ SetEntry([Entry EXCEPT !.commit = ~WorkIsClean])
            /\ GoTo("back") /\ UNCHANGED state
    /\ Stay

SwitchBack ==
    /\ hand.at = "back"
    /\ IF MaySwitch(Entry.base)
       THEN /\ git' = Switched(Entry.base)
            /\ IF Entry.commit THEN GoTo("merge") /\ UNCHANGED ledger
               ELSE SetEntry([Entry EXCEPT !.status = "completed"]) /\ GoTo("pick")
            /\ UNCHANGED state
       ELSE GitFails(ledger)
    /\ Stay

\* git merge --ff-only, into whatever is checked out.
MergeGroup ==
    /\ hand.at = "merge"
    /\ LET theirs == git.tips[Entry.branch]
           forward == Extends(theirs, git.tips[git.branch])
       IN  IF /\ forward \/ Extends(git.tips[git.branch], theirs)
              /\ \A f \in Files : theirs[Len(theirs)][f] # TipOf(git.branch)[f]
                                      => git.work[f] = TipOf(git.branch)[f]
           THEN /\ git' = IF forward
                          THEN [git EXCEPT !.tips[git.branch] = theirs,
                                  !.work = [f \in Files |->
                                     IF theirs[Len(theirs)][f] = TipOf(git.branch)[f]
                                     THEN git.work[f] ELSE theirs[Len(theirs)][f]]]
                          ELSE git
                /\ GoTo("push") /\ UNCHANGED <<state, ledger>>
           ELSE GitFails(ledger)
    /\ Stay

\* git push origin: refused when the remote has other commits.
PushGroup ==
    /\ hand.at = "push"
    /\ LET base == Entry.base
       IN  IF Extends(git.tips[base], git.origin[base])
           THEN /\ git' = [git EXCEPT !.origin[base] = git.tips[base]]
                /\ SetEntry([Entry EXCEPT !.status = "completed"])
                /\ GoTo("pick") /\ UNCHANGED state
           ELSE GitFails(ledger)
    /\ Stay

-----------------------------------------------------------------------------
(* The user, and others who work in the same project.                       *)

\* retry_attention_tasks: cards that need attention are run again.
RetryAttention ==
    /\ hand.at = "off" /\ noise.again < job.bounds.again
    /\ \E c \in DOMAIN state : state[c].status \in {"blocked", "failed"}
    /\ state' = [c \in DOMAIN state |->
                    IF state[c].status \in {"blocked", "failed"}
                    THEN [state[c] EXCEPT !.status = "todo"] ELSE state[c]]
    /\ noise' = [noise EXCEPT !.again = @ + 1]
    /\ GoTo("pick") /\ UNCHANGED <<job, ledger, git>>

Disturb(g) == /\ noise.others < job.bounds.others
              /\ noise' = [noise EXCEPT !.others = @ + 1]
              /\ git' = g
              /\ hand' = [hand EXCEPT !.calm = FALSE]
              /\ UNCHANGED <<job, state, ledger>>

OthersEdit == \E f \in Files : git.work[f] # "theirs" /\
                 Disturb([git EXCEPT !.work[f] = "theirs"])
OthersSwitch == \E b \in DOMAIN git.tips : b # git.branch /\ MaySwitch(b) /\
                   Disturb(Switched(b))
OthersCommit == ~WorkIsClean /\ Disturb(Committed)
OthersPush == Disturb([git EXCEPT !.origin[0] =
                          Append(@, Tree("theirs", "none"))])

AttemptNext ==
    \/ PickCard \/ CheckTree \/ ReadBase \/ CreateCardBranch \/ CommandFails
    \/ UseBaseline \/ TestsAnswered \/ RunBaseline
    \/ TakeSnapshot \/ ProviderEdits \/ TurnEnds
    \/ RecordChanges \/ ResultRepaired \/ JudgeResult
    \/ CommitGroup \/ SwitchBack \/ MergeGroup \/ PushGroup
    \/ RetryAttention
    \/ OthersEdit \/ OthersSwitch \/ OthersCommit \/ OthersPush

AttemptSpec == AttemptInit /\ [][AttemptNext]_attemptVars

-----------------------------------------------------------------------------
(* Properties.                                                              *)

Contents == {"none", "old", "new", "broken", "theirs"}

AttemptTypeOK ==
    /\ state \in [DOMAIN job.cards ->
                     [status : {"todo", "in_progress", "done", "blocked", "failed"},
                      passed : BOOLEAN, tests : BOOLEAN, red : BOOLEAN,
                      fixes : Nat, tries : Nat]]
    /\ \A i \in DOMAIN ledger : ledger[i].status \in {"running", "failed", "completed"}
    /\ git.work \in [Files -> Contents] /\ IsBranch(git.branch)

EarnsDone ==
    \A c \in DOMAIN state :
        state[c].status # "done" /\ state'[c].status = "done" /\ state'[c].passed =>
            /\ job.scripts => ScriptsPass
            /\ NeedsTests(c) /\ job.strict /\ ~job.lenient => state[c].red /\ TestsPass
            /\ job.hier /\ hand.calm =>
                  /\ KindOf(c) \in Making => hand.wrote # {}
                  /\ KindOf(c) \in Checking =>
                        \A f \in Files : hand.after[f].hash = hand.found[f]
\* A card is done and passed only with validation on its work and, where tests
\* come first, with tests that failed before it; on a hierarchical board work
\* was done for it if it is to make something, and nothing was left behind if it
\* is to check something: over all the turns of the attempt, whoever took them.
DoneIsEarned == [][EarnsDone]_attemptVars

\* Another group was begun on the branch of this one.
IsBase(e) == \E i \in DOMAIN ledger : ledger[i].base = e.branch

\* If nobody interferes and no card is retried, a group whose cards are all done
\* is completed and the project is back, with nothing left over, on the branch
\* the group started from.  What was committed for it is on that branch, here
\* and at the remote.  Only where another group was begun in between, and has
\* been merged into this one, may a group without a commit of its own be
\* completed while its branch is ahead.
GroupDelivered ==
    LET g == GroupOf(hand.card)
        e == ledger[EntryOf(g)]
    IN  /\ hand.at \in {"pick", "off"} /\ hand.card # 0
        /\ EntriesOf(g) # {} /\ noise.others = 0 /\ noise.again = 0
        /\ \A c \in DOMAIN state : GroupOf(c) = g => state[c].status = "done"
        => /\ e.status = "completed" /\ WorkIsClean /\ git.branch = e.base
           /\ e.commit => git.origin[e.base] = git.tips[e.base]
           /\ e.commit \/ ~IsBase(e) => Extends(git.tips[e.base], git.tips[e.branch])
=============================================================================
