------------------------------ MODULE BoardCards ----------------------------
(***************************************************************************)
(* A board in execution: the worker that plans, picks and runs cards on    *)
(* copies of the stored board, a breakdown the user asked for, and the     *)
(* requests of the user, which change the stored board under its lock.     *)
(* The worker takes no lock: what it saves replaces what is stored.        *)
(* (src/crates/iowb-server/src/agentic_board/execution.rs and http/.)      *)
(*                                                                         *)
(* Pausing, aborting, scheduling and the claim of the project are in       *)
(* BoardControl; here the board has at most one worker.                    *)
(***************************************************************************)
EXTENDS BoardScope

CONSTANTS InitialCards,  \* the cards of the boards to start from
          Requests,      \* the requests the user may make
          MaxRequests,   \* how many,
          MaxPrompts,    \* and how many prompts for the backlog
          Answers,       \* what the provider may answer
          MaxTries,      \* attempts at one card
          MaxFollowups,  \* fixes one board may be asked for by validation
          TaskQa         \* which finished cards are checked at once

\* The boards to start from were saved.
ASSUME CardsAssumption ==
    /\ \A k \in InitialCards : /\ DOMAIN k \subseteq Ids /\ k \in [DOMAIN k -> Card]
                               /\ k = Normalize(k)
    /\ Answers \subseteq {"done", "bare", "followup", "no_json", "blocked",
                          "failed", "provider", "error"}
    /\ TaskQa \in {"off", "all", "high_risk"}
    /\ {MaxRequests, MaxPrompts, MaxTries, MaxFollowups} \subseteq Nat

VARIABLES board,    \* the stored board
          worker,   \* its worker, with the copy of the board it holds
          planner,  \* a breakdown the user waits for
          left,     \* requests the user may still make
          prompts   \* prompts for the backlog: how many may still come, the last
                    \* one's number, and those that wait for the provider

vars == <<board, worker, planner, left, prompts>>

Idle == [at |-> "off", card |-> NoCard, held |-> NoCard, seen |-> NoCard]
NoPrompt == [id |-> 0, status |-> "idle"]
NotPlanning == [card |-> NoCard, seen |-> NoCard]

Loaded(b) == [b EXCEPT !.cards = Normalize(@)]
Save(b) == board' = Loaded(b)
Cards == Normalize(board.cards)

\* What a breakdown remembers of its parent.
Seen(c) == [scope |-> c.scope, status |-> c.status]

Init ==
    /\ \E k \in InitialCards :
          board = [status |-> "running", planning |-> "none", current |-> NoCard,
                   cards |-> k, prompt |-> NoPrompt]
    /\ worker = [Idle EXCEPT !.at = "plan"]
    /\ planner = NotPlanning
    /\ left \in 0..MaxRequests
    /\ prompts \in [left : 0..MaxPrompts, last : {0}, calls : {{}}]

-----------------------------------------------------------------------------
(* Requests of the user.                                                    *)

\* A conflict in the plan stops the board.
StoppedByPlan(b, k) == [b EXCEPT !.cards = k, !.status = "blocked",
                                 !.planning = "plan", !.current = NoCard]

\* What a request leaves of board b.  One that is refused saves nothing, unless
\* the board still shows a planning error, its own or an earlier one.
AfterRequest(b, r) ==
    CASE r.answer = "ok" -> [b EXCEPT !.cards = r.cards]
      [] r.answer = "planning" -> StoppedByPlan(b, r.cards)
      [] OTHER -> IF b.planning = "none" THEN b ELSE [b EXCEPT !.cards = r.cards]

MayAsk(kind) == kind \in Requests /\ left > 0 /\ left' = left - 1

Ask(r) ==
    LET b == Loaded(board)
        after == AfterRequest(b, r)
    IN  /\ r.answer # "conflict" \/ after # b
        /\ Save(after)

\* Work whose external effects are not approved keeps a board from starting.
Startable(b) == AwaitingEffects(b.cards) = {}
Started(b) == [b EXCEPT !.status = "running", !.planning = "none"]

\* A start after a request that approved work.
SaveAndStart(b, starts) ==
    /\ Save(IF starts THEN Started(b) ELSE b)
    /\ worker' = IF starts /\ worker.at = "off" THEN [worker EXCEPT !.at = "plan"]
                 ELSE worker

AskAndStart(r) ==
    LET Then(b) == SaveAndStart(b, r.answer = "ok" /\ Startable(b))
    IN  r.answer # "conflict" /\ Then(Loaded(AfterRequest(Loaded(board), r)))

UserAdds ==
    /\ MayAsk("add") /\ Spare(Cards) > 0
    /\ \E p \in {q \in DOMAIN Cards : Depth(Cards, q) < MaxDepth} \cup {NoCard},
          status \in {"backlog", "todo"} :
          LET level == IF p = NoCard THEN "story" ELSE NextLevel(Cards[p].level)
              r == AddTask(Cards, FreshId(Cards),
                           [NewCard(level, p, status) EXCEPT !.manual = TRUE])
          IN  IF status = "todo" THEN AskAndStart(r)
              ELSE Ask(r) /\ UNCHANGED worker
    /\ UNCHANGED <<planner, prompts>>

UserMoves ==
    /\ MayAsk("move")
    /\ \E id \in DOMAIN Cards :
          \/ AskAndStart(MoveTask(Cards, board.current, id, "todo"))
          \/ /\ Ask(MoveTask(Cards, board.current, id, "backlog"))
             /\ UNCHANGED worker
    /\ UNCHANGED <<planner, prompts>>

\* An edit may make the card depend on another subtask.
Edits(id) ==
    \/ Ask(EditBacklogTask(Cards, board.current, id, Cards[id].deps))
    \/ /\ Executable(Cards[id])
       /\ \E d \in DOMAIN Cards :
             /\ Executable(Cards[d])
             /\ Ask(EditBacklogTask(Cards, board.current, id, {d}))

UserEdits ==
    /\ MayAsk("edit")
    /\ \E id \in DOMAIN Cards : Edits(id)
    /\ UNCHANGED <<worker, planner, prompts>>

UserDeletes ==
    /\ MayAsk("delete")
    /\ \E id \in DOMAIN Cards :
          \/ Ask(DeleteTask(Cards, board.current, id))
          \/ Ask(RegenerateChildren(Cards, board.current, id))
    /\ UNCHANGED <<worker, planner, prompts>>

UserResolves ==
    /\ MayAsk("resolve")
    /\ \E id \in DOMAIN Cards, decision \in {"keep", "cleanup"} :
          /\ decision = "cleanup" => Spare(Cards) > 1
          /\ Ask(ResolveScopeEffects(Cards, board.status = "running", board.current,
                                     id, decision))
    /\ UNCHANGED <<worker, planner, prompts>>

Merges(from, to) == Ask(MergeItem(Cards, board.current, from, to))

UserReshapes ==
    /\ MayAsk("reshape") /\ Spare(Cards) > 0
    /\ \E id \in DOMAIN Cards :
          \/ Ask(DetachTask(Cards, id))
          \/ Ask(SplitItem(Cards, id))
          \/ Ask(ReplaceItem(Cards, id))
          \/ \E to \in DOMAIN Cards : Merges(id, to)
    /\ UNCHANGED <<worker, planner, prompts>>

UserApproves ==
    /\ MayAsk("approve") /\ Spare(Cards) > 0
    /\ \E id \in DOMAIN Cards, yes \in BOOLEAN :
          \/ Ask(ApproveSideEffects(Cards, id, yes))
          \/ Ask(AcceptResearch(Cards, id, yes))
    /\ UNCHANGED <<worker, planner, prompts>>

UserStarts ==
    /\ MayAsk("start") /\ worker.at = "off"
    /\ AskAndStart(Accepted(Cards))
    /\ UNCHANGED <<planner, prompts>>

\* A retry is asked for when the board has come to rest.
UserRetries ==
    /\ MayAsk("retry") /\ worker.at = "off"
    /\ \E id \in DOMAIN Cards, fix \in DOMAIN Cards \cup {NoCard} :
          AskAndStart(RetryTask(Cards, id, fix))
    /\ UNCHANGED <<planner, prompts>>

-----------------------------------------------------------------------------
(* Breakdowns.                                                              *)

\* Proposals that are optional or risky wait for approval in a story of their
\* own, under a task of their own where they are subtasks.
Planned(k, p, wrapped) ==
    LET level == NextLevel(k[p].level)
        story == FreshId(k)
        withStory == Put(k, story, [NewCard("story", NoCard, "backlog") EXCEPT
                                       !.origin = p, !.required = FALSE])
        task == FreshId(withStory)
        Wrapped(parent, l) == [NewCard(l, parent, "backlog") EXCEPT !.required = FALSE]
        withTask == Put(withStory, task, Wrapped(story, "task"))
    IN  IF ~wrapped THEN Put(k, FreshId(k), NewCard(level, p, k[p].status))
        ELSE IF level = "task" THEN withTask
        ELSE Put(withTask, FreshId(withTask), Wrapped(task, "subtask"))

\* The result of a breakdown of p is dropped if p changed meanwhile.
Reviewed(k) ==
    Unless(k, HierarchyIssue(k),
           Unless(k, DependencyCycle(k), Accepted(RefreshRollups(k))))

Breakdown(k, p, seen, wrapped) ==
    IF p \notin DOMAIN k \/ seen # Seen(k[p]) THEN Refused(k)
    ELSE Reviewed([Planned(k, p, wrapped) EXCEPT ![p].why = "none"])

\* A failed breakdown leaves the parent to be planned again: blocked, with the
\* board, when the worker asked for it.
FailedBreakdown(b, p, manual) ==
    LET why == IF manual THEN "replan" ELSE "breakdown"
        noted == IF p \notin DOMAIN b.cards THEN b.cards
                 ELSE [b.cards EXCEPT ![p].why = why,
                                      ![p].status = IF manual THEN @ ELSE "blocked"]
    IN  IF b.status = "completed" THEN b
        ELSE IF manual THEN [b EXCEPT !.cards = noted]
        ELSE [StoppedByPlan(b, noted) EXCEPT !.planning = "breakdown"]

SavePlan(r) == board' = IF r.answer = "conflict" THEN board
                        ELSE Loaded(AfterRequest(Loaded(board), r))

\* A breakdown that failed may be asked for again, by itself or with the board.
MayPlanAgain(c) == c.why \in {"breakdown", "replan"}

Reopened(b, p) ==
    LET stuck == b.cards[p].status \in {"blocked", "failed"}
        reset == IF stuck THEN [b EXCEPT !.cards[p].status = "backlog", !.cards[p].why = "none"]
                 ELSE b
    IN  IF ~MayPlanAgain(b.cards[p]) THEN b
        ELSE Loaded(IF b.planning # "breakdown" THEN reset
                    ELSE [reset EXCEPT !.status = "paused", !.planning = "none",
                                       !.current = NoCard])

BreaksDown(b, p) ==
    /\ b.cards[p].status \in {"backlog", "todo"}
    /\ b.cards[p].status = "todo" => AncestorsApproved(b.cards, b.cards[p])
    /\ board' = b
    /\ planner' = [card |-> p, seen |-> Seen(b.cards[p])]

UserBreaksDown ==
    /\ MayAsk("breakdown") /\ planner = NotPlanning
    /\ \E p \in DOMAIN Cards :
          /\ ~Executable(Cards[p])
          /\ Cards[p].status \in {"backlog", "todo"} \/ MayPlanAgain(Cards[p])
          /\ BreaksDown(Reopened(Loaded(board), p), p)
    /\ UNCHANGED <<worker, prompts>>

PlannerAnswers ==
    /\ planner # NotPlanning
    /\ \/ Save(FailedBreakdown(Loaded(board), planner.card, TRUE))
       \/ \E wrapped \in BOOLEAN :
             /\ Spare(Cards) >= IF wrapped THEN 3 ELSE 1
             /\ SavePlan(Breakdown(Cards, planner.card, planner.seen, wrapped))
    /\ planner' = NotPlanning
    /\ UNCHANGED <<worker, left, prompts>>

\* The worker goes on if its breakdown was saved.
WorkerPlans ==
    /\ worker.at = "breakdown"
    /\ LET Then(r) == /\ SavePlan(r)
                      /\ worker' = [Idle EXCEPT !.at = IF r.answer = "ok" THEN "plan" ELSE "off"]
       IN  \/ /\ Save(FailedBreakdown(Loaded(board), worker.card, FALSE))
              /\ worker' = Idle
           \/ \E wrapped \in BOOLEAN :
                 /\ Spare(board.cards) >= IF wrapped THEN 3 ELSE 1
                 /\ Then(Breakdown(Cards, worker.card, worker.seen, wrapped))
    /\ UNCHANGED <<planner, left, prompts>>

-----------------------------------------------------------------------------
(* Prompts for the backlog.  The board says which one it waits for; what a   *)
(* worker saves meanwhile says what its copy said.                          *)

NewPrompt ==
    /\ prompts.left > 0
    /\ prompts' = [left |-> prompts.left - 1, last |-> prompts.last + 1,
                   calls |-> prompts.calls \cup {prompts.last + 1}]
    /\ Save([Loaded(board) EXCEPT !.prompt = [id |-> prompts.last + 1,
                                              status |-> "running"]])
    /\ UNCHANGED <<worker, planner, left>>

UserPrompts == NewPrompt
UserRetriesPrompt == board.prompt.status = "failed" /\ NewPrompt

\* A draft is read as a story, a task or a subtask.
DraftLevels == {"story", "task", "subtask"}
DraftStory(deps) == [NewCard("story", NoCard, "backlog") EXCEPT !.deps = deps]

\* A draft becomes a story; one for a task or a subtask is nested below it.
DraftTree(k, level, deps) ==
    LET Nest(j, l, parent) == Put(j, FreshId(j), NewCard(l, parent, "backlog"))
        story == FreshId(k)
        withStory == Put(k, story, DraftStory(deps))
        task == FreshId(withStory)
        withTask == Nest(withStory, "task", story)
    IN  CASE level = "story" -> withStory
          [] level = "task" -> withTask
          [] OTHER -> Nest(withTask, "subtask", task)

\* One draft, which may depend on a root of the board, or two of which the
\* second depends on the first; it is left out if the board has one of its
\* title, and it may depend on the second in turn.
PromptPlans(k) ==
    LET deps == {{}} \cup {{id} : id \in {r \in DOMAIN k : k[r].parent = NoCard}}
        first == FreshId(k)
        second == FreshId(DraftTree(k, "story", {}))
        Pair(back) == DraftTree(DraftTree(k, "story", back), "story", {first})
    IN  {DraftTree(k, "story", d) : d \in deps}
        \cup {DraftTree(k, level, {}) : level \in DraftLevels}
        \cup {Pair({}), Pair({second}), Without(Pair({}), {first})}

\* No turn, one that fails or one without a draft.
NoDrafts(b) == [b EXCEPT !.prompt.status = "failed"]

\* The drafts are added together, if the board then has a plan without issues.
WithPlan(b, plan) ==
    LET k == Normalize(plan)
    IN  IF DependencyIssue(k) \cup DependencyCycle(k) \cup HierarchyIssue(k) # {}
        THEN NoDrafts(b)
        ELSE [b EXCEPT !.prompt = NoPrompt, !.cards = RefreshRollups(k)]

\* The answer to any but the prompt the board waits for is dropped.
PromptAnswered ==
    /\ \E call \in prompts.calls :
          /\ prompts' = [prompts EXCEPT !.calls = @ \ {call}]
          /\ LET b == Loaded(board)
             IN  IF b.prompt # [id |-> call, status |-> "running"]
                 THEN UNCHANGED board
                 ELSE \/ Save(NoDrafts(b))
                      \/ /\ Spare(b.cards) >= 3
                         /\ \E plan \in PromptPlans(b.cards) : Save(WithPlan(b, plan))
    /\ UNCHANGED <<worker, planner, left>>

-----------------------------------------------------------------------------
(* The worker.                                                              *)

LoadBoard ==
    /\ worker.at = "plan"
    /\ worker' = IF board.status = "running"
                 THEN [worker EXCEPT !.at = "loaded", !.held = Loaded(board)]
                 ELSE Idle
    /\ UNCHANGED <<board, planner, left, prompts>>

\* A board whose plan contradicts itself is not executed.
FirstIssue(hierarchy, dependencies, cycle) ==
    IF hierarchy # {} THEN hierarchy ELSE IF dependencies # {} THEN dependencies ELSE cycle

PlanIssue(k) == FirstIssue(HierarchyIssue(k), DependencyIssue(k), DependencyCycle(k))

RejectPlan ==
    /\ worker.at = "loaded"
    /\ LET Reject(k, affected) ==
              /\ affected # {}
              /\ Save(StoppedByPlan(worker.held, MarkPlanningError(k, affected)))
       IN  Reject(worker.held.cards, PlanIssue(worker.held.cards))
    /\ worker' = Idle
    /\ UNCHANGED <<planner, left, prompts>>

\* Approved cards are planned down to subtasks before any work is picked.
BreakDown(k, parents) ==
    \E p \in parents :
       /\ Save([worker.held EXCEPT !.cards = k])
       /\ worker' = [at |-> "breakdown", card |-> p, held |-> NoCard,
                     seen |-> Seen(Normalize(k)[p])]

BreakDownNext ==
    /\ worker.at = "loaded" /\ PlanIssue(worker.held.cards) = {}
    /\ LET Plan(k) == BreakDown(k, Unplanned(k))
       IN  Plan(RefreshRollups(worker.held.cards))
    /\ UNCHANGED <<planner, left, prompts>>

\* Attempts matter only up to the limit.
Counted(tries) == IF tries < MaxTries THEN tries + 1 ELSE tries

\* Nothing is left to plan: the worker picks one of the cards ready to run.
Run(k, t) ==
    LET picked == [k EXCEPT ![t].status = "in_progress", ![t].why = "none",
                            ![t].tries = Counted(@)]
        b == [worker.held EXCEPT !.current = t, !.cards = picked]
    IN  /\ Save(b)
        /\ worker' = [at |-> IF k[t].kind = "review" THEN "review" ELSE "prepare",
                      card |-> t, held |-> b, seen |-> NoCard]

PickTask ==
    /\ worker.at = "loaded" /\ PlanIssue(worker.held.cards) = {}
    /\ LET Pick(k) == \E t \in Ready(k) : Run(k, t)
           Then(k) == Unplanned(k) = {} /\ Pick(RefreshRollups(ReconcileDependencies(k)))
       IN  Then(RefreshRollups(worker.held.cards))
    /\ UNCHANGED <<planner, left, prompts>>

\* Why the board stops, in the order in which the worker looks.
Halted(b, k) ==
    LET Stop(status, cards) == [b EXCEPT !.status = status, !.cards = cards]
    IN  IF AwaitingEffects(k) # {} THEN Stop("blocked", MarkEffectBlockers(k))
        ELSE IF PendingResearch(k) # {} THEN Stop("paused", k)
        ELSE IF WaitingOnDependencies(k) # {}
        THEN Stop("blocked", MarkDependencyBlockers(k))
        ELSE IF DependencyBlocked(k) # {} \/ Attention(k) # {} THEN Stop("blocked", k)
        ELSE IF WorkIsComplete(k) /\ BacklogPlanning(k) = {}
        THEN [Stop("completed", k) EXCEPT !.current = NoCard]
        ELSE Stop("paused", k)

NothingToRun ==
    /\ worker.at = "loaded" /\ PlanIssue(worker.held.cards) = {}
    /\ LET Stop(k) == /\ Ready(k) = {}
                      /\ Save(Halted(worker.held, ReconcileDependencies(k)))
           Then(k) == Unplanned(k) = {} /\ Stop(RefreshRollups(ReconcileDependencies(k)))
       IN  Then(RefreshRollups(worker.held.cards))
    /\ worker' = Idle
    /\ UNCHANGED <<planner, left, prompts>>

Outcome(b, t, status, why) ==
    [b EXCEPT !.cards[t].status = status, !.cards[t].why = why]

\* Review cards are run inline, as a promotion review; an error ends the loop.
ReviewPromotion ==
    /\ worker.at = "review"
    /\ \E status \in {"done", "blocked", "failed"} :
          LET why == IF status = "failed" THEN "defect" ELSE "none"
              b == Outcome(worker.held, worker.card, status, why)
          IN  IF status = "failed" THEN Save(b) /\ worker' = Idle
              ELSE /\ Save([b EXCEPT !.current = NoCard])
                   /\ worker' = [Idle EXCEPT !.at = "plan"]
    /\ UNCHANGED <<planner, left, prompts>>

\* The branch of the card is prepared on the copy, which is then saved.
PrepareGit ==
    /\ worker.at = "prepare"
    /\ \/ /\ \E why \in {"provider", "defect"} :
                Save([Outcome(worker.held, worker.card, "blocked", why)
                        EXCEPT !.status = "blocked"])
          /\ worker' = Idle
       \/ /\ Save(worker.held)
          /\ worker' = [worker EXCEPT !.at = "context", !.held = Loaded(worker.held)]
    /\ UNCHANGED <<planner, left, prompts>>

\* So is what is retrieved for its prompt.  Then the provider is called.
CallProvider ==
    /\ worker.at = "context"
    /\ Save(worker.held)
    /\ worker' = [worker EXCEPT !.at = "call", !.held = NoCard]
    /\ UNCHANGED <<planner, left, prompts>>

-----------------------------------------------------------------------------
(* Results.                                                                 *)

ChecksWork(c) == c.kind \in {"qa", "review", "manual_test"}
ChangesFiles(c) == c.kind \in {"implementation", "fix", "verdict"}

\* Faulty variant: a provider problem puts the card back in the queue.
Requeued(c, answer) ==
    IF answer = "provider" THEN [c EXCEPT !.status = "todo", !.why = "none"]
    ELSE [c EXCEPT !.status = "failed", !.why = "defect"]

\* What an attempt may leave: its files are looked up in the repository, its
\* external effects are those of the declared ones that its result reports.  Done
\* work shows both, and a check that is done changed no file.
Leaves(c, answer) ==
    {m \in SUBSET Marks :
        /\ answer = "done" => /\ "files" \in m <=> ChangesFiles(c)
                              /\ c.effects # "none" => "effects" \in m
        /\ c.effects = "none" \/ answer = "no_json" => "effects" \notin m}

\* Changed files add up over the attempts at a card; the effects recorded are
\* those of its last one.
Marked(c, marks) == [c EXCEPT !.touched = (@ \ {"effects"}) \cup marks]

\* A claim to be done without evidence is not believed; findings of a check
\* complete the check.
Judged(c, answer) ==
    LET Now(status, why) == [c EXCEPT !.status = status, !.why = why]
    IN  CASE answer = "provider" -> Now("blocked", "provider")
          [] answer = "bare" -> Now("blocked", "evidence")
          [] answer = "done" -> Now("done", "none")
          [] answer \in {"followup", "no_json"} ->
                IF ChecksWork(c) THEN Now("done", "none") ELSE Now("blocked", "defect")
          [] OTHER -> Now("failed", "defect")

WantsFollowup(answer) == answer \in {"followup", "no_json", "bare"}
Followups(k) == {id \in DOMAIN k : k[id].followup}

System(k, t, kind) == [NewCard("subtask", k[t].parent, "todo") EXCEPT
                          !.kind = kind, !.deps = {t}, !.source = t]

\* What a result adds to the plan: another verdict, or a fix.
FollowUp(k, t, answer) ==
    LET c == k[t]
        Blocked == [k EXCEPT ![t].status = "blocked", ![t].why = "defect"]
        Added(cards) == [cards |-> cards, added |-> TRUE]
        Same(cards) == [cards |-> cards, added |-> FALSE]
        judged == \E v \in DOMAIN k : k[v].kind = "verdict" /\ k[v].source = t
    IN  IF answer = "no_json" /\ c.kind = "qa" /\ ~judged
        THEN Added(Put(k, FreshId(k), System(k, t, "verdict")))
        ELSE IF answer = "no_json" /\ c.kind = "verdict" THEN Added(Blocked)
        ELSE IF ~WantsFollowup(answer) THEN Same(k)
        ELSE IF ~ChecksWork(c) \/ Cardinality(Followups(k)) >= MaxFollowups
        THEN Same(Blocked)
        ELSE Added(Put(k, FreshId(k), [System(k, t, "fix") EXCEPT !.followup = TRUE]))

NeedsQa(k, t) ==
    /\ k[t].status = "done" /\ k[t].kind \notin {"qa", "verdict"}
    /\ TaskQa = "all" \/ (TaskQa = "high_risk" /\ k[t].followup)
    /\ ~\E q \in DOMAIN k : k[q].kind = "qa" /\ k[q].source = t

WithCheck(k, t) ==
    IF NeedsQa(k, t) THEN Put(k, FreshId(k), System(k, t, "qa")) ELSE k

\* The statuses of parents are rolled up before the check of the work is added.
Result(k, t, answer, marks) ==
    LET judged == [k EXCEPT ![t] = Marked(Judged(@, answer), marks)]
        WithChecks(r) == IF r.added THEN RefreshRollups(r.cards)
                       ELSE WithCheck(RefreshRollups(r.cards), t)
    IN  IF answer = "provider" THEN RefreshRollups(judged)
        ELSE WithChecks(FollowUp(judged, t, answer))

\* The board is read again after the call; a blocker that may pass is worth a
\* second call, whose answer is applied to the copy read after the first.
Apply(h, t, answer) ==
    LET told == IF answer = "error" THEN "provider" ELSE answer
        first == worker.at = "call"
        again == [h EXCEPT !.cards[t].tries = Counted(@)]
        Back == worker' = [Idle EXCEPT !.at = "plan"]
    IN  IF t \notin DOMAIN h.cards
        THEN Save([h EXCEPT !.current = NoCard]) /\ Back
        ELSE IF first /\ answer = "error"
        THEN Save([Outcome(h, t, "failed", "provider") EXCEPT !.current = NoCard]) /\ Back
        ELSE IF first /\ answer = "blocked" /\ h.cards[t].tries < MaxTries
        THEN Save(again) /\ worker' = [worker EXCEPT !.at = "again", !.held = again]
        ELSE    /\ \E marks \in Leaves(h.cards[t], told) :
                      worker' = [worker EXCEPT !.at = "settle",
                                   !.held = [h EXCEPT !.cards = Result(@, t, told, marks)]]
                /\ UNCHANGED board

\* An answer that may add a card needs an id for it.
AddsNothing(k, t, answer) ==
    /\ answer \in {"blocked", "failed", "provider", "error"}
    /\ t \in DOMAIN k => Executable(k[t])

ProviderAnswers ==
    /\ worker.at \in {"call", "again"}
    /\ LET copy == IF worker.at = "call" THEN Loaded(board) ELSE worker.held
       IN  \E answer \in Answers :
              /\ Spare(copy.cards) > 0 \/ AddsNothing(copy.cards, worker.card, answer)
              /\ Apply(copy, worker.card, answer)
    /\ UNCHANGED <<planner, left, prompts>>

\* Finished work is committed, and the copy is saved.
SettleTask ==
    /\ worker.at = "settle"
    /\ \/ /\ Save([worker.held EXCEPT !.current = NoCard])
          /\ worker' = [Idle EXCEPT !.at = "plan"]
       \/ /\ worker.held.cards[worker.card].status = "done"
          /\ \E why \in {"provider", "defect"} :
                Save([Outcome(worker.held, worker.card, "blocked", why)
                        EXCEPT !.status = "blocked"])
          /\ worker' = Idle
    /\ UNCHANGED <<planner, left, prompts>>

-----------------------------------------------------------------------------
User == \/ UserAdds \/ UserMoves \/ UserEdits \/ UserDeletes \/ UserResolves
        \/ UserReshapes \/ UserApproves \/ UserStarts \/ UserRetries
        \/ UserBreaksDown \/ UserPrompts \/ UserRetriesPrompt

Work == \/ LoadBoard \/ RejectPlan \/ BreakDownNext \/ PickTask \/ NothingToRun
        \/ ReviewPromotion \/ PrepareGit \/ CallProvider \/ ProviderAnswers
        \/ SettleTask \/ WorkerPlans

\* Nothing goes on until the user asks for something.
Rest == /\ worker.at = "off" /\ planner = NotPlanning /\ prompts.calls = {}
        /\ UNCHANGED vars

Next == User \/ Work \/ PlannerAnswers \/ PromptAnswered \/ Rest

\* Weak fairness of the worker and of the planner, spelled out: each has a step
\* to take for as long as it is at work, and there is no deadlock.
Fairness ==
    /\ []<>(worker.at = "off") \/ []<><<worker' # worker>>_vars
    /\ []<>(planner = NotPlanning) \/ []<><<planner' # planner>>_vars

Spec == Init /\ [][Next]_vars /\ Fairness
-----------------------------------------------------------------------------
(* Properties.                                                              *)

\* Every stored board is well formed: it holds cards, each of the level below its
\* parent's, and the worker's card is on the copy it holds.  (normalize_board on
\* every save, detach_task_from_parent and the breakdowns.)
CardsTypeOK ==
    /\ DOMAIN board.cards \subseteq Ids
    /\ \A id \in DOMAIN board.cards :
          /\ board.cards[id] \in Card
          /\ board.cards[id].level = LevelBelow(board.cards, board.cards[id])
    /\ board.current \in Ids \cup {NoCard}
    /\ worker.held # NoCard /\ worker.card # NoCard =>
          worker.card \in DOMAIN worker.held.cards

\* A card in execution was approved all the way up, so were its side effects,
\* and everything it depends on is finished and still on the board, whatever the
\* user does to the board meanwhile.  Only the fix that a retry waited for may be
\* dropped while the card runs: mark_deleted_dependencies looks at task_blockers
\* alone.  (pick_next_executable and reconcile_hierarchy_approvals against the
\* requests of http/.)
WorkInProgressIsSound ==
    \A id \in DOMAIN board.cards : board.cards[id].status = "in_progress" =>
        /\ AncestorsApproved(board.cards, board.cards[id])
        /\ EffectsApproved(board.cards[id])
        /\ Executable(board.cards[id]) =>
              \A d \in board.cards[id].deps :
                 d \in DOMAIN board.cards /\ Done(board.cards, d)

\* The marks a step takes off the board.
Lost(id) ==
    board.cards[id].touched \ (IF id \in DOMAIN board'.cards
                               THEN board'.cards[id].touched ELSE {})

\* A card whose work left marks leaves the board only when the user decides what
\* becomes of them.  The files it changed stay listed over every attempt, edit
\* and saved copy.  The external effects it reported are forgotten by a new
\* attempt at this very card or an edit of it, which leave the card there, and
\* by a merge into it: one of a card above it takes both away.
\* (delete_board_task, delete_generated_descendants, resolve_board_scope_effects,
\* the recording of an attempt in execution.rs, the edits of task_updates.rs and
\* merge_discussion_item; the copies a worker saves bring cards back.)
ChangesStayOnRecord ==
    [][\A id \in DOMAIN board.cards :
          \/ Lost(id) = {}
          \/ UserResolves
          \/ /\ Lost(id) = {"effects"}
             /\ \/ worker.at = "settle" /\ worker.card = id /\ id \in DOMAIN board'.cards
                \/ UserEdits /\ Edits(id) /\ id \in DOMAIN board'.cards
                \/ UserReshapes /\ \E from \in DOMAIN Cards : Merges(from, id)]_vars

\* A card that once reported external effects stays on the board for as long as
\* the user only edits and deletes cards and decides nothing about effects.
\* (delete_board_task refuses to delete such a card, but a title given anew
\* clears what it looks at, so this is not so and no run checks it.)
ReportedEffectsAreAsked ==
    \A id \in Ids :
        [](id \in DOMAIN board.cards /\ "effects" \in board.cards[id].touched
             => [](id \in DOMAIN board.cards))

\* The worker never plans, retries and repairs for ever: it comes to rest with
\* a board that is complete, waits or says what is wrong.  (run_board_loop.)
BoardComesToRest == []<>(worker.at = "off")
=============================================================================
