------------------------------ MODULE BoardScope ----------------------------
(***************************************************************************)
(* What a user may do to the cards of a board.  Each request is a function *)
(* of the cards and of the card being executed; its result says whether it *)
(* was accepted.  The cards of a refused result are the copy the request   *)
(* had worked on when it gave up.                                          *)
(***************************************************************************)
EXTENDS BoardTree

Accepted(k) == [cards |-> k, answer |-> "ok"]
Refused(k) == [cards |-> k, answer |-> "conflict"]

\* A conflict in the plan blocks the cards it names and stops the board.
PlanningError(k, affected) ==
    [cards |-> MarkPlanningError(k, affected), answer |-> "planning"]

Unless(k, affected, r) == IF affected # {} THEN PlanningError(k, affected) ELSE r

\* The result of a change to the plan, k, once the plan is seen to be sound.
Checked(k, after) ==
    Unless(k, DependencyCycle(k), Unless(k, HierarchyIssue(k), Accepted(after)))

FreshId(k) == CHOOSE id \in Ids : id \notin DOMAIN k
Spare(k) == Cardinality(Ids \ DOMAIN k)
Put(k, id, c) == [d \in DOMAIN k \cup {id} |-> IF d = id THEN c ELSE k[d]]
Without(k, gone) == [id \in DOMAIN k \ gone |-> k[id]]

NewCard(level, parent, status) ==
    [level |-> level, parent |-> parent, status |-> status, required |-> TRUE,
     kind |-> "implementation", deps |-> {}, source |-> NoCard, fix |-> NoCard,
     why |-> "none", effects |-> "none", accepted |-> FALSE, touched |-> {},
     superseded |-> FALSE, followup |-> FALSE, manual |-> FALSE,
     origin |-> NoCard, scope |-> 0, tries |-> 0]

Done(k, id) == k[id].status = "done"
Lineage(k, id) == {id} \cup (Ancestors(k, k[id]) \cap DOMAIN k)
\* The top of the tree a card hangs in, the card itself if an ancestor is missing.
Root(k, id) ==
    LET tops == {r \in Lineage(k, id) : k[r].parent = NoCard}
    IN  IF tops = {} THEN id ELSE CHOOSE r \in tops : TRUE

\* Nothing is added to, or moved in, a scope that is complete.
ScopeCompleted(k, parent) ==
    parent \in DOMAIN k /\ \E a \in Lineage(k, parent) : Done(k, a)

InBacklog(k, id) == k[id].status = "backlog" \/ k[Root(k, id)].status = "backlog"

Executing(k, cur, id) == k[id].status = "in_progress" \/ id = cur

-----------------------------------------------------------------------------
(* Removing cards.                                                          *)

\* A parent that loses required work is blocked: its plan is no longer complete.
BlockParents(k, short) ==
    [p \in DOMAIN k |-> IF p \in short /\ ~Done(k, p)
                        THEN [k[p] EXCEPT !.status = IF @ = "backlog" THEN @ ELSE "blocked",
                                          !.why = "defect"]
                        ELSE k[p]]

\* A card is deleted with everything below it.
DeleteTask(k, cur, id) ==
    LET gone == Descendants(k, id)
        short == {k[d].parent : d \in {e \in gone : k[e].required}}
    IN  IF \/ \E d \in gone : Executing(k, cur, d) \/ Done(k, d) \/ k[d].touched # {}
           \/ \E d \in gone : Done(k, Root(k, d))
        THEN Refused(k)
        ELSE Accepted(BlockParents(MarkDeletedDependencies(Without(k, gone), gone), short))

\* Faulty variant: the marks that work left are not looked at.
DeletePlan(k, cur, id) ==
    LET below == Descendants(k, id) \ {id}
    IN  IF \E d \in below \cup {id} : Executing(k, cur, d) THEN Refused(k)
        ELSE Accepted(MarkDeletedDependencies(Without(k, below), below))

\* A change of scope discards the plan below it, unless work has left a mark.
DeleteGenerated(k, cur, id) ==
    LET below == Descendants(k, id) \ {id}
    IN  IF below = {} THEN Accepted(k)
        ELSE IF \E d \in below \cup {id} : Executing(k, cur, d) \/ k[d].touched # {}
        THEN Refused(k)
        ELSE Accepted(MarkDeletedDependencies(Without(k, below), below))

Refreshed(r) == [r EXCEPT !.cards = RefreshRollups(@)]
IfAccepted(k, r) == IF r.answer = "ok" THEN Refreshed(r) ELSE Refused(k)

RegenerateChildren(k, cur, id) ==
    IF InBacklog(k, id) THEN IfAccepted(k, DeleteGenerated(k, cur, id)) ELSE Refused(k)

\* What a scope becomes when its approval is withdrawn.
Withdrawn(c) ==
    [c EXCEPT !.accepted = FALSE, !.effects = IF @ = "approved" THEN "asked" ELSE @]

\* The user has marked work removed: a card for it, in a task if need be.
PlanRemoval(k, id) ==
    LET task == FreshId(k)
        With(j, parent) == Put(j, FreshId(j), NewCard("subtask", parent, "backlog"))
    IN  IF k[id].level = "task" THEN With(k, id)
        ELSE With(Put(k, task, NewCard("task", id, "backlog")), task)

Resolved(k, cur, id, decision) ==
    LET affected == {d \in Descendants(k, id) \ {id} : k[d].touched # {}}
        planned == IF decision = "keep" THEN k ELSE PlanRemoval(k, id)
    IN  IF affected = {} \/ \E d \in Descendants(k, id) : Executing(k, cur, d)
        THEN Refused(k)
        ELSE Accepted(RefreshRollups(
                MarkDeletedDependencies(Without(planned, affected), affected)))

\* Marked work below a scope is dropped from the board once the user has said
\* what to do with its effects: keep them, or plan their removal.  (running: the
\* flags active and loop_started of the code go with that status.)
ResolveScopeEffects(k, running, cur, id, decision) ==
    LET chain == Lineage(k, id)
        back == [d \in DOMAIN k |->
                    IF d \in chain /\ \E a \in chain : k[a].status # "backlog"
                    THEN [Withdrawn(k[d]) EXCEPT !.status = "backlog", !.why = "none"]
                    ELSE k[d]]
    IN  IF running \/ \E a \in chain : Done(k, a) \/ Executing(k, cur, a) THEN Refused(k)
        ELSE Resolved(back, cur, id, decision)

-----------------------------------------------------------------------------
(* Writing cards.                                                           *)

Reconciled(k) == Checked(k, RefreshRollups(k))

AddTask(k, id, c) ==
    IF \/ ScopeCompleted(k, c.parent)
       \/ c.status = "todo" /\ ~(AncestorsApproved(k, c) /\ EffectsApproved(c))
       \/ ~(c.deps \subseteq DOMAIN k)
    THEN Refused(k)
    ELSE Reconciled(ReconcileApprovals(Relevel(Put(k, id, c))))

\* An edit of a scope takes back the approvals, and what the card's work reported
\* of its external effects; its changed files stay listed.
Rescoped(c, deps) ==
    [Withdrawn(c) EXCEPT !.deps = deps, !.scope = @ + 1, !.why = "none",
                         !.touched = @ \ {"effects"}]

\* The plan below it is discarded first.
Edited(k, id, deps, pruned) ==
    LET edited == [pruned.cards EXCEPT ![id] = Rescoped(@, deps)]
    IN  IF pruned.answer # "ok" THEN Refused(k)
        ELSE IF id \in deps \/ ~(deps \subseteq DOMAIN pruned.cards) THEN Refused(edited)
        ELSE Reconciled(edited)

EditBacklogTask(k, cur, id, deps) ==
    IF Done(k, id) \/ ScopeCompleted(k, k[id].parent) \/ ~InBacklog(k, id)
    THEN Refused(k)
    ELSE Edited(k, id, deps, DeleteGenerated(k, cur, id))

\* Backlog is a fresh approval boundary.
Moved(k, id, status, pruned) ==
    LET kept == pruned.cards
        moved == [kept EXCEPT
                     ![id] = [IF status = "backlog" THEN Withdrawn(@) ELSE @
                                EXCEPT !.status = status, !.why = "none"]]
        Settled(after) == Checked(after, after)
    IN  IF \/ pruned.answer # "ok"
           \/ Done(kept, Root(kept, id)) /\ ~AncestorsApproved(kept, kept[id])
        THEN Refused(k)
        ELSE Settled(RefreshRollups(moved))

MoveTask(k, cur, id, status) ==
    IF \/ k[id].status \in {"done", "in_progress"}
       \/ status = "todo" /\ \/ k[id].status = "failed"
                             \/ ~AncestorsApproved(k, k[id])
                             \/ ~EffectsApproved(k[id])
    THEN Refused(k)
    ELSE Moved(k, id, status,
               IF status = "backlog" THEN DeleteGenerated(k, cur, id) ELSE Accepted(k))

DetachTask(k, id) ==
    LET p == k[id].parent
        apart == Relevel([k EXCEPT ![id].parent = NoCard, ![id].level = "story",
                                   ![id].scope = @ + 1, ![id].deps = @ \ {p}])
        Sound(j) == Unless(j, HierarchyIssue(j), Accepted(RefreshRollups(j)))
    IN  IF \/ p = NoCard \/ ScopeCompleted(k, p)
           \/ ~k[id].manual \/ k[id].status # "backlog" \/ ~InBacklog(k, id)
        THEN Refused(k)
        ELSE Sound(ReconcileApprovals(apart))

SplitItem(k, id) ==
    LET split == Put(k, FreshId(k), NewCard(NextLevel(k[id].level), id, "backlog"))
    IN  IF k[id].status # "backlog" \/ Executable(k[id]) THEN Refused(k)
        ELSE IF DependencyCycle(split) # {} \/ HierarchyIssue(split) # {}
        THEN PlanningError(k, {id})
        ELSE Accepted(RefreshRollups(split))

\* The target is rewritten before it is known whether the source can go.
Merged(cur, from, rewritten) ==
    IF rewritten.answer # "ok" THEN rewritten
    ELSE IF from \notin DOMAIN rewritten.cards THEN Refused(rewritten.cards)
    ELSE IfAccepted(rewritten.cards, DeleteTask(rewritten.cards, cur, from))

Rewritten(k, cur, to, pruned) ==
    IF pruned.answer = "ok" THEN EditBacklogTask(pruned.cards, cur, to, k[to].deps)
    ELSE Refused(k)

MergeItem(k, cur, from, to) ==
    IF from = to \/ k[from].status # "backlog" \/ k[to].status # "backlog"
    THEN Refused(k)
    ELSE Merged(cur, from, Rewritten(k, cur, to, DeleteGenerated(k, cur, to)))

\* A replacement is a new story; what it replaces keeps its record.
ReplaceItem(k, id) ==
    IF ~Done(k, id) \/ k[id].superseded THEN Refused(k)
    ELSE Accepted(RefreshRollups(
            Put([k EXCEPT ![id].superseded = TRUE], FreshId(k),
                [NewCard("story", NoCard, "backlog") EXCEPT !.source = id])))

-----------------------------------------------------------------------------
(* Approvals.                                                               *)

ApproveSideEffects(k, id, approved) ==
    LET c == k[id]
        next == [c EXCEPT
            !.effects = IF approved THEN "approved" ELSE "asked",
            !.status = IF approved /\ c.status = "blocked" /\ c.why = "effect" THEN "todo"
                       ELSE IF ~approved /\ c.status = "todo" THEN "blocked" ELSE @,
            !.why = IF approved /\ c.status = "blocked" /\ c.why = "effect" THEN "none"
                    ELSE IF ~approved /\ c.status = "todo" THEN "effect" ELSE @]
    IN  IF ~Executable(c) \/ c.effects = "none" \/ c.status \in {"in_progress", "done"}
        THEN Refused(k)
        ELSE Accepted(RefreshRollups([k EXCEPT ![id] = next]))

\* Accepted research may leave planning items behind: new backlog stories.
AcceptResearch(k, id, items) ==
    LET planned == IF items THEN Put(k, FreshId(k), NewCard("story", NoCard, "backlog"))
                   ELSE k
    IN  IF k[id].kind # "research" \/ ~Done(k, id) THEN Refused(k)
        ELSE IF k[id].accepted THEN Accepted(k)
        ELSE Unless(planned, HierarchyIssue(planned),
                    Accepted(RefreshRollups([planned EXCEPT ![id].accepted = TRUE,
                                                            ![id].why = "none"])))

\* Fixes that may stand behind a retry of failed card id.
ApprovedFixes(k, id) ==
    {f \in DOMAIN k \ {id} :
        /\ Executable(k[f]) /\ k[f].kind \in {"fix", "verdict"}
        /\ k[f].status \in {"todo", "in_progress", "done"}
        /\ AncestorsApproved(k, k[f])
        /\ k[f].source = id \/ id \in k[f].deps}

\* A provider problem is retried as it is, a defect only behind a fix.
RetryTask(k, id, fix) ==
    LET r == ReconcileDependencies(k)
    IN  IF \/ ~Executable(r[id]) \/ r[id].status \notin {"blocked", "failed"}
           \/ r[id].why \in {"dependency", "effect", "planning", "breakdown"}
           \/ fix = NoCard /\ r[id].why # "provider"
           \/ fix # NoCard /\ fix \notin ApprovedFixes(r, id)
        THEN Refused(r)
        ELSE Accepted([r EXCEPT ![id].status = "todo", ![id].why = "none",
                                ![id].fix = fix])
=============================================================================
