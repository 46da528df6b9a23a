------------------------------ MODULE BoardTree -----------------------------
(***************************************************************************)
(* The cards of an agentic board as values: stories are broken down into   *)
(* tasks and tasks into subtasks, only subtasks are executed, and the      *)
(* status of a parent is rolled up from its children.  Every load and save *)
(* of a board normalises it.  (src/crates/iowb-server/src/agentic_board.)  *)
(*                                                                         *)
(* k is the set of cards of a board, a function from their ids to records. *)
(* Titles, prompts, criteria, priorities and ranks are data.  A board has  *)
(* three of the five levels of the code; each level works alike.           *)
(***************************************************************************)
EXTENDS Naturals, FiniteSets, SequencesExt

CONSTANTS Ids,          \* the ids a board may give its cards
          NoCard        \* no id

ASSUME NoCardAssumption == NoCard \notin Ids /\ IsFiniteSet(Ids)

Statuses == {"backlog", "todo", "in_progress", "blocked", "failed", "done"}
Levels == {"story", "task", "subtask"}
Kinds == {"implementation", "fix", "qa", "verdict", "review", "research", "manual_test"}

\* What an error text is recognised as.  "breakdown": a failed breakdown, which
\* may be run again, and "replan" the same when the user asked for it;
\* "provider": a provider or transport problem, which a retry may cure; "defect":
\* anything else.
Reasons == {"none", "dependency", "parent", "planning", "breakdown", "replan",
            "effect", "evidence", "provider", "defect"}

\* The marks work leaves on its card: the files it changed, and the external
\* effects its result reported.
Marks == {"files", "effects"}

Card == [level : Levels, parent : Ids \cup {NoCard}, status : Statuses,
         required : BOOLEAN, kind : Kinds, deps : SUBSET Ids,
         source : Ids \cup {NoCard},  \* the work it checks, fixes or records
         fix : Ids \cup {NoCard},     \* the fix its retry waits for
         why : Reasons,               \* its error
         effects : {"none", "asked", "approved"},  \* external side effects
         accepted : BOOLEAN,          \* research only
         touched : SUBSET Marks,      \* recorded code and external effects
         superseded : BOOLEAN,
         followup : BOOLEAN,          \* a fix that validation asked for
         manual : BOOLEAN,            \* written by the user
         origin : Ids \cup {NoCard},  \* whose breakdown proposed this story
         scope : Nat,                 \* how often its scope was edited
         tries : Nat]

Executable(c) == c.level = "subtask"
NextLevel(l) == IF l = "story" THEN "task" ELSE "subtask"

\* Cards the system adds to check or to mend other work.
Structural(c) == c.kind \in {"qa", "verdict"} \/ c.followup

-----------------------------------------------------------------------------
(* The tree.                                                                *)

ParentOf(k, id) == IF id \in DOMAIN k THEN k[id].parent ELSE NoCard

\* How deep a card may hang, one too many for its level included: a plan that
\* contradicts itself is a state of the program too.
MaxDepth == 4

\* The ancestors of card c, nearest first, and NoCard after the last.
Chain(k, c) ==
    LET second == ParentOf(k, c.parent)
        third == ParentOf(k, second)
    IN  <<c.parent, second, third, ParentOf(k, third)>>

\* None of the ancestors is its own ancestor.
Rooted(k, c) == ParentOf(k, Chain(k, c)[MaxDepth]) = NoCard

Ancestors(k, c) == ToSet(Chain(k, c)) \ {NoCard}

Children(k, id) == {d \in DOMAIN k : k[d].parent = id}

Descendants(k, id) == {d \in DOMAIN k : d = id \/ id \in Ancestors(k, k[d])}
Depth(k, id) == Cardinality(Ancestors(k, k[id]))

\* A done card closes its scope, research once the user has accepted it.
Satisfied(c) == c.status = "done" /\ (c.kind = "research" => c.accepted)

\* No ancestor keeps the card from running: each is approved, or it is complete
\* and the branch below it optional.
Permits(up, below) == IF Satisfied(up) THEN ~below.required /\ ~up.superseded
                      ELSE up.status \in {"todo", "in_progress"}

ChainApproved(k, c, chain) ==
    /\ ParentOf(k, chain[MaxDepth]) = NoCard
    /\ \A n \in 1..MaxDepth : chain[n] # NoCard =>
          /\ chain[n] \in DOMAIN k
          /\ Permits(k[chain[n]], IF n = 1 THEN c ELSE k[chain[n - 1]])

AncestorsApproved(k, c) == ChainApproved(k, c, Chain(k, c))

EffectsApproved(c) == Executable(c) => c.effects # "asked"

Blockers(c) == c.deps \cup ({c.fix} \ {NoCard})
DependencySatisfied(k, d) ==
    d \in DOMAIN k /\ k[d].status = "done" /\ ~k[d].superseded
Unmet(k, id) == {d \in Blockers(k[id]) \ {id} : ~DependencySatisfied(k, d)}

\* Finished research holds all other work until it is accepted.
PendingResearch(k) ==
    {id \in DOMAIN k : /\ Executable(k[id]) /\ k[id].kind = "research"
                       /\ k[id].status = "done" /\ ~k[id].accepted}

Runnable(k, id) ==
    /\ Executable(k[id]) /\ k[id].status = "todo"
    /\ AncestorsApproved(k, k[id])
    /\ EffectsApproved(k[id])
    /\ PendingResearch(k) = {} \/ k[id].kind = "research"

\* The cards the scheduler may pick; which of them, priority and rank say.
Ready(k) == {id \in DOMAIN k : Runnable(k, id) /\ Unmet(k, id) = {}}

-----------------------------------------------------------------------------
(* Statuses of parents.                                                     *)

\* Those of the cards that are approved and wait for nothing.
Eligible(k, ids) ==
    {id \in ids : /\ k[id].status = "todo"
                  /\ AncestorsApproved(k, k[id])
                  /\ Unmet(k, id) = {}
                  /\ Executable(k[id]) =>
                        /\ EffectsApproved(k[id])
                        /\ PendingResearch(k) = {} \/ k[id].kind = "research"}

\* relevant is the required children of p, or all of them if they are optional.
RolledStatus(k, p, relevant, optional, eligible) ==
    LET old == k[p].status
        shelved == \A c \in relevant : k[c].status = "backlog"
        Active(c) == k[c].status = "in_progress" /\ AncestorsApproved(k, k[c])
        Blocked(c) == \/ k[c].status \in {"blocked", "failed"}
                      \/ k[c].status = "done" /\ ~Satisfied(k[c])
                      \/ k[c].status = "todo" /\ c \notin eligible
    IN  IF optional /\ old = "done" THEN "done"
        ELSE IF \A c \in relevant : Satisfied(k[c]) THEN "done"
        ELSE IF eligible # {} \/ \E c \in relevant : Active(c) THEN "in_progress"
        ELSE IF ~optional /\ \A c \in relevant : Satisfied(k[c]) \/ Blocked(c)
        THEN "blocked"
        ELSE IF /\ old \in {"blocked", "failed"} /\ k[p].why # "none"
                /\ optional \/ shelved
        THEN old
        ELSE IF old = "backlog" /\ shelved THEN "backlog"
        ELSE IF optional THEN "done" ELSE "todo"

\* A planning error of a parent that moves again is dropped.
Rolled(c, next) ==
    LET cleared == \/ next = "done"
                   \/ /\ next \in {"in_progress", "todo"}
                      /\ c.why \in {"planning", "breakdown"}
    IN  [c EXCEPT !.status = next, !.why = IF cleared THEN "none" ELSE @]

\* A parent takes the status of its children.
RollUp(k, p, children, required) ==
    LET relevant == IF required = {} THEN children ELSE required
    IN  Rolled(k[p], RolledStatus(k, p, relevant, required = {}, Eligible(k, relevant)))

RequiredChildren(k, p) == {c \in Children(k, p) : k[c].required}

\* The deepest parents first.  Parents of one depth do not read each other,
\* because dependencies are between subtasks here.
RefreshRollups(k) ==
    LET At(deeper, d) ==
            [p \in DOMAIN k |->
                IF ~Executable(k[p]) /\ Depth(k, p) = d /\ Children(k, p) # {}
                THEN RollUp(deeper, p, Children(k, p), RequiredChildren(k, p))
                ELSE deeper[p]]
    IN  At(At(At(k, 2), 1), 0)

-----------------------------------------------------------------------------
(* Normalisation, on every load and save.                                   *)

\* A parent fixes the level of its children, and a root is a story unless the
\* system added it.
LevelBelow(k, c) ==
    CASE c.parent \in DOMAIN k /\ k[c.parent].level # "subtask" ->
            NextLevel(k[c.parent].level)
      [] c.parent = NoCard /\ ~Structural(c) -> "story"
      [] OTHER -> c.level

\* Faulty variant: levels are left as they are.
LeaveLevels(k) == k

Relevel(k) ==
    LET Pass(j) == [id \in DOMAIN j |-> [j[id] EXCEPT !.level = LevelBelow(j, j[id])]]
    IN  Pass(Pass(Pass(k)))

\* Faulty variant: approvals are left as they are.
ReconcileNothing(k) == k

\* Approved work under a parent that is not approved is blocked.
ReconcileApprovals(k) ==
    [id \in DOMAIN k |->
        IF k[id].status \in {"todo", "in_progress"} /\ ~AncestorsApproved(k, k[id])
        THEN [k[id] EXCEPT !.status = "blocked", !.why = "parent"]
        ELSE k[id]]

\* What a load repairs.  The result of a done card passed the evidence gate when
\* the card became done, so there is nothing in it to take back.
Normalize(k) == ReconcileApprovals(Relevel(k))

-----------------------------------------------------------------------------
(* Dependencies and planning errors.                                        *)

WaitsForDependency(c) == c.status = "blocked" /\ c.why = "dependency"

ReconcileDependencies(k) ==
    [id \in DOMAIN k |->
        IF Executable(k[id]) /\ WaitsForDependency(k[id]) /\ Unmet(k, id) = {}
        THEN [k[id] EXCEPT !.status = "todo", !.why = "none"]
        ELSE k[id]]

MarkDependencyBlockers(k) ==
    [id \in DOMAIN k |->
        IF Executable(k[id]) /\ k[id].status = "todo" /\ Unmet(k, id) # {}
        THEN [k[id] EXCEPT !.status = "blocked", !.why = "dependency"]
        ELSE k[id]]

\* Removed cards block those that depend on them.
MarkDeletedDependencies(k, gone) ==
    LET hit == {id \in DOMAIN k : k[id].deps \cap gone # {}}
        marked == [id \in DOMAIN k |->
                      IF id \in hit /\ k[id].status # "done"
                      THEN [k[id] EXCEPT !.status = "blocked", !.why = "dependency"]
                      ELSE k[id]]
    IN  IF hit = {} THEN k ELSE RefreshRollups(marked)

\* The cards a problem with the hierarchy names: those under a parent of the
\* wrong level with that parent, and those on a cycle.
HierarchyIssue(k) ==
    LET misplaced == {id \in DOMAIN k : k[id].parent # NoCard /\
                        \/ k[id].parent \notin DOMAIN k
                        \/ k[k[id].parent].level = "subtask"
                        \/ k[id].level # NextLevel(k[k[id].parent].level)}
        cyclic == {id \in DOMAIN k : ~Rooted(k, k[id])}
    IN  misplaced \cup ({k[id].parent : id \in misplaced} \cap DOMAIN k) \cup cyclic

DependencyIssue(k) ==
    {id \in DOMAIN k : id \in k[id].deps \/ ~(k[id].deps \subseteq DOMAIN k)}

\* The cards that depend on themselves through others.  A retry's fix is not
\* an edge.
DependencyCycle(k) ==
    LET Twice(r) == [id \in DOMAIN k |-> r[id] \cup UNION {r[d] : d \in r[id]}]
        direct == [id \in DOMAIN k |-> k[id].deps \cap DOMAIN k]
        Circular(reach) == {id \in DOMAIN k : id \in reach[id]}
    IN  Circular(Twice(Twice(Twice(direct))))

\* Unfinished cards of a planning error are blocked by it.
MarkPlanningError(k, affected) ==
    [id \in DOMAIN k |->
        IF id \in affected /\ k[id].status # "done"
        THEN [k[id] EXCEPT !.status = "blocked", !.why = "planning"]
        ELSE k[id]]

-----------------------------------------------------------------------------
(* Breaking down.                                                           *)

\* Wrapped proposals count as children of the card they were proposed for.
HasChildren(k, p) == \E id \in DOMAIN k :
    \/ k[id].parent = p /\ k[id].level = NextLevel(k[p].level)
    \/ k[id].origin = p

\* Approved parents without a plan; level and priority say which comes first.
Unplanned(k) == {p \in DOMAIN k : /\ k[p].status = "todo" /\ ~Executable(k[p])
                                  /\ AncestorsApproved(k, k[p])
                                  /\ ~HasChildren(k, p)}

-----------------------------------------------------------------------------
(* Why there is nothing to run.                                             *)

AwaitingEffects(k) ==
    {id \in DOMAIN k : /\ k[id].status = "todo" /\ AncestorsApproved(k, k[id])
                       /\ ~EffectsApproved(k[id])}
MarkEffectBlockers(k) ==
    [id \in DOMAIN k |-> IF id \in AwaitingEffects(k)
                         THEN [k[id] EXCEPT !.status = "blocked", !.why = "effect"]
                         ELSE k[id]]

WaitingOnDependencies(k) == {id \in DOMAIN k : Runnable(k, id) /\ Unmet(k, id) # {}}
DependencyBlocked(k) == {id \in DOMAIN k : Executable(k[id]) /\ WaitsForDependency(k[id])}
Attention(k) == {id \in DOMAIN k : /\ Executable(k[id]) /\ k[id].why # "dependency"
                                   /\ k[id].status \in {"blocked", "failed"}}
BacklogPlanning(k) == {id \in DOMAIN k : ~Executable(k[id]) /\ k[id].status = "backlog"}

WorkIsComplete(k) ==
    LET executables == {id \in DOMAIN k : Executable(k[id])}
        approved == {id \in executables : k[id].status # "backlog"}
    IN  IF executables = {} THEN \E id \in DOMAIN k : k[id].status = "done"
        ELSE approved # {} /\ \A id \in approved : k[id].status = "done"
=============================================================================
