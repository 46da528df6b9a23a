----------------------------- MODULE CardProofs -----------------------------
(***************************************************************************)
(* Proofs about CardAttempt: types, that a card is done and passed only    *)
(* when that was earned, and that a finished group is delivered; and about *)
(* BoardCards, that no request, answer or stale copy loses what must stay  *)
(* on a board.                                                             *)
(*                                                                         *)
(* Each is proved of an inductive invariant of its own.  Known says what   *)
(* the worker and the ledger hold; Evident, what it has seen of the       *)
(* files while nobody else touched them; Delivering, how far a group is on *)
(* its way to the branch it started from, while nobody interferes and no   *)
(* card was retried; Recorded, that a stored board is well formed and its  *)
(* work approved, and that the copy of its worker has all its marks.       *)
(***************************************************************************)
EXTENDS BoardCards, CardAttempt, FiniteSetTheorems, TLAPS

Items == DOMAIN job.cards
Branches == 0..Len(job.cards)
Trees == [Files -> Contents]
Shots == [Files -> [hash : Contents, clean : BOOLEAN, stray : BOOLEAN]]
Histories == [Branches -> Seq(Trees)]

\* The steps at which the worker has a card to work on, and those that end its
\* group.
Working == {"tree", "base", "create", "baseline", "tests", "red", "start",
            "turn", "report", "repair", "check"}
Ending == {"finalize", "back", "merge", "push"}

CardStates == [status : {"todo", "in_progress", "done", "blocked", "failed"},
               passed : BOOLEAN, tests : BOOLEAN, red : BOOLEAN,
               fixes : Nat, tries : Nat]
Entries == [group : Groups,
            status : {"running", "failed", "completed"},
            base : Branches, branch : Branches, commit : BOOLEAN]
Hands == [at : Working \cup Ending \cup {"pick", "off"}, card : Branches,
          mode : {"first", "fallback", "again"},
          answer : TurnAnswers \cup {"none", "tests", "unfinished", "nothing"},
          left : Nat, before : Shots, after : Shots, fell : BOOLEAN,
          found : Trees, wrote : SUBSET Files, calm : BOOLEAN]
Repositories == [branch : Branches, tips : Histories, work : Trees, origin : Histories]
Noises == [edits : Nat, others : Nat, again : Nat]

Typed == /\ job \in Jobs
         /\ state \in [Items -> CardStates]
         /\ ledger \in Seq(Entries)
         /\ hand \in Hands
         /\ git \in Repositories
         /\ noise \in Noises

\* The card at hand is in progress until it is judged, and done after that if
\* the worker goes on to end its group.
HasACard == /\ hand.at \in Working => This \in Items /\ state[This].status = "in_progress"
            /\ hand.at \in Ending => This \in Items /\ state[This].status = "done"

\* Among the entries of a group one is the oldest, the one the code finds.
Oldest(g) == EntriesOf(g) # {} => \E i \in EntriesOf(g) : \A j \in EntriesOf(g) : i <= j
HasOldest == \A g \in Groups : Oldest(g)
HasAnEntry == hand.at \in Ending \cup {"base", "create"} => EntriesOf(ThisGroup) # {}

BranchesExist == IsBranch(0) /\ IsBranch(git.branch)

Known == Typed /\ HasACard /\ HasOldest /\ HasAnEntry /\ BranchesExist

-----------------------------------------------------------------------------
(* What the worker has seen.                                               *)

\* A snapshot of a work tree.
Shown(tree) == [f \in Files |->
                  [hash |-> tree[f],
                   clean |-> ~(TipOf(git.branch)[f] = "none" /\ tree[f] # "none"),
                   stray |-> tree[f] # TipOf(git.branch)[f]
                             /\ ~(TipOf(git.branch)[f] = "none" /\ tree[f] # "none")]]

\* Where tests come first, the work on a card begins after they failed.
TestsCameFirst ==
    /\ hand.at \in {"start", "turn", "report", "repair", "check"}
    /\ NeedsTests(This) /\ job.strict /\ ~job.lenient
    => state[This].tests /\ state[This].red

\* Before the turns are judged: the snapshot taken first shows the files that
\* were found, and those no turn wrote are still as they were.
FoundIsShown ==
    hand.calm /\ hand.at \in {"turn", "report"} =>
       /\ hand.before = Shown(hand.found)
       /\ \A f \in Files \ hand.wrote : git.work[f] = hand.found[f]

\* After they were recorded.
ChangesAreShown ==
    hand.calm /\ hand.at \in {"repair", "check"} =>
       \A f \in Files : /\ hand.before[f].hash = hand.found[f]
                        /\ f \notin hand.wrote => hand.after[f] = hand.before[f]

Evident == TestsCameFirst /\ FoundIsShown /\ ChangesAreShown

-----------------------------------------------------------------------------
(* How far a group is.                                                     *)

Undisturbed == noise.others = 0 /\ noise.again = 0
Unfinished(c) == state[c].status \in {"todo", "in_progress"}

\* A group has one entry, and it fails only when the board stops for it.
OneEntry == \A i, j \in DOMAIN ledger : ledger[i].group = ledger[j].group => i = j
FailureStops ==
    \A i \in DOMAIN ledger : ledger[i].status = "failed" =>
        hand.at = "off" /\ \E c \in Items : GroupOf(c) = ledger[i].group
                                            /\ state[c].status = "blocked"
OnlyManaged == ledger # <<>> => job.managed

\* A new entry has no branch yet, and none had one of its own group before.
BranchIsNew ==
    /\ hand.at = "tree" => job.managed /\ EntriesOf(ThisGroup) = {}
    /\ hand.at \in {"base", "create"} => Entry.branch = 0
    /\ hand.at = "base" => Entry.base = 0

\* The branch of an entry is that of a card of the group, once it is made.
OwnBranch ==
    \A i \in DOMAIN ledger :
        IF ledger[i].branch = 0
        THEN \/ ledger[i].status = "failed"
             \/ hand.at \in {"base", "create"} /\ ledger[i].group = ThisGroup
        ELSE /\ ledger[i].branch \in Items /\ GroupOf(ledger[i].branch) = ledger[i].group
             /\ IsBranch(ledger[i].branch)

\* A group is completed with no card left to do, and the worker begins to end it
\* no earlier.
CompletedIsFinished ==
    \A i \in DOMAIN ledger : ledger[i].status = "completed" =>
        \A c \in Items : GroupOf(c) = ledger[i].group => ~Unfinished(c)
EndingIsFinished ==
    hand.at \in Ending =>
        /\ Entry.status = "running"
        /\ \A c \in Items : GroupOf(c) = ThisGroup => ~Unfinished(c)
\* An open group was left with a card that is not done.
RunningIsUnfinished ==
    hand.at \in {"pick", "off"} /\ hand.card # 0 =>
        \A i \in DOMAIN ledger :
            ledger[i].group = ThisGroup /\ ledger[i].status = "running" =>
                \E c \in Items : GroupOf(c) = ThisGroup /\ state[c].status # "done"

\* An open group has a commit of its own only while it is being ended.
CommitsAtTheEnd ==
    \A i \in DOMAIN ledger : ledger[i].status = "running" /\ ledger[i].commit =>
        hand.at \in {"back", "merge", "push"} /\ ledger[i].group = ThisGroup

Contained(e) == Extends(git.tips[e.base], git.tips[e.branch])
\* Before a group has a commit of its own, its branch is where it started, unless
\* others were merged into it.
StartsAtBase ==
    \A i \in DOMAIN ledger :
        /\ ledger[i].branch # 0 /\ ledger[i].status = "running"
        /\ ~ledger[i].commit /\ ~IsBase(ledger[i])
        => Contained(ledger[i])

\* The end of a group, step by step.
EndsInOrder ==
    /\ hand.at = "back" => git.branch = Entry.branch /\ WorkIsClean
    /\ hand.at \in {"merge", "push"} =>
          git.branch = Entry.base /\ WorkIsClean /\ Entry.commit
    /\ hand.at = "push" => Contained(Entry)

Delivered(e) ==
    /\ WorkIsClean /\ git.branch = e.base
    /\ e.commit => git.origin[e.base] = git.tips[e.base]
    /\ e.commit \/ ~IsBase(e) => Contained(e)
DoneIsDelivered ==
    hand.at \in {"pick", "off"} /\ hand.card # 0 =>
        \A i \in DOMAIN ledger :
            ledger[i].group = ThisGroup /\ ledger[i].status = "completed" =>
                Delivered(ledger[i])

OnItsWay ==
    /\ OneEntry /\ FailureStops /\ OnlyManaged /\ BranchIsNew /\ OwnBranch
    /\ CompletedIsFinished /\ EndingIsFinished /\ RunningIsUnfinished
    /\ CommitsAtTheEnd /\ StartsAtBase /\ EndsInOrder /\ DoneIsDelivered
Delivering == Undisturbed => OnItsWay

-----------------------------------------------------------------------------
(* Jobs, trees and branches.                                               *)

\* What a job is.
LEMMA JobIs ==
    ASSUME job \in Jobs
    PROVE  /\ Len(job.cards) \in Nat /\ Items = 1..Len(job.cards) /\ Items \subseteq Branches
           /\ \A c \in Items : GroupOf(c) \in Groups /\ KindOf(c) \in Making \cup Checking
           /\ job.repairs \in Nat /\ job.hier \in BOOLEAN /\ job.managed \in BOOLEAN
           /\ 0 \in Branches /\ 0 \notin Items
  <1>1. job \in JobType
    BY AttemptAssumption
  <1>2. /\ job.cards \in Seq([kind : Making \cup Checking, group : Groups, root : BOOLEAN])
        /\ job.repairs \in Nat /\ job.hier \in BOOLEAN /\ job.managed \in BOOLEAN
    BY <1>1 DEF JobType
  <1> DEFINE T == [kind : Making \cup Checking, group : Groups, root : BOOLEAN]
  <1>a. job.cards \in Seq(T)
    BY <1>2
  <1> HIDE DEF T
  <1>b. /\ Len(job.cards) \in Nat /\ DOMAIN job.cards = 1..Len(job.cards)
        /\ \A c \in DOMAIN job.cards : job.cards[c] \in T
    BY <1>a
  <1>3. Len(job.cards) \in Nat /\ Items = 1..Len(job.cards)
    BY <1>b DEF Items
  <1>4. \A c \in Items : job.cards[c] \in [kind : Making \cup Checking, group : Groups,
                                          root : BOOLEAN]
    BY <1>b DEF T, Items
  <1>5. \A c \in Items : GroupOf(c) \in Groups /\ KindOf(c) \in Making \cup Checking
    BY <1>4 DEF GroupOf, KindOf
  <1> QED BY <1>2, <1>3, <1>5 DEF Branches

\* The original tree is a tree.
LEMMA OriginalIs == Original \in Trees /\ Tree("theirs", "none") \in Trees
  BY DEF Original, Tree, Trees, Contents, Files

\* The tip of a branch is a tree.
LEMMA TipIs ==
    ASSUME Typed, NEW b \in Branches, IsBranch(b)
    PROVE  TipOf(b) \in Trees /\ git.tips[b] # <<>>
  <1>1. git.tips[b] \in Seq(Trees)
    BY DEF Typed, Repositories, Histories
  <1> QED BY <1>1 DEF TipOf, IsBranch

\* Switching takes the files that differ and leaves the others.
LEMMA SwitchedIs ==
    ASSUME Typed, BranchesExist, NEW b \in Branches, IsBranch(b)
    PROVE  /\ Switched(b) \in Repositories
           /\ Switched(b).branch = b
           /\ Switched(b).tips = git.tips /\ Switched(b).origin = git.origin
           /\ WorkIsClean => Switched(b).work = TipOf(b)
  <1>1. TipOf(b) \in Trees /\ git.branch \in Branches /\ git.work \in Trees
    BY TipIs DEF Typed, Repositories
  <1>2. TipOf(git.branch) \in Trees
    BY <1>1, TipIs DEF BranchesExist
  <1> DEFINE w == [f \in Files |-> IF TipOf(b)[f] = TipOf(git.branch)[f]
                                   THEN git.work[f] ELSE TipOf(b)[f]]
  <1>3. w \in Trees
    BY <1>1 DEF Trees
  <1>4. WorkIsClean => w = TipOf(b)
    <2> SUFFICES ASSUME WorkIsClean PROVE \A f \in Files : w[f] = TipOf(b)[f]
      BY <1>1, <1>3 DEF Trees
    <2> QED BY DEF WorkIsClean
  <1>5. Switched(b) = [git EXCEPT !.branch = b, !.work = w]
    BY DEF Switched
  <1> HIDE DEF w
  <1> QED BY <1>3, <1>4, <1>5 DEF Typed, Repositories

\* A commit adds the work tree to the branch.
LEMMA CommittedIs ==
    ASSUME Typed, BranchesExist
    PROVE  /\ Committed \in Repositories
           /\ Committed.branch = git.branch /\ Committed.work = git.work
           /\ Committed.origin = git.origin
           /\ Committed.tips = [git.tips EXCEPT ![git.branch] = Append(@, git.work)]
           /\ Len(Committed.tips[git.branch]) > 0
           /\ Committed.tips[git.branch][Len(Committed.tips[git.branch])] = git.work
           /\ \A b \in Branches \ {git.branch} : Committed.tips[b] = git.tips[b]
  <1>1. /\ git.branch \in Branches /\ git.work \in Trees
        /\ git.tips \in [Branches -> Seq(Trees)]
    BY DEF Typed, Repositories, Histories
  <1>2. git.tips[git.branch] \in Seq(Trees)
    BY <1>1
  <1>3. /\ Append(git.tips[git.branch], git.work) \in Seq(Trees)
        /\ LET s == Append(git.tips[git.branch], git.work)
           IN  Len(s) > 0 /\ s[Len(s)] = git.work
    BY <1>1, <1>2
  <1> DEFINE t == [git.tips EXCEPT ![git.branch] = Append(@, git.work)]
  <1>4. t \in Histories /\ t[git.branch] = Append(git.tips[git.branch], git.work)
        /\ \A b \in Branches \ {git.branch} : t[b] = git.tips[b]
    BY <1>1, <1>3 DEF Histories
  <1>5. Committed = [git EXCEPT !.tips = t]
    BY DEF Committed
  <1> HIDE DEF t
  <1>6. Committed \in Repositories /\ Committed.branch = git.branch
        /\ Committed.work = git.work /\ Committed.origin = git.origin /\ Committed.tips = t
    BY <1>4, <1>5 DEF Typed, Repositories
  <1> QED BY <1>3, <1>4, <1>6 DEF t

\* A snapshot has its type.
LEMMA SnapshotIs ==
    ASSUME Typed, BranchesExist
    PROVE  Snapshot \in Shots /\ Snapshot = Shown(git.work)
  <1>1. git.work \in Trees
    BY DEF Typed, Repositories
  <1>2. Snapshot \in Shots
    BY <1>1 DEF Snapshot, Shots, Trees, Untracked, Modified
  <1>3. Snapshot = Shown(git.work)
    BY DEF Snapshot, Shown, Untracked, Modified
  <1> QED BY <1>2, <1>3

-----------------------------------------------------------------------------
(* The worker's moves and the ledger.                                      *)

\* What it holds between cards is of the right type.
LEMMA RestingIs ==
    ASSUME Typed
    PROVE  /\ Resting \in Hands /\ Resting.calm = TRUE /\ Resting.card = 0
           /\ Resting.at = "off"
  <1>1. NoShot \in Shots
    BY DEF NoShot, Shots, Contents
  <1>2. 0 \in Branches
    BY JobIs DEF Typed
  <1> QED BY <1>1, <1>2, OriginalIs DEF Resting, Hands

\* The worker goes to another step with the same card.
LEMMA GoesTo ==
    ASSUME Typed, NEW step \in Working \cup Ending \cup {"pick", "off"}, GoTo(step)
    PROVE  /\ hand' \in Hands /\ hand'.at = step /\ hand'.card = hand.card
           /\ step \notin {"pick", "off"} =>
                /\ hand'.answer = hand.answer /\ hand'.before = hand.before
                /\ hand'.after = hand.after /\ hand'.found = hand.found
                /\ hand'.wrote = hand.wrote /\ hand'.calm = hand.calm
  <1>1. hand \in Hands
    BY DEF Typed
  <1>2. CASE step \in {"pick", "off"}
    <2>1. hand' = [Resting EXCEPT !.at = step, !.card = hand.card, !.fell = hand.fell]
      BY <1>2 DEF GoTo
    <2> QED BY <1>1, <1>2, <2>1, RestingIs DEF Hands
  <1>3. CASE step \notin {"pick", "off"}
    BY <1>1, <1>3 DEF GoTo, Hands
  <1> QED BY <1>2, <1>3

\* The oldest entry of a group.
LEMMA OldestIs ==
    ASSUME Typed, HasOldest, NEW g \in Groups, EntriesOf(g) # {}
    PROVE  EntryOf(g) \in DOMAIN ledger /\ ledger[EntryOf(g)].group = g
           /\ ledger[EntryOf(g)] \in Entries
  <1>1. PICK i \in EntriesOf(g) : \A j \in EntriesOf(g) : i <= j
    BY DEF HasOldest, Oldest
  <1>2. /\ i \in DOMAIN ledger /\ ledger[i].group = g
        /\ \A j \in DOMAIN ledger : ledger[j].group = g => i <= j
    BY <1>1 DEF EntriesOf
  <1>3. EntryOf(g) \in DOMAIN ledger /\ ledger[EntryOf(g)].group = g
    BY <1>2 DEF EntryOf, OldestIn
  <1>4. ledger \in Seq(Entries)
    BY DEF Typed
  <1> QED BY <1>3, <1>4

-----------------------------------------------------------------------------
(* The worker's cards and the ledger, at each step.                        *)

\* Entries keep their groups, whatever else becomes of them.
LedgerKeeps ==
    /\ ledger' \in Seq(Entries) /\ DOMAIN ledger' = DOMAIN ledger
    /\ \A i \in DOMAIN ledger : ledger'[i].group = ledger[i].group

\* A step that keeps the groups of all entries.
LEMMA KnownFrom ==
    ASSUME Known, job' = job, state' \in [Items -> CardStates], LedgerKeeps,
           hand' \in Hands, git' \in Repositories, noise' \in Noises,
           HasACard', HasAnEntry', BranchesExist'
    PROVE  Known' /\ \A g \in Groups : EntriesOf(g)' = EntriesOf(g)
  <1>1. \A g \in Groups : EntriesOf(g)' = EntriesOf(g)
    BY DEF EntriesOf, LedgerKeeps
  <1>2. HasOldest'
    BY <1>1 DEF Known, HasOldest, Oldest
  <1>3. Typed'
    BY DEF Known, Typed, LedgerKeeps, Items, Branches, CardStates, Entries, Hands,
           Repositories, Noises, Histories
  <1> QED BY <1>1, <1>2, <1>3 DEF Known

\* An entry of the card's group is replaced.
LEMMA EntrySet ==
    ASSUME Known, This \in Items, EntriesOf(ThisGroup) # {}, NEW e \in Entries,
           e.group = ThisGroup, SetEntry(e)
    PROVE  /\ LedgerKeeps /\ EntryOf(ThisGroup) \in DOMAIN ledger
           /\ ledger'[EntryOf(ThisGroup)] = e
           /\ \A i \in DOMAIN ledger \ {EntryOf(ThisGroup)} : ledger'[i] = ledger[i]
  <1>1. ThisGroup \in Groups
    BY JobIs DEF Known, Typed, ThisGroup
  <1>2. EntryOf(ThisGroup) \in DOMAIN ledger /\ Entry.group = ThisGroup
    BY <1>1, OldestIs DEF Known, Entry
  <1>3. ledger \in Seq(Entries)
    BY DEF Known, Typed
  <1> QED BY <1>2, <1>3 DEF SetEntry, LedgerKeeps, Entry

\* One element of a sequence is replaced, if there is one.
LEMMA Replaced ==
    ASSUME NEW S, NEW l \in Seq(S), NEW o, NEW m, o \in DOMAIN l => m \in S,
           NEW k, k = [l EXCEPT ![o] = m]
    PROVE  /\ k \in Seq(S) /\ DOMAIN k = DOMAIN l
           /\ \A i \in DOMAIN l : l[i] \in S /\ k[i] = IF i = o THEN m ELSE l[i]
  <1>1. \A i \in DOMAIN l : l[i] \in S
    OBVIOUS
  <1>2. CASE o \in DOMAIN l
    BY <1>1, <1>2
  <1>3. CASE o \notin DOMAIN l
    <2>1. l \in [1..Len(l) -> S] /\ DOMAIN l = 1..Len(l)
      OBVIOUS
    <2>2. k \in [1..Len(l) -> S] /\ \A i \in 1..Len(l) : k[i] = l[i]
      BY <1>1, <1>3, <2>1
    <2>3. k = l
      BY <2>1, <2>2
    <2> QED BY <1>1, <1>3, <2>3
  <1> QED BY <1>2, <1>3

\* git fails: the board stops, the card is blocked, and the oldest entry of its
\* group is marked.
LEMMA FailureIs ==
    ASSUME Known, This \in Items, NEW l \in Seq(Entries), GitFails(l)
    PROVE  /\ state' \in [Items -> CardStates] /\ state'[This].status = "blocked"
           /\ \A c \in Items \ {This} : state'[c] = state[c]
           /\ hand' \in Hands /\ hand'.at = "off" /\ hand'.card = hand.card
           /\ ledger' \in Seq(Entries) /\ DOMAIN ledger' = DOMAIN l
           /\ \A i \in DOMAIN l :
                 ledger'[i] = IF i = OldestIn(l, ThisGroup)
                              THEN [l[i] EXCEPT !.status = "failed"] ELSE l[i]
           /\ \A i \in DOMAIN l : ledger'[i].group = l[i].group
           /\ git' = git
  <1>1. hand' \in Hands /\ hand'.at = "off" /\ hand'.card = hand.card
    BY GoesTo DEF GitFails, Known
  <1>2. state \in [Items -> CardStates]
    BY DEF Known, Typed
  <1> DEFINE k == [state[This] EXCEPT !.status = "blocked",
                      !.passed = hand.at \notin {"tree", "base", "create"} /\ @]
  <1>3. k \in CardStates /\ k.status = "blocked"
    BY <1>2 DEF CardStates
  <1>4. state' = [state EXCEPT ![This] = k]
    BY <1>2 DEF GitFails, CardStates
  <1> HIDE DEF k
  <1>5. state' \in [Items -> CardStates] /\ state'[This].status = "blocked"
        /\ \A c \in Items \ {This} : state'[c] = state[c]
    BY <1>2, <1>3, <1>4
  <1>6. ledger' = [l EXCEPT ![OldestIn(l, ThisGroup)].status = "failed"]
    BY DEF GitFails
  <1> DEFINE o == OldestIn(l, ThisGroup)
             m == [l[o] EXCEPT !.status = "failed"]
  <1>7. o \in DOMAIN l => m \in Entries /\ m.group = l[o].group
    <2>1. o \in DOMAIN l => l[o] \in Entries
      BY Replaced
    <2> QED BY <2>1 DEF Entries
  <1>8. ledger' = [l EXCEPT ![o] = m]
    BY <1>6
  <1> HIDE DEF o, m
  <1>9. /\ ledger' \in Seq(Entries) /\ DOMAIN ledger' = DOMAIN l
        /\ \A i \in DOMAIN l : ledger'[i] = IF i = o THEN m ELSE l[i]
    BY <1>7, <1>8, Replaced
  <1>10. \A i \in DOMAIN l : ledger'[i].group = l[i].group
    BY <1>7, <1>9
  <1> QED BY <1>1, <1>5, <1>9, <1>10 DEF GitFails, o, m

\* A failure of git keeps what is known.
LEMMA FailureKnown ==
    ASSUME Known, This \in Items, GitFails(ledger), Stay
    PROVE  Known' /\ \A g \in Groups : EntriesOf(g)' = EntriesOf(g)
  <1>1. ledger \in Seq(Entries)
    BY DEF Known, Typed
  <1>2. /\ state' \in [Items -> CardStates] /\ hand' \in Hands /\ hand'.at = "off"
        /\ LedgerKeeps /\ git' = git
    BY <1>1, FailureIs DEF LedgerKeeps
  <1>3. HasACard' /\ HasAnEntry'
    BY <1>2 DEF HasACard, HasAnEntry, Working, Ending
  <1>4. BranchesExist'
    BY <1>2 DEF Known, BranchesExist, IsBranch
  <1> QED BY <1>2, <1>3, <1>4, KnownFrom DEF Stay, Known, Typed

\* The card at hand gets a new state, and nothing else changes but the worker.
LEMMA CardKnown ==
    ASSUME Known, job' = job, state' \in [Items -> CardStates], hand' \in Hands,
           UNCHANGED <<ledger, git>>, noise' \in Noises, HasACard', HasAnEntry'
    PROVE  Known' /\ \A g \in Groups : EntriesOf(g)' = EntriesOf(g)
  <1>1. LedgerKeeps
    BY DEF LedgerKeeps, Known, Typed
  <1>2. git' \in Repositories /\ BranchesExist'
    BY DEF Known, Typed, BranchesExist, IsBranch
  <1> QED BY <1>1, <1>2, KnownFrom

\* A card is settled, and the worker takes the next.
LEMMA SettledKnown ==
    ASSUME Known, Stay, UNCHANGED <<ledger, git>>, This \in Items,
           NEW k \in CardStates, SettleAs(k)
    PROVE  /\ Known' /\ hand'.at = "pick" /\ hand'.card = hand.card
           /\ state'[This] = k /\ \A c \in Items \ {This} : state'[c] = state[c]
  <1>1. hand' \in Hands /\ hand'.at = "pick" /\ hand'.card = hand.card
    BY GoesTo DEF SettleAs, Known
  <1>2. state \in [Items -> CardStates] /\ noise \in Noises
    BY DEF Known, Typed
  <1>3. /\ state' \in [Items -> CardStates] /\ state'[This] = k
        /\ \A c \in Items \ {This} : state'[c] = state[c]
    BY <1>2 DEF SettleAs
  <1>4. HasACard' /\ HasAnEntry'
    BY <1>1 DEF HasACard, HasAnEntry, Working, Ending
  <1> QED BY <1>1, <1>2, <1>3, <1>4, CardKnown DEF Stay

-----------------------------------------------------------------------------
(* Every step keeps what is known.                                         *)

\* Picking a card keeps what is known.
LEMMA PickKnown ==
    ASSUME Known, PickCard
    PROVE  Known'
  <1>1. state \in [Items -> CardStates] /\ hand \in Hands /\ noise \in Noises /\ Typed
    BY DEF Known, Typed
  <1>2. UNCHANGED <<job, noise, ledger, git>>
    BY Zenon DEF PickCard, Stay
  <1>3. ASSUME NEW c \in Items, Picks(c)
        PROVE  Known'
    <2> DEFINE k == [state[c] EXCEPT !.status = "in_progress", !.tries = @ + 1]
               s == IF NeedsBranch(c) THEN "tree" ELSE AfterBranch(c)
    <2>1. state[c] \in CardStates
      BY <1>1
    <2>2. k \in CardStates /\ k.status = "in_progress"
      <3>1. state[c].tries \in Nat
        BY <2>1 DEF CardStates
      <3>2. state[c].tries + 1 \in Nat
        BY <3>1
      <3> DEFINE n == state[c].tries + 1
      <3> HIDE DEF n
      <3>3. n \in Nat
        BY <3>2 DEF n
      <3>4. [state[c] EXCEPT !.status = "in_progress", !.tries = n] \in CardStates
        BY <2>1, <3>3 DEF CardStates
      <3> QED BY <2>1, <3>4 DEF CardStates, n
    <2>3. state' = [state EXCEPT ![c] = k]
      BY <1>3 DEF Picks
    <2>a. hand' = [Resting EXCEPT !.at = s, !.card = c, !.fell = hand.fell]
      BY <1>3 DEF Picks
    <2>b. s \in {"tree", "baseline", "start"}
      BY DEF AfterBranch
    <2> HIDE DEF k, s
    <2>4. state' \in [Items -> CardStates] /\ state'[c].status = "in_progress"
      BY <1>1, <2>2, <2>3
    <2>5. c \in Branches /\ Resting \in Hands
      BY <1>1, RestingIs, JobIs DEF Typed
    <2>6. hand' \in Hands /\ hand'.at \in {"tree", "baseline", "start"} /\ hand'.card = c
      BY <1>1, <2>5, <2>a, <2>b DEF Hands, Working
    <2>7. HasACard' /\ HasAnEntry'
      BY <1>2, <2>4, <2>6 DEF HasACard, HasAnEntry, Ending, This, Items
    <2> QED BY <1>1, <1>2, <2>4, <2>6, <2>7, CardKnown
  <1>4. CASE GoTo("off") /\ UNCHANGED state
    <2>1. hand' \in Hands /\ hand'.at = "off"
      BY <1>1, <1>4, GoesTo
    <2>2. HasACard' /\ HasAnEntry'
      BY <2>1 DEF HasACard, HasAnEntry, Working, Ending
    <2> QED BY <1>1, <1>2, <1>4, <2>1, <2>2, CardKnown
  <1>5. \/ \E c \in DOMAIN state : Picks(c)
        \/ GoTo("off") /\ UNCHANGED state
    BY Zenon DEF PickCard
  <1> QED BY <1>1, <1>3, <1>4, <1>5

\* A step that leaves the cards alone, or a card in progress.
LEMMA MoveKnown ==
    ASSUME Known, Stay, UNCHANGED <<state, ledger, git>>, hand' \in Hands,
           hand'.card = hand.card,
           hand.at \in Working /\ hand'.at \in Working \ {"base", "create"}
    PROVE  Known'
  <1>1. HasACard' /\ HasAnEntry'
    BY DEF Known, HasACard, HasAnEntry, Stay, This, Items, Working, Ending
  <1>2. noise' \in Noises /\ state' \in [Items -> CardStates]
    BY DEF Known, Typed, Stay
  <1> QED BY <1>1, <1>2, CardKnown DEF Stay

\* So do the tests before the work, and the first look at the files.
LEMMA BaselineKnown ==
    ASSUME Known, UseBaseline \/ TestsAnswered \/ RunBaseline \/ TakeSnapshot
    PROVE  Known'
  <1>1. /\ Typed /\ hand \in Hands /\ state \in [Items -> CardStates]
    BY DEF Known, Typed
  <1>a. hand.at \in {"baseline", "tests", "red", "start"}
    BY Zenon DEF UseBaseline, TestsAnswered, RunBaseline, TakeSnapshot
  <1>b. hand.at \in Working
    BY <1>a DEF Working
  <1>2. This \in Items /\ state[This] \in CardStates /\ state[This].status = "in_progress"
    BY <1>1, <1>b DEF Known, HasACard
  <1>3. Stay /\ UNCHANGED <<ledger, git>>
    BY Zenon DEF UseBaseline, TestsAnswered, RunBaseline, TakeSnapshot
  <1>4. \A s \in {"start", "tests"} : s \in Working \ {"base", "create"}
    BY DEF Working
  <1>5. CASE UseBaseline
    <2>1. CASE SettleAs([state[This] EXCEPT !.status = "blocked"])
      <3>1. [state[This] EXCEPT !.status = "blocked"] \in CardStates
        BY <1>2 DEF CardStates
      <3> QED BY <1>2, <1>3, <2>1, <3>1, SettledKnown
    <2>2. CASE \E s \in {"start", "tests"} : GoTo(s) /\ UNCHANGED state
      <3>1. PICK s \in {"start", "tests"} : GoTo(s) /\ UNCHANGED state
        BY <2>2
      <3>2. s \in Working \ {"base", "create"}
        BY <1>4
      <3>3. hand' \in Hands /\ hand'.at = s /\ hand'.card = hand.card
        BY <1>1, <3>1, <3>2, GoesTo
      <3> QED BY <1>1, <1>b, <1>3, <3>1, <3>2, <3>3, MoveKnown
    <2> QED BY <1>5, <2>1, <2>2 DEF UseBaseline
  <1>6. CASE TestsAnswered
    <2>1. PICK got \in {"tests", "unfinished", "nothing"} :
             hand' = [hand EXCEPT !.at = "red", !.answer = got]
      BY <1>6 DEF TestsAnswered
    <2>2. hand' \in Hands /\ hand'.card = hand.card
          /\ hand'.at \in Working \ {"base", "create"}
      BY <1>1, <2>1 DEF Hands, Working
    <2> QED BY <1>1, <1>b, <1>3, <1>6, <2>2, MoveKnown DEF TestsAnswered
  <1>7. CASE RunBaseline
    <2>1. PICK late \in BOOLEAN :
          LET commands == hand.answer # "nothing"
              failed == commands /\ (late \/ ~TestsPass)
          IN  \/ /\ state' = [state EXCEPT ![This] =
                                  [state[This] EXCEPT !.tests = commands, !.red = failed]]
                 /\ GoTo("start")
              \/ SettleAs([state[This] EXCEPT !.status = "blocked", !.passed = FALSE,
                                              !.tests = commands, !.red = failed])
      BY <1>7, Zenon DEF RunBaseline
    <2> DEFINE t == hand.answer # "nothing"
               r == t /\ (late \/ ~TestsPass)
               k == [state[This] EXCEPT !.tests = t, !.red = r]
               s == [state[This] EXCEPT !.status = "blocked", !.passed = FALSE,
                                        !.tests = t, !.red = r]
    <2> t \in BOOLEAN /\ r \in BOOLEAN
      OBVIOUS
    <2> HIDE DEF t, r
    <2>2. k \in CardStates /\ k.status = "in_progress" /\ s \in CardStates
      BY <1>2 DEF CardStates
    <2>3. CASE /\ state' = [state EXCEPT ![This] = [state[This] EXCEPT !.tests = t, !.red = r]]
               /\ GoTo("start")
      <3>1. state' = [state EXCEPT ![This] = k]
        BY <2>3
      <3> HIDE DEF k
      <3>2. state' \in [Items -> CardStates] /\ state'[This].status = "in_progress"
        BY <1>1, <1>2, <2>2, <3>1
      <3>3. hand' \in Hands /\ hand'.at = "start" /\ hand'.card = hand.card
        BY <1>1, <1>4, <2>3, GoesTo
      <3>4. HasACard' /\ HasAnEntry'
        BY <1>2, <1>3, <3>2, <3>3 DEF HasACard, HasAnEntry, Ending, This, Items, Stay
      <3> QED BY <1>1, <1>3, <3>2, <3>3, <3>4, CardKnown DEF Stay, Typed
    <2>4. CASE SettleAs(s)
      <3> HIDE DEF s
      <3> QED BY <1>2, <1>3, <2>2, <2>4, SettledKnown
    <2> QED BY <2>1, <2>3, <2>4 DEF t, r
  <1>8. CASE TakeSnapshot
    <2>1. hand' = [hand EXCEPT !.at = "turn", !.mode = "first", !.left = job.repairs,
                            !.before = Snapshot, !.found = git.work]
      BY <1>8 DEF TakeSnapshot
    <2>2. Snapshot \in Shots /\ job.repairs \in Nat /\ git.work \in Trees
      BY SnapshotIs, JobIs DEF Known, Typed, Repositories
    <2>3. hand' \in Hands /\ hand'.card = hand.card
          /\ hand'.at \in Working \ {"base", "create"}
      BY <1>1, <2>1, <2>2 DEF Hands, Working
    <2> QED BY <1>1, <1>b, <1>3, <1>8, <2>3, MoveKnown DEF TakeSnapshot
  <1> QED BY <1>5, <1>6, <1>7, <1>8

\* What the provider's edits change: one file, and which files were written.
LEMMA EditsKnown ==
    ASSUME Known, ProviderEdits
    PROVE  /\ Known' /\ UNCHANGED <<job, state, ledger>>
           /\ hand'.at = hand.at /\ hand'.card = hand.card /\ hand'.calm = hand.calm
           /\ hand'.before = hand.before /\ hand'.after = hand.after
           /\ hand'.found = hand.found
           /\ git'.tips = git.tips /\ git'.branch = git.branch /\ git'.origin = git.origin
           /\ noise'.others = noise.others /\ noise'.again = noise.again
           /\ \E f \in Files, v \in Contents :
                 /\ git'.work = [git.work EXCEPT ![f] = v]
                 /\ hand'.wrote = IF hand.at = "turn" THEN hand.wrote \cup {f}
                                  ELSE hand.wrote
  <1>1. hand \in Hands /\ git \in Repositories /\ noise \in Noises
        /\ ledger \in Seq(Entries)
    BY DEF Known, Typed
  <1>2. PICK f \in Files, v \in {"new", "broken"} :
          /\ git' = [git EXCEPT !.work[f] = v]
          /\ hand' = [hand EXCEPT !.wrote = IF hand.at = "turn" THEN @ \cup {f} ELSE @]
    BY DEF ProviderEdits
  <1>3. v \in Contents
    BY DEF Contents
  <1>4. /\ git' \in Repositories /\ git'.work = [git.work EXCEPT ![f] = v]
        /\ git'.tips = git.tips /\ git'.branch = git.branch /\ git'.origin = git.origin
    BY <1>1, <1>2, <1>3 DEF Repositories, Trees
  <1>5. /\ hand' \in Hands /\ hand'.at = hand.at /\ hand'.card = hand.card
        /\ hand'.calm = hand.calm /\ hand'.before = hand.before /\ hand'.after = hand.after
        /\ hand'.found = hand.found
        /\ hand'.wrote = IF hand.at = "turn" THEN hand.wrote \cup {f} ELSE hand.wrote
    BY <1>1, <1>2 DEF Hands
  <1>6. /\ noise' \in Noises /\ noise'.others = noise.others /\ noise'.again = noise.again
        /\ UNCHANGED <<job, state, ledger>>
    BY <1>1 DEF ProviderEdits, Noises
  <1>7. HasACard' /\ HasAnEntry' /\ LedgerKeeps
    BY <1>1, <1>5, <1>6 DEF Known, HasACard, HasAnEntry, This, Items, ThisGroup,
       EntriesOf, LedgerKeeps, GroupOf
  <1>8. BranchesExist'
    BY <1>4 DEF Known, BranchesExist, IsBranch
  <1>9. state' \in [Items -> CardStates]
    BY <1>6 DEF Known, Typed
  <1> QED BY <1>2, <1>3, <1>4, <1>5, <1>6, <1>7, <1>8, <1>9, KnownFrom

-----------------------------------------------------------------------------
(* Steps of git.                                                           *)

\* What a step of git starts from.
LEMMA AtGit ==
    ASSUME Known, hand.at \in Ending \cup {"base", "create"}
    PROVE  /\ This \in Items /\ ThisGroup \in Groups /\ EntriesOf(ThisGroup) # {}
           /\ EntryOf(ThisGroup) \in DOMAIN ledger /\ Entry \in Entries
           /\ Entry.group = ThisGroup /\ Entry = ledger[EntryOf(ThisGroup)]
           /\ Entry.base \in Branches /\ Entry.branch \in Branches
  <1>1. This \in Items
    BY DEF Known, HasACard, Working, Ending
  <1>2. ThisGroup \in Groups /\ EntriesOf(ThisGroup) # {}
    BY <1>1, JobIs DEF Known, HasAnEntry, Typed, ThisGroup
  <1>3. EntryOf(ThisGroup) \in DOMAIN ledger /\ Entry.group = ThisGroup /\ Entry \in Entries
    BY <1>2, OldestIs DEF Known, Entry
  <1>4. Entry.base \in Branches /\ Entry.branch \in Branches
    BY <1>3 DEF Entries
  <1> QED BY <1>1, <1>2, <1>3, <1>4 DEF Entry

\* A step of git that succeeds.
LEMMA GitKnown ==
    ASSUME Known, hand.at \in Ending \cup {"base", "create"}, Stay, UNCHANGED state,
           git' \in Repositories, BranchesExist', LedgerKeeps,
           NEW step \in Working \cup Ending \cup {"pick", "off"}, GoTo(step),
           hand.at \in Ending => step \notin Working,
           hand.at \notin Ending => step \notin Ending
    PROVE  /\ Known' /\ hand'.at = step /\ hand'.card = hand.card
           /\ \A g \in Groups : EntriesOf(g)' = EntriesOf(g)
  <1>1. hand' \in Hands /\ hand'.at = step /\ hand'.card = hand.card
    BY GoesTo DEF Known
  <1>2. This \in Items /\ ThisGroup \in Groups /\ EntriesOf(ThisGroup) # {}
    BY AtGit
  <1>3. HasACard'
    BY <1>1, <1>2 DEF Known, HasACard, Stay, This, Items, Working, Ending
  <1>4. ThisGroup' = ThisGroup /\ EntriesOf(ThisGroup)' # {}
    BY <1>1, <1>2 DEF Stay, This, ThisGroup, GroupOf, EntriesOf, LedgerKeeps
  <1>5. HasAnEntry'
    BY <1>4 DEF HasAnEntry
  <1>6. state' \in [Items -> CardStates] /\ noise' \in Noises
    BY DEF Known, Typed, Stay
  <1> QED BY <1>1, <1>3, <1>5, <1>6, KnownFrom DEF Stay

\* What CheckTree writes.
NewEntry == [group |-> ThisGroup, status |-> "running", base |-> 0, branch |-> 0,
             commit |-> FALSE]

\* The ledger with a new entry.
LEMMA NewEntryIs ==
    ASSUME Known, This \in Items
    PROVE  /\ NewEntry \in Entries /\ NewEntry.group = ThisGroup
           /\ ThisGroup \in Groups
           /\ Append(ledger, NewEntry) \in Seq(Entries)
           /\ Len(ledger) \in Nat /\ DOMAIN ledger = 1..Len(ledger)
           /\ DOMAIN Append(ledger, NewEntry) = 1..(Len(ledger) + 1)
           /\ \A i \in DOMAIN ledger : Append(ledger, NewEntry)[i] = ledger[i]
           /\ Append(ledger, NewEntry)[Len(ledger) + 1] = NewEntry
  <1>1. ThisGroup \in Groups /\ 0 \in Branches
    BY JobIs DEF Known, Typed, ThisGroup
  <1>2. NewEntry \in Entries /\ NewEntry.group = ThisGroup
    BY <1>1 DEF NewEntry, Entries
  <1>3. ledger \in Seq(Entries)
    BY DEF Known, Typed
  <1> QED BY <1>1, <1>2, <1>3

\* The check of the work tree adds an entry, and may fail.
LEMMA TreeKnown ==
    ASSUME Known, CheckTree
    PROVE  /\ Known' /\ git' = git /\ Stay /\ hand'.card = hand.card
           /\ DOMAIN ledger' = 1..(Len(ledger) + 1)
           /\ \/ /\ hand'.at = "base" /\ ledger' = Append(ledger, NewEntry)
                 /\ state' = state
              \/ GitFails(Append(ledger, NewEntry))
  <1> DEFINE l == Append(ledger, NewEntry)
  <1>1. This \in Items /\ Typed /\ hand.at = "tree"
    BY DEF Known, HasACard, Working, CheckTree
  <1>2. /\ l \in Seq(Entries) /\ DOMAIN l = 1..(Len(ledger) + 1)
        /\ \A i \in DOMAIN ledger : l[i] = ledger[i]
        /\ l[Len(ledger) + 1].group = ThisGroup /\ ThisGroup \in Groups
        /\ DOMAIN ledger = 1..Len(ledger) /\ Len(ledger) \in Nat
    BY <1>1, NewEntryIs
  <1>3. Stay /\ \/ ledger' = l /\ GoTo("base") /\ UNCHANGED <<state, git>>
                \/ GitFails(l)
    BY DEF CheckTree, NewEntry
  <1>4. ledger' \in Seq(Entries) /\ DOMAIN ledger' = 1..(Len(ledger) + 1)
        /\ (\A i \in DOMAIN ledger' : ledger'[i].group = l[i].group)
        /\ git' = git /\ hand' \in Hands /\ hand'.card = hand.card
        /\ hand'.at \in {"base", "off"} /\ state' \in [Items -> CardStates]
        /\ (hand'.at = "base" => state' = state)
    <2>1. CASE ledger' = l /\ GoTo("base") /\ UNCHANGED <<state, git>>
      <3>1. hand' \in Hands /\ hand'.at = "base" /\ hand'.card = hand.card
        BY <1>1, <2>1, GoesTo DEF Working
      <3> QED BY <1>1, <1>2, <2>1, <3>1 DEF Typed
    <2>2. CASE GitFails(l)
      <3> HIDE DEF l
      <3> QED BY <1>1, <1>2, <2>2, FailureIs
    <2> QED BY <1>3, <2>1, <2>2
  <1>5. \A g \in Groups : Oldest(g)'
    <2> SUFFICES ASSUME NEW g \in Groups, EntriesOf(g)' # {} PROVE Oldest(g)'
      BY DEF Oldest
    <2> DEFINE n == Len(ledger) + 1
    <2>1. EntriesOf(g)' = EntriesOf(g) \cup (IF g = ThisGroup THEN {n} ELSE {})
      BY <1>2, <1>4 DEF EntriesOf
    <2>2. EntriesOf(g) \subseteq 1..Len(ledger)
      BY <1>2 DEF EntriesOf
    <2>3. CASE EntriesOf(g) = {}
      BY <1>2, <2>1, <2>3 DEF Oldest
    <2>4. CASE EntriesOf(g) # {}
      <3>1. PICK i \in EntriesOf(g) : \A j \in EntriesOf(g) : i <= j
        BY <2>4 DEF Known, HasOldest, Oldest
      <3> QED BY <1>2, <2>1, <2>2, <3>1 DEF Oldest
    <2> QED BY <2>3, <2>4
  <1>6. HasOldest'
    BY <1>5 DEF HasOldest
  <1>7. HasACard'
    BY <1>1, <1>3, <1>4 DEF Known, HasACard, Working, Ending, This, Items, Stay
  <1>8. HasAnEntry'
    <2>1. Len(ledger) + 1 \in DOMAIN ledger'
          /\ ledger'[Len(ledger) + 1].group = ThisGroup
      BY <1>2, <1>4
    <2>2. ThisGroup' = ThisGroup
      BY <1>3, <1>4 DEF ThisGroup, This, GroupOf, Stay
    <2> QED BY <2>1, <2>2 DEF HasAnEntry, EntriesOf
  <1>9. Typed'
    BY <1>1, <1>3, <1>4 DEF Stay, Typed, Items, Branches, CardStates, Entries, Hands,
           Repositories, Noises, Histories
  <1>10. BranchesExist'
    BY <1>4 DEF Known, BranchesExist, IsBranch
  <1>11. hand'.at = "base" => ledger' = l
    <2>1. GitFails(l) => hand'.at = "off"
      <3> HIDE DEF l
      <3> QED BY <1>1, <1>2, FailureIs
    <2> QED BY <1>3, <2>1
  <1>12. \/ hand'.at = "base" /\ ledger' = l /\ state' = state
         \/ GitFails(l)
    <2>1. GoTo("base") => hand'.at = "base"
      BY <1>1, GoesTo DEF Working
    <2> QED BY <1>3, <2>1
  <1> QED BY <1>3, <1>4, <1>6, <1>7, <1>8, <1>9, <1>10, <1>12 DEF Known

\* The base of the group becomes the branch that is checked out.
LEMMA ReadBaseKnown ==
    ASSUME Known, ReadBase
    PROVE  /\ Known' /\ hand'.at = "create" /\ hand'.card = hand.card
           /\ Stay /\ UNCHANGED <<state, git>> /\ LedgerKeeps
           /\ ledger'[EntryOf(ThisGroup)] = [Entry EXCEPT !.base = git.branch]
           /\ \A i \in DOMAIN ledger \ {EntryOf(ThisGroup)} : ledger'[i] = ledger[i]
  <1>1. hand.at = "base" /\ Stay /\ UNCHANGED <<state, git>> /\ GoTo("create")
        /\ SetEntry([Entry EXCEPT !.base = git.branch])
    BY DEF ReadBase
  <1>2. This \in Items /\ Entry \in Entries /\ Entry.group = ThisGroup
        /\ EntriesOf(ThisGroup) # {} /\ git.branch \in Branches
    BY <1>1, AtGit DEF Known, Typed, Repositories
  <1> DEFINE e == [Entry EXCEPT !.base = git.branch]
  <1>3. e \in Entries /\ e.group = ThisGroup
    BY <1>2 DEF Entries
  <1> HIDE DEF e
  <1>4. LedgerKeeps /\ ledger'[EntryOf(ThisGroup)] = e
        /\ \A i \in DOMAIN ledger \ {EntryOf(ThisGroup)} : ledger'[i] = ledger[i]
    BY <1>1, <1>2, <1>3, EntrySet DEF e
  <1>5. git' \in Repositories /\ BranchesExist'
    BY <1>1 DEF Known, Typed, BranchesExist, IsBranch
  <1>6. Known' /\ hand'.at = "create" /\ hand'.card = hand.card
    BY <1>1, <1>4, <1>5, GitKnown DEF Working, Ending
  <1> QED BY <1>1, <1>4, <1>6 DEF e

\* The branch of a card is made from the base of its group.
Branched ==
    /\ UNCHANGED state /\ hand'.at \in {"baseline", "start"} /\ LedgerKeeps
    /\ MaySwitch(Entry.base) /\ ~IsBranch(This) /\ IsBranch(Entry.base)
    /\ git'.branch = This /\ git'.tips = [git.tips EXCEPT ![This] = git.tips[Entry.base]]
    /\ git'.origin = git.origin
    /\ ledger'[EntryOf(ThisGroup)] = [Entry EXCEPT !.branch = This]
    /\ \A i \in DOMAIN ledger \ {EntryOf(ThisGroup)} : ledger'[i] = ledger[i]

\* The branch of the card is made, or git fails.
LEMMA CreateKnown ==
    ASSUME Known, CreateCardBranch
    PROVE  Known' /\ Stay /\ (Branched \/ GitFails(ledger)) /\ hand'.card = hand.card
  <1>1. hand.at = "create" /\ Stay
    BY DEF CreateCardBranch
  <1>2. /\ This \in Items /\ Entry \in Entries /\ Entry.group = ThisGroup
        /\ EntriesOf(ThisGroup) # {} /\ Entry.base \in Branches /\ This \in Branches
        /\ Typed /\ BranchesExist
    BY <1>1, AtGit, JobIs DEF Known, Typed
  <1>3. CASE MaySwitch(Entry.base) /\ ~IsBranch(This)
    <2>1. IsBranch(Entry.base)
      BY <1>3 DEF MaySwitch
    <2> DEFINE w == Switched(Entry.base)
               e == [Entry EXCEPT !.branch = This]
    <2>2. w \in Repositories /\ w.branch = Entry.base /\ w.tips = git.tips
          /\ w.origin = git.origin
      BY <1>2, <2>1, SwitchedIs
    <2> HIDE DEF w
    <2>3. /\ git' = [w EXCEPT !.branch = This, !.tips[This] = git.tips[Entry.base]]
          /\ SetEntry(e) /\ GoTo(AfterBranch(This)) /\ UNCHANGED state
      BY <1>3 DEF CreateCardBranch, w
    <2>4. git.tips \in Histories /\ git.tips[Entry.base] \in Seq(Trees)
          /\ Len(git.tips[Entry.base]) > 0
      BY <1>2, <2>1 DEF Typed, Repositories, Histories, IsBranch
    <2> DEFINE t == [git.tips EXCEPT ![This] = git.tips[Entry.base]]
    <2>5. t \in Histories /\ t[This] = git.tips[Entry.base]
          /\ \A b \in Branches \ {This} : t[b] = git.tips[b]
      BY <1>2, <2>4 DEF Histories
    <2>6. git' = [w EXCEPT !.branch = This, !.tips = t]
      BY <2>2, <2>3 DEF Repositories
    <2> HIDE DEF t
    <2>7. git' \in Repositories /\ git'.branch = This /\ git'.tips = t
          /\ git'.origin = git.origin
      BY <1>2, <2>2, <2>5, <2>6 DEF Repositories
    <2>8. BranchesExist'
      <3>1. 0 \in Branches /\ 0 # This
        BY <1>2, JobIs DEF Typed
      <3> QED BY <2>4, <2>5, <2>7, <3>1 DEF Known, BranchesExist, IsBranch
    <2>9. e \in Entries /\ e.group = ThisGroup
      BY <1>2 DEF Entries
    <2> HIDE DEF e
    <2>10. LedgerKeeps /\ ledger'[EntryOf(ThisGroup)] = e
           /\ \A i \in DOMAIN ledger \ {EntryOf(ThisGroup)} : ledger'[i] = ledger[i]
      BY <1>2, <2>3, <2>9, EntrySet
    <2>11. AfterBranch(This) \in {"baseline", "start"}
      BY DEF AfterBranch
    <2> DEFINE s == AfterBranch(This)
    <2>12. s \in Working /\ s \notin Ending
      BY <2>11 DEF Working, Ending
    <2> HIDE DEF s
    <2>13. Known' /\ hand'.at = s /\ hand'.card = hand.card
      BY <1>1, <2>3, <2>7, <2>8, <2>10, <2>12, GitKnown DEF s, Ending
    <2> QED BY <1>1, <1>3, <2>1, <2>3, <2>7, <2>10, <2>11, <2>13 DEF Branched, e, s, t
  <1>4. CASE ~(MaySwitch(Entry.base) /\ ~IsBranch(This))
    <2>1. GitFails(ledger)
      BY <1>4 DEF CreateCardBranch
    <2>2. hand'.card = hand.card /\ ledger \in Seq(Entries)
      BY <1>2, <2>1, FailureIs DEF Typed
    <2> QED BY <1>1, <1>2, <2>1, <2>2, FailureKnown
  <1> QED BY <1>3, <1>4

\* Everything in the work tree is committed.
GroupCommitted ==
    /\ UNCHANGED state /\ hand'.at = "back" /\ LedgerKeeps
    /\ git.branch = Entry.branch
    /\ git' = IF WorkIsClean THEN git ELSE Committed
    /\ ledger'[EntryOf(ThisGroup)] = [Entry EXCEPT !.commit = ~WorkIsClean]
    /\ \A i \in DOMAIN ledger \ {EntryOf(ThisGroup)} : ledger'[i] = ledger[i]

\* The group is committed, or git fails.
LEMMA CommitKnown ==
    ASSUME Known, CommitGroup
    PROVE  Known' /\ Stay /\ (GroupCommitted \/ GitFails(ledger)) /\ hand'.card = hand.card
  <1>1. hand.at = "finalize" /\ Stay /\ hand.at \in Ending
    BY DEF CommitGroup, Ending
  <1>2. /\ This \in Items /\ Entry \in Entries /\ Entry.group = ThisGroup
        /\ EntriesOf(ThisGroup) # {} /\ Typed /\ BranchesExist /\ 0 \in Branches
    BY <1>1, AtGit, JobIs DEF Known, Typed
  <1>3. CASE git.branch = Entry.branch
    <2> DEFINE e == [Entry EXCEPT !.commit = ~WorkIsClean]
    <2>1. /\ git' = IF WorkIsClean THEN git ELSE Committed
          /\ SetEntry(e) /\ GoTo("back") /\ UNCHANGED state
      BY <1>3 DEF CommitGroup
    <2>2. e \in Entries /\ e.group = ThisGroup
      <3> DEFINE c == ~WorkIsClean
      <3> c \in BOOLEAN
        OBVIOUS
      <3> HIDE DEF c
      <3> QED BY <1>2 DEF Entries
    <2> HIDE DEF e
    <2>3. LedgerKeeps /\ ledger'[EntryOf(ThisGroup)] = e
          /\ \A i \in DOMAIN ledger \ {EntryOf(ThisGroup)} : ledger'[i] = ledger[i]
      BY <1>2, <2>1, <2>2, EntrySet
    <2>4. git' \in Repositories /\ BranchesExist'
      <3>1. CASE WorkIsClean
        BY <1>2, <2>1, <3>1 DEF Typed, BranchesExist, IsBranch
      <3>2. CASE ~WorkIsClean
        <4>1. git' = Committed
          BY <2>1, <3>2
        <4>2. /\ git' \in Repositories /\ git'.branch = git.branch
              /\ Len(git'.tips[git.branch]) > 0
              /\ \A b \in Branches \ {git.branch} : git'.tips[b] = git.tips[b]
          BY <1>2, <4>1, CommittedIs
        <4> QED BY <1>2, <4>2 DEF BranchesExist, IsBranch
      <3> QED BY <3>1, <3>2
    <2>5. Known' /\ hand'.at = "back" /\ hand'.card = hand.card
      BY <1>1, <2>1, <2>3, <2>4, GitKnown DEF Working, Ending
    <2> QED BY <1>1, <1>3, <2>1, <2>3, <2>5 DEF GroupCommitted, e
  <1>4. CASE git.branch # Entry.branch
    <2>1. GitFails(ledger)
      BY <1>4 DEF CommitGroup
    <2>2. hand'.card = hand.card /\ ledger \in Seq(Entries)
      BY <1>2, <2>1, FailureIs DEF Typed
    <2> QED BY <1>1, <1>2, <2>1, <2>2, FailureKnown
  <1> QED BY <1>3, <1>4

\* The worker is back on the branch the group started from.
SwitchedBack ==
    /\ UNCHANGED state /\ LedgerKeeps
    /\ git' = Switched(Entry.base) /\ IsBranch(Entry.base)
    /\ IF Entry.commit
       THEN /\ hand'.at = "merge" /\ UNCHANGED ledger
       ELSE /\ hand'.at = "pick"
            /\ ledger'[EntryOf(ThisGroup)] = [Entry EXCEPT !.status = "completed"]
            /\ \A i \in DOMAIN ledger \ {EntryOf(ThisGroup)} : ledger'[i] = ledger[i]

\* An entry is completed.
LEMMA CompletedIs ==
    ASSUME Known, hand.at \in Ending, SetEntry([Entry EXCEPT !.status = "completed"])
    PROVE  /\ LedgerKeeps
           /\ ledger'[EntryOf(ThisGroup)] = [Entry EXCEPT !.status = "completed"]
           /\ \A i \in DOMAIN ledger \ {EntryOf(ThisGroup)} : ledger'[i] = ledger[i]
  <1>1. This \in Items /\ Entry \in Entries /\ Entry.group = ThisGroup
        /\ EntriesOf(ThisGroup) # {}
    BY AtGit
  <1> DEFINE e == [Entry EXCEPT !.status = "completed"]
  <1>2. e \in Entries /\ e.group = ThisGroup
    BY <1>1 DEF Entries
  <1> HIDE DEF e
  <1> QED BY <1>1, <1>2, EntrySet DEF e

\* The base is checked out again, or git fails.
LEMMA BackKnown ==
    ASSUME Known, SwitchBack
    PROVE  Known' /\ Stay /\ (SwitchedBack \/ GitFails(ledger)) /\ hand'.card = hand.card
  <1>1. hand.at = "back" /\ Stay /\ hand.at \in Ending
    BY DEF SwitchBack, Ending
  <1>2. /\ This \in Items /\ Entry.base \in Branches /\ Typed /\ BranchesExist
        /\ ledger \in Seq(Entries)
    BY <1>1, AtGit DEF Known, Typed
  <1>3. CASE MaySwitch(Entry.base)
    <2>1. IsBranch(Entry.base)
      BY <1>3 DEF MaySwitch
    <2>2. git' = Switched(Entry.base) /\ UNCHANGED state
      BY <1>3 DEF SwitchBack
    <2>3. git' \in Repositories /\ git'.branch = Entry.base /\ git'.tips = git.tips
      BY <1>2, <2>1, <2>2, SwitchedIs
    <2>4. BranchesExist'
      BY <1>2, <2>1, <2>3 DEF BranchesExist, IsBranch
    <2>5. CASE Entry.commit
      <3>1. GoTo("merge") /\ UNCHANGED ledger
        BY <1>3, <2>5 DEF SwitchBack
      <3>2. LedgerKeeps
        BY <1>2, <3>1 DEF LedgerKeeps
      <3>3. Known' /\ hand'.at = "merge" /\ hand'.card = hand.card
        BY <1>1, <2>2, <2>3, <2>4, <3>1, <3>2, GitKnown DEF Working, Ending
      <3> QED BY <1>1, <2>1, <2>2, <2>5, <3>1, <3>2, <3>3 DEF SwitchedBack
    <2>6. CASE ~Entry.commit
      <3>1. GoTo("pick") /\ SetEntry([Entry EXCEPT !.status = "completed"])
        BY <1>3, <2>6 DEF SwitchBack
      <3>2. /\ LedgerKeeps
            /\ ledger'[EntryOf(ThisGroup)] = [Entry EXCEPT !.status = "completed"]
            /\ \A i \in DOMAIN ledger \ {EntryOf(ThisGroup)} : ledger'[i] = ledger[i]
        BY <1>1, <3>1, CompletedIs
      <3>3. Known' /\ hand'.at = "pick" /\ hand'.card = hand.card
        BY <1>1, <2>2, <2>3, <2>4, <3>1, <3>2, GitKnown DEF Working, Ending
      <3> QED BY <1>1, <2>1, <2>2, <2>6, <3>2, <3>3 DEF SwitchedBack
    <2> QED BY <2>5, <2>6
  <1>4. CASE ~MaySwitch(Entry.base)
    <2>1. GitFails(ledger)
      BY <1>4 DEF SwitchBack
    <2>2. hand'.card = hand.card
      BY <1>2, <2>1, FailureIs
    <2> QED BY <1>1, <1>2, <2>1, <2>2, FailureKnown
  <1> QED BY <1>3, <1>4

\* The branch of the group is merged, or contained already.
Joined ==
    /\ UNCHANGED <<state, ledger>> /\ hand'.at = "push"
    /\ LET theirs == git.tips[Entry.branch]
       IN  IF Extends(theirs, git.tips[git.branch])
           THEN /\ git'.branch = git.branch /\ git'.origin = git.origin
                /\ git'.tips = [git.tips EXCEPT ![git.branch] = theirs]
                /\ git'.work = [f \in Files |->
                       IF theirs[Len(theirs)][f] = TipOf(git.branch)[f]
                       THEN git.work[f] ELSE theirs[Len(theirs)][f]]
           ELSE Extends(git.tips[git.branch], theirs) /\ UNCHANGED git

\* The group's branch is merged, or git fails.
LEMMA MergeKnown ==
    ASSUME Known, MergeGroup
    PROVE  Known' /\ Stay /\ (Joined \/ GitFails(ledger)) /\ hand'.card = hand.card
  <1>1. hand.at = "merge" /\ Stay /\ hand.at \in Ending
    BY DEF MergeGroup, Ending
  <1>2. /\ This \in Items /\ Entry.branch \in Branches /\ Typed /\ BranchesExist
        /\ ledger \in Seq(Entries) /\ git.branch \in Branches /\ git.work \in Trees
        /\ git.tips \in [Branches -> Seq(Trees)] /\ 0 \in Branches
    BY <1>1, AtGit, JobIs DEF Known, Typed, Repositories, Histories
  <1>3. TipOf(git.branch) \in Trees
    BY <1>2, TipIs DEF BranchesExist
  <1> DEFINE theirs == git.tips[Entry.branch]
             w == [f \in Files |-> IF theirs[Len(theirs)][f] = TipOf(git.branch)[f]
                                   THEN git.work[f] ELSE theirs[Len(theirs)][f]]
             t == [git.tips EXCEPT ![git.branch] = theirs]
  <1>4. theirs \in Seq(Trees)
    BY <1>2
  <1>5. GitFails(ledger) => Known' /\ hand'.card = hand.card
    BY <1>1, <1>2, FailureIs, FailureKnown
  <1>6. ASSUME GoTo("push"), UNCHANGED <<state, ledger>>, git' \in Repositories, BranchesExist'
        PROVE  Known' /\ hand'.at = "push" /\ hand'.card = hand.card
    <2>1. LedgerKeeps
      BY <1>2, <1>6 DEF LedgerKeeps
    <2> QED BY <1>1, <1>6, <2>1, GitKnown DEF Working, Ending
  <1>7. CASE ~GitFails(ledger)
    <2>1. GoTo("push") /\ UNCHANGED <<state, ledger>>
      BY <1>7 DEF MergeGroup
    <2>2. CASE Extends(theirs, git.tips[git.branch])
      <3>1. git' = [git EXCEPT !.tips[git.branch] = theirs, !.work = w]
        BY <1>7, <2>2 DEF MergeGroup
      <3>2. Len(theirs) > 0
        BY <1>2, <1>4, <2>2 DEF Extends, BranchesExist, IsBranch
      <3>3. theirs[Len(theirs)] \in Trees
        BY <1>4, <3>2
      <3> HIDE DEF theirs
      <3>4. w \in Trees
        BY <1>2, <1>3, <3>3 DEF Trees
      <3>5. t \in Histories /\ t[git.branch] = theirs
            /\ \A b \in Branches \ {git.branch} : t[b] = git.tips[b]
        BY <1>2, <1>4 DEF Histories
      <3>6. git' = [git EXCEPT !.tips = t, !.work = w]
        BY <3>1
      <3> HIDE DEF w, t
      <3>7. /\ git' \in Repositories /\ git'.tips = t /\ git'.work = w
            /\ git'.branch = git.branch /\ git'.origin = git.origin
        BY <1>2, <3>4, <3>5, <3>6 DEF Repositories, Typed
      <3>8. BranchesExist'
        BY <1>2, <3>2, <3>5, <3>7 DEF BranchesExist, IsBranch
      <3>9. Known' /\ hand'.at = "push" /\ hand'.card = hand.card
        BY <1>6, <2>1, <3>7, <3>8
      <3> QED BY <1>1, <2>1, <2>2, <3>7, <3>9 DEF Joined, theirs, w, t
    <2>3. CASE ~Extends(theirs, git.tips[git.branch])
      <3>1. git' = git /\ Extends(git.tips[git.branch], theirs)
        BY <1>7, <2>3 DEF MergeGroup
      <3>2. git' \in Repositories /\ BranchesExist'
        BY <1>2, <3>1 DEF Typed, BranchesExist, IsBranch
      <3>3. Known' /\ hand'.at = "push" /\ hand'.card = hand.card
        BY <1>6, <2>1, <3>2
      <3> QED BY <1>1, <2>1, <2>3, <3>1, <3>3 DEF Joined
    <2> QED BY <2>2, <2>3
  <1> QED BY <1>1, <1>5, <1>7

\* The branch the group started from is at the remote as it is here.
Pushed ==
    /\ UNCHANGED state /\ hand'.at = "pick" /\ LedgerKeeps
    /\ git'.branch = git.branch /\ git'.tips = git.tips /\ git'.work = git.work
    /\ git'.origin = [git.origin EXCEPT ![Entry.base] = git.tips[Entry.base]]
    /\ ledger'[EntryOf(ThisGroup)] = [Entry EXCEPT !.status = "completed"]
    /\ \A i \in DOMAIN ledger \ {EntryOf(ThisGroup)} : ledger'[i] = ledger[i]

\* The base is pushed, or git fails.
LEMMA PushKnown ==
    ASSUME Known, PushGroup
    PROVE  Known' /\ Stay /\ (Pushed \/ GitFails(ledger)) /\ hand'.card = hand.card
  <1>1. hand.at = "push" /\ Stay /\ hand.at \in Ending
    BY DEF PushGroup, Ending
  <1>2. /\ This \in Items /\ Entry.base \in Branches /\ Typed /\ BranchesExist
        /\ ledger \in Seq(Entries) /\ git.tips \in Histories /\ git.origin \in Histories
    BY <1>1, AtGit DEF Known, Typed, Repositories
  <1>3. CASE Extends(git.tips[Entry.base], git.origin[Entry.base])
    <2> DEFINE o == [git.origin EXCEPT ![Entry.base] = git.tips[Entry.base]]
    <2>1. /\ git' = [git EXCEPT !.origin = o]
          /\ SetEntry([Entry EXCEPT !.status = "completed"])
          /\ GoTo("pick") /\ UNCHANGED state
      BY <1>3 DEF PushGroup
    <2>2. o \in Histories
      BY <1>2 DEF Histories
    <2> HIDE DEF o
    <2>3. git' \in Repositories /\ git'.branch = git.branch /\ git'.tips = git.tips
          /\ git'.work = git.work /\ git'.origin = o
      BY <1>2, <2>1, <2>2 DEF Repositories, Typed
    <2>4. BranchesExist'
      BY <1>2, <2>3 DEF BranchesExist, IsBranch
    <2>5. /\ LedgerKeeps
          /\ ledger'[EntryOf(ThisGroup)] = [Entry EXCEPT !.status = "completed"]
          /\ \A i \in DOMAIN ledger \ {EntryOf(ThisGroup)} : ledger'[i] = ledger[i]
      BY <1>1, <2>1, CompletedIs
    <2>6. Known' /\ hand'.at = "pick" /\ hand'.card = hand.card
      BY <1>1, <2>1, <2>3, <2>4, <2>5, GitKnown DEF Working, Ending
    <2> QED BY <1>1, <2>1, <2>3, <2>5, <2>6 DEF Pushed, o
  <1>4. CASE ~Extends(git.tips[Entry.base], git.origin[Entry.base])
    <2>1. GitFails(ledger)
      BY <1>4 DEF PushGroup
    <2>2. hand'.card = hand.card
      BY <1>2, <2>1, FailureIs
    <2> QED BY <1>1, <1>2, <2>1, <2>2, FailureKnown
  <1> QED BY <1>3, <1>4

\* A command that fails.
LEMMA CommandKnown ==
    ASSUME Known, CommandFails
    PROVE  Known' /\ Stay /\ GitFails(ledger) /\ hand'.card = hand.card /\ This \in Items
           /\ hand.at \in Ending \cup {"base", "create"}
  <1>1. hand.at \in Ending \cup {"base", "create"} /\ Stay /\ GitFails(ledger)
    BY DEF CommandFails, GitSteps, Ending
  <1>2. This \in Items /\ ledger \in Seq(Entries)
    BY <1>1, AtGit DEF Known, Typed
  <1> QED BY <1>1, <1>2, FailureIs, FailureKnown

-----------------------------------------------------------------------------
(* Turns, their judgment, and everybody else.                              *)

\* What a step with a card in progress starts from.
LEMMA AtCard ==
    ASSUME Known, hand.at \in Working
    PROVE  /\ This \in Items /\ state[This] \in CardStates
           /\ state[This].status = "in_progress" /\ state \in [Items -> CardStates]
           /\ hand \in Hands /\ Typed
  BY DEF Known, HasACard, Typed

\* How a turn ends: another turn, a failed card, or a report.
TurnGoesOn == /\ hand'.at = "turn" /\ hand'.card = hand.card
              /\ state'[This].status = "in_progress"
TurnFails == SettleAs([state[This] EXCEPT !.status = "failed", !.passed = FALSE])
TurnReports == /\ hand'.at = "report" /\ hand'.card = hand.card /\ UNCHANGED state

\* How a turn may end, and what it leaves alone.
LEMMA TurnKnown ==
    ASSUME Known, TurnEnds
    PROVE  /\ Known' /\ Stay /\ UNCHANGED <<ledger, git>>
           /\ TurnGoesOn \/ TurnFails \/ TurnReports
           /\ TurnGoesOn \/ TurnReports =>
                /\ state'[This].tests = state[This].tests
                /\ state'[This].red = state[This].red
                /\ hand'.calm = hand.calm /\ hand'.before = hand.before
                /\ hand'.found = hand.found /\ hand'.wrote = hand.wrote
           /\ \A c \in Items \ {This} : state'[c] = state[c]
           /\ state'[This].status # "done" /\ hand'.card = hand.card
  <1>1. hand.at = "turn" /\ Stay /\ UNCHANGED <<ledger, git>> /\ hand.at \in Working
    BY DEF TurnEnds, Working
  <1>2. /\ This \in Items /\ state[This] \in CardStates /\ Typed
        /\ state[This].status = "in_progress" /\ state \in [Items -> CardStates]
        /\ hand \in Hands
    BY <1>1, AtCard
  <1>3. PICK a \in TurnAnswers :
          \/ CallsAgain(a) /\ hand' = [hand EXCEPT !.left = @ - 1] /\ UNCHANGED state
          \/ /\ hand' = [hand EXCEPT !.mode = "fallback", !.fell = TRUE]
             /\ UNCHANGED state
          \/ /\ hand' = [hand EXCEPT !.mode = "again"]
             /\ state' = [state EXCEPT ![This] = [state[This] EXCEPT !.tries = @ + 1]]
          \/ TurnFails
          \/ hand' = [hand EXCEPT !.at = "report", !.answer = a] /\ UNCHANGED state
    BY Zenon DEF TurnEnds, Retrying, TurnFails
  <1>4. {"turn", "report"} \subseteq Working \ {"base", "create"}
    BY DEF Working
  <1>5. CASE CallsAgain(a) /\ hand' = [hand EXCEPT !.left = @ - 1] /\ UNCHANGED state
    <2>1. hand.left \in Nat /\ hand.left > 0
      BY <1>2, <1>5 DEF CallsAgain, Hands
    <2>2. hand' \in Hands /\ hand'.at = "turn" /\ hand'.card = hand.card
          /\ hand'.calm = hand.calm /\ hand'.before = hand.before
          /\ hand'.found = hand.found /\ hand'.wrote = hand.wrote
      <3> DEFINE n == hand.left - 1
      <3>1. n \in Nat
        BY <2>1
      <3> HIDE DEF n
      <3>2. hand' = [hand EXCEPT !.left = n]
        BY <1>5 DEF n
      <3> QED BY <1>1, <1>2, <3>1, <3>2 DEF Hands
    <2>3. Known'
      BY <1>1, <1>4, <1>5, <2>2, MoveKnown
    <2> QED BY <1>1, <1>2, <1>5, <2>2, <2>3 DEF TurnGoesOn
  <1>6. CASE hand' = [hand EXCEPT !.mode = "fallback", !.fell = TRUE] /\ UNCHANGED state
    <2>2. hand' \in Hands /\ hand'.at = "turn" /\ hand'.card = hand.card
          /\ hand'.calm = hand.calm /\ hand'.before = hand.before
          /\ hand'.found = hand.found /\ hand'.wrote = hand.wrote
      BY <1>1, <1>2, <1>6 DEF Hands
    <2>3. Known'
      BY <1>1, <1>4, <1>6, <2>2, MoveKnown
    <2> QED BY <1>1, <1>2, <1>6, <2>2, <2>3 DEF TurnGoesOn
  <1>7. CASE /\ hand' = [hand EXCEPT !.mode = "again"]
             /\ state' = [state EXCEPT ![This] = [state[This] EXCEPT !.tries = @ + 1]]
    <2> DEFINE n == state[This].tries + 1
               k == [state[This] EXCEPT !.tries = n]
    <2>1. n \in Nat
      BY <1>2 DEF CardStates
    <2>2. state' = [state EXCEPT ![This] = k]
      BY <1>7
    <2> HIDE DEF n
    <2>3. k \in CardStates /\ k.status = "in_progress" /\ k.tests = state[This].tests
          /\ k.red = state[This].red
      BY <1>2, <2>1 DEF CardStates
    <2> HIDE DEF k
    <2>4. /\ state' \in [Items -> CardStates] /\ state'[This] = k
          /\ \A c \in Items \ {This} : state'[c] = state[c]
      BY <1>2, <2>2, <2>3
    <2>5. hand' \in Hands /\ hand'.at = "turn" /\ hand'.card = hand.card
          /\ hand'.calm = hand.calm /\ hand'.before = hand.before
          /\ hand'.found = hand.found /\ hand'.wrote = hand.wrote
      BY <1>1, <1>2, <1>7 DEF Hands
    <2>6. HasACard' /\ HasAnEntry'
      BY <1>1, <1>2, <2>3, <2>4, <2>5 DEF HasACard, HasAnEntry, Stay, This, Items,
         Working, Ending
    <2>7. Known'
      BY <1>1, <1>2, <2>4, <2>5, <2>6, CardKnown DEF Stay, Typed
    <2> QED BY <1>1, <2>3, <2>4, <2>5, <2>7 DEF TurnGoesOn
  <1>8. CASE TurnFails
    <2> DEFINE k == [state[This] EXCEPT !.status = "failed", !.passed = FALSE]
    <2>1. k \in CardStates /\ k.status = "failed"
      BY <1>2 DEF CardStates
    <2>2. SettleAs(k)
      BY <1>8 DEF TurnFails
    <2> HIDE DEF k
    <2>3. Known' /\ hand'.at = "pick" /\ hand'.card = hand.card /\ state'[This] = k
          /\ \A c \in Items \ {This} : state'[c] = state[c]
      BY <1>1, <1>2, <2>1, <2>2, SettledKnown
    <2> QED BY <1>1, <1>8, <2>1, <2>3 DEF TurnGoesOn, TurnReports
  <1>9. CASE hand' = [hand EXCEPT !.at = "report", !.answer = a] /\ UNCHANGED state
    <2>2. hand' \in Hands /\ hand'.at = "report" /\ hand'.card = hand.card
          /\ hand'.calm = hand.calm /\ hand'.before = hand.before
          /\ hand'.found = hand.found /\ hand'.wrote = hand.wrote
      BY <1>1, <1>2, <1>9 DEF Hands, Working
    <2>3. Known'
      BY <1>1, <1>4, <1>9, <2>2, MoveKnown
    <2> QED BY <1>1, <1>2, <1>9, <2>2, <2>3 DEF TurnReports
  <1> QED BY <1>3, <1>5, <1>6, <1>7, <1>8, <1>9

\* The changes are recorded, or the card is blocked.
ChangesRecorded ==
    /\ hand'.at \in {"repair", "check"} /\ UNCHANGED state
    /\ hand'.calm = hand.calm /\ hand'.before = hand.before
    /\ hand'.found = hand.found /\ hand'.wrote = hand.wrote /\ hand'.after = Snapshot
AttemptBlocked ==
    SettleAs([state[This] EXCEPT !.status = "blocked", !.passed = FALSE])

\* What a look at the changes records.
LEMMA RecordKnown ==
    ASSUME Known, RecordChanges
    PROVE  /\ Known' /\ Stay /\ UNCHANGED <<ledger, git>>
           /\ ChangesRecorded \/ AttemptBlocked
           /\ \A c \in Items \ {This} : state'[c] = state[c]
           /\ state'[This].status # "done" /\ hand'.card = hand.card
  <1>1. hand.at = "report" /\ Stay /\ UNCHANGED <<ledger, git>> /\ hand.at \in Working
    BY DEF RecordChanges, Working
  <1>2. /\ This \in Items /\ state[This] \in CardStates /\ Typed
        /\ state[This].status = "in_progress" /\ state \in [Items -> CardStates]
        /\ hand \in Hands
    BY <1>1, AtCard
  <1>3. \/ AttemptBlocked
        \/ \E a \in {"followup", hand.answer}, s \in {"repair", "check"} :
              /\ hand' = [hand EXCEPT !.after = Snapshot, !.answer = a, !.at = s]
              /\ UNCHANGED state
    <2>1. PICK salvaged \in BOOLEAN :
          LET answer == IF salvaged THEN "followup" ELSE hand.answer
          IN  IF answer \in Failures
              THEN AttemptBlocked
              ELSE /\ hand' = [hand EXCEPT !.after = Snapshot, !.answer = answer,
                                     !.at = IF HasIssues(answer, hand.before, Snapshot)
                                            THEN "repair" ELSE "check"]
                   /\ UNCHANGED state
      BY Zenon DEF RecordChanges, AttemptBlocked
    <2> DEFINE answer == IF salvaged THEN "followup" ELSE hand.answer
               s == IF HasIssues(answer, hand.before, Snapshot) THEN "repair" ELSE "check"
    <2>2. answer \in {"followup", hand.answer} /\ s \in {"repair", "check"}
      OBVIOUS
    <2>3. \/ AttemptBlocked
          \/ /\ hand' = [hand EXCEPT !.after = Snapshot, !.answer = answer, !.at = s]
             /\ UNCHANGED state
      BY <2>1
    <2> HIDE DEF answer, s
    <2> QED BY <2>2, <2>3
  <1>4. CASE AttemptBlocked
    <2> DEFINE k == [state[This] EXCEPT !.status = "blocked", !.passed = FALSE]
    <2>1. k \in CardStates /\ k.status = "blocked"
      BY <1>2 DEF CardStates
    <2>2. SettleAs(k)
      BY <1>4 DEF AttemptBlocked
    <2> HIDE DEF k
    <2>3. Known' /\ hand'.at = "pick" /\ hand'.card = hand.card /\ state'[This] = k
          /\ \A c \in Items \ {This} : state'[c] = state[c]
      BY <1>1, <1>2, <2>1, <2>2, SettledKnown
    <2> QED BY <1>1, <1>4, <2>1, <2>3
  <1>5. ASSUME NEW a \in {"followup", hand.answer}, NEW s \in {"repair", "check"},
               hand' = [hand EXCEPT !.after = Snapshot, !.answer = a, !.at = s],
               UNCHANGED state
        PROVE  /\ Known' /\ ChangesRecorded /\ hand'.card = hand.card
    <2>1. Snapshot \in Shots
      BY SnapshotIs DEF Known
    <2>2. a \in TurnAnswers \cup {"none", "tests", "unfinished", "nothing"}
      BY <1>2, <1>5 DEF Hands, TurnAnswers
    <2>3. s \in Working \ {"base", "create"}
      BY <1>5 DEF Working
    <2>4. hand' \in Hands /\ hand'.at = s /\ hand'.card = hand.card
          /\ hand'.calm = hand.calm /\ hand'.before = hand.before
          /\ hand'.found = hand.found /\ hand'.wrote = hand.wrote
          /\ hand'.after = Snapshot
      BY <1>2, <1>5, <2>1, <2>2, <2>3 DEF Hands
    <2>5. Known'
      BY <1>1, <1>5, <2>3, <2>4, MoveKnown
    <2> QED BY <1>5, <2>4, <2>5 DEF ChangesRecorded
  <1> QED BY <1>1, <1>2, <1>3, <1>4, <1>5 DEF ChangesRecorded

\* Putting a result right changes only the answer.
LEMMA RepairKnown ==
    ASSUME Known, ResultRepaired
    PROVE  /\ Known' /\ Stay /\ UNCHANGED <<state, ledger, git>> /\ hand'.at = "check"
           /\ hand'.card = hand.card /\ hand'.calm = hand.calm /\ hand'.after = hand.after
           /\ hand'.before = hand.before /\ hand'.found = hand.found
           /\ hand'.wrote = hand.wrote
  <1>1. hand.at = "repair" /\ Stay /\ UNCHANGED <<state, ledger, git>> /\ hand.at \in Working
    BY DEF ResultRepaired, Working
  <1>2. hand \in Hands
    BY <1>1, AtCard
  <1>3. PICK a \in {"done", "claim", "odd", "followup", hand.answer} :
           hand' = [hand EXCEPT !.at = "check", !.answer = a]
    BY DEF ResultRepaired
  <1>4. a \in TurnAnswers \cup {"none", "tests", "unfinished", "nothing"}
    BY <1>2, <1>3 DEF Hands, TurnAnswers
  <1>5. /\ hand' \in Hands /\ hand'.at = "check"
        /\ hand'.card = hand.card /\ hand'.calm = hand.calm /\ hand'.after = hand.after
        /\ hand'.before = hand.before /\ hand'.found = hand.found
        /\ hand'.wrote = hand.wrote
    BY <1>2, <1>3, <1>4 DEF Hands, Working
  <1>6. "check" \in Working \ {"base", "create"}
    BY DEF Working
  <1> QED BY <1>1, <1>5, <1>6, MoveKnown

\* A result is judged: what a card that is done and passed has behind it, and
\* when the worker goes on to end the group.
Graded ==
    /\ state'[This].status \in {"done", "blocked", "failed"}
    /\ \A c \in Items \ {This} : state'[c] = state[c]
    /\ hand'.at = IF state'[This].status = "done" /\ Finishes(This)
                  THEN "finalize" ELSE "pick"
    /\ state'[This].status = "done" /\ state'[This].passed =>
          /\ state[This].tests /\ KindOf(This) # "qa" => TestsPass
          /\ job.scripts => ScriptsPass
          /\ EvidenceHolds

\* A judgment settles the card and may go on to end its group.
LEMMA JudgeKnown ==
    ASSUME Known, JudgeResult
    PROVE  Known' /\ Stay /\ UNCHANGED <<ledger, git>> /\ Graded /\ hand'.card = hand.card
  <1>1. hand.at = "check" /\ Stay /\ UNCHANGED <<ledger, git>> /\ hand.at \in Working
    BY DEF JudgeResult, Working
  <1>2. /\ This \in Items /\ state[This] \in CardStates /\ Typed
        /\ state[This].status = "in_progress" /\ state \in [Items -> CardStates]
        /\ hand \in Hands
    BY <1>1, AtCard
  <1>3. PICK late \in BOOLEAN : Judge(late)
    BY DEF JudgeResult
  <1> DEFINE answer == IF Valid(late) THEN hand.answer ELSE "followup"
             done == answer \in {"done", "claim"}
             status == StatusFor(answer)
             more == IF NeedsTests(This)
                     THEN (IF Valid(late) THEN 0 ELSE 1) + (IF done THEN 0 ELSE 1) ELSE 0
             p == done /\ status = "done"
             step == IF status = "done" /\ Finishes(This) THEN "finalize" ELSE "pick"
             k == [state[This] EXCEPT !.status = status, !.passed = p, !.fixes = @ + more]
  <1>4. state' = [state EXCEPT ![This] = k] /\ GoTo(step)
    BY <1>3 DEF Judge
  <1>6. p \in BOOLEAN /\ (p => done)
    OBVIOUS
  <1>7. done => Valid(late)
    OBVIOUS
  <1>8. status \in {"done", "blocked", "failed"}
    BY DEF StatusFor
  <1>9. status = "done" /\ done => EvidenceHolds
    BY DEF StatusFor
  <1>10. more \in Nat
    <2> HIDE DEF done
    <2> QED OBVIOUS
  <1>11. Valid(late) => (RunsTests => TestsPass) /\ (job.scripts => ScriptsPass)
    BY DEF Valid
  <1> HIDE DEF answer, p, done, status, more
  <1>12. k \in CardStates /\ k.status = status /\ k.passed = p
    <2>1. state[This].fixes \in Nat
      BY <1>2 DEF CardStates
    <2> DEFINE n == state[This].fixes + more
    <2>2. n \in Nat
      BY <1>10, <2>1
    <2> HIDE DEF n
    <2>3. k = [state[This] EXCEPT !.status = status, !.passed = p, !.fixes = n]
      BY DEF n
    <2> QED BY <1>2, <1>6, <1>8, <2>2, <2>3 DEF CardStates
  <1> HIDE DEF k
  <1>13. /\ state' \in [Items -> CardStates] /\ state'[This] = k
         /\ \A c \in Items \ {This} : state'[c] = state[c]
    BY <1>2, <1>4, <1>12
  <1>14. step \in {"finalize", "pick"} /\ (step = "finalize" => status = "done")
    OBVIOUS
  <1>15. step = IF state'[This].status = "done" /\ Finishes(This) THEN "finalize" ELSE "pick"
    BY <1>12, <1>13
  <1> HIDE DEF step
  <1>16. step \in Ending \cup {"pick"} /\ step \notin Working
    BY <1>14 DEF Ending, Working
  <1>17. hand' \in Hands /\ hand'.at = step /\ hand'.card = hand.card
    BY <1>2, <1>4, <1>16, GoesTo
  <1>18. HasACard'
    BY <1>1, <1>2, <1>12, <1>13, <1>14, <1>16, <1>17 DEF HasACard, Stay, This, Items, Ending
  <1>19. HasAnEntry'
    <2> SUFFICES ASSUME step = "finalize" PROVE EntriesOf(ThisGroup)' # {}
      BY <1>14, <1>17 DEF HasAnEntry, Ending
    <2>1. Finishes(This)
      BY <1>14, <1>15
    <2>2. EntriesOf(ThisGroup) # {}
      BY <2>1 DEF Finishes, HasEntry, ThisGroup
    <2> QED BY <1>1, <1>17, <2>2 DEF EntriesOf, ThisGroup, GroupOf, This, Stay
  <1>20. Known'
    BY <1>1, <1>2, <1>13, <1>17, <1>18, <1>19, CardKnown DEF Stay, Typed
  <1>21. Graded
    <2>1. state'[This].status = "done" /\ state'[This].passed => Valid(late) /\ EvidenceHolds
      BY <1>6, <1>7, <1>9, <1>12, <1>13
    <2> QED BY <1>8, <1>11, <1>12, <1>13, <1>15, <1>17, <2>1 DEF Graded, RunsTests
  <1> QED BY <1>1, <1>17, <1>20, <1>21

\* A retry makes no card done.
LEMMA RetryKnown ==
    ASSUME Known, RetryAttention
    PROVE  Known' /\ noise'.again > 0 /\ UNCHANGED <<ledger, git>> /\ hand'.at = "pick"
           /\ \A c \in Items : state'[c].status # "done" \/ state[c].status = "done"
  <1>1. hand.at = "off" /\ UNCHANGED <<job, ledger, git>> /\ GoTo("pick")
        /\ noise' = [noise EXCEPT !.again = @ + 1]
    BY DEF RetryAttention
  <1>2. Typed /\ state \in [Items -> CardStates] /\ noise \in Noises
    BY DEF Known, Typed
  <1>3. hand' \in Hands /\ hand'.at = "pick"
    BY <1>1, <1>2, GoesTo
  <1>4. noise' \in Noises /\ noise'.again > 0
    <2>1. noise.again \in Nat
      BY <1>2 DEF Noises
    <2> DEFINE n == noise.again + 1
    <2>2. n \in Nat /\ n > 0
      BY <2>1
    <2> HIDE DEF n
    <2>3. noise' = [noise EXCEPT !.again = n]
      BY <1>1 DEF n
    <2> QED BY <1>2, <2>2, <2>3 DEF Noises
  <1>5. state' \in [Items -> CardStates]
        /\ \A c \in Items : state'[c].status # "done" \/ state[c].status = "done"
    <2>1. state' = [c \in Items |->
                      IF state[c].status \in {"blocked", "failed"}
                      THEN [state[c] EXCEPT !.status = "todo"] ELSE state[c]]
      BY <1>2 DEF RetryAttention
    <2>2. ASSUME NEW c \in Items
          PROVE  /\ [state[c] EXCEPT !.status = "todo"] \in CardStates
                 /\ [state[c] EXCEPT !.status = "todo"].status = "todo"
      <3>1. state[c] \in CardStates
        BY <1>2
      <3> QED BY <3>1 DEF CardStates
    <2> QED BY <1>2, <2>1, <2>2
  <1>6. HasACard' /\ HasAnEntry'
    BY <1>3 DEF HasACard, HasAnEntry, Working, Ending
  <1> QED BY <1>1, <1>3, <1>4, <1>5, <1>6, CardKnown

\* Others change the repository and what the worker may conclude from it.
LEMMA OthersKnown ==
    ASSUME Known, OthersEdit \/ OthersSwitch \/ OthersCommit \/ OthersPush
    PROVE  Known' /\ noise'.others > 0 /\ hand'.calm = FALSE /\ hand'.at = hand.at
           /\ hand'.card = hand.card /\ UNCHANGED <<job, state, ledger>>
  <1>1. Typed /\ BranchesExist /\ git \in Repositories /\ hand \in Hands /\ noise \in Noises
        /\ git.branch \in Branches /\ git.tips \in Histories /\ git.origin \in Histories
        /\ git.work \in Trees /\ 0 \in Branches /\ DOMAIN git.tips = Branches
    BY JobIs DEF Known, Typed, Repositories, Histories
  <1>2. PICK g : Disturb(g) /\ g \in Repositories
                 /\ Len(g.tips[0]) > 0 /\ Len(g.tips[g.branch]) > 0
    <2>1. CASE OthersEdit
      <3>1. PICK f \in Files : Disturb([git EXCEPT !.work[f] = "theirs"])
        BY <2>1 DEF OthersEdit
      <3> DEFINE g == [git EXCEPT !.work[f] = "theirs"]
      <3>2. g \in Repositories /\ g.tips = git.tips /\ g.branch = git.branch
        BY <1>1 DEF Repositories, Trees, Contents
      <3> HIDE DEF g
      <3> QED BY <1>1, <3>1, <3>2 DEF g, BranchesExist, IsBranch
    <2>2. CASE OthersSwitch
      <3>1. PICK b \in Branches : MaySwitch(b) /\ Disturb(Switched(b))
        BY <1>1, <2>2 DEF OthersSwitch
      <3>2. IsBranch(b)
        BY <3>1 DEF MaySwitch
      <3>3. Switched(b) \in Repositories /\ Switched(b).branch = b
            /\ Switched(b).tips = git.tips
        BY <1>1, <3>2, SwitchedIs
      <3> QED BY <1>1, <3>1, <3>2, <3>3 DEF BranchesExist, IsBranch
    <2>3. CASE OthersCommit
      <3>1. Disturb(Committed)
        BY <2>3 DEF OthersCommit
      <3>2. /\ Committed \in Repositories /\ Committed.branch = git.branch
            /\ Len(Committed.tips[git.branch]) > 0
            /\ \A b \in Branches \ {git.branch} : Committed.tips[b] = git.tips[b]
        BY <1>1, CommittedIs
      <3> QED BY <1>1, <3>1, <3>2 DEF BranchesExist, IsBranch
    <2>4. CASE OthersPush
      <3> DEFINE o == [git.origin EXCEPT ![0] = Append(@, Tree("theirs", "none"))]
                 g == [git EXCEPT !.origin = o]
      <3>1. Disturb(g)
        BY <2>4 DEF OthersPush
      <3>2. git.origin[0] \in Seq(Trees)
        BY <1>1 DEF Histories
      <3>3. Append(git.origin[0], Tree("theirs", "none")) \in Seq(Trees)
        BY <3>2, OriginalIs
      <3>4. o \in Histories
        BY <1>1, <3>3 DEF Histories
      <3> HIDE DEF o
      <3>5. g \in Repositories /\ g.tips = git.tips /\ g.branch = git.branch
        BY <1>1, <3>4 DEF Repositories
      <3> HIDE DEF g
      <3> QED BY <1>1, <3>1, <3>5 DEF BranchesExist, IsBranch
    <2> QED BY <2>1, <2>2, <2>3, <2>4
  <1>3. /\ git' = g /\ hand' = [hand EXCEPT !.calm = FALSE]
        /\ UNCHANGED <<job, state, ledger>>
        /\ noise' = [noise EXCEPT !.others = @ + 1]
    BY <1>2 DEF Disturb
  <1>4. hand' \in Hands /\ hand'.calm = FALSE /\ hand'.at = hand.at /\ hand'.card = hand.card
    BY <1>1, <1>3 DEF Hands
  <1>5. noise' \in Noises /\ noise'.others > 0
    <2>1. noise.others \in Nat
      BY <1>1 DEF Noises
    <2> DEFINE n == noise.others + 1
    <2>2. n \in Nat /\ n > 0
      BY <2>1
    <2> HIDE DEF n
    <2>3. noise' = [noise EXCEPT !.others = n]
      BY <1>3 DEF n
    <2> QED BY <1>1, <2>2, <2>3 DEF Noises
  <1>6. BranchesExist' /\ LedgerKeeps /\ state' \in [Items -> CardStates]
    BY <1>2, <1>3 DEF BranchesExist, IsBranch, LedgerKeeps, Known, Typed
  <1>7. HasACard' /\ HasAnEntry'
    BY <1>3, <1>4 DEF Known, HasACard, HasAnEntry, This, Items, ThisGroup, GroupOf, EntriesOf
  <1> QED BY <1>2, <1>3, <1>4, <1>5, <1>6, <1>7, KnownFrom

-----------------------------------------------------------------------------
(* What is known, of every behaviour.                                      *)

\* What is known when a board is started.
LEMMA KnownFirst == AttemptInit => Known
  <1> SUFFICES ASSUME AttemptInit PROVE Known
    OBVIOUS
  <1>1. /\ Len(job.cards) \in Nat /\ Items = 1..Len(job.cards)
        /\ 0 \in Branches /\ 0 \notin Items
    BY JobIs DEF AttemptInit
  <1>2. state \in [Items -> CardStates]
    <2>1. Afresh \in CardStates
      BY DEF Afresh, CardStates
    <2> QED BY <2>1 DEF AttemptInit, Items
  <1>3. ledger = <<>> /\ ledger \in Seq(Entries)
    BY DEF AttemptInit
  <1>4. hand \in Hands /\ hand.at = "pick"
    <2>1. NoShot \in Shots
      BY DEF NoShot, Shots, Contents
    <2>2. Resting \in Hands
      BY <1>1, <2>1, OriginalIs DEF Resting, Hands
    <2> QED BY <2>2 DEF AttemptInit, Hands
  <1> DEFINE h == [b \in 0..Len(job.cards) |-> IF b = 0 THEN <<Original>> ELSE <<>>]
  <1>5. h \in Histories /\ Len(h[0]) > 0
    BY <1>1, OriginalIs DEF Histories, Branches
  <1>6. git = [branch |-> 0, tips |-> h, work |-> Original, origin |-> h]
    BY DEF AttemptInit
  <1> HIDE DEF h
  <1>7. git \in Repositories /\ BranchesExist
    <2>1. git \in Repositories
      BY <1>1, <1>5, <1>6, OriginalIs DEF Repositories
    <2>2. git.tips = h /\ git.branch = 0
      BY <1>6
    <2>3. Len(git.tips[0]) > 0
      BY <1>5, <2>2
    <2> QED BY <2>1, <2>2, <2>3 DEF BranchesExist, IsBranch
  <1>8. noise \in Noises /\ job \in Jobs
    BY DEF AttemptInit, Quiet, Noises
  <1>9. HasACard /\ HasAnEntry
    BY <1>4 DEF HasACard, HasAnEntry, Working, Ending
  <1>10. HasOldest
    BY <1>3 DEF HasOldest, Oldest, EntriesOf
  <1> QED BY <1>2, <1>3, <1>4, <1>7, <1>8, <1>9, <1>10 DEF Known, Typed

\* Every step keeps it.
LEMMA KnownNext == Known /\ [AttemptNext]_attemptVars => Known'
  <1> SUFFICES ASSUME Known, [AttemptNext]_attemptVars PROVE Known'
    OBVIOUS
  <1>1. CASE PickCard
    BY <1>1, PickKnown
  <1>2. CASE CheckTree
    BY <1>2, TreeKnown
  <1>3. CASE ReadBase
    BY <1>3, ReadBaseKnown
  <1>4. CASE CreateCardBranch
    BY <1>4, CreateKnown
  <1>5. CASE CommandFails
    BY <1>5, CommandKnown
  <1>6. CASE UseBaseline \/ TestsAnswered \/ RunBaseline \/ TakeSnapshot
    BY <1>6, BaselineKnown
  <1>7. CASE ProviderEdits
    BY <1>7, EditsKnown
  <1>8. CASE TurnEnds
    BY <1>8, TurnKnown
  <1>9. CASE RecordChanges
    BY <1>9, RecordKnown
  <1>10. CASE ResultRepaired
    BY <1>10, RepairKnown
  <1>11. CASE JudgeResult
    BY <1>11, JudgeKnown
  <1>12. CASE CommitGroup
    BY <1>12, CommitKnown
  <1>13. CASE SwitchBack
    BY <1>13, BackKnown
  <1>14. CASE MergeGroup
    BY <1>14, MergeKnown
  <1>15. CASE PushGroup
    BY <1>15, PushKnown
  <1>16. CASE RetryAttention
    BY <1>16, RetryKnown
  <1>17. CASE OthersEdit \/ OthersSwitch \/ OthersCommit \/ OthersPush
    BY <1>17, OthersKnown
  <1>18. CASE UNCHANGED attemptVars
    <2>1. UNCHANGED <<job, state, ledger, hand, git, noise>>
      BY <1>18 DEF attemptVars
    <2>2. LedgerKeeps
      BY <2>1 DEF LedgerKeeps, Known, Typed
    <2>3. HasACard' /\ HasAnEntry' /\ BranchesExist'
      BY <2>1 DEF Known, HasACard, HasAnEntry, BranchesExist, IsBranch, This, ThisGroup,
         GroupOf, EntriesOf, Items
    <2> QED BY <2>1, <2>2, <2>3, KnownFrom DEF Known, Typed
  <1> QED BY <1>1, <1>2, <1>3, <1>4, <1>5, <1>6, <1>7, <1>8, <1>9, <1>10, <1>11, <1>12,
             <1>13, <1>14, <1>15, <1>16, <1>17, <1>18 DEF AttemptNext

\* So it is known in every state.
LEMMA KnownAlways == AttemptSpec => []Known
  <1>1. AttemptInit => Known
    BY KnownFirst
  <1>2. Known /\ [AttemptNext]_attemptVars => Known'
    BY KnownNext
  <1> QED BY <1>1, <1>2, PTL DEF AttemptSpec

\* Items, ledger and repository have their types in every state of every board
\* (the worker of execution.rs and what it keeps of a card).
THEOREM TypeCorrect == AttemptSpec => []AttemptTypeOK
  <1>1. Known => AttemptTypeOK
    <2> SUFFICES ASSUME Known PROVE AttemptTypeOK
      OBVIOUS
    <2>1. \A i \in DOMAIN ledger : ledger[i].status \in {"running", "failed", "completed"}
      <3>1. \A i \in DOMAIN ledger : ledger[i] \in Entries
        BY DEF Known, Typed
      <3> QED BY <3>1 DEF Entries
    <2> QED BY <2>1 DEF Known, Typed, AttemptTypeOK, Items, CardStates, Repositories,
               Trees, BranchesExist
  <1> QED BY <1>1, KnownAlways, PTL

-----------------------------------------------------------------------------
(* What the worker has seen.                                               *)

Attempting == {"start", "turn", "report", "repair", "check"}

\* No card becomes done by this step.
NoneGetsDone == \A c \in Items : state'[c].status # "done" \/ state[c].status = "done"

\* A step that makes no card done has nothing to show for it.
LEMMA NothingToEarn ==
    ASSUME Known, NoneGetsDone
    PROVE  EarnsDone
  BY DEF Known, Typed, NoneGetsDone, EarnsDone

\* Away from the attempt there is nothing to show.
LEMMA EvidentElsewhere ==
    ASSUME hand'.at \notin Attempting
    PROVE  Evident'
  BY DEF Evident, TestsCameFirst, FoundIsShown, ChangesAreShown, Attempting

\* A card at the start of its work has seen its tests fail, or need not.
LEMMA EvidentAtStart ==
    ASSUME hand'.at = "start",
           (NeedsTests(This) /\ job.strict /\ ~job.lenient
              => state[This].tests /\ state[This].red)'
    PROVE  Evident'
  BY DEF Evident, TestsCameFirst, FoundIsShown, ChangesAreShown

\* Picking a card keeps what was seen.
LEMMA PickEvident ==
    ASSUME Known, PickCard
    PROVE  Evident' /\ NoneGetsDone
  <1>1. state \in [Items -> CardStates] /\ job' = job /\ Typed
    BY Zenon DEF Known, Typed, PickCard, Stay
  <1>2. ASSUME NEW c \in Items, Picks(c)
        PROVE  Evident' /\ NoneGetsDone
    <2> DEFINE k == [state[c] EXCEPT !.status = "in_progress", !.tries = @ + 1]
               s == IF NeedsBranch(c) THEN "tree" ELSE AfterBranch(c)
    <2>1. state[c] \in CardStates
      BY <1>1
    <2>2. k.status = "in_progress"
      BY <2>1 DEF CardStates
    <2>3. state' = [state EXCEPT ![c] = k]
      BY <1>2 DEF Picks
    <2> HIDE DEF k
    <2>4. NoneGetsDone
      BY <1>1, <2>2, <2>3 DEF NoneGetsDone
    <2>5. hand' = [Resting EXCEPT !.at = s, !.card = c, !.fell = hand.fell]
      BY <1>2 DEF Picks
    <2>6. s \in {"tree", "baseline", "start"} /\ (s = "start" => ~NeedsTests(c))
      BY DEF AfterBranch
    <2> HIDE DEF s
    <2>7. hand'.at = s /\ hand'.card = c
      BY <1>1, <2>5, RestingIs DEF Hands
    <2>8. CASE s = "start"
      <3>1. ~NeedsTests(This)'
        BY <1>1, <2>6, <2>7, <2>8 DEF NeedsTests, KindOf, This
      <3> QED BY <2>4, <2>7, <2>8, <3>1, EvidentAtStart
    <2>9. CASE s # "start"
      <3>1. hand'.at \notin Attempting
        BY <2>6, <2>7, <2>9 DEF Attempting
      <3> QED BY <2>4, <3>1, EvidentElsewhere
    <2> QED BY <2>8, <2>9
  <1>3. CASE GoTo("off") /\ UNCHANGED state
    <2>1. hand'.at = "off"
      BY <1>1, <1>3, GoesTo
    <2> QED BY <1>3, <2>1, EvidentElsewhere DEF Attempting, NoneGetsDone
  <1>4. \/ \E c \in DOMAIN state : Picks(c)
        \/ GoTo("off") /\ UNCHANGED state
    BY Zenon DEF PickCard
  <1> QED BY <1>1, <1>2, <1>3, <1>4

\* So does making its branch.
LEMMA CreateEvident ==
    ASSUME Known, CreateCardBranch
    PROVE  Evident' /\ NoneGetsDone
  <1>1. Stay /\ hand'.card = hand.card /\ hand.at = "create"
    BY CreateKnown DEF CreateCardBranch
  <1>2. This \in Items /\ ledger \in Seq(Entries)
    BY <1>1, AtGit DEF Known, Typed
  <1>3. CASE GitFails(ledger)
    BY <1>2, <1>3, FailureIs, EvidentElsewhere DEF NoneGetsDone, Attempting
  <1>4. CASE ~GitFails(ledger)
    <2>1. GoTo(AfterBranch(This)) /\ UNCHANGED state
      BY <1>4 DEF CreateCardBranch
    <2> DEFINE s == AfterBranch(This)
    <2>2. s \in {"baseline", "start"} /\ (s = "start" => ~NeedsTests(This))
      BY DEF AfterBranch
    <2> HIDE DEF s
    <2>3. s \in Working
      BY <2>2 DEF Working
    <2>4. hand'.at = s
      BY <2>1, <2>3, GoesTo DEF s, Known
    <2>5. CASE s = "start"
      <3>1. ~NeedsTests(This)'
        BY <1>1, <2>2, <2>5 DEF NeedsTests, KindOf, This, Stay
      <3> QED BY <2>1, <2>4, <2>5, <3>1, EvidentAtStart DEF NoneGetsDone
    <2>6. CASE s # "start"
      <3>1. hand'.at \notin Attempting
        BY <2>2, <2>4, <2>6 DEF Attempting
      <3> QED BY <2>1, <3>1, EvidentElsewhere DEF NoneGetsDone
    <2> QED BY <2>5, <2>6
  <1> QED BY <1>3, <1>4

\* Settling a card makes none done, unless that is its new status.
LEMMA SettledEvident ==
    ASSUME Known, Stay, UNCHANGED <<ledger, git>>, This \in Items,
           NEW k \in CardStates, SettleAs(k), k.status # "done"
    PROVE  Evident' /\ NoneGetsDone
  <1>1. /\ hand'.at = "pick" /\ state'[This] = k
        /\ \A c \in Items \ {This} : state'[c] = state[c]
    BY SettledKnown
  <1> QED BY <1>1, EvidentElsewhere DEF NoneGetsDone, Attempting

\* The tests before the work let a card start only if they failed.
LEMMA BaselineEvident ==
    ASSUME Known, UseBaseline \/ TestsAnswered \/ RunBaseline
    PROVE  Evident' /\ NoneGetsDone
  <1>1. hand.at \in {"baseline", "tests", "red"}
    BY Zenon DEF UseBaseline, TestsAnswered, RunBaseline
  <1>2. Stay /\ UNCHANGED <<ledger, git>>
    BY Zenon DEF UseBaseline, TestsAnswered, RunBaseline
  <1>3. hand.at \in Working
    BY <1>1 DEF Working
  <1>4. This \in Items /\ state[This] \in CardStates /\ state \in [Items -> CardStates]
        /\ state[This].status = "in_progress" /\ hand \in Hands /\ Typed
    BY <1>3, AtCard
  <1>5. {"start", "tests"} \subseteq Working
    BY DEF Working
  <1>6. CASE UseBaseline
    <2>1. CASE SettleAs([state[This] EXCEPT !.status = "blocked"])
      <3>1. [state[This] EXCEPT !.status = "blocked"] \in CardStates
            /\ [state[This] EXCEPT !.status = "blocked"].status = "blocked"
        BY <1>4 DEF CardStates
      <3> QED BY <1>2, <1>4, <2>1, <3>1, SettledEvident
    <2>2. CASE GoTo("start") /\ UNCHANGED state /\ state[This].tests /\ state[This].red
      <3>1. hand'.at = "start" /\ hand'.card = hand.card
        BY <1>4, <1>5, <2>2, GoesTo
      <3> QED BY <2>2, <3>1, EvidentAtStart DEF NoneGetsDone, This
    <2>3. CASE GoTo("tests") /\ UNCHANGED state
      <3>1. hand'.at = "tests"
        BY <1>4, <1>5, <2>3, GoesTo
      <3> QED BY <2>3, <3>1, EvidentElsewhere DEF NoneGetsDone, Attempting
    <2> QED BY <1>6, <2>1, <2>2, <2>3 DEF UseBaseline
  <1>7. CASE TestsAnswered
    <2>1. PICK got \in {"tests", "unfinished", "nothing"} :
             hand' = [hand EXCEPT !.at = "red", !.answer = got]
      BY <1>7 DEF TestsAnswered
    <2>2. hand'.at = "red" /\ UNCHANGED state
      BY <1>4, <1>7, <2>1 DEF Hands, TestsAnswered
    <2> QED BY <2>2, EvidentElsewhere DEF NoneGetsDone, Attempting
  <1>8. CASE RunBaseline
    <2>1. PICK late \in BOOLEAN :
          LET commands == hand.answer # "nothing"
              failed == commands /\ (late \/ ~TestsPass)
              accepted == \/ hand.answer = "tests" /\ (failed \/ ~job.strict)
                          \/ ~commands /\ job.lenient
          IN  IF accepted
              THEN /\ state' = [state EXCEPT ![This] =
                                  [state[This] EXCEPT !.tests = commands, !.red = failed]]
                   /\ GoTo("start")
              ELSE SettleAs([state[This] EXCEPT !.status = "blocked", !.passed = FALSE,
                                              !.tests = commands, !.red = failed])
      BY <1>8, Zenon DEF RunBaseline
    <2> DEFINE t == hand.answer # "nothing"
               r == t /\ (late \/ ~TestsPass)
               accepted == \/ hand.answer = "tests" /\ (r \/ ~job.strict)
                           \/ ~t /\ job.lenient
               k == [state[This] EXCEPT !.tests = t, !.red = r]
               s == [state[This] EXCEPT !.status = "blocked", !.passed = FALSE,
                                        !.tests = t, !.red = r]
    <2>2. accepted /\ job.strict /\ ~job.lenient => t /\ r
      OBVIOUS
    <2>3. t \in BOOLEAN /\ r \in BOOLEAN
      OBVIOUS
    <2>4. IF accepted THEN state' = [state EXCEPT ![This] = k] /\ GoTo("start")
          ELSE SettleAs(s)
      BY <2>1
    <2> HIDE DEF t, r, accepted
    <2>5. k \in CardStates /\ k.status = "in_progress" /\ k.tests = t /\ k.red = r
          /\ s \in CardStates /\ s.status = "blocked"
      BY <1>4, <2>3 DEF CardStates
    <2> HIDE DEF k, s
    <2>6. CASE accepted
      <3>1. /\ state'[This] = k /\ \A c \in Items \ {This} : state'[c] = state[c]
        BY <1>4, <2>4, <2>6
      <3>2. hand'.at = "start" /\ hand'.card = hand.card
        BY <1>4, <1>5, <2>4, <2>6, GoesTo
      <3>3. (NeedsTests(This) /\ job.strict /\ ~job.lenient
               => state[This].tests /\ state[This].red)'
        BY <1>2, <2>2, <2>5, <2>6, <3>1, <3>2 DEF This, Stay
      <3> QED BY <2>5, <3>1, <3>2, <3>3, EvidentAtStart DEF NoneGetsDone
    <2>7. CASE ~accepted
      BY <1>2, <1>4, <2>4, <2>5, <2>7, SettledEvident
    <2> QED BY <2>6, <2>7
  <1> QED BY <1>6, <1>7, <1>8

\* The tests of a card at work are as they were before.
LEMMA TestsStay ==
    ASSUME Evident, hand.at \in Attempting, job' = job, hand'.card = hand.card,
           state'[This].tests = state[This].tests, state'[This].red = state[This].red
    PROVE  TestsCameFirst'
  BY DEF Evident, TestsCameFirst, Attempting, NeedsTests, KindOf, This

\* The first look shows the files as they were found.
LEMMA SnapshotEvident ==
    ASSUME Known, Evident, TakeSnapshot
    PROVE  Evident' /\ NoneGetsDone
  <1>1. /\ hand.at = "start" /\ Stay /\ UNCHANGED <<state, ledger, git>>
        /\ hand' = [hand EXCEPT !.at = "turn", !.mode = "first", !.left = job.repairs,
                            !.before = Snapshot, !.found = git.work]
    BY DEF TakeSnapshot
  <1>2. hand'.at = "turn" /\ hand'.card = hand.card /\ hand'.before = Snapshot
        /\ hand'.found = git.work
    BY <1>1 DEF Known, Typed, Hands
  <1>3. Snapshot = Shown(git.work)
    BY SnapshotIs DEF Known
  <1>4. FoundIsShown'
    <2>1. Shown(hand.found)' = Shown(git.work)
      BY <1>1, <1>2 DEF Shown, TipOf
    <2> QED BY <1>1, <1>2, <1>3, <2>1 DEF FoundIsShown
  <1>5. TestsCameFirst'
    BY <1>1, <1>2, TestsStay DEF Attempting, Stay
  <1> QED BY <1>1, <1>2, <1>4, <1>5 DEF Evident, ChangesAreShown, NoneGetsDone

\* A turn's edits are among the files it wrote.
LEMMA EditsEvident ==
    ASSUME Known, Evident, ProviderEdits
    PROVE  Evident' /\ NoneGetsDone
  <1>1. /\ UNCHANGED <<job, state, ledger>> /\ hand'.at = hand.at /\ hand'.card = hand.card
        /\ hand'.calm = hand.calm /\ hand'.before = hand.before /\ hand'.after = hand.after
        /\ hand'.found = hand.found
        /\ git'.tips = git.tips /\ git'.branch = git.branch
    BY EditsKnown
  <1>2. PICK f \in Files, v \in Contents :
                 /\ git'.work = [git.work EXCEPT ![f] = v]
                 /\ hand'.wrote = IF hand.at = "turn" THEN hand.wrote \cup {f}
                                  ELSE hand.wrote
    BY EditsKnown
  <1>3. hand.at \in {"tests", "turn", "repair"} /\ git.work \in Trees
    BY DEF ProviderEdits, Known, Typed, Repositories
  <1>4. CASE hand.at = "turn"
    <2>1. \A e \in Files \ hand'.wrote : git'.work[e] = git.work[e] /\ e \notin hand.wrote
      BY <1>2, <1>3, <1>4 DEF Trees
    <2>2. Shown(hand.found)' = Shown(hand.found)
      BY <1>1 DEF Shown, TipOf
    <2>3. FoundIsShown'
      BY <1>1, <1>4, <2>1, <2>2 DEF Evident, FoundIsShown
    <2>4. TestsCameFirst'
      BY <1>1, <1>4, TestsStay DEF Attempting
    <2> QED BY <1>1, <1>4, <2>3, <2>4 DEF Evident, ChangesAreShown, NoneGetsDone
  <1>5. CASE hand.at = "repair"
    <2>1. hand'.wrote = hand.wrote
      BY <1>2, <1>5
    <2>2. TestsCameFirst'
      BY <1>1, <1>5, TestsStay DEF Attempting
    <2> QED BY <1>1, <1>5, <2>1, <2>2 DEF Evident, ChangesAreShown, FoundIsShown, NoneGetsDone
  <1>6. CASE hand.at = "tests"
    BY <1>1, <1>6, EvidentElsewhere DEF Attempting, NoneGetsDone
  <1> QED BY <1>3, <1>4, <1>5, <1>6

\* The end of a turn, and another one, leave what was seen.
LEMMA TurnEvident ==
    ASSUME Known, Evident, TurnEnds
    PROVE  Evident' /\ NoneGetsDone
  <1>1. /\ hand.at = "turn" /\ Stay /\ UNCHANGED <<ledger, git>>
        /\ \A c \in Items \ {This} : state'[c] = state[c]
        /\ state'[This].status # "done" /\ hand'.card = hand.card
        /\ TurnGoesOn \/ TurnFails \/ TurnReports
        /\ TurnGoesOn \/ TurnReports =>
                /\ state'[This].tests = state[This].tests
                /\ state'[This].red = state[This].red
                /\ hand'.calm = hand.calm /\ hand'.before = hand.before
                /\ hand'.found = hand.found /\ hand'.wrote = hand.wrote
    <2>1. hand.at = "turn"
      BY DEF TurnEnds
    <2> QED BY <2>1, TurnKnown
  <1>2. NoneGetsDone
    BY <1>1 DEF NoneGetsDone
  <1>3. CASE TurnFails
    <2>1. hand'.at = "pick"
      BY <1>3, GoesTo DEF TurnFails, SettleAs, Known
    <2> QED BY <1>2, <2>1, EvidentElsewhere DEF Attempting
  <1>4. CASE TurnGoesOn \/ TurnReports
    <2>1. hand'.at \in {"turn", "report"}
      BY <1>4 DEF TurnGoesOn, TurnReports
    <2>2. TestsCameFirst'
      BY <1>1, <1>4, TestsStay DEF Attempting, Stay
    <2>3. Shown(hand.found)' = Shown(hand.found)
      BY <1>1, <1>4 DEF Shown, TipOf
    <2>4. FoundIsShown'
      BY <1>1, <1>4, <2>3 DEF Evident, FoundIsShown
    <2> QED BY <1>2, <2>1, <2>2, <2>4 DEF Evident, ChangesAreShown
  <1> QED BY <1>1, <1>3, <1>4

\* The second look shows which files no turn wrote.
LEMMA RecordEvident ==
    ASSUME Known, Evident, RecordChanges
    PROVE  Evident' /\ NoneGetsDone
  <1>1. /\ hand.at = "report" /\ Stay /\ UNCHANGED <<ledger, git>>
        /\ \A c \in Items \ {This} : state'[c] = state[c]
        /\ state'[This].status # "done" /\ hand'.card = hand.card
        /\ ChangesRecorded \/ AttemptBlocked
    <2>1. hand.at = "report"
      BY DEF RecordChanges
    <2> QED BY <2>1, RecordKnown
  <1>2. NoneGetsDone
    BY <1>1 DEF NoneGetsDone
  <1>3. CASE AttemptBlocked
    <2>1. hand'.at = "pick"
      BY <1>3, GoesTo DEF AttemptBlocked, SettleAs, Known
    <2> QED BY <1>2, <2>1, EvidentElsewhere DEF Attempting
  <1>4. CASE ChangesRecorded
    <2>1. TestsCameFirst'
      BY <1>1, <1>4, TestsStay DEF Attempting, Stay, ChangesRecorded
    <2>2. ASSUME hand.calm
          PROVE  \A f \in Files : /\ hand.before[f].hash = hand.found[f]
                                  /\ f \notin hand.wrote => Snapshot[f] = hand.before[f]
      <3>1. hand.before = Shown(hand.found) /\ Snapshot = Shown(git.work)
            /\ \A f \in Files \ hand.wrote : git.work[f] = hand.found[f]
        BY <1>1, <2>2, SnapshotIs DEF Known, Evident, FoundIsShown
      <3> QED BY <3>1 DEF Shown
    <2>3. ChangesAreShown'
      BY <1>4, <2>2 DEF ChangesRecorded, ChangesAreShown
    <2> QED BY <1>2, <1>4, <2>1, <2>3 DEF Evident, FoundIsShown, ChangesRecorded
  <1> QED BY <1>1, <1>3, <1>4

\* Putting a result right leaves both looks as they were.
LEMMA RepairEvident ==
    ASSUME Known, Evident, ResultRepaired
    PROVE  Evident' /\ NoneGetsDone
  <1>1. /\ hand.at = "repair" /\ Stay /\ UNCHANGED <<state, ledger, git>>
        /\ hand'.at = "check"
        /\ hand'.card = hand.card /\ hand'.calm = hand.calm /\ hand'.after = hand.after
        /\ hand'.before = hand.before /\ hand'.found = hand.found
        /\ hand'.wrote = hand.wrote
    <2>1. hand.at = "repair"
      BY DEF ResultRepaired
    <2> QED BY <2>1, RepairKnown
  <1>2. TestsCameFirst'
    BY <1>1, TestsStay DEF Attempting, Stay
  <1>3. ChangesAreShown'
    BY <1>1 DEF Evident, ChangesAreShown
  <1> QED BY <1>1, <1>2, <1>3 DEF Evident, FoundIsShown, NoneGetsDone

\* What a step of git leaves behind is evident, and makes no card done.
LEMMA GitEvident ==
    ASSUME Known, CheckTree \/ ReadBase \/ CommandFails \/ CommitGroup \/ SwitchBack
                  \/ MergeGroup \/ PushGroup
    PROVE  Evident' /\ NoneGetsDone
  <1>1. CASE CheckTree
    <2>1. This \in Items /\ Append(ledger, NewEntry) \in Seq(Entries)
      BY <1>1, NewEntryIs DEF Known, HasACard, Working, CheckTree
    <2> DEFINE l == Append(ledger, NewEntry)
    <2>2. (hand'.at = "base" /\ UNCHANGED state) \/ GitFails(l)
      BY <1>1, TreeKnown
    <2> HIDE DEF l
    <2>3. GitFails(l) => hand'.at = "off" /\ NoneGetsDone
      BY <2>1, FailureIs DEF NoneGetsDone, l
    <2> QED BY <2>2, <2>3, EvidentElsewhere DEF Attempting, NoneGetsDone
  <1>2. CASE ReadBase
    BY <1>2, ReadBaseKnown, EvidentElsewhere DEF Attempting, NoneGetsDone
  <1>3. ASSUME GitFails(ledger), hand.at \in Ending \cup {"base", "create"}
        PROVE  Evident' /\ NoneGetsDone
    <2>1. This \in Items /\ ledger \in Seq(Entries)
      BY <1>3, AtGit DEF Known, Typed
    <2>2. hand'.at = "off" /\ NoneGetsDone
      BY <1>3, <2>1, FailureIs DEF NoneGetsDone
    <2> QED BY <2>2, EvidentElsewhere DEF Attempting
  <1>4. CASE CommandFails
    BY <1>3, <1>4, CommandKnown
  <1>5. CASE CommitGroup
    <2>1. hand.at \in Ending
      BY <1>5 DEF CommitGroup, Ending
    <2> QED BY <1>3, <1>5, <2>1, CommitKnown, EvidentElsewhere
            DEF GroupCommitted, Attempting, NoneGetsDone
  <1>6. CASE SwitchBack
    <2>1. hand.at \in Ending
      BY <1>6 DEF SwitchBack, Ending
    <2> QED BY <1>3, <1>6, <2>1, BackKnown, EvidentElsewhere
            DEF SwitchedBack, Attempting, NoneGetsDone
  <1>7. CASE MergeGroup
    <2>1. hand.at \in Ending
      BY <1>7 DEF MergeGroup, Ending
    <2> QED BY <1>3, <1>7, <2>1, MergeKnown, EvidentElsewhere
            DEF Joined, Attempting, NoneGetsDone
  <1>8. CASE PushGroup
    <2>1. hand.at \in Ending
      BY <1>8 DEF PushGroup, Ending
    <2> QED BY <1>3, <1>8, <2>1, PushKnown, EvidentElsewhere
            DEF Pushed, Attempting, NoneGetsDone
  <1> QED BY <1>1, <1>2, <1>4, <1>5, <1>6, <1>7, <1>8

\* Once others touched the repository the looks are worth nothing.
LEMMA OthersEvident ==
    ASSUME Known, Evident,
           OthersEdit \/ OthersSwitch \/ OthersCommit \/ OthersPush
    PROVE  Evident' /\ NoneGetsDone
  <1>1. /\ hand'.calm = FALSE /\ hand'.at = hand.at
        /\ hand'.card = hand.card /\ UNCHANGED <<job, state, ledger>>
    BY OthersKnown
  <1>2. TestsCameFirst'
    BY <1>1 DEF Evident, TestsCameFirst, NeedsTests, KindOf, This
  <1> QED BY <1>1, <1>2 DEF Evident, FoundIsShown, ChangesAreShown, NoneGetsDone

\* Judgment: what is done and passed was earned.
LEMMA JudgeEarns ==
    ASSUME Known, Evident, JudgeResult
    PROVE  Evident' /\ EarnsDone
  <1>1. Stay /\ UNCHANGED <<ledger, git>> /\ Graded /\ hand'.card = hand.card
    BY JudgeKnown
  <1>2. hand.at = "check" /\ This \in Items /\ DOMAIN state = Items
    BY DEF JudgeResult, Known, HasACard, Working, Typed
  <1>3. hand'.at \in {"finalize", "pick"}
    BY <1>1 DEF Graded
  <1>4. Evident'
    BY <1>3, EvidentElsewhere DEF Attempting
  <1>5. SUFFICES ASSUME state'[This].status = "done", state'[This].passed
                 PROVE  /\ job.scripts => ScriptsPass
                        /\ NeedsTests(This) /\ job.strict /\ ~job.lenient
                              => state[This].red /\ TestsPass
                        /\ job.hier /\ hand.calm =>
                              /\ KindOf(This) \in Making => hand.wrote # {}
                              /\ KindOf(This) \in Checking =>
                                    \A f \in Files : hand.after[f].hash = hand.found[f]
    BY <1>1, <1>2, <1>4 DEF EarnsDone, Graded
  <1>6. /\ state[This].tests /\ KindOf(This) # "qa" => TestsPass
        /\ job.scripts => ScriptsPass
        /\ EvidenceHolds
    BY <1>1, <1>5 DEF Graded
  <1>7. NeedsTests(This) /\ job.strict /\ ~job.lenient => state[This].red /\ TestsPass
    <2> SUFFICES ASSUME NeedsTests(This), job.strict, ~job.lenient
                 PROVE  state[This].red /\ TestsPass
      OBVIOUS
    <2>1. state[This].tests /\ state[This].red
      BY <1>2 DEF Evident, TestsCameFirst
    <2>2. KindOf(This) # "qa"
      BY DEF NeedsTests
    <2> QED BY <1>6, <2>1, <2>2
  <1>8. ASSUME job.hier, hand.calm
        PROVE  /\ KindOf(This) \in Making => hand.wrote # {}
               /\ KindOf(This) \in Checking =>
                     \A f \in Files : hand.after[f].hash = hand.found[f]
    <2>1. \A f \in Files : /\ hand.before[f].hash = hand.found[f]
                           /\ f \notin hand.wrote => hand.after[f] = hand.before[f]
      BY <1>2, <1>8 DEF Evident, ChangesAreShown
    <2>2. ASSUME KindOf(This) \in Making, hand.wrote = {}
          PROVE  FALSE
      <3>1. Changed(hand.before, hand.after) = {} /\ Strays(hand.before, hand.after) = {}
        BY <2>1, <2>2 DEF Changed, Strays
      <3>2. ~Owned
        BY <3>1 DEF Owned, Attributable
      <3> QED BY <1>6, <1>8, <2>2, <3>2 DEF EvidenceHolds
    <2>3. ASSUME KindOf(This) \in Checking
          PROVE  \A f \in Files : hand.after[f].hash = hand.found[f]
      <3>1. ~Violations(KindOf(This), hand.before, hand.after)
        BY <1>6, <1>8 DEF EvidenceHolds
      <3>2. ~Touched(hand.before, hand.after)
        BY <2>3, <3>1 DEF Violations, Checking
      <3>3. Changed(hand.before, hand.after) = {}
        BY <3>2 DEF Touched
      <3>4. \A f \in Files : hand.before[f].hash = hand.after[f].hash
        BY <3>3 DEF Changed
      <3> QED BY <2>1, <3>4
    <2> QED BY <2>2, <2>3
  <1> QED BY <1>6, <1>7, <1>8

\* Nothing was seen when a board is started.
LEMMA EvidentFirst == AttemptInit => Evident
  <1>1. ASSUME AttemptInit PROVE hand.at = "pick"
    BY <1>1 DEF AttemptInit, Resting
  <1> QED BY <1>1 DEF Evident, TestsCameFirst, FoundIsShown, ChangesAreShown

\* Every step keeps what was seen, and a card it makes done has earned it.
LEMMA EvidentNext ==
    ASSUME Known, Evident, [AttemptNext]_attemptVars
    PROVE  Evident' /\ EarnsDone
  <1>1. CASE PickCard
    BY <1>1, PickEvident, NothingToEarn
  <1>2. CASE CheckTree \/ ReadBase \/ CommandFails \/ CommitGroup \/ SwitchBack
             \/ MergeGroup \/ PushGroup
    BY <1>2, GitEvident, NothingToEarn
  <1>3. CASE CreateCardBranch
    BY <1>3, CreateEvident, NothingToEarn
  <1>4. CASE UseBaseline \/ TestsAnswered \/ RunBaseline
    BY <1>4, BaselineEvident, NothingToEarn
  <1>5. CASE TakeSnapshot
    BY <1>5, SnapshotEvident, NothingToEarn
  <1>6. CASE ProviderEdits
    BY <1>6, EditsEvident, NothingToEarn
  <1>7. CASE TurnEnds
    BY <1>7, TurnEvident, NothingToEarn
  <1>8. CASE RecordChanges
    BY <1>8, RecordEvident, NothingToEarn
  <1>9. CASE ResultRepaired
    BY <1>9, RepairEvident, NothingToEarn
  <1>10. CASE JudgeResult
    BY <1>10, JudgeEarns
  <1>11. CASE RetryAttention
    BY <1>11, RetryKnown, EvidentElsewhere, NothingToEarn DEF NoneGetsDone, Attempting
  <1>12. CASE OthersEdit \/ OthersSwitch \/ OthersCommit \/ OthersPush
    BY <1>12, OthersEvident, NothingToEarn
  <1>13. CASE UNCHANGED attemptVars
    <2>1. UNCHANGED <<job, state, ledger, hand, git, noise>>
      BY <1>13 DEF attemptVars
    <2>2. TestsCameFirst' /\ ChangesAreShown'
      BY <2>1 DEF Evident, TestsCameFirst, ChangesAreShown, NeedsTests, KindOf, This
    <2>3. Shown(hand.found)' = Shown(hand.found)
      BY <2>1 DEF Shown, TipOf
    <2>4. FoundIsShown'
      BY <2>1, <2>3 DEF Evident, FoundIsShown
    <2>5. NoneGetsDone
      BY <2>1 DEF NoneGetsDone
    <2> QED BY <2>2, <2>4, <2>5, NothingToEarn DEF Evident
  <1> QED BY <1>1, <1>2, <1>3, <1>4, <1>5, <1>6, <1>7, <1>8, <1>9, <1>10, <1>11, <1>12,
             <1>13 DEF AttemptNext

\* A card becomes done and passed only with validation on its work, with tests
\* that failed before it where they come first, and on a hierarchical board with
\* work done for it, or nothing left behind where it only checks: whatever turns
\* its attempt took (apply_completion_evidence_gate in completion.rs, and the
\* turns in execution.rs before it).
THEOREM DoneEarned == AttemptSpec => DoneIsEarned
  <1>1. AttemptInit => Known /\ Evident
    BY KnownFirst, EvidentFirst
  <1>2. Known /\ Evident /\ [AttemptNext]_attemptVars => Known' /\ Evident'
    BY KnownNext, EvidentNext
  <1>3. AttemptSpec => [](Known /\ Evident)
    BY <1>1, <1>2, PTL DEF AttemptSpec
  <1>4. Known /\ Evident /\ [AttemptNext]_attemptVars => [EarnsDone]_attemptVars
    BY EvidentNext
  <1> QED BY <1>3, <1>4, PTL DEF AttemptSpec, DoneIsEarned

-----------------------------------------------------------------------------
(* Histories of branches.                                                  *)

\* One history extends another if it begins like it.
LEMMA ExtendsIs ==
    ASSUME NEW S, NEW s \in Seq(S), NEW t \in Seq(S)
    PROVE  Extends(s, t) <=> Len(t) <= Len(s) /\ \A i \in 1..Len(t) : s[i] = t[i]
  <1>1. CASE Len(t) <= Len(s)
    <2> DEFINE b == SubSeq(s, 1, Len(t))
    <2>1. b \in Seq(S) /\ Len(b) = Len(t) /\ \A i \in 1..Len(t) : b[i] = s[i]
      BY <1>1
    <2> HIDE DEF b
    <2>2. b = t <=> \A i \in 1..Len(t) : s[i] = t[i]
      <3>1. b \in [1..Len(t) -> S] /\ t \in [1..Len(t) -> S]
        BY <2>1
      <3>2. (\A i \in 1..Len(t) : b[i] = t[i]) => b = t
        BY <3>1
      <3>3. (\A i \in 1..Len(t) : b[i] = t[i]) <=> (\A i \in 1..Len(t) : s[i] = t[i])
        BY <2>1
      <3> QED BY <3>2, <3>3
    <2> QED BY <1>1, <2>2 DEF Extends, b
  <1>2. CASE ~(Len(t) <= Len(s))
    BY <1>2 DEF Extends
  <1> QED BY <1>1, <1>2

\* A history extends itself.
LEMMA ExtendsItself ==
    ASSUME NEW S, NEW s \in Seq(S)
    PROVE  Extends(s, s)
  BY ExtendsIs

\* What extends an extension extends the whole.
LEMMA ExtendsOn ==
    ASSUME NEW S, NEW r \in Seq(S), NEW s \in Seq(S), NEW t \in Seq(S),
           Extends(r, s), Extends(s, t)
    PROVE  Extends(r, t)
  <1>1. Len(s) <= Len(r) /\ \A i \in 1..Len(s) : r[i] = s[i]
    BY ExtendsIs
  <1>2. Len(t) <= Len(s) /\ \A i \in 1..Len(t) : s[i] = t[i]
    BY ExtendsIs
  <1>3. Len(t) <= Len(r) /\ \A i \in 1..Len(t) : r[i] = t[i]
    BY <1>1, <1>2
  <1> QED BY <1>3, ExtendsIs

\* One more commit extends a history.
LEMMA LongerExtends ==
    ASSUME NEW S, NEW s \in Seq(S), NEW x \in S
    PROVE  Extends(Append(s, x), s) /\ Append(s, x) \in Seq(S)
  <1>1. Append(s, x) \in Seq(S) /\ Len(s) <= Len(Append(s, x))
        /\ \A i \in 1..Len(s) : Append(s, x)[i] = s[i]
    OBVIOUS
  <1> QED BY <1>1, ExtendsIs

-----------------------------------------------------------------------------
(* How far a group is.                                                     *)

\* An entry of the ledger has its type.
LEMMA EntryIs ==
    ASSUME Known, NEW i \in DOMAIN ledger
    PROVE  /\ ledger[i] \in Entries /\ ledger[i].group \in Groups
           /\ ledger[i].base \in Branches /\ ledger[i].branch \in Branches
           /\ ledger[i].status \in {"running", "failed", "completed"}
           /\ ledger[i].commit \in BOOLEAN
  <1>1. ledger[i] \in Entries
    BY DEF Known, Typed
  <1> QED BY <1>1 DEF Entries

\* The entry the code finds for a group is the only one.
LEMMA OnlyEntry ==
    ASSUME Known, OneEntry, NEW i \in DOMAIN ledger
    PROVE  EntryOf(ledger[i].group) = i
  <1>1. ledger[i].group \in Groups
    BY EntryIs
  <1>2. i \in EntriesOf(ledger[i].group)
    BY DEF EntriesOf
  <1>3. EntryOf(ledger[i].group) \in DOMAIN ledger
        /\ ledger[EntryOf(ledger[i].group)].group = ledger[i].group
    BY <1>1, <1>2, OldestIs DEF Known
  <1> QED BY <1>3 DEF OneEntry

\* The same of every entry.
LEMMA OnlyEntries == Known /\ OneEntry => \A i \in DOMAIN ledger : EntryOf(ledger[i].group) = i
  BY OnlyEntry

\* While a card is worked on, the cards and the ledger show no group further
\* than it is.
LEMMA AttemptDelivers ==
    ASSUME Known, Known', OnItsWay, hand.at \in Working \ {"tree", "base", "create"},
           UNCHANGED <<job, ledger>>, git'.tips = git.tips, hand'.card = hand.card,
           \A c \in Items \ {This} : state'[c] = state[c],
           \/ hand'.at \in Working \ {"tree", "base", "create"}
           \/ hand'.at = "pick" /\ state'[This].status # "done"
           \/ Graded
    PROVE  OnItsWay'
  <1>1. /\ This \in Items /\ state[This].status = "in_progress" /\ This' = This
        /\ ThisGroup' = ThisGroup /\ Items' = Items /\ \A c \in Items : GroupOf(c)' = GroupOf(c)
    BY AtCard DEF This, ThisGroup, GroupOf, Items
  <1>2. hand.at \notin Ending \cup {"tree", "base", "create", "pick", "off"}
    BY DEF Working, Ending
  <1>3. hand'.at \in (Working \ {"tree", "base", "create"}) \cup {"finalize", "pick"}
        /\ hand'.at \notin {"tree", "base", "create", "off", "back", "merge", "push"}
    BY DEF Graded, Working
  <1>4. OneEntry' /\ OnlyManaged' /\ BranchIsNew'
    BY <1>3 DEF OnItsWay, OneEntry, OnlyManaged, BranchIsNew
  <1>5. \A i \in DOMAIN ledger : ledger[i].status # "failed"
    BY <1>2 DEF OnItsWay, FailureStops
  <1>6. FailureStops'
    BY <1>5 DEF FailureStops
  <1>7. \A i \in DOMAIN ledger : ledger[i].branch # 0
    BY <1>2, <1>5 DEF OnItsWay, OwnBranch
  <1>8. OwnBranch'
    BY <1>1, <1>7 DEF OnItsWay, OwnBranch, IsBranch
  <1>9. \A i \in DOMAIN ledger : ledger[i].status = "completed" => ledger[i].group # ThisGroup
    BY <1>1 DEF OnItsWay, CompletedIsFinished, Unfinished, ThisGroup
  <1>10. CompletedIsFinished'
    <2>1. \A i \in DOMAIN ledger, c \in Items :
             ledger[i].status = "completed" /\ GroupOf(c) = ledger[i].group => ~Unfinished(c)'
      BY <1>1, <1>9 DEF OnItsWay, CompletedIsFinished, Unfinished, ThisGroup
    <2> QED BY <1>1, <2>1 DEF CompletedIsFinished
  <1>a. \A i \in DOMAIN ledger : ~(ledger[i].status = "running" /\ ledger[i].commit)
    BY <1>2 DEF OnItsWay, CommitsAtTheEnd, Ending
  <1>b. CommitsAtTheEnd'
    BY <1>a DEF CommitsAtTheEnd
  <1>c. StartsAtBase'
    BY DEF OnItsWay, StartsAtBase, IsBase, Contained
  <1>11. CASE hand'.at = "finalize"
    <2>1. Finishes(This) /\ state'[This].status = "done"
      BY <1>3, <1>11 DEF Graded, Working
    <2>2. Entry.status = "running" /\ \A d \in Items : d # This /\ GroupOf(d) = ThisGroup
                                          => state[d].status \notin {"todo", "in_progress"}
      BY <2>1 DEF Finishes, HasEntry, Entry, ThisGroup, Items
    <2>3. Entry' = Entry
      BY <1>1 DEF Entry, EntryOf, OldestIn
    <2>4. \A c \in Items : GroupOf(c) = ThisGroup => ~Unfinished(c)'
      BY <1>1, <2>1, <2>2 DEF Unfinished
    <2>5. EndingIsFinished'
      BY <1>1, <2>2, <2>3, <2>4 DEF EndingIsFinished
    <2>6. RunningIsUnfinished' /\ EndsInOrder' /\ DoneIsDelivered'
      BY <1>11 DEF RunningIsUnfinished, EndsInOrder, DoneIsDelivered
    <2> QED BY <2>5, <2>6, <1>4, <1>6, <1>8, <1>10, <1>b, <1>c DEF OnItsWay
  <1>12. CASE hand'.at # "finalize"
    <2>1. hand'.at \notin Ending
      BY <1>3, <1>12 DEF Ending, Working
    <2>2. EndingIsFinished' /\ EndsInOrder'
      BY <1>3, <1>12, <2>1 DEF EndingIsFinished, EndsInOrder
    <2>3. RunningIsUnfinished'
      <3> SUFFICES ASSUME hand'.at = "pick", NEW i \in DOMAIN ledger,
                          ledger[i].group = ThisGroup, ledger[i].status = "running"
                   PROVE  \E c \in Items : GroupOf(c) = ThisGroup /\ state'[c].status # "done"
        BY <1>1, <1>3 DEF RunningIsUnfinished
      <3>1. CASE state'[This].status # "done"
        BY <1>1, <3>1 DEF ThisGroup
      <3>2. CASE state'[This].status = "done"
        <4>1. ~Finishes(This)
          BY <1>12, <3>2 DEF Graded, Working
        <4>2. job.managed
          BY DEF OnItsWay, OnlyManaged
        <4>3. EntryOf(ThisGroup) = i /\ EntriesOf(ThisGroup) # {}
          BY OnlyEntry DEF OnItsWay, EntriesOf
        <4>4. HasEntry(GroupOf(This), {"running"})
          BY <4>3 DEF HasEntry, ThisGroup
        <4>5. PICK d \in Items : d # This /\ GroupOf(d) = GroupOf(This)
                                 /\ state[d].status \in {"todo", "in_progress"}
          BY <4>1, <4>2, <4>4 DEF Finishes, Items
        <4> QED BY <4>5 DEF ThisGroup
      <3> QED BY <3>1, <3>2
    <2>4. DoneIsDelivered'
      BY <1>1, <1>9 DEF DoneIsDelivered
    <2> QED BY <2>2, <2>3, <2>4, <1>4, <1>6, <1>8, <1>10, <1>b, <1>c DEF OnItsWay
  <1> QED BY <1>11, <1>12

\* Picking a card leaves the groups where they are.
LEMMA PickDelivers ==
    ASSUME Known, Known', OnItsWay, PickCard
    PROVE  OnItsWay'
  <1>1. hand.at = "pick" /\ UNCHANGED <<job, ledger, git>> /\ Typed
        /\ state \in [Items -> CardStates]
    BY Zenon DEF Known, Typed, PickCard, Stay
  <1>2. Items' = Items /\ \A c \in Items : GroupOf(c)' = GroupOf(c)
    BY <1>1 DEF Items, GroupOf
  <1>3. \A i \in DOMAIN ledger : ledger[i].status # "failed"
    BY <1>1 DEF OnItsWay, FailureStops
  <1>4. \A i \in DOMAIN ledger : ledger[i].branch # 0
    BY <1>1, <1>3 DEF OnItsWay, OwnBranch
  <1>5. OneEntry' /\ OnlyManaged' /\ FailureStops' /\ OwnBranch' /\ StartsAtBase'
    BY <1>1, <1>2, <1>3, <1>4 DEF OnItsWay, OneEntry, OnlyManaged, FailureStops, OwnBranch,
       StartsAtBase, IsBase, Contained, IsBranch
  <1>6. \A i \in DOMAIN ledger : ~(ledger[i].status = "running" /\ ledger[i].commit)
    BY <1>1 DEF OnItsWay, CommitsAtTheEnd
  <1>7. CommitsAtTheEnd'
    BY <1>1, <1>6 DEF CommitsAtTheEnd
  <1>8. ASSUME NEW c \in Items, state[c].status = "todo", Picks(c)
        PROVE  OnItsWay'
    <2> DEFINE k == [state[c] EXCEPT !.status = "in_progress", !.tries = @ + 1]
               s == IF NeedsBranch(c) THEN "tree" ELSE AfterBranch(c)
    <2>1. state' = [state EXCEPT ![c] = k]
      BY <1>8 DEF Picks
    <2>2. \A d \in Items \ {c} : state'[d] = state[d]
      BY <1>1, <2>1
    <2>3. hand' = [Resting EXCEPT !.at = s, !.card = c, !.fell = hand.fell]
      BY <1>8 DEF Picks
    <2>4. s \in {"tree", "baseline", "start"} /\ (s = "tree" => NeedsBranch(c))
      BY DEF AfterBranch
    <2> HIDE DEF s, k
    <2>5. hand'.at = s /\ hand'.card = c
      BY <1>1, <2>3, RestingIs DEF Hands
    <2>6. CompletedIsFinished'
      <3>1. \A i \in DOMAIN ledger : ledger[i].status = "completed" => ledger[i].group # GroupOf(c)
        BY <1>8 DEF OnItsWay, CompletedIsFinished, Unfinished
      <3>2. \A i \in DOMAIN ledger, d \in Items :
               ledger[i].status = "completed" /\ GroupOf(d) = ledger[i].group => ~Unfinished(d)'
        BY <2>2, <3>1 DEF OnItsWay, CompletedIsFinished, Unfinished
      <3> QED BY <1>1, <1>2, <3>2 DEF CompletedIsFinished
    <2>7. BranchIsNew'
      <3> SUFFICES ASSUME s = "tree" PROVE job.managed /\ EntriesOf(GroupOf(c)) = {}
        BY <1>1, <1>2, <2>4, <2>5 DEF BranchIsNew, ThisGroup, This, EntriesOf
      <3>1. job.managed /\ ~HasEntry(GroupOf(c), {"running", "completed"})
        BY <2>4 DEF NeedsBranch
      <3>2. ASSUME EntriesOf(GroupOf(c)) # {}
            PROVE  FALSE
        <4>1. GroupOf(c) \in Groups
          BY <1>1, JobIs DEF Typed
        <4>2. EntryOf(GroupOf(c)) \in DOMAIN ledger
          BY <3>2, <4>1, OldestIs DEF Known
        <4>3. ledger[EntryOf(GroupOf(c))].status \in {"running", "failed", "completed"}
          BY <4>2, EntryIs
        <4> QED BY <1>3, <3>1, <3>2, <4>2, <4>3 DEF HasEntry
      <3> QED BY <3>1, <3>2
    <2>8. EndingIsFinished' /\ RunningIsUnfinished' /\ EndsInOrder' /\ DoneIsDelivered'
      BY <2>4, <2>5 DEF EndingIsFinished, RunningIsUnfinished, EndsInOrder,
         DoneIsDelivered, Ending
    <2> QED BY <1>5, <1>7, <2>6, <2>7, <2>8 DEF OnItsWay
  <1>9. CASE GoTo("off") /\ UNCHANGED state
    <2>1. hand'.at = "off" /\ hand'.card = hand.card
      BY <1>1, <1>9, GoesTo
    <2>2. CompletedIsFinished'
      BY <1>1, <1>2, <1>9 DEF OnItsWay, CompletedIsFinished, Unfinished
    <2>3. RunningIsUnfinished'
      BY <1>1, <1>2, <1>9, <2>1 DEF OnItsWay, RunningIsUnfinished, ThisGroup, This, GroupOf
    <2>4. DoneIsDelivered'
      BY <1>1, <1>2, <1>9, <2>1 DEF OnItsWay, DoneIsDelivered, ThisGroup, This, Delivered,
         WorkIsClean, TipOf, Contained, IsBase, GroupOf
    <2>5. BranchIsNew' /\ EndingIsFinished' /\ EndsInOrder'
      BY <2>1 DEF BranchIsNew, EndingIsFinished, EndsInOrder, Ending
    <2> QED BY <1>5, <1>7, <2>2, <2>3, <2>4, <2>5 DEF OnItsWay
  <1>10. \/ \E c \in Items : state[c].status = "todo" /\ Picks(c)
         \/ GoTo("off") /\ UNCHANGED state
    <2>1. \/ \E c \in {c \in DOMAIN state : state[c].status = "todo"} : Picks(c)
          \/ GoTo("off") /\ UNCHANGED state
      BY Zenon DEF PickCard
    <2> QED BY <1>1, <2>1
  <1> QED BY <1>8, <1>9, <1>10

-----------------------------------------------------------------------------
(* Git, step by step, when nobody interferes.                              *)

\* What a step of git finds in the ledger, or adds to it.
Sound(l) ==
    /\ l \in Seq(Entries) /\ job.managed
    /\ \A i, j \in DOMAIN l : l[i].group = l[j].group => i = j
    /\ \E i \in DOMAIN l : l[i].group = ThisGroup
    /\ \A i \in DOMAIN l :
          /\ l[i].status # "failed"
          /\ IF l[i].branch = 0 THEN l[i].group = ThisGroup
             ELSE /\ l[i].branch \in Items /\ GroupOf(l[i].branch) = l[i].group
                  /\ IsBranch(l[i].branch)
          /\ l[i].status = "completed" =>
                \A c \in Items : GroupOf(c) = l[i].group => ~Unfinished(c)
          /\ l[i].status = "running" /\ l[i].commit => l[i].group = ThisGroup
          /\ /\ l[i].branch # 0 /\ l[i].status = "running" /\ ~l[i].commit
             /\ \A j \in DOMAIN l : l[j].base # l[i].branch
             => Contained(l[i])

\* The ledger is sound when a step of git begins.
LEMMA LedgerIsSound ==
    ASSUME Known, OnItsWay, hand.at \in Ending \cup {"base", "create"}
    PROVE  Sound(ledger)
  <1>1. ledger \in Seq(Entries) /\ hand.at # "off"
    BY DEF Known, Typed, Ending
  <1>2. EntryOf(ThisGroup) \in DOMAIN ledger /\ ledger[EntryOf(ThisGroup)].group = ThisGroup
    BY AtGit
  <1>3. job.managed
    BY <1>1, <1>2 DEF OnItsWay, OnlyManaged
  <1>4. \A i \in DOMAIN ledger : ledger[i].status # "failed"
    BY <1>1 DEF OnItsWay, FailureStops
  <1>5. \A i \in DOMAIN ledger :
           IF ledger[i].branch = 0 THEN ledger[i].group = ThisGroup
           ELSE /\ ledger[i].branch \in Items /\ GroupOf(ledger[i].branch) = ledger[i].group
                /\ IsBranch(ledger[i].branch)
    BY <1>4 DEF OnItsWay, OwnBranch
  <1>6. \A i \in DOMAIN ledger :
           ledger[i].status = "running" /\ ledger[i].commit => ledger[i].group = ThisGroup
    BY DEF OnItsWay, CommitsAtTheEnd
  <1>7. \A i \in DOMAIN ledger :
           /\ ledger[i].branch # 0 /\ ledger[i].status = "running" /\ ~ledger[i].commit
           /\ \A j \in DOMAIN ledger : ledger[j].base # ledger[i].branch
           => Contained(ledger[i])
    BY DEF OnItsWay, StartsAtBase, IsBase
  <1>8. /\ \A i, j \in DOMAIN ledger : ledger[i].group = ledger[j].group => i = j
        /\ \A i \in DOMAIN ledger : ledger[i].status = "completed" =>
              \A c \in Items : GroupOf(c) = ledger[i].group => ~Unfinished(c)
    BY DEF OnItsWay, OneEntry, CompletedIsFinished
  <1> QED BY <1>1, <1>2, <1>3, <1>4, <1>5, <1>6, <1>7, <1>8 DEF Sound

\* It is sound with a new entry, too.
LEMMA NewIsSound ==
    ASSUME Known, OnItsWay, hand.at = "tree"
    PROVE  Sound(Append(ledger, NewEntry))
  <1> DEFINE l == Append(ledger, NewEntry)
             n == Len(ledger) + 1
  <1>1. This \in Items
    BY AtCard DEF Working
  <1>2. /\ l \in Seq(Entries) /\ n \in DOMAIN l /\ n \notin DOMAIN ledger
        /\ DOMAIN l = DOMAIN ledger \cup {n}
        /\ \A i \in DOMAIN ledger : l[i] = ledger[i]
        /\ l[n] = NewEntry
    BY <1>1, NewEntryIs
  <1>3. /\ NewEntry.group = ThisGroup /\ NewEntry.branch = 0 /\ NewEntry.base = 0
        /\ NewEntry.status = "running" /\ NewEntry.commit = FALSE
    BY DEF NewEntry
  <1>4. job.managed /\ \A i \in DOMAIN ledger : ledger[i].group # ThisGroup
    BY DEF OnItsWay, BranchIsNew, EntriesOf
  <1>5. \A i \in DOMAIN ledger : ledger[i].status # "failed"
    BY DEF OnItsWay, FailureStops
  <1>6. \A i \in DOMAIN ledger :
           /\ ledger[i].branch # 0
           /\ ledger[i].branch \in Items /\ GroupOf(ledger[i].branch) = ledger[i].group
           /\ IsBranch(ledger[i].branch)
    BY <1>5 DEF OnItsWay, OwnBranch
  <1>7. \A i \in DOMAIN ledger : ~(ledger[i].status = "running" /\ ledger[i].commit)
    BY DEF OnItsWay, CommitsAtTheEnd
  <1> HIDE DEF l, n
  <1>8. \A i \in DOMAIN l :
           /\ l[i].branch # 0 /\ l[i].status = "running" /\ ~l[i].commit
           /\ \A j \in DOMAIN l : l[j].base # l[i].branch
           => Contained(l[i])
    BY <1>2, <1>3 DEF OnItsWay, StartsAtBase, IsBase
  <1>9. /\ \A i, j \in DOMAIN l : l[i].group = l[j].group => i = j
        /\ \A i \in DOMAIN l : l[i].status = "completed" =>
              \A c \in Items : GroupOf(c) = l[i].group => ~Unfinished(c)
    BY <1>2, <1>3, <1>4 DEF OnItsWay, OneEntry, CompletedIsFinished
  <1>10. \A i \in DOMAIN l :
          /\ l[i].status # "failed"
          /\ IF l[i].branch = 0 THEN l[i].group = ThisGroup
             ELSE /\ l[i].branch \in Items /\ GroupOf(l[i].branch) = l[i].group
                  /\ IsBranch(l[i].branch)
          /\ l[i].status = "running" /\ l[i].commit => l[i].group = ThisGroup
    BY <1>2, <1>3, <1>5, <1>6, <1>7
  <1>11. Sound(l)
    BY <1>2, <1>3, <1>4, <1>8, <1>9, <1>10 DEF Sound
  <1> QED BY <1>11 DEF l

\* A failure stops the board, with the card blocked and its group marked.
LEMMA FailureDelivers ==
    ASSUME Known, Known', This \in Items, NEW l, Sound(l), GitFails(l), Stay
    PROVE  OnItsWay'
  <1>1. l \in Seq(Entries)
    BY DEF Sound
  <1>2. PICK o \in DOMAIN l : l[o].group = ThisGroup
    BY DEF Sound
  <1>3. \A i, j \in DOMAIN l : l[i].group = l[j].group => i = j
    BY DEF Sound
  <1>4. \A i \in DOMAIN l : l[i].group = ThisGroup <=> i = o
    BY <1>2, <1>3
  <1>a. o \in Nat
    BY <1>1, <1>2
  <1>b. o <= o
    BY <1>a
  <1>5. OldestIn(l, ThisGroup) = o
    BY <1>2, <1>4, <1>b DEF OldestIn
  <1>6. /\ state'[This].status = "blocked" /\ \A c \in Items \ {This} : state'[c] = state[c]
        /\ hand'.at = "off" /\ hand'.card = hand.card
        /\ DOMAIN ledger' = DOMAIN l /\ git' = git
        /\ \A i \in DOMAIN l \ {o} : ledger'[i] = l[i]
        /\ ledger'[o] = [l[o] EXCEPT !.status = "failed"]
    BY <1>1, <1>2, <1>5, FailureIs
  <1>7. /\ ledger'[o].status = "failed" /\ ledger'[o].group = l[o].group
        /\ ledger'[o].branch = l[o].branch /\ ledger'[o].base = l[o].base
    <2>1. l[o] \in Entries
      BY <1>1, <1>2, Replaced
    <2> QED BY <1>6, <2>1 DEF Entries
  <1>8. /\ This' = This /\ ThisGroup' = ThisGroup /\ Items' = Items /\ job' = job
        /\ \A c \in Items : GroupOf(c)' = GroupOf(c)
    BY <1>6 DEF This, ThisGroup, GroupOf, Items, Stay
  <1>c. \A i \in DOMAIN l : l[i].group \in Groups /\ l[i].status # "failed"
    <2>1. \A i \in DOMAIN l : l[i] \in Entries
      BY <1>1, Replaced
    <2> QED BY <2>1 DEF Entries, Sound
  <1>d. /\ DOMAIN ledger' = DOMAIN l /\ hand'.at = "off"
        /\ \A i \in DOMAIN l :
              /\ ledger'[i].group = l[i].group /\ ledger'[i].branch = l[i].branch
              /\ ledger'[i].base = l[i].base
              /\ ledger'[i].status = "failed" <=> i = o
              /\ i # o => ledger'[i] = l[i]
    BY <1>6, <1>7, <1>c
  <1>9. OneEntry' /\ OnlyManaged'
    <2>1. job.managed
      BY DEF Sound
    <2>2. OneEntry'
      BY <1>3, <1>d DEF OneEntry
    <2> QED BY <1>8, <2>1, <2>2 DEF OnlyManaged
  <1>10. FailureStops'
    <2>1. \A i \in DOMAIN l : ledger'[i].status = "failed" => ledger'[i].group = ThisGroup
      BY <1>4, <1>d
    <2> QED BY <1>6, <1>8, <1>d, <2>1 DEF FailureStops, ThisGroup
  <1>11. OwnBranch'
    <2>1. \A i \in DOMAIN l : IF l[i].branch = 0 THEN l[i].group = ThisGroup
                              ELSE /\ l[i].branch \in Items
                                   /\ GroupOf(l[i].branch) = l[i].group
                                   /\ IsBranch(l[i].branch)
      BY DEF Sound
    <2>2. \A i \in DOMAIN l : IF ledger'[i].branch = 0 THEN ledger'[i].status = "failed"
                              ELSE /\ ledger'[i].branch \in Items
                                   /\ GroupOf(ledger'[i].branch) = ledger'[i].group
                                   /\ IsBranch(ledger'[i].branch)
      BY <1>4, <1>d, <2>1
    <2>3. \A b : IsBranch(b)' <=> IsBranch(b)
      BY <1>6 DEF IsBranch
    <2> QED BY <1>8, <1>d, <2>2, <2>3 DEF OwnBranch
  <1>12. CompletedIsFinished'
    <2>1. \A c \in Items : Unfinished(c)' => Unfinished(c)
      BY <1>6 DEF Unfinished
    <2>2. \A i \in DOMAIN l : l[i].status = "completed" =>
             \A c \in Items : GroupOf(c) = l[i].group => ~Unfinished(c)
      BY DEF Sound
    <2>3. \A i \in DOMAIN l : ledger'[i].status = "completed" =>
             \A c \in Items : GroupOf(c) = ledger'[i].group => ~Unfinished(c)
      BY <1>d, <2>2
    <2> QED BY <1>8, <1>d, <2>1, <2>3 DEF CompletedIsFinished
  <1>13. BranchIsNew' /\ EndingIsFinished' /\ EndsInOrder'
    BY <1>6 DEF BranchIsNew, EndingIsFinished, EndsInOrder, Ending
  <1>14. RunningIsUnfinished' /\ DoneIsDelivered'
    <2>1. \A i \in DOMAIN l : ledger'[i].group = ThisGroup => ledger'[i].status = "failed"
      BY <1>4, <1>d
    <2> QED BY <1>8, <1>d, <2>1 DEF RunningIsUnfinished, DoneIsDelivered
  <1>15. CommitsAtTheEnd'
    <2>1. \A i \in DOMAIN l : l[i].status = "running" /\ l[i].commit => i = o
      BY <1>4 DEF Sound
    <2>2. \A i \in DOMAIN l : ~(ledger'[i].status = "running" /\ ledger'[i].commit)
      BY <1>d, <2>1
    <2> QED BY <1>d, <2>2 DEF CommitsAtTheEnd
  <1>16. StartsAtBase'
    <2>1. \A i \in DOMAIN l :
             /\ l[i].branch # 0 /\ l[i].status = "running" /\ ~l[i].commit
             /\ \A j \in DOMAIN l : l[j].base # l[i].branch
             => Contained(l[i])
      BY DEF Sound
    <2>2. \A i \in DOMAIN l :
             /\ ledger'[i].branch # 0 /\ ledger'[i].status = "running" /\ ~ledger'[i].commit
             /\ \A j \in DOMAIN l : ledger'[j].base # ledger'[i].branch
             => Contained(ledger'[i])
      BY <1>d, <2>1
    <2> QED BY <1>6, <1>d, <2>2 DEF StartsAtBase, IsBase, Contained
  <1> QED BY <1>9, <1>10, <1>11, <1>12, <1>13, <1>14, <1>15, <1>16 DEF OnItsWay

\* A new entry for the group of the card.
LEMMA TreeDelivers ==
    ASSUME Known, Known', OnItsWay, CheckTree
    PROVE  OnItsWay'
  <1> DEFINE l == Append(ledger, NewEntry)
  <1>1. hand.at = "tree" /\ git' = git /\ Stay /\ hand'.card = hand.card
    BY TreeKnown DEF CheckTree
  <1>2. Sound(l) /\ This \in Items
    BY <1>1, NewIsSound, AtCard DEF Working
  <1> HIDE DEF l
  <1>3. CASE GitFails(l)
    BY <1>1, <1>2, <1>3, FailureDelivers
  <1>4. CASE hand'.at = "base" /\ ledger' = l /\ state' = state
    <2>1. /\ This' = This /\ ThisGroup' = ThisGroup /\ Items' = Items /\ job' = job
          /\ \A c \in Items : GroupOf(c)' = GroupOf(c) /\ Unfinished(c)' = Unfinished(c)
      BY <1>1, <1>4 DEF This, ThisGroup, GroupOf, Items, Stay, Unfinished
    <2>2. /\ \A i, j \in DOMAIN l : l[i].group = l[j].group => i = j
          /\ job.managed
          /\ \A i \in DOMAIN l :
                /\ l[i].status # "failed"
                /\ IF l[i].branch = 0 THEN l[i].group = ThisGroup
                   ELSE /\ l[i].branch \in Items /\ GroupOf(l[i].branch) = l[i].group
                        /\ IsBranch(l[i].branch)
      BY <1>2 DEF Sound
    <2>3. OneEntry' /\ FailureStops' /\ OnlyManaged'
      BY <1>4, <2>1, <2>2 DEF OneEntry, FailureStops, OnlyManaged
    <2>4. OwnBranch'
      BY <1>1, <1>4, <2>1, <2>2 DEF OwnBranch, IsBranch
    <2>5. BranchIsNew'
      <3>1. /\ Len(ledger) + 1 \in DOMAIN ledger' /\ ledger'[Len(ledger) + 1] = NewEntry
            /\ NewEntry.group = ThisGroup
        BY <1>2, <1>4, NewEntryIs DEF l
      <3> DEFINE n == Len(ledger) + 1
      <3> HIDE DEF n
      <3>2. (\A i \in DOMAIN ledger : EntryOf(ledger[i].group) = i)'
        BY <2>3, OnlyEntries, PTL
      <3>3. OldestIn(ledger', ledger'[n].group) = n
        BY <3>1, <3>2 DEF EntryOf, n
      <3>4. Entry' = ledger'[OldestIn(ledger', ThisGroup')]
        BY DEF Entry, EntryOf
      <3>5. Entry' = NewEntry
        BY <2>1, <3>1, <3>3, <3>4 DEF n
      <3> QED BY <1>4, <3>5 DEF BranchIsNew, NewEntry
    <2>6. CompletedIsFinished'
      <3>1. \A i \in DOMAIN l : l[i].status = "completed" =>
               \A c \in Items : GroupOf(c) = l[i].group => ~Unfinished(c)
        BY <1>2 DEF Sound
      <3> QED BY <1>4, <2>1, <3>1 DEF CompletedIsFinished
    <2>7. EndingIsFinished' /\ RunningIsUnfinished' /\ EndsInOrder' /\ DoneIsDelivered'
      BY <1>4 DEF EndingIsFinished, RunningIsUnfinished, EndsInOrder, DoneIsDelivered, Ending
    <2>8. CommitsAtTheEnd'
      <3>1. \A i \in DOMAIN ledger : ~(ledger[i].status = "running" /\ ledger[i].commit)
        BY <1>1 DEF OnItsWay, CommitsAtTheEnd
      <3>2. /\ DOMAIN l = DOMAIN ledger \cup {Len(ledger) + 1}
            /\ \A i \in DOMAIN ledger : l[i] = ledger[i]
            /\ l[Len(ledger) + 1] = NewEntry
        BY <1>2, NewEntryIs DEF l
      <3>3. \A i \in DOMAIN l : ~(l[i].status = "running" /\ l[i].commit)
        BY <3>1, <3>2 DEF NewEntry
      <3> QED BY <1>4, <3>3 DEF CommitsAtTheEnd
    <2>9. StartsAtBase'
      <3>1. \A i \in DOMAIN l :
               /\ l[i].branch # 0 /\ l[i].status = "running" /\ ~l[i].commit
               /\ \A j \in DOMAIN l : l[j].base # l[i].branch
               => Contained(l[i])
        BY <1>2 DEF Sound
      <3> QED BY <1>1, <1>4, <3>1 DEF StartsAtBase, IsBase, Contained
    <2> QED BY <2>3, <2>4, <2>5, <2>6, <2>7, <2>8, <2>9 DEF OnItsWay
  <1> QED BY <1>3, <1>4, TreeKnown DEF l

\* The entry of the card's group stays the same one if groups stay.
LEMMA EntryStays ==
    ASSUME Known, Known', Sound(ledger), LedgerKeeps, This \in Items, Stay,
           hand'.card = hand.card, EntryOf(ThisGroup) \in DOMAIN ledger,
           ledger[EntryOf(ThisGroup)].group = ThisGroup
    PROVE  Entry' = ledger'[EntryOf(ThisGroup)] /\ OneEntry'
  <1> DEFINE o == EntryOf(ThisGroup)
  <1>1. /\ DOMAIN ledger' = DOMAIN ledger /\ o \in DOMAIN ledger
        /\ ledger'[o].group = ThisGroup
        /\ \A i \in DOMAIN ledger : ledger'[i].group = ledger[i].group
    BY DEF LedgerKeeps
  <1>2. ThisGroup' = ThisGroup
    BY DEF This, ThisGroup, GroupOf, Stay
  <1> HIDE DEF o
  <1>3. OneEntry'
    <2>1. \A i, j \in DOMAIN ledger : ledger[i].group = ledger[j].group => i = j
      BY DEF Sound
    <2> QED BY <1>1, <2>1 DEF OneEntry
  <1>4. (\A i \in DOMAIN ledger : EntryOf(ledger[i].group) = i)'
    BY <1>3, OnlyEntries, PTL
  <1>5. OldestIn(ledger', ledger'[o].group) = o
    BY <1>1, <1>4 DEF EntryOf
  <1>6. Entry' = ledger'[OldestIn(ledger', ThisGroup')]
    BY DEF Entry, EntryOf
  <1>7. Entry' = ledger'[o]
    BY <1>1, <1>2, <1>5, <1>6
  <1> QED BY <1>3, <1>7 DEF o

\* A step of git that replaces the entry e of the card's group, or leaves it as it
\* was.
LEMMA StepDelivers ==
    ASSUME Known, Known', Sound(ledger), Stay, UNCHANGED state, LedgerKeeps,
           hand.at \in Ending \cup {"base", "create"}, EndingIsFinished,
           \A i \in DOMAIN ledger \ {EntryOf(ThisGroup)} : ledger'[i] = ledger[i],
           NEW e, e = ledger'[EntryOf(ThisGroup)], e.status \in {"running", "completed"},
           hand'.card = hand.card, hand'.at \notin {"tree", "base", "off"},
           \A b : Len(git.tips[b]) > 0 => Len(git'.tips[b]) > 0,
           IF e.branch = 0 THEN hand'.at = "create"
           ELSE /\ e.branch \in Items /\ GroupOf(e.branch) = ThisGroup
                /\ Len(git'.tips[e.branch]) > 0 /\ hand'.at # "create",
           e.status = "completed" => hand.at \in Ending,
           e.status = "running" => hand'.at # "pick",
           e.status = "running" /\ e.commit => hand'.at \in {"back", "merge", "push"},
           hand'.at \in Ending => hand.at \in Ending /\ e.status = "running",
           StartsAtBase', EndsInOrder', DoneIsDelivered'
    PROVE  OnItsWay'
  <1> DEFINE o == EntryOf(ThisGroup)
  <1>1. This \in Items /\ o \in DOMAIN ledger /\ ledger[o].group = ThisGroup
    BY AtGit
  <1>2. /\ This' = This /\ ThisGroup' = ThisGroup /\ Items' = Items /\ job' = job
        /\ \A c \in Items : GroupOf(c)' = GroupOf(c) /\ Unfinished(c)' = Unfinished(c)
    BY DEF This, ThisGroup, GroupOf, Items, Stay, Unfinished
  <1>3. /\ DOMAIN ledger' = DOMAIN ledger /\ ledger'[o] = e /\ e.group = ThisGroup
        /\ \A i \in DOMAIN ledger : ledger'[i].group = ledger[i].group
        /\ \A i \in DOMAIN ledger \ {o} : ledger'[i] = ledger[i]
    BY <1>1 DEF LedgerKeeps
  <1>4. \A i, j \in DOMAIN ledger : ledger[i].group = ledger[j].group => i = j
    BY DEF Sound
  <1>5. \A i \in DOMAIN ledger : ledger[i].group = ThisGroup => i = o
    BY <1>1, <1>4
  <1> HIDE DEF o
  <1>6. OneEntry' /\ OnlyManaged'
    <2>1. job.managed
      BY DEF Sound
    <2>2. OneEntry'
      BY <1>3, <1>4 DEF OneEntry
    <2> QED BY <1>2, <2>1, <2>2 DEF OnlyManaged
  <1>7. FailureStops'
    <2>1. \A i \in DOMAIN ledger : ledger[i].status # "failed"
      BY DEF Sound
    <2>2. \A i \in DOMAIN ledger : ledger'[i].status # "failed"
      BY <1>3, <2>1
    <2> QED BY <1>3, <2>2 DEF FailureStops
  <1>8. Entry' = e
    BY <1>1, EntryStays DEF o
  <1>9. BranchIsNew'
    BY <1>8 DEF BranchIsNew
  <1>10. OwnBranch'
    <2>1. \A i \in DOMAIN ledger \ {o} : IF ledger[i].branch = 0 THEN ledger[i].group = ThisGroup
             ELSE /\ ledger[i].branch \in Items /\ GroupOf(ledger[i].branch) = ledger[i].group
                  /\ IsBranch(ledger[i].branch)
      BY DEF Sound
    <2>2. \A i \in DOMAIN ledger \ {o} :
             /\ ledger[i].branch \in Items /\ GroupOf(ledger[i].branch) = ledger[i].group
             /\ ledger[i].branch # 0 /\ Len(git'.tips[ledger[i].branch]) > 0
      BY <1>5, <2>1 DEF IsBranch
    <2>3. \A i \in DOMAIN ledger \ {o} :
             /\ ledger'[i].branch \in Items /\ GroupOf(ledger'[i].branch) = ledger'[i].group
             /\ ledger'[i].branch # 0 /\ Len(git'.tips[ledger'[i].branch]) > 0
      BY <1>3, <2>2
    <2>4. CASE e.branch = 0
      <3>1. hand'.at = "create" /\ ledger'[o].group = ThisGroup'
        BY <1>2, <1>3, <2>4
      <3> QED BY <1>2, <1>3, <2>3, <2>4, <3>1 DEF OwnBranch, IsBranch
    <2>5. CASE e.branch # 0
      BY <1>2, <1>3, <2>3, <2>5 DEF OwnBranch, IsBranch
    <2> QED BY <2>4, <2>5
  <1>11. CompletedIsFinished'
    <2>1. \A i \in DOMAIN ledger : ledger[i].status = "completed" =>
             \A c \in Items : GroupOf(c) = ledger[i].group => ~Unfinished(c)
      BY DEF Sound
    <2>2. e.status = "completed" => \A c \in Items : GroupOf(c) = ThisGroup => ~Unfinished(c)
      BY DEF EndingIsFinished
    <2>3. \A i \in DOMAIN ledger : ledger'[i].status = "completed" =>
             \A c \in Items : GroupOf(c) = ledger'[i].group => ~Unfinished(c)
      BY <1>3, <2>1, <2>2
    <2> QED BY <1>2, <1>3, <2>3 DEF CompletedIsFinished
  <1>12. EndingIsFinished'
    BY <1>2, <1>8 DEF EndingIsFinished
  <1>13. RunningIsUnfinished'
    <2>1. hand'.at = "pick" => \A i \in DOMAIN ledger :
             ledger'[i].group = ThisGroup => ledger'[i].status # "running"
      BY <1>3, <1>5
    <2> QED BY <1>2, <1>3, <2>1 DEF RunningIsUnfinished
  <1>14. CommitsAtTheEnd'
    <2>1. \A i \in DOMAIN ledger :
             ledger[i].status = "running" /\ ledger[i].commit => ledger[i].group = ThisGroup
      BY DEF Sound
    <2>2. \A i \in DOMAIN ledger :
             ledger'[i].status = "running" /\ ledger'[i].commit => i = o
      BY <1>3, <1>5, <2>1
    <2> QED BY <1>2, <1>3, <2>2 DEF CommitsAtTheEnd
  <1> QED BY <1>6, <1>7, <1>9, <1>10, <1>11, <1>12, <1>13, <1>14 DEF OnItsWay

\* What the base, the branch and the other entries are at a step of git.
LEMMA AtStep ==
    ASSUME Known, OnItsWay, hand.at \in Ending \cup {"base", "create"}
    PROVE  /\ Sound(ledger) /\ EndingIsFinished /\ EntryOf(ThisGroup) \in DOMAIN ledger
           /\ This \in Items /\ This # 0 /\ This \in Branches
           /\ git.tips \in [Branches -> Seq(Trees)] /\ git.branch \in Branches
           /\ Len(git.tips[git.branch]) > 0
           /\ \A i \in DOMAIN ledger :
                 /\ ledger[i].base \in Branches /\ ledger[i].branch \in Branches
                 /\ ledger[i].status \in {"running", "completed"}
                 /\ i # EntryOf(ThisGroup) => ledger[i].group # ThisGroup
           /\ hand.at \in Ending =>
                 /\ Entry.status = "running" /\ Entry.branch \in Items
                 /\ GroupOf(Entry.branch) = ThisGroup /\ Len(git.tips[Entry.branch]) > 0
                 /\ Entry.branch # 0
           /\ hand.at \in {"base", "create"} => Entry.branch = 0
           /\ Entry.status = "running" /\ Entry.commit => hand.at \in {"back", "merge", "push"}
  <1>1. Sound(ledger) /\ EndingIsFinished /\ EntryOf(ThisGroup) \in DOMAIN ledger /\ This \in Items
    BY LedgerIsSound, AtGit DEF OnItsWay
  <1>2. git.tips \in [Branches -> Seq(Trees)] /\ git.branch \in Branches
        /\ Len(git.tips[git.branch]) > 0
    BY DEF Known, Typed, Repositories, Histories, BranchesExist, IsBranch
  <1>3. This # 0 /\ This \in Branches /\ 0 \notin Items
    BY <1>1, JobIs DEF Known, Typed
  <1>4. \A i \in DOMAIN ledger :
           /\ ledger[i].base \in Branches /\ ledger[i].branch \in Branches
           /\ ledger[i].status \in {"running", "completed"}
    BY <1>1, EntryIs DEF Sound
  <1>5. \A i \in DOMAIN ledger : i # EntryOf(ThisGroup) => ledger[i].group # ThisGroup
    BY <1>1, AtGit DEF Sound
  <1>6. hand.at \in Ending => Entry.status = "running"
    BY DEF OnItsWay, EndingIsFinished
  <1>7. Entry.group = ThisGroup /\ Entry = ledger[EntryOf(ThisGroup)]
    BY AtGit
  <1>8. hand.at \in Ending => /\ Entry.branch \in Items /\ Len(git.tips[Entry.branch]) > 0
                              /\ GroupOf(Entry.branch) = ThisGroup
    BY <1>1, <1>6, <1>7 DEF OnItsWay, OwnBranch, Ending, IsBranch
  <1>9. hand.at \in {"base", "create"} => Entry.branch = 0
    BY DEF OnItsWay, BranchIsNew
  <1>10. Entry.status = "running" /\ Entry.commit => hand.at \in {"back", "merge", "push"}
    BY <1>1, <1>7 DEF OnItsWay, CommitsAtTheEnd
  <1> QED BY <1>1, <1>2, <1>3, <1>4, <1>5, <1>6, <1>8, <1>9, <1>10

\* Which entries are contained in their bases before a step.
LEMMA OthersStart ==
    ASSUME Known, OnItsWay, NEW i \in DOMAIN ledger,
           ledger[i].branch # 0, ledger[i].status = "running", ~ledger[i].commit,
           \A j \in DOMAIN ledger : ledger[j].base # ledger[i].branch
    PROVE  Extends(git.tips[ledger[i].base], git.tips[ledger[i].branch])
  BY DEF OnItsWay, StartsAtBase, IsBase, Contained

\* The branch that is checked out becomes the base of the group.
LEMMA ReadDelivers ==
    ASSUME Known, Known', OnItsWay, ReadBase
    PROVE  OnItsWay'
  <1> DEFINE o == EntryOf(ThisGroup)
             e == ledger'[o]
  <1>1. /\ hand.at = "base" /\ hand'.at = "create" /\ hand'.card = hand.card
        /\ Stay /\ UNCHANGED <<state, git>> /\ LedgerKeeps
        /\ e = [Entry EXCEPT !.base = git.branch]
        /\ \A i \in DOMAIN ledger \ {o} : ledger'[i] = ledger[i]
    BY ReadBaseKnown DEF ReadBase
  <1>2. /\ Sound(ledger) /\ EndingIsFinished /\ o \in DOMAIN ledger /\ Entry.branch = 0
        /\ Entry.status \in {"running", "completed"} /\ Entry \in Entries /\ Entry = ledger[o]
        /\ ~(Entry.status = "running" /\ Entry.commit)
    BY <1>1, AtStep, AtGit DEF Entry
  <1>3. /\ e.branch = 0 /\ e.status = Entry.status /\ e.commit = Entry.commit
    BY <1>1, <1>2 DEF Entries
  <1>4. Entry.base = 0 /\ Entry.status = "running"
    <2>1. Entry.base = 0
      BY <1>1 DEF OnItsWay, BranchIsNew
    <2>2. Entry.status # "completed"
      BY <1>1, <1>2, AtGit, AtCard DEF Sound, Unfinished, Working, ThisGroup
    <2> QED BY <1>2, <2>1, <2>2
  <1>5. StartsAtBase'
    <2>1. DOMAIN ledger' = DOMAIN ledger
      BY <1>1 DEF LedgerKeeps
    <2> SUFFICES ASSUME NEW i \in DOMAIN ledger, ledger'[i].branch # 0,
                        ledger'[i].status = "running", ~ledger'[i].commit,
                        \A j \in DOMAIN ledger : ledger'[j].base # ledger'[i].branch
                 PROVE  Extends(git.tips[ledger'[i].base], git.tips[ledger'[i].branch])
      BY <1>1, <2>1 DEF StartsAtBase, IsBase, Contained
    <2>2. i # o /\ ledger'[i] = ledger[i]
      BY <1>1, <1>3
    <2>3. \A j \in DOMAIN ledger : ledger[j].base # ledger[i].branch
      BY <1>1, <1>2, <1>4, <2>2
    <2> QED BY <2>2, <2>3, OthersStart
  <1>6. EndsInOrder' /\ DoneIsDelivered'
    BY <1>1 DEF EndsInOrder, DoneIsDelivered
  <1> HIDE DEF e
  <1>7. \A b : Len(git.tips[b]) > 0 => Len(git'.tips[b]) > 0
    BY <1>1
  <1>8. e = ledger'[EntryOf(ThisGroup)]
    BY DEF e
  <1>9. hand'.at \notin {"tree", "base", "off"} \cup Ending
    BY <1>1 DEF Ending
  <1> QED BY <1>1, <1>2, <1>3, <1>4, <1>5, <1>6, <1>7, <1>8, <1>9, StepDelivers

\* The branch of a card is made where its group starts.
LEMMA CreateDelivers ==
    ASSUME Known, Known', OnItsWay, CreateCardBranch
    PROVE  OnItsWay'
  <1> DEFINE o == EntryOf(ThisGroup)
             e == ledger'[o]
             b == Entry.base
  <1>1. hand.at = "create" /\ Stay /\ (Branched \/ GitFails(ledger)) /\ hand'.card = hand.card
    BY CreateKnown DEF CreateCardBranch
  <1>2. /\ Sound(ledger) /\ EndingIsFinished /\ o \in DOMAIN ledger /\ Entry.branch = 0
        /\ Entry.status \in {"running", "completed"} /\ Entry \in Entries /\ Entry = ledger[o]
        /\ ~(Entry.status = "running" /\ Entry.commit)
        /\ This \in Items /\ This # 0 /\ This \in Branches /\ b \in Branches
        /\ git.tips \in [Branches -> Seq(Trees)]
    BY <1>1, AtStep, AtGit DEF Entry
  <1>3. CASE GitFails(ledger)
    BY <1>1, <1>2, <1>3, FailureDelivers
  <1>4. CASE Branched
    <2>1. /\ UNCHANGED state /\ hand'.at \in {"baseline", "start"} /\ LedgerKeeps
          /\ Len(git.tips[b]) > 0 /\ ~(Len(git.tips[This]) > 0)
          /\ git'.tips = [git.tips EXCEPT ![This] = git.tips[b]]
          /\ e = [Entry EXCEPT !.branch = This]
          /\ \A i \in DOMAIN ledger \ {o} : ledger'[i] = ledger[i]
      BY <1>4 DEF Branched, IsBranch
    <2>2. /\ e.branch = This /\ e.status = Entry.status /\ e.commit = Entry.commit
          /\ e.base = b
      BY <1>2, <2>1 DEF Entries
    <2>3. Entry.status = "running"
      BY <1>1, <1>2, AtGit, AtCard DEF Sound, Unfinished, Working, ThisGroup
    <2>4. /\ git'.tips[This] = git.tips[b] /\ b # This
          /\ \A d \in Branches \ {This} : git'.tips[d] = git.tips[d]
      BY <1>2, <2>1
    <2> HIDE DEF e, b
    <2>a. \A i \in DOMAIN ledger \ {o} : ledger'[i] = ledger[i]
      BY <2>1
    <2>b. \A j \in DOMAIN ledger : ledger'[j].base = ledger[j].base
      BY <1>2, <2>2, <2>a DEF e, b
    <2>5. StartsAtBase'
      <3>1. DOMAIN ledger' = DOMAIN ledger
        BY <2>1 DEF LedgerKeeps
      <3> SUFFICES ASSUME NEW i \in DOMAIN ledger, ledger'[i].branch # 0,
                          ledger'[i].status = "running", ~ledger'[i].commit,
                          \A j \in DOMAIN ledger : ledger'[j].base # ledger'[i].branch
                   PROVE  Extends(git'.tips[ledger'[i].base], git'.tips[ledger'[i].branch])
        BY <2>1, <3>1 DEF StartsAtBase, IsBase, Contained
      <3>2. CASE i = o
        <4>1. /\ git'.tips[ledger'[i].base] = git.tips[b]
              /\ git'.tips[ledger'[i].branch] = git.tips[b]
          BY <1>2, <2>2, <2>4, <3>2 DEF e
        <4>2. git.tips[b] \in Seq(Trees)
          BY <1>2 DEF b
        <4> QED BY <4>1, <4>2, ExtendsItself
      <3>3. CASE i # o
        <4>1. ledger'[i] = ledger[i]
          BY <2>1, <3>3
        <4>2. \A j \in DOMAIN ledger : ledger[j].base # ledger[i].branch
          BY <2>b, <4>1
        <4>3. Extends(git.tips[ledger[i].base], git.tips[ledger[i].branch])
          BY <4>1, <4>2, OthersStart
        <4>4. /\ ledger[i].base \in Branches /\ ledger[i].branch \in Branches
              /\ Len(git.tips[ledger[i].branch]) > 0
          BY <1>2, <4>1, EntryIs DEF Sound, IsBranch
        <4>5. git.tips[ledger[i].branch] \in Seq(Trees) /\ git.tips[ledger[i].base] \in Seq(Trees)
          BY <1>2, <4>4
        <4>6. Len(git.tips[ledger[i].base]) > 0
          BY <4>3, <4>4, <4>5, ExtendsIs
        <4>7. ledger[i].base # This /\ ledger[i].branch # This
          BY <2>1, <4>4, <4>6
        <4> QED BY <2>4, <4>1, <4>3, <4>4, <4>7
      <3> QED BY <3>2, <3>3
    <2>6. EndsInOrder' /\ DoneIsDelivered'
      BY <2>1 DEF EndsInOrder, DoneIsDelivered
    <2>7. \A d : Len(git.tips[d]) > 0 => Len(git'.tips[d]) > 0
      BY <1>2, <2>1 DEF b
    <2>8. e = ledger'[EntryOf(ThisGroup)]
      BY DEF e
    <2>9. hand'.at \notin {"tree", "base", "off", "create", "pick"} \cup Ending
      BY <2>1 DEF Ending
    <2>10. e.branch # 0 /\ e.branch \in Items /\ GroupOf(e.branch) = ThisGroup
           /\ Len(git'.tips[e.branch]) > 0
      BY <1>2, <2>1, <2>2, <2>4 DEF ThisGroup, b
    <2> QED BY <1>1, <1>2, <2>1, <2>2, <2>3, <2>5, <2>6, <2>7, <2>8, <2>9, <2>10, StepDelivers
  <1> QED BY <1>1, <1>3, <1>4

\* What is left in the work tree is committed for the group.
LEMMA CommitDelivers ==
    ASSUME Known, Known', OnItsWay, CommitGroup
    PROVE  OnItsWay'
  <1> DEFINE o == EntryOf(ThisGroup)
             e == ledger'[o]
  <1>1. /\ hand.at = "finalize" /\ hand.at \in Ending /\ Stay
        /\ (GroupCommitted \/ GitFails(ledger)) /\ hand'.card = hand.card
    BY CommitKnown DEF CommitGroup, Ending
  <1>2. /\ Sound(ledger) /\ EndingIsFinished /\ o \in DOMAIN ledger
        /\ Entry.status = "running" /\ Entry \in Entries /\ Entry = ledger[o]
        /\ ~Entry.commit /\ Entry.branch # 0 /\ Entry.branch \in Items
        /\ GroupOf(Entry.branch) = ThisGroup /\ Entry.branch \in Branches
        /\ This \in Items /\ git.tips \in [Branches -> Seq(Trees)]
        /\ Len(git.tips[Entry.branch]) > 0
    BY <1>1, AtStep, AtGit DEF Entry
  <1>3. CASE GitFails(ledger)
    BY <1>1, <1>2, <1>3, FailureDelivers
  <1>4. CASE GroupCommitted
    <2>1. /\ UNCHANGED state /\ hand'.at = "back" /\ LedgerKeeps
          /\ git.branch = Entry.branch
          /\ git' = IF WorkIsClean THEN git ELSE Committed
          /\ e = [Entry EXCEPT !.commit = ~WorkIsClean]
          /\ \A i \in DOMAIN ledger \ {o} : ledger'[i] = ledger[i]
      BY <1>4 DEF GroupCommitted
    <2>2. /\ e.branch = Entry.branch /\ e.status = Entry.status /\ e.commit = ~WorkIsClean
          /\ e.base = Entry.base
      BY <1>2, <2>1 DEF Entries
    <2> DEFINE b == git.branch
    <2>3. /\ \A d \in Branches \ {b} : git'.tips[d] = git.tips[d]
          /\ git'.tips[b] \in Seq(Trees) /\ Extends(git'.tips[b], git.tips[b])
          /\ WorkIsClean' /\ git'.branch = b
      <3>1. CASE WorkIsClean
        <4>1. git' = git
          BY <2>1, <3>1
        <4>2. git.tips[b] \in Seq(Trees)
          BY <1>2, <2>1
        <4> QED BY <3>1, <4>1, <4>2, ExtendsItself DEF WorkIsClean, TipOf
      <3>2. CASE ~WorkIsClean
        <4>1. git' = Committed /\ Typed /\ BranchesExist /\ b \in Branches
              /\ git.work \in Trees
          BY <1>2, <2>1, <3>2 DEF Known, Typed, Repositories
        <4>2. /\ Committed.branch = b /\ Committed.work = git.work
              /\ Committed.tips = [git.tips EXCEPT ![b] = Append(@, git.work)]
              /\ Committed.tips[b][Len(Committed.tips[b])] = git.work
              /\ \A d \in Branches \ {b} : Committed.tips[d] = git.tips[d]
          BY <4>1, CommittedIs
        <4>3. git.tips[b] \in Seq(Trees) /\ Committed.tips[b] = Append(git.tips[b], git.work)
          BY <1>2, <4>1, <4>2
        <4>4. Extends(Committed.tips[b], git.tips[b]) /\ Committed.tips[b] \in Seq(Trees)
          BY <4>1, <4>3, LongerExtends
        <4> QED BY <4>1, <4>2, <4>4 DEF WorkIsClean, TipOf
      <3> QED BY <3>1, <3>2
    <2> HIDE DEF e, b
    <2>a. \A i \in DOMAIN ledger \ {o} : ledger'[i] = ledger[i]
      BY <2>1
    <2>b. \A j \in DOMAIN ledger :
             /\ ledger'[j].base = ledger[j].base /\ ledger'[j].branch = ledger[j].branch
             /\ ledger'[j].status = ledger[j].status
      BY <1>2, <2>2, <2>a DEF e
    <2>c. \A j \in DOMAIN ledger : ~ledger'[j].commit => ~ledger[j].commit
      BY <1>2, <2>a
    <2>4. b = Entry.branch /\ b \in Branches
      BY <1>2, <2>1 DEF b
    <2>5. StartsAtBase'
      <3>1. DOMAIN ledger' = DOMAIN ledger
        BY <2>1 DEF LedgerKeeps
      <3> SUFFICES ASSUME NEW i \in DOMAIN ledger, ledger'[i].branch # 0,
                          ledger'[i].status = "running", ~ledger'[i].commit,
                          \A j \in DOMAIN ledger : ledger'[j].base # ledger'[i].branch
                   PROVE  Extends(git'.tips[ledger'[i].base], git'.tips[ledger'[i].branch])
        BY <2>1, <3>1 DEF StartsAtBase, IsBase, Contained
      <3>2. /\ ledger'[i].branch = ledger[i].branch /\ ledger'[i].base = ledger[i].base
            /\ ledger[i].status = "running" /\ ~ledger[i].commit
        BY <2>b, <2>c
      <3>3. \A j \in DOMAIN ledger : ledger[j].base # ledger[i].branch
        BY <2>b
      <3>4. Extends(git.tips[ledger[i].base], git.tips[ledger[i].branch])
        BY <3>2, <3>3, OthersStart
      <3>5. ledger[i].base \in Branches /\ ledger[i].branch \in Branches
        BY EntryIs
      <3>6. /\ git.tips[ledger[i].base] \in Seq(Trees)
            /\ git.tips[ledger[i].branch] \in Seq(Trees)
            /\ git'.tips[ledger[i].base] \in Seq(Trees)
        BY <1>2, <2>3, <3>5
      <3>7. Extends(git'.tips[ledger[i].base], git.tips[ledger[i].base])
        BY <2>3, <3>5, <3>6, ExtendsItself
      <3>8. Extends(git'.tips[ledger[i].base], git.tips[ledger[i].branch])
        BY <3>4, <3>6, <3>7, ExtendsOn
      <3>9. git'.tips[ledger[i].branch] = git.tips[ledger[i].branch]
        <4>1. CASE i = o
          <5>1. WorkIsClean
            BY <2>2, <4>1 DEF e
          <5> QED BY <2>1, <5>1
        <4>2. CASE i # o
          <5>1. ledger[i].group # ThisGroup
            BY <1>1, <4>2, AtStep
          <5>2. ledger[i].branch # b
            BY <1>2, <2>4, <3>2, <5>1 DEF Sound
          <5> QED BY <2>3, <3>5, <5>2
        <4> QED BY <4>1, <4>2
      <3> QED BY <3>2, <3>8, <3>9
    <2>6. \A d : Len(git.tips[d]) > 0 => Len(git'.tips[d]) > 0
      <3>1. CASE WorkIsClean
        BY <2>1, <3>1
      <3>2. CASE ~WorkIsClean
        <4>1. Committed.tips = [git.tips EXCEPT ![b] = Append(@, git.work)]
              /\ Len(Committed.tips[b]) > 0
          BY CommittedIs DEF Known, b
        <4>2. \A d : d # b => Committed.tips[d] = git.tips[d]
          BY <1>2, <4>1
        <4> QED BY <2>1, <3>2, <4>1, <4>2
      <3> QED BY <3>1, <3>2
    <2>7. Entry' = e
      BY <1>1, <1>2, <2>1, AtGit, EntryStays DEF e
    <2>8. EndsInOrder' /\ DoneIsDelivered'
      BY <2>1, <2>2, <2>3, <2>4, <2>7 DEF EndsInOrder, DoneIsDelivered, b
    <2>9. e = ledger'[EntryOf(ThisGroup)] /\ Len(git'.tips[e.branch]) > 0
      BY <1>2, <2>2, <2>6 DEF e
    <2>10. hand'.at \notin {"tree", "base", "off", "create", "pick"}
      BY <2>1
    <2>11. e.status = "running" /\ e.branch # 0 /\ e.branch \in Items
           /\ GroupOf(e.branch) = ThisGroup /\ hand'.at \in {"back", "merge", "push"}
      BY <1>2, <2>1, <2>2
    <2>12. UNCHANGED state /\ LedgerKeeps
      BY <2>1
    <2> QED BY <1>1, <1>2, <2>a, <2>5, <2>6, <2>8, <2>9, <2>10, <2>11, <2>12, StepDelivers
  <1> QED BY <1>1, <1>3, <1>4

\* The worker is back on the branch the group started from; a group without a
\* commit is completed.
LEMMA BackDelivers ==
    ASSUME Known, Known', OnItsWay, SwitchBack
    PROVE  OnItsWay'
  <1> DEFINE o == EntryOf(ThisGroup)
             e == ledger'[o]
  <1>1. /\ hand.at = "back" /\ hand.at \in Ending /\ Stay
        /\ (SwitchedBack \/ GitFails(ledger)) /\ hand'.card = hand.card
    BY BackKnown DEF SwitchBack, Ending
  <1>2. /\ Sound(ledger) /\ EndingIsFinished /\ o \in DOMAIN ledger
        /\ Entry.status = "running" /\ Entry \in Entries /\ Entry = ledger[o]
        /\ Entry.group = ThisGroup /\ Entry.branch # 0 /\ Entry.branch \in Items
        /\ GroupOf(Entry.branch) = ThisGroup /\ Len(git.tips[Entry.branch]) > 0
        /\ Entry.base \in Branches /\ This \in Items
    BY <1>1, AtStep, AtGit DEF Entry
  <1>3. CASE GitFails(ledger)
    BY <1>1, <1>2, <1>3, FailureDelivers
  <1>4. CASE SwitchedBack
    <2>1. /\ UNCHANGED state /\ LedgerKeeps
          /\ git' = Switched(Entry.base) /\ IsBranch(Entry.base)
          /\ IF Entry.commit
             THEN hand'.at = "merge" /\ UNCHANGED ledger
             ELSE /\ hand'.at = "pick"
                  /\ e = [Entry EXCEPT !.status = "completed"]
                  /\ \A i \in DOMAIN ledger \ {o} : ledger'[i] = ledger[i]
      BY <1>4 DEF SwitchedBack
    <2>2. /\ e.branch = Entry.branch /\ e.base = Entry.base /\ e.commit = Entry.commit
          /\ e.group = ThisGroup
          /\ e.status = IF Entry.commit THEN "running" ELSE "completed"
      BY <1>2, <2>1 DEF Entries
    <2>a. /\ \A i \in DOMAIN ledger \ {o} : ledger'[i] = ledger[i]
          /\ hand'.at = IF Entry.commit THEN "merge" ELSE "pick"
      BY <2>1
    <2>b. \A j \in DOMAIN ledger :
             /\ ledger'[j].base = ledger[j].base /\ ledger'[j].branch = ledger[j].branch
             /\ ledger'[j].commit = ledger[j].commit
             /\ ledger'[j].status = "running" => ledger[j].status = "running"
      BY <1>2, <2>2, <2>a
    <2>3. git'.tips = git.tips /\ git'.branch = Entry.base /\ WorkIsClean'
      <3>1. Typed /\ BranchesExist /\ WorkIsClean
        BY <1>1 DEF Known, OnItsWay, EndsInOrder
      <3>2. /\ git'.branch = Entry.base /\ git'.tips = git.tips
            /\ git'.work = TipOf(Entry.base)
        BY <1>2, <2>1, <3>1, SwitchedIs
      <3> QED BY <3>2 DEF WorkIsClean, TipOf
    <2> HIDE DEF e
    <2>4. StartsAtBase'
      <3>1. DOMAIN ledger' = DOMAIN ledger
        BY <2>1 DEF LedgerKeeps
      <3> SUFFICES ASSUME NEW i \in DOMAIN ledger, ledger'[i].branch # 0,
                          ledger'[i].status = "running", ~ledger'[i].commit,
                          \A j \in DOMAIN ledger : ledger'[j].base # ledger'[i].branch
                   PROVE  Extends(git.tips[ledger'[i].base], git.tips[ledger'[i].branch])
        BY <2>3, <3>1 DEF StartsAtBase, IsBase, Contained
      <3>2. Extends(git.tips[ledger[i].base], git.tips[ledger[i].branch])
        BY <2>b, OthersStart
      <3> QED BY <2>b, <3>2
    <2>5. Entry' = e
      BY <1>1, <1>2, <2>1, EntryStays DEF e
    <2>6. EndsInOrder'
      BY <2>2, <2>3, <2>5, <2>a DEF EndsInOrder
    <2>7. DoneIsDelivered'
      <3>1. ThisGroup' = ThisGroup /\ DOMAIN ledger' = DOMAIN ledger
        BY <1>1, <2>1 DEF ThisGroup, This, GroupOf, Stay, LedgerKeeps
      <3> SUFFICES ASSUME hand'.at = "pick", NEW i \in DOMAIN ledger,
                          ledger'[i].group = ThisGroup
                   PROVE  Delivered(ledger[i])'
        BY <2>a, <3>1 DEF DoneIsDelivered
      <3>2. i = o /\ ledger'[i] = e
        <4>1. i # o => ledger'[i].group # ThisGroup
          BY <1>1, <2>a, AtStep
        <4> QED BY <4>1 DEF e
      <3>3. ~Entry.commit /\ e.commit = Entry.commit
        BY <2>2, <2>a
      <3>4. ~IsBase(ledger[i])' => Extends(git.tips[e.base], git.tips[e.branch])
        <4>1. ~IsBase(ledger[i])' => \A j \in DOMAIN ledger : ledger[j].base # ledger[o].branch
          BY <2>b, <3>1, <3>2 DEF IsBase
        <4> QED BY <1>2, <2>2, <3>3, <4>1, OthersStart
      <3>5. WorkIsClean' /\ git'.branch = e.base
        BY <2>2, <2>3
      <3>6. e.commit = FALSE
        BY <1>2, <3>3 DEF Entries
      <3>7. ledger'[i].commit = FALSE /\ git'.branch = ledger'[i].base
            /\ ledger'[i].base = e.base /\ ledger'[i].branch = e.branch
        BY <3>2, <3>5, <3>6
      <3> QED BY <2>3, <3>4, <3>5, <3>7 DEF Delivered, Contained
    <2>8. e = ledger'[EntryOf(ThisGroup)] /\ Len(git'.tips[e.branch]) > 0
      BY <1>2, <2>2, <2>3 DEF e
    <2>9. /\ e.status = "running" => hand'.at = "merge"
          /\ e.status = "completed" => hand'.at = "pick"
          /\ e.status \in {"running", "completed"}
          /\ hand'.at \in {"merge", "pick"}
      BY <2>2, <2>a
    <2>10. hand'.at \in Ending => e.status = "running"
      BY <2>9 DEF Ending
    <2>11. e.branch # 0 /\ e.branch \in Items /\ GroupOf(e.branch) = ThisGroup
      BY <1>2, <2>2
    <2>12. UNCHANGED state /\ LedgerKeeps /\ \A d : Len(git.tips[d]) > 0 => Len(git'.tips[d]) > 0
      BY <2>1, <2>3
    <2> QED BY <1>1, <1>2, <2>a, <2>4, <2>6, <2>7, <2>8, <2>9, <2>10, <2>11, <2>12,
            StepDelivers
  <1> QED BY <1>1, <1>3, <1>4

\* The branch of the group is merged into the one it started from.
LEMMA MergeDelivers ==
    ASSUME Known, Known', OnItsWay, MergeGroup
    PROVE  OnItsWay'
  <1> DEFINE o == EntryOf(ThisGroup)
             theirs == git.tips[Entry.branch]
             b == Entry.base
  <1>1. /\ hand.at = "merge" /\ hand.at \in Ending /\ Stay
        /\ (Joined \/ GitFails(ledger)) /\ hand'.card = hand.card
    BY MergeKnown DEF MergeGroup, Ending
  <1>2. /\ Sound(ledger) /\ EndingIsFinished /\ o \in DOMAIN ledger
        /\ Entry.status = "running" /\ Entry \in Entries /\ Entry = ledger[o]
        /\ Entry.group = ThisGroup /\ Entry.branch # 0 /\ Entry.branch \in Items
        /\ GroupOf(Entry.branch) = ThisGroup /\ Len(git.tips[Entry.branch]) > 0
        /\ Entry.base \in Branches /\ Entry.branch \in Branches /\ This \in Items
        /\ git.tips \in [Branches -> Seq(Trees)]
    BY <1>1, AtStep, AtGit DEF Entry
  <1>3. CASE GitFails(ledger)
    BY <1>1, <1>2, <1>3, FailureDelivers
  <1>4. CASE Joined
    <2>1. /\ UNCHANGED <<state, ledger>> /\ hand'.at = "push"
          /\ IF Extends(theirs, git.tips[git.branch])
             THEN /\ git'.branch = git.branch /\ git'.origin = git.origin
                  /\ git'.tips = [git.tips EXCEPT ![git.branch] = theirs]
                  /\ git'.work = [f \in Files |->
                         IF theirs[Len(theirs)][f] = TipOf(git.branch)[f]
                         THEN git.work[f] ELSE theirs[Len(theirs)][f]]
             ELSE Extends(git.tips[git.branch], theirs) /\ UNCHANGED git
      BY <1>4 DEF Joined
    <2>2. git.branch = b /\ WorkIsClean /\ Entry.commit
      BY <1>1 DEF OnItsWay, EndsInOrder
    <2>3. theirs \in Seq(Trees) /\ git.tips[b] \in Seq(Trees) /\ Len(theirs) > 0
          /\ theirs[Len(theirs)] \in Trees
      BY <1>2
    <2>4. LedgerKeeps
      BY <2>1 DEF LedgerKeeps, Known, Typed
    <2>5. Entry' = Entry
      BY <1>1, <1>2, <2>1, <2>4, EntryStays DEF Entry
    <2> HIDE DEF theirs, b
    <2>6. /\ \A d \in Branches \ {b} : git'.tips[d] = git.tips[d]
          /\ git'.tips[b] \in Seq(Trees) /\ Extends(git'.tips[b], git.tips[b])
          /\ Extends(git'.tips[b], git'.tips[Entry.branch])
          /\ WorkIsClean' /\ git'.branch = b
      <3>1. CASE Extends(theirs, git.tips[git.branch])
        <4>1. /\ git'.tips = [git.tips EXCEPT ![b] = theirs] /\ git'.branch = b
              /\ git'.work = [f \in Files |->
                     IF theirs[Len(theirs)][f] = TipOf(b)[f]
                     THEN git.work[f] ELSE theirs[Len(theirs)][f]]
          BY <2>1, <2>2, <3>1
        <4>2. git'.tips[b] = theirs /\ \A d \in Branches \ {b} : git'.tips[d] = git.tips[d]
          BY <1>2, <4>1 DEF b
        <4>3. git'.work = theirs[Len(theirs)]
          <5>1. git.work = TipOf(b)
            BY <2>2 DEF WorkIsClean
          <5> DEFINE t == theirs[Len(theirs)]
          <5>2. git'.work = [f \in Files |-> IF t[f] = TipOf(b)[f] THEN git.work[f] ELSE t[f]]
            BY <4>1
          <5>3. t \in [Files -> Contents]
            BY <2>3 DEF Trees
          <5> HIDE DEF t
          <5>4. \A f \in Files : git'.work[f] = t[f]
            BY <5>1, <5>2
          <5>5. git'.work = t
            BY <5>2, <5>3, <5>4
          <5> QED BY <5>5 DEF t
        <4>4. git'.tips[Entry.branch] = theirs
          BY <1>2, <4>2 DEF theirs, b
        <4>5. Extends(theirs, theirs)
          BY <2>3, ExtendsItself
        <4>6. WorkIsClean'
          BY <4>1, <4>2, <4>3 DEF WorkIsClean, TipOf
        <4> QED BY <2>2, <2>3, <3>1, <4>1, <4>2, <4>4, <4>5, <4>6
      <3>2. CASE ~Extends(theirs, git.tips[git.branch])
        <4>1. git' = git /\ Extends(git.tips[b], theirs)
          BY <2>1, <2>2, <3>2
        <4>2. Extends(git.tips[b], git.tips[b])
          BY <2>3, ExtendsItself
        <4>3. WorkIsClean'
          BY <2>2, <4>1 DEF WorkIsClean, TipOf
        <4> QED BY <2>2, <2>3, <4>1, <4>2, <4>3 DEF theirs
      <3> QED BY <3>1, <3>2
    <2>7. StartsAtBase'
      <3> SUFFICES ASSUME NEW i \in DOMAIN ledger, ledger[i].branch # 0,
                          ledger[i].status = "running", ~ledger[i].commit,
                          \A j \in DOMAIN ledger : ledger[j].base # ledger[i].branch
                   PROVE  Extends(git'.tips[ledger[i].base], git'.tips[ledger[i].branch])
        BY <2>1 DEF StartsAtBase, IsBase, Contained
      <3>1. Extends(git.tips[ledger[i].base], git.tips[ledger[i].branch])
        BY OthersStart
      <3>2. ledger[i].base \in Branches /\ ledger[i].branch \in Branches /\ ledger[i].branch # b
        BY <1>2, EntryIs DEF b
      <3>3. /\ git.tips[ledger[i].base] \in Seq(Trees)
            /\ git.tips[ledger[i].branch] \in Seq(Trees)
            /\ git'.tips[ledger[i].base] \in Seq(Trees)
        BY <1>2, <2>6, <3>2
      <3>4. Extends(git'.tips[ledger[i].base], git.tips[ledger[i].base])
        BY <2>6, <3>2, <3>3, ExtendsItself
      <3>5. Extends(git'.tips[ledger[i].base], git.tips[ledger[i].branch])
        BY <3>1, <3>3, <3>4, ExtendsOn
      <3> QED BY <2>6, <3>2, <3>5
    <2>8. EndsInOrder' /\ DoneIsDelivered'
      <3>1. Contained(Entry)'
        BY <2>5, <2>6 DEF Contained, b
      <3> QED BY <2>1, <2>2, <2>5, <2>6, <3>1 DEF EndsInOrder, DoneIsDelivered, b
    <2>9. \A d : Len(git.tips[d]) > 0 => Len(git'.tips[d]) > 0
      <3>1. CASE Extends(theirs, git.tips[git.branch])
        <4>1. git'.tips = [git.tips EXCEPT ![b] = theirs]
          BY <2>1, <2>2, <3>1
        <4>2. \A d : d # b => git'.tips[d] = git.tips[d]
          BY <1>2, <4>1
        <4>3. git'.tips[b] = theirs
          BY <1>2, <4>1 DEF b
        <4> QED BY <2>3, <4>2, <4>3
      <3> QED BY <2>1, <3>1
    <2>10. Entry = ledger'[EntryOf(ThisGroup)] /\ Len(git'.tips[Entry.branch]) > 0
      BY <1>2, <2>1, <2>9
    <2>11. UNCHANGED state /\ hand'.at \in {"back", "merge", "push"}
           /\ \A i \in DOMAIN ledger \ {o} : ledger'[i] = ledger[i]
      BY <2>1
    <2>12. hand'.at \notin {"tree", "base", "off", "create", "pick"}
      BY <2>1
    <2> QED BY <1>1, <1>2, <2>4, <2>7, <2>8, <2>9, <2>10, <2>11, <2>12, StepDelivers
  <1> QED BY <1>1, <1>3, <1>4

\* The remote has the branch the group started from as it is here.
LEMMA PushDelivers ==
    ASSUME Known, Known', OnItsWay, PushGroup
    PROVE  OnItsWay'
  <1> DEFINE o == EntryOf(ThisGroup)
             e == ledger'[o]
  <1>1. /\ hand.at = "push" /\ hand.at \in Ending /\ Stay
        /\ (Pushed \/ GitFails(ledger)) /\ hand'.card = hand.card
    BY PushKnown DEF PushGroup, Ending
  <1>2. /\ Sound(ledger) /\ EndingIsFinished /\ o \in DOMAIN ledger
        /\ Entry.status = "running" /\ Entry \in Entries /\ Entry = ledger[o]
        /\ Entry.group = ThisGroup /\ Entry.branch # 0 /\ Entry.branch \in Items
        /\ GroupOf(Entry.branch) = ThisGroup /\ Len(git.tips[Entry.branch]) > 0
        /\ Entry.base \in Branches /\ This \in Items
    BY <1>1, AtStep, AtGit DEF Entry
  <1>3. CASE GitFails(ledger)
    BY <1>1, <1>2, <1>3, FailureDelivers
  <1>4. CASE Pushed
    <2>1. /\ UNCHANGED state /\ hand'.at = "pick" /\ LedgerKeeps
          /\ git'.branch = git.branch /\ git'.tips = git.tips /\ git'.work = git.work
          /\ git'.origin = [git.origin EXCEPT ![Entry.base] = git.tips[Entry.base]]
          /\ e = [Entry EXCEPT !.status = "completed"]
          /\ \A i \in DOMAIN ledger \ {o} : ledger'[i] = ledger[i]
      BY <1>4 DEF Pushed
    <2>2. /\ e.branch = Entry.branch /\ e.base = Entry.base /\ e.commit = Entry.commit
          /\ e.group = ThisGroup /\ e.status = "completed"
      BY <1>2, <2>1 DEF Entries
    <2>a. /\ \A i \in DOMAIN ledger \ {o} : ledger'[i] = ledger[i]
          /\ hand'.at = "pick"
      BY <2>1
    <2>b. \A j \in DOMAIN ledger :
             /\ ledger'[j].base = ledger[j].base /\ ledger'[j].branch = ledger[j].branch
             /\ ledger'[j].commit = ledger[j].commit
             /\ ledger'[j].status = "running" => ledger[j].status = "running"
      BY <1>2, <2>2, <2>a
    <2>3. /\ git.branch = Entry.base /\ WorkIsClean /\ Entry.commit
          /\ Extends(git.tips[Entry.base], git.tips[Entry.branch])
      BY <1>1 DEF OnItsWay, EndsInOrder, Contained
    <2>4. git'.origin[Entry.base] = git.tips[Entry.base]
      <3>1. git.origin \in [Branches -> Seq(Trees)]
        BY DEF Known, Typed, Repositories, Histories
      <3> QED BY <1>2, <2>1, <3>1
    <2> HIDE DEF e
    <2>5. StartsAtBase'
      <3>1. DOMAIN ledger' = DOMAIN ledger
        BY <2>1 DEF LedgerKeeps
      <3> SUFFICES ASSUME NEW i \in DOMAIN ledger, ledger'[i].branch # 0,
                          ledger'[i].status = "running", ~ledger'[i].commit,
                          \A j \in DOMAIN ledger : ledger'[j].base # ledger'[i].branch
                   PROVE  Extends(git.tips[ledger'[i].base], git.tips[ledger'[i].branch])
        BY <2>1, <3>1 DEF StartsAtBase, IsBase, Contained
      <3>2. Extends(git.tips[ledger[i].base], git.tips[ledger[i].branch])
        BY <2>b, OthersStart
      <3> QED BY <2>b, <3>2
    <2>6. EndsInOrder'
      BY <2>a DEF EndsInOrder
    <2>7. DoneIsDelivered'
      <3>1. ThisGroup' = ThisGroup /\ DOMAIN ledger' = DOMAIN ledger
        BY <1>1, <2>1 DEF ThisGroup, This, GroupOf, Stay, LedgerKeeps
      <3> SUFFICES ASSUME NEW i \in DOMAIN ledger, ledger'[i].group = ThisGroup
                   PROVE  Delivered(ledger[i])'
        BY <2>a, <3>1 DEF DoneIsDelivered
      <3>2. i = o /\ ledger'[i] = e
        <4>1. i # o => ledger'[i].group # ThisGroup
          BY <1>1, <2>a, AtStep
        <4> QED BY <4>1 DEF e
      <3>3. ledger'[i].base = Entry.base /\ ledger'[i].branch = Entry.branch
        BY <2>2, <3>2
      <3>4. WorkIsClean'
        BY <2>1, <2>3 DEF WorkIsClean, TipOf
      <3>5. git'.branch = Entry.base /\ git'.tips = git.tips
        BY <2>1, <2>3
      <3> QED BY <2>3, <2>4, <3>3, <3>4, <3>5 DEF Delivered, Contained
    <2>8. e = ledger'[EntryOf(ThisGroup)] /\ Len(git'.tips[e.branch]) > 0
      BY <1>2, <2>1, <2>2 DEF e
    <2>9. hand'.at \notin {"tree", "base", "off", "create"} \cup Ending
      BY <2>a DEF Ending
    <2>11. e.branch # 0 /\ e.branch \in Items /\ GroupOf(e.branch) = ThisGroup
      BY <1>2, <2>2
    <2>12. UNCHANGED state /\ LedgerKeeps /\ \A d : Len(git.tips[d]) > 0 => Len(git'.tips[d]) > 0
      BY <2>1
    <2> QED BY <1>1, <1>2, <2>2, <2>a, <2>5, <2>6, <2>7, <2>8, <2>9, <2>11, <2>12,
            StepDelivers
  <1> QED BY <1>1, <1>3, <1>4

\* The tests before the work, and the first look at the files, change only the
\* card at hand.
LEMMA BaselineDelivers ==
    ASSUME Known, Known', OnItsWay, UseBaseline \/ TestsAnswered \/ RunBaseline \/ TakeSnapshot
    PROVE  OnItsWay'
  <1>1. hand.at \in {"baseline", "tests", "red", "start"}
    BY Zenon DEF UseBaseline, TestsAnswered, RunBaseline, TakeSnapshot
  <1>2. Stay /\ UNCHANGED <<ledger, git>>
    BY Zenon DEF UseBaseline, TestsAnswered, RunBaseline, TakeSnapshot
  <1>3. hand.at \in Working /\ hand.at \in Working \ {"tree", "base", "create"}
    BY <1>1 DEF Working
  <1>4. This \in Items /\ state[This] \in CardStates /\ state \in [Items -> CardStates]
        /\ hand \in Hands /\ Typed
    BY <1>3, AtCard
  <1>5. {"start", "tests"} \subseteq Working \cup Ending \cup {"pick", "off"}
    BY DEF Working
  <1>6. ASSUME NEW k \in CardStates, SettleAs(k), k.status = "blocked"
        PROVE  OnItsWay'
    <2>1. /\ hand'.at = "pick" /\ hand'.card = hand.card /\ state'[This] = k
          /\ \A c \in Items \ {This} : state'[c] = state[c]
      BY <1>2, <1>4, <1>6, SettledKnown
    <2> QED BY <1>2, <1>3, <1>6, <2>1, AttemptDelivers DEF Stay
  <1>7. ASSUME hand'.at \in {"start", "tests", "red", "turn"}, hand'.card = hand.card,
               \A c \in Items \ {This} : state'[c] = state[c]
        PROVE  OnItsWay'
    <2>1. hand'.at \in Working \ {"tree", "base", "create"}
      BY <1>7 DEF Working
    <2> QED BY <1>2, <1>3, <1>7, <2>1, AttemptDelivers DEF Stay
  <1>8. CASE UseBaseline
    <2>1. CASE SettleAs([state[This] EXCEPT !.status = "blocked"])
      <3>1. [state[This] EXCEPT !.status = "blocked"] \in CardStates
            /\ [state[This] EXCEPT !.status = "blocked"].status = "blocked"
        BY <1>4 DEF CardStates
      <3> QED BY <1>6, <2>1, <3>1
    <2>2. CASE (GoTo("start") \/ GoTo("tests")) /\ UNCHANGED state
      <3>1. hand'.at \in {"start", "tests"} /\ hand'.card = hand.card
        BY <1>4, <1>5, <2>2, GoesTo
      <3> QED BY <1>7, <2>2, <3>1
    <2> QED BY <1>8, <2>1, <2>2 DEF UseBaseline
  <1>9. CASE TestsAnswered
    <2>1. PICK got \in {"tests", "unfinished", "nothing"} :
             hand' = [hand EXCEPT !.at = "red", !.answer = got]
      BY <1>9 DEF TestsAnswered
    <2>2. hand'.at = "red" /\ hand'.card = hand.card /\ UNCHANGED state
      BY <1>4, <1>9, <2>1 DEF Hands, TestsAnswered
    <2> QED BY <1>7, <2>2
  <1>10. CASE RunBaseline
    <2>1. PICK late \in BOOLEAN :
          LET commands == hand.answer # "nothing"
              failed == commands /\ (late \/ ~TestsPass)
          IN  \/ /\ state' = [state EXCEPT ![This] =
                                  [state[This] EXCEPT !.tests = commands, !.red = failed]]
                 /\ GoTo("start")
              \/ SettleAs([state[This] EXCEPT !.status = "blocked", !.passed = FALSE,
                                              !.tests = commands, !.red = failed])
      BY <1>10, Zenon DEF RunBaseline
    <2> DEFINE t == hand.answer # "nothing"
               r == t /\ (late \/ ~TestsPass)
               k == [state[This] EXCEPT !.tests = t, !.red = r]
               s == [state[This] EXCEPT !.status = "blocked", !.passed = FALSE,
                                        !.tests = t, !.red = r]
    <2>2. t \in BOOLEAN /\ r \in BOOLEAN
      OBVIOUS
    <2>3. (state' = [state EXCEPT ![This] = k] /\ GoTo("start")) \/ SettleAs(s)
      BY <2>1
    <2> HIDE DEF t, r
    <2>4. k \in CardStates /\ s \in CardStates /\ s.status = "blocked"
      BY <1>4, <2>2 DEF CardStates
    <2> HIDE DEF k, s
    <2>5. CASE state' = [state EXCEPT ![This] = k] /\ GoTo("start")
      <3>1. \A c \in Items \ {This} : state'[c] = state[c]
        BY <1>4, <2>5
      <3>2. hand'.at = "start" /\ hand'.card = hand.card
        BY <1>4, <1>5, <2>5, GoesTo
      <3> QED BY <1>7, <3>1, <3>2
    <2>6. CASE SettleAs(s)
      BY <1>6, <2>4, <2>6
    <2> QED BY <2>3, <2>5, <2>6
  <1>11. CASE TakeSnapshot
    <2>1. hand' = [hand EXCEPT !.at = "turn", !.mode = "first", !.left = job.repairs,
                            !.before = Snapshot, !.found = git.work]
          /\ UNCHANGED state
      BY <1>11 DEF TakeSnapshot
    <2>2. hand'.at = "turn" /\ hand'.card = hand.card
      BY <1>4, <2>1 DEF Hands
    <2> QED BY <1>7, <2>1, <2>2
  <1> QED BY <1>8, <1>9, <1>10, <1>11

\* So do the turns, the record of what they changed, and the judgment.
LEMMA TurnsDeliver ==
    ASSUME Known, Known', OnItsWay,
           ProviderEdits \/ TurnEnds \/ RecordChanges \/ ResultRepaired \/ JudgeResult
    PROVE  OnItsWay'
  <1>1. hand.at \in {"tests", "turn", "report", "repair", "check"}
    BY Zenon DEF ProviderEdits, TurnEnds, RecordChanges, ResultRepaired, JudgeResult
  <1>2. hand.at \in Working \ {"tree", "base", "create"} /\ hand.at \in Working
    BY <1>1 DEF Working
  <1>3. This \in Items /\ Typed
    BY <1>2, AtCard
  <1>4. CASE ProviderEdits
    BY <1>2, <1>4, EditsKnown, AttemptDelivers
  <1>5. ASSUME NEW k, SettleAs(k)
        PROVE  hand'.at = "pick"
    BY <1>3, <1>5, GoesTo DEF SettleAs
  <1>6. {"turn", "report", "repair", "check"} \subseteq Working \ {"tree", "base", "create"}
    BY DEF Working
  <1>7. CASE TurnEnds
    <2>1. hand'.at \in {"turn", "report", "pick"}
      BY <1>5, <1>7, TurnKnown DEF TurnGoesOn, TurnFails, TurnReports
    <2>2. /\ Stay /\ UNCHANGED <<ledger, git>> /\ hand'.card = hand.card
          /\ state'[This].status # "done" /\ \A c \in Items \ {This} : state'[c] = state[c]
      BY <1>7, TurnKnown
    <2> QED BY <1>2, <1>6, <2>1, <2>2, AttemptDelivers DEF Stay
  <1>8. CASE RecordChanges
    <2>1. hand'.at \in {"repair", "check", "pick"}
      BY <1>5, <1>8, RecordKnown DEF ChangesRecorded, AttemptBlocked
    <2>2. /\ Stay /\ UNCHANGED <<ledger, git>> /\ hand'.card = hand.card
          /\ state'[This].status # "done" /\ \A c \in Items \ {This} : state'[c] = state[c]
      BY <1>8, RecordKnown
    <2> QED BY <1>2, <1>6, <2>1, <2>2, AttemptDelivers DEF Stay
  <1>9. CASE ResultRepaired
    <2>1. /\ Stay /\ UNCHANGED <<state, ledger, git>> /\ hand'.card = hand.card
          /\ hand'.at = "check"
      BY <1>9, RepairKnown
    <2> QED BY <1>2, <1>6, <2>1, AttemptDelivers DEF Stay
  <1>10. CASE JudgeResult
    <2>1. /\ Stay /\ UNCHANGED <<ledger, git>> /\ hand'.card = hand.card /\ Graded
          /\ \A c \in Items \ {This} : state'[c] = state[c]
      BY <1>10, JudgeKnown DEF Graded
    <2> QED BY <1>2, <2>1, AttemptDelivers DEF Stay
  <1> QED BY <1>1, <1>4, <1>7, <1>8, <1>9, <1>10

\* A command of git fails.
LEMMA CommandDelivers ==
    ASSUME Known, Known', OnItsWay, CommandFails
    PROVE  OnItsWay'
  <1>1. Stay /\ GitFails(ledger) /\ This \in Items /\ hand.at \in Ending \cup {"base", "create"}
    BY CommandKnown
  <1>2. Sound(ledger)
    BY <1>1, LedgerIsSound
  <1> QED BY <1>1, <1>2, FailureDelivers

\* No group is on its way when a board is started.
LEMMA DeliveringFirst == AttemptInit => Delivering
  <1> SUFFICES ASSUME AttemptInit PROVE OnItsWay
    BY DEF Delivering
  <1>1. ledger = <<>> /\ DOMAIN ledger = {} /\ hand.at = "pick" /\ hand.card = 0
    BY DEF AttemptInit, Resting
  <1>2. /\ OneEntry /\ FailureStops /\ OnlyManaged /\ OwnBranch /\ CompletedIsFinished
        /\ CommitsAtTheEnd /\ StartsAtBase
    BY <1>1 DEF OneEntry, FailureStops, OnlyManaged, OwnBranch, CompletedIsFinished,
       CommitsAtTheEnd, StartsAtBase
  <1>3. /\ BranchIsNew /\ EndingIsFinished /\ RunningIsUnfinished /\ EndsInOrder
        /\ DoneIsDelivered
    BY <1>1 DEF BranchIsNew, EndingIsFinished, RunningIsUnfinished, EndsInOrder,
       DoneIsDelivered, Ending
  <1> QED BY <1>2, <1>3 DEF OnItsWay

\* Every step of the worker keeps groups on their way, and every step of others
\* disturbs them.
LEMMA DeliveringNext ==
    ASSUME Known, Known', Delivering, [AttemptNext]_attemptVars
    PROVE  Delivering'
  <1>1. CASE RetryAttention
    <2>1. noise'.again > 0
      BY <1>1, RetryKnown
    <2> QED BY <2>1 DEF Delivering, Undisturbed
  <1>2. CASE OthersEdit \/ OthersSwitch \/ OthersCommit \/ OthersPush
    <2>1. noise'.others > 0
      BY <1>2, OthersKnown
    <2> QED BY <2>1 DEF Delivering, Undisturbed
  <1>3. CASE ~Undisturbed'
    BY <1>3 DEF Delivering
  <1>4. CASE Undisturbed' /\ ~(\/ RetryAttention \/ OthersEdit \/ OthersSwitch
                               \/ OthersCommit \/ OthersPush)
    <2>1. noise'.others = noise.others /\ noise'.again = noise.again
      <3>1. CASE ProviderEdits
        BY <3>1, EditsKnown
      <3>2. CASE UNCHANGED attemptVars
        BY <3>2 DEF attemptVars
      <3>3. CASE /\ AttemptNext
                 /\ ~ProviderEdits
        <4>1. Stay
          BY <1>4, <3>3, Zenon DEF AttemptNext, PickCard, CheckTree, ReadBase, CreateCardBranch,
             CommandFails, UseBaseline, TestsAnswered, RunBaseline, TakeSnapshot, TurnEnds,
             RecordChanges, ResultRepaired, JudgeResult, CommitGroup, SwitchBack, MergeGroup,
             PushGroup
        <4> QED BY <4>1 DEF Stay
      <3> QED BY <3>1, <3>2, <3>3
    <2>2. OnItsWay
      BY <1>4, <2>1 DEF Delivering, Undisturbed
    <2>3. OnItsWay'
      <3>1. CASE PickCard
        BY <2>2, <3>1, PickDelivers
      <3>2. CASE CheckTree
        BY <2>2, <3>2, TreeDelivers
      <3>3. CASE ReadBase
        BY <2>2, <3>3, ReadDelivers
      <3>4. CASE CreateCardBranch
        BY <2>2, <3>4, CreateDelivers
      <3>5. CASE CommandFails
        BY <2>2, <3>5, CommandDelivers
      <3>6. CASE UseBaseline \/ TestsAnswered \/ RunBaseline \/ TakeSnapshot
        BY <2>2, <3>6, BaselineDelivers
      <3>7. CASE ProviderEdits \/ TurnEnds \/ RecordChanges \/ ResultRepaired \/ JudgeResult
        BY <2>2, <3>7, TurnsDeliver
      <3>8. CASE CommitGroup
        BY <2>2, <3>8, CommitDelivers
      <3>9. CASE SwitchBack
        BY <2>2, <3>9, BackDelivers
      <3>10. CASE MergeGroup
        BY <2>2, <3>10, MergeDelivers
      <3>11. CASE PushGroup
        BY <2>2, <3>11, PushDelivers
      <3>12. CASE UNCHANGED attemptVars
        <4>1. UNCHANGED <<job, state, ledger, hand, git, noise>>
          BY <3>12 DEF attemptVars
        <4>2. /\ OneEntry' /\ FailureStops' /\ OnlyManaged' /\ BranchIsNew' /\ OwnBranch'
          BY <2>2, <4>1 DEF OnItsWay, OneEntry, FailureStops, OnlyManaged, BranchIsNew,
             OwnBranch, Items, GroupOf, ThisGroup, This, EntriesOf, Entry, EntryOf, OldestIn,
             IsBranch
        <4>3. /\ CompletedIsFinished' /\ EndingIsFinished' /\ RunningIsUnfinished'
              /\ CommitsAtTheEnd'
          BY <2>2, <4>1 DEF OnItsWay, CompletedIsFinished, EndingIsFinished,
             RunningIsUnfinished, CommitsAtTheEnd, Items, GroupOf, ThisGroup, This, Entry,
             EntryOf, OldestIn, Unfinished
        <4>4. StartsAtBase'
          BY <2>2, <4>1 DEF OnItsWay, StartsAtBase, IsBase, Contained
        <4>5. Entry' = Entry /\ ThisGroup' = ThisGroup
          BY <4>1 DEF GroupOf, ThisGroup, This, Entry, EntryOf, OldestIn
        <4>6. EndsInOrder'
          BY <2>2, <4>1, <4>5 DEF OnItsWay, EndsInOrder, Contained, WorkIsClean, TipOf
        <4>7. DoneIsDelivered'
          BY <2>2, <4>1, <4>5 DEF OnItsWay, DoneIsDelivered, IsBase, Contained, Delivered,
             WorkIsClean, TipOf
        <4> QED BY <4>2, <4>3, <4>4, <4>6, <4>7 DEF OnItsWay
      <3> QED
        BY <1>4, <3>1, <3>2, <3>3, <3>4, <3>5, <3>6, <3>7, <3>8, <3>9, <3>10, <3>11, <3>12
           DEF AttemptNext
    <2> QED BY <2>3 DEF Delivering
  <1> QED BY <1>1, <1>2, <1>3, <1>4

\* If nobody interferes and no card is retried, a group whose cards are all done is
\* completed, its commit is on the branch the group started from, here and at the
\* remote, and the project is back there with nothing left over
\* (finalize_managed_git_task_group in managed_git.rs).
THEOREM GroupsDelivered == AttemptSpec => []GroupDelivered
  <1>1. AttemptInit => Known /\ Delivering
    BY KnownFirst, DeliveringFirst
  <1>2. Known /\ Delivering /\ [AttemptNext]_attemptVars => Known' /\ Delivering'
    BY KnownNext, DeliveringNext
  <1>3. Known /\ Delivering => GroupDelivered
    <2> SUFFICES ASSUME Known, Delivering, hand.at \in {"pick", "off"}, hand.card # 0,
                        EntriesOf(ThisGroup) # {}, noise.others = 0, noise.again = 0,
                        \A c \in DOMAIN state : GroupOf(c) = ThisGroup => state[c].status = "done"
                 PROVE  /\ Entry.status = "completed" /\ WorkIsClean /\ git.branch = Entry.base
                        /\ Entry.commit => git.origin[Entry.base] = git.tips[Entry.base]
                        /\ Entry.commit \/ ~IsBase(Entry) => Contained(Entry)
      BY DEF GroupDelivered, ThisGroup, This, Entry, Contained
    <2> DEFINE o == EntryOf(ThisGroup)
    <2>1. OnItsWay
      BY DEF Delivering, Undisturbed
    <2>2. PICK i \in DOMAIN ledger : ledger[i].group = ThisGroup
      BY DEF EntriesOf
    <2>3. o = i /\ Entry = ledger[i]
      BY <2>1, <2>2, OnlyEntry DEF OnItsWay, Entry
    <2>4. DOMAIN state = Items
      BY DEF Known, Typed
    <2>5. ledger[i].status # "failed"
      BY <2>1, <2>2, <2>4 DEF OnItsWay, FailureStops
    <2>6. ledger[i].status # "running"
      BY <2>1, <2>2, <2>4 DEF OnItsWay, RunningIsUnfinished
    <2>7. ledger[i].status = "completed"
      BY <2>5, <2>6, EntryIs
    <2>8. Delivered(ledger[i])
      BY <2>1, <2>2, <2>7 DEF OnItsWay, DoneIsDelivered
    <2> QED BY <2>3, <2>7, <2>8 DEF Delivered
  <1> QED BY <1>1, <1>2, <1>3, PTL DEF AttemptSpec

-----------------------------------------------------------------------------
(***************************************************************************)
(* BoardCards.                                                             *)
(*                                                                         *)
(* A board is only ever replaced by what a request, an answer or the       *)
(* worker makes of it or of a copy, normalised.  So there is one lemma for *)
(* each operation on cards, which says that cards stay cards and keep the  *)
(* marks that work left; the copy a worker holds has the marks of the      *)
(* stored board at least.                                                  *)
(***************************************************************************)

\* The fields of a card, and of a board.
CardFields == {"level", "parent", "status", "required", "kind", "deps", "source", "fix", "why",
               "effects", "accepted", "touched", "superseded", "followup", "manual", "origin",
               "scope", "tries"}
BoardFields == {"status", "planning", "current", "cards", "prompt"}

IsCard(c) == DOMAIN c = CardFields /\ c.touched \subseteq Marks
AreCards(k) == DOMAIN k \subseteq Ids /\ \A id \in DOMAIN k : IsCard(k[id])
IsBoard(b) == DOMAIN b = BoardFields /\ AreCards(b.cards)

\* The marks that work left on its cards, and the one an attempt at a card, or an
\* edit of it, may take away.
MarksOf(k) == {m \in Ids \X Marks : m[1] \in DOMAIN k /\ m[2] \in k[m[1]].touched}
Effects(id) == {<<id, "effects">>}

\* j are cards with the marks of k.
Keeps(k, j) == AreCards(j) /\ MarksOf(j) = MarksOf(k)

\* j are cards with the marks of k, but perhaps for the effects of card id.
KeepsBut(k, j, id) ==
    AreCards(j) /\ MarksOf(j) \subseteq MarksOf(k) /\ MarksOf(k) \ Effects(id) \subseteq MarksOf(j)

-----------------------------------------------------------------------------
(* Operations on cards.                                                    *)

\* A change of cards one by one keeps them.
LEMMA EachKeeps ==
    ASSUME NEW k, AreCards(k), NEW j, DOMAIN j = DOMAIN k,
           \A id \in DOMAIN k : DOMAIN j[id] = CardFields /\ j[id].touched = k[id].touched
    PROVE  Keeps(k, j)
  BY DEF AreCards, IsCard, Keeps, MarksOf

\* A change of one card that takes its effects away.
LEMMA OneLoses ==
    ASSUME NEW k, AreCards(k), NEW j, NEW id, DOMAIN j = DOMAIN k,
           \A d \in DOMAIN k : /\ DOMAIN j[d] = CardFields
                               /\ \/ j[d].touched = k[d].touched
                                  \/ d = id /\ j[d].touched = k[d].touched \ {"effects"}
    PROVE  KeepsBut(k, j, id)
  <1>1. AreCards(j)
    BY DEF AreCards, IsCard
  <1>2. MarksOf(j) \subseteq MarksOf(k)
    BY DEF MarksOf
  <1>3. MarksOf(k) \ Effects(id) \subseteq MarksOf(j)
    BY DEF MarksOf, Effects
  <1> QED BY <1>1, <1>2, <1>3 DEF KeepsBut

\* Changes one after the other keep what each of them keeps.
LEMMA KeepsOn ==
    ASSUME NEW k, NEW j, NEW l, Keeps(k, j), Keeps(j, l)
    PROVE  Keeps(k, l)
  BY DEF Keeps

\* Cards as they are.
LEMMA KeepsItself ==
    ASSUME NEW k, AreCards(k)
    PROVE  Keeps(k, k)
  BY DEF Keeps

\* A change of one card.
LEMMA OneKeeps ==
    ASSUME NEW k, AreCards(k), NEW id, NEW c,
           id \in DOMAIN k => DOMAIN c = CardFields /\ c.touched = k[id].touched
    PROVE  Keeps(k, [k EXCEPT ![id] = c])
  BY EachKeeps DEF AreCards, IsCard

\* A card that comes without a mark under a new id.
LEMMA PutKeeps ==
    ASSUME NEW k, AreCards(k), NEW id \in Ids \ DOMAIN k, NEW c, IsCard(c), c.touched = {}
    PROVE  /\ Keeps(k, Put(k, id, c))
           /\ DOMAIN Put(k, id, c) = DOMAIN k \cup {id}
           /\ Put(k, id, c)[id] = c /\ \A d \in DOMAIN k : Put(k, id, c)[d] = k[d]
  <1>1. /\ DOMAIN Put(k, id, c) = DOMAIN k \cup {id}
        /\ Put(k, id, c)[id] = c /\ \A d \in DOMAIN k : Put(k, id, c)[d] = k[d]
    BY DEF Put
  <1> QED BY <1>1 DEF Keeps, AreCards, MarksOf

\* A card may come under an id that is not new: then no mark is new.
LEMMA PutAdds ==
    ASSUME NEW k, AreCards(k), NEW id, NEW c, IsCard(c), c.touched = {}, id \in Ids
    PROVE  /\ AreCards(Put(k, id, c)) /\ MarksOf(Put(k, id, c)) \subseteq MarksOf(k)
           /\ DOMAIN Put(k, id, c) = DOMAIN k \cup {id}
  <1>1. /\ DOMAIN Put(k, id, c) = DOMAIN k \cup {id}
        /\ Put(k, id, c)[id] = c /\ \A d \in DOMAIN k \ {id} : Put(k, id, c)[d] = k[d]
    BY DEF Put
  <1> QED BY <1>1 DEF AreCards, MarksOf

\* Cards without marks are removed.
LEMMA WithoutKeeps ==
    ASSUME NEW k, AreCards(k), NEW gone, \A d \in gone : d \in DOMAIN k => k[d].touched = {}
    PROVE  Keeps(k, Without(k, gone))
  BY DEF Keeps, AreCards, MarksOf, Without

\* Cards are removed: no mark is new.
LEMMA WithoutDrops ==
    ASSUME NEW k, AreCards(k), NEW gone
    PROVE  AreCards(Without(k, gone)) /\ MarksOf(Without(k, gone)) \subseteq MarksOf(k)
  BY DEF AreCards, MarksOf, Without

\* A new card has all fields and no mark.
LEMMA NewCardIs ==
    ASSUME NEW level, NEW parent, NEW status
    PROVE  /\ IsCard(NewCard(level, parent, status))
           /\ NewCard(level, parent, status).touched = {}
  BY DEF NewCard, IsCard, CardFields

\* Spare counts.
LEMMA SpareIsNat ==
    ASSUME NEW k
    PROVE  Spare(k) \in Nat
  BY NoCardAssumption, FS_Difference, FS_CardinalityType DEF Spare

\* While there is an id to spare, the fresh one is new, and one less is left.
LEMMA FreshIs ==
    ASSUME NEW k, AreCards(k), NEW n \in Nat, Spare(k) >= n + 1, NEW c
    PROVE  /\ FreshId(k) \in Ids \ DOMAIN k
           /\ Spare(Put(k, FreshId(k), c)) >= n
  <1> DEFINE free == Ids \ DOMAIN k  id == FreshId(k)
  <1>1. IsFiniteSet(free) /\ Cardinality(free) \in Nat
    BY NoCardAssumption, FS_Difference, FS_CardinalityType
  <1>2. free # {}
    BY <1>1, FS_EmptySet DEF Spare
  <1>3. id \in free
    BY <1>2 DEF FreshId
  <1>4. Ids \ DOMAIN Put(k, id, c) = free \ {id}
    BY DEF Put
  <1>5. Cardinality(free \ {id}) = Cardinality(free) - 1
    BY <1>1, <1>3, FS_RemoveElement
  <1> QED BY <1>1, <1>3, <1>4, <1>5 DEF Spare

\* Statuses that are rolled up are all that changes of parents.
LEMMA RolledIs ==
    ASSUME NEW c, NEW next, DOMAIN c = CardFields
    PROVE  DOMAIN Rolled(c, next) = CardFields /\ Rolled(c, next).touched = c.touched
  BY DEF Rolled, CardFields

\* RefreshRollups, which leaves subtasks as they are.
LEMMA RefreshKeeps ==
    ASSUME NEW k, AreCards(k)
    PROVE  /\ Keeps(k, RefreshRollups(k)) /\ DOMAIN RefreshRollups(k) = DOMAIN k
           /\ \A p \in DOMAIN k : Executable(k[p]) => RefreshRollups(k)[p] = k[p]
  <1> DEFINE At(deeper, d) ==
                 [p \in DOMAIN k |->
                     IF ~Executable(k[p]) /\ Depth(k, p) = d /\ Children(k, p) # {}
                     THEN RollUp(deeper, p, Children(k, p), RequiredChildren(k, p))
                     ELSE deeper[p]]
             Same(j) == \A p \in DOMAIN k : /\ DOMAIN j[p] = CardFields
                                            /\ j[p].touched = k[p].touched
                                            /\ Executable(k[p]) => j[p] = k[p]
  <1>1. ASSUME NEW j, NEW d, Same(j) PROVE Same(At(j, d))
    <2> SUFFICES ASSUME NEW p \in DOMAIN k
                 PROVE  /\ DOMAIN At(j, d)[p] = CardFields
                        /\ At(j, d)[p].touched = k[p].touched
                        /\ Executable(k[p]) => At(j, d)[p] = k[p]
      OBVIOUS
    <2>1. \/ At(j, d)[p] = j[p]
          \/ ~Executable(k[p]) /\ \E next : At(j, d)[p] = Rolled(j[p], next)
      BY DEF RollUp
    <2>2. /\ DOMAIN j[p] = CardFields /\ j[p].touched = k[p].touched
          /\ Executable(k[p]) => j[p] = k[p]
      BY <1>1
    <2> HIDE DEF At
    <2> QED BY <2>1, <2>2, RolledIs
  <1>2. Same(k)
    BY DEF AreCards, IsCard
  <1>3. RefreshRollups(k) = At(At(At(k, 2), 1), 0)
    BY DEF RefreshRollups
  <1>4. \A j, d : DOMAIN At(j, d) = DOMAIN k
    OBVIOUS
  <1> HIDE DEF At
  <1>5. Same(At(At(At(k, 2), 1), 0))
    BY <1>1, <1>2
  <1> QED BY <1>3, <1>4, <1>5, EachKeeps
-----------------------------------------------------------------------------
(* Normalisation.                                                          *)

\* Work is approved all the way up.
WorkIsApproved(k) == \A id \in DOMAIN k :
    k[id].status \in {"todo", "in_progress"} => AncestorsApproved(k, k[id])

\* Relevel.
LEMMA RelevelKeeps ==
    ASSUME NEW k, AreCards(k)
    PROVE  Keeps(k, Relevel(k)) /\ DOMAIN Relevel(k) = DOMAIN k
  <1> DEFINE Pass(j) == [id \in DOMAIN j |-> [j[id] EXCEPT !.level = LevelBelow(j, j[id])]]
  <1>1. ASSUME NEW j, AreCards(j)
        PROVE  Keeps(j, Pass(j)) /\ DOMAIN Pass(j) = DOMAIN j
    BY <1>1, EachKeeps DEF AreCards, IsCard, CardFields
  <1>2. Relevel(k) = Pass(Pass(Pass(k)))
    BY DEF Relevel
  <1> HIDE DEF Pass
  <1>3. /\ Keeps(k, Pass(k)) /\ Keeps(Pass(k), Pass(Pass(k)))
        /\ Keeps(Pass(Pass(k)), Pass(Pass(Pass(k))))
        /\ DOMAIN Pass(Pass(Pass(k))) = DOMAIN k
    BY <1>1 DEF Keeps
  <1> QED BY <1>2, <1>3 DEF Keeps

\* ReconcileApprovals.
LEMMA ReconcileKeeps ==
    ASSUME NEW k, AreCards(k)
    PROVE  Keeps(k, ReconcileApprovals(k)) /\ DOMAIN ReconcileApprovals(k) = DOMAIN k
  <1>1. DOMAIN ReconcileApprovals(k) = DOMAIN k
    BY DEF ReconcileApprovals
  <1>2. \A id \in DOMAIN k : /\ DOMAIN ReconcileApprovals(k)[id] = CardFields
                            /\ ReconcileApprovals(k)[id].touched = k[id].touched
    BY DEF ReconcileApprovals, AreCards, IsCard, CardFields
  <1> QED BY <1>1, <1>2, EachKeeps

\* Normalize.
LEMMA NormalKeeps ==
    ASSUME NEW k, AreCards(k)
    PROVE  Keeps(k, Normalize(k)) /\ DOMAIN Normalize(k) = DOMAIN k
  BY RelevelKeeps, ReconcileKeeps DEF Normalize, Keeps

\* The ancestors of a card whose ancestors are approved are as before, and their
\* own ancestors are among them.
LEMMA AncestorsStay ==
    ASSUME NEW k, AreCards(k), NEW c, AncestorsApproved(k, c)
    PROVE  \A n \in 1..MaxDepth : LET p == Chain(k, c)[n] IN
              p # NoCard => p \in DOMAIN k /\ ReconcileApprovals(k)[p] = k[p]
  <1> DEFINE p1 == c.parent  p2 == ParentOf(k, p1)  p3 == ParentOf(k, p2)  p4 == ParentOf(k, p3)
  <1>1. NoCard \notin DOMAIN k /\ ParentOf(k, NoCard) = NoCard
    BY NoCardAssumption DEF AreCards, ParentOf
  <1>2. Chain(k, c) = <<p1, p2, p3, p4>> /\ MaxDepth = 4
    BY DEF Chain, MaxDepth
  <1>3. /\ ParentOf(k, p4) = NoCard
        /\ p1 # NoCard => p1 \in DOMAIN k /\ Permits(k[p1], c)
        /\ p2 # NoCard => p2 \in DOMAIN k /\ Permits(k[p2], k[p1])
        /\ p3 # NoCard => p3 \in DOMAIN k /\ Permits(k[p3], k[p2])
        /\ p4 # NoCard => p4 \in DOMAIN k /\ Permits(k[p4], k[p3])
    <2> HIDE DEF p1, p2, p3, p4
    <2>1. ParentOf(k, Chain(k, c)[4]) = NoCard
      BY <1>2 DEF AncestorsApproved, ChainApproved
    <2>2. \A n \in 1..4 : Chain(k, c)[n] # NoCard =>
             /\ Chain(k, c)[n] \in DOMAIN k
             /\ Permits(k[Chain(k, c)[n]], IF n = 1 THEN c ELSE k[Chain(k, c)[n - 1]])
      BY <1>2 DEF AncestorsApproved, ChainApproved
    <2> QED BY <1>2, <2>1, <2>2
  <1>4. ASSUME NEW p \in DOMAIN k, NEW q1, NEW q2, NEW q3, NEW q4,
               k[p].parent = q1, ParentOf(k, q1) = q2, ParentOf(k, q2) = q3,
               ParentOf(k, q3) = q4, ParentOf(k, q4) = NoCard,
               q1 # NoCard => q1 \in DOMAIN k /\ Permits(k[q1], k[p]),
               q2 # NoCard => q2 \in DOMAIN k /\ Permits(k[q2], k[q1]),
               q3 # NoCard => q3 \in DOMAIN k /\ Permits(k[q3], k[q2]),
               q4 # NoCard => q4 \in DOMAIN k /\ Permits(k[q4], k[q3])
        PROVE  ReconcileApprovals(k)[p] = k[p]
    <2>1. Chain(k, k[p]) = <<q1, q2, q3, q4>>
      BY <1>4 DEF Chain
    <2>2. AncestorsApproved(k, k[p])
      <3> SUFFICES ASSUME NEW n \in 1..4, <<q1, q2, q3, q4>>[n] # NoCard
                   PROVE  /\ <<q1, q2, q3, q4>>[n] \in DOMAIN k
                          /\ Permits(k[<<q1, q2, q3, q4>>[n]],
                                     IF n = 1 THEN k[p] ELSE k[<<q1, q2, q3, q4>>[n - 1]])
        BY <1>2, <1>4, <2>1 DEF AncestorsApproved, ChainApproved
      <3>1. n \in {1, 2, 3, 4}
        OBVIOUS
      <3> QED BY <1>4, <3>1
    <2> QED BY <2>2 DEF ReconcileApprovals
  <1>5. /\ p1 # NoCard => p2 = k[p1].parent
        /\ p2 # NoCard => p3 = k[p2].parent
        /\ p3 # NoCard => p4 = k[p3].parent
        /\ p4 # NoCard => NoCard = k[p4].parent
        /\ (p1 = NoCard => p2 = NoCard) /\ (p2 = NoCard => p3 = NoCard)
        /\ (p3 = NoCard => p4 = NoCard)
    BY <1>1, <1>3 DEF ParentOf
  <1>6. p2 = ParentOf(k, p1) /\ p3 = ParentOf(k, p2) /\ p4 = ParentOf(k, p3)
    OBVIOUS
  <1> HIDE DEF p1, p2, p3, p4
  <1>7. p1 # NoCard => ReconcileApprovals(k)[p1] = k[p1]
    BY <1>1, <1>3, <1>4, <1>5, <1>6
  <1>8. p2 # NoCard => ReconcileApprovals(k)[p2] = k[p2]
    BY <1>1, <1>3, <1>4, <1>5, <1>6
  <1>9. p3 # NoCard => ReconcileApprovals(k)[p3] = k[p3]
    BY <1>1, <1>3, <1>4, <1>5, <1>6
  <1>10. p4 # NoCard => ReconcileApprovals(k)[p4] = k[p4]
    BY <1>1, <1>3, <1>4, <1>5, <1>6
  <1> QED
    <2> SUFFICES ASSUME NEW n \in 1..4, <<p1, p2, p3, p4>>[n] # NoCard
                 PROVE  /\ <<p1, p2, p3, p4>>[n] \in DOMAIN k
                        /\ ReconcileApprovals(k)[<<p1, p2, p3, p4>>[n]] = k[<<p1, p2, p3, p4>>[n]]
      BY <1>2
    <2>1. n \in {1, 2, 3, 4}
      OBVIOUS
    <2> QED BY <1>3, <1>7, <1>8, <1>9, <1>10, <2>1

\* No work is left under a parent that is not approved.
LEMMA NormalApproves ==
    ASSUME NEW j, AreCards(j)
    PROVE  WorkIsApproved(Normalize(j))
  <1> DEFINE k == Relevel(j)  r == ReconcileApprovals(k)
  <1>1. AreCards(k) /\ Normalize(j) = r
    BY RelevelKeeps DEF Keeps, Normalize
  <1> HIDE DEF k
  <1>2. AreCards(r) /\ DOMAIN r = DOMAIN k
    BY <1>1, ReconcileKeeps DEF Keeps
  <1> SUFFICES ASSUME NEW id \in DOMAIN k, r[id].status \in {"todo", "in_progress"}
               PROVE  AncestorsApproved(r, r[id])
    BY <1>1, <1>2 DEF WorkIsApproved
  <1> DEFINE sent(x) == [k[x] EXCEPT !.status = "blocked", !.why = "parent"]
             waits(x) == k[x].status \in {"todo", "in_progress"} /\ ~AncestorsApproved(k, k[x])
  <1>a. r = [x \in DOMAIN k |-> IF waits(x) THEN sent(x) ELSE k[x]]
    BY DEF ReconcileApprovals
  <1>b. \A x \in DOMAIN k : sent(x).status = "blocked" /\ sent(x).parent = k[x].parent
    BY <1>1 DEF AreCards, IsCard, CardFields
  <1> HIDE DEF sent, r
  <1>3. r[id] = k[id] /\ AncestorsApproved(k, k[id])
    <2>1. ~waits(id)
      BY <1>a, <1>b
    <2>2. r[id] = k[id]
      BY <1>a, <2>1
    <2> HIDE DEF waits
    <2> QED BY <2>1, <2>2 DEF waits
  <1> HIDE DEF waits
  <1>c. \A x \in DOMAIN k : r[x].parent = k[x].parent
    BY <1>a, <1>b
  <1>4. \A p : ParentOf(r, p) = ParentOf(k, p)
    BY <1>2, <1>c DEF ParentOf
  <1> USE DEF r
  <1> DEFINE chain == Chain(k, k[id])
  <1>5. Chain(r, r[id]) = chain
    BY <1>3, <1>4 DEF Chain
  <1>6. \A n \in 1..MaxDepth : chain[n] # NoCard =>
           chain[n] \in DOMAIN k /\ r[chain[n]] = k[chain[n]]
    BY <1>1, <1>3, AncestorsStay
  <1>7. \A n \in 1..MaxDepth : n # 1 /\ chain[n] # NoCard => chain[n - 1] # NoCard
    <2>1. NoCard \notin DOMAIN k
      BY <1>1, NoCardAssumption DEF AreCards
    <2>2. \A p : ParentOf(k, p) # NoCard => p # NoCard
      BY <2>1 DEF ParentOf
    <2> SUFFICES ASSUME NEW n \in {2, 3, 4}, chain[n] # NoCard PROVE chain[n - 1] # NoCard
      BY DEF MaxDepth
    <2> QED BY <2>2 DEF Chain
  <1> HIDE DEF chain, r
  <1>8. /\ ParentOf(r, chain[MaxDepth]) = NoCard
        /\ \A n \in 1..MaxDepth : chain[n] # NoCard =>
              /\ chain[n] \in DOMAIN r
              /\ Permits(r[chain[n]], IF n = 1 THEN r[id] ELSE r[chain[n - 1]])
    <2>1. /\ ParentOf(k, chain[MaxDepth]) = NoCard
          /\ \A n \in 1..MaxDepth : chain[n] # NoCard =>
                /\ chain[n] \in DOMAIN k
                /\ Permits(k[chain[n]], IF n = 1 THEN k[id] ELSE k[chain[n - 1]])
      BY <1>3 DEF AncestorsApproved, ChainApproved, chain
    <2>2. \A n \in 1..MaxDepth : n # 1 => n - 1 \in 1..MaxDepth
      BY DEF MaxDepth
    <2> QED BY <1>2, <1>3, <1>4, <1>6, <1>7, <2>1, <2>2
  <1> QED BY <1>5, <1>8 DEF AncestorsApproved, ChainApproved


-----------------------------------------------------------------------------
(* Dependencies, planning errors and side effects.                         *)

\* ReconcileDependencies.
LEMMA DependenciesKeep ==
    ASSUME NEW k, AreCards(k)
    PROVE  Keeps(k, ReconcileDependencies(k))
  <1>1. DOMAIN ReconcileDependencies(k) = DOMAIN k
    BY DEF ReconcileDependencies
  <1>2. \A id \in DOMAIN k : /\ DOMAIN ReconcileDependencies(k)[id] = CardFields
                            /\ ReconcileDependencies(k)[id].touched = k[id].touched
    BY DEF ReconcileDependencies, AreCards, IsCard, CardFields
  <1> QED BY <1>1, <1>2, EachKeeps

\* MarkDependencyBlockers.
LEMMA BlockersKeep ==
    ASSUME NEW k, AreCards(k)
    PROVE  Keeps(k, MarkDependencyBlockers(k))
  <1>1. DOMAIN MarkDependencyBlockers(k) = DOMAIN k
    BY DEF MarkDependencyBlockers
  <1>2. \A id \in DOMAIN k : /\ DOMAIN MarkDependencyBlockers(k)[id] = CardFields
                            /\ MarkDependencyBlockers(k)[id].touched = k[id].touched
    BY DEF MarkDependencyBlockers, AreCards, IsCard, CardFields
  <1> QED BY <1>1, <1>2, EachKeeps

\* MarkEffectBlockers.
LEMMA EffectsKeep ==
    ASSUME NEW k, AreCards(k)
    PROVE  Keeps(k, MarkEffectBlockers(k))
  <1>1. DOMAIN MarkEffectBlockers(k) = DOMAIN k
    BY DEF MarkEffectBlockers
  <1>2. \A id \in DOMAIN k : /\ DOMAIN MarkEffectBlockers(k)[id] = CardFields
                            /\ MarkEffectBlockers(k)[id].touched = k[id].touched
    BY DEF MarkEffectBlockers, AreCards, IsCard, CardFields
  <1> QED BY <1>1, <1>2, EachKeeps

\* MarkPlanningError.
LEMMA PlanningKeeps ==
    ASSUME NEW k, AreCards(k), NEW affected
    PROVE  Keeps(k, MarkPlanningError(k, affected))
  <1>1. DOMAIN MarkPlanningError(k, affected) = DOMAIN k
    BY DEF MarkPlanningError
  <1>2. \A id \in DOMAIN k : /\ DOMAIN MarkPlanningError(k, affected)[id] = CardFields
                            /\ MarkPlanningError(k, affected)[id].touched = k[id].touched
    BY DEF MarkPlanningError, AreCards, IsCard, CardFields
  <1> QED BY <1>1, <1>2, EachKeeps

\* MarkDeletedDependencies.
LEMMA DeletedKeeps ==
    ASSUME NEW k, AreCards(k), NEW gone
    PROVE  Keeps(k, MarkDeletedDependencies(k, gone))
  <1> DEFINE hit == {id \in DOMAIN k : k[id].deps \cap gone # {}}
             marked == [id \in DOMAIN k |->
                           IF id \in hit /\ k[id].status # "done"
                           THEN [k[id] EXCEPT !.status = "blocked", !.why = "dependency"]
                           ELSE k[id]]
  <1>1. \A id \in DOMAIN k : DOMAIN marked[id] = CardFields /\ marked[id].touched = k[id].touched
    BY DEF AreCards, IsCard, CardFields
  <1>2. MarkDeletedDependencies(k, gone) \in {k, RefreshRollups(marked)}
    BY DEF MarkDeletedDependencies
  <1>3. DOMAIN marked = DOMAIN k
    OBVIOUS
  <1> HIDE DEF marked, hit
  <1>4. Keeps(k, marked)
    BY <1>1, <1>3, EachKeeps
  <1>5. Keeps(marked, RefreshRollups(marked))
    BY <1>4, RefreshKeeps DEF Keeps
  <1> QED BY <1>2, <1>4, <1>5, KeepsOn, KeepsItself

\* It adds and removes none.
LEMMA DeletedStays ==
    ASSUME NEW k, AreCards(k), NEW gone
    PROVE  DOMAIN MarkDeletedDependencies(k, gone) = DOMAIN k
  <1> DEFINE hit == {id \in DOMAIN k : k[id].deps \cap gone # {}}
             marked == [id \in DOMAIN k |->
                           IF id \in hit /\ k[id].status # "done"
                           THEN [k[id] EXCEPT !.status = "blocked", !.why = "dependency"]
                           ELSE k[id]]
  <1>1. AreCards(marked)
    BY DEF AreCards, IsCard, CardFields
  <1>2. MarkDeletedDependencies(k, gone) \in {k, RefreshRollups(marked)}
    BY DEF MarkDeletedDependencies
  <1>3. DOMAIN marked = DOMAIN k
    OBVIOUS
  <1> HIDE DEF marked, hit
  <1> QED BY <1>1, <1>2, <1>3, RefreshKeeps

\* BlockParents.
LEMMA ParentsKeep ==
    ASSUME NEW k, AreCards(k), NEW short
    PROVE  Keeps(k, BlockParents(k, short))
  <1>1. DOMAIN BlockParents(k, short) = DOMAIN k
    BY DEF BlockParents
  <1>2. \A id \in DOMAIN k : /\ DOMAIN BlockParents(k, short)[id] = CardFields
                            /\ BlockParents(k, short)[id].touched = k[id].touched
    BY DEF BlockParents, AreCards, IsCard, CardFields
  <1> QED BY <1>1, <1>2, EachKeeps

-----------------------------------------------------------------------------
(* Requests.                                                               *)

\* Refused and Accepted.
LEMMA AnswersKeep ==
    ASSUME NEW k, NEW j, Keeps(k, j)
    PROVE  Keeps(k, Accepted(j).cards) /\ Keeps(k, Refused(j).cards)
  BY DEF Accepted, Refused

\* Unless.
LEMMA UnlessKeeps ==
    ASSUME NEW k, NEW j, Keeps(k, j), NEW affected, NEW r, Keeps(k, r.cards)
    PROVE  Keeps(k, Unless(j, affected, r).cards)
  <1>1. Keeps(j, PlanningError(j, affected).cards)
    BY PlanningKeeps DEF Keeps, PlanningError
  <1> QED BY <1>1 DEF Unless, Keeps

\* Checked.
LEMMA CheckedKeeps ==
    ASSUME NEW k, NEW j, Keeps(k, j), NEW after, Keeps(k, after)
    PROVE  Keeps(k, Checked(j, after).cards)
  BY UnlessKeeps, AnswersKeep DEF Checked

\* Reconciled.
LEMMA ReconciledKeeps ==
    ASSUME NEW k, NEW j, Keeps(k, j)
    PROVE  Keeps(k, Reconciled(j).cards)
  <1>1. Keeps(k, RefreshRollups(j))
    BY RefreshKeeps DEF Keeps
  <1> QED BY <1>1, CheckedKeeps DEF Reconciled

\* It adds and removes none.
LEMMA ReconciledStays ==
    ASSUME NEW k, AreCards(k)
    PROVE  DOMAIN Reconciled(k).cards = DOMAIN k
  <1>1. DOMAIN RefreshRollups(k) = DOMAIN k
    BY RefreshKeeps
  <1>2. Reconciled(k).cards \in {RefreshRollups(k)}
              \cup {MarkPlanningError(k, affected) : affected \in {DependencyCycle(k), HierarchyIssue(k)}}
    BY DEF Reconciled, Checked, Unless, Accepted, PlanningError
  <1>3. \A affected : DOMAIN MarkPlanningError(k, affected) = DOMAIN k
    BY DEF MarkPlanningError
  <1> QED BY <1>1, <1>2, <1>3

\* Cards without marks are removed with the dependencies on them.
LEMMA RemovalKeeps ==
    ASSUME NEW k, AreCards(k), NEW gone, \A d \in gone : d \in DOMAIN k => k[d].touched = {}
    PROVE  Keeps(k, MarkDeletedDependencies(Without(k, gone), gone))
  <1>1. Keeps(k, Without(k, gone))
    BY WithoutKeeps
  <1> QED BY <1>1, DeletedKeeps DEF Keeps

\* DeleteTask.
LEMMA DeleteKeeps ==
    ASSUME NEW k, AreCards(k), NEW cur, NEW id
    PROVE  Keeps(k, DeleteTask(k, cur, id).cards)
  <1> DEFINE gone == Descendants(k, id)
             short == {k[d].parent : d \in {e \in gone : k[e].required}}
             rest == MarkDeletedDependencies(Without(k, gone), gone)
  <1>1. \/ DeleteTask(k, cur, id) = Refused(k)
        \/ /\ DeleteTask(k, cur, id) = Accepted(BlockParents(rest, short))
           /\ \A d \in gone : k[d].touched = {}
    BY DEF DeleteTask
  <1> HIDE DEF gone, short
  <1>2. (\A d \in gone : k[d].touched = {}) => Keeps(k, rest)
    BY RemovalKeeps
  <1> HIDE DEF rest
  <1>3. Keeps(k, rest) => Keeps(k, BlockParents(rest, short))
    BY ParentsKeep DEF Keeps
  <1> QED BY <1>1, <1>2, <1>3, KeepsItself, AnswersKeep

\* DeleteGenerated.
LEMMA GeneratedKeeps ==
    ASSUME NEW k, AreCards(k), NEW cur, NEW id
    PROVE  Keeps(k, DeleteGenerated(k, cur, id).cards)
  <1> DEFINE below == Descendants(k, id) \ {id}
             rest == MarkDeletedDependencies(Without(k, below), below)
  <1>1. \/ DeleteGenerated(k, cur, id) \in {Refused(k), Accepted(k)}
        \/ /\ DeleteGenerated(k, cur, id) = Accepted(rest)
           /\ \A d \in below : k[d].touched = {}
    BY DEF DeleteGenerated
  <1> HIDE DEF below
  <1>2. (\A d \in below : k[d].touched = {}) => Keeps(k, rest)
    BY RemovalKeeps
  <1> QED BY <1>1, <1>2, KeepsItself, AnswersKeep

\* The card whose plan is discarded stays.
LEMMA GeneratedStays ==
    ASSUME NEW k, AreCards(k), NEW cur, NEW id \in DOMAIN k
    PROVE  id \in DOMAIN DeleteGenerated(k, cur, id).cards
  <1> DEFINE below == Descendants(k, id) \ {id}
             kept == Without(k, below)
             rest == MarkDeletedDependencies(kept, below)
  <1>1. DeleteGenerated(k, cur, id).cards \in {k, rest}
    BY DEF DeleteGenerated, Refused, Accepted
  <1>2. id \in DOMAIN kept /\ AreCards(kept)
    BY WithoutDrops DEF Without
  <1> HIDE DEF kept, below
  <1>3. DOMAIN rest = DOMAIN kept
    BY <1>2, DeletedStays
  <1> QED BY <1>1, <1>2, <1>3

\* IfAccepted.
LEMMA IfAcceptedKeeps ==
    ASSUME NEW k, AreCards(k), NEW r, Keeps(k, r.cards), {"cards", "answer"} = DOMAIN r
    PROVE  Keeps(k, IfAccepted(k, r).cards)
  <1>1. Refreshed(r).cards = RefreshRollups(r.cards)
    BY DEF Refreshed
  <1>2. Keeps(k, RefreshRollups(r.cards))
    BY RefreshKeeps DEF Keeps
  <1> QED BY <1>1, <1>2, KeepsItself, AnswersKeep DEF IfAccepted

\* RegenerateChildren.
LEMMA RegenerateKeeps ==
    ASSUME NEW k, AreCards(k), NEW cur, NEW id
    PROVE  Keeps(k, RegenerateChildren(k, cur, id).cards)
  <1>1. {"cards", "answer"} = DOMAIN DeleteGenerated(k, cur, id)
    BY DEF DeleteGenerated, Refused, Accepted
  <1>2. Keeps(k, IfAccepted(k, DeleteGenerated(k, cur, id)).cards)
    BY <1>1, GeneratedKeeps, IfAcceptedKeeps
  <1> QED BY <1>2, KeepsItself, AnswersKeep DEF RegenerateChildren

\* AddTask, with a new id.
LEMMA AddKeeps ==
    ASSUME NEW k, AreCards(k), NEW id \in Ids \ DOMAIN k, NEW c, IsCard(c), c.touched = {}
    PROVE  Keeps(k, AddTask(k, id, c).cards)
  <1> DEFINE j == Put(k, id, c)
  <1>1. Keeps(k, j)
    BY PutKeeps
  <1> HIDE DEF j
  <1>2. Keeps(k, ReconcileApprovals(Relevel(j)))
    BY <1>1, RelevelKeeps, ReconcileKeeps DEF Keeps
  <1>3. AddTask(k, id, c) \in {Refused(k), Reconciled(ReconcileApprovals(Relevel(j)))}
    BY DEF AddTask, j
  <1> QED BY <1>2, <1>3, ReconciledKeeps, KeepsItself, AnswersKeep

\* A scope that loses its approval keeps its mark.
LEMMA WithdrawnIs ==
    ASSUME NEW c, DOMAIN c = CardFields
    PROVE  DOMAIN Withdrawn(c) = CardFields /\ Withdrawn(c).touched = c.touched
  BY DEF Withdrawn, CardFields

\* A scope edited loses the effects reported of it.
LEMMA RescopedIs ==
    ASSUME NEW c, DOMAIN c = CardFields, NEW deps
    PROVE  /\ DOMAIN Rescoped(c, deps) = CardFields
           /\ Rescoped(c, deps).touched = c.touched \ {"effects"}
  BY WithdrawnIs DEF Rescoped, CardFields

\* Edited.
LEMMA EditedKeeps ==
    ASSUME NEW k, AreCards(k), NEW id, NEW deps, NEW pruned, Keeps(k, pruned.cards)
    PROVE  /\ KeepsBut(k, Edited(k, id, deps, pruned).cards, id)
           /\ id \in DOMAIN k /\ id \in DOMAIN pruned.cards =>
                 id \in DOMAIN Edited(k, id, deps, pruned).cards
  <1> DEFINE j == pruned.cards
             edited == [j EXCEPT ![id] = Rescoped(@, deps)]
  <1>1. Edited(k, id, deps, pruned) =
           IF pruned.answer # "ok" THEN Refused(k)
           ELSE IF id \in deps \/ ~(deps \subseteq DOMAIN j) THEN Refused(edited)
           ELSE Reconciled(edited)
    BY DEF Edited
  <1>2. AreCards(j)
    BY DEF Keeps
  <1> HIDE DEF j
  <1>3. DOMAIN edited = DOMAIN j
    OBVIOUS
  <1>4. \A d \in DOMAIN j :
           /\ DOMAIN edited[d] = CardFields
           /\ \/ edited[d].touched = j[d].touched
              \/ d = id /\ edited[d].touched = j[d].touched \ {"effects"}
    BY <1>2, RescopedIs DEF AreCards, IsCard
  <1> HIDE DEF edited
  <1>5. KeepsBut(k, edited, id)
    BY <1>2, <1>3, <1>4, OneLoses DEF j, Keeps, KeepsBut
  <1>6. Keeps(edited, edited)
    BY <1>5, KeepsItself DEF KeepsBut
  <1>7. Keeps(edited, Reconciled(edited).cards) /\ Keeps(edited, Refused(edited).cards)
    BY <1>6, ReconciledKeeps, AnswersKeep
  <1>8. KeepsBut(k, Refused(k).cards, id) /\ Refused(k).cards = k /\ Refused(edited).cards = edited
    BY DEF KeepsBut, Refused
  <1>9. DOMAIN Reconciled(edited).cards = DOMAIN edited
    BY <1>6, ReconciledStays DEF Keeps
  <1> QED BY <1>1, <1>3, <1>5, <1>7, <1>8, <1>9 DEF Keeps, KeepsBut, j

\* EditBacklogTask.
LEMMA EditKeeps ==
    ASSUME NEW k, AreCards(k), NEW cur, NEW id, NEW deps
    PROVE  LET j == EditBacklogTask(k, cur, id, deps).cards IN
           KeepsBut(k, j, id) /\ (id \in DOMAIN k => id \in DOMAIN j)
  <1> DEFINE pruned == DeleteGenerated(k, cur, id)
  <1>1. EditBacklogTask(k, cur, id, deps) \in {Refused(k), Edited(k, id, deps, pruned)}
    BY DEF EditBacklogTask
  <1>2. Keeps(k, pruned.cards) /\ (id \in DOMAIN k => id \in DOMAIN pruned.cards)
    BY GeneratedKeeps, GeneratedStays
  <1> HIDE DEF pruned
  <1>3. LET j == Edited(k, id, deps, pruned).cards IN
        KeepsBut(k, j, id) /\ (id \in DOMAIN k => id \in DOMAIN j)
    BY <1>2, EditedKeeps
  <1>4. KeepsBut(k, Refused(k).cards, id) /\ Refused(k).cards = k
    BY DEF KeepsBut, Refused
  <1> QED BY <1>1, <1>3, <1>4

\* Moved.
LEMMA MovedKeeps ==
    ASSUME NEW k, AreCards(k), NEW id, NEW status, NEW pruned, Keeps(k, pruned.cards)
    PROVE  Keeps(k, Moved(k, id, status, pruned).cards)
  <1> DEFINE j == pruned.cards
             c == [IF status = "backlog" THEN Withdrawn(j[id]) ELSE j[id]
                      EXCEPT !.status = status, !.why = "none"]
             moved == [j EXCEPT ![id] = c]
             after == RefreshRollups(moved)
  <1>1. id \in DOMAIN j => DOMAIN c = CardFields /\ c.touched = j[id].touched
    BY WithdrawnIs DEF Keeps, AreCards, IsCard, CardFields
  <1>2. Moved(k, id, status, pruned) \in {Refused(k), Checked(after, after)}
    BY DEF Moved
  <1>3. AreCards(j)
    BY DEF Keeps
  <1> HIDE DEF c, j
  <1>4. Keeps(j, moved)
    BY <1>1, <1>3, OneKeeps
  <1> HIDE DEF moved
  <1>5. Keeps(k, after)
    BY <1>4, RefreshKeeps DEF j, Keeps
  <1> QED BY <1>2, <1>5, CheckedKeeps, KeepsItself, AnswersKeep

\* MoveTask.
LEMMA MoveKeeps ==
    ASSUME NEW k, AreCards(k), NEW cur, NEW id, NEW status
    PROVE  Keeps(k, MoveTask(k, cur, id, status).cards)
  <1> DEFINE pruned == IF status = "backlog" THEN DeleteGenerated(k, cur, id) ELSE Accepted(k)
  <1>1. Keeps(k, pruned.cards)
    BY GeneratedKeeps, KeepsItself, AnswersKeep
  <1>2. MoveTask(k, cur, id, status) \in {Refused(k), Moved(k, id, status, pruned)}
    BY DEF MoveTask
  <1> HIDE DEF pruned
  <1> QED BY <1>1, <1>2, MovedKeeps, KeepsItself, AnswersKeep

\* A level or a parent of its own leaves a card its mark.
LEMMA DetachKeeps ==
    ASSUME NEW k, AreCards(k), NEW id
    PROVE  Keeps(k, DetachTask(k, id).cards)
  <1> DEFINE p == k[id].parent
             alone == [k EXCEPT ![id].parent = NoCard, ![id].level = "story",
                                ![id].scope = @ + 1, ![id].deps = @ \ {p}]
             j == ReconcileApprovals(Relevel(alone))
             r == Unless(j, HierarchyIssue(j), Accepted(RefreshRollups(j)))
  <1>1. DetachTask(k, id) \in {Refused(k), r}
    BY DEF DetachTask
  <1>2. DOMAIN alone = DOMAIN k
    OBVIOUS
  <1>3. \A d \in DOMAIN k : DOMAIN alone[d] = CardFields /\ alone[d].touched = k[d].touched
    BY DEF AreCards, IsCard, CardFields
  <1> HIDE DEF alone
  <1>4. Keeps(k, alone)
    BY <1>2, <1>3, EachKeeps
  <1>5. Keeps(k, j)
    BY <1>4, RelevelKeeps, ReconcileKeeps DEF Keeps
  <1> HIDE DEF j
  <1>6. Keeps(k, Accepted(RefreshRollups(j)).cards)
    BY <1>5, RefreshKeeps, AnswersKeep DEF Keeps
  <1>7. Keeps(k, r.cards)
    BY <1>5, <1>6, UnlessKeeps
  <1> HIDE DEF r
  <1> QED BY <1>1, <1>7, KeepsItself, AnswersKeep

\* A card that is put under a fresh id.
LEMMA FreshKeeps ==
    ASSUME NEW k, AreCards(k), Spare(k) >= 1, NEW c, IsCard(c), c.touched = {}
    PROVE  /\ Keeps(k, Put(k, FreshId(k), c))
           /\ DOMAIN Put(k, FreshId(k), c) = DOMAIN k \cup {FreshId(k)}
  <1>1. \A n \in Nat : Spare(k) >= n + 1 => FreshId(k) \in Ids \ DOMAIN k
    BY FreshIs
  <1>2. FreshId(k) \in Ids \ DOMAIN k
    BY <1>1, Spare(k) >= 0 + 1
  <1>3. \A id \in Ids \ DOMAIN k :
           Keeps(k, Put(k, id, c)) /\ DOMAIN Put(k, id, c) = DOMAIN k \cup {id}
    <2> TAKE id \in Ids \ DOMAIN k
    <2>1. Keeps(k, Put(k, id, c))
      BY PutKeeps
    <2>2. DOMAIN Put(k, id, c) = DOMAIN k \cup {id}
      BY PutKeeps
    <2> QED BY <2>1, <2>2
  <1> QED BY <1>2, <1>3

\* SplitItem.
LEMMA SplitKeeps ==
    ASSUME NEW k, AreCards(k), NEW id, Spare(k) >= 1
    PROVE  Keeps(k, SplitItem(k, id).cards)
  <1> DEFINE c == NewCard(NextLevel(k[id].level), id, "backlog")
             split == Put(k, FreshId(k), c)
  <1>1. SplitItem(k, id) \in {Refused(k), PlanningError(k, {id}), Accepted(RefreshRollups(split))}
    BY DEF SplitItem
  <1>2. IsCard(c) /\ c.touched = {}
    BY NewCardIs
  <1> HIDE DEF c
  <1>3. Keeps(k, split)
    BY <1>2, FreshKeeps
  <1> HIDE DEF split
  <1>4. Keeps(k, RefreshRollups(split))
    BY <1>3, RefreshKeeps DEF Keeps
  <1>5. Keeps(k, PlanningError(k, {id}).cards)
    BY PlanningKeeps DEF PlanningError
  <1> QED BY <1>1, <1>4, <1>5, KeepsItself, AnswersKeep

\* MergeItem.
LEMMA MergeKeeps ==
    ASSUME NEW k, AreCards(k), NEW cur, NEW from, NEW to
    PROVE  KeepsBut(k, MergeItem(k, cur, from, to).cards, to)
  <1> DEFINE pruned == DeleteGenerated(k, cur, to)
             r == Rewritten(k, cur, to, pruned)
             gone == DeleteTask(r.cards, cur, from)
  <1>1. Keeps(k, pruned.cards)
    BY GeneratedKeeps
  <1>2. MergeItem(k, cur, from, to) \in {Refused(k), Merged(cur, from, r)}
    BY DEF MergeItem
  <1> HIDE DEF pruned
  <1>0. KeepsBut(k, Refused(k).cards, to)
    BY DEF KeepsBut, Refused
  <1>3. KeepsBut(k, r.cards, to)
    <2> DEFINE deps == k[to].deps
               j == EditBacklogTask(pruned.cards, cur, to, deps).cards
    <2> HIDE DEF deps
    <2>1. KeepsBut(pruned.cards, j, to)
      BY <1>1, EditKeeps DEF Keeps
    <2> HIDE DEF j
    <2>2. KeepsBut(k, j, to)
      BY <1>1, <2>1 DEF Keeps, KeepsBut
    <2> QED BY <1>0, <2>2 DEF Rewritten, j, deps
  <1> HIDE DEF r
  <1>4. Keeps(r.cards, gone.cards) /\ {"cards", "answer"} = DOMAIN gone
    BY <1>3, DeleteKeeps DEF KeepsBut, DeleteTask, Refused, Accepted
  <1> HIDE DEF gone
  <1>5. Keeps(r.cards, IfAccepted(r.cards, gone).cards)
    BY <1>3, <1>4, IfAcceptedKeeps DEF KeepsBut
  <1>6. Merged(cur, from, r) \in {r, Refused(r.cards), IfAccepted(r.cards, gone)}
    BY DEF Merged, gone
  <1>7. KeepsBut(k, Merged(cur, from, r).cards, to)
    BY <1>3, <1>5, <1>6 DEF Keeps, KeepsBut, Refused
  <1> QED BY <1>0, <1>2, <1>7

\* ReplaceItem.
LEMMA ReplaceKeeps ==
    ASSUME NEW k, AreCards(k), NEW id, Spare(k) >= 1
    PROVE  Keeps(k, ReplaceItem(k, id).cards)
  <1> DEFINE old == [k EXCEPT ![id].superseded = TRUE]
             c == [NewCard("story", NoCard, "backlog") EXCEPT !.source = id]
             new == Put(old, FreshId(k), c)
  <1>1. ReplaceItem(k, id) \in {Refused(k), Accepted(RefreshRollups(new))}
    BY DEF ReplaceItem
  <1>2. IsCard(c) /\ c.touched = {}
    BY NewCardIs DEF IsCard, CardFields
  <1>3. DOMAIN old = DOMAIN k
    OBVIOUS
  <1>4. \A d \in DOMAIN k : DOMAIN old[d] = CardFields /\ old[d].touched = k[d].touched
    BY DEF AreCards, IsCard, CardFields
  <1> HIDE DEF old, c
  <1>5. Keeps(k, old)
    BY <1>3, <1>4, EachKeeps
  <1>6. FreshId(old) = FreshId(k) /\ Spare(old) = Spare(k)
    BY <1>3 DEF FreshId, Spare
  <1>7. Keeps(k, new)
    BY <1>2, <1>5, <1>6, FreshKeeps DEF Keeps
  <1> HIDE DEF new
  <1>8. Keeps(k, RefreshRollups(new))
    BY <1>7, RefreshKeeps DEF Keeps
  <1> QED BY <1>1, <1>8, KeepsItself, AnswersKeep

\* ApproveSideEffects.
LEMMA ApproveKeeps ==
    ASSUME NEW k, AreCards(k), NEW id, NEW approved
    PROVE  Keeps(k, ApproveSideEffects(k, id, approved).cards)
  <1> DEFINE c == k[id]
             next == [c EXCEPT
                 !.effects = IF approved THEN "approved" ELSE "asked",
                 !.status = IF approved /\ c.status = "blocked" /\ c.why = "effect" THEN "todo"
                            ELSE IF ~approved /\ c.status = "todo" THEN "blocked" ELSE @,
                 !.why = IF approved /\ c.status = "blocked" /\ c.why = "effect" THEN "none"
                         ELSE IF ~approved /\ c.status = "todo" THEN "effect" ELSE @]
             j == [k EXCEPT ![id] = next]
  <1>1. ApproveSideEffects(k, id, approved) \in {Refused(k), Accepted(RefreshRollups(j))}
    BY DEF ApproveSideEffects
  <1>2. id \in DOMAIN k => DOMAIN next = CardFields /\ next.touched = k[id].touched
    BY DEF AreCards, IsCard, CardFields
  <1> HIDE DEF next
  <1>3. Keeps(k, j)
    BY <1>2, OneKeeps
  <1> HIDE DEF j
  <1>4. Keeps(k, RefreshRollups(j))
    BY <1>3, RefreshKeeps DEF Keeps
  <1> QED BY <1>1, <1>4, KeepsItself, AnswersKeep

\* AcceptResearch.
LEMMA AcceptKeeps ==
    ASSUME NEW k, AreCards(k), NEW id, NEW items, Spare(k) >= 1
    PROVE  Keeps(k, AcceptResearch(k, id, items).cards)
  <1> DEFINE c == NewCard("story", NoCard, "backlog")
             planned == IF items THEN Put(k, FreshId(k), c) ELSE k
             j == [planned EXCEPT ![id].accepted = TRUE, ![id].why = "none"]
             r == Unless(planned, HierarchyIssue(planned), Accepted(RefreshRollups(j)))
  <1>1. AcceptResearch(k, id, items) \in {Refused(k), Accepted(k), r}
    BY DEF AcceptResearch
  <1>2. Keeps(k, planned)
    BY NewCardIs, FreshKeeps, KeepsItself
  <1> HIDE DEF planned
  <1>3. DOMAIN j = DOMAIN planned
    OBVIOUS
  <1>4. \A d \in DOMAIN planned : /\ DOMAIN j[d] = CardFields
                                  /\ j[d].touched = planned[d].touched
    BY <1>2 DEF Keeps, AreCards, IsCard, CardFields
  <1> HIDE DEF j
  <1>5. Keeps(k, j)
    BY <1>2, <1>3, <1>4, EachKeeps DEF Keeps
  <1>6. Keeps(k, Accepted(RefreshRollups(j)).cards)
    BY <1>5, RefreshKeeps, AnswersKeep DEF Keeps
  <1>7. Keeps(k, r.cards)
    BY <1>2, <1>6, UnlessKeeps
  <1> HIDE DEF r
  <1> QED BY <1>1, <1>7, KeepsItself, AnswersKeep

\* RetryTask.
LEMMA RetryKeeps ==
    ASSUME NEW k, AreCards(k), NEW id, NEW fix
    PROVE  Keeps(k, RetryTask(k, id, fix).cards)
  <1> DEFINE r == ReconcileDependencies(k)
             j == [r EXCEPT ![id].status = "todo", ![id].why = "none", ![id].fix = fix]
  <1>1. RetryTask(k, id, fix) \in {Refused(r), Accepted(j)}
    BY DEF RetryTask
  <1>2. Keeps(k, r)
    BY DependenciesKeep
  <1> HIDE DEF r
  <1>3. DOMAIN j = DOMAIN r
    OBVIOUS
  <1>4. \A d \in DOMAIN r : DOMAIN j[d] = CardFields /\ j[d].touched = r[d].touched
    BY <1>2 DEF Keeps, AreCards, IsCard, CardFields
  <1> HIDE DEF j
  <1>5. Keeps(k, j)
    BY <1>2, <1>3, <1>4, EachKeeps DEF Keeps
  <1> QED BY <1>1, <1>2, <1>5, AnswersKeep

\* PlanRemoval adds at most two cards.
LEMMA RemovalIsPlanned ==
    ASSUME NEW k, AreCards(k), NEW id, Spare(k) >= 2
    PROVE  Keeps(k, PlanRemoval(k, id))
  <1> DEFINE task == FreshId(k)
             With(j, parent) == Put(j, FreshId(j), NewCard("subtask", parent, "backlog"))
             first == Put(k, task, NewCard("task", id, "backlog"))
  <1>1. Spare(first) >= 1
    BY FreshIs, 1 \in Nat, Spare(k) >= 1 + 1
  <1>2. Spare(k) >= 1
    BY SpareIsNat
  <1>3. Keeps(k, first)
    BY <1>2, FreshKeeps, NewCardIs
  <1>4. PlanRemoval(k, id) \in {With(k, id), With(first, task)}
    BY DEF PlanRemoval
  <1> HIDE DEF first, task
  <1>5. Keeps(k, With(k, id))
    BY <1>2, FreshKeeps, NewCardIs
  <1>6. Keeps(first, With(first, task))
    BY <1>1, <1>3, FreshKeeps, NewCardIs DEF Keeps
  <1> QED BY <1>3, <1>4, <1>5, <1>6, KeepsOn

\* ResolveScopeEffects is the only request that drops marks.
LEMMA ResolveDrops ==
    ASSUME NEW k, AreCards(k), NEW running, NEW cur, NEW id, NEW decision,
           decision # "keep" => Spare(k) >= 2
    PROVE  LET r == ResolveScopeEffects(k, running, cur, id, decision) IN
           AreCards(r.cards) /\ MarksOf(r.cards) \subseteq MarksOf(k)
  <1> DEFINE chain == Lineage(k, id)
             back == [d \in DOMAIN k |->
                         IF d \in chain /\ \E a \in chain : k[a].status # "backlog"
                         THEN [Withdrawn(k[d]) EXCEPT !.status = "backlog", !.why = "none"]
                         ELSE k[d]]
             affected == {d \in Descendants(back, id) \ {id} : back[d].touched # {}}
             planned == IF decision = "keep" THEN back ELSE PlanRemoval(back, id)
             rest == Without(planned, affected)
             after == RefreshRollups(MarkDeletedDependencies(rest, affected))
  <1>1. ResolveScopeEffects(k, running, cur, id, decision)
           \in {Refused(k), Refused(back), Accepted(after)}
    BY DEF ResolveScopeEffects, Resolved
  <1>2. DOMAIN back = DOMAIN k
    OBVIOUS
  <1>3. \A d \in DOMAIN k : DOMAIN back[d] = CardFields /\ back[d].touched = k[d].touched
    BY WithdrawnIs DEF AreCards, IsCard, CardFields
  <1> HIDE DEF back, chain
  <1>4. Keeps(k, back)
    BY <1>2, <1>3, EachKeeps
  <1>5. Keeps(k, planned)
    <2>1. decision # "keep" => Spare(back) >= 2
      BY <1>2 DEF Spare
    <2> QED BY <1>4, <2>1, RemovalIsPlanned, KeepsOn DEF Keeps
  <1> HIDE DEF planned, affected
  <1>6. AreCards(rest) /\ MarksOf(rest) \subseteq MarksOf(k)
    BY <1>5, WithoutDrops DEF Keeps
  <1> HIDE DEF rest
  <1>7. AreCards(after) /\ MarksOf(after) \subseteq MarksOf(k)
    BY <1>6, DeletedKeeps, RefreshKeeps DEF Keeps
  <1> HIDE DEF after
  <1> QED BY <1>1, <1>4, <1>7 DEF Keeps, Accepted, Refused

-----------------------------------------------------------------------------
(* Boards.                                                                 *)

\* c is board b with the marks it had.
BoardKeeps(b, c) == IsBoard(c) /\ Keeps(b.cards, c.cards)

\* A board as it is loaded or saved.
LEMMA LoadedIs ==
    ASSUME NEW b, IsBoard(b)
    PROVE  BoardKeeps(b, Loaded(b)) /\ WorkIsApproved(Loaded(b).cards)
  <1>1. Loaded(b).cards = Normalize(b.cards) /\ DOMAIN Loaded(b) = BoardFields
    BY DEF Loaded, IsBoard, BoardFields
  <1> QED BY <1>1, NormalKeeps, NormalApproves DEF IsBoard, BoardKeeps, Keeps

\* A board with other cards, and one with all else changed.
LEMMA BoardKeepsOn ==
    ASSUME NEW b, NEW c, NEW d, BoardKeeps(b, c), BoardKeeps(c, d)
    PROVE  BoardKeeps(b, d)
  BY DEF BoardKeeps, Keeps

\* StoppedByPlan.
LEMMA StoppedKeeps ==
    ASSUME NEW b, IsBoard(b), NEW k, Keeps(b.cards, k)
    PROVE  BoardKeeps(b, StoppedByPlan(b, k))
  BY DEF BoardKeeps, Keeps, StoppedByPlan, IsBoard, BoardFields

\* AfterRequest.
LEMMA RequestKeeps ==
    ASSUME NEW b, IsBoard(b), NEW r, Keeps(b.cards, r.cards)
    PROVE  BoardKeeps(b, AfterRequest(b, r))
  <1>1. BoardKeeps(b, [b EXCEPT !.cards = r.cards]) /\ BoardKeeps(b, b)
    BY DEF BoardKeeps, Keeps, IsBoard, BoardFields
  <1> QED BY <1>1, StoppedKeeps DEF AfterRequest

\* What a request may also drop, the board drops.
LEMMA RequestDrops ==
    ASSUME NEW b, IsBoard(b), NEW r, AreCards(r.cards)
    PROVE  IsBoard(AfterRequest(b, r))
  BY DEF IsBoard, BoardFields, AfterRequest, StoppedByPlan

\* Outcome.
LEMMA OutcomeKeeps ==
    ASSUME NEW b, IsBoard(b), NEW t, NEW status, NEW why
    PROVE  BoardKeeps(b, Outcome(b, t, status, why))
  <1> DEFINE k == b.cards
             j == [k EXCEPT ![t].status = status, ![t].why = why]
  <1>1. DOMAIN Outcome(b, t, status, why) = BoardFields /\ Outcome(b, t, status, why).cards = j
    BY DEF Outcome, IsBoard, BoardFields
  <1>2. DOMAIN j = DOMAIN k
    OBVIOUS
  <1>3. \A d \in DOMAIN k : DOMAIN j[d] = CardFields /\ j[d].touched = k[d].touched
    BY DEF IsBoard, AreCards, IsCard, CardFields
  <1> HIDE DEF j
  <1>4. Keeps(k, j)
    BY <1>2, <1>3, EachKeeps DEF IsBoard
  <1> QED BY <1>1, <1>4 DEF BoardKeeps, IsBoard, Keeps

\* Halted.
LEMMA HaltedKeeps ==
    ASSUME NEW b, IsBoard(b), NEW k, Keeps(b.cards, k)
    PROVE  BoardKeeps(b, Halted(b, k))
  <1> DEFINE Stop(status, cards) == [b EXCEPT !.status = status, !.cards = cards]
  <1>1. \A status, cards : Keeps(b.cards, cards) =>
           /\ BoardKeeps(b, Stop(status, cards))
           /\ BoardKeeps(b, [Stop(status, cards) EXCEPT !.current = NoCard])
    BY DEF BoardKeeps, Keeps, IsBoard, BoardFields
  <1>2. Keeps(b.cards, MarkEffectBlockers(k)) /\ Keeps(b.cards, MarkDependencyBlockers(k))
    BY EffectsKeep, BlockersKeep DEF Keeps
  <1>3. \E status \in {"blocked", "paused", "completed"},
           cards \in {k, MarkEffectBlockers(k), MarkDependencyBlockers(k)} :
           Halted(b, k) \in {Stop(status, cards), [Stop(status, cards) EXCEPT !.current = NoCard]}
    BY Zenon DEF Halted
  <1> HIDE DEF Stop
  <1>4. \A cards \in {k, MarkEffectBlockers(k), MarkDependencyBlockers(k)} : Keeps(b.cards, cards)
    BY <1>2
  <1>5. PICK status \in {"blocked", "paused", "completed"},
             cards \in {k, MarkEffectBlockers(k), MarkDependencyBlockers(k)} :
           Halted(b, k) \in {Stop(status, cards), [Stop(status, cards) EXCEPT !.current = NoCard]}
    BY <1>3
  <1>6. /\ BoardKeeps(b, Stop(status, cards))
        /\ BoardKeeps(b, [Stop(status, cards) EXCEPT !.current = NoCard])
    BY <1>1, <1>4
  <1> QED BY <1>5, <1>6

-----------------------------------------------------------------------------
(* Plans and prompts.                                                      *)

\* Planned adds one card, or three of its own.
LEMMA PlannedKeeps ==
    ASSUME NEW k, AreCards(k), NEW p, NEW wrapped,
           Spare(k) >= IF wrapped THEN 3 ELSE 1
    PROVE  Keeps(k, Planned(k, p, wrapped))
  <1> DEFINE one == Put(k, FreshId(k), NewCard(NextLevel(k[p].level), p, k[p].status))
             story == FreshId(k)
             c == [NewCard("story", NoCard, "backlog") EXCEPT !.origin = p, !.required = FALSE]
             withStory == Put(k, story, c)
             task == FreshId(withStory)
             Wrapped(parent, l) == [NewCard(l, parent, "backlog") EXCEPT !.required = FALSE]
             withTask == Put(withStory, task, Wrapped(story, "task"))
             all == Put(withTask, FreshId(withTask), Wrapped(task, "subtask"))
  <1>1. /\ Planned(k, p, wrapped) \in {one, withTask, all}
        /\ (~wrapped => Planned(k, p, wrapped) = one)
        /\ (wrapped => Planned(k, p, wrapped) \in {withTask, all})
    BY DEF Planned
  <1>2. /\ IsCard(c) /\ c.touched = {}
        /\ \A parent, l : IsCard(Wrapped(parent, l)) /\ Wrapped(parent, l).touched = {}
    BY NewCardIs DEF IsCard, CardFields
  <1>3. CASE ~wrapped
    <2>1. Spare(k) >= 1
      BY <1>3
    <2>2. Keeps(k, one)
      BY <2>1, NewCardIs, FreshKeeps
    <2> HIDE DEF one
    <2> QED BY <1>1, <1>3, <2>2
  <1>4. CASE wrapped
    <2> HIDE DEF c, Wrapped
    <2>1. Spare(k) >= 2 + 1 /\ Spare(k) >= 1
      BY <1>4, SpareIsNat
    <2>2. Keeps(k, withStory)
      BY <1>2, <2>1, FreshKeeps
    <2>3. Spare(withStory) >= 1 + 1
      BY <2>1, FreshIs, 2 \in Nat
    <2> HIDE DEF story, withStory
    <2>4. Spare(withStory) >= 1
      BY <2>3, SpareIsNat
    <2>5. Keeps(withStory, withTask)
      BY <1>2, <2>2, <2>4, FreshKeeps DEF Keeps
    <2>6. Spare(withTask) >= 1
      BY <2>2, <2>3, FreshIs, 1 \in Nat, 0 + 1 = 1 DEF Keeps
    <2> HIDE DEF task, withTask
    <2>7. Keeps(withTask, all)
      BY <1>2, <2>5, <2>6, FreshKeeps DEF Keeps
    <2> HIDE DEF all
    <2>8. Keeps(k, withTask)
      BY <2>2, <2>5, KeepsOn
    <2>9. Keeps(k, all)
      BY <2>8, <2>7, KeepsOn
    <2> QED BY <1>1, <1>4, <2>8, <2>9
  <1> QED BY <1>3, <1>4

\* Breakdown.
LEMMA BreakdownKeeps ==
    ASSUME NEW k, AreCards(k), NEW p, NEW seen, NEW wrapped,
           Spare(k) >= IF wrapped THEN 3 ELSE 1
    PROVE  Keeps(k, Breakdown(k, p, seen, wrapped).cards)
  <1> DEFINE plan == Planned(k, p, wrapped)
             j == [plan EXCEPT ![p].why = "none"]
             sound == Unless(j, DependencyCycle(j), Accepted(RefreshRollups(j)))
             r == Unless(j, HierarchyIssue(j), sound)
  <1>1. Breakdown(k, p, seen, wrapped) \in {Refused(k), r}
    BY DEF Breakdown, Reviewed
  <1>2. Keeps(k, plan)
    BY PlannedKeeps
  <1> HIDE DEF plan
  <1>3. DOMAIN j = DOMAIN plan
    OBVIOUS
  <1>4. \A d \in DOMAIN plan : DOMAIN j[d] = CardFields /\ j[d].touched = plan[d].touched
    BY <1>2 DEF Keeps, AreCards, IsCard, CardFields
  <1> HIDE DEF j
  <1>5. Keeps(k, j)
    BY <1>2, <1>3, <1>4, EachKeeps DEF Keeps
  <1>6. Keeps(k, Accepted(RefreshRollups(j)).cards)
    BY <1>5, RefreshKeeps, AnswersKeep DEF Keeps
  <1>7. Keeps(k, sound.cards)
    BY <1>5, <1>6, UnlessKeeps
  <1> HIDE DEF sound
  <1>8. Keeps(k, r.cards)
    BY <1>5, <1>7, UnlessKeeps
  <1> HIDE DEF r
  <1> QED BY <1>1, <1>8, KeepsItself, AnswersKeep

\* FailedBreakdown.
LEMMA FailedKeeps ==
    ASSUME NEW b, IsBoard(b), NEW p, NEW manual
    PROVE  BoardKeeps(b, FailedBreakdown(b, p, manual))
  <1> DEFINE why == IF manual THEN "replan" ELSE "breakdown"
             k == b.cards
             j == [k EXCEPT ![p].why = why, ![p].status = IF manual THEN @ ELSE "blocked"]
             noted == IF p \notin DOMAIN k THEN k ELSE j
  <1>1. FailedBreakdown(b, p, manual) \in
           {b, [b EXCEPT !.cards = noted],
            [StoppedByPlan(b, noted) EXCEPT !.planning = "breakdown"]}
    BY DEF FailedBreakdown
  <1>2. DOMAIN j = DOMAIN k
    OBVIOUS
  <1>3. \A d \in DOMAIN k : DOMAIN j[d] = CardFields /\ j[d].touched = k[d].touched
    BY DEF IsBoard, AreCards, IsCard, CardFields
  <1> HIDE DEF j
  <1>4. Keeps(k, noted)
    BY <1>2, <1>3, EachKeeps, KeepsItself DEF IsBoard
  <1> HIDE DEF noted
  <1>5. BoardKeeps(b, b) /\ BoardKeeps(b, [b EXCEPT !.cards = noted])
    BY <1>4 DEF BoardKeeps, Keeps, IsBoard, BoardFields
  <1>6. BoardKeeps(b, [StoppedByPlan(b, noted) EXCEPT !.planning = "breakdown"])
    BY <1>4 DEF BoardKeeps, Keeps, IsBoard, BoardFields, StoppedByPlan
  <1> QED BY <1>1, <1>5, <1>6

\* Reopened.
LEMMA ReopenedKeeps ==
    ASSUME NEW b, IsBoard(b), WorkIsApproved(b.cards), NEW p
    PROVE  BoardKeeps(b, Reopened(b, p)) /\ WorkIsApproved(Reopened(b, p).cards)
  <1> DEFINE open == Outcome(b, p, "backlog", "none")
             reset == IF b.cards[p].status \in {"blocked", "failed"} THEN open ELSE b
             stopped == [reset EXCEPT !.status = "paused", !.planning = "none",
                                      !.current = NoCard]
  <1>1. Reopened(b, p) \in {b, Loaded(reset), Loaded(stopped)}
    BY DEF Reopened, Outcome
  <1>2. BoardKeeps(b, b)
    BY KeepsItself DEF BoardKeeps, IsBoard
  <1>3. BoardKeeps(b, reset)
    BY <1>2, OutcomeKeeps
  <1> HIDE DEF reset
  <1>4. BoardKeeps(b, stopped)
    BY <1>3 DEF BoardKeeps, Keeps, IsBoard, BoardFields
  <1> HIDE DEF stopped
  <1>5. \A c : BoardKeeps(b, c) => BoardKeeps(b, Loaded(c)) /\ WorkIsApproved(Loaded(c).cards)
    <2> SUFFICES ASSUME NEW c, BoardKeeps(b, c)
                 PROVE  BoardKeeps(b, Loaded(c)) /\ WorkIsApproved(Loaded(c).cards)
      OBVIOUS
    <2>1. IsBoard(c)
      BY DEF BoardKeeps
    <2>2. BoardKeeps(c, Loaded(c)) /\ WorkIsApproved(Loaded(c).cards)
      BY <2>1, LoadedIs
    <2> QED BY <2>2, BoardKeepsOn
  <1> QED BY <1>1, <1>2, <1>3, <1>4, <1>5

\* DraftTree adds at most three cards; a story is one card.
LEMMA DraftKeeps ==
    ASSUME NEW k, AreCards(k), NEW level \in DraftLevels, NEW deps, Spare(k) >= 1,
           level # "story" => Spare(k) >= 3
    PROVE  Keeps(k, DraftTree(k, level, deps))
  <1> DEFINE Nest(j, l, parent) == Put(j, FreshId(j), NewCard(l, parent, "backlog"))
             story == FreshId(k)
             withStory == Put(k, story, DraftStory(deps))
             task == FreshId(withStory)
             withTask == Nest(withStory, "task", story)
             all == Nest(withTask, "subtask", task)
  <1>1. DraftTree(k, level, deps) =
           CASE level = "story" -> withStory [] level = "task" -> withTask [] OTHER -> all
    BY DEF DraftTree
  <1>2. IsCard(DraftStory(deps)) /\ DraftStory(deps).touched = {}
    BY NewCardIs DEF DraftStory, IsCard, CardFields
  <1>3. Keeps(k, withStory)
    BY <1>2, FreshKeeps
  <1>4. CASE level = "story"
    BY <1>1, <1>3, <1>4
  <1>5. CASE level # "story"
    <2>1. Spare(k) >= 2 + 1
      BY <1>5
    <2>2. Spare(withStory) >= 1 + 1
      BY <2>1, FreshIs, 2 \in Nat
    <2> HIDE DEF story, withStory
    <2>3. Spare(withStory) >= 1
      BY <2>2, SpareIsNat
    <2>4. Keeps(withStory, withTask)
      BY <1>3, <2>3, NewCardIs, FreshKeeps DEF Keeps
    <2>5. Spare(withTask) >= 1
      BY <1>3, <2>2, FreshIs, 1 \in Nat, 0 + 1 = 1 DEF Keeps
    <2> HIDE DEF task, withTask
    <2>6. Keeps(withTask, all)
      BY <2>4, <2>5, NewCardIs, FreshKeeps DEF Keeps
    <2> HIDE DEF all
    <2>7. Keeps(k, withTask)
      BY <1>3, <2>4, KeepsOn
    <2>8. Keeps(k, all)
      BY <2>7, <2>6, KeepsOn
    <2> QED BY <1>1, <1>5, <2>7, <2>8
  <1> QED BY <1>4, <1>5

\* PromptPlans.
LEMMA PromptsKeep ==
    ASSUME NEW k, AreCards(k), Spare(k) >= 3, NEW plan \in PromptPlans(k)
    PROVE  Keeps(k, plan)
  <1> DEFINE first == FreshId(k)
             Pair(back) == DraftTree(DraftTree(k, "story", back), "story", {first})
  <1>1. \/ \E level \in DraftLevels : \E d : plan = DraftTree(k, level, d)
        \/ \E back : plan = Pair(back) \/ plan = Without(Pair(back), {first})
    BY DEF PromptPlans, DraftLevels
  <1>2. Spare(k) >= 1 /\ Spare(k) >= 1 + 1
    BY SpareIsNat
  <1>3. \A level \in DraftLevels : \A d : Keeps(k, DraftTree(k, level, d))
    BY <1>2, DraftKeeps
  <1>4. first \in Ids \ DOMAIN k
    BY <1>2, FreshIs, 1 \in Nat
  <1>5. ASSUME NEW back PROVE Keeps(k, Pair(back))
    <2> DEFINE one == DraftTree(k, "story", back)
    <2>1. Keeps(k, one) /\ "story" \in DraftLevels
      BY <1>3 DEF DraftLevels
    <2>2. one = Put(k, FreshId(k), DraftStory(back))
      BY DEF DraftTree
    <2>3. Spare(one) >= 1
      BY <1>2, <2>2, FreshIs, 1 \in Nat
    <2> HIDE DEF one
    <2>4. Keeps(one, DraftTree(one, "story", {first}))
      BY <2>1, <2>3, DraftKeeps DEF Keeps
    <2>5. Keeps(k, DraftTree(one, "story", {first}))
      BY <2>1, <2>4, KeepsOn
    <2> QED BY <2>5 DEF one
  <1>6. ASSUME NEW back PROVE Keeps(k, Without(Pair(back), {first}))
    <2>1. Keeps(k, Pair(back))
      BY <1>5
    <2> HIDE DEF Pair, first
    <2>2. \A d \in {first} : d \in DOMAIN Pair(back) => Pair(back)[d].touched = {}
      <3> SUFFICES ASSUME first \in DOMAIN Pair(back), NEW m \in Pair(back)[first].touched
                   PROVE  FALSE
        OBVIOUS
      <3>1. m \in Marks /\ first \in Ids
        BY <1>4, <2>1 DEF Keeps, AreCards, IsCard
      <3>2. <<first, m>> \in MarksOf(Pair(back))
        BY <3>1 DEF MarksOf
      <3>3. <<first, m>> \in MarksOf(k)
        BY <2>1, <3>2 DEF Keeps
      <3> QED BY <1>4, <3>3 DEF MarksOf
    <2>3. Keeps(Pair(back), Without(Pair(back), {first}))
      BY <2>1, <2>2, WithoutKeeps DEF Keeps
    <2> QED BY <2>1, <2>3, KeepsOn
  <1> HIDE DEF Pair, first
  <1> QED BY <1>1, <1>3, <1>5, <1>6

\* WithPlan and NoDrafts.
LEMMA DraftsKeep ==
    ASSUME NEW b, IsBoard(b), NEW plan, Keeps(b.cards, plan)
    PROVE  BoardKeeps(b, NoDrafts(b)) /\ BoardKeeps(b, WithPlan(b, plan))
  <1> DEFINE k == Normalize(plan)
             c == [b EXCEPT !.prompt = NoPrompt, !.cards = RefreshRollups(k)]
  <1>1. BoardKeeps(b, NoDrafts(b))
    BY KeepsItself DEF NoDrafts, BoardKeeps, IsBoard, BoardFields
  <1>2. Keeps(b.cards, RefreshRollups(k))
    BY NormalKeeps, RefreshKeeps DEF Keeps
  <1>3. WithPlan(b, plan) \in {NoDrafts(b), c}
    BY DEF WithPlan
  <1>4. BoardKeeps(b, c)
    <2> HIDE DEF k
    <2> QED BY <1>2 DEF BoardKeeps, Keeps, IsBoard, BoardFields
  <1> QED BY <1>1, <1>3, <1>4

-----------------------------------------------------------------------------
(* Results.                                                                *)

\* j are the cards of k and perhaps more, with its marks, but perhaps for the
\* effects of card id.
AddsBut(k, j, id) ==
    AreCards(j) /\ DOMAIN k \subseteq DOMAIN j /\ MarksOf(k) \ Effects(id) \subseteq MarksOf(j)

\* Judged keeps marks.
LEMMA JudgedIs ==
    ASSUME NEW c, IsCard(c), NEW answer
    PROVE  /\ IsCard(Judged(c, answer)) /\ Judged(c, answer).touched = c.touched
           /\ Judged(c, answer).level = c.level
           /\ answer \in {"blocked", "failed", "provider"} => Judged(c, answer).status # "done"
  <1> DEFINE Now(status, why) == [c EXCEPT !.status = status, !.why = why]
  <1>1. \A status, why : /\ IsCard(Now(status, why)) /\ Now(status, why).touched = c.touched
                         /\ Now(status, why).level = c.level
                         /\ Now(status, why).status = status
    BY DEF IsCard, CardFields
  <1>2. Judged(c, answer) =
           CASE answer = "provider" -> Now("blocked", "provider")
             [] answer = "bare" -> Now("blocked", "evidence")
             [] answer = "done" -> Now("done", "none")
             [] answer \in {"followup", "no_json"} ->
                   IF ChecksWork(c) THEN Now("done", "none") ELSE Now("blocked", "defect")
             [] OTHER -> Now("failed", "defect")
    BY DEF Judged
  <1> HIDE DEF Now
  <1>3. \E status, why : /\ Judged(c, answer) = Now(status, why)
                         /\ answer \in {"blocked", "failed", "provider"} => status # "done"
    BY <1>2
  <1> QED BY <1>1, <1>3

\* What an attempt leaves replaces the effects of the one before.
LEMMA MarkedIs ==
    ASSUME NEW c, IsCard(c), NEW marks \in SUBSET Marks
    PROVE  /\ IsCard(Marked(c, marks)) /\ c.touched \ {"effects"} \subseteq Marked(c, marks).touched
           /\ Marked(c, marks).level = c.level /\ Marked(c, marks).status = c.status
  BY DEF Marked, IsCard, CardFields

\* A card the system adds has no mark.
LEMMA SystemIs ==
    ASSUME NEW k, NEW t, NEW kind
    PROVE  /\ IsCard(System(k, t, kind)) /\ System(k, t, kind).touched = {}
           /\ IsCard([System(k, t, kind) EXCEPT !.followup = TRUE])
           /\ [System(k, t, kind) EXCEPT !.followup = TRUE].touched = {}
  BY NewCardIs DEF System, IsCard, CardFields

\* FollowUp adds a card at most, and says so.
LEMMA FollowUpKeeps ==
    ASSUME NEW k, AreCards(k), NEW t \in DOMAIN k, NEW answer,
           Spare(k) >= 1 \/ answer \in {"blocked", "failed", "provider"}
    PROVE  LET r == FollowUp(k, t, answer) IN
           /\ Keeps(k, r.cards) /\ r.added \in BOOLEAN /\ DOMAIN k \subseteq DOMAIN r.cards
           /\ ~r.added => DOMAIN r.cards = DOMAIN k
           /\ answer \in {"blocked", "failed", "provider"} => r.cards = k /\ ~r.added
  <1> DEFINE Blocked == [k EXCEPT ![t].status = "blocked", ![t].why = "defect"]
             verdict == Put(k, FreshId(k), System(k, t, "verdict"))
             fix == Put(k, FreshId(k), [System(k, t, "fix") EXCEPT !.followup = TRUE])
             quiet == answer \in {"blocked", "failed", "provider"}
             r == FollowUp(k, t, answer)
  <1>1. \/ r.cards \in {verdict, Blocked, fix} /\ r.added = TRUE /\ ~quiet
        \/ r.cards \in {k, Blocked} /\ r.added = FALSE /\ (quiet => r.cards = k)
    BY DEF FollowUp, WantsFollowup
  <1>2. Keeps(k, Blocked) /\ DOMAIN Blocked = DOMAIN k
    <2>1. DOMAIN Blocked = DOMAIN k
      OBVIOUS
    <2>2. \A d \in DOMAIN k : DOMAIN Blocked[d] = CardFields /\ Blocked[d].touched = k[d].touched
      BY DEF AreCards, IsCard, CardFields
    <2> HIDE DEF Blocked
    <2> QED BY <2>1, <2>2, EachKeeps
  <1> HIDE DEF Blocked
  <1>3. /\ Spare(k) >= 1 => Keeps(k, verdict) /\ Keeps(k, fix)
        /\ DOMAIN k \subseteq DOMAIN verdict /\ DOMAIN k \subseteq DOMAIN fix
    <2>1. \A id, c : DOMAIN k \subseteq DOMAIN Put(k, id, c)
      BY DEF Put
    <2> QED BY <2>1, SystemIs, FreshKeeps
  <1> HIDE DEF verdict, fix
  <1>4. Keeps(k, k)
    BY KeepsItself
  <1> HIDE DEF r
  <1>5. Keeps(k, r.cards) /\ r.added \in BOOLEAN /\ DOMAIN k \subseteq DOMAIN r.cards
    BY <1>1, <1>2, <1>3, <1>4
  <1> QED BY <1>1, <1>2, <1>5 DEF r

\* WithCheck.
LEMMA WithCheckKeeps ==
    ASSUME NEW k, AreCards(k), NEW t, Spare(k) >= 1 \/ k[t].status # "done"
    PROVE  Keeps(k, WithCheck(k, t)) /\ DOMAIN k \subseteq DOMAIN WithCheck(k, t)
  <1>1. WithCheck(k, t) \in {k, Put(k, FreshId(k), System(k, t, "qa"))}
    BY DEF WithCheck
  <1>2. DOMAIN k \subseteq DOMAIN Put(k, FreshId(k), System(k, t, "qa"))
    BY DEF Put
  <1>3. Keeps(k, WithCheck(k, t))
    BY SystemIs, FreshKeeps, KeepsItself DEF WithCheck, NeedsQa
  <1> QED BY <1>1, <1>2, <1>3

\* Result: only effects of the card itself are forgotten.
LEMMA ResultAdds ==
    ASSUME NEW k, AreCards(k), NEW t \in DOMAIN k, NEW answer, NEW marks \in SUBSET Marks,
           \/ Spare(k) >= 1
           \/ answer \in {"blocked", "failed", "provider"} /\ Executable(k[t])
    PROVE  AddsBut(k, Result(k, t, answer, marks), t)
  <1> DEFINE c == Marked(Judged(k[t], answer), marks)
             j == [k EXCEPT ![t] = Marked(Judged(@, answer), marks)]
             r == FollowUp(j, t, answer)
             up == RefreshRollups(r.cards)
             quiet == answer \in {"blocked", "failed", "provider"}
  <1>1. Result(k, t, answer, marks) =
           IF answer = "provider" THEN RefreshRollups(j)
           ELSE IF r.added THEN up ELSE WithCheck(up, t)
    BY DEF Result
  <1>2. DOMAIN j = DOMAIN k /\ j[t] = c /\ \A d \in DOMAIN k \ {t} : j[d] = k[d]
    OBVIOUS
  <1>3. /\ IsCard(c) /\ k[t].touched \ {"effects"} \subseteq c.touched
        /\ quiet /\ Executable(k[t]) => Executable(c) /\ c.status # "done"
    <2>1. IsCard(k[t])
      BY DEF AreCards
    <2>2. /\ IsCard(Judged(k[t], answer)) /\ Judged(k[t], answer).touched = k[t].touched
          /\ Judged(k[t], answer).level = k[t].level
          /\ quiet => Judged(k[t], answer).status # "done"
      BY <2>1, JudgedIs
    <2> QED BY <2>2, MarkedIs DEF Executable
  <1> HIDE DEF j, c
  <1>4. AddsBut(k, j, t) /\ Spare(j) = Spare(k)
    <2>1. AreCards(j)
      BY <1>2, <1>3 DEF AreCards
    <2>2. MarksOf(k) \ Effects(t) \subseteq MarksOf(j)
      BY <1>2, <1>3 DEF MarksOf, Effects
    <2> QED BY <1>2, <2>1, <2>2 DEF AddsBut, Spare
  <1>5. AddsBut(k, RefreshRollups(j), t)
    BY <1>4, RefreshKeeps DEF AddsBut, Keeps
  <1>6. /\ Keeps(j, r.cards) /\ DOMAIN j \subseteq DOMAIN r.cards
        /\ ~r.added => DOMAIN r.cards = DOMAIN j
        /\ quiet => r.cards = j /\ ~r.added
    <2>1. Spare(j) >= 1 \/ quiet
      BY <1>4
    <2> QED BY <1>2, <1>4, <2>1, FollowUpKeeps DEF AddsBut
  <1> HIDE DEF r
  <1>7. /\ Keeps(r.cards, up) /\ DOMAIN up = DOMAIN r.cards
        /\ \A p \in DOMAIN r.cards : Executable(r.cards[p]) => up[p] = r.cards[p]
    BY <1>6, RefreshKeeps DEF Keeps
  <1>8. AddsBut(k, up, t)
    BY <1>4, <1>6, <1>7 DEF AddsBut, Keeps
  <1>9. ASSUME ~r.added PROVE AddsBut(k, WithCheck(up, t), t)
    <2>1. Spare(k) >= 1 => Spare(up) >= 1
      BY <1>4, <1>6, <1>7, <1>9 DEF Spare
    <2>2. quiet /\ Executable(k[t]) => up[t].status # "done"
      BY <1>2, <1>3, <1>6, <1>7
    <2> HIDE DEF up
    <2>3. Keeps(up, WithCheck(up, t)) /\ DOMAIN up \subseteq DOMAIN WithCheck(up, t)
      BY <1>8, <2>1, <2>2, WithCheckKeeps DEF AddsBut
    <2> QED BY <1>8, <2>3 DEF AddsBut, Keeps
  <1> HIDE DEF up
  <1> QED BY <1>1, <1>5, <1>8, <1>9

-----------------------------------------------------------------------------
(* Steps.                                                                  *)

\* The steps at which the worker holds a copy of the board.
Holding == {"loaded", "review", "prepare", "context", "again", "settle"}

\* The stored board and the worker's copy are boards, work on the stored board is
\* approved, and the copy has the marks that are stored, but perhaps for the
\* effects of an earlier attempt at the card whose result it holds.
Own == IF worker.at = "settle" THEN Effects(worker.card) ELSE {}

WorkerHolds ==
    /\ worker.at \in Holding =>
          IsBoard(worker.held) /\ MarksOf(board.cards) \ Own \subseteq MarksOf(worker.held.cards)
    /\ worker.at = "settle" => worker.card \in DOMAIN worker.held.cards

Recorded ==
    /\ IsBoard(board) /\ WorkIsApproved(board.cards)
    /\ DOMAIN worker = {"at", "card", "held", "seen"}
    /\ WorkerHolds

\* The board that is stored next, with the marks it has, or more.
Stored == IsBoard(board') /\ WorkIsApproved(board'.cards)
SameMarks == Stored /\ MarksOf(board'.cards) = MarksOf(board.cards)

\* A worker that comes to rest may be started again, nothing else.
WorkerStays == \/ worker' = worker
               \/ worker.at = "off" /\ worker' = [worker EXCEPT !.at = "plan"]

\* Cards is what a request starts from.
LEMMA CardsAre ==
    ASSUME Recorded
    PROVE  /\ Loaded(board).cards = Cards /\ BoardKeeps(board, Loaded(board))
           /\ AreCards(Cards) /\ Keeps(board.cards, Cards) /\ Spare(Cards) = Spare(board.cards)
           /\ DOMAIN Cards = DOMAIN board.cards
  <1>1. Loaded(board).cards = Cards
    BY DEF Loaded, Cards, Recorded, IsBoard, BoardFields
  <1>2. BoardKeeps(board, Loaded(board))
    BY LoadedIs DEF Recorded
  <1>3. DOMAIN Cards = DOMAIN board.cards
    BY NormalKeeps DEF Cards, Recorded, IsBoard
  <1> QED BY <1>1, <1>2, <1>3 DEF BoardKeeps, Keeps, Spare

\* Save.
LEMMA SaveIs ==
    ASSUME NEW b, IsBoard(b), Save(b)
    PROVE  /\ Stored /\ MarksOf(board'.cards) = MarksOf(b.cards)
           /\ DOMAIN board'.cards = DOMAIN b.cards
  <1>1. board'.cards = Normalize(b.cards)
    BY DEF Save, Loaded, IsBoard, BoardFields
  <1>2. DOMAIN Normalize(b.cards) = DOMAIN b.cards
    BY NormalKeeps DEF IsBoard
  <1>3. Stored /\ MarksOf(board'.cards) = MarksOf(b.cards)
    BY LoadedIs DEF Save, Stored, BoardKeeps, Keeps
  <1> QED BY <1>1, <1>2, <1>3

\* Saving what keeps the marks of the board.
LEMMA SaveKeeps ==
    ASSUME Recorded, NEW b, BoardKeeps(Loaded(board), b), Save(b)
    PROVE  SameMarks
  BY CardsAre, SaveIs DEF SameMarks, BoardKeeps, Keeps

\* Ask.
LEMMA AskKeeps ==
    ASSUME Recorded, NEW r, Keeps(Cards, r.cards), Ask(r)
    PROVE  SameMarks
  <1>1. IsBoard(Loaded(board)) /\ Keeps(Loaded(board).cards, r.cards)
    BY CardsAre DEF BoardKeeps
  <1>2. BoardKeeps(Loaded(board), AfterRequest(Loaded(board), r))
    BY <1>1, RequestKeeps
  <1>3. Save(AfterRequest(Loaded(board), r))
    BY DEF Ask
  <1> QED BY <1>2, <1>3, SaveKeeps

\* Ask, of a request that takes the effects of one card away.
LEMMA AskLoses ==
    ASSUME Recorded, NEW r, NEW id, KeepsBut(Cards, r.cards, id), Ask(r)
    PROVE  /\ Stored /\ KeepsBut(board.cards, board'.cards, id)
           /\ id \in DOMAIN board.cards /\ (id \in DOMAIN Cards => id \in DOMAIN r.cards) =>
                 id \in DOMAIN board'.cards
  <1> DEFINE b == Loaded(board)
             after == AfterRequest(b, r)
  <1>1. /\ AreCards(Cards) /\ b.cards = Cards /\ IsBoard(b) /\ Keeps(board.cards, Cards)
        /\ DOMAIN Cards = DOMAIN board.cards
    BY CardsAre DEF BoardKeeps
  <1>2. AreCards(r.cards)
    BY DEF KeepsBut
  <1>3. Save(after)
    BY DEF Ask
  <1> HIDE DEF b
  <1>4. IsBoard(after)
    BY <1>1, <1>2, RequestDrops
  <1>5. after.cards \in {b.cards, r.cards}
    BY <1>1 DEF AfterRequest, StoppedByPlan, IsBoard, BoardFields
  <1> HIDE DEF after
  <1>6. Stored /\ MarksOf(board'.cards) = MarksOf(after.cards)
        /\ DOMAIN board'.cards = DOMAIN after.cards
    BY <1>3, <1>4, SaveIs
  <1> QED BY <1>1, <1>5, <1>6 DEF Keeps, KeepsBut, Stored, IsBoard

\* AskAndStart.
LEMMA StartKeeps ==
    ASSUME Recorded, NEW r, Keeps(Cards, r.cards), AskAndStart(r)
    PROVE  SameMarks /\ WorkerStays
  <1> DEFINE after == AfterRequest(Loaded(board), r)
             b == Loaded(after)
             starts == r.answer = "ok" /\ Startable(b)
  <1>1. IsBoard(Loaded(board)) /\ Keeps(Loaded(board).cards, r.cards)
    BY CardsAre DEF BoardKeeps
  <1>2. BoardKeeps(Loaded(board), after)
    BY <1>1, RequestKeeps
  <1>3. SaveAndStart(b, starts)
    BY DEF AskAndStart
  <1> HIDE DEF after
  <1>4. BoardKeeps(Loaded(board), b)
    BY <1>2, LoadedIs, BoardKeepsOn DEF BoardKeeps
  <1> HIDE DEF b
  <1>5. BoardKeeps(Loaded(board), Started(b))
    BY <1>4 DEF Started, BoardKeeps, IsBoard, BoardFields
  <1>6. WorkerStays /\ (Save(b) \/ Save(Started(b)))
    BY <1>3 DEF SaveAndStart, WorkerStays
  <1> QED BY <1>4, <1>5, <1>6, SaveKeeps

\* An edit of card id and a merge into it may take its effects away.
EditOf(id) == UserEdits /\ Edits(id) /\ (id \in DOMAIN board.cards => id \in DOMAIN board'.cards)
MergeInto(id) == UserReshapes /\ \E from \in DOMAIN Cards : Merges(from, id)
Loses(id) ==
    /\ EditOf(id) \/ MergeInto(id)
    /\ Stored /\ KeepsBut(board.cards, board'.cards, id) /\ worker' = worker

\* No other request but UserResolves does.
LEMMA UserKeeps ==
    ASSUME Recorded, User
    PROVE  UserResolves \/ (SameMarks /\ WorkerStays) \/ \E id : Loses(id)
  <1>0. AreCards(Cards)
    BY CardsAre
  <1>1. CASE UserAdds
    <2> DEFINE level(p) == IF p = NoCard THEN "story" ELSE NextLevel(Cards[p].level)
               card(p, status) == [NewCard(level(p), p, status) EXCEPT !.manual = TRUE]
               result(p, status) == AddTask(Cards, FreshId(Cards), card(p, status))
    <2>1. PICK p, status : IF status = "todo" THEN AskAndStart(result(p, status))
                           ELSE Ask(result(p, status)) /\ UNCHANGED worker
      BY <1>1 DEF UserAdds
    <2> DEFINE c == card(p, status)
               r == result(p, status)
    <2>2. IsCard(c) /\ c.touched = {}
      BY NewCardIs DEF IsCard, CardFields
    <2>3. Spare(Cards) >= 0 + 1
      BY <1>1, SpareIsNat DEF UserAdds
    <2>4. FreshId(Cards) \in Ids \ DOMAIN Cards
      BY <1>0, <2>3, FreshIs, 0 \in Nat
    <2>5. AskAndStart(r) \/ (Ask(r) /\ UNCHANGED worker)
      BY <2>1
    <2> HIDE DEF card
    <2>6. Keeps(Cards, r.cards)
      BY <1>0, <2>2, <2>4, AddKeeps
    <2> HIDE DEF result
    <2> QED BY <2>5, <2>6, AskKeeps, StartKeeps DEF WorkerStays
  <1>2. CASE UserMoves
    <2>1. PICK id \in DOMAIN Cards :
             \/ AskAndStart(MoveTask(Cards, board.current, id, "todo"))
             \/ Ask(MoveTask(Cards, board.current, id, "backlog")) /\ UNCHANGED worker
      BY <1>2 DEF UserMoves
    <2> QED BY <1>0, <2>1, MoveKeeps, AskKeeps, StartKeeps DEF WorkerStays
  <1>3. CASE UserEdits
    <2>1. PICK id \in DOMAIN Cards : Edits(id)
      BY <1>3 DEF UserEdits
    <2>2. PICK deps : Ask(EditBacklogTask(Cards, board.current, id, deps))
      BY <2>1 DEF Edits
    <2> DEFINE r == EditBacklogTask(Cards, board.current, id, deps)
    <2>3. KeepsBut(Cards, r.cards, id) /\ (id \in DOMAIN Cards => id \in DOMAIN r.cards)
      BY <1>0, EditKeeps
    <2>4. Ask(r)
      BY <2>2
    <2> HIDE DEF r
    <2>5. /\ Stored /\ KeepsBut(board.cards, board'.cards, id)
          /\ id \in DOMAIN board.cards => id \in DOMAIN board'.cards
      BY <2>3, <2>4, AskLoses
    <2>6. worker' = worker
      BY <1>3 DEF UserEdits
    <2> QED BY <1>3, <2>1, <2>5, <2>6 DEF EditOf, Loses
  <1>4. CASE UserDeletes
    <2>1. PICK id \in DOMAIN Cards :
             /\ \/ Ask(DeleteTask(Cards, board.current, id))
                \/ Ask(RegenerateChildren(Cards, board.current, id))
             /\ UNCHANGED worker
      BY <1>4 DEF UserDeletes
    <2> QED BY <1>0, <2>1, DeleteKeeps, RegenerateKeeps, AskKeeps DEF WorkerStays
  <1>5. CASE UserReshapes
    <2>1. PICK id \in DOMAIN Cards :
             \/ Ask(DetachTask(Cards, id)) \/ Ask(SplitItem(Cards, id))
             \/ Ask(ReplaceItem(Cards, id))
             \/ \E to \in DOMAIN Cards : Merges(id, to)
      BY <1>5 DEF UserReshapes
    <2>2. Spare(Cards) >= 1 /\ worker' = worker
      BY <1>5, SpareIsNat DEF UserReshapes
    <2>3. ASSUME NEW to \in DOMAIN Cards, Merges(id, to) PROVE Loses(to)
      <3>1. KeepsBut(Cards, MergeItem(Cards, board.current, id, to).cards, to)
        BY <1>0, MergeKeeps
      <3>2. Stored /\ KeepsBut(board.cards, board'.cards, to)
        BY <2>3, <3>1, AskLoses DEF Merges
      <3> QED BY <1>5, <2>2, <2>3, <3>2 DEF MergeInto, Loses
    <2> QED BY <1>0, <2>1, <2>2, <2>3, DetachKeeps, SplitKeeps, ReplaceKeeps, AskKeeps
            DEF WorkerStays
  <1>6. CASE UserApproves
    <2>1. PICK id \in DOMAIN Cards, yes \in BOOLEAN :
             /\ Ask(ApproveSideEffects(Cards, id, yes)) \/ Ask(AcceptResearch(Cards, id, yes))
             /\ UNCHANGED worker
      BY <1>6 DEF UserApproves
    <2>2. Spare(Cards) >= 1
      BY <1>6, SpareIsNat DEF UserApproves
    <2> QED BY <1>0, <2>1, <2>2, ApproveKeeps, AcceptKeeps, AskKeeps DEF WorkerStays
  <1>7. CASE UserStarts
    <2>1. AskAndStart(Accepted(Cards))
      BY <1>7 DEF UserStarts
    <2>2. Keeps(Cards, Accepted(Cards).cards)
      BY <1>0, KeepsItself, AnswersKeep
    <2> QED BY <2>1, <2>2, StartKeeps
  <1>8. CASE UserRetries
    <2>1. PICK id \in DOMAIN Cards, fix \in DOMAIN Cards \cup {NoCard} :
             AskAndStart(RetryTask(Cards, id, fix))
      BY <1>8 DEF UserRetries
    <2> QED BY <1>0, <2>1, RetryKeeps, StartKeeps
  <1>9. CASE UserBreaksDown
    <2> DEFINE b == Loaded(board)
    <2>1. PICK p \in DOMAIN Cards : BreaksDown(Reopened(b, p), p)
      BY <1>9 DEF UserBreaksDown
    <2>2. IsBoard(b) /\ BoardKeeps(board, b) /\ WorkIsApproved(b.cards)
      BY LoadedIs, CardsAre DEF Recorded, BoardKeeps
    <2> HIDE DEF b
    <2>3. BoardKeeps(b, Reopened(b, p)) /\ WorkIsApproved(Reopened(b, p).cards)
      BY <2>2, ReopenedKeeps
    <2>4. board' = Reopened(b, p) /\ worker' = worker
      BY <1>9, <2>1 DEF UserBreaksDown, BreaksDown
    <2> QED BY <2>2, <2>3, <2>4 DEF SameMarks, Stored, BoardKeeps, Keeps, WorkerStays
  <1>10. CASE NewPrompt
    <2> DEFINE b == Loaded(board)
    <2>1. \E prompt : Save([b EXCEPT !.prompt = prompt])
      BY <1>10 DEF NewPrompt
    <2>2. IsBoard(b)
      BY CardsAre DEF BoardKeeps
    <2>3. \A prompt : BoardKeeps(b, [b EXCEPT !.prompt = prompt])
      BY <2>2, KeepsItself DEF BoardKeeps, IsBoard, BoardFields
    <2>4. SameMarks
      BY <2>1, <2>3, SaveKeeps
    <2> QED BY <1>10, <2>4 DEF NewPrompt, WorkerStays
  <1> QED BY <1>1, <1>2, <1>3, <1>4, <1>5, <1>6, <1>7, <1>8, <1>9, <1>10
          DEF User, UserPrompts, UserRetriesPrompt

\* What the user decides about marked work may drop it.
LEMMA ResolvesKeeps ==
    ASSUME Recorded, UserResolves
    PROVE  Stored /\ MarksOf(board'.cards) \subseteq MarksOf(board.cards) /\ worker' = worker
  <1>1. PICK id \in DOMAIN Cards, decision \in {"keep", "cleanup"} :
           /\ decision = "cleanup" => Spare(Cards) > 1
           /\ Ask(ResolveScopeEffects(Cards, board.status = "running", board.current,
                                      id, decision))
    BY DEF UserResolves
  <1> DEFINE r == ResolveScopeEffects(Cards, board.status = "running", board.current, id, decision)
             b == Loaded(board)
             after == AfterRequest(b, r)
  <1>2. decision # "keep" => Spare(Cards) >= 2
    BY <1>1, SpareIsNat
  <1>3. AreCards(Cards) /\ b.cards = Cards /\ IsBoard(b) /\ Keeps(board.cards, Cards)
    BY CardsAre DEF BoardKeeps
  <1>4. AreCards(r.cards) /\ MarksOf(r.cards) \subseteq MarksOf(Cards)
    BY <1>2, <1>3, ResolveDrops
  <1>5. Save(after)
    BY <1>1 DEF Ask
  <1> HIDE DEF r, b
  <1>6. IsBoard(after)
    BY <1>3, <1>4, RequestDrops
  <1>7. after.cards \in {b.cards, r.cards}
    BY <1>3 DEF AfterRequest, StoppedByPlan, IsBoard, BoardFields
  <1> HIDE DEF after
  <1>8. Stored /\ MarksOf(board'.cards) = MarksOf(after.cards)
    BY <1>5, <1>6, SaveIs
  <1> QED BY <1>3, <1>4, <1>7, <1>8 DEF Keeps, UserResolves

\* The answers of the planner and to prompts keep the marks.
LEMMA PlansKeep ==
    ASSUME Recorded, PlannerAnswers \/ PromptAnswered
    PROVE  SameMarks /\ worker' = worker
  <1> DEFINE b == Loaded(board)
  <1>1. /\ b.cards = Cards /\ IsBoard(b) /\ BoardKeeps(b, b) /\ AreCards(Cards)
        /\ Spare(b.cards) = Spare(board.cards)
    BY CardsAre, KeepsItself DEF BoardKeeps, IsBoard
  <1>2. ASSUME board' = board PROVE SameMarks
    BY <1>2 DEF Recorded, SameMarks, Stored
  <1>3. CASE PlannerAnswers
    <2>1. CASE Save(FailedBreakdown(b, planner.card, TRUE))
      <3>1. BoardKeeps(b, FailedBreakdown(b, planner.card, TRUE))
        BY <1>1, FailedKeeps
      <3> QED BY <1>3, <2>1, <3>1, SaveKeeps DEF PlannerAnswers
    <2>2. CASE \E wrapped \in BOOLEAN :
                  /\ Spare(Cards) >= IF wrapped THEN 3 ELSE 1
                  /\ SavePlan(Breakdown(Cards, planner.card, planner.seen, wrapped))
      <3>1. PICK wrapped \in BOOLEAN :
                  /\ Spare(Cards) >= IF wrapped THEN 3 ELSE 1
                  /\ SavePlan(Breakdown(Cards, planner.card, planner.seen, wrapped))
        BY <2>2
      <3> DEFINE r == Breakdown(Cards, planner.card, planner.seen, wrapped)
                 after == AfterRequest(b, r)
      <3>2. Keeps(Cards, r.cards)
        BY <1>1, <3>1, BreakdownKeeps
      <3>3. board' = board \/ Save(after)
        BY <3>1 DEF SavePlan, Save
      <3> HIDE DEF r
      <3>4. BoardKeeps(b, after)
        BY <1>1, <3>2, RequestKeeps
      <3> HIDE DEF after
      <3> QED BY <1>2, <1>3, <3>3, <3>4, SaveKeeps DEF PlannerAnswers
    <2> QED BY <1>3, <2>1, <2>2 DEF PlannerAnswers
  <1>4. CASE PromptAnswered
    <2>1. worker' = worker
      BY <1>4 DEF PromptAnswered
    <2>2. \/ board' = board \/ Save(NoDrafts(b))
          \/ Spare(b.cards) >= 3 /\ \E plan \in PromptPlans(b.cards) : Save(WithPlan(b, plan))
      BY <1>4 DEF PromptAnswered
    <2>3. BoardKeeps(b, NoDrafts(b))
      BY <1>1, DraftsKeep DEF BoardKeeps
    <2>4. ASSUME Spare(b.cards) >= 3, NEW plan \in PromptPlans(b.cards)
          PROVE  BoardKeeps(b, WithPlan(b, plan))
      <3> HIDE DEF b
      <3>1. Keeps(b.cards, plan)
        BY <1>1, <2>4, PromptsKeep
      <3> QED BY <1>1, <3>1, DraftsKeep
    <2> QED BY <1>2, <2>1, <2>2, <2>3, <2>4, SaveKeeps
  <1> QED BY <1>3, <1>4

-----------------------------------------------------------------------------
(* The worker.                                                             *)

\* The worker saves a copy that has the marks of the stored board, but perhaps
\* for the effects of an earlier attempt at the card it settles.
Saved == Stored /\ MarksOf(board.cards) \ Own \subseteq MarksOf(board'.cards)

\* It does, and holds nothing after that.
LEMMA SaveCopy ==
    ASSUME Recorded, worker.at \in Holding, NEW b, BoardKeeps(worker.held, b), Save(b)
    PROVE  Saved
  <1>1. MarksOf(board'.cards) = MarksOf(b.cards) /\ Stored
    BY SaveIs DEF BoardKeeps
  <1> QED BY <1>1 DEF Recorded, WorkerHolds, Saved, BoardKeeps, Keeps

\* What it settles is on the board.
LEMMA SettledStays ==
    ASSUME Recorded, SettleTask
    PROVE  worker.card \in DOMAIN board'.cards
  <1> DEFINE h == worker.held
             plain == [h EXCEPT !.current = NoCard]
             bad(why) == Outcome(h, worker.card, "blocked", why)
  <1>1. IsBoard(h) /\ worker.card \in DOMAIN h.cards
    BY DEF SettleTask, Recorded, WorkerHolds, Holding
  <1> HIDE DEF h
  <1>2. Save(plain) \/ \E why : Save([bad(why) EXCEPT !.status = "blocked"])
    BY DEF SettleTask, h
  <1>3. IsBoard(plain) /\ plain.cards = h.cards
    BY <1>1 DEF IsBoard, BoardFields
  <1>4. ASSUME NEW why
        PROVE  LET b == [bad(why) EXCEPT !.status = "blocked"] IN
               IsBoard(b) /\ worker.card \in DOMAIN b.cards
    <2>1. BoardKeeps(h, bad(why))
      BY <1>1, OutcomeKeeps
    <2>2. IsBoard(bad(why))
      BY <2>1 DEF BoardKeeps, IsBoard, Keeps, Outcome
    <2>3. DOMAIN bad(why).cards = DOMAIN h.cards
      BY <1>1 DEF Outcome, IsBoard, BoardFields
    <2> HIDE DEF bad
    <2> QED BY <1>1, <2>2, <2>3 DEF IsBoard, BoardFields
  <1> HIDE DEF plain, bad
  <1>5. CASE Save(plain)
    BY <1>1, <1>3, <1>5, SaveIs
  <1>6. CASE \E why : Save([bad(why) EXCEPT !.status = "blocked"])
    BY <1>4, <1>6, SaveIs
  <1> QED BY <1>2, <1>5, <1>6

\* A worker that holds no copy.
LEMMA RestsAgain ==
    ASSUME Recorded, Stored, NEW step, step \notin Holding,
           \/ worker' = [Idle EXCEPT !.at = step]
           \/ worker' = [worker EXCEPT !.at = step, !.held = NoCard]
           \/ \E card, seen : worker' = [at |-> step, card |-> card, held |-> NoCard, seen |-> seen]
    PROVE  Recorded'
  <1>1. DOMAIN worker' = {"at", "card", "held", "seen"} /\ worker'.at = step
    <2>1. CASE worker' = [Idle EXCEPT !.at = step]
      BY <2>1 DEF Idle
    <2>2. CASE worker' = [worker EXCEPT !.at = step, !.held = NoCard]
      BY <2>2 DEF Recorded
    <2>3. CASE \E card, seen : worker' = [at |-> step, card |-> card, held |-> NoCard,
                                         seen |-> seen]
      BY <2>3
    <2> QED BY <2>1, <2>2, <2>3
  <1>2. WorkerHolds'
    BY <1>1 DEF WorkerHolds, Holding
  <1> QED BY <1>1, <1>2 DEF Recorded, Stored

\* Every step of the worker keeps the marks, but perhaps for the effects of an
\* earlier attempt.
LEMMA WorkKeeps ==
    ASSUME Recorded, Work
    PROVE  Recorded' /\ MarksOf(board.cards) \ Own \subseteq MarksOf(board'.cards)
  <1> DEFINE h == worker.held
             k == RefreshRollups(h.cards)
  <1>0. /\ "plan" \notin Holding /\ "off" \notin Holding /\ "call" \notin Holding
        /\ "breakdown" \notin Holding /\ [Idle EXCEPT !.at = "off"] = Idle
    BY DEF Holding, Idle
  <1>1. ASSUME worker.at \in Holding
        PROVE  /\ IsBoard(h) /\ AreCards(h.cards) /\ BoardKeeps(h, h)
               /\ MarksOf(board.cards) \ Own \subseteq MarksOf(h.cards)
               /\ Keeps(h.cards, k)
    BY <1>1, KeepsItself, RefreshKeeps DEF Recorded, WorkerHolds, BoardKeeps, IsBoard
  <1>2. CASE LoadBoard
    <2>1. board' = board
      BY <1>2 DEF LoadBoard
    <2>2. CASE worker' = Idle
      BY <1>0, <2>1, <2>2, RestsAgain DEF Recorded, Stored
    <2>3. CASE worker' = [worker EXCEPT !.at = "loaded", !.held = Loaded(board)]
      <3>1. /\ DOMAIN worker' = {"at", "card", "held", "seen"} /\ worker'.held = Loaded(board)
            /\ worker'.at = "loaded"
        BY <2>3 DEF Recorded
      <3>2. BoardKeeps(board, Loaded(board))
        BY CardsAre
      <3> QED BY <2>1, <3>1, <3>2 DEF Recorded, WorkerHolds, BoardKeeps, Keeps
    <2> QED BY <1>2, <2>2, <2>3 DEF LoadBoard
  <1>3. CASE RejectPlan
    <2>1. PICK affected : Save(StoppedByPlan(h, MarkPlanningError(h.cards, affected)))
      BY <1>3 DEF RejectPlan
    <2>2. worker.at \in Holding /\ worker' = Idle
      BY <1>3 DEF RejectPlan, Holding
    <2>3. BoardKeeps(h, StoppedByPlan(h, MarkPlanningError(h.cards, affected)))
      BY <1>1, <2>2, PlanningKeeps, StoppedKeeps
    <2>4. Saved
      BY <2>1, <2>2, <2>3, SaveCopy
    <2> QED BY <1>0, <2>2, <2>4, RestsAgain DEF Saved
  <1>4. CASE BreakDownNext
    <2>1. PICK p : /\ Save([h EXCEPT !.cards = k])
                   /\ worker' = [at |-> "breakdown", card |-> p, held |-> NoCard,
                                 seen |-> Seen(Normalize(k)[p])]
      BY <1>4 DEF BreakDownNext, BreakDown
    <2>2. worker.at \in Holding
      BY <1>4 DEF BreakDownNext, Holding
    <2> HIDE DEF k
    <2>3. BoardKeeps(h, [h EXCEPT !.cards = k])
      BY <1>1, <2>2 DEF BoardKeeps, Keeps, IsBoard, BoardFields
    <2>4. Saved
      BY <2>1, <2>2, <2>3, SaveCopy
    <2> QED BY <1>0, <2>1, <2>4, RestsAgain DEF Saved
  <1>5. CASE PickTask
    <2> DEFINE j == RefreshRollups(ReconcileDependencies(k))
               picked(t) == [j EXCEPT ![t].status = "in_progress", ![t].why = "none",
                                      ![t].tries = Counted(@)]
               b(t) == [h EXCEPT !.current = t, !.cards = picked(t)]
    <2>1. PICK t : /\ Save(b(t))
                   /\ worker' = [at |-> IF j[t].kind = "review" THEN "review" ELSE "prepare",
                                 card |-> t, held |-> b(t), seen |-> NoCard]
      BY <1>5 DEF PickTask, Run
    <2>2. worker.at \in Holding
      BY <1>5 DEF PickTask, Holding
    <2> HIDE DEF k
    <2>3. Keeps(h.cards, j)
      BY <1>1, <2>2, DependenciesKeep, RefreshKeeps DEF Keeps
    <2> HIDE DEF j
    <2>4. DOMAIN picked(t) = DOMAIN j
      OBVIOUS
    <2>5. \A d \in DOMAIN j : /\ DOMAIN picked(t)[d] = CardFields
                              /\ picked(t)[d].touched = j[d].touched
      BY <2>3 DEF Keeps, AreCards, IsCard, CardFields
    <2> HIDE DEF picked
    <2>6. Keeps(h.cards, picked(t))
      BY <2>3, <2>4, <2>5, EachKeeps DEF Keeps
    <2>7. BoardKeeps(h, b(t))
      BY <1>1, <2>2, <2>6 DEF BoardKeeps, Keeps, IsBoard, BoardFields
    <2> HIDE DEF b
    <2>8. Saved /\ MarksOf(board'.cards) = MarksOf(b(t).cards) /\ IsBoard(b(t))
      BY <2>1, <2>2, <2>7, SaveCopy, SaveIs DEF BoardKeeps
    <2>9. /\ DOMAIN worker' = {"at", "card", "held", "seen"} /\ worker'.held = b(t)
          /\ worker'.at # "settle"
      BY <2>1
    <2>10. WorkerHolds'
      BY <2>8, <2>9 DEF WorkerHolds
    <2> QED BY <2>8, <2>9, <2>10 DEF Recorded, Saved, Stored
  <1>6. CASE NothingToRun
    <2> DEFINE j == ReconcileDependencies(RefreshRollups(ReconcileDependencies(k)))
    <2>1. Save(Halted(h, j)) /\ worker' = Idle /\ worker.at \in Holding
      BY <1>6 DEF NothingToRun, Holding
    <2> HIDE DEF k
    <2>2. Keeps(h.cards, j)
      BY <1>1, <2>1, DependenciesKeep, RefreshKeeps DEF Keeps
    <2> HIDE DEF j
    <2>3. BoardKeeps(h, Halted(h, j))
      BY <1>1, <2>1, <2>2, HaltedKeeps
    <2>4. Saved
      BY <2>1, <2>3, SaveCopy
    <2> QED BY <1>0, <2>1, <2>4, RestsAgain DEF Saved
  <1>7. CASE ReviewPromotion
    <2>1. PICK status, why :
             LET b == Outcome(h, worker.card, status, why)
             IN  \/ Save(b) /\ worker' = Idle
                 \/ Save([b EXCEPT !.current = NoCard]) /\ worker' = [Idle EXCEPT !.at = "plan"]
      BY <1>7 DEF ReviewPromotion
    <2> DEFINE b == Outcome(h, worker.card, status, why)
    <2>2. worker.at \in Holding
      BY <1>7 DEF ReviewPromotion, Holding
    <2>3. BoardKeeps(h, b)
      BY <1>1, <2>2, OutcomeKeeps
    <2>4. \/ Save(b) /\ worker' = Idle
          \/ Save([b EXCEPT !.current = NoCard]) /\ worker' = [Idle EXCEPT !.at = "plan"]
      BY <2>1
    <2> HIDE DEF b
    <2>5. BoardKeeps(h, [b EXCEPT !.current = NoCard])
      BY <2>3 DEF BoardKeeps, Keeps, IsBoard, BoardFields
    <2>6. Saved
      BY <2>2, <2>3, <2>4, <2>5, SaveCopy
    <2> QED BY <1>0, <2>4, <2>6, RestsAgain DEF Saved
  <1>8. CASE PrepareGit
    <2>1. worker.at \in Holding
      BY <1>8 DEF PrepareGit, Holding
    <2>2. CASE Save(h) /\ worker' = [worker EXCEPT !.at = "context", !.held = Loaded(h)]
      <3>1. Saved /\ MarksOf(board'.cards) = MarksOf(h.cards)
        BY <1>1, <2>1, <2>2, SaveCopy, SaveIs
      <3>2. BoardKeeps(h, Loaded(h))
        BY <1>1, <2>1, LoadedIs
      <3>3. /\ DOMAIN worker' = {"at", "card", "held", "seen"} /\ worker'.held = Loaded(h)
            /\ worker'.at = "context"
        BY <2>2 DEF Recorded
      <3>4. WorkerHolds'
        BY <3>1, <3>2, <3>3 DEF WorkerHolds, BoardKeeps, Keeps
      <3> QED BY <3>1, <3>3, <3>4 DEF Recorded, Saved, Stored
    <2>3. CASE /\ \E why \in {"provider", "defect"} :
                     Save([Outcome(h, worker.card, "blocked", why) EXCEPT !.status = "blocked"])
               /\ worker' = Idle
      <3>1. PICK why : Save([Outcome(h, worker.card, "blocked", why) EXCEPT !.status = "blocked"])
        BY <2>3
      <3> DEFINE b == Outcome(h, worker.card, "blocked", why)
      <3>2. BoardKeeps(h, b)
        BY <1>1, <2>1, OutcomeKeeps
      <3> HIDE DEF b
      <3>3. BoardKeeps(h, [b EXCEPT !.status = "blocked"])
        BY <3>2 DEF BoardKeeps, Keeps, IsBoard, BoardFields
      <3>4. Saved
        BY <2>1, <3>1, <3>3, SaveCopy DEF b
      <3> QED BY <1>0, <2>3, <3>4, RestsAgain DEF Saved
    <2> QED BY <1>8, <2>2, <2>3 DEF PrepareGit
  <1>9. CASE CallProvider
    <2>1. /\ Save(h) /\ worker.at \in Holding
          /\ worker' = [worker EXCEPT !.at = "call", !.held = NoCard]
      BY <1>9 DEF CallProvider, Holding
    <2>2. Saved
      BY <1>1, <2>1, SaveCopy
    <2> QED BY <1>0, <2>1, <2>2, RestsAgain DEF Saved
  <1>10. CASE ProviderAnswers
    <2> DEFINE c == IF worker.at = "call" THEN Loaded(board) ELSE h
               t == worker.card
    <2>1. PICK answer \in Answers :
             /\ Spare(c.cards) > 0 \/ AddsNothing(c.cards, t, answer)
             /\ Apply(c, t, answer)
      BY <1>10 DEF ProviderAnswers
    <2>2. IsBoard(c) /\ AreCards(c.cards) /\ MarksOf(board.cards) \subseteq MarksOf(c.cards)
      <3>1. CASE worker.at = "call"
        BY <3>1, CardsAre DEF BoardKeeps, Keeps
      <3>2. CASE worker.at = "again"
        BY <1>1, <3>2 DEF Holding, Own
      <3> QED BY <1>10, <3>1, <3>2 DEF ProviderAnswers
    <2> HIDE DEF c
    <2>3. ASSUME NEW b, BoardKeeps(c, b), Save(b)
          PROVE  Saved /\ MarksOf(board'.cards) = MarksOf(b.cards) /\ IsBoard(b)
      BY <2>2, <2>3, SaveIs DEF Saved, BoardKeeps, Keeps
    <2> DEFINE told == IF answer = "error" THEN "provider" ELSE answer
               k2 == [c.cards EXCEPT ![t].tries = Counted(@)]
               again == [c EXCEPT !.cards[t].tries = Counted(@)]
               off == [c EXCEPT !.current = NoCard]
               error == Outcome(c, t, "failed", "provider")
               result(marks) == [c EXCEPT !.cards = Result(@, t, told, marks)]
    <2>4. \/ Save(off) /\ worker' = [Idle EXCEPT !.at = "plan"]
          \/ Save([error EXCEPT !.current = NoCard]) /\ worker' = [Idle EXCEPT !.at = "plan"]
          \/ Save(again) /\ worker' = [worker EXCEPT !.at = "again", !.held = again]
          \/ /\ t \in DOMAIN c.cards /\ UNCHANGED board
             /\ \E marks \in SUBSET Marks :
                   worker' = [worker EXCEPT !.at = "settle", !.held = result(marks)]
      BY <2>1 DEF Apply, Leaves
    <2>5. BoardKeeps(c, off)
      BY <2>2, KeepsItself DEF BoardKeeps, IsBoard, BoardFields
    <2>6. BoardKeeps(c, [error EXCEPT !.current = NoCard])
      <3>1. BoardKeeps(c, error)
        BY <2>2, OutcomeKeeps
      <3> HIDE DEF error
      <3> QED BY <3>1 DEF BoardKeeps, Keeps, IsBoard, BoardFields
    <2>7. BoardKeeps(c, again)
      <3>1. DOMAIN again = BoardFields /\ again.cards = k2
        BY <2>2 DEF IsBoard, BoardFields
      <3>2. DOMAIN k2 = DOMAIN c.cards
        OBVIOUS
      <3>3. \A d \in DOMAIN c.cards : /\ DOMAIN k2[d] = CardFields
                                      /\ k2[d].touched = c.cards[d].touched
        BY <2>2 DEF AreCards, IsCard, CardFields
      <3> HIDE DEF again, k2
      <3>4. Keeps(c.cards, k2)
        BY <2>2, <3>2, <3>3, EachKeeps
      <3> QED BY <3>1, <3>4 DEF BoardKeeps, IsBoard, Keeps
    <2>8. CASE \/ Save(off) /\ worker' = [Idle EXCEPT !.at = "plan"]
               \/ Save([error EXCEPT !.current = NoCard]) /\ worker' = [Idle EXCEPT !.at = "plan"]
      <3>1. Saved
        BY <2>3, <2>5, <2>6, <2>8
      <3> QED BY <1>0, <2>8, <3>1, RestsAgain DEF Saved
    <2>9. CASE Save(again) /\ worker' = [worker EXCEPT !.at = "again", !.held = again]
      <3> HIDE DEF again
      <3>1. Saved /\ MarksOf(board'.cards) = MarksOf(again.cards) /\ IsBoard(again)
        BY <2>3, <2>7, <2>9
      <3>2. /\ DOMAIN worker' = {"at", "card", "held", "seen"} /\ worker'.held = again
            /\ worker'.at = "again"
        BY <2>9 DEF Recorded
      <3>3. WorkerHolds'
        BY <3>1, <3>2 DEF WorkerHolds
      <3> QED BY <3>1, <3>2, <3>3 DEF Recorded, Saved, Stored
    <2>10. ASSUME t \in DOMAIN c.cards, board' = board, NEW marks \in SUBSET Marks,
                  worker' = [worker EXCEPT !.at = "settle", !.held = result(marks)]
           PROVE  Recorded' /\ MarksOf(board.cards) \ Own \subseteq MarksOf(board'.cards)
      <3>1. \/ Spare(c.cards) >= 1
            \/ told \in {"blocked", "failed", "provider"} /\ Executable(c.cards[t])
        BY <2>1, <2>10, SpareIsNat DEF AddsNothing
      <3> DEFINE j == Result(c.cards, t, told, marks)
                 next == result(marks)
      <3> HIDE DEF told, t
      <3>2. AddsBut(c.cards, j, t)
        BY <2>2, <2>10, <3>1, ResultAdds
      <3> HIDE DEF j
      <3>3. next = [c EXCEPT !.cards = j]
        BY DEF j
      <3> HIDE DEF next
      <3>4. IsBoard(next) /\ next.cards = j
        BY <2>2, <3>2, <3>3 DEF IsBoard, BoardFields, AddsBut
      <3>5. /\ DOMAIN worker' = {"at", "card", "held", "seen"} /\ worker'.held = next
            /\ worker'.at = "settle" /\ worker'.card = t
        BY <2>10 DEF Recorded, next, t
      <3>6. WorkerHolds'
        <4>1. Own' = Effects(t)
          BY <3>5 DEF Own
        <4>2. MarksOf(board.cards) \ Effects(t) \subseteq MarksOf(j) /\ t \in DOMAIN j
          BY <2>2, <2>10, <3>2 DEF AddsBut
        <4> QED BY <2>10, <3>4, <3>5, <4>1, <4>2 DEF WorkerHolds
      <3> QED BY <2>10, <3>5, <3>6 DEF Recorded
    <2> QED BY <2>4, <2>8, <2>9, <2>10
  <1>11. CASE SettleTask
    <2>1. worker.at \in Holding
      BY <1>11 DEF SettleTask, Holding
    <2>2. CASE Save([h EXCEPT !.current = NoCard]) /\ worker' = [Idle EXCEPT !.at = "plan"]
      <3>1. BoardKeeps(h, [h EXCEPT !.current = NoCard])
        BY <1>1, <2>1 DEF BoardKeeps, Keeps, IsBoard, BoardFields
      <3>2. Saved
        BY <2>1, <2>2, <3>1, SaveCopy
      <3> QED BY <1>0, <2>2, <3>2, RestsAgain DEF Saved
    <2>3. CASE /\ \E why \in {"provider", "defect"} :
                     Save([Outcome(h, worker.card, "blocked", why) EXCEPT !.status = "blocked"])
               /\ worker' = Idle
      <3>1. PICK why : Save([Outcome(h, worker.card, "blocked", why) EXCEPT !.status = "blocked"])
        BY <2>3
      <3> DEFINE b == Outcome(h, worker.card, "blocked", why)
      <3>2. BoardKeeps(h, b)
        BY <1>1, <2>1, OutcomeKeeps
      <3> HIDE DEF b
      <3>3. BoardKeeps(h, [b EXCEPT !.status = "blocked"])
        BY <3>2 DEF BoardKeeps, Keeps, IsBoard, BoardFields
      <3>4. Saved
        BY <2>1, <3>1, <3>3, SaveCopy DEF b
      <3> QED BY <1>0, <2>3, <3>4, RestsAgain DEF Saved
    <2> QED BY <1>11, <2>2, <2>3 DEF SettleTask
  <1>12. CASE WorkerPlans
    <2> DEFINE b == Loaded(board)
               p == worker.card
    <2>1. /\ b.cards = Cards /\ IsBoard(b) /\ AreCards(Cards) /\ Spare(Cards) = Spare(board.cards)
      BY CardsAre DEF BoardKeeps
    <2>2. CASE Save(FailedBreakdown(b, p, FALSE)) /\ worker' = Idle
      <3>1. SameMarks
        BY <2>1, <2>2, FailedKeeps, SaveKeeps
      <3> QED BY <1>0, <2>2, <3>1, RestsAgain DEF SameMarks
    <2>3. CASE \E wrapped \in BOOLEAN :
                  LET r == Breakdown(Cards, p, worker.seen, wrapped)
                  IN  /\ Spare(board.cards) >= IF wrapped THEN 3 ELSE 1
                      /\ SavePlan(r)
                      /\ worker' = [Idle EXCEPT !.at = IF r.answer = "ok" THEN "plan" ELSE "off"]
      <3>1. PICK wrapped \in BOOLEAN :
                  LET r == Breakdown(Cards, p, worker.seen, wrapped)
                  IN  /\ Spare(board.cards) >= IF wrapped THEN 3 ELSE 1
                      /\ SavePlan(r)
                      /\ worker' = [Idle EXCEPT !.at = IF r.answer = "ok" THEN "plan" ELSE "off"]
        BY <2>3
      <3> DEFINE r == Breakdown(Cards, p, worker.seen, wrapped)
                 after == AfterRequest(b, r)
                 step == IF r.answer = "ok" THEN "plan" ELSE "off"
      <3>2. Keeps(Cards, r.cards)
        BY <2>1, <3>1, BreakdownKeeps
      <3>3. (board' = board \/ Save(after)) /\ worker' = [Idle EXCEPT !.at = step]
        BY <3>1 DEF SavePlan, Save
      <3> HIDE DEF r
      <3>4. BoardKeeps(b, after)
        BY <2>1, <3>2, RequestKeeps
      <3>5. SameMarks
        BY <3>3, <3>4, SaveKeeps DEF SameMarks, Stored, Recorded
      <3>6. step \notin Holding
        BY <1>0
      <3> HIDE DEF step
      <3> QED BY <3>3, <3>5, <3>6, RestsAgain DEF SameMarks
    <2> QED BY <1>12, <2>2, <2>3 DEF WorkerPlans
  <1> QED BY <1>2, <1>3, <1>4, <1>5, <1>6, <1>7, <1>8, <1>9, <1>10, <1>11, <1>12 DEF Work

\* The boards to start from are kept in the shape they were saved in.
LEMMA BoardStartsRecorded == Init => Recorded
  <1> SUFFICES ASSUME Init PROVE Recorded
    OBVIOUS
  <1>1. PICK k \in InitialCards :
           board = [status |-> "running", planning |-> "none", current |-> NoCard,
                    cards |-> k, prompt |-> NoPrompt]
    BY DEF Init
  <1>2. worker = [Idle EXCEPT !.at = "plan"]
    BY DEF Init
  <1>3. DOMAIN k \subseteq Ids /\ k \in [DOMAIN k -> Card] /\ k = Normalize(k)
    BY CardsAssumption
  <1>4. AreCards(k)
    BY <1>3 DEF AreCards, IsCard, Card, CardFields
  <1>5. WorkIsApproved(k)
    BY <1>3, <1>4, NormalApproves
  <1>6. IsBoard(board) /\ board.cards = k
    BY <1>1, <1>4 DEF IsBoard, BoardFields
  <1>7. DOMAIN worker = {"at", "card", "held", "seen"} /\ WorkerHolds
    BY <1>2 DEF Idle, WorkerHolds, Holding
  <1> QED BY <1>5, <1>6, <1>7 DEF Recorded

\* Every step keeps the boards as they should be, and the marks: unless the user
\* resolves them, and but for the effects of a card that is settled, edited or
\* merged into.
Forgets(id) ==
    /\ MarksOf(board.cards) \ Effects(id) \subseteq MarksOf(board'.cards)
    /\ \/ worker.at = "settle" /\ worker.card = id /\ id \in DOMAIN board'.cards
       \/ EditOf(id)
       \/ MergeInto(id)

LEMMA StepIsRecorded ==
    ASSUME Recorded, [Next]_vars
    PROVE  /\ Recorded'
           /\ \/ UserResolves
              \/ MarksOf(board.cards) \subseteq MarksOf(board'.cards)
              \/ \E id : Forgets(id)
  <1>1. ASSUME SameMarks, WorkerStays PROVE Recorded'
    <2>1. CASE worker' = worker
      BY <1>1, <2>1 DEF Recorded, WorkerHolds, Own, SameMarks, Stored
    <2>2. CASE worker' = [worker EXCEPT !.at = "plan"]
      <3>1. DOMAIN worker' = {"at", "card", "held", "seen"} /\ worker'.at = "plan"
        BY <2>2 DEF Recorded
      <3>2. WorkerHolds'
        BY <3>1 DEF WorkerHolds, Holding
      <3> QED BY <1>1, <3>1, <3>2 DEF Recorded, SameMarks, Stored
    <2> QED BY <1>1, <2>1, <2>2 DEF WorkerStays
  <1>2. CASE User
    <2>1. CASE UserResolves
      BY <2>1, ResolvesKeeps DEF Recorded, WorkerHolds, Own, Stored
    <2>2. ASSUME NEW id, Loses(id) PROVE Recorded' /\ Forgets(id)
      <3>1. worker' = worker /\ Stored /\ MarksOf(board'.cards) \subseteq MarksOf(board.cards)
        BY <2>2 DEF Loses, KeepsBut
      <3>2. WorkerHolds'
        BY <3>1 DEF Recorded, WorkerHolds, Own
      <3>3. Forgets(id)
        BY <2>2 DEF Loses, KeepsBut, Forgets
      <3> QED BY <3>1, <3>2, <3>3 DEF Recorded, Stored
    <2>3. CASE SameMarks /\ WorkerStays
      BY <1>1, <2>3 DEF SameMarks
    <2> QED BY <1>2, <2>1, <2>2, <2>3, UserKeeps
  <1>3. CASE Work
    <2>1. Recorded' /\ MarksOf(board.cards) \ Own \subseteq MarksOf(board'.cards)
      BY <1>3, WorkKeeps
    <2>2. CASE worker.at # "settle"
      BY <2>1, <2>2 DEF Own
    <2>3. CASE worker.at = "settle"
      <3>1. SettleTask
        BY <1>3, <2>3 DEF Work, LoadBoard, RejectPlan, BreakDownNext, PickTask, NothingToRun,
           ReviewPromotion, PrepareGit, CallProvider, ProviderAnswers, WorkerPlans
      <3>2. worker.card \in DOMAIN board'.cards
        BY <3>1, SettledStays
      <3>3. Forgets(worker.card)
        BY <2>1, <2>3, <3>2 DEF Own, Forgets
      <3> QED BY <2>1, <3>3
    <2> QED BY <2>2, <2>3
  <1>4. CASE PlannerAnswers \/ PromptAnswered
    BY <1>1, <1>4, PlansKeep DEF WorkerStays, SameMarks
  <1>5. CASE UNCHANGED vars
    BY <1>5 DEF vars, Recorded, WorkerHolds, Own
  <1> QED BY <1>2, <1>3, <1>4, <1>5 DEF Next, Rest

\* ChangesStayOnRecord for every board, every number of requests and prompts and
\* every answer: no request, breakdown, prompt or save of a stale copy loses the
\* files that work changed, unless the user resolves them, and only an attempt at
\* a card, an edit of it or a merge into it loses the effects it reported.
THEOREM MarksStayOnRecord == Spec => ChangesStayOnRecord
  <1>1. Init => Recorded
    BY BoardStartsRecorded
  <1>2. Recorded /\ [Next]_vars => Recorded'
    BY StepIsRecorded
  <1>3. Recorded /\ [Next]_vars =>
           [\A id \in DOMAIN board.cards :
               \/ Lost(id) = {}
               \/ UserResolves
               \/ /\ Lost(id) = {"effects"}
                  /\ \/ worker.at = "settle" /\ worker.card = id /\ id \in DOMAIN board'.cards
                     \/ UserEdits /\ Edits(id) /\ id \in DOMAIN board'.cards
                     \/ UserReshapes /\ \E from \in DOMAIN Cards : Merges(from, id)]_vars
    <2> SUFFICES ASSUME Recorded, [Next]_vars, ~UserResolves,
                        NEW id \in DOMAIN board.cards, Lost(id) # {}
                 PROVE  /\ Lost(id) = {"effects"} /\ Forgets(id)
      BY DEF Forgets, EditOf, MergeInto
    <2>1. ASSUME NEW m \in Lost(id)
          PROVE  <<id, m>> \in MarksOf(board.cards) /\ <<id, m>> \notin MarksOf(board'.cards)
      <3>1. id \in Ids /\ board.cards[id].touched \subseteq Marks
        BY DEF Recorded, IsBoard, AreCards, IsCard
      <3>2. m \in board.cards[id].touched
        BY <2>1 DEF Lost
      <3>3. id \in DOMAIN board'.cards => m \notin board'.cards[id].touched
        BY <2>1 DEF Lost
      <3> QED BY <3>1, <3>2, <3>3 DEF MarksOf
    <2>2. PICK card : Forgets(card)
      BY <2>1, StepIsRecorded
    <2>3. \A m \in Lost(id) : m = "effects" /\ id = card
      BY <2>1, <2>2 DEF Forgets, Effects
    <2> QED BY <2>2, <2>3
  <1> QED BY <1>1, <1>2, <1>3, PTL DEF Spec, ChangesStayOnRecord

\* On every stored board all work that waits or is in progress is approved all the
\* way up, whatever is saved over what: the first part of WorkInProgressIsSound.
THEOREM WorkStaysApproved == Spec => []WorkIsApproved(board.cards)
  <1>1. Init => Recorded
    BY BoardStartsRecorded
  <1>2. Recorded /\ [Next]_vars => Recorded'
    BY StepIsRecorded
  <1>3. Recorded => WorkIsApproved(board.cards)
    BY DEF Recorded
  <1> QED BY <1>1, <1>2, <1>3, PTL DEF Spec
=============================================================================
