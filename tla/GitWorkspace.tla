------------------------------ MODULE GitWorkspace ------------------------------
(***************************************************************************)
(* The Git endpoints of a project: each request runs git commands one by   *)
(* one in the project's repository, after looking at the workspace to keep *)
(* out of repositories that stand inside it.  Users, agents and other      *)
(* requests change the same files and refs between two commands.           *)
(*                                                                         *)
(* The repository has a file F and a directory P with a directory D, which *)
(* may be a repository of its own and holds a file G.  A content is a set  *)
(* of hunks, those of F as they are or as decoding their lines left them;  *)
(* a commit is its tree, a branch the sequence of its commits.             *)
(***************************************************************************)
EXTENDS Naturals, Sequences, SequencesExt, FiniteSets, TLC

CONSTANTS Calls,     \* requests under way (a bound)
          Branches,  \* names of branches, "main" among them
          Hunks,     \* places where a file can differ
          Lossy,     \* those whose lines end with CR or are no UTF-8
          MaxCalls,  \* bound on requests
          MaxChanges   \* bound on what others do to the workspace

ASSUME GitAssumption ==
    /\ "main" \in Branches
    /\ Hunks \subseteq 1..8 /\ Lossy \subseteq Hunks /\ {MaxCalls, MaxChanges} \subseteq Nat

VARIABLES
    repo,    \* the project's repository: refs, index, work tree, stashes
    nested,  \* the repository in D, if any, and whether a search passes D over
    remote,  \* branches of the remote, and whether one is configured
    calls,   \* where each request stands
    spent    \* requests and edits so far

gitVars == <<repo, nested, remote, calls, spent>>

Absent == {0}
Marked == {9}        \* conflict markers between two versions
F == <<"f">>
P == <<"p">>
D == <<"p", "d">>
G == <<"p", "d", "g">>
Tracks == [f |-> F, g |-> G]
Names == DOMAIN Tracks
NoTree == [f |-> Absent, g |-> Absent, link |-> 0]
NoBranch == "none"

Calm == [op |-> "none", at |-> "idle", target |-> F, todo |-> <<>>, pick |-> {}, seen |-> {},
         branch |-> NoBranch, clean |-> TRUE, before |-> <<>>, stood |-> FALSE, loose |-> FALSE]

-----------------------------------------------------------------------------
(* What git sees *)

HasCommits(r) == r.tips[r.at] # <<>>
Tip(r) == IF HasCommits(r) THEN Last(r.tips[r.at]) ELSE NoTree
IsWithin(path, parent) == IsPrefix(parent, path)

\* Files of the project's repository in target t.
Held(t) == {x \in Names : IsWithin(Tracks[x], t) /\ ~(x = "g" /\ nested.there)}
Conflicted(r, x) == r.conflict[x] # <<>>
Tracked(r, t) ==
    {x \in Held(t) : \/ r.index[x] # Tip(r)[x] \/ Conflicted(r, x)
                     \/ r.index[x] # Absent /\ r.work[x] # r.index[x]}
    \cup (IF IsWithin(D, t) /\ (\/ r.index.link # Tip(r).link
                                \/ nested.there /\ r.index.link \notin {0, nested.head})
          THEN {"d"} ELSE {})
Untracked(r, t) ==
    {x \in Held(t) : r.index[x] = Absent /\ r.work[x] # Absent}
    \cup (IF IsWithin(D, t) /\ nested.there /\ r.index.link = 0 THEN {"d"} ELSE {})

\* A place holds lines, or what is left of them when they were decoded.
Left(x) == x + 9
Lines(x) == {x, Left(x)}
LinesAt(places) == UNION {Lines(x) : x \in places}

\* String::from_utf8_lossy and diff.lines(): what the text of a content becomes.
Decoded(content) == {IF x \in Lossy THEN Left(x) ELSE x : x \in content}

\* The hunks of a diff; 0 stands for a file that comes or goes.
Diff(old, new) == IF old = new THEN {} ELSE IF Absent \in {old, new} THEN {0}
                  ELSE {x \in 1..9 : old \cap Lines(x) # new \cap Lines(x)}
Flip(content, hunks, new) ==
    IF hunks = {0} THEN new
    ELSE (content \ LinesAt(hunks)) \cup (new \cap LinesAt(hunks))

\* discover_git_workspace: what D is.  A search passes over target, node_modules,
\* build, .gradle, .idea, .venv and __pycache__, and a repository whose top git does
\* not name.
Found == nested.there /\ ~nested.hidden
Kind == CASE Found /\ nested.linked -> "worktree"
          [] Found /\ ~nested.linked -> IF repo.made /\ repo.index.link # 0
                                        THEN "submodule" ELSE "nested"
          [] OTHER -> IF repo.made /\ repo.index.link # 0 THEN "uninitialized" ELSE "none"

\* Faulty variant: a target above another repository is the project's own.
OverlapsBelow(t) == IsWithin(t, D)
Overlaps(t) == IsWithin(t, D) \/ IsWithin(D, t)

\* resolve_git_file_target
Allowed(t, policy) ==
    \/ Kind = "none" \/ ~Overlaps(t)
    \/ /\ t = D
       /\ \/ Kind = "submodule" /\ policy \in {"inspect", "stage", "unstage", "commit"}
          \/ Kind = "uninitialized" /\ policy = "inspect"

-----------------------------------------------------------------------------
(* git commands *)

Matches(r, t) == \E x \in Held(t) : {r.index[x], r.work[x], Tip(r)[x]} # {Absent}
Links(t) == IsWithin(D, t) /\ nested.there
Inside(t) == t = G /\ nested.there
CanAdd(r, t) ==
    /\ Inside(t) => r.index.link = 0 /\ r.work.g # Absent
    /\ Links(t) => nested.head > 0
    /\ Inside(t) \/ Links(t) \/ Matches(r, t) \/ (t = D /\ r.index.link # 0)
Take(r, from, names) ==
    [r EXCEPT !.index = [x \in DOMAIN @ |-> IF x \in names THEN from[x] ELSE @[x]],
              !.conflict = [x \in Names |-> IF x \in names THEN <<>> ELSE @[x]]]
Add(r, t) == LET files == Take(r, r.work, Held(t))
             IN IF Links(t) THEN [files EXCEPT !.index.link = nested.head] ELSE files
Reset(r, t) == Take(r, Tip(r), Held(t) \cup (IF IsWithin(D, t) THEN {"link"} ELSE {}))
RemoveCached(r, t) == Take(r, NoTree, Held(t) \cup (IF IsWithin(D, t) THEN {"link"} ELSE {}))
SomeConflict(r) == \E x \in Names : Conflicted(r, x)
CanCommit(r) == ~SomeConflict(r) /\ r.index # Tip(r)
Commit(r) == [r EXCEPT !.tips[r.at] = Append(@, r.index)]

\* checkout and fast-forward: a file that changes must be clean.
CanSwitch(r, tree) ==
    /\ ~SomeConflict(r)
    /\ \A x \in Held(<<>>) : tree[x] # Tip(r)[x] => {r.work[x], r.index[x]} = {Tip(r)[x]}
    /\ tree.link # Tip(r).link => r.index.link = Tip(r).link
Switch(r, tree) ==
    LET files == {x \in Held(<<>>) : tree[x] # Tip(r)[x]}
    IN [Take(r, tree, files \cup (IF tree.link # Tip(r).link THEN {"link"} ELSE {}))
           EXCEPT !.work = [x \in Names |-> IF x \in files THEN tree[x] ELSE @[x]]]

Dirty(r) == (Tracked(r, <<>>) \cup Untracked(r, <<>>)) \cap Names
Stash(r) ==
    [Take(r, Tip(r), Held(<<>>)) EXCEPT
        !.work = [x \in Names |-> IF x \in Held(<<>>) THEN Tip(r)[x] ELSE @[x]],
        !.stashes = <<[base |-> Tip(r), work |-> r.work]>> \o @]
Stashed(s) == {x \in Held(<<>>) : s.work[x] # s.base[x]}
CanApply(r, s) ==
    ~SomeConflict(r) /\ \A x \in Stashed(s) : {r.work[x], r.index[x]} = {Tip(r)[x]}
Clashes(r, s) == {x \in Stashed(s) : Tip(r)[x] \notin {s.base[x], s.work[x]}}
Apply(r, s) ==
    [r EXCEPT !.work = [x \in Names |-> IF x \in Clashes(r, s) THEN Marked
                                        ELSE IF x \in Stashed(s) THEN s.work[x] ELSE @[x]],
              !.conflict = [x \in Names |-> IF x \in Clashes(r, s) THEN <<Tip(r)[x], s.work[x]>>
                                            ELSE @[x]]]

-----------------------------------------------------------------------------
(* Requests *)

Free(at) == at \in {"idle", "served", "refused"}

GitInit(start) ==
    /\ repo = start.repo /\ nested = start.nested /\ remote = start.remote
    /\ calls = [h \in Calls |-> Calm]
    /\ spent = [calls |-> 0, edits |-> 0]

\* A request with some of its fields changed.
Moved(request, change) ==
    [f \in DOMAIN request |-> IF f \in DOMAIN change THEN change[f] ELSE request[f]]

Begin(h, change) ==
    /\ Free(calls[h].at) /\ spent.calls < MaxCalls
    /\ spent' = [spent EXCEPT !.calls = @ + 1]
    /\ calls' = [calls EXCEPT ![h] =
                    Moved([Calm EXCEPT !.at = "asked", !.before = <<repo, nested>>, !.stood = Found,
                                       !.loose = Found /\ repo.index.link = 0], change)]
    /\ UNCHANGED <<repo, nested, remote>>

\* The others know when something changed under them, when the repository they
\* could find in D is gone, and when it is recorded.
Notice == repo' # repo \/ nested' # nested \/ remote' # remote
Set(h, change) ==
    /\ calls' = [k \in Calls |->
                    IF k = h THEN Moved(calls[k], change)
                    ELSE [calls[k] EXCEPT !.clean = @ /\ ~Notice,
                                          !.stood = @ /\ Found',
                                          !.loose = @ /\ Found' /\ repo'.index.link = 0]]
    /\ UNCHANGED spent
Then(h, r, change) == repo' = r /\ UNCHANGED <<nested, remote>> /\ Set(h, change)
Look(h, change) == Then(h, repo, change)
End(h, r) == Then(h, r, [Calm EXCEPT !.at = "served"])
Refuse(h) == Then(h, repo, [Calm EXCEPT !.at = "refused"])
Stands(h, op, at) == calls[h].op = op /\ calls[h].at = at

Policy == [stage |-> "stage", unstage |-> "unstage", commit |-> "commit", hunks |-> "hunks",
           reverse |-> "hunks", resolve |-> "inspect", discard |-> "discard", delete |-> "discard"]
OnPaths == DOMAIN Policy

CallOn(h, op, t) ==
    /\ op \in {"stage", "unstage", "discard", "delete"}
    /\ Begin(h, [op |-> op, target |-> t])
CallCommit(h, files) == Begin(h, [op |-> "commit", target |-> Head(files), todo |-> Tail(files)])

\* The user picks hunks by their place in the diff on the screen.
Sides(r, op) == IF op = "hunks" THEN <<r.index.f, r.work.f>> ELSE <<Tip(r).f, r.index.f>>
Place(all, x) == Cardinality({y \in all : y < x})
CallHunks(h, op, seen) ==
    LET shown == Diff(Sides(repo, op)[1], Sides(repo, op)[2])
    IN /\ op \in {"hunks", "reverse"} /\ seen # {} /\ seen \subseteq shown
       /\ Begin(h, [op |-> op, seen |-> seen, pick |-> {Place(shown, x) : x \in seen}])
CallResolve(h, how, content, stage) ==
    Begin(h, [op |-> "resolve", branch |-> how, seen |-> content, todo |-> IF stage THEN <<F>> ELSE <<>>])
CallStash(h, op, n) ==
    /\ op \in {"apply", "pop", "drop"} /\ n \in DOMAIN repo.stashes
    /\ Begin(h, [op |-> op, pick |-> {n}])
CallBranch(h, op, b) ==
    /\ op \in {"checkout", "create", "remove", "publish"}
    /\ Begin(h, [op |-> op, branch |-> b])
CallPlain(h, op) ==
    /\ op \in {"initial", "revert", "stash", "push", "pull", "remote"}
    /\ Begin(h, [op |-> op])
CallInit(h, submodule, allow) ==
    Begin(h, [op |-> IF submodule THEN "submodule" ELSE "init", clean |-> TRUE,
              branch |-> IF allow THEN "allowed" ELSE NoBranch])

\* resolve_git_file_target
Resolve(h) ==
    /\ calls[h].op \in OnPaths /\ calls[h].at = "asked"
    /\ IF repo.made /\ Allowed(calls[h].target, Policy[calls[h].op])
       THEN Look(h, [at |-> "resolved"]) ELSE Refuse(h)

Stage(h) ==
    /\ Stands(h, "stage", "resolved")
    /\ IF CanAdd(repo, calls[h].target) THEN End(h, Add(repo, calls[h].target)) ELSE Refuse(h)

LookForCommits(h) ==
    /\ \/ Stands(h, "unstage", "resolved")
       \/ calls[h].op \in {"initial", "revert"} /\ calls[h].at = "asked"
    /\ CASE calls[h].op = "unstage" -> Look(h, [at |-> IF HasCommits(repo) THEN "born" ELSE "unborn"])
         [] calls[h].op = "initial" -> IF repo.made /\ ~HasCommits(repo) THEN Look(h, [at |-> "unborn"]) ELSE Refuse(h)
         [] calls[h].op = "revert" -> IF HasCommits(repo) THEN Look(h, [at |-> "born"]) ELSE Refuse(h)
InGit(t) == \/ \E x \in Held(t) : {repo.index[x], Tip(repo)[x]} # {Absent}
            \/ t = D /\ {repo.index.link, Tip(repo).link} # {0}
Unstage(h) ==
    LET t == calls[h].target
    IN \/ /\ Stands(h, "unstage", "born")
          /\ IF HasCommits(repo) /\ InGit(t) THEN End(h, Reset(repo, t)) ELSE Refuse(h)
       \/ Stands(h, "unstage", "unborn") /\ End(h, RemoveCached(repo, t))

\* selected_hunk_patch, of the diff that run_git decoded.
ReadDiff(h) ==
    LET sides == Sides(repo, calls[h].op)
        shown == Diff(sides[1], sides[2])
    IN /\ calls[h].op \in {"hunks", "reverse"} /\ calls[h].at = "resolved"
       /\ IF \/ shown = {} \/ Conflicted(repo, "f") \/ (calls[h].op = "hunks" /\ sides[1] = Absent)
             \/ ~(calls[h].pick \subseteq 0..(Cardinality(shown) - 1))
          THEN Refuse(h)
          ELSE Look(h, [at |-> "patch",
                        todo |-> <<Decoded(sides[1]), Decoded(sides[2]),
                                   {x \in shown : Place(shown, x) \in calls[h].pick}>>])

\* The lines a hunk takes away must be those of the index, and so must the lines
\* around it, which may be lossy too.
PatchFits(patch, old) ==
    IF patch[3] = {0} THEN repo.index.f = old
    ELSE repo.index.f # Absent /\ repo.index.f \cap LinesAt(patch[3]) = old \cap LinesAt(patch[3])
ApplyHunks(h) ==
    LET patch == calls[h].todo
        old == IF calls[h].op = "hunks" THEN patch[1] ELSE patch[2]
        new == IF calls[h].op = "hunks" THEN patch[2] ELSE patch[1]
    IN /\ calls[h].at = "patch"
       /\ \/ /\ PatchFits(patch, old)
             /\ End(h, [repo EXCEPT !.index.f = Flip(@, patch[3], new)])
          \/ /\ ~PatchFits(patch, old) \/ Lossy # {}
             /\ Refuse(h)

CheckConflict(h) ==
    /\ Stands(h, "resolve", "resolved")
    /\ IF Conflicted(repo, "f") THEN Look(h, [at |-> "conflict"]) ELSE Refuse(h)
WriteResolution(h) ==
    LET how == calls[h].branch
        side == IF how = "manual" THEN calls[h].seen
                ELSE IF ~Conflicted(repo, "f") THEN repo.index.f
                ELSE repo.conflict.f[IF how = "ours" THEN 1 ELSE 2]
    IN /\ Stands(h, "resolve", "conflict")
       /\ LET r == [repo EXCEPT !.work.f = side]
          IN IF calls[h].todo = <<>> THEN End(h, r) ELSE Then(h, r, [at |-> "written"])
StageResolution(h) ==
    /\ Stands(h, "resolve", "written")
    /\ End(h, Add(repo, F))

\* discard_repository_path
ReadStatus(h) ==
    LET t == calls[h].target
        tracked == Tracked(repo, t) # {}
    IN \/ /\ Stands(h, "discard", "resolved")
          /\ IF ~tracked /\ Untracked(repo, t) = {} THEN Refuse(h)
             ELSE Look(h, [at |-> IF tracked THEN "indexed" ELSE "remove",
                           branch |-> IF tracked /\ HasCommits(repo) THEN "restore" ELSE NoBranch])
       \/ /\ Stands(h, "delete", "resolved")
          /\ IF tracked \/ Untracked(repo, t) = {} THEN Refuse(h) ELSE Look(h, [at |-> "remove"])
Unindex(h) ==
    LET t == calls[h].target
    IN /\ Stands(h, "discard", "indexed")
       /\ Then(h, IF calls[h].branch # "restore" THEN RemoveCached(repo, t)
                  ELSE IF HasCommits(repo) THEN Reset(repo, t) ELSE repo,
               [at |-> "remove"])
RemovePath(h) ==
    LET t == calls[h].target
    IN /\ calls[h].at = "remove"
       /\ repo' = [repo EXCEPT !.work = [x \in Names |-> IF IsWithin(Tracks[x], t) THEN Absent ELSE @[x]]]
       /\ nested' = IF IsWithin(D, t) THEN [nested EXCEPT !.there = FALSE, !.linked = FALSE, !.head = 0]
                    ELSE nested
       /\ UNCHANGED remote
       /\ Set(h, IF calls[h].branch = "restore" THEN [at |-> "restore"] ELSE [Calm EXCEPT !.at = "served"])
Restore(h) ==
    LET t == calls[h].target
    IN /\ Stands(h, "discard", "restore")
       /\ End(h, [repo EXCEPT !.work = [x \in Names |->
              IF x \in Held(t) /\ {Tip(repo)[x], repo.index[x]} # {Absent} THEN Tip(repo)[x] ELSE @[x]]])

AddNext(h) ==
    LET c == calls[h]
    IN /\ Stands(h, "commit", "resolved")
       /\ IF ~CanAdd(repo, c.target) THEN Refuse(h)
          ELSE Then(h, Add(repo, c.target),
                    IF c.todo = <<>> THEN [at |-> "added"]
                    ELSE [at |-> "asked", target |-> Head(c.todo), todo |-> Tail(c.todo)])
CommitIndex(h) ==
    /\ calls[h].at = "added"
    /\ IF IF calls[h].op = "initial" THEN ~SomeConflict(repo) ELSE CanCommit(repo)
       THEN End(h, Commit(repo)) ELSE Refuse(h)

\* initial_commit: what the catalog names as a repository of its own is left out.
Discover(h) == Stands(h, "initial", "unborn") /\ Look(h, [at |-> "catalog", branch |-> Kind])
AddAll(h) ==
    /\ Stands(h, "initial", "catalog")
    /\ IF calls[h].branch \in {"nested", "worktree", "uninitialized"}
       THEN Then(h, Add(repo, F), [at |-> "added"])
       ELSE IF Links(<<>>) /\ nested.head = 0 THEN Refuse(h)
       ELSE Then(h, Add(repo, <<>>), [at |-> "added"])

\* Without a parent the commit is taken from the branch.
ResetSoft(h) ==
    /\ Stands(h, "revert", "born")
    /\ LET commits == repo.tips[repo.at]
       IN CASE commits = <<>> -> Refuse(h)
            [] Len(commits) = 1 -> Look(h, [at |-> "orphan"])
            [] OTHER -> End(h, [repo EXCEPT !.tips[repo.at] = Front(commits)])
DeleteHead(h) == Stands(h, "revert", "orphan") /\ End(h, [repo EXCEPT !.tips[repo.at] = <<>>])

CreateStash(h) ==
    /\ Stands(h, "stash", "asked")
    /\ IF ~repo.made \/ ~HasCommits(repo) \/ SomeConflict(repo) THEN Refuse(h)
       ELSE End(h, IF Dirty(repo) = {} THEN repo ELSE Stash(repo))
TakeStash(h) ==
    LET op == calls[h].op
        n == CHOOSE k \in calls[h].pick : TRUE
        Dropped(r) == [r EXCEPT !.stashes = RemoveAt(@, n)]
    IN /\ op \in {"apply", "pop", "drop"} /\ calls[h].at = "asked"
       /\ IF n \notin DOMAIN repo.stashes THEN Refuse(h)
          ELSE LET s == repo.stashes[n]
               IN CASE op = "drop" -> End(h, Dropped(repo))
                    [] op # "drop" /\ ~CanApply(repo, s) -> Refuse(h)
                    [] op # "drop" /\ CanApply(repo, s) ->
                          IF Clashes(repo, s) # {} THEN Then(h, Apply(repo, s), [Calm EXCEPT !.at = "refused"])
                          ELSE End(h, IF op = "pop" THEN Dropped(Apply(repo, s)) ELSE Apply(repo, s))

Checkout(h) ==
    LET b == calls[h].branch
    IN /\ Stands(h, "checkout", "asked")
       /\ IF repo.tips[b] # <<>> /\ CanSwitch(repo, Last(repo.tips[b]))
          THEN End(h, [Switch(repo, Last(repo.tips[b])) EXCEPT !.at = b]) ELSE Refuse(h)
CreateBranch(h) ==
    LET b == calls[h].branch
    IN /\ Stands(h, "create", "asked")
       /\ IF repo.made /\ repo.tips[b] = <<>> /\ ~SomeConflict(repo)
          THEN End(h, [repo EXCEPT !.tips[b] = repo.tips[repo.at], !.at = b]) ELSE Refuse(h)
DeleteBranch(h) ==
    LET b == calls[h].branch
        merged == \/ IsPrefix(repo.tips[b], repo.tips[repo.at])
                  \/ repo.upstream[b] # NoBranch /\ IsPrefix(repo.tips[b], remote.tips[repo.upstream[b]])
    IN \/ /\ Stands(h, "remove", "asked")
          /\ IF repo.at = b THEN Refuse(h) ELSE Look(h, [at |-> "checked"])
       \/ /\ Stands(h, "remove", "checked")
          /\ IF repo.at # b /\ repo.tips[b] # <<>> /\ merged
             THEN End(h, [repo EXCEPT !.tips[b] = <<>>, !.upstream[b] = NoBranch]) ELSE Refuse(h)

\* current_branch, upstream_remote_branch_or
ReadUpstream(h) ==
    /\ calls[h].op \in {"push", "pull"}
    /\ \/ /\ calls[h].at = "asked"
          /\ IF ~repo.made THEN Refuse(h) ELSE Look(h, [at |-> "current", branch |-> repo.at])
       \/ /\ calls[h].at = "current"
          /\ Look(h, [at |-> "upstream",
                      branch |-> IF repo.upstream[repo.at] = NoBranch THEN calls[h].branch
                                 ELSE repo.upstream[repo.at]])
CheckCurrent(h) ==
    /\ Stands(h, "publish", "asked")
    /\ IF repo.at = calls[h].branch /\ remote.set THEN Look(h, [at |-> "upstream"]) ELSE Refuse(h)
\* git push <remote> <branch>: the local branch of that name.
PushBranch(h) ==
    LET b == calls[h].branch
    IN /\ calls[h].op \in {"push", "publish"} /\ calls[h].at = "upstream"
       /\ IF remote.set /\ repo.tips[b] # <<>> /\ IsPrefix(remote.tips[b], repo.tips[b])
          THEN /\ remote' = [remote EXCEPT !.tips[b] = repo.tips[b]]
               /\ repo' = IF calls[h].op = "publish" THEN [repo EXCEPT !.upstream[b] = b] ELSE repo
               /\ UNCHANGED nested /\ Set(h, [Calm EXCEPT !.at = "served"])
          ELSE Refuse(h)
\* git pull <remote> <branch>; histories that diverged are refused.
PullBranch(h) ==
    LET theirs == remote.tips[calls[h].branch]
        ours == repo.tips[repo.at]
    IN /\ Stands(h, "pull", "upstream")
       /\ CASE ~remote.set \/ theirs = <<>> -> Refuse(h)
            [] remote.set /\ theirs # <<>> /\ IsPrefix(theirs, ours) -> End(h, repo)
            [] OTHER -> IF IsPrefix(ours, theirs) /\ CanSwitch(repo, Last(theirs))
                        THEN End(h, [Switch(repo, Last(theirs)) EXCEPT !.tips[repo.at] = theirs])
                        ELSE Refuse(h)
SetRemote(h) ==
    \/ /\ Stands(h, "remote", "asked")
       /\ IF ~repo.made THEN Refuse(h)
          ELSE Look(h, [at |-> "listed", branch |-> IF remote.set THEN "set" ELSE "add"])
    \/ /\ Stands(h, "remote", "listed")
       /\ IF calls[h].branch = "add" /\ remote.set THEN Refuse(h)
          ELSE /\ remote' = [remote EXCEPT !.set = TRUE]
               /\ UNCHANGED <<repo, nested>> /\ Set(h, [Calm EXCEPT !.at = "served"])

InitSubmodule(h) ==
    \/ /\ Stands(h, "submodule", "asked")
       /\ CASE Kind = "none" -> Refuse(h)
            [] Kind = "uninitialized" -> Look(h, [at |-> "catalog"])
            [] OTHER -> End(h, repo)
    \/ Stands(h, "submodule", "catalog") /\ repo.index.link = 0 /\ Refuse(h)
    \/ /\ Stands(h, "submodule", "catalog") /\ repo.index.link # 0
       /\ nested' = [nested EXCEPT !.there = TRUE, !.head = repo.index.link]
       /\ UNCHANGED <<repo, remote>> /\ Set(h, [Calm EXCEPT !.at = "served"])
InitRepository(h) ==
    \/ /\ Stands(h, "init", "asked")
       /\ CASE repo.made -> End(h, repo)
            [] ~repo.made /\ Kind # "none" /\ calls[h].branch # "allowed" -> Refuse(h)
            [] OTHER -> Look(h, [at |-> "catalog"])
    \/ Stands(h, "init", "catalog") /\ End(h, [repo EXCEPT !.made = TRUE])

-----------------------------------------------------------------------------
(* What others do: users, agents, and the requests of the repository in D *)

Disturb ==
    /\ spent.edits < MaxChanges
    /\ spent' = [spent EXCEPT !.edits = @ + 1]
    /\ calls' = [h \in Calls |-> [calls[h] EXCEPT !.clean = FALSE]]
EditFile(x, content) ==
    /\ repo.work[x] # content
    /\ repo' = [repo EXCEPT !.work[x] = content]
    /\ Disturb /\ UNCHANGED <<nested, remote>>
MakeNested(linked) ==
    /\ ~nested.there /\ {repo.index.g, Tip(repo).g} = {Absent} /\ repo.index.link = 0
    /\ nested' = [nested EXCEPT !.there = TRUE, !.linked = linked, !.head = 0]
    /\ Disturb /\ UNCHANGED <<repo, remote>>
CommitNested ==
    /\ nested.there /\ nested.head < MaxChanges
    /\ nested' = [nested EXCEPT !.head = @ + 1]
    /\ Disturb /\ UNCHANGED <<repo, remote>>
PushOther(b, content) ==
    /\ remote.set
    /\ remote' = [remote EXCEPT !.tips[b] = Append(@, [NoTree EXCEPT !.f = content])]
    /\ Disturb /\ UNCHANGED <<repo, nested>>

GitNext ==
    \/ \E h \in Calls :
          \/ \E op \in OnPaths, t \in {F, P, D, G} : CallOn(h, op, t)
          \/ \E files \in {<<F>>, <<P>>, <<D>>, <<F, G>>} : CallCommit(h, files)
          \/ \E op \in OnPaths, seen \in SUBSET (Hunks \cup {0}) : CallHunks(h, op, seen)
          \/ \E how \in {"ours", "theirs", "manual"}, stage \in BOOLEAN : CallResolve(h, how, Hunks, stage)
          \/ \E op \in {"apply", "pop", "drop"}, n \in 1..2 : CallStash(h, op, n)
          \/ \E op \in {"checkout", "create", "remove", "publish"}, b \in Branches : CallBranch(h, op, b)
          \/ \E op \in {"initial", "revert", "stash", "push", "pull", "remote"} : CallPlain(h, op)
          \/ \E submodule \in BOOLEAN, allow \in BOOLEAN : CallInit(h, submodule, allow)
          \/ Resolve(h) \/ Stage(h) \/ LookForCommits(h) \/ Unstage(h)
          \/ ReadDiff(h) \/ ApplyHunks(h)
          \/ CheckConflict(h) \/ WriteResolution(h) \/ StageResolution(h)
          \/ ReadStatus(h) \/ Unindex(h) \/ RemovePath(h) \/ Restore(h)
          \/ AddNext(h) \/ CommitIndex(h) \/ Discover(h) \/ AddAll(h)
          \/ ResetSoft(h) \/ DeleteHead(h) \/ CreateStash(h) \/ TakeStash(h)
          \/ Checkout(h) \/ CreateBranch(h) \/ DeleteBranch(h)
          \/ ReadUpstream(h) \/ CheckCurrent(h) \/ PushBranch(h) \/ PullBranch(h) \/ SetRemote(h)
          \/ InitSubmodule(h) \/ InitRepository(h)
    \/ \E x \in Names, content \in {Absent, Hunks} \cup {{k} : k \in Hunks} : EditFile(x, content)
    \/ \E linked \in BOOLEAN : MakeNested(linked)
    \/ CommitNested
    \/ \E b \in Branches : PushOther(b, {})

-----------------------------------------------------------------------------
GitTypeOK ==
    /\ repo.at \in Branches /\ DOMAIN repo.tips = Branches
    /\ ~repo.made => repo.index = NoTree /\ ~HasCommits(repo)
    /\ nested.linked => nested.there
    /\ \A x \in Names : Conflicted(repo, x) => Len(repo.conflict[x]) = 2
    /\ spent.calls <= MaxCalls /\ spent.edits <= MaxChanges

Acts(h) == calls'[h].at # calls[h].at

\* Where a repository that the search finds has stood in D since the request began,
\* the request changes neither it nor its files, and does not record it if nobody
\* else did.  (resolve_git_file_target.)
ParentKeepsOut(h) ==
    /\ calls[h].stood /\ calls[h].op # "submodule" =>
          nested' = nested /\ repo'.work.g = repo.work.g
    /\ calls[h].loose /\ calls[h].op \notin {"checkout", "pull"} => repo'.index.link = 0

\* A version of a file leaves the work tree only when the request named the
\* file to be discarded or resolved, or when it is kept elsewhere.
Kept(r, x) == {r.index[x]} \cup {s.work[x] : s \in ToSet(r.stashes)}
              \cup {tree[x] : tree \in UNION {ToSet(r.tips[b]) : b \in Branches}}
NothingLost(h) ==
    \A x \in Names : repo'.work[x] # repo.work[x] =>
        \/ repo.work[x] \in {Absent, Marked} \/ repo.work[x] \in Kept(repo', x)
        \/ calls[h].op \in {"discard", "delete", "resolve"} /\ IsWithin(Tracks[x], calls[h].target)

\* What the hunks on the screen lead to.
Goal(r, op) == IF op = "hunks" THEN r.work.f ELSE Tip(r).f

\* A request that nobody disturbed did what it was asked for: a discard with the
\* files that were the project's when it began; and the hunks staged or taken back
\* are those that were picked and no others, as far as decoding their lines leaves
\* them what they were.
Serves(h) ==
    LET c == calls[h]
        old == c.before[1]
        tip == Tip(old)
        files == {x \in Held(c.target) : ~(x = "g" /\ c.before[2].there)}
    IN CASE c.op = "discard" ->
              \A x \in Names : IF x \in files THEN {repo'.work[x], repo'.index[x]} = {tip[x]}
                               ELSE \/ IsWithin(Tracks[x], c.target)
                                    \/ repo'.work[x] = old.work[x] /\ repo'.index[x] = old.index[x]
         [] c.op = "delete" -> repo'.index = old.index /\ \A x \in files : repo'.work[x] = Absent
         [] c.op = "commit" ->
              /\ Front(repo'.tips[repo'.at]) = old.tips[old.at] /\ repo'.work = old.work
              /\ Tip(repo').f \in {old.work.f, old.index.f}
              /\ \A x \in files : Tip(repo')[x] = old.work[x]
         [] c.op \in {"hunks", "reverse"} ->
              /\ repo'.work = old.work /\ Diff(old.index.f, repo'.index.f) \subseteq c.seen
              /\ Diff(Decoded(repo'.index.f), Decoded(Goal(old, c.op))) \cap c.seen = {}
         [] c.op = "revert" -> /\ repo' = [old EXCEPT !.tips = repo'.tips]
                               /\ repo'.tips[old.at] = Front(old.tips[old.at])
         [] c.op = "initial" -> /\ Len(repo'.tips[repo'.at]) = 1
                                /\ \A x \in Held(<<>>) : Kind = "none" \/ ~Overlaps(Tracks[x]) =>
                                      Tip(repo')[x] = old.work[x]
         [] c.op = "stash" -> Dirty(old) # {} => /\ repo'.work # old.work \/ repo'.index # old.index
                                                 /\ Head(repo'.stashes).work = old.work
         [] c.op = "push" -> repo.upstream[repo.at] \in {NoBranch, repo.at} =>
                                remote'.tips[repo.at] = repo.tips[repo.at]
         [] c.op = "resolve" ->
              /\ repo'.work.f = IF c.branch = "manual" THEN c.seen
                                ELSE old.conflict.f[IF c.branch = "ours" THEN 1 ELSE 2]
              /\ c.todo # <<>> => ~Conflicted(repo', "f") /\ repo'.index.f = repo'.work.f
         [] OTHER -> TRUE

\* A parent never treats the files of a repository in it as its own, whether the
\* search finds it or not.  (repository.rs:500-502.)
\* No run checks it: a discard of a path above one it does not find breaks it.
BoundaryKept ==
    [][\A h \in Calls : Acts(h) /\ calls[h].clean /\ nested.there /\ calls[h].op # "submodule" =>
          nested'.there /\ repo'.work.g = repo.work.g]_gitVars

\* Requests keep out of what is not theirs, lose no version of a file, and do what
\* they say, whatever others do between their commands.
GitServed ==
    [][\A h \in Calls : Acts(h) =>
          /\ ParentKeepsOut(h) /\ NothingLost(h)
          /\ calls'[h].at = "served" /\ calls[h].clean => Serves(h)]_gitVars
=============================================================================
