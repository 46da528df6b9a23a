----------------------------- MODULE GitProofs -----------------------------
(***************************************************************************)
(* Git requests keep out of a repository that stands in the project, lose  *)
(* nothing, and do what they were asked for, for any repository git may    *)
(* have, any remote, and any number of requests and edits in between.      *)
(*                                                                         *)
(* A git command is one step and a request is several, so the invariant    *)
(* follows each request from point to point: what it may still touch while *)
(* a repository stands in D (WorksOutside), and, while nobody disturbed    *)
(* it, how far it has come in what it was asked (Follows).                 *)
(***************************************************************************)
EXTENDS GitWorkspace, FiniteSetTheorems, SequenceTheorems, TLAPS

\* The paths a request may name.
Targets == {F, P, D, G}

\* The two files have the two paths, and the four targets differ.
LEMMA PathsDiffer ==
    /\ Names = {"f", "g"} /\ Tracks.f = F /\ Tracks.g = G
    /\ F # P /\ F # D /\ F # G /\ P # D /\ P # G /\ D # G
  <1>1. Len(F) = 1 /\ Len(P) = 1 /\ Len(D) = 2 /\ Len(G) = 3 /\ F[1] # P[1]
    BY DEF F, P, D, G
  <1> QED BY <1>1 DEF Names, Tracks

\* The names a path is made of.
Steps == {"f", "p", "d", "g"}
\* A path is above another when its steps are the first steps of the other.
LEMMA PrefixIs ==
    ASSUME NEW s \in Seq(Steps), NEW t \in Seq(Steps)
    PROVE  IsPrefix(s, t) <=> Len(s) =< Len(t) /\ \A i \in 1..Len(s) : s[i] = t[i]
  <1>1. Len(s) \in Nat /\ Len(t) \in Nat
    OBVIOUS
  <1>2. ASSUME Len(s) =< Len(t)
        PROVE  /\ SubSeq(s, 1, Len(s)) = [i \in 1..Len(s) |-> s[i]]
               /\ SubSeq(t, 1, Len(s)) = [i \in 1..Len(s) |-> t[i]]
    BY <1>1, <1>2, SubSeqProperties, Z3
  <1> QED BY <1>1, <1>2 DEF IsPrefix

\* Which of the four targets is above which.
LEMMA Above ==
    /\ IsPrefix(<<>>, F) /\ IsPrefix(<<>>, D) /\ IsPrefix(<<>>, G)
    /\ IsPrefix(F, F) /\ ~IsPrefix(P, F) /\ ~IsPrefix(D, F) /\ ~IsPrefix(G, F)
    /\ ~IsPrefix(F, G) /\ IsPrefix(P, G) /\ IsPrefix(D, G) /\ IsPrefix(G, G)
    /\ ~IsPrefix(F, D) /\ IsPrefix(P, D) /\ IsPrefix(D, D) /\ ~IsPrefix(G, D)
    /\ ~IsPrefix(D, P)
  <1>1. F \in Seq(Steps) /\ Len(F) = 1 /\ F[1] = "f"
    BY DEF F, Steps
  <1>2. P \in Seq(Steps) /\ Len(P) = 1 /\ P[1] = "p"
    BY DEF P, Steps
  <1>3. D \in Seq(Steps) /\ Len(D) = 2 /\ D[1] = "p" /\ D[2] = "d"
    BY DEF D, Steps
  <1>4. G \in Seq(Steps) /\ Len(G) = 3 /\ G[1] = "p" /\ G[2] = "d" /\ G[3] = "g"
    BY DEF G, Steps
  <1>5. <<>> \in Seq(Steps) /\ Len(<<>>) = 0
    OBVIOUS
  <1>6. IsPrefix(<<>>, F) /\ IsPrefix(<<>>, D) /\ IsPrefix(<<>>, G)
    <2>1. ASSUME NEW s \in Seq(Steps), Len(s) = 0, NEW t \in Seq(Steps)
          PROVE  IsPrefix(s, t)
      <3>1. \A i \in 1..Len(s) : s[i] = t[i]
        BY <2>1
      <3>2. Len(s) =< Len(t)
        BY <2>1
      <3> QED BY <3>1, <3>2, PrefixIs
    <2> QED BY <1>1, <1>3, <1>4, <1>5, <2>1
  <1>7. /\ IsPrefix(F, F) /\ ~IsPrefix(P, F) /\ ~IsPrefix(D, F) /\ ~IsPrefix(G, F)
    BY <1>1, <1>2, <1>3, <1>4, PrefixIs
  <1>8. ~IsPrefix(F, G) /\ IsPrefix(P, G) /\ IsPrefix(D, G) /\ IsPrefix(G, G)
    BY <1>1, <1>2, <1>3, <1>4, PrefixIs
  <1>9. ~IsPrefix(F, D) /\ IsPrefix(P, D) /\ IsPrefix(D, D)
    BY <1>1, <1>2, <1>3, PrefixIs
  <1>10. ~IsPrefix(G, D) /\ ~IsPrefix(D, P)
    BY <1>2, <1>3, <1>4 DEF IsPrefix
  <1> QED BY <1>6, <1>7, <1>8, <1>9, <1>10

\* What is under each target, and which targets meet the repository in D.
LEMMA Within ==
    /\ IsWithin(F, <<>>) /\ IsWithin(G, <<>>) /\ IsWithin(D, <<>>)
    /\ \A t \in Targets : /\ IsWithin(F, t) <=> t = F
                          /\ IsWithin(G, t) <=> t # F
                          /\ IsWithin(D, t) <=> t \in {P, D}
                          /\ Overlaps(t) <=> t # F
  BY Above, PathsDiffer DEF IsWithin, Targets, Overlaps

-----------------------------------------------------------------------------
(* What a repository is, and what a git command leaves of it.               *)

\* What git may have: contents, trees, files, stashes, a repository, the one in
\* D, and a remote.
Contents == {Absent} \cup SUBSET (1..18)
Trees == [f : Contents, g : Contents, link : Nat]
Files == [f : Contents, g : Contents]
Stashes == [base : Trees, work : Files]
Repos == [made : BOOLEAN, at : Branches, tips : [Branches -> Seq(Trees)],
          upstream : [Branches -> Branches \cup {NoBranch}], index : Trees, work : Files,
          conflict : [{"f", "g"} -> {<<>>} \cup (Contents \X Contents)], stashes : Seq(Stashes)]
Subs == [there : BOOLEAN, linked : BOOLEAN, head : Nat, hidden : BOOLEAN]
Remotes == [set : BOOLEAN, tips : [Branches -> Seq(Trees)]]

\* r differs from s in its index and conflicts at most.
SameBut(r, s) ==
    /\ r.made = s.made /\ r.at = s.at /\ r.tips = s.tips /\ r.upstream = s.upstream
    /\ r.work = s.work /\ r.stashes = s.stashes

\* Nothing, markers, one hunk and all hunks are contents a file may have.
LEMMA ContentsAre ==
    /\ Absent \in Contents /\ Marked \in Contents /\ NoTree \in Trees
    /\ \A h \in Hunks : {h} \in Contents
    /\ Hunks \in Contents /\ {} \in Contents
  <1>1. Hunks \subseteq 1..18
    BY GitAssumption
  <1>2. NoTree \in Trees
    BY DEF NoTree, Trees, Contents
  <1> QED BY <1>1, <1>2 DEF Contents, Marked

\* The last commit of the branch checked out is a tree, or there is none.
LEMMA TipIsTree ==
    ASSUME NEW r \in Repos
    PROVE  /\ Tip(r) \in Trees
           /\ HasCommits(r) => /\ Len(r.tips[r.at]) \in Nat \ {0}
                               /\ Tip(r) = r.tips[r.at][Len(r.tips[r.at])]
                               /\ Tip(r) \in ToSet(r.tips[r.at])
           /\ ~HasCommits(r) => Tip(r) = NoTree
  <1>1. r.tips[r.at] \in Seq(Trees)
    BY DEF Repos
  <1>2. CASE HasCommits(r)
    <2>1. Len(r.tips[r.at]) \in Nat \ {0} /\ Len(r.tips[r.at]) \in DOMAIN r.tips[r.at]
      BY <1>1, <1>2 DEF HasCommits
    <2>2. r.tips[r.at][Len(r.tips[r.at])] \in Trees
      BY <1>1, <2>1, ElementOfSeq
    <2> QED BY <1>2, <2>1, <2>2 DEF Tip, Last, ToSet
  <1>3. CASE ~HasCommits(r)
    BY <1>3, ContentsAre DEF Tip
  <1> QED BY <1>2, <1>3

\* Files of the index come from elsewhere.
LEMMA TakeIs ==
    ASSUME NEW r \in Repos, NEW from, NEW names,
           \A x \in {"f", "g"} \cap names : from[x] \in Contents,
           "link" \in names => from.link \in Nat
    PROVE  /\ Take(r, from, names) \in Repos /\ SameBut(Take(r, from, names), r)
           /\ \A x \in {"f", "g", "link"} :
                 Take(r, from, names).index[x] = IF x \in names THEN from[x] ELSE r.index[x]
           /\ \A x \in {"f", "g"} :
                 Take(r, from, names).conflict[x] = IF x \in names THEN <<>> ELSE r.conflict[x]
  <1> DEFINE index == [x \in DOMAIN r.index |-> IF x \in names THEN from[x] ELSE r.index[x]]
             conflict == [x \in Names |-> IF x \in names THEN <<>> ELSE r.conflict[x]]
  <1>1. DOMAIN r.index = {"f", "g", "link"} /\ r.index.f \in Contents /\ r.index.g \in Contents
        /\ r.index.link \in Nat
    BY DEF Repos, Trees
  <1>2. index \in Trees
    <2>1. index = [f |-> index.f, g |-> index.g, link |-> index.link]
      BY <1>1
    <2>2. index.f \in Contents /\ index.g \in Contents /\ index.link \in Nat
      BY <1>1
    <2> HIDE DEF index
    <2> QED BY <2>1, <2>2 DEF Trees
  <1>3. conflict \in [{"f", "g"} -> {<<>>} \cup (Contents \X Contents)]
    BY PathsDiffer DEF Repos
  <1>4. Take(r, from, names) = [r EXCEPT !.index = index, !.conflict = conflict]
    BY DEF Take
  <1>5. [r EXCEPT !.index = index, !.conflict = conflict] \in Repos
    <2> HIDE DEF index, conflict
    <2> QED BY <1>2, <1>3 DEF Repos
  <1>6. DOMAIN r = {"made", "at", "tips", "upstream", "index", "work", "conflict", "stashes"}
    BY DEF Repos
  <1>7. SameBut(Take(r, from, names), r)
    BY <1>4, <1>6 DEF SameBut
  <1>8. /\ Take(r, from, names).index = index /\ Take(r, from, names).conflict = conflict
    BY <1>4, <1>6
  <1> QED BY <1>1, <1>4, <1>5, <1>7, <1>8, PathsDiffer

\* The parent holds G only while no repository stands in D; a link takes G's place.
LEMMA HeldIs ==
    /\ Held(<<>>) = {"f"} \cup (IF nested.there THEN {} ELSE {"g"})
    /\ \A t \in Targets : Held(t) = IF t = F THEN {"f"} ELSE IF nested.there THEN {} ELSE {"g"}
    /\ \A t \in Targets : Links(t) <=> t \in {P, D} /\ nested.there
    /\ Links(<<>>) <=> nested.there
  BY Within, PathsDiffer DEF Held, Links

\* git add, reset and rm --cached.
LEMMA AddIs ==
    ASSUME NEW r \in Repos, NEW t \in Targets \cup {<<>>}, nested \in Subs
    PROVE  /\ Add(r, t) \in Repos /\ SameBut(Add(r, t), r)
           /\ \A x \in {"f", "g"} :
                 /\ Add(r, t).index[x] = IF x \in Held(t) THEN r.work[x] ELSE r.index[x]
                 /\ Add(r, t).conflict[x] = IF x \in Held(t) THEN <<>> ELSE r.conflict[x]
           /\ Add(r, t).index.link = IF Links(t) THEN nested.head ELSE r.index.link
  <1> DEFINE files == Take(r, r.work, Held(t))
  <1>1. Held(t) \subseteq {"f", "g"}
    BY PathsDiffer DEF Held
  <1>2. r.work.f \in Contents /\ r.work.g \in Contents /\ nested.head \in Nat
    BY DEF Repos, Files, Subs
  <1>3. /\ files \in Repos /\ SameBut(files, r) /\ files.index.link = r.index.link
        /\ \A x \in {"f", "g"} :
              /\ files.index[x] = IF x \in Held(t) THEN r.work[x] ELSE r.index[x]
              /\ files.conflict[x] = IF x \in Held(t) THEN <<>> ELSE r.conflict[x]
    <2>1. \A x \in {"f", "g"} \cap Held(t) : r.work[x] \in Contents
      BY <1>2
    <2>2. "link" \notin Held(t)
      BY <1>1
    <2> QED BY <2>1, <2>2, TakeIs
  <1> HIDE DEF files
  <1>4. CASE ~Links(t)
    BY <1>3, <1>4 DEF Add, files
  <1>5. CASE Links(t)
    <2>1. Add(r, t) = [files EXCEPT !.index.link = nested.head]
      BY <1>5 DEF Add, files
    <2>2. files.index \in Trees /\ DOMAIN files = {"made", "at", "tips", "upstream", "index", "work", "conflict", "stashes"}
      BY <1>3 DEF Repos
    <2>3. [files.index EXCEPT !.link = nested.head] \in Trees
      BY <2>2, <1>2 DEF Trees
    <2>4. Add(r, t) = [files EXCEPT !.index = [files.index EXCEPT !.link = nested.head]]
      BY <2>1
    <2>5. Add(r, t) \in Repos
      BY <2>3, <2>4, <1>3 DEF Repos
    <2>6. /\ Add(r, t).index = [files.index EXCEPT !.link = nested.head]
          /\ Add(r, t).conflict = files.conflict /\ SameBut(Add(r, t), files)
      BY <2>4, <2>2 DEF SameBut
    <2>7. DOMAIN files.index = {"f", "g", "link"}
      BY <2>2 DEF Trees
    <2> QED BY <2>5, <2>6, <2>7, <1>3, <1>5 DEF SameBut
  <1> QED BY <1>4, <1>5

\* git reset -- <path>: the index under the path is that of the last commit.
LEMMA ResetIs ==
    ASSUME NEW r \in Repos, NEW t \in Targets
    PROVE  /\ Reset(r, t) \in Repos /\ SameBut(Reset(r, t), r)
           /\ \A x \in {"f", "g"} :
                 /\ Reset(r, t).index[x] = IF x \in Held(t) THEN Tip(r)[x] ELSE r.index[x]
                 /\ Reset(r, t).conflict[x] = IF x \in Held(t) THEN <<>> ELSE r.conflict[x]
           /\ Reset(r, t).index.link = IF t \in {P, D} THEN Tip(r).link ELSE r.index.link
  <1>1. Held(t) \subseteq {"f", "g"}
    BY PathsDiffer DEF Held
  <1>2. Tip(r).f \in Contents /\ Tip(r).g \in Contents /\ Tip(r).link \in Nat
    BY TipIsTree DEF Trees
  <1>3. IsWithin(D, t) <=> t \in {P, D}
    BY Within
  <1> QED BY <1>1, <1>2, <1>3, TakeIs DEF Reset

\* git rm --cached <path>: the index has nothing under the path.
LEMMA RemoveCachedIs ==
    ASSUME NEW r \in Repos, NEW t \in Targets
    PROVE  /\ RemoveCached(r, t) \in Repos /\ SameBut(RemoveCached(r, t), r)
           /\ \A x \in {"f", "g"} :
                 /\ RemoveCached(r, t).index[x] = IF x \in Held(t) THEN Absent ELSE r.index[x]
                 /\ RemoveCached(r, t).conflict[x] = IF x \in Held(t) THEN <<>> ELSE r.conflict[x]
           /\ RemoveCached(r, t).index.link = IF t \in {P, D} THEN 0 ELSE r.index.link
  <1>1. Held(t) \subseteq {"f", "g"}
    BY PathsDiffer DEF Held
  <1>2. NoTree.f = Absent /\ NoTree.g = Absent /\ NoTree.link = 0 /\ Absent \in Contents
    BY ContentsAre DEF NoTree
  <1>3. IsWithin(D, t) <=> t \in {P, D}
    BY Within
  <1> QED BY <1>1, <1>2, <1>3, TakeIs DEF RemoveCached

\* The fields of a repository.
RepoFields == {"made", "at", "tips", "upstream", "index", "work", "conflict", "stashes"}

\* The fields of a repository, for the steps that change one of them.
LEMMA RepoShape ==
    ASSUME NEW r \in Repos
    PROVE  /\ DOMAIN r = RepoFields /\ r.at \in Branches /\ r.made \in BOOLEAN
           /\ r.tips \in [Branches -> Seq(Trees)] /\ DOMAIN r.index = {"f", "g", "link"}
           /\ r.upstream \in [Branches -> Branches \cup {NoBranch}]
           /\ r.index \in Trees /\ r.work \in Files /\ DOMAIN r.work = {"f", "g"}
           /\ \A x \in {"f", "g"} : r.index[x] \in Contents /\ r.work[x] \in Contents
           /\ r.conflict \in [{"f", "g"} -> {<<>>} \cup (Contents \X Contents)]
           /\ r.stashes \in Seq(Stashes)
  BY DEF Repos, RepoFields, Trees, Files

\* One field changed to what it may be.
LEMMA WithTips ==
    ASSUME NEW r \in Repos, NEW b \in Branches, NEW s \in Seq(Trees)
    PROVE  /\ [r EXCEPT !.tips[b] = s] \in Repos
           /\ [r EXCEPT !.tips[b] = s] = [r EXCEPT !.tips = [r.tips EXCEPT ![b] = s]]
           /\ [r EXCEPT !.tips[b] = s].tips = [r.tips EXCEPT ![b] = s]
  <1>1. [r EXCEPT !.tips[b] = s] = [r EXCEPT !.tips = [r.tips EXCEPT ![b] = s]]
    BY RepoShape
  <1>2. [r.tips EXCEPT ![b] = s] \in [Branches -> Seq(Trees)]
    BY RepoShape
  <1>3. [r EXCEPT !.tips = [r.tips EXCEPT ![b] = s]] \in Repos
    BY <1>2 DEF Repos
  <1> QED BY <1>1, <1>3, RepoShape DEF RepoFields

\* Files on disk that change leave a repository.
LEMMA WithWork ==
    ASSUME NEW r \in Repos, NEW w \in Files
    PROVE  [r EXCEPT !.work = w] \in Repos
  BY DEF Repos

\* Two contents are files on disk.
LEMMA FilesAre ==
    ASSUME NEW w, DOMAIN w = {"f", "g"}, w = [x \in {"f", "g"} |-> w[x]],
           w.f \in Contents, w.g \in Contents
    PROVE  w \in Files
  <1>1. w = [f |-> w.f, g |-> w.g]
    OBVIOUS
  <1> QED BY <1>1 DEF Files

\* git commit
LEMMA CommitIs ==
    ASSUME NEW r \in Repos
    PROVE  /\ Commit(r) \in Repos
           /\ Commit(r) = [r EXCEPT !.tips = Commit(r).tips]
           /\ Commit(r).tips[r.at] = Append(r.tips[r.at], r.index)
           /\ Front(Commit(r).tips[r.at]) = r.tips[r.at]
           /\ HasCommits(Commit(r)) /\ Tip(Commit(r)) = r.index
           /\ Len(Commit(r).tips[r.at]) = Len(r.tips[r.at]) + 1
  <1> DEFINE old == r.tips[r.at]  new == Append(r.tips[r.at], r.index)
  <1>1. old \in Seq(Trees) /\ r.index \in Trees /\ r.at \in Branches
    BY RepoShape
  <1>2. new \in Seq(Trees) /\ Len(new) = Len(old) + 1 /\ Len(old) \in Nat
        /\ new[Len(new)] = r.index /\ \A i \in 1..Len(old) : new[i] = old[i]
    BY <1>1
  <1>3. Front(new) = old
    <2>1. Front(new) = SubSeq(new, 1, Len(old))
      BY <1>2 DEF Front
    <2>2. SubSeq(new, 1, Len(old)) \in Seq(Trees) /\ Len(SubSeq(new, 1, Len(old))) = Len(old)
          /\ \A i \in 1..Len(old) : SubSeq(new, 1, Len(old))[i] = new[i]
      BY <1>2, SubSeqProperties
    <2> HIDE DEF new, old
    <2> QED BY <1>1, <1>2, <2>1, <2>2, SeqEqual DEF old
  <1>4. Commit(r) = [r EXCEPT !.tips[r.at] = new]
    BY DEF Commit
  <1> HIDE DEF new
  <1>5. /\ Commit(r) \in Repos /\ Commit(r) = [r EXCEPT !.tips = [r.tips EXCEPT ![r.at] = new]]
        /\ Commit(r).tips = [r.tips EXCEPT ![r.at] = new]
    BY <1>1, <1>2, <1>4, WithTips
  <1>6. Commit(r).tips[r.at] = new /\ Commit(r).at = r.at
    BY <1>1, <1>5, RepoShape DEF RepoFields
  <1>7. new # <<>>
    BY <1>2
  <1> QED BY <1>2, <1>3, <1>5, <1>6, <1>7 DEF HasCommits, Tip, Last, new

\* git checkout and git merge --ff-only
LEMMA SwitchIs ==
    ASSUME NEW r \in Repos, NEW tree \in Trees, CanSwitch(r, tree)
    PROVE  /\ Switch(r, tree) \in Repos
           /\ Switch(r, tree).at = r.at /\ Switch(r, tree).tips = r.tips
           /\ Switch(r, tree).stashes = r.stashes
           /\ \A x \in {"f", "g"} : Switch(r, tree).work[x] # r.work[x] =>
                 x \in Held(<<>>) /\ r.work[x] = Tip(r)[x]
  <1> DEFINE files == {x \in Held(<<>>) : tree[x] # Tip(r)[x]}
             names == files \cup (IF tree.link # Tip(r).link THEN {"link"} ELSE {})
             base == Take(r, tree, names)
             work == [x \in Names |-> IF x \in files THEN tree[x] ELSE r.work[x]]
  <1>1. files \subseteq {"f", "g"}
    BY PathsDiffer DEF Held
  <1>2. tree.f \in Contents /\ tree.g \in Contents /\ tree.link \in Nat
    BY DEF Trees
  <1>3. base \in Repos /\ SameBut(base, r)
    <2>1. \A x \in {"f", "g"} \cap names : tree[x] \in Contents
      BY <1>2
    <2> HIDE DEF names
    <2> QED BY <1>2, <2>1, TakeIs
  <1>4. work \in Files
    <2>1. r.work.f \in Contents /\ r.work.g \in Contents
      BY RepoShape
    <2>2. DOMAIN work = {"f", "g"} /\ work = [x \in {"f", "g"} |-> work[x]]
      BY PathsDiffer
    <2>3. work.f \in Contents /\ work.g \in Contents
      BY <2>1, <1>2, PathsDiffer
    <2> HIDE DEF work
    <2> QED BY <2>2, <2>3, FilesAre
  <1>5. Switch(r, tree) = [base EXCEPT !.work = work]
    <2>1. Switch(r, tree) = [base EXCEPT !.work = [x \in Names |-> IF x \in files THEN tree[x] ELSE @[x]]]
      BY DEF Switch
    <2>2. base.work = r.work
      BY <1>3 DEF SameBut
    <2> HIDE DEF base, files
    <2> QED BY <2>1, <2>2
  <1>6. \A x \in files : r.work[x] = Tip(r)[x]
    BY DEF CanSwitch
  <1>7. \A x \in {"f", "g"} : work[x] # r.work[x] => x \in files
    BY PathsDiffer
  <1>8. \A x \in files : x \in Held(<<>>)
    OBVIOUS
  <1> HIDE DEF base, work, files, names
  <1>9. DOMAIN base = RepoFields
    BY <1>3, RepoShape
  <1>10. [base EXCEPT !.work = work] \in Repos
    BY <1>3, <1>4, WithWork
  <1> QED BY <1>3, <1>5, <1>6, <1>7, <1>8, <1>9, <1>10 DEF SameBut, RepoFields

\* git stash push, apply and drop
LEMMA StashIs ==
    ASSUME NEW r \in Repos
    PROVE  /\ Stash(r) \in Repos
           /\ Stash(r).at = r.at /\ Stash(r).tips = r.tips /\ Stash(r).index.link = r.index.link
           /\ \A x \in {"f", "g"} :
                 /\ Stash(r).work[x] = IF x \in Held(<<>>) THEN Tip(r)[x] ELSE r.work[x]
                 /\ Stash(r).index[x] = IF x \in Held(<<>>) THEN Tip(r)[x] ELSE r.index[x]
           /\ Head(Stash(r).stashes).work = r.work
           /\ \E s \in ToSet(Stash(r).stashes) : s.work = r.work
  <1> DEFINE base == Take(r, Tip(r), Held(<<>>))
             work == [x \in Names |-> IF x \in Held(<<>>) THEN Tip(r)[x] ELSE r.work[x]]
             top == [base |-> Tip(r), work |-> r.work]
             all == <<top>> \o r.stashes
  <1>1. Held(<<>>) \subseteq {"f", "g"}
    BY PathsDiffer DEF Held
  <1>2. Tip(r).f \in Contents /\ Tip(r).g \in Contents /\ Tip(r) \in Trees
    BY TipIsTree DEF Trees
  <1>3. /\ base \in Repos /\ SameBut(base, r) /\ base.index.link = r.index.link
        /\ \A x \in {"f", "g"} : base.index[x] = IF x \in Held(<<>>) THEN Tip(r)[x] ELSE r.index[x]
    <2>1. \A x \in {"f", "g"} \cap Held(<<>>) : Tip(r)[x] \in Contents
      BY <1>2
    <2>2. "link" \notin Held(<<>>)
      BY <1>1
    <2> QED BY <2>1, <2>2, TakeIs
  <1>4. work \in Files
    <2>1. r.work.f \in Contents /\ r.work.g \in Contents
      BY RepoShape
    <2>2. DOMAIN work = {"f", "g"} /\ work = [x \in {"f", "g"} |-> work[x]]
      BY PathsDiffer
    <2>3. work.f \in Contents /\ work.g \in Contents
      BY <2>1, <1>2, PathsDiffer
    <2> HIDE DEF work
    <2> QED BY <2>2, <2>3, FilesAre
  <1>5. all \in Seq(Stashes) /\ Len(all) \in Nat /\ Len(all) >= 1 /\ all[1] = top
    <2>1. top \in Stashes
      BY <1>2, RepoShape DEF Stashes
    <2>2. r.stashes \in Seq(Stashes)
      BY RepoShape
    <2> HIDE DEF top
    <2>3. <<top>> \in Seq(Stashes) /\ Len(<<top>>) = 1 /\ <<top>>[1] = top
      BY <2>1
    <2> QED BY <2>2, <2>3, ConcatProperties, LenProperties
  <1>6. Head(all) = top /\ top \in ToSet(all) /\ top.work = r.work
    <2>1. 1 \in DOMAIN all
      BY <1>5
    <2>2. all[1] \in ToSet(all)
      BY <2>1 DEF ToSet
    <2>3. Head(all) = all[1]
      BY <1>5
    <2>4. all[1] = top
      BY <1>5
    <2>5. top.work = r.work
      OBVIOUS
    <2> HIDE DEF all, top
    <2> QED BY <2>2, <2>3, <2>4, <2>5
  <1>7. Stash(r) = [base EXCEPT !.work = work, !.stashes = all]
    <2>1. Stash(r) = [base EXCEPT !.work = [x \in Names |-> IF x \in Held(<<>>) THEN Tip(r)[x] ELSE @[x]],
                                  !.stashes = <<top>> \o @]
      BY DEF Stash
    <2>2. base.work = r.work /\ base.stashes = r.stashes
      BY <1>3 DEF SameBut
    <2> HIDE DEF base, top
    <2> QED BY <2>1, <2>2
  <1>8. work.f = (IF "f" \in Held(<<>>) THEN Tip(r).f ELSE r.work.f)
        /\ work.g = (IF "g" \in Held(<<>>) THEN Tip(r).g ELSE r.work.g)
    BY PathsDiffer
  <1> HIDE DEF base, work, top, all
  <1>9. DOMAIN base = RepoFields
    BY <1>3, RepoShape
  <1>10. [base EXCEPT !.work = work, !.stashes = all] \in Repos
    BY <1>3, <1>4, <1>5 DEF Repos
  <1>11. /\ Stash(r).at = r.at /\ Stash(r).tips = r.tips /\ Stash(r).index = base.index
         /\ Stash(r).work = work /\ Stash(r).stashes = all
    BY <1>3, <1>7, <1>9 DEF SameBut, RepoFields
  <1> QED BY <1>3, <1>6, <1>7, <1>8, <1>10, <1>11

\* A stash that applies changes files only that were as in the last commit.
LEMMA ApplyIs ==
    ASSUME NEW r \in Repos, NEW s \in Stashes, CanApply(r, s)
    PROVE  /\ Apply(r, s) \in Repos
           /\ Apply(r, s).at = r.at /\ Apply(r, s).tips = r.tips /\ Apply(r, s).index = r.index
           /\ \A x \in {"f", "g"} : Apply(r, s).work[x] # r.work[x] =>
                 x \in Held(<<>>) /\ r.work[x] = Tip(r)[x]
  <1> DEFINE work == [x \in Names |-> IF x \in Clashes(r, s) THEN Marked
                                      ELSE IF x \in Stashed(s) THEN s.work[x] ELSE r.work[x]]
             conflict == [x \in Names |-> IF x \in Clashes(r, s) THEN <<Tip(r)[x], s.work[x]>>
                                          ELSE r.conflict[x]]
  <1>1. s.work.f \in Contents /\ s.work.g \in Contents /\ Tip(r).f \in Contents /\ Tip(r).g \in Contents
    BY TipIsTree DEF Trees, Stashes, Files
  <1>2. work \in Files
    <2>1. r.work.f \in Contents /\ r.work.g \in Contents /\ Marked \in Contents
      BY RepoShape, ContentsAre
    <2>2. DOMAIN work = {"f", "g"} /\ work = [x \in {"f", "g"} |-> work[x]]
      BY PathsDiffer
    <2>3. work.f \in Contents /\ work.g \in Contents
      BY <2>1, <1>1, PathsDiffer
    <2> HIDE DEF work
    <2> QED BY <2>2, <2>3, FilesAre
  <1>3. conflict \in [{"f", "g"} -> {<<>>} \cup (Contents \X Contents)]
    <2>1. \A x \in {"f", "g"} : <<Tip(r)[x], s.work[x]>> \in Contents \X Contents
      BY <1>1
    <2> QED BY <2>1, PathsDiffer, RepoShape
  <1>4. Apply(r, s) = [r EXCEPT !.work = work, !.conflict = conflict]
    BY DEF Apply
  <1>5. \A x \in {"f", "g"} : work[x] # r.work[x] => x \in Stashed(s)
    BY PathsDiffer DEF Clashes
  <1>6. \A x \in Stashed(s) : x \in Held(<<>>) /\ r.work[x] = Tip(r)[x]
    BY DEF CanApply, Stashed
  <1> HIDE DEF work, conflict
  <1>7. [r EXCEPT !.work = work, !.conflict = conflict] \in Repos
    BY <1>2, <1>3 DEF Repos
  <1> QED BY <1>4, <1>5, <1>6, <1>7, RepoShape DEF RepoFields

\* A stash is dropped, and nothing else changes.
LEMMA DropIs ==
    ASSUME NEW r \in Repos, NEW n \in DOMAIN r.stashes
    PROVE  /\ [r EXCEPT !.stashes = RemoveAt(@, n)] \in Repos
           /\ r.stashes[n] \in Stashes
           /\ [r EXCEPT !.stashes = RemoveAt(@, n)].work = r.work
           /\ [r EXCEPT !.stashes = RemoveAt(@, n)].index = r.index
           /\ [r EXCEPT !.stashes = RemoveAt(@, n)].tips = r.tips
           /\ [r EXCEPT !.stashes = RemoveAt(@, n)].at = r.at
  <1>1. r.stashes \in Seq(Stashes) /\ n \in 1..Len(r.stashes) /\ Len(r.stashes) \in Nat
    BY RepoShape
  <1>2. SubSeq(r.stashes, 1, n - 1) \in Seq(Stashes) /\ SubSeq(r.stashes, n + 1, Len(r.stashes)) \in Seq(Stashes)
    BY <1>1, SubSeqProperties
  <1>3. RemoveAt(r.stashes, n) \in Seq(Stashes)
    BY <1>2, ConcatProperties DEF RemoveAt
  <1>4. r.stashes[n] \in Stashes
    BY <1>1, ElementOfSeq
  <1>5. [r EXCEPT !.stashes = RemoveAt(r.stashes, n)] \in Repos
    BY <1>3 DEF Repos
  <1> QED BY <1>4, <1>5, RepoShape DEF RepoFields

-----------------------------------------------------------------------------
(* What a request is, and how it keeps out of a repository in D.            *)

\* The fields of a call.
CallFields == {"op", "at", "target", "todo", "pick", "seen", "branch", "clean", "before",
               "stood", "loose"}

\* Some hunks of a diff, with its sides as they were decoded.
IsPatch(p) == p[1] \in Contents /\ p[2] \in Contents /\ p[3] \in SUBSET (0..9)
              /\ (0 \in p[3] => p[3] = {0})

\* What a request may be at, and with what.
CallTyped(c) ==
    /\ DOMAIN c = CallFields /\ {c.clean, c.stood, c.loose} \subseteq BOOLEAN
    /\ c.target \in Targets
    /\ Free(c.at) <=> c.op = "none"
    /\ c.op = "commit" => c.todo \in {<<>>, <<G>>}
    /\ c.op \in {"hunks", "reverse", "resolve"} => c.target = F
    /\ c.at = "remove" => c.op \in {"discard", "delete"}
    /\ c.at = "patch" => c.op \in {"hunks", "reverse"}
    /\ c.at = "added" => c.op \in {"commit", "initial"}
    /\ c.at = "patch" => IsPatch(c.todo)
    /\ c.op = "resolve" => c.seen \in Contents
    /\ c.op \in {"checkout", "create", "remove", "publish"} \/ c.at \in {"current", "upstream"} =>
          c.branch \in Branches

\* Where the search finds a repository in D, a request that has looked at its target
\* works outside of it.
WorksOutside(c, found, link) ==
    /\ c.stood => found
    /\ c.loose => found /\ link = 0
    /\ c.stood /\ c.op \in {"discard", "delete"} /\ c.at # "asked" => c.target = F
    /\ c.loose /\ c.op \in OnPaths /\ c.at # "asked" => c.target = F
    /\ c.loose /\ c.op = "initial" /\ c.at = "catalog" => c.branch \in {"nested", "worktree"}

Fits(c, found, link) == CallTyped(c) /\ WorksOutside(c, found, link)
\* The types, and what is known of every request.
GitTyped ==
    /\ repo \in Repos /\ nested \in Subs /\ remote \in Remotes
    /\ calls = [h \in Calls |-> calls[h]]
GitKnown == GitTyped /\ \A h \in Calls : Fits(calls[h], Found, repo.index.link)

\* The other requests are as they were, but that they know of a change.
OthersNotice(h) == \A k \in Calls \ {h} :
    calls'[k] = [calls[k] EXCEPT !.clean = @ /\ ~Notice, !.stood = @ /\ Found',
                                 !.loose = @ /\ Found' /\ repo'.index.link = 0]

\* A step of h that keeps out of the repository in D and loses nothing.
StepIsSafe(h) ==
    /\ GitTyped' /\ Fits(calls[h], Found, repo.index.link)'
    /\ ParentKeepsOut(h) /\ NothingLost(h) /\ OthersNotice(h)

\* The same of a step that leaves r of the repository.
LosesNothing(h, r) == \A x \in {"f", "g"} : r.work[x] # repo.work[x] =>
    \/ repo.work[x] = Absent \/ repo.work[x] \in Kept(r, x)
    \/ calls[h].op \in {"discard", "delete", "resolve"} /\ IsWithin(Tracks[x], calls[h].target)
StaysOut(h, r) ==
    /\ calls[h].stood /\ calls[h].op # "submodule" => r.work.g = repo.work.g
    /\ calls[h].loose /\ calls[h].op \notin {"checkout", "pull"} => r.index.link = 0

\* The requests that name a path.
LEMMA PathOps ==
    OnPaths = {"stage", "unstage", "commit", "hunks", "reverse", "resolve", "discard", "delete"}
  BY DEF OnPaths, Policy

\* A call after a change, field by field.
LEMMA MovedIs ==
    ASSUME NEW c, NEW change
    PROVE  /\ DOMAIN Moved(c, change) = DOMAIN c
           /\ \A f \in DOMAIN c :
                 Moved(c, change)[f] = IF f \in DOMAIN change THEN change[f] ELSE c[f]
  BY DEF Moved

\* A call is set, and the other calls learn of what changed in D.
LEMMA SetIs ==
    ASSUME NEW h \in Calls, NEW change, Set(h, change)
    PROVE  /\ calls' = [k \in Calls |-> calls'[k]]
           /\ calls'[h] = Moved(calls[h], change) /\ OthersNotice(h)
  <1> DEFINE noticed(k) == [calls[k] EXCEPT !.clean = @ /\ ~Notice, !.stood = @ /\ Found',
                                  !.loose = @ /\ Found' /\ repo'.index.link = 0]
  <1>1. calls' = [k \in Calls |-> IF k = h THEN Moved(calls[h], change) ELSE noticed(k)]
    BY Zenon DEF Set
  <1>2. \A k \in Calls \ {h} : calls'[k] = noticed(k)
    <2> HIDE DEF noticed
    <2> QED BY <1>1
  <1>3. calls'[h] = Moved(calls[h], change) /\ calls' = [k \in Calls |-> calls'[k]]
    <2> HIDE DEF noticed
    <2> QED BY <1>1
  <1> QED BY <1>2, <1>3 DEF OthersNotice

\* A request that is over fits anything.
LEMMA CalmFits ==
    ASSUME NEW c, NEW found, NEW link, NEW a \in {"idle", "served", "refused"}, DOMAIN c = CallFields
    PROVE  Fits(Moved(c, [Calm EXCEPT !.at = a]), found, link)
  <1> DEFINE n == Moved(c, [Calm EXCEPT !.at = a])
  <1>1. DOMAIN Calm = CallFields
    BY DEF Calm, CallFields
  <1>2. DOMAIN n = CallFields /\ \A f \in CallFields : n[f] = [Calm EXCEPT !.at = a][f]
    BY <1>1, MovedIs
  <1>3. /\ n.op = "none" /\ n.at = a /\ n.target = F /\ n.clean = TRUE /\ n.stood = FALSE
        /\ n.loose = FALSE
    BY <1>2, <1>1 DEF Calm, CallFields
  <1> HIDE DEF n
  <1>4. CallTyped(n)
    BY <1>2, <1>3 DEF CallTyped, Free, Targets
  <1>5. WorksOutside(n, found, link)
    BY <1>3 DEF WorksOutside
  <1> QED BY <1>4, <1>5 DEF Fits, n

\* What is known of a call, of the repository and of the remote.
LEMMA CallShape ==
    ASSUME GitKnown, NEW h \in Calls
    PROVE  /\ DOMAIN calls[h] = CallFields /\ Fits(calls[h], Found, repo.index.link)
           /\ CallTyped(calls[h]) /\ WorksOutside(calls[h], Found, repo.index.link)
           /\ repo \in Repos /\ nested \in Subs /\ remote \in Remotes
  BY DEF GitKnown, GitTyped, Fits, CallTyped

\* A step that changes the repository is safe when the change is: it loses
\* nothing, it stays out of D, and the call stays as it should be.
LEMMA ThenSafe ==
    ASSUME GitKnown, NEW h \in Calls, NEW r \in Repos, NEW change, Then(h, r, change),
           LosesNothing(h, r), StaysOut(h, r),
           Fits(Moved(calls[h], change), Found, r.index.link)
    PROVE  StepIsSafe(h)
  <1>1. repo' = r /\ nested' = nested /\ remote' = remote /\ Set(h, change)
    BY DEF Then
  <1>2. /\ calls' = [k \in Calls |-> calls'[k]]
        /\ calls'[h] = Moved(calls[h], change) /\ OthersNotice(h)
    BY <1>1, SetIs
  <1>3. GitTyped'
    BY <1>1, <1>2, CallShape DEF GitTyped
  <1>4. ParentKeepsOut(h)
    BY <1>1 DEF ParentKeepsOut, StaysOut
  <1>5. NothingLost(h)
    BY <1>1, PathsDiffer DEF NothingLost, LosesNothing
  <1>6. Found' = Found
    BY <1>1 DEF Found
  <1> QED BY <1>1, <1>2, <1>3, <1>4, <1>5, <1>6 DEF StepIsSafe

\* A step that only reads is safe when the call stays as it should be.
LEMMA LookSafe ==
    ASSUME GitKnown, NEW h \in Calls, NEW change, Look(h, change),
           Fits(Moved(calls[h], change), Found, repo.index.link)
    PROVE  StepIsSafe(h)
  <1>1. LosesNothing(h, repo)
    BY DEF LosesNothing
  <1>2. StaysOut(h, repo)
    BY CallShape DEF StaysOut, WorksOutside
  <1> QED BY <1>1, <1>2, ThenSafe, CallShape DEF Look

\* A step that answers is safe when its change is.
LEMMA EndSafe ==
    ASSUME GitKnown, NEW h \in Calls, NEW r \in Repos, NEW a \in {"served", "refused"},
           Then(h, r, [Calm EXCEPT !.at = a]), LosesNothing(h, r), StaysOut(h, r)
    PROVE  StepIsSafe(h)
  BY CallShape, CalmFits, ThenSafe

\* A refusal, and an answer that changes nothing, are safe.
LEMMA RefuseSafe ==
    ASSUME GitKnown, NEW h \in Calls, Refuse(h) \/ End(h, repo)
    PROVE  StepIsSafe(h)
  <1>1. PICK a \in {"served", "refused"} : Look(h, [Calm EXCEPT !.at = a])
    BY DEF Refuse, End, Look
  <1> QED BY <1>1, CallShape, CalmFits, LookSafe

\* A step that leaves the files alone.
LEMMA SameFilesSafe ==
    ASSUME GitKnown, NEW h \in Calls, NEW r \in Repos, r.work = repo.work,
           calls[h].loose /\ calls[h].op \notin {"checkout", "pull"} =>
              r.index.link \in {repo.index.link, 0}
    PROVE  LosesNothing(h, r) /\ StaysOut(h, r)
  BY CallShape DEF LosesNothing, StaysOut, WorksOutside

\* A request goes on to its next point.
LEMMA GoesOn ==
    ASSUME GitKnown, NEW h \in Calls, NEW change, NEW link,
           DOMAIN change \subseteq {"at", "branch", "todo"}, "at" \in DOMAIN change,
           calls[h].op # "none", ~Free(change.at), change.at # "asked",
           calls[h].op = "commit" => "todo" \notin DOMAIN change,
           calls[h].op \in {"checkout", "create", "remove", "publish"} => "branch" \notin DOMAIN change,
           change.at \in {"current", "upstream"} => \/ calls[h].op = "publish"
                                                    \/ "branch" \in DOMAIN change /\ change.branch \in Branches,
           change.at = "remove" => calls[h].op \in {"discard", "delete"},
           change.at = "patch" => /\ calls[h].op \in {"hunks", "reverse"}
                                  /\ "todo" \in DOMAIN change /\ IsPatch(change.todo),
           change.at = "added" => calls[h].op \in {"commit", "initial"},
           calls[h].at = "asked" => /\ calls[h].stood /\ calls[h].op \in {"discard", "delete"} =>
                                          calls[h].target = F
                                    /\ calls[h].loose /\ calls[h].op \in OnPaths => calls[h].target = F,
           calls[h].op = "initial" => change.at # "catalog",
           calls[h].loose => link = 0
    PROVE  Fits(Moved(calls[h], change), Found, link)
  <1> DEFINE n == Moved(calls[h], change)
  <1>1. /\ DOMAIN n = CallFields /\ n.op = calls[h].op /\ n.at = change.at
        /\ n.target = calls[h].target /\ n.clean = calls[h].clean
        /\ n.stood = calls[h].stood /\ n.loose = calls[h].loose
        /\ "todo" \notin DOMAIN change => n.todo = calls[h].todo
        /\ "todo" \in DOMAIN change => n.todo = change.todo
        /\ n.seen = calls[h].seen
        /\ n.branch = IF "branch" \in DOMAIN change THEN change.branch ELSE calls[h].branch
    <2>1. DOMAIN calls[h] = CallFields
      BY CallShape
    <2>2. DOMAIN n = CallFields
      BY <2>1, MovedIs
    <2>3. \A f \in CallFields : n[f] = IF f \in DOMAIN change THEN change[f] ELSE calls[h][f]
      BY <2>1, MovedIs
    <2> HIDE DEF n
    <2>4. /\ n.op = calls[h].op /\ n.target = calls[h].target /\ n.clean = calls[h].clean
          /\ n.stood = calls[h].stood /\ n.loose = calls[h].loose /\ n.seen = calls[h].seen
      BY <2>3 DEF CallFields
    <2>5. /\ n.at = change.at /\ ("todo" \notin DOMAIN change => n.todo = calls[h].todo)
          /\ ("todo" \in DOMAIN change => n.todo = change.todo)
          /\ n.branch = IF "branch" \in DOMAIN change THEN change.branch ELSE calls[h].branch
      BY <2>3 DEF CallFields
    <2> QED BY <2>2, <2>4, <2>5
  <1>2. CallTyped(calls[h]) /\ WorksOutside(calls[h], Found, repo.index.link)
    BY CallShape
  <1> HIDE DEF n
  <1>3. CallTyped(n)
    BY <1>1, <1>2 DEF CallTyped
  <1>4. WorksOutside(n, Found, link)
    BY <1>1, <1>2 DEF WorksOutside
  <1> QED BY <1>3, <1>4 DEF Fits, n

\* A call under way is of a request, on one of the four targets.
LEMMA StandsAt ==
    ASSUME GitKnown, NEW h \in Calls, ~Free(calls[h].at)
    PROVE  calls[h].op # "none" /\ calls[h].target \in Targets
  BY CallShape DEF CallTyped

\* resolve_git_file_target keeps what would change another repository away.
LEMMA ResolveSafe ==
    ASSUME GitKnown, NEW h \in Calls, Resolve(h)
    PROVE  StepIsSafe(h)
  <1>1. CASE Refuse(h)
    BY <1>1, RefuseSafe
  <1>2. CASE Look(h, [at |-> "resolved"]) /\ Allowed(calls[h].target, Policy[calls[h].op])
    <2>1. calls[h].op \in OnPaths /\ calls[h].at = "asked" /\ calls[h].target \in Targets
      BY CallShape DEF Resolve, CallTyped
    <2>2. Allowed(calls[h].target, Policy[calls[h].op])
      BY <1>2
    <2>3. Found => Kind \in {"worktree", "submodule", "nested"}
      BY CallShape DEF Kind, Found, Subs
    <2>4. Found /\ repo.index.link = 0 => Kind \in {"worktree", "nested"}
      BY CallShape DEF Kind, Found, Subs
    <2>5. calls[h].stood /\ calls[h].op \in {"discard", "delete"} => calls[h].target = F
      <3> SUFFICES ASSUME calls[h].stood, calls[h].op \in {"discard", "delete"}
                   PROVE  calls[h].target = F
        OBVIOUS
      <3>1. Policy[calls[h].op] = "discard"
        BY DEF Policy
      <3>2. Found
        BY CallShape DEF WorksOutside
      <3> QED BY <2>1, <2>2, <2>3, <3>1, <3>2, Within DEF Allowed
    <2>6. calls[h].loose => calls[h].target = F
      <3> SUFFICES ASSUME calls[h].loose PROVE calls[h].target = F
        OBVIOUS
      <3>1. Found /\ repo.index.link = 0
        BY CallShape DEF WorksOutside
      <3> QED BY <2>1, <2>2, <2>4, <3>1, Within DEF Allowed
    <2>7. /\ Fits(Moved(calls[h], [at |-> "resolved"]), Found, repo.index.link)
      BY <2>1, <2>5, <2>6, GoesOn, CallShape, PathOps DEF Free, WorksOutside
    <2> QED BY <1>2, <2>7, LookSafe
  <1> QED BY <1>1, <1>2 DEF Resolve

\* git add -A -- <path> of a request on a path is safe at every target.
LEMMA AddSafe ==
    ASSUME GitKnown, NEW h \in Calls, calls[h].op \in OnPaths, calls[h].at # "asked",
           NEW t \in Targets, t = calls[h].target
    PROVE  /\ Add(repo, t) \in Repos /\ LosesNothing(h, Add(repo, t)) /\ StaysOut(h, Add(repo, t))
           /\ calls[h].loose => Add(repo, t).index.link = 0
  <1>1. Add(repo, t) \in Repos /\ Add(repo, t).work = repo.work
    BY AddIs, CallShape DEF SameBut
  <1>2. calls[h].loose => Add(repo, t).index.link = 0
    <2> SUFFICES ASSUME calls[h].loose PROVE Add(repo, t).index.link = 0
      OBVIOUS
    <2>1. t = F /\ repo.index.link = 0
      BY CallShape DEF WorksOutside
    <2>2. ~Links(t)
      BY <2>1, HeldIs, PathsDiffer DEF Targets
    <2> QED BY <2>1, <2>2, AddIs, CallShape
  <1> QED BY <1>1, <1>2, SameFilesSafe

\* Staging a path is safe.
LEMMA StageSafe ==
    ASSUME GitKnown, NEW h \in Calls, Stage(h)
    PROVE  StepIsSafe(h)
  <1>1. CASE Refuse(h)
    BY <1>1, RefuseSafe
  <1>2. CASE End(h, Add(repo, calls[h].target))
    <2>1. calls[h].op \in OnPaths /\ calls[h].at # "asked" /\ calls[h].target \in Targets
      BY CallShape, PathOps DEF Stage, Stands, CallTyped
    <2> QED BY <1>2, <2>1, AddSafe, EndSafe DEF End
  <1> QED BY <1>1, <1>2 DEF Stage

\* Asking whether the branch has commits is safe.
LEMMA LookForCommitsSafe ==
    ASSUME GitKnown, NEW h \in Calls, LookForCommits(h)
    PROVE  StepIsSafe(h)
  <1>1. CASE Refuse(h)
    BY <1>1, RefuseSafe
  <1>2. ASSUME NEW a \in {"born", "unborn"}, Look(h, [at |-> a]) PROVE StepIsSafe(h)
    <2>1. /\ calls[h].op \in {"unstage", "initial", "revert"}
          /\ calls[h].at = "asked" => calls[h].op \in {"initial", "revert"}
      BY DEF LookForCommits, Stands
    <2>2. Fits(Moved(calls[h], [at |-> a]), Found, repo.index.link)
      BY <2>1, GoesOn, CallShape, PathOps DEF Free, WorksOutside
    <2> QED BY <1>2, <2>2, LookSafe
  <1>3. CASE calls[h].op = "unstage"
    <2>1. Look(h, [at |-> IF HasCommits(repo) THEN "born" ELSE "unborn"])
      BY <1>3 DEF LookForCommits
    <2> QED BY <1>2, <2>1
  <1>4. CASE calls[h].op = "initial"
    <2>1. Refuse(h) \/ Look(h, [at |-> "unborn"])
      BY <1>4 DEF LookForCommits
    <2> QED BY <1>1, <1>2, <2>1
  <1>5. CASE calls[h].op = "revert"
    <2>1. Refuse(h) \/ Look(h, [at |-> "born"])
      BY <1>5 DEF LookForCommits
    <2> QED BY <1>1, <1>2, <2>1
  <1> QED BY <1>3, <1>4, <1>5 DEF LookForCommits, Stands

\* Unstaging, with and without a commit, is safe.
LEMMA UnstageSafe ==
    ASSUME GitKnown, NEW h \in Calls, Unstage(h)
    PROVE  StepIsSafe(h)
  <1> DEFINE t == calls[h].target
  <1>1. /\ calls[h].op = "unstage" /\ calls[h].at # "asked" /\ t \in Targets
        /\ calls[h].loose => t = F
    BY CallShape, PathOps DEF Unstage, Stands, CallTyped, WorksOutside
  <1>2. CASE Refuse(h)
    BY <1>2, RefuseSafe
  <1>3. CASE End(h, Reset(repo, t))
    <2>1. /\ Reset(repo, t) \in Repos /\ Reset(repo, t).work = repo.work
          /\ calls[h].loose => Reset(repo, t).index.link = repo.index.link
      BY <1>1, ResetIs, CallShape, PathsDiffer DEF SameBut
    <2> QED BY <1>3, <2>1, SameFilesSafe, EndSafe DEF End
  <1>4. CASE End(h, RemoveCached(repo, t))
    <2>1. RemoveCached(repo, t) \in Repos /\ RemoveCached(repo, t).work = repo.work
          /\ RemoveCached(repo, t).index.link \in {repo.index.link, 0}
      BY <1>1, RemoveCachedIs, CallShape DEF SameBut
    <2> QED BY <1>4, <2>1, SameFilesSafe, EndSafe DEF End
  <1> QED BY <1>2, <1>3, <1>4 DEF Unstage

\* A content decoded is a content without the lines that decoding changes.
LEMMA DecodedIs ==
    ASSUME NEW c \in Contents
    PROVE  /\ Decoded(c) \in Contents /\ Decoded(c) \cap Lossy = {}
           /\ Decoded(Decoded(c)) = Decoded(c)
           /\ c = Absent => Decoded(c) = Absent
           /\ c # Absent => Decoded(c) \in SUBSET (1..18)
  <1>1. Lossy \subseteq 1..8
    BY GitAssumption
  <1>2. \A x \in Lossy : Left(x) \in 10..17 /\ Left(x) \notin Lossy
    BY <1>1 DEF Left
  <1>3. \A y \in Decoded(c) : y \notin Lossy
    BY <1>2 DEF Decoded
  <1>4. Decoded(Decoded(c)) = Decoded(c)
    BY <1>3 DEF Decoded
  <1>5. c = Absent => Decoded(c) = Absent
    BY <1>1 DEF Decoded, Absent
  <1>6. c # Absent => Decoded(c) \in SUBSET (1..18)
    BY <1>1, <1>2 DEF Decoded, Contents
  <1> QED BY <1>3, <1>4, <1>5, <1>6 DEF Contents

\* A diff is of a file that comes or goes, or of places in it.
LEMMA DiffIs ==
    ASSUME NEW a, NEW b
    PROVE  /\ Diff(a, b) = {0} \/ Diff(a, b) \subseteq 1..9
           /\ Diff(a, b) = {0} => Absent \in {a, b} /\ a # b
           /\ Absent \in {a, b} => Diff(a, b) \subseteq {0}
  BY DEF Diff

\* Reading the diff that a patch is made of is safe.
LEMMA ReadDiffSafe ==
    ASSUME GitKnown, NEW h \in Calls, ReadDiff(h)
    PROVE  StepIsSafe(h)
  <1>1. CASE Refuse(h)
    BY <1>1, RefuseSafe
  <1>2. ASSUME NEW todo, IsPatch(todo), Look(h, [at |-> "patch", todo |-> todo])
        PROVE  StepIsSafe(h)
    <2>1. calls[h].op \in {"hunks", "reverse"} /\ calls[h].at = "resolved"
      BY DEF ReadDiff
    <2>2. Fits(Moved(calls[h], [at |-> "patch", todo |-> todo]), Found, repo.index.link)
      BY <1>2, <2>1, GoesOn, CallShape DEF Free, WorksOutside
    <2> QED BY <1>2, <2>2, LookSafe
  <1> DEFINE sides == Sides(repo, calls[h].op)  shown == Diff(sides[1], sides[2])
             some == {x \in shown : Place(shown, x) \in calls[h].pick}
             todo == <<Decoded(sides[1]), Decoded(sides[2]), some>>
  <1>3. sides[1] \in Contents /\ sides[2] \in Contents
    BY CallShape, RepoShape, TipIsTree DEF Sides, Trees, Files
  <1>4. IsPatch(todo)
    <2>1. Decoded(sides[1]) \in Contents /\ Decoded(sides[2]) \in Contents
      BY <1>3, DecodedIs
    <2>2. shown = {0} \/ shown \subseteq 1..9
      BY <1>3, DiffIs
    <2> HIDE DEF shown, sides
    <2>3. some \in SUBSET (0..9) /\ (0 \in some => some = {0})
      BY <2>2
    <2> HIDE DEF some
    <2> QED BY <2>1, <2>3 DEF IsPatch
  <1>5. Refuse(h) \/ Look(h, [at |-> "patch", todo |-> todo])
    BY Zenon DEF ReadDiff
  <1> HIDE DEF todo
  <1> QED BY <1>1, <1>2, <1>4, <1>5

\* Part of a patch taken is a content again.
LEMMA FlipIs ==
    ASSUME NEW c \in Contents, NEW new \in Contents, NEW hunks \in SUBSET (0..9),
           0 \in hunks => hunks = {0}, hunks # {0} => c # Absent
    PROVE  Flip(c, hunks, new) \in Contents
  <1>1. CASE hunks = {0}
    BY <1>1 DEF Flip
  <1>2. CASE hunks # {0}
    <2>1. LinesAt(hunks) \subseteq 1..18
      BY <1>2 DEF LinesAt, Lines, Left
    <2>2. c \in SUBSET (1..18)
      BY <1>2 DEF Contents
    <2> QED BY <1>2, <2>1, <2>2 DEF Flip, Contents
  <1> QED BY <1>1, <1>2

\* An index entry of F that changes leaves a repository.
LEMMA WithIndex ==
    ASSUME NEW r \in Repos, NEW c \in Contents
    PROVE  /\ [r EXCEPT !.index.f = c] \in Repos
           /\ [r EXCEPT !.index.f = c] = [r EXCEPT !.index = [r.index EXCEPT !.f = c]]
           /\ [r EXCEPT !.index.f = c].index = [r.index EXCEPT !.f = c]
           /\ [r EXCEPT !.index.f = c].work = r.work
           /\ [r EXCEPT !.index.f = c].index.link = r.index.link
  <1>1. [r EXCEPT !.index.f = c] = [r EXCEPT !.index = [r.index EXCEPT !.f = c]]
    BY RepoShape
  <1>2. [r.index EXCEPT !.f = c] \in Trees /\ [r.index EXCEPT !.f = c].link = r.index.link
    BY RepoShape DEF Trees
  <1>3. [r EXCEPT !.index = [r.index EXCEPT !.f = c]] \in Repos
    BY <1>2 DEF Repos
  <1> QED BY <1>1, <1>2, <1>3, RepoShape DEF RepoFields

\* git apply --cached of the patch is safe, in both directions.
LEMMA ApplyHunksSafe ==
    ASSUME GitKnown, NEW h \in Calls, ApplyHunks(h)
    PROVE  StepIsSafe(h)
  <1> DEFINE patch == calls[h].todo
             old == IF calls[h].op = "hunks" THEN patch[1] ELSE patch[2]
             new == IF calls[h].op = "hunks" THEN patch[2] ELSE patch[1]
             c == Flip(repo.index.f, patch[3], new)
  <1>1. CASE Refuse(h)
    BY <1>1, RefuseSafe
  <1>2. CASE ~Refuse(h)
    <2>1. /\ End(h, [repo EXCEPT !.index.f = Flip(@, patch[3], new)])
          /\ patch[3] # {0} => repo.index.f # Absent
      BY <1>2 DEF ApplyHunks, PatchFits
    <2>2. /\ patch[1] \in Contents /\ patch[2] \in Contents
          /\ patch[3] \in SUBSET (0..9) /\ (0 \in patch[3] => patch[3] = {0})
      BY CallShape DEF ApplyHunks, CallTyped, IsPatch
    <2>3. repo.index.f \in Contents
      BY CallShape, RepoShape
    <2> HIDE DEF patch
    <2>4. c \in Contents
      BY <2>1, <2>2, <2>3, FlipIs
    <2> HIDE DEF old, new
    <2>5. [repo EXCEPT !.index.f = Flip(@, patch[3], new)] = [repo EXCEPT !.index.f = c]
      OBVIOUS
    <2> HIDE DEF c
    <2>6. /\ [repo EXCEPT !.index.f = c] \in Repos /\ [repo EXCEPT !.index.f = c].work = repo.work
          /\ [repo EXCEPT !.index.f = c].index.link = repo.index.link
      BY <2>4, WithIndex, CallShape
    <2> DEFINE r == [repo EXCEPT !.index.f = c]
    <2>7. End(h, r)
      BY <2>1, <2>5
    <2>8. r \in Repos /\ r.work = repo.work /\ r.index.link = repo.index.link
      BY <2>6
    <2> HIDE DEF r
    <2> QED BY <2>7, <2>8, SameFilesSafe, EndSafe DEF End
  <1> QED BY <1>1, <1>2

\* Asking whether the path is in conflict is safe.
LEMMA CheckConflictSafe ==
    ASSUME GitKnown, NEW h \in Calls, CheckConflict(h)
    PROVE  StepIsSafe(h)
  <1>1. CASE Refuse(h)
    BY <1>1, RefuseSafe
  <1>2. CASE Look(h, [at |-> "conflict"])
    <2>1. calls[h].op = "resolve" /\ calls[h].at = "resolved"
      BY DEF CheckConflict, Stands
    <2>2. Fits(Moved(calls[h], [at |-> "conflict"]), Found, repo.index.link)
      BY <2>1, GoesOn, CallShape DEF Free, WorksOutside
    <2> QED BY <1>2, <2>2, LookSafe
  <1> QED BY <1>1, <1>2 DEF CheckConflict

\* The content that a resolution writes.
Chosen(c, r) ==
    IF c.branch = "manual" THEN c.seen
    ELSE IF ~Conflicted(r, "f") THEN r.index.f
    ELSE r.conflict.f[IF c.branch = "ours" THEN 1 ELSE 2]

\* The resolution is a content, and writing it leaves a repository.
LEMMA ChosenIs ==
    ASSUME GitKnown, NEW h \in Calls, calls[h].op = "resolve"
    PROVE  /\ Chosen(calls[h], repo) \in Contents /\ calls[h].target = F
           /\ [repo EXCEPT !.work.f = Chosen(calls[h], repo)] \in Repos
           /\ [repo EXCEPT !.work.f = Chosen(calls[h], repo)].work =
                 [repo.work EXCEPT !.f = Chosen(calls[h], repo)]
           /\ [repo EXCEPT !.work.f = Chosen(calls[h], repo)] =
                 [repo EXCEPT !.work = [repo.work EXCEPT !.f = Chosen(calls[h], repo)]]
           /\ DOMAIN repo.work = {"f", "g"} /\ DOMAIN repo = RepoFields
  <1> DEFINE c == Chosen(calls[h], repo)
  <1>1. calls[h].seen \in Contents /\ calls[h].target = F
    BY CallShape DEF CallTyped
  <1>2. Conflicted(repo, "f") => repo.conflict.f[1] \in Contents /\ repo.conflict.f[2] \in Contents
    BY CallShape, RepoShape DEF Conflicted
  <1>3. repo.index.f \in Contents
    BY CallShape, RepoShape
  <1>4. c \in Contents
    BY <1>1, <1>2, <1>3 DEF Chosen
  <1> HIDE DEF c
  <1>5. [repo.work EXCEPT !.f = c] \in Files
    BY <1>4, CallShape, RepoShape DEF Files
  <1>6. [repo EXCEPT !.work.f = c] = [repo EXCEPT !.work = [repo.work EXCEPT !.f = c]]
    BY CallShape, RepoShape
  <1>7. [repo EXCEPT !.work = [repo.work EXCEPT !.f = c]] \in Repos
    BY <1>5, WithWork, CallShape
  <1>8. [repo EXCEPT !.work = [repo.work EXCEPT !.f = c]].work = [repo.work EXCEPT !.f = c]
    BY CallShape, RepoShape DEF RepoFields
  <1> QED BY <1>1, <1>4, <1>6, <1>7, <1>8, CallShape, RepoShape DEF c

\* Writing a resolution over the markers is safe: it was asked for.
LEMMA WriteResolutionSafe ==
    ASSUME GitKnown, NEW h \in Calls, WriteResolution(h)
    PROVE  StepIsSafe(h)
  <1> DEFINE r == [repo EXCEPT !.work.f = Chosen(calls[h], repo)]
  <1>1. calls[h].op = "resolve" /\ calls[h].at = "conflict" /\ calls[h].target = F
    BY ChosenIs DEF WriteResolution, Stands
  <1>2. End(h, r) \/ Then(h, r, [at |-> "written"])
    BY DEF WriteResolution, Chosen
  <1>3. /\ r \in Repos /\ r.work = [repo.work EXCEPT !.f = Chosen(calls[h], repo)]
        /\ r.index = repo.index /\ r.work.g = repo.work.g
    BY <1>1, ChosenIs DEF RepoFields
  <1> HIDE DEF r
  <1>4. LosesNothing(h, r)
    BY <1>1, <1>3, Within, PathsDiffer DEF LosesNothing, Targets
  <1>5. StaysOut(h, r)
    BY <1>3, CallShape DEF StaysOut, WorksOutside
  <1>6. Fits(Moved(calls[h], [at |-> "written"]), Found, r.index.link)
    BY <1>1, <1>3, GoesOn, CallShape DEF Free, WorksOutside
  <1> QED BY <1>2, <1>3, <1>4, <1>5, <1>6, ThenSafe, EndSafe DEF End

\* Staging the resolution is safe.
LEMMA StageResolutionSafe ==
    ASSUME GitKnown, NEW h \in Calls, StageResolution(h)
    PROVE  StepIsSafe(h)
  <1>1. /\ calls[h].op = "resolve" /\ calls[h].at = "written" /\ calls[h].target = F
        /\ F \in Targets /\ calls[h].op \in OnPaths
    BY CallShape, PathOps DEF StageResolution, Stands, CallTyped, Targets
  <1>2. End(h, Add(repo, F))
    BY DEF StageResolution
  <1> QED BY <1>1, <1>2, AddSafe, EndSafe DEF End

\* Reading the status that a discard or removal goes by is safe.
LEMMA ReadStatusSafe ==
    ASSUME GitKnown, NEW h \in Calls, ReadStatus(h)
    PROVE  StepIsSafe(h)
  <1>1. CASE Refuse(h)
    BY <1>1, RefuseSafe
  <1>2. CASE calls[h].op = "discard" /\ calls[h].at = "resolved" /\ ~Refuse(h)
    <2> DEFINE a == IF Tracked(repo, calls[h].target) # {} THEN "indexed" ELSE "remove"
               b == IF Tracked(repo, calls[h].target) # {} /\ HasCommits(repo) THEN "restore" ELSE NoBranch
    <2>1. Look(h, [at |-> a, branch |-> b])
      BY <1>2 DEF ReadStatus, Stands
    <2>2. a \in {"indexed", "remove"}
      OBVIOUS
    <2> HIDE DEF a, b
    <2>3. Fits(Moved(calls[h], [at |-> a, branch |-> b]), Found, repo.index.link)
      BY <1>2, <2>2, GoesOn, CallShape DEF Free, WorksOutside
    <2> QED BY <2>1, <2>3, LookSafe
  <1>3. CASE Look(h, [at |-> "remove"]) /\ calls[h].op = "delete" /\ calls[h].at = "resolved"
    <2>1. Fits(Moved(calls[h], [at |-> "remove"]), Found, repo.index.link)
      BY <1>3, GoesOn, CallShape DEF Free, WorksOutside
    <2> QED BY <1>3, <2>1, LookSafe
  <1> QED BY <1>1, <1>2, <1>3 DEF ReadStatus, Stands

\* Taking a path out of the index is safe.
LEMMA UnindexSafe ==
    ASSUME GitKnown, NEW h \in Calls, Unindex(h)
    PROVE  StepIsSafe(h)
  <1> DEFINE t == calls[h].target
             r == IF calls[h].branch # "restore" THEN RemoveCached(repo, t)
                  ELSE IF HasCommits(repo) THEN Reset(repo, t) ELSE repo
  <1>1. /\ calls[h].op = "discard" /\ calls[h].at = "indexed" /\ t \in Targets
        /\ calls[h].loose => t = F
    BY CallShape, PathOps DEF Unindex, Stands, CallTyped, WorksOutside
  <1>2. Then(h, r, [at |-> "remove"])
    BY DEF Unindex
  <1>3. /\ r \in Repos /\ r.work = repo.work
        /\ calls[h].loose => r.index.link = repo.index.link
    <2>1. /\ Reset(repo, t) \in Repos /\ Reset(repo, t).work = repo.work
          /\ calls[h].loose => Reset(repo, t).index.link = repo.index.link
      BY <1>1, ResetIs, CallShape, PathsDiffer DEF SameBut
    <2>2. /\ RemoveCached(repo, t) \in Repos /\ RemoveCached(repo, t).work = repo.work
          /\ calls[h].loose => RemoveCached(repo, t).index.link = repo.index.link
      BY <1>1, RemoveCachedIs, CallShape, PathsDiffer DEF SameBut
    <2> QED BY <2>1, <2>2, CallShape
  <1> HIDE DEF r
  <1>4. Fits(Moved(calls[h], [at |-> "remove"]), Found, r.index.link)
    BY <1>1, <1>3, GoesOn, CallShape DEF Free, WorksOutside
  <1> QED BY <1>2, <1>3, <1>4, SameFilesSafe, ThenSafe

\* rm of the path: what stands in D goes with it only when no repository stood.
LEMMA RemovePathSafe ==
    ASSUME GitKnown, NEW h \in Calls, RemovePath(h)
    PROVE  StepIsSafe(h)
  <1> DEFINE t == calls[h].target
             work == [x \in Names |-> IF IsWithin(Tracks[x], t) THEN Absent ELSE repo.work[x]]
             change == IF calls[h].branch = "restore" THEN [at |-> "restore"]
                       ELSE [Calm EXCEPT !.at = "served"]
  <1>1. /\ calls[h].op \in {"discard", "delete"} /\ calls[h].at = "remove" /\ t \in Targets
        /\ calls[h].loose \/ calls[h].stood => t = F
    BY CallShape, PathOps DEF RemovePath, CallTyped, WorksOutside
  <1>2. /\ repo' = [repo EXCEPT !.work = work] /\ remote' = remote /\ Set(h, change)
        /\ nested' = IF IsWithin(D, t) THEN [nested EXCEPT !.there = FALSE, !.linked = FALSE, !.head = 0]
                     ELSE nested
    BY DEF RemovePath
  <1>3. work \in Files
    <2>1. repo.work.f \in Contents /\ repo.work.g \in Contents /\ Absent \in Contents
      BY CallShape, RepoShape, ContentsAre
    <2>2. DOMAIN work = {"f", "g"} /\ work = [x \in {"f", "g"} |-> work[x]]
      BY PathsDiffer
    <2>3. work.f \in Contents /\ work.g \in Contents
      BY <2>1, PathsDiffer
    <2> HIDE DEF work
    <2> QED BY <2>2, <2>3, FilesAre
  <1>4. \A x \in {"f", "g"} : work[x] # repo.work[x] => IsWithin(Tracks[x], t)
    BY PathsDiffer
  <1>5. t = F => work.g = repo.work.g /\ nested' = nested
    BY <1>1, <1>2, Within, PathsDiffer
  <1> HIDE DEF work
  <1>6. repo' \in Repos /\ repo'.work = work /\ repo'.index = repo.index
    BY <1>2, <1>3, WithWork, CallShape, RepoShape DEF RepoFields
  <1>7. nested' \in Subs
    BY <1>2, CallShape DEF Subs
  <1>8. /\ calls' = [k \in Calls |-> calls'[k]]
        /\ calls'[h] = Moved(calls[h], change) /\ OthersNotice(h)
    BY <1>2, SetIs
  <1>13. t = F => Found' = Found
    BY <1>5 DEF Found
  <1>9. Fits(Moved(calls[h], change), Found', repo'.index.link)
    <2>1. CASE calls[h].branch = "restore"
      <3>1. Fits(Moved(calls[h], [at |-> "restore"]), Found, repo.index.link)
        BY <1>1, GoesOn, CallShape DEF Free, WorksOutside
      <3> DEFINE n == Moved(calls[h], [at |-> "restore"])
      <3>2. n.stood = calls[h].stood /\ n.loose = calls[h].loose
        BY MovedIs, CallShape DEF CallFields
      <3> HIDE DEF n
      <3>3. Fits(n, Found', repo.index.link)
        BY <1>1, <1>13, <3>1, <3>2 DEF Fits, WorksOutside, n
      <3> QED BY <2>1, <3>3, <1>6 DEF n
    <2>2. CASE calls[h].branch # "restore"
      BY <2>2, CalmFits, CallShape
    <2> QED BY <2>1, <2>2
  <1>10. ParentKeepsOut(h)
    BY <1>1, <1>5, <1>6, CallShape DEF ParentKeepsOut, WorksOutside
  <1>11. NothingLost(h)
    BY <1>1, <1>4, <1>6, PathsDiffer DEF NothingLost
  <1>12. GitTyped'
    BY <1>2, <1>6, <1>7, <1>8, CallShape DEF GitTyped
  <1> QED BY <1>8, <1>9, <1>10, <1>11, <1>12 DEF StepIsSafe

\* git restore of a discarded path is safe: what it overwrites was given up.
LEMMA RestoreSafe ==
    ASSUME GitKnown, NEW h \in Calls, Restore(h)
    PROVE  StepIsSafe(h)
  <1> DEFINE t == calls[h].target
             work == [x \in Names |->
                 IF x \in Held(t) /\ {Tip(repo)[x], repo.index[x]} # {Absent} THEN Tip(repo)[x]
                 ELSE repo.work[x]]
             r == [repo EXCEPT !.work = work]
  <1>1. /\ calls[h].op = "discard" /\ t \in Targets /\ End(h, r)
        /\ calls[h].loose \/ calls[h].stood => t = F
    BY CallShape, PathOps DEF Restore, Stands, CallTyped, WorksOutside
  <1>2. work \in Files
    <2>1. /\ repo.work.f \in Contents /\ repo.work.g \in Contents
          /\ Tip(repo).f \in Contents /\ Tip(repo).g \in Contents
      BY CallShape, RepoShape, TipIsTree DEF Trees
    <2>2. DOMAIN work = {"f", "g"} /\ work = [x \in {"f", "g"} |-> work[x]]
      BY PathsDiffer
    <2>3. work.f \in Contents /\ work.g \in Contents
      BY <2>1, PathsDiffer
    <2> HIDE DEF work
    <2> QED BY <2>2, <2>3, FilesAre
  <1>3. \A x \in {"f", "g"} : work[x] # repo.work[x] => x \in Held(t)
    BY PathsDiffer
  <1> HIDE DEF work
  <1>4. r \in Repos /\ r.work = work /\ r.index = repo.index
    BY <1>2, WithWork, CallShape, RepoShape DEF RepoFields
  <1> HIDE DEF r
  <1>5. LosesNothing(h, r)
    <2>1. \A x \in Held(t) : IsWithin(Tracks[x], t)
      BY DEF Held
    <2> QED BY <1>1, <1>3, <1>4, <2>1 DEF LosesNothing
  <1>6. StaysOut(h, r)
    <2>1. t = F => work.g = repo.work.g
      BY <1>1, <1>3, HeldIs
    <2> QED BY <1>1, <1>4, <2>1, CallShape DEF StaysOut, WorksOutside
  <1> QED BY <1>1, <1>4, <1>5, <1>6, EndSafe DEF End

\* Adding the next path of a commit is safe.
LEMMA AddNextSafe ==
    ASSUME GitKnown, NEW h \in Calls, AddNext(h)
    PROVE  StepIsSafe(h)
  <1> DEFINE c == calls[h]  r == Add(repo, c.target)
  <1>1. CASE Refuse(h)
    BY <1>1, RefuseSafe
  <1>2. CASE ~Refuse(h)
    <2>1. /\ c.op = "commit" /\ c.at = "resolved" /\ c.target \in Targets /\ c.todo \in {<<>>, <<G>>}
          /\ c.op \in OnPaths /\ c.loose => c.target = F
      BY CallShape, PathOps DEF AddNext, Stands, CallTyped, WorksOutside
    <2>2. /\ r \in Repos /\ LosesNothing(h, r) /\ StaysOut(h, r)
          /\ c.loose => r.index.link = 0
      BY <2>1, AddSafe, PathOps
    <2> HIDE DEF r
    <2>3. CASE c.todo = <<>>
      <3>1. Then(h, r, [at |-> "added"])
        BY <1>2, <2>3 DEF AddNext, r
      <3>2. Fits(Moved(c, [at |-> "added"]), Found, r.index.link)
        BY <2>1, <2>2, GoesOn, CallShape DEF Free, WorksOutside
      <3> QED BY <2>2, <3>1, <3>2, ThenSafe
    <2>4. CASE c.todo = <<G>>
      <3> DEFINE change == [at |-> "asked", target |-> G, todo |-> <<>>]
                 n == Moved(c, change)
      <3>1. Then(h, r, change)
        <4>1. Head(c.todo) = G /\ Tail(c.todo) = <<>> /\ c.todo # <<>>
          BY <2>4
        <4> QED BY <1>2, <4>1 DEF AddNext, r
      <3>2. /\ DOMAIN n = CallFields
            /\ \A f \in CallFields : n[f] = IF f \in {"at", "target", "todo"} THEN change[f] ELSE c[f]
        BY MovedIs, CallShape
      <3>3. /\ n.op = c.op /\ n.at = "asked" /\ n.target = G /\ n.todo = <<>> /\ n.clean = c.clean
            /\ n.stood = c.stood /\ n.loose = c.loose
        BY <3>2 DEF CallFields
      <3> HIDE DEF n, change
      <3>4. CallTyped(n)
        BY <2>1, <3>2, <3>3, CallShape DEF CallTyped, Targets, Free
      <3>5. WorksOutside(n, Found, r.index.link)
        BY <2>1, <2>2, <3>3, CallShape DEF WorksOutside
      <3> QED BY <2>2, <3>1, <3>4, <3>5, ThenSafe DEF Fits, n
    <2> QED BY <2>1, <2>3, <2>4
  <1> QED BY <1>1, <1>2

\* git commit of the index is safe.
LEMMA CommitIndexSafe ==
    ASSUME GitKnown, NEW h \in Calls, CommitIndex(h)
    PROVE  StepIsSafe(h)
  <1>1. CASE Refuse(h)
    BY <1>1, RefuseSafe
  <1>2. CASE End(h, Commit(repo))
    <2>1. Commit(repo) \in Repos /\ Commit(repo).work = repo.work /\ Commit(repo).index = repo.index
      <3>1. Commit(repo) \in Repos /\ Commit(repo) = [repo EXCEPT !.tips = Commit(repo).tips]
        BY CommitIs, CallShape
      <3> QED BY <3>1, CallShape, RepoShape DEF RepoFields
    <2> QED BY <1>2, <2>1, SameFilesSafe, EndSafe DEF End
  <1> QED BY <1>1, <1>2 DEF CommitIndex

\* Looking for nested repositories before the first commit is safe.
LEMMA DiscoverSafe ==
    ASSUME GitKnown, NEW h \in Calls, Discover(h)
    PROVE  StepIsSafe(h)
  <1> DEFINE change == [at |-> "catalog", branch |-> Kind]  n == Moved(calls[h], change)
  <1>1. calls[h].op = "initial" /\ calls[h].at = "unborn" /\ Look(h, change)
    BY DEF Discover, Stands
  <1>2. /\ DOMAIN n = CallFields
        /\ \A f \in CallFields : n[f] = IF f \in {"at", "branch"} THEN change[f] ELSE calls[h][f]
    BY MovedIs, CallShape
  <1>3. /\ n.op = "initial" /\ n.at = "catalog" /\ n.target = calls[h].target /\ n.branch = Kind
        /\ n.clean = calls[h].clean /\ n.stood = calls[h].stood /\ n.loose = calls[h].loose
    BY <1>1, <1>2 DEF CallFields
  <1>4. Found /\ repo.index.link = 0 => Kind \in {"worktree", "nested"}
    BY CallShape DEF Kind, Found, Subs
  <1> HIDE DEF n, change
  <1>5. CallTyped(n)
    BY <1>1, <1>2, <1>3, CallShape DEF CallTyped, Free
  <1>6. WorksOutside(n, Found, repo.index.link)
    BY <1>3, <1>4, CallShape, PathOps DEF WorksOutside
  <1> QED BY <1>1, <1>5, <1>6, LookSafe DEF Fits, n

\* git add -A before the first commit is safe.
LEMMA AddAllSafe ==
    ASSUME GitKnown, NEW h \in Calls, AddAll(h)
    PROVE  StepIsSafe(h)
  <1>1. calls[h].op = "initial" /\ calls[h].at = "catalog"
    BY DEF AddAll, Stands
  <1>2. CASE Refuse(h)
    BY <1>2, RefuseSafe
  <1>3. ASSUME NEW r \in Repos, r.work = repo.work, calls[h].loose => r.index.link = 0,
               Then(h, r, [at |-> "added"])
        PROVE  StepIsSafe(h)
    <2>1. Fits(Moved(calls[h], [at |-> "added"]), Found, r.index.link)
      BY <1>1, <1>3, GoesOn, CallShape DEF Free, WorksOutside
    <2> QED BY <1>3, <2>1, SameFilesSafe, ThenSafe
  <1>4. CASE calls[h].branch \in {"nested", "worktree", "uninitialized"}
    <2>1. F \in Targets /\ ~Links(F)
      BY HeldIs, PathsDiffer DEF Targets
    <2>2. /\ Add(repo, F) \in Repos /\ Add(repo, F).work = repo.work
          /\ Add(repo, F).index.link = repo.index.link
      BY <2>1, AddIs, CallShape DEF SameBut
    <2>3. Then(h, Add(repo, F), [at |-> "added"])
      BY <1>4 DEF AddAll
    <2> QED BY <1>3, <2>2, <2>3, CallShape DEF WorksOutside
  <1>5. CASE calls[h].branch \notin {"nested", "worktree", "uninitialized"} /\ ~Refuse(h)
    <2>1. ~calls[h].loose
      BY <1>1, <1>5, CallShape DEF WorksOutside
    <2>2. Add(repo, <<>>) \in Repos /\ Add(repo, <<>>).work = repo.work
      BY AddIs, CallShape DEF SameBut
    <2>3. Then(h, Add(repo, <<>>), [at |-> "added"])
      BY <1>5 DEF AddAll
    <2> QED BY <1>3, <2>1, <2>2, <2>3
  <1> QED BY <1>2, <1>4, <1>5

\* A step that changes only refs.
LEMMA RefsSafe ==
    ASSUME GitKnown, NEW h \in Calls, NEW r \in Repos, End(h, r), r.work = repo.work,
           r.index = repo.index
    PROVE  StepIsSafe(h)
  BY SameFilesSafe, EndSafe DEF End

\* Commits without the last are commits.
LEMMA FrontIs ==
    ASSUME NEW s \in Seq(Trees), s # <<>>
    PROVE  Front(s) \in Seq(Trees)
  BY SubSeqProperties DEF Front

\* git reset --soft HEAD~1 is safe.
LEMMA ResetSoftSafe ==
    ASSUME GitKnown, NEW h \in Calls, ResetSoft(h)
    PROVE  StepIsSafe(h)
  <1> DEFINE commits == repo.tips[repo.at]  r == [repo EXCEPT !.tips[repo.at] = Front(commits)]
  <1>1. CASE Refuse(h)
    BY <1>1, RefuseSafe
  <1>2. CASE Look(h, [at |-> "orphan"])
    <2>1. calls[h].op = "revert" /\ calls[h].at = "born"
      BY DEF ResetSoft, Stands
    <2>2. Fits(Moved(calls[h], [at |-> "orphan"]), Found, repo.index.link)
      BY <2>1, GoesOn, CallShape DEF Free, WorksOutside
    <2> QED BY <1>2, <2>2, LookSafe
  <1>3. CASE End(h, r) /\ commits # <<>>
    <2>1. commits \in Seq(Trees) /\ repo.at \in Branches
      BY CallShape, RepoShape
    <2>2. Front(commits) \in Seq(Trees)
      BY <2>1, <1>3, FrontIs
    <2>3. r \in Repos /\ r = [repo EXCEPT !.tips = [repo.tips EXCEPT ![repo.at] = Front(commits)]]
      BY <2>1, <2>2, WithTips, CallShape
    <2>4. r.work = repo.work /\ r.index = repo.index
      BY <2>3, CallShape, RepoShape DEF RepoFields
    <2> QED BY <1>3, <2>3, <2>4, RefsSafe
  <1>4. Refuse(h) \/ Look(h, [at |-> "orphan"]) \/ (End(h, r) /\ commits # <<>>)
    <2>1. CASE commits = <<>>
      BY <2>1 DEF ResetSoft
    <2>2. CASE commits # <<>> /\ Len(commits) = 1
      BY <2>2 DEF ResetSoft
    <2>3. CASE commits # <<>> /\ Len(commits) # 1
      BY <2>3 DEF ResetSoft
    <2> QED BY <2>1, <2>2, <2>3
  <1> QED BY <1>1, <1>2, <1>3, <1>4

\* Deleting HEAD of a branch with one commit is safe.
LEMMA DeleteHeadSafe ==
    ASSUME GitKnown, NEW h \in Calls, DeleteHead(h)
    PROVE  StepIsSafe(h)
  <1> DEFINE r == [repo EXCEPT !.tips[repo.at] = <<>>]
  <1>1. r \in Repos /\ r = [repo EXCEPT !.tips = [repo.tips EXCEPT ![repo.at] = <<>>]]
    <2>1. <<>> \in Seq(Trees) /\ repo.at \in Branches /\ repo \in Repos
      BY CallShape, RepoShape
    <2> QED BY <2>1, WithTips
  <1>2. r.work = repo.work /\ r.index = repo.index
    BY <1>1, CallShape, RepoShape DEF RepoFields
  <1>3. End(h, r)
    BY DEF DeleteHead
  <1> QED BY <1>1, <1>2, <1>3, RefsSafe

\* A file that is as in the last commit is kept by whatever keeps the commits.
LEMMA TipIsKept ==
    ASSUME NEW r \in Repos, NEW s, s.tips = r.tips, NEW x \in {"f", "g"}, r.work[x] = Tip(r)[x]
    PROVE  r.work[x] = Absent \/ r.work[x] \in Kept(s, x)
  <1>1. CASE HasCommits(r)
    <2>1. Tip(r) \in ToSet(r.tips[r.at]) /\ r.at \in Branches
      BY <1>1, TipIsTree, RepoShape
    <2>2. Tip(r) \in UNION {ToSet(s.tips[b]) : b \in Branches}
      BY <2>1
    <2> QED BY <2>2 DEF Kept
  <1>2. CASE ~HasCommits(r)
    BY <1>2, TipIsTree DEF NoTree
  <1> QED BY <1>1, <1>2

\* Stashing is safe: what it takes from the disk is in the stash.
LEMMA CreateStashSafe ==
    ASSUME GitKnown, NEW h \in Calls, CreateStash(h)
    PROVE  StepIsSafe(h)
  <1> DEFINE r == Stash(repo)
  <1>1. CASE Refuse(h) \/ End(h, repo)
    BY <1>1, RefuseSafe
  <1>2. CASE End(h, r)
    <2>1. /\ r \in Repos /\ r.index.link = repo.index.link
          /\ \A x \in {"f", "g"} : r.work[x] = IF x \in Held(<<>>) THEN Tip(repo)[x] ELSE repo.work[x]
          /\ \E s \in ToSet(r.stashes) : s.work = repo.work
      BY StashIs, CallShape
    <2> HIDE DEF r
    <2>2. LosesNothing(h, r)
      BY <2>1 DEF LosesNothing, Kept
    <2>3. StaysOut(h, r)
      BY <2>1, HeldIs, CallShape DEF StaysOut, WorksOutside, Found
    <2> QED BY <1>2, <2>1, <2>2, <2>3, EndSafe DEF End
  <1> QED BY <1>1, <1>2 DEF CreateStash

\* Applying and popping a stash are safe, with and without a conflict.
LEMMA TakeStashSafe ==
    ASSUME GitKnown, NEW h \in Calls, TakeStash(h)
    PROVE  StepIsSafe(h)
  <1> DEFINE n == CHOOSE k \in calls[h].pick : TRUE
             s == repo.stashes[n]
             applied == Apply(repo, s)
             Dropped(r) == [r EXCEPT !.stashes = RemoveAt(@, n)]
  <1>1. CASE Refuse(h)
    BY <1>1, RefuseSafe
  <1>2. CASE n \in DOMAIN repo.stashes /\ End(h, Dropped(repo))
    BY <1>2, DropIs, CallShape, RefsSafe
  <1>3. ASSUME n \in DOMAIN repo.stashes, CanApply(repo, s)
        PROVE  /\ applied \in Repos /\ LosesNothing(h, applied) /\ StaysOut(h, applied)
               /\ Dropped(applied) \in Repos /\ LosesNothing(h, Dropped(applied))
               /\ StaysOut(h, Dropped(applied))
    <2>1. s \in Stashes
      BY <1>3, DropIs, CallShape
    <2> HIDE DEF s
    <2>2. /\ applied \in Repos /\ applied.at = repo.at /\ applied.tips = repo.tips
          /\ applied.index = repo.index
          /\ \A x \in {"f", "g"} : applied.work[x] # repo.work[x] =>
                x \in Held(<<>>) /\ repo.work[x] = Tip(repo)[x]
      BY <1>3, <2>1, ApplyIs, CallShape
    <2>3. applied.stashes = repo.stashes
      BY CallShape, RepoShape DEF Apply, RepoFields
    <2> HIDE DEF applied
    <2>4. /\ Dropped(applied) \in Repos /\ Dropped(applied).work = applied.work
          /\ Dropped(applied).index = applied.index /\ Dropped(applied).tips = applied.tips
      <3>1. n \in DOMAIN applied.stashes
        BY <2>3, <1>3
      <3> HIDE DEF n
      <3> QED BY <2>2, <3>1, DropIs
    <2>5. ASSUME NEW r, r.tips = repo.tips, r.work = applied.work, r.index = repo.index
          PROVE  LosesNothing(h, r) /\ StaysOut(h, r)
      <3>1. LosesNothing(h, r)
        BY <2>2, <2>5, TipIsKept, CallShape DEF LosesNothing
      <3>2. StaysOut(h, r)
        BY <2>2, <2>5, HeldIs, CallShape DEF StaysOut, WorksOutside, Found
      <3> QED BY <3>1, <3>2
    <2> HIDE DEF Dropped
    <2> QED BY <2>2, <2>4, <2>5
  <1>4. CASE /\ n \in DOMAIN repo.stashes /\ CanApply(repo, s)
             /\ \/ \E a \in {"served", "refused"} : Then(h, applied, [Calm EXCEPT !.at = a])
                \/ End(h, Dropped(applied))
    <2> HIDE DEF applied, Dropped
    <2> QED BY <1>3, <1>4, EndSafe DEF End
  <1>5. \/ Refuse(h) \/ (n \in DOMAIN repo.stashes /\ End(h, Dropped(repo)))
        \/ /\ n \in DOMAIN repo.stashes /\ CanApply(repo, s)
           /\ \/ \E a \in {"served", "refused"} : Then(h, applied, [Calm EXCEPT !.at = a])
              \/ End(h, Dropped(applied))
    <2> SUFFICES ASSUME ~Refuse(h)
                 PROVE  \/ (n \in DOMAIN repo.stashes /\ End(h, Dropped(repo)))
                        \/ /\ n \in DOMAIN repo.stashes /\ CanApply(repo, s)
                           /\ \/ \E a \in {"served", "refused"} : Then(h, applied, [Calm EXCEPT !.at = a])
                              \/ End(h, Dropped(applied))
      OBVIOUS
    <2>1. n \in DOMAIN repo.stashes
      BY DEF TakeStash
    <2>2. CASE calls[h].op = "drop"
      BY <2>1, <2>2 DEF TakeStash
    <2>3. CASE calls[h].op # "drop"
      <3>1. CanApply(repo, s)
        BY <2>1, <2>3 DEF TakeStash
      <3>2. IF Clashes(repo, s) # {} THEN Then(h, applied, [Calm EXCEPT !.at = "refused"])
            ELSE End(h, IF calls[h].op = "pop" THEN Dropped(applied) ELSE applied)
        BY <2>1, <2>3, <3>1 DEF TakeStash
      <3> HIDE DEF applied, Dropped, n
      <3> QED BY <2>1, <3>1, <3>2 DEF End
    <2> QED BY <2>2, <2>3
  <1> QED BY <1>1, <1>2, <1>4, <1>5

\* The last of some commits is one of them.
LEMMA LastIs ==
    ASSUME NEW s \in Seq(Trees), s # <<>>
    PROVE  Last(s) \in Trees /\ Last(s) = s[Len(s)] /\ Len(s) \in 1..Len(s)
  <1>1. Len(s) \in 1..Len(s)
    OBVIOUS
  <1> QED BY <1>1, ElementOfSeq DEF Last

\* The last commit of a branch is among those of one that goes on from it.
LEMMA LastOfPrefix ==
    ASSUME NEW s \in Seq(Trees), NEW t \in Seq(Trees), s # <<>>, IsPrefix(s, t)
    PROVE  s[Len(s)] \in ToSet(t)
  <1>1. Len(s) \in Nat \ {0} /\ Len(t) \in Nat
    OBVIOUS
  <1>2. Len(s) =< Len(t) /\ SubSeq(s, 1, Len(s)) = SubSeq(t, 1, Len(s))
    BY DEF IsPrefix
  <1>3. /\ SubSeq(s, 1, Len(s)) = [i \in 1..Len(s) |-> s[i]]
        /\ SubSeq(t, 1, Len(s)) = [i \in 1..Len(s) |-> t[i]]
    BY <1>1, <1>2, SubSeqProperties, Z3
  <1>4. s[Len(s)] = t[Len(s)]
    <2> DEFINE a == [i \in 1..Len(s) |-> s[i]]  b == [i \in 1..Len(s) |-> t[i]]
    <2>1. a = b /\ Len(s) \in 1..Len(s)
      BY <1>1, <1>2, <1>3
    <2>2. a[Len(s)] = s[Len(s)] /\ b[Len(s)] = t[Len(s)]
      BY <2>1
    <2> HIDE DEF a, b
    <2> QED BY <2>1, <2>2
  <1>5. Len(s) \in DOMAIN t
    BY <1>1, <1>2
  <1> QED BY <1>4, <1>5 DEF ToSet

\* Checking out a branch is safe: git refuses to overwrite what it would lose.
LEMMA CheckoutSafe ==
    ASSUME GitKnown, NEW h \in Calls, Checkout(h)
    PROVE  StepIsSafe(h)
  <1> DEFINE b == calls[h].branch  tree == Last(repo.tips[b])  s == Switch(repo, tree)
             r == [s EXCEPT !.at = b]
  <1>1. CASE Refuse(h)
    BY <1>1, RefuseSafe
  <1>2. CASE repo.tips[b] # <<>> /\ CanSwitch(repo, tree) /\ End(h, r)
    <2>1. calls[h].op = "checkout" /\ b \in Branches
      BY CallShape DEF Checkout, Stands, CallTyped
    <2>2. repo.tips[b] \in Seq(Trees)
      BY <2>1, CallShape, RepoShape
    <2>3. tree \in Trees
      BY <1>2, <2>2, LastIs
    <2> HIDE DEF tree
    <2>4. /\ s \in Repos /\ s.tips = repo.tips
          /\ \A x \in {"f", "g"} : s.work[x] # repo.work[x] =>
                x \in Held(<<>>) /\ repo.work[x] = Tip(repo)[x]
      BY <1>2, <2>3, SwitchIs, CallShape
    <2> HIDE DEF s
    <2>5. r \in Repos
      BY <2>1, <2>4 DEF Repos
    <2>6. r.work = s.work /\ r.tips = repo.tips
      BY <2>4, RepoShape DEF RepoFields
    <2> HIDE DEF r
    <2>7. LosesNothing(h, r)
      BY <2>4, <2>6, TipIsKept, CallShape DEF LosesNothing
    <2>8. StaysOut(h, r)
      BY <2>1, <2>4, <2>6, HeldIs, CallShape DEF StaysOut, WorksOutside, Found
    <2> QED BY <1>2, <2>5, <2>7, <2>8, EndSafe DEF End
  <1> QED BY <1>1, <1>2 DEF Checkout

\* Creating a branch is safe.
LEMMA CreateBranchSafe ==
    ASSUME GitKnown, NEW h \in Calls, CreateBranch(h)
    PROVE  StepIsSafe(h)
  <1> DEFINE b == calls[h].branch  r == [repo EXCEPT !.tips[b] = repo.tips[repo.at], !.at = b]
  <1>1. CASE Refuse(h)
    BY <1>1, RefuseSafe
  <1>2. CASE End(h, r)
    <2>1. b \in Branches /\ repo.tips[repo.at] \in Seq(Trees)
      BY CallShape, RepoShape DEF CreateBranch, Stands, CallTyped
    <2> DEFINE q == [repo EXCEPT !.tips[b] = repo.tips[repo.at]]
    <2>2. q \in Repos /\ q = [repo EXCEPT !.tips = [repo.tips EXCEPT ![b] = repo.tips[repo.at]]]
      BY <2>1, WithTips, CallShape
    <2>3. q.work = repo.work /\ q.index = repo.index
      BY <2>2, CallShape, RepoShape DEF RepoFields
    <2>4. r = [q EXCEPT !.at = b]
      BY CallShape, RepoShape DEF RepoFields
    <2> HIDE DEF q, r
    <2>5. r \in Repos
      BY <2>1, <2>2, <2>4 DEF Repos
    <2>6. r.work = repo.work /\ r.index = repo.index
      BY <2>2, <2>3, <2>4, RepoShape DEF RepoFields
    <2> QED BY <1>2, <2>5, <2>6, RefsSafe
  <1> QED BY <1>1, <1>2 DEF CreateBranch

\* Deleting a branch is safe: no file on disk changes.
LEMMA DeleteBranchSafe ==
    ASSUME GitKnown, NEW h \in Calls, DeleteBranch(h)
    PROVE  StepIsSafe(h)
  <1> DEFINE b == calls[h].branch  r == [repo EXCEPT !.tips[b] = <<>>, !.upstream[b] = NoBranch]
  <1>1. CASE Refuse(h)
    BY <1>1, RefuseSafe
  <1>2. CASE Look(h, [at |-> "checked"])
    <2>1. calls[h].op = "remove"
      BY DEF DeleteBranch, Stands
    <2>2. Fits(Moved(calls[h], [at |-> "checked"]), Found, repo.index.link)
      BY <2>1, GoesOn, CallShape, PathOps DEF Free, WorksOutside
    <2> QED BY <1>2, <2>2, LookSafe
  <1>3. CASE End(h, r)
    <2>1. b \in Branches /\ <<>> \in Seq(Trees) /\ repo \in Repos
      BY CallShape, RepoShape DEF DeleteBranch, Stands, CallTyped
    <2> DEFINE q == [repo EXCEPT !.tips[b] = <<>>]
    <2>2. q \in Repos /\ q = [repo EXCEPT !.tips = [repo.tips EXCEPT ![b] = <<>>]]
      BY <2>1, WithTips
    <2>3. q.work = repo.work /\ q.index = repo.index /\ q.upstream = repo.upstream
      BY <2>2, CallShape, RepoShape DEF RepoFields
    <2>4. r = [q EXCEPT !.upstream = [repo.upstream EXCEPT ![b] = NoBranch]]
      BY CallShape, RepoShape DEF RepoFields
    <2>5. [repo.upstream EXCEPT ![b] = NoBranch] \in [Branches -> Branches \cup {NoBranch}]
      BY CallShape, RepoShape
    <2> HIDE DEF q, r
    <2>6. r \in Repos
      BY <2>2, <2>4, <2>5 DEF Repos
    <2>7. r.work = repo.work /\ r.index = repo.index
      BY <2>2, <2>3, <2>4, RepoShape DEF RepoFields
    <2> QED BY <1>3, <2>6, <2>7, RefsSafe
  <1> QED BY <1>1, <1>2, <1>3 DEF DeleteBranch

\* Reading the upstream branch of a push is safe.
LEMMA ReadUpstreamSafe ==
    ASSUME GitKnown, NEW h \in Calls, ReadUpstream(h)
    PROVE  StepIsSafe(h)
  <1> DEFINE b == IF repo.upstream[repo.at] = NoBranch THEN calls[h].branch ELSE repo.upstream[repo.at]
  <1>1. CASE Refuse(h)
    BY <1>1, RefuseSafe
  <1>2. ASSUME NEW a \in {"current", "upstream"}, NEW branch \in Branches,
               Look(h, [at |-> a, branch |-> branch])
        PROVE  StepIsSafe(h)
    <2>1. calls[h].op \in {"push", "pull"}
      BY DEF ReadUpstream
    <2>2. Fits(Moved(calls[h], [at |-> a, branch |-> branch]), Found, repo.index.link)
      BY <2>1, GoesOn, CallShape, PathOps DEF Free, WorksOutside
    <2> QED BY <1>2, <2>2, LookSafe
  <1>3. repo.at \in Branches /\ (calls[h].at = "current" => b \in Branches)
    BY CallShape, RepoShape DEF CallTyped
  <1>4. \/ Refuse(h) \/ Look(h, [at |-> "current", branch |-> repo.at])
        \/ calls[h].at = "current" /\ Look(h, [at |-> "upstream", branch |-> b])
    BY DEF ReadUpstream
  <1> HIDE DEF b
  <1> QED BY <1>1, <1>2, <1>3, <1>4

\* Asking whether the branch to delete is checked out is safe.
LEMMA CheckCurrentSafe ==
    ASSUME GitKnown, NEW h \in Calls, CheckCurrent(h)
    PROVE  StepIsSafe(h)
  <1>1. CASE Refuse(h)
    BY <1>1, RefuseSafe
  <1>2. CASE Look(h, [at |-> "upstream"])
    <2>1. calls[h].op = "publish"
      BY DEF CheckCurrent, Stands
    <2>2. Fits(Moved(calls[h], [at |-> "upstream"]), Found, repo.index.link)
      BY <2>1, GoesOn, CallShape, PathOps DEF Free, WorksOutside
    <2> QED BY <1>2, <2>2, LookSafe
  <1> QED BY <1>1, <1>2 DEF CheckCurrent

\* A request that ends and leaves files, index and the repository in D alone.
LEMMA RemoteSafe ==
    ASSUME GitKnown, NEW h \in Calls, Set(h, [Calm EXCEPT !.at = "served"]),
           repo' \in Repos, repo'.work = repo.work, repo'.index = repo.index,
           nested' \in Subs, nested' = nested \/ calls[h].op = "submodule", remote' \in Remotes
    PROVE  StepIsSafe(h)
  <1>1. /\ calls' = [k \in Calls |-> calls'[k]]
        /\ calls'[h] = Moved(calls[h], [Calm EXCEPT !.at = "served"]) /\ OthersNotice(h)
    BY SetIs
  <1>2. Fits(calls'[h], Found', repo'.index.link)
    BY <1>1, CalmFits, CallShape
  <1>3. GitTyped'
    BY <1>1 DEF GitTyped
  <1>4. ParentKeepsOut(h) /\ NothingLost(h)
    BY CallShape, PathsDiffer DEF ParentKeepsOut, NothingLost, WorksOutside
  <1> QED BY <1>1, <1>2, <1>3, <1>4 DEF StepIsSafe

\* Pushing is safe, with and without setting the upstream.
LEMMA PushBranchSafe ==
    ASSUME GitKnown, NEW h \in Calls, PushBranch(h)
    PROVE  StepIsSafe(h)
  <1> DEFINE b == calls[h].branch
  <1>1. CASE Refuse(h)
    BY <1>1, RefuseSafe
  <1>2. CASE ~Refuse(h)
    <2>1. /\ remote' = [remote EXCEPT !.tips[b] = repo.tips[b]]
          /\ repo' = IF calls[h].op = "publish" THEN [repo EXCEPT !.upstream[b] = b] ELSE repo
          /\ nested' = nested /\ Set(h, [Calm EXCEPT !.at = "served"])
      BY <1>2 DEF PushBranch
    <2>2. b \in Branches /\ repo.tips[b] \in Seq(Trees)
      BY CallShape, RepoShape DEF PushBranch, CallTyped
    <2>3. remote' \in Remotes
      <3>1. remote.tips \in [Branches -> Seq(Trees)] /\ DOMAIN remote = {"set", "tips"}
        BY CallShape DEF Remotes
      <3>2. [remote.tips EXCEPT ![b] = repo.tips[b]] \in [Branches -> Seq(Trees)]
        BY <2>2, <3>1
      <3>3. remote' = [remote EXCEPT !.tips = [remote.tips EXCEPT ![b] = repo.tips[b]]]
        BY <2>1, <3>1
      <3> QED BY <3>2, <3>3, CallShape DEF Remotes
    <2>4. repo' \in Repos /\ repo'.work = repo.work /\ repo'.index = repo.index
      <3>1. [repo EXCEPT !.upstream[b] = b] = [repo EXCEPT !.upstream = [repo.upstream EXCEPT ![b] = b]]
        BY CallShape, RepoShape
      <3>2. [repo.upstream EXCEPT ![b] = b] \in [Branches -> Branches \cup {NoBranch}]
        BY <2>2, CallShape, RepoShape
      <3>3. [repo EXCEPT !.upstream = [repo.upstream EXCEPT ![b] = b]] \in Repos
        BY <3>2, CallShape DEF Repos
      <3>4. /\ [repo EXCEPT !.upstream = [repo.upstream EXCEPT ![b] = b]].work = repo.work
            /\ [repo EXCEPT !.upstream = [repo.upstream EXCEPT ![b] = b]].index = repo.index
        BY CallShape, RepoShape DEF RepoFields
      <3> QED BY <2>1, <3>1, <3>3, <3>4, CallShape
    <2> QED BY <2>1, <2>3, <2>4, RemoteSafe, CallShape
  <1> QED BY <1>1, <1>2

\* Pulling is safe: git refuses to overwrite what it would lose.
LEMMA PullBranchSafe ==
    ASSUME GitKnown, NEW h \in Calls, PullBranch(h)
    PROVE  StepIsSafe(h)
  <1> DEFINE theirs == remote.tips[calls[h].branch]  ours == repo.tips[repo.at]
             s == Switch(repo, Last(theirs))  r == [s EXCEPT !.tips[repo.at] = theirs]
  <1>1. CASE Refuse(h) \/ End(h, repo)
    BY <1>1, RefuseSafe
  <1>2. CASE theirs # <<>> /\ IsPrefix(ours, theirs) /\ CanSwitch(repo, Last(theirs)) /\ End(h, r)
    <2>1. calls[h].op = "pull" /\ calls[h].branch \in Branches /\ repo.at \in Branches
      BY CallShape, RepoShape DEF PullBranch, Stands, CallTyped
    <2>2. theirs \in Seq(Trees) /\ ours \in Seq(Trees)
      BY <2>1, CallShape, RepoShape DEF Remotes
    <2>3. Last(theirs) \in Trees
      BY <1>2, <2>2, LastIs
    <2>4. /\ s \in Repos /\ s.tips = repo.tips /\ s.at = repo.at
          /\ \A x \in {"f", "g"} : s.work[x] # repo.work[x] =>
                x \in Held(<<>>) /\ repo.work[x] = Tip(repo)[x]
      BY <1>2, <2>3, SwitchIs, CallShape
    <2> HIDE DEF s
    <2>5. /\ r \in Repos /\ r = [s EXCEPT !.tips = [s.tips EXCEPT ![repo.at] = theirs]]
      BY <2>1, <2>2, <2>4, WithTips
    <2>6. r.work = s.work /\ r.tips = [repo.tips EXCEPT ![repo.at] = theirs]
      BY <2>4, <2>5, RepoShape DEF RepoFields
    <2>7. r.tips[repo.at] = theirs
      BY <2>1, <2>6, CallShape, RepoShape
    <2>8. HasCommits(repo) => Tip(repo) \in ToSet(theirs)
      <3> SUFFICES ASSUME HasCommits(repo) PROVE Tip(repo) \in ToSet(theirs)
        OBVIOUS
      <3>1. Len(ours) \in Nat \ {0} /\ Tip(repo) = ours[Len(ours)]
        BY TipIsTree, CallShape
      <3>2. ours # <<>>
        BY DEF HasCommits
      <3> HIDE DEF theirs, ours
      <3> QED BY <1>2, <2>2, <3>1, <3>2, LastOfPrefix
    <2> HIDE DEF r, theirs, ours
    <2>9. LosesNothing(h, r)
      <3> SUFFICES ASSUME NEW x \in {"f", "g"}, r.work[x] # repo.work[x], repo.work[x] # Absent
                   PROVE  repo.work[x] \in Kept(r, x)
        BY DEF LosesNothing
      <3>1. repo.work[x] = Tip(repo)[x]
        BY <2>4, <2>6
      <3>2. HasCommits(repo)
        BY <3>1, TipIsTree, CallShape DEF NoTree
      <3>3. Tip(repo) \in UNION {ToSet(r.tips[b]) : b \in Branches}
        BY <2>1, <2>7, <2>8, <3>2
      <3> QED BY <3>1, <3>3 DEF Kept
    <2>10. StaysOut(h, r)
      BY <2>1, <2>4, <2>6, HeldIs, CallShape DEF StaysOut, WorksOutside, Found
    <2> QED BY <1>2, <2>5, <2>9, <2>10, EndSafe DEF End
  <1>3. \/ Refuse(h) \/ End(h, repo)
        \/ (theirs # <<>> /\ IsPrefix(ours, theirs) /\ CanSwitch(repo, Last(theirs)) /\ End(h, r))
    <2>1. CASE ~remote.set \/ theirs = <<>>
      BY <2>1 DEF PullBranch
    <2>2. CASE remote.set /\ theirs # <<>> /\ IsPrefix(theirs, ours)
      BY <2>2 DEF PullBranch
    <2>3. CASE remote.set /\ theirs # <<>> /\ ~IsPrefix(theirs, ours)
      BY <2>3 DEF PullBranch
    <2> QED BY <2>1, <2>2, <2>3
  <1> QED BY <1>1, <1>2, <1>3

\* Setting the remote is safe.
LEMMA SetRemoteSafe ==
    ASSUME GitKnown, NEW h \in Calls, SetRemote(h)
    PROVE  StepIsSafe(h)
  <1>1. CASE Refuse(h)
    BY <1>1, RefuseSafe
  <1>2. ASSUME NEW b, Look(h, [at |-> "listed", branch |-> b]) PROVE StepIsSafe(h)
    <2>1. CASE calls[h].op = "remote"
      <3>1. Fits(Moved(calls[h], [at |-> "listed", branch |-> b]), Found, repo.index.link)
        BY <2>1, GoesOn, CallShape, PathOps DEF Free, WorksOutside
      <3> QED BY <1>2, <3>1, LookSafe
    <2> QED BY <2>1 DEF SetRemote, Stands
  <1>3. CASE /\ remote' = [remote EXCEPT !.set = TRUE] /\ UNCHANGED <<repo, nested>>
             /\ Set(h, [Calm EXCEPT !.at = "served"])
    <2>1. remote' \in Remotes
      BY <1>3, CallShape DEF Remotes
    <2> QED BY <1>3, <2>1, RemoteSafe, CallShape
  <1> QED BY <1>1, <1>2, <1>3 DEF SetRemote

\* Initializing the submodule is safe.
LEMMA InitSubmoduleSafe ==
    ASSUME GitKnown, NEW h \in Calls, InitSubmodule(h)
    PROVE  StepIsSafe(h)
  <1>1. calls[h].op = "submodule"
    BY DEF InitSubmodule, Stands
  <1>2. CASE Refuse(h) \/ End(h, repo)
    BY <1>2, RefuseSafe
  <1>3. CASE Look(h, [at |-> "catalog"])
    <2>1. Fits(Moved(calls[h], [at |-> "catalog"]), Found, repo.index.link)
      BY <1>1, GoesOn, CallShape, PathOps DEF Free, WorksOutside
    <2> QED BY <1>3, <2>1, LookSafe
  <1>4. CASE /\ nested' = [nested EXCEPT !.there = TRUE, !.head = repo.index.link]
             /\ UNCHANGED <<repo, remote>> /\ Set(h, [Calm EXCEPT !.at = "served"])
    <2>1. repo.index.link \in Nat
      BY CallShape, RepoShape DEF Trees
    <2>2. nested' \in Subs
      BY <1>4, <2>1, CallShape DEF Subs
    <2> QED BY <1>1, <1>4, <2>2, RemoteSafe, CallShape
  <1>5. CASE Stands(h, "submodule", "asked")
    <2>1. CASE Kind = "none"
      BY <1>2, <2>1, <1>5 DEF InitSubmodule, Stands
    <2>2. CASE Kind = "uninitialized"
      BY <1>3, <2>2, <1>5 DEF InitSubmodule, Stands
    <2>3. CASE Kind # "none" /\ Kind # "uninitialized"
      BY <1>2, <2>3, <1>5 DEF InitSubmodule, Stands
    <2> QED BY <2>1, <2>2, <2>3
  <1>6. CASE Stands(h, "submodule", "catalog")
    BY <1>2, <1>4, <1>6 DEF InitSubmodule, Stands
  <1> QED BY <1>5, <1>6 DEF InitSubmodule

\* git init is safe.
LEMMA InitRepositorySafe ==
    ASSUME GitKnown, NEW h \in Calls, InitRepository(h)
    PROVE  StepIsSafe(h)
  <1>1. calls[h].op = "init"
    BY DEF InitRepository, Stands
  <1>2. CASE Refuse(h) \/ End(h, repo)
    BY <1>2, RefuseSafe
  <1>3. CASE Look(h, [at |-> "catalog"])
    <2>1. Fits(Moved(calls[h], [at |-> "catalog"]), Found, repo.index.link)
      BY <1>1, GoesOn, CallShape, PathOps DEF Free, WorksOutside
    <2> QED BY <1>3, <2>1, LookSafe
  <1>4. CASE End(h, [repo EXCEPT !.made = TRUE])
    <2>1. /\ [repo EXCEPT !.made = TRUE] \in Repos /\ [repo EXCEPT !.made = TRUE].work = repo.work
          /\ [repo EXCEPT !.made = TRUE].index = repo.index
      <3>1. [repo EXCEPT !.made = TRUE] \in Repos
        BY CallShape DEF Repos
      <3> QED BY <3>1, CallShape, RepoShape DEF RepoFields
    <2> QED BY <1>4, <2>1, RefsSafe
  <1>5. CASE Stands(h, "init", "asked")
    <2>1. CASE repo.made
      BY <1>2, <2>1, <1>5 DEF InitRepository, Stands
    <2>2. CASE ~repo.made /\ Kind # "none" /\ calls[h].branch # "allowed"
      BY <1>2, <2>2, <1>5 DEF InitRepository, Stands
    <2>3. CASE ~repo.made /\ ~(Kind # "none" /\ calls[h].branch # "allowed")
      BY <1>3, <2>3, <1>5 DEF InitRepository, Stands
    <2> QED BY <2>1, <2>2, <2>3
  <1>6. CASE Stands(h, "init", "catalog")
    BY <1>4, <1>6 DEF InitRepository, Stands
  <1> QED BY <1>5, <1>6 DEF InitRepository

-----------------------------------------------------------------------------
(* A request that begins.                                                    *)

\* What a request begins with, of the call it becomes.
Begun(change) == Moved([Calm EXCEPT !.at = "asked", !.before = <<repo, nested>>, !.stood = Found,
                                    !.loose = Found /\ repo.index.link = 0], change)

\* The fields of a call that begins.
LEMMA BegunIs ==
    ASSUME NEW change, GitKnown, DOMAIN change \subseteq {"op", "target", "todo", "pick", "seen", "branch", "clean"}
    PROVE  /\ DOMAIN Begun(change) = CallFields
           /\ Begun(change).at = "asked" /\ Begun(change).stood = Found
           /\ Begun(change).loose = (Found /\ repo.index.link = 0)
           /\ Begun(change).before = <<repo, nested>>
           /\ \A f \in DOMAIN change : Begun(change)[f] = change[f]
           /\ "clean" \notin DOMAIN change => Begun(change).clean = TRUE
           /\ "target" \notin DOMAIN change => Begun(change).target = F
           /\ "todo" \notin DOMAIN change => Begun(change).todo = <<>>
  <1> DEFINE c == [Calm EXCEPT !.at = "asked", !.before = <<repo, nested>>, !.stood = Found,
                               !.loose = Found /\ repo.index.link = 0]
  <1>1. /\ DOMAIN c = CallFields /\ c.at = "asked" /\ c.stood = Found
        /\ c.loose = (Found /\ repo.index.link = 0) /\ c.before = <<repo, nested>>
        /\ c.clean = TRUE /\ c.target = F /\ c.todo = <<>>
    BY DEF Calm, CallFields
  <1> HIDE DEF c
  <1>2. Begun(change) = Moved(c, change)
    BY DEF Begun, c
  <1>3. \A f \in CallFields : Moved(c, change)[f] = IF f \in DOMAIN change THEN change[f] ELSE c[f]
    BY <1>1, MovedIs
  <1>4. DOMAIN Moved(c, change) = CallFields
    BY <1>1, MovedIs
  <1> QED BY <1>1, <1>2, <1>3, <1>4 DEF CallFields

\* The hunks of the diff that a request is shown.
DiffShown(r, op) == Diff(Sides(r, op)[1], Sides(r, op)[2])

\* A request may begin as this.
MayBegin(change) ==
    /\ DOMAIN change \subseteq {"op", "target", "todo", "pick", "seen", "branch", "clean"}
    /\ "op" \in DOMAIN change /\ change.op # "none"
    /\ "clean" \in DOMAIN change => change.clean \in BOOLEAN
    /\ "target" \in DOMAIN change => change.target \in Targets /\ change.op \notin {"hunks", "reverse", "resolve"}
    /\ change.op = "commit" => "todo" \notin DOMAIN change \/ change.todo \in {<<>>, <<G>>}
    /\ change.op = "resolve" => "seen" \in DOMAIN change /\ change.seen \in Contents
    /\ change.op \in {"checkout", "create", "remove", "publish"} =>
          "branch" \in DOMAIN change /\ change.branch \in Branches
    /\ change.op \in {"hunks", "reverse"} =>
          /\ {"seen", "pick"} \subseteq DOMAIN change
          /\ change.seen # {} /\ change.seen \subseteq DiffShown(repo, change.op)
          /\ change.pick = {Place(DiffShown(repo, change.op), x) : x \in change.seen}

\* A call that begins is as it should be.
LEMMA BegunFits ==
    ASSUME NEW change, GitKnown, MayBegin(change)
    PROVE  Fits(Begun(change), Found, repo.index.link)
  <1> DEFINE c == Begun(change)
  <1>0. nested \in Subs
    BY CallShape DEF GitKnown, GitTyped
  <1>1. /\ DOMAIN c = CallFields /\ c.at = "asked" /\ c.stood = Found
        /\ c.loose = (Found /\ repo.index.link = 0)
        /\ c.op = change.op
    BY BegunIs DEF MayBegin
  <1>2. c.clean \in BOOLEAN /\ c.target \in Targets
    BY BegunIs DEF MayBegin, Targets
  <1>3. /\ c.op = "commit" => c.todo \in {<<>>, <<G>>}
        /\ c.op \in {"hunks", "reverse", "resolve"} => c.target = F
        /\ c.op = "resolve" => c.seen \in Contents
        /\ c.op \in {"checkout", "create", "remove", "publish"} => c.branch \in Branches
    BY <1>1, BegunIs DEF MayBegin
  <1>4. Found \in BOOLEAN /\ c.op # "none"
    BY <1>0, <1>1 DEF Subs, Found, MayBegin
  <1> HIDE DEF c
  <1>5. CallTyped(c)
    BY <1>1, <1>2, <1>3, <1>4 DEF CallTyped, Free
  <1>6. WorksOutside(c, Found, repo.index.link)
    BY <1>1, <1>4 DEF WorksOutside
  <1> QED BY <1>5, <1>6 DEF Fits, c

\* A request begins: its call is new, and nothing else changes.
LEMMA BeginSafe ==
    ASSUME GitKnown, NEW h \in Calls, NEW change, Begin(h, change), MayBegin(change)
    PROVE  /\ GitTyped' /\ Fits(calls[h], Found, repo.index.link)'
           /\ repo' = repo /\ nested' = nested /\ calls'[h] = Begun(change)
           /\ Free(calls[h].at) /\ \A k \in Calls \ {h} : calls'[k] = calls[k]
  <1>1. /\ Free(calls[h].at) /\ calls' = [calls EXCEPT ![h] = Begun(change)]
        /\ repo' = repo /\ nested' = nested /\ remote' = remote
    BY Zenon DEF Begin, Begun
  <1>2. calls = [k \in Calls |-> calls[k]]
    BY DEF GitKnown, GitTyped
  <1>3. calls'[h] = Begun(change) /\ \A k \in Calls \ {h} : calls'[k] = calls[k]
    BY <1>1, <1>2
  <1>4. calls' = [k \in Calls |-> calls'[k]]
    BY <1>1, <1>2
  <1>5. GitTyped'
    BY <1>1, <1>4 DEF GitKnown, GitTyped
  <1>6. Fits(calls'[h], Found', repo'.index.link)
    <2>1. Found' = Found
      BY <1>1 DEF Found
    <2> QED BY <1>1, <1>3, <2>1, BegunFits
  <1> QED BY <1>1, <1>3, <1>5, <1>6

\* A request is safe when it begins: it has done nothing yet, and asks for nothing itself.
BeginsOf(h) ==
    \/ \E op \in OnPaths, t \in {F, P, D, G} : CallOn(h, op, t)
    \/ \E files \in {<<F>>, <<P>>, <<D>>, <<F, G>>} : CallCommit(h, files)
    \/ \E op \in OnPaths, seen \in SUBSET (Hunks \cup {0}) : CallHunks(h, op, seen)
    \/ \E how \in {"ours", "theirs", "manual"}, stage \in BOOLEAN : CallResolve(h, how, Hunks, stage)
    \/ \E op \in {"apply", "pop", "drop"}, n \in 1..2 : CallStash(h, op, n)
    \/ \E op \in {"checkout", "create", "remove", "publish"}, b \in Branches : CallBranch(h, op, b)
    \/ \E op \in {"initial", "revert", "stash", "push", "pull", "remote"} : CallPlain(h, op)
    \/ \E submodule \in BOOLEAN, allow \in BOOLEAN : CallInit(h, submodule, allow)

\* The paths a commit may name are targets.
LEMMA FilesOf ==
    ASSUME NEW files \in {<<F>>, <<P>>, <<D>>, <<F, G>>}
    PROVE  Head(files) \in Targets /\ Tail(files) \in {<<>>, <<G>>}
  <1>1. CASE files = <<F>>
    BY <1>1 DEF Targets
  <1>2. CASE files = <<P>>
    BY <1>2 DEF Targets
  <1>3. CASE files = <<D>>
    BY <1>3 DEF Targets
  <1>4. CASE files = <<F, G>>
    <2>1. Head(files) = F
      BY <1>4
    <2>2. Tail(files) = <<G>>
      BY <1>4
    <2> QED BY <2>1, <2>2 DEF Targets
  <1> QED BY <1>1, <1>2, <1>3, <1>4

\* Every request begins with a change that it may begin with.
LEMMA BeginsAs ==
    ASSUME NEW h \in Calls, BeginsOf(h)
    PROVE  \E change : Begin(h, change) /\ MayBegin(change)
  <1>1. ASSUME NEW op, NEW t \in Targets, CallOn(h, op, t)
        PROVE  \E change : Begin(h, change) /\ MayBegin(change)
    <2> DEFINE change == [op |-> op, target |-> t]
    <2>1. Begin(h, change) /\ MayBegin(change)
      BY <1>1 DEF CallOn, MayBegin
    <2> QED BY <2>1
  <1>2. ASSUME NEW files \in {<<F>>, <<P>>, <<D>>, <<F, G>>}, CallCommit(h, files)
        PROVE  \E change : Begin(h, change) /\ MayBegin(change)
    <2> DEFINE change == [op |-> "commit", target |-> Head(files), todo |-> Tail(files)]
    <2>1. Begin(h, change)
      BY <1>2 DEF CallCommit
    <2>2. MayBegin(change)
      BY FilesOf DEF MayBegin
    <2> QED BY <2>1, <2>2
  <1>3. ASSUME NEW op, NEW seen, CallHunks(h, op, seen)
        PROVE  \E change : Begin(h, change) /\ MayBegin(change)
    <2> DEFINE pick == {Place(DiffShown(repo, op), x) : x \in seen}
               change == [op |-> op, seen |-> seen, pick |-> pick]
    <2>1. /\ op \in {"hunks", "reverse"} /\ Begin(h, change)
          /\ seen # {} /\ seen \subseteq DiffShown(repo, op)
      BY <1>3, Zenon DEF CallHunks, DiffShown
    <2>2. /\ DOMAIN change = {"op", "seen", "pick"} /\ change.op = op /\ change.seen = seen
          /\ change.pick = {Place(DiffShown(repo, op), x) : x \in seen}
      OBVIOUS
    <2> HIDE DEF change
    <2>3. MayBegin(change)
      BY <2>1, <2>2 DEF MayBegin
    <2> QED BY <2>1, <2>3
  <1>4. ASSUME NEW how, NEW stage \in BOOLEAN, CallResolve(h, how, Hunks, stage)
        PROVE  \E change : Begin(h, change) /\ MayBegin(change)
    <2> PICK todo : Begin(h, [op |-> "resolve", branch |-> how, seen |-> Hunks, todo |-> todo])
      BY <1>4 DEF CallResolve
    <2>1. MayBegin([op |-> "resolve", branch |-> how, seen |-> Hunks, todo |-> todo])
      BY ContentsAre DEF MayBegin
    <2> QED BY <2>1
  <1>5. ASSUME NEW op, NEW n, CallStash(h, op, n)
        PROVE  \E change : Begin(h, change) /\ MayBegin(change)
    <2>1. op \in {"apply", "pop", "drop"} /\ Begin(h, [op |-> op, pick |-> {n}])
      BY <1>5 DEF CallStash
    <2>2. MayBegin([op |-> op, pick |-> {n}])
      BY <2>1 DEF MayBegin
    <2> QED BY <2>1, <2>2
  <1>6. ASSUME NEW op, NEW b \in Branches, CallBranch(h, op, b)
        PROVE  \E change : Begin(h, change) /\ MayBegin(change)
    <2>1. op \in {"checkout", "create", "remove", "publish"} /\ Begin(h, [op |-> op, branch |-> b])
      BY <1>6 DEF CallBranch
    <2>2. MayBegin([op |-> op, branch |-> b])
      BY <2>1 DEF MayBegin
    <2> QED BY <2>1, <2>2
  <1>7. ASSUME NEW op, CallPlain(h, op)
        PROVE  \E change : Begin(h, change) /\ MayBegin(change)
    <2>1. op \in {"initial", "revert", "stash", "push", "pull", "remote"} /\ Begin(h, [op |-> op])
      BY <1>7 DEF CallPlain
    <2>2. MayBegin([op |-> op])
      BY <2>1 DEF MayBegin
    <2> QED BY <2>1, <2>2
  <1>8. ASSUME NEW submodule \in BOOLEAN, NEW allow \in BOOLEAN, CallInit(h, submodule, allow)
        PROVE  \E change : Begin(h, change) /\ MayBegin(change)
    <2> DEFINE op == IF submodule THEN "submodule" ELSE "init"
               b == IF allow THEN "allowed" ELSE NoBranch
               change == [op |-> op, clean |-> TRUE, branch |-> b]
    <2>1. Begin(h, change) /\ op \in {"submodule", "init"}
      BY <1>8 DEF CallInit
    <2> HIDE DEF op, b
    <2>2. MayBegin(change)
      BY <2>1 DEF MayBegin
    <2> QED BY <2>1, <2>2
  <1> QED BY <1>1, <1>2, <1>3, <1>4, <1>5, <1>6, <1>7, <1>8 DEF BeginsOf, Targets

-----------------------------------------------------------------------------
(* Steps of the others, and the theorem about all of them.                   *)

\* What the others see of a step leaves them fitting.
LEMMA OthersFit ==
    ASSUME GitKnown, NEW h \in Calls, GitTyped', OthersNotice(h), NEW k \in Calls \ {h}
    PROVE  Fits(calls'[k], Found', repo'.index.link)
  <1> DEFINE c == calls[k]  n == calls'[k]
  <1>1. /\ DOMAIN c = CallFields /\ CallTyped(c)
        /\ WorksOutside(c, Found, repo.index.link)
    BY CallShape
  <1>2. Found' \in BOOLEAN /\ Notice \in BOOLEAN
    BY DEF GitTyped, Subs, Found, Notice
  <1>3. n = [c EXCEPT !.clean = @ /\ ~Notice, !.stood = @ /\ Found',
                      !.loose = @ /\ Found' /\ repo'.index.link = 0]
    BY Zenon DEF OthersNotice
  <1>4. /\ DOMAIN n = CallFields /\ n.clean \in BOOLEAN /\ n.stood \in BOOLEAN /\ n.loose \in BOOLEAN
        /\ n.stood => c.stood /\ Found'
        /\ n.loose => c.loose /\ Found' /\ repo'.index.link = 0
        /\ n.op = c.op /\ n.at = c.at /\ n.target = c.target /\ n.todo = c.todo
        /\ n.seen = c.seen /\ n.branch = c.branch
    BY <1>1, <1>2, <1>3 DEF CallFields, CallTyped
  <1> HIDE DEF c, n
  <1>5. CallTyped(n)
    BY <1>1, <1>4 DEF CallTyped
  <1>6. WorksOutside(n, Found', repo'.index.link)
    BY <1>1, <1>4 DEF WorksOutside
  <1> QED BY <1>5, <1>6 DEF Fits, n

\* A safe step of one request keeps what is known of all of them.
LEMMA GitStepKeeps ==
    ASSUME GitKnown, NEW h \in Calls, StepIsSafe(h)
    PROVE  /\ GitKnown'
           /\ \A k \in Calls : Acts(k) => ParentKeepsOut(k) /\ NothingLost(k)
  <1>1. GitTyped' /\ OthersNotice(h) /\ Fits(calls'[h], Found', repo'.index.link)
    BY DEF StepIsSafe
  <1>2. \A k \in Calls : Fits(calls'[k], Found', repo'.index.link)
    BY <1>1, OthersFit
  <1>3. GitKnown'
    BY <1>1, <1>2 DEF GitKnown
  <1>4. ASSUME NEW k \in Calls, Acts(k) PROVE k = h
    <2> SUFFICES ASSUME k # h PROVE FALSE
      OBVIOUS
    <2>1. /\ DOMAIN calls[k] = CallFields
          /\ calls'[k] = [calls[k] EXCEPT !.clean = @ /\ ~Notice, !.stood = @ /\ Found',
                                          !.loose = @ /\ Found' /\ repo'.index.link = 0]
      BY <1>1, CallShape, Zenon DEF OthersNotice
    <2>2. calls'[k].at = calls[k].at
      BY <2>1 DEF CallFields
    <2> QED BY <1>4, <2>2 DEF Acts
  <1> QED BY <1>3, <1>4 DEF StepIsSafe

\* So does a request that begins.
LEMMA BeginKeeps ==
    ASSUME GitKnown, NEW h \in Calls, BeginsOf(h)
    PROVE  /\ GitKnown'
           /\ \A k \in Calls : Acts(k) => ParentKeepsOut(k) /\ NothingLost(k)
  <1>1. PICK change : Begin(h, change) /\ MayBegin(change)
    BY BeginsAs
  <1>2. /\ GitTyped' /\ Fits(calls'[h], Found', repo'.index.link)
        /\ repo' = repo /\ nested' = nested
        /\ Free(calls[h].at) /\ \A k \in Calls \ {h} : calls'[k] = calls[k]
    BY <1>1, BeginSafe
  <1>3. GitKnown'
    <2>1. Found' = Found
      BY <1>2 DEF Found
    <2> QED BY <1>2, <2>1 DEF GitKnown
  <1>4. NothingLost(h) /\ ParentKeepsOut(h)
    BY <1>2, CallShape DEF NothingLost, ParentKeepsOut, WorksOutside
  <1> QED BY <1>2, <1>3, <1>4 DEF Acts

\* What users, agents and the repository in D do.
Elsewhere ==
    \/ \E x \in Names, content \in {Absent, Hunks} \cup {{k} : k \in Hunks} : EditFile(x, content)
    \/ \E linked \in BOOLEAN : MakeNested(linked)
    \/ CommitNested
    \/ \E b \in Branches : PushOther(b, {})

\* A step from elsewhere disturbs every request, and takes nothing from D.
LEMMA ElsewhereIs ==
    ASSUME GitKnown, Elsewhere
    PROVE  /\ Disturb /\ repo' \in Repos /\ nested' \in Subs /\ remote' \in Remotes
           /\ Found => Found'
           /\ repo'.index.link = repo.index.link
  <1>1. repo \in Repos /\ nested \in Subs /\ remote \in Remotes
    BY DEF GitKnown, GitTyped
  <1>2. ASSUME NEW x \in Names, NEW content \in {Absent, Hunks} \cup {{k} : k \in Hunks},
               EditFile(x, content)
        PROVE  /\ Disturb /\ repo' \in Repos /\ nested' = nested /\ remote' = remote
               /\ repo'.index = repo.index
    <2>1. content \in Contents
      BY ContentsAre
    <2>2. repo' = [repo EXCEPT !.work[x] = content] /\ Disturb /\ nested' = nested /\ remote' = remote
      BY <1>2 DEF EditFile
    <2> DEFINE w == [repo.work EXCEPT ![x] = content]
    <2>3. w \in Files
      <3>1. DOMAIN repo.work = {"f", "g"} /\ repo.work.f \in Contents /\ repo.work.g \in Contents
        BY <1>1, RepoShape
      <3>2. x \in {"f", "g"}
        BY PathsDiffer
      <3>3. DOMAIN w = {"f", "g"} /\ w = [y \in {"f", "g"} |-> w[y]] /\ w.f \in Contents /\ w.g \in Contents
        BY <2>1, <3>1, <3>2
      <3> QED BY <3>3, FilesAre
    <2>4. [repo EXCEPT !.work[x] = content] = [repo EXCEPT !.work = w]
      BY <1>1, RepoShape
    <2>5. [repo EXCEPT !.work = w] \in Repos
      BY <1>1, <2>3, WithWork
    <2>6. [repo EXCEPT !.work = w].index = repo.index
      BY <1>1, RepoShape DEF RepoFields
    <2> QED BY <2>2, <2>4, <2>5, <2>6
  <1>3. ASSUME NEW linked \in BOOLEAN, MakeNested(linked)
        PROVE  /\ Disturb /\ repo' = repo /\ nested' \in Subs /\ remote' = remote
               /\ nested'.there /\ nested'.hidden = nested.hidden
    BY <1>1, <1>3 DEF MakeNested, Subs
  <1>4. ASSUME CommitNested
        PROVE  /\ Disturb /\ repo' = repo /\ nested' \in Subs /\ remote' = remote
               /\ nested'.there = nested.there /\ nested'.hidden = nested.hidden
    <2>1. nested.head \in Nat /\ DOMAIN nested = {"there", "linked", "head", "hidden"}
      BY <1>1 DEF Subs
    <2>2. Disturb /\ repo' = repo /\ remote' = remote /\ nested' = [nested EXCEPT !.head = @ + 1]
      BY <1>4 DEF CommitNested
    <2>3. nested' = [nested EXCEPT !.head = nested.head + 1] /\ nested.head + 1 \in Nat
      BY <2>1, <2>2
    <2>4. nested' \in Subs /\ nested'.there = nested.there /\ nested'.hidden = nested.hidden
      BY <1>1, <2>1, <2>3 DEF Subs
    <2> QED BY <2>2, <2>4
  <1>5. ASSUME NEW b \in Branches, PushOther(b, {})
        PROVE  Disturb /\ repo' = repo /\ nested' = nested /\ remote' \in Remotes
    <2>1. [NoTree EXCEPT !.f = {}] \in Trees
      BY ContentsAre DEF Trees
    <2>2. remote.tips \in [Branches -> Seq(Trees)] /\ DOMAIN remote = {"set", "tips"}
      BY <1>1 DEF Remotes
    <2> DEFINE t == [NoTree EXCEPT !.f = {}]  tips == [remote.tips EXCEPT ![b] = Append(@, t)]
    <2>3. remote' = [remote EXCEPT !.tips = tips]
      BY <1>5, <2>2 DEF PushOther
    <2>4. tips \in [Branches -> Seq(Trees)]
      BY <2>1, <2>2
    <2> HIDE DEF tips
    <2>5. remote' \in Remotes
      BY <1>1, <2>3, <2>4 DEF Remotes
    <2> QED BY <1>5, <2>5 DEF PushOther
  <1> QED BY <1>1, <1>2, <1>3, <1>4, <1>5 DEF Elsewhere, Found

\* So it keeps what is known, and is a step of no request.
LEMMA ElsewhereKeeps ==
    ASSUME GitKnown, Elsewhere
    PROVE  GitKnown' /\ \A k \in Calls : ~Acts(k)
  <1>1. /\ Disturb /\ repo' \in Repos /\ nested' \in Subs /\ remote' \in Remotes
        /\ Found => Found'
        /\ repo'.index.link = repo.index.link
    BY ElsewhereIs
  <1>2. calls' = [h \in Calls |-> [calls[h] EXCEPT !.clean = FALSE]]
    BY <1>1 DEF Disturb
  <1>3. GitTyped'
    BY <1>1, <1>2 DEF GitTyped
  <1>4. ASSUME NEW k \in Calls
        PROVE  Fits(calls'[k], Found', repo'.index.link) /\ ~Acts(k)
    <2> DEFINE c == calls[k]  n == calls'[k]
    <2>1. /\ DOMAIN c = CallFields /\ CallTyped(c)
          /\ WorksOutside(c, Found, repo.index.link)
      BY CallShape
    <2>2. n = [c EXCEPT !.clean = FALSE]
      BY <1>2
    <2>3. /\ DOMAIN n = CallFields /\ n.clean = FALSE /\ n.stood = c.stood /\ n.loose = c.loose
          /\ n.op = c.op /\ n.at = c.at /\ n.target = c.target /\ n.todo = c.todo
          /\ n.seen = c.seen /\ n.branch = c.branch
      BY <2>1, <2>2 DEF CallFields
    <2>4. ~Acts(k)
      BY <2>3 DEF Acts
    <2> HIDE DEF c, n
    <2>5. CallTyped(n)
      BY <2>1, <2>3 DEF CallTyped
    <2>6. WorksOutside(n, Found', repo'.index.link)
      BY <1>1, <2>1, <2>3 DEF WorksOutside
    <2> QED BY <2>4, <2>5, <2>6 DEF Fits, n
  <1> QED BY <1>3, <1>4 DEF GitKnown

\* Every other step of a request.
StepsOf(h) ==
    \/ Resolve(h) \/ Stage(h) \/ LookForCommits(h) \/ Unstage(h)
    \/ ReadDiff(h) \/ ApplyHunks(h)
    \/ CheckConflict(h) \/ WriteResolution(h) \/ StageResolution(h)
    \/ ReadStatus(h) \/ Unindex(h) \/ RemovePath(h) \/ Restore(h)
    \/ AddNext(h) \/ CommitIndex(h) \/ Discover(h) \/ AddAll(h)
    \/ ResetSoft(h) \/ DeleteHead(h) \/ CreateStash(h) \/ TakeStash(h)
    \/ Checkout(h) \/ CreateBranch(h) \/ DeleteBranch(h)
    \/ ReadUpstream(h) \/ CheckCurrent(h) \/ PushBranch(h) \/ PullBranch(h) \/ SetRemote(h)
    \/ InitSubmodule(h) \/ InitRepository(h)

\* Every step of a request is safe.
LEMMA StepsAreSafe ==
    ASSUME GitKnown, NEW h \in Calls, StepsOf(h)
    PROVE  StepIsSafe(h)
  BY ResolveSafe, StageSafe, LookForCommitsSafe, UnstageSafe, ReadDiffSafe, ApplyHunksSafe,
     CheckConflictSafe, WriteResolutionSafe, StageResolutionSafe, ReadStatusSafe, UnindexSafe,
     RemovePathSafe, RestoreSafe, AddNextSafe, CommitIndexSafe, DiscoverSafe, AddAllSafe,
     ResetSoftSafe, DeleteHeadSafe, CreateStashSafe, TakeStashSafe, CheckoutSafe, CreateBranchSafe,
     DeleteBranchSafe, ReadUpstreamSafe, CheckCurrentSafe, PushBranchSafe, PullBranchSafe,
     SetRemoteSafe, InitSubmoduleSafe, InitRepositorySafe
  DEF StepsOf

\* A step is from elsewhere, or of one request.
LEMMA NextIs ==
    ASSUME GitNext
    PROVE  Elsewhere \/ \E h \in Calls : BeginsOf(h) \/ StepsOf(h)
  BY Zenon DEF GitNext, Elsewhere, BeginsOf, StepsOf

\* Nothing changes: what is known is known, and nobody steps.
LEMMA SameState ==
    ASSUME GitKnown, UNCHANGED gitVars
    PROVE  GitKnown' /\ \A h \in Calls : ~Acts(h)
  <1>1. repo' = repo /\ nested' = nested /\ remote' = remote /\ calls' = calls
    BY DEF gitVars
  <1> QED BY <1>1 DEF GitKnown, GitTyped, Fits, WorksOutside, Found, Acts

-----------------------------------------------------------------------------
(* How far a request that nobody disturbed has come in what it was asked.    *)

\* The requests that a promise tells what they do, and what one began with, of the
\* repository and in D.
Told == {"discard", "delete", "commit", "hunks", "reverse", "revert", "initial", "stash",
         "push", "resolve"}
Was(c) == c.before[1]
Under(c) == c.before[2]

\* The request has changed the repository already.
HasMoved(c) ==
    \/ c.op = "commit" \/ c.at \in {"written", "added", "restore"}
    \/ c.op = "discard" /\ c.at = "remove"

\* Files the parent holds, nothing in D, and the branch a push goes to.
HeldIn(t, there) == IF t = F THEN {"f"} ELSE IF there THEN {} ELSE {"g"}
NothingInD(r, sub) == ~sub.there /\ (r.made => r.index.link = 0)
Upstream(r) == IF r.upstream[r.at] = NoBranch THEN r.at ELSE r.upstream[r.at]

\* A commit has the paths named so far in the index, as they are on disk.
CommitFollows(c, r, sub) ==
    /\ r.tips = Was(c).tips /\ r.at = Was(c).at /\ r.work = Was(c).work
    /\ r.index.f \in {Was(c).work.f, Was(c).index.f}
    /\ c.at = "added" => \A x \in HeldIn(c.target, sub.there) : r.index[x] = Was(c).work[x]
\* The hunks picked are in the diff, and the patch is of them.
HunksFollow(c, r) ==
    /\ c.seen # {} /\ c.seen \subseteq DiffShown(r, c.op)
    /\ c.at # "patch" => c.pick = {Place(DiffShown(r, c.op), x) : x \in c.seen}
    /\ c.at = "patch" => /\ c.todo = <<Decoded(Sides(r, c.op)[1]), Decoded(Sides(r, c.op)[2]), c.seen>>
                         /\ c.op = "hunks" => Sides(r, c.op)[1] # Absent
\* What is left of a discarded path: the index as in the last commit, then no files.
DiscardFollows(c, r, sub) ==
    LET files == HeldIn(c.target, Under(c).there)
    IN /\ sub.there => Under(c).there
       /\ c.at = "indexed" => (c.branch = "restore" <=> HasCommits(r))
       /\ c.at \in {"remove", "restore"} =>
             /\ Tip(r) = Tip(Was(c))
             /\ \A x \in {"f", "g"} : r.index[x] = IF x \in files THEN Tip(r)[x] ELSE Was(c).index[x]
             /\ c.branch # "restore" => \A x \in files : Tip(r)[x] = Absent
       /\ c.at = "remove" => r.work = Was(c).work
       /\ c.at = "restore" =>
             \A x \in {"f", "g"} :
                /\ x \in files => r.work[x] = Absent
                /\ ~IsWithin(Tracks[x], c.target) => r.work[x] = Was(c).work[x]
\* The branch a push goes to is that of the branch checked out.
PushFollows(c, r) ==
    /\ c.at = "current" => c.branch = r.at
    /\ c.at = "upstream" => c.branch = Upstream(r)
\* A revert goes by the number of commits there are.
RevertFollows(c, r) ==
    /\ c.at = "born" => HasCommits(r)
    /\ c.at = "orphan" => Len(r.tips[r.at]) = 1
\* There is no commit yet, and the index has what is on disk.
InitialFollows(c, r, sub) ==
    /\ c.at \in {"unborn", "catalog", "added"} => r.tips[r.at] = <<>>
    /\ c.at = "catalog" /\ NothingInD(r, sub) => c.branch = "none"
    /\ c.at = "added" => r.index.f = Was(c).work.f /\ (NothingInD(r, sub) => r.index.g = Was(c).work.g)
\* The conflict is there, then the content chosen is on disk.
ResolveFollows(c, r) ==
    /\ c.at = "conflict" => Conflicted(r, "f")
    /\ c.at = "written" => r.work.f = Chosen(c, Was(c)) /\ Conflicted(Was(c), "f")

\* An undisturbed request is as far as its point says, and alone has changed
\* the repository.
Follows(c, r, sub) == c.clean /\ c.op \in Told =>
    /\ Was(c) \in Repos /\ (HasMoved(c) \/ r = Was(c))
    /\ c.at # "restore" => sub = Under(c)
    /\ c.op = "commit" => CommitFollows(c, r, sub)
    /\ c.op \in {"hunks", "reverse"} => HunksFollow(c, r)
    /\ c.op = "discard" => DiscardFollows(c, r, sub)
    /\ c.op = "revert" => RevertFollows(c, r)
    /\ c.op = "initial" => InitialFollows(c, r, sub)
    /\ c.op = "push" => PushFollows(c, r)
    /\ c.op = "resolve" => ResolveFollows(c, r)
AllFollow == \A h \in Calls : Follows(calls[h], repo, nested)
GitInv == GitKnown /\ AllFollow

\* A step of h that serves what h was asked for, or brings it further.
StepServes(h) ==
    /\ Follows(calls'[h], repo', nested')
    /\ calls'[h].at = "served" /\ calls[h].clean => Serves(h)

\* The files the parent holds, as a function of whether a repository stands in D.
LEMMA HeldInIs ==
    /\ \A t \in Targets : Held(t) = HeldIn(t, nested.there)
    /\ \A t \in Targets : \A there : HeldIn(t, there) \subseteq {"f", "g"}
    /\ \A t \in Targets : \A there : \A x \in HeldIn(t, there) : IsWithin(Tracks[x], t)
    /\ \A t \in Targets : \A x \in {"f", "g"} : ~IsWithin(Tracks[x], t) => x \notin Held(t)
  BY HeldIs, Within, PathsDiffer DEF HeldIn

\* What the check of a path answers, and that it finds nothing when nothing is there.
LEMMA KindIs ==
    /\ NothingInD(repo, nested) => Kind = "none"
    /\ Kind = "none" /\ ~nested.there => NothingInD(repo, nested)
    /\ Kind \in {"none", "worktree", "submodule", "nested", "uninitialized"}
  BY DEF Kind, Found, NothingInD

\* A call that ends asks for nothing any more.
LEMMA EndsCalm ==
    ASSUME GitKnown, NEW h \in Calls, NEW a, Set(h, [Calm EXCEPT !.at = a])
    PROVE  calls'[h].op = "none" /\ calls'[h].at = a
  <1>1. calls'[h] = Moved(calls[h], [Calm EXCEPT !.at = a]) /\ DOMAIN calls[h] = CallFields
    BY SetIs, CallShape
  <1>2. DOMAIN [Calm EXCEPT !.at = a] = CallFields
    BY DEF Calm, CallFields
  <1> QED BY <1>1, <1>2, MovedIs DEF Calm, CallFields

\* Nothing is told of a request that nothing was asked of.
LEMMA OverFollows ==
    ASSUME NEW c, NEW r, NEW sub, c.op \notin Told
    PROVE  Follows(c, r, sub)
  BY DEF Follows

\* A refusal tells of nothing.
LEMMA RefuseServes ==
    ASSUME GitKnown, NEW h \in Calls, Refuse(h)
    PROVE  StepServes(h)
  <1>1. calls'[h].op = "none" /\ calls'[h].at = "refused"
    BY EndsCalm DEF Refuse, Then
  <1> QED BY <1>1, OverFollows DEF StepServes, Told

\* An answer serves when what was asked for is done by then.
LEMMA EndServes ==
    ASSUME GitKnown, NEW h \in Calls, Set(h, [Calm EXCEPT !.at = "served"]),
           calls[h].clean => Serves(h)
    PROVE  StepServes(h)
  <1>1. calls'[h].op = "none"
    BY EndsCalm
  <1> QED BY <1>1, OverFollows DEF StepServes, Told

\* A request of which nothing is told.
LEMMA UntoldServes ==
    ASSUME NEW h \in Calls, calls[h].op \notin Told, calls'[h].op \in {calls[h].op, "none"}
    PROVE  StepServes(h)
  <1>1. Serves(h)
    BY DEF Serves, Told
  <1> QED BY <1>1, OverFollows DEF StepServes, Told

\* A request that goes on to another point.
LEMMA MovesOn ==
    ASSUME GitKnown, NEW h \in Calls, NEW change, Set(h, change),
           DOMAIN change \subseteq {"at", "branch", "todo", "target"}, "at" \in DOMAIN change
    PROVE  LET c == calls[h]  n == calls'[h]
           IN /\ DOMAIN n = CallFields /\ n.op = c.op /\ n.at = change.at /\ n.clean = c.clean
              /\ n.before = c.before /\ n.seen = c.seen /\ n.pick = c.pick
              /\ n.branch = IF "branch" \in DOMAIN change THEN change.branch ELSE c.branch
              /\ n.todo = IF "todo" \in DOMAIN change THEN change.todo ELSE c.todo
              /\ n.target = IF "target" \in DOMAIN change THEN change.target ELSE c.target
  <1> DEFINE c == calls[h]  n == calls'[h]
  <1>1. DOMAIN c = CallFields /\ n = Moved(c, change)
    BY CallShape, SetIs
  <1> HIDE DEF c, n
  <1>2. DOMAIN n = CallFields /\ \A f \in CallFields : n[f] = IF f \in DOMAIN change THEN change[f] ELSE c[f]
    BY <1>1, MovedIs
  <1>3. /\ n.op = c.op /\ n.clean = c.clean /\ n.before = c.before /\ n.seen = c.seen /\ n.pick = c.pick
    BY <1>2 DEF CallFields
  <1>4. /\ n.at = change.at
        /\ n.branch = IF "branch" \in DOMAIN change THEN change.branch ELSE c.branch
        /\ n.todo = IF "todo" \in DOMAIN change THEN change.todo ELSE c.todo
        /\ n.target = IF "target" \in DOMAIN change THEN change.target ELSE c.target
    BY <1>2 DEF CallFields
  <1> QED BY <1>2, <1>3, <1>4 DEF c, n

\* A step that does not answer serves when it brings the request further.
LEMMA NotServedYet ==
    ASSUME GitKnown, NEW h \in Calls, calls'[h].at # "served", calls'[h].clean = calls[h].clean,
           calls[h].clean => Follows(calls'[h], repo', nested')
    PROVE  StepServes(h)
  BY DEF StepServes, Follows

\* The others follow still, or know that they were disturbed.
LEMMA OthersFollow ==
    ASSUME GitKnown, AllFollow, NEW h \in Calls, OthersNotice(h), NEW k \in Calls \ {h}
    PROVE  Follows(calls'[k], repo', nested')
  <1> DEFINE c == calls[k]  n == calls'[k]
  <1>1. DOMAIN c = CallFields /\ Follows(c, repo, nested) /\ c.clean \in BOOLEAN
    BY CallShape DEF AllFollow, CallTyped
  <1>2. n = [c EXCEPT !.clean = @ /\ ~Notice, !.stood = @ /\ Found',
                      !.loose = @ /\ Found' /\ repo'.index.link = 0]
    BY Zenon DEF OthersNotice
  <1>3. /\ n.clean => c.clean /\ ~Notice
        /\ n.op = c.op /\ n.at = c.at /\ n.target = c.target /\ n.todo = c.todo /\ n.pick = c.pick
        /\ n.seen = c.seen /\ n.branch = c.branch /\ n.before = c.before
    BY <1>1, <1>2 DEF CallFields
  <1>4. ~Notice => repo' = repo /\ nested' = nested
    BY DEF Notice
  <1> HIDE DEF c, n
  <1> SUFFICES ASSUME n.clean, repo' = repo, nested' = nested, c.clean
               PROVE  Follows(n, repo, nested)
    BY <1>3, <1>4 DEF n, Follows
  <1> QED BY <1>1, <1>3 DEF Follows, Was, Under, HasMoved, PushFollows, CommitFollows, HunksFollow, DiscardFollows,
             RevertFollows, InitialFollows, ResolveFollows, Chosen

\* What a request is that nobody disturbed.
LEMMA Undisturbed ==
    ASSUME GitInv, NEW h \in Calls, calls[h].clean, calls[h].op \in Told
    PROVE  LET c == calls[h]
           IN /\ Was(c) \in Repos /\ (HasMoved(c) \/ repo = Was(c))
              /\ c.at # "restore" => nested = Under(c)
              /\ c.op = "commit" => CommitFollows(c, repo, nested)
              /\ c.op \in {"hunks", "reverse"} => HunksFollow(c, repo)
              /\ c.op = "discard" => DiscardFollows(c, repo, nested)
              /\ c.op = "revert" => RevertFollows(c, repo)
              /\ c.op = "initial" => InitialFollows(c, repo, nested)
              /\ c.op = "push" => PushFollows(c, repo)
              /\ c.op = "resolve" => ResolveFollows(c, repo)
  BY DEF GitInv, AllFollow, Follows

\* A request that only looks.
LEMMA LookServes ==
    ASSUME GitInv, NEW h \in Calls, NEW change, Look(h, change),
           DOMAIN change \subseteq {"at", "branch", "todo"}, "at" \in DOMAIN change,
           change.at # "served", ~HasMoved(calls[h]), ~HasMoved(calls'[h]),
           ASSUME calls[h].clean, calls[h].op \in Told, repo = Was(calls[h]), nested = Under(calls'[h])
           PROVE  /\ calls[h].op \in {"hunks", "reverse"} => HunksFollow(calls'[h], repo)
                  /\ calls[h].op = "discard" => DiscardFollows(calls'[h], repo, nested)
                  /\ calls[h].op = "revert" => RevertFollows(calls'[h], repo)
                  /\ calls[h].op = "initial" => InitialFollows(calls'[h], repo, nested)
                  /\ calls[h].op = "push" => PushFollows(calls'[h], repo)
                  /\ calls[h].op = "resolve" => ResolveFollows(calls'[h], repo)
    PROVE  StepServes(h)
  <1> DEFINE c == calls[h]  n == calls'[h]
  <1>1. repo' = repo /\ nested' = nested /\ Set(h, change)
    BY DEF Look, Then
  <1>2. /\ n.op = c.op /\ n.at = change.at /\ n.clean = c.clean /\ n.before = c.before
    BY <1>1, MovesOn DEF GitInv
  <1>3. c.op # "commit"
    BY DEF HasMoved
  <1>4. ASSUME c.clean, c.op \in Told PROVE Follows(n, repo, nested)
    <2>1. Was(c) \in Repos /\ repo = Was(c) /\ Was(n) = Was(c) /\ nested = Under(c) /\ Under(n) = Under(c)
      BY <1>2, <1>4, Undisturbed DEF Was, Under, HasMoved
    <2> QED BY <1>2, <1>3, <1>4, <2>1 DEF Follows
  <1>5. c.clean => Follows(n, repo, nested)
    BY <1>2, <1>4 DEF Follows
  <1> QED BY <1>1, <1>2, <1>5, NotServedYet DEF GitInv

\* The check of a path lets a request on it go on, and changes nothing.
LEMMA ResolveServes ==
    ASSUME GitInv, NEW h \in Calls, Resolve(h)
    PROVE  StepServes(h)
  <1> DEFINE c == calls[h]  n == calls'[h]
  <1>1. CASE Refuse(h)
    BY <1>1, RefuseServes DEF GitInv
  <1>2. CASE Look(h, [at |-> "resolved"]) /\ Allowed(calls[h].target, Policy[calls[h].op])
    <2>1. /\ repo' = repo /\ nested' = nested /\ Set(h, [at |-> "resolved"])
          /\ c.op \in OnPaths /\ c.at = "asked" /\ c.target \in Targets
      BY <1>2, CallShape DEF Look, Then, Resolve, GitInv, CallTyped
    <2>2. /\ n.op = c.op /\ n.at = "resolved" /\ n.clean = c.clean /\ n.before = c.before
          /\ n.seen = c.seen /\ n.pick = c.pick /\ n.target = c.target /\ n.todo = c.todo
      BY <2>1, MovesOn DEF GitInv
    <2>3. CASE c.op = "commit"
      <3>1. ASSUME c.clean
            PROVE  CommitFollows(n, repo, nested) /\ Was(n) \in Repos /\ nested = Under(n)
        BY <2>1, <2>2, <2>3, <3>1, Undisturbed DEF CommitFollows, Was, Under, Told
      <3>2. c.clean => Follows(n, repo, nested)
        BY <2>2, <2>3, <3>1 DEF Follows, HasMoved
      <3> QED BY <2>1, <2>2, <3>2, NotServedYet DEF GitInv
    <2>4. CASE c.op = "discard"
      <3>1. ASSUME nested = Under(n) PROVE DiscardFollows(n, repo, nested)
        BY <2>2, <3>1 DEF DiscardFollows
      <3> QED BY <1>2, <2>1, <2>2, <2>4, <3>1, LookServes DEF HasMoved
    <2>5. CASE c.op \notin {"commit", "discard"}
      <3>1. c.op \notin {"revert", "initial", "push"}
        BY <2>1, PathOps
      <3>2. ASSUME c.clean, c.op \in {"hunks", "reverse"} PROVE HunksFollow(n, repo)
        BY <2>1, <2>2, <3>2, Undisturbed DEF HunksFollow, Told
      <3>3. ResolveFollows(n, repo)
        BY <2>2 DEF ResolveFollows
      <3> QED BY <1>2, <2>1, <2>2, <2>5, <3>1, <3>2, <3>3, LookServes DEF HasMoved
    <2> QED BY <2>3, <2>4, <2>5
  <1> QED BY <1>1, <1>2 DEF Resolve

\* What a revert and a first commit find of commits stays so while undisturbed.
LEMMA LookForCommitsServes ==
    ASSUME GitInv, NEW h \in Calls, LookForCommits(h)
    PROVE  StepServes(h)
  <1> DEFINE c == calls[h]  n == calls'[h]
  <1>1. CASE Refuse(h)
    BY <1>1, RefuseServes DEF GitInv
  <1>2. ASSUME NEW a \in {"born", "unborn"}, Look(h, [at |-> a]), a = "born" <=> HasCommits(repo)
        PROVE  StepServes(h)
    <2>1. /\ Set(h, [at |-> a]) /\ c.op \in {"unstage", "initial", "revert"}
          /\ c.at \in {"resolved", "asked"}
      BY <1>2 DEF Look, Then, LookForCommits, Stands
    <2>2. n.op = c.op /\ n.at = a
      BY <2>1, MovesOn DEF GitInv
    <2>3. RevertFollows(n, repo) /\ InitialFollows(n, repo, nested)
      BY <1>2, <2>2 DEF RevertFollows, InitialFollows, HasCommits
    <2> QED BY <1>2, <2>1, <2>2, <2>3, LookServes DEF HasMoved
  <1>3. CASE Look(h, [at |-> IF HasCommits(repo) THEN "born" ELSE "unborn"])
    BY <1>2, <1>3
  <1> QED BY <1>1, <1>2, <1>3 DEF LookForCommits, Stands

-----------------------------------------------------------------------------
(* Hunks picked by their place in a diff.                                    *)

\* Hunks are finitely many integers, so that they can be counted.
LEMMA DigitsAreFinite == ASSUME NEW S \in SUBSET (0..9) PROVE IsFiniteSet(S) /\ S \subseteq Int
  <1>1. IsFiniteSet(0..9)
    <2>1. 0 \in Int /\ 9 \in Int
      OBVIOUS
    <2> QED BY <2>1, FS_Interval, Zenon
  <1>2. IsFiniteSet(S)
    BY <1>1, FS_Subset
  <1>3. S \subseteq Int
    OBVIOUS
  <1> QED BY <1>2, <1>3

\* Hunks of a diff have different places in it.
LEMMA PlacesDiffer ==
    ASSUME NEW S \in SUBSET (0..9), NEW x \in S, NEW z \in S, x < z
    PROVE  Place(S, x) < Place(S, z)
  <1> DEFINE below == {y \in S : y < x}  under == {y \in S : y < z}
  <1>1. IsFiniteSet(under)
    BY DigitsAreFinite, FS_Subset
  <1>2. below \subseteq under /\ x \in under /\ x \notin below
    <2>1. S \subseteq Int
      BY DigitsAreFinite
    <2>2. x \in Int /\ z \in Int
      BY <2>1
    <2>3. \A y \in S : y < x => y < z
      BY <2>1, <2>2
    <2>4. ~(x < x)
      BY <2>2
    <2> QED BY <2>3, <2>4, Zenon
  <1> HIDE DEF below, under
  <1>3. Cardinality(below) =< Cardinality(under) /\ (Cardinality(under) = Cardinality(below) => under = below)
    BY <1>1, <1>2, FS_Subset
  <1>4. Cardinality(below) \in Nat /\ Cardinality(under) \in Nat
    BY <1>1, <1>2, FS_Subset, FS_CardinalityType
  <1>5. Cardinality(below) < Cardinality(under)
    BY <1>2, <1>3, <1>4
  <1> QED BY <1>5 DEF Place, below, under

\* The hunks at the places of some hunks of a diff are those hunks.
LEMMA PlacesPick ==
    ASSUME NEW S \in SUBSET (0..9), NEW seen \in SUBSET S
    PROVE  {x \in S : Place(S, x) \in {Place(S, y) : y \in seen}} = seen
  <1>1. ASSUME NEW x \in S, NEW y \in seen, Place(S, x) = Place(S, y) PROVE x = y
    <2>1. x \in Int /\ y \in Int /\ y \in S
      OBVIOUS
    <2>2. CASE x < y
      <3>1. Place(S, x) < Place(S, y)
        BY <2>1, <2>2, PlacesDiffer
      <3>2. Place(S, x) \in Nat
        <4>1. IsFiniteSet({z \in S : z < x})
          BY DigitsAreFinite, FS_Subset
        <4> QED BY <4>1, FS_CardinalityType DEF Place
      <3> QED BY <1>1, <3>1, <3>2
    <2>3. CASE y < x
      <3>1. Place(S, y) < Place(S, x)
        BY <2>1, <2>3, PlacesDiffer
      <3>2. Place(S, x) \in Nat
        <4>1. IsFiniteSet({z \in S : z < x})
          BY DigitsAreFinite, FS_Subset
        <4> QED BY <4>1, FS_CardinalityType DEF Place
      <3> QED BY <1>1, <3>1, <3>2
    <2> QED BY <2>1, <2>2, <2>3
  <1> QED BY <1>1

\* The sides of the diff shown are contents, and its hunks are hunks.
LEMMA SidesAre ==
    ASSUME NEW r \in Repos, NEW op
    PROVE  /\ Sides(r, op)[1] \in Contents /\ Sides(r, op)[2] \in Contents
           /\ DiffShown(r, op) \in SUBSET (0..9)
  <1>1. Sides(r, op)[1] \in Contents /\ Sides(r, op)[2] \in Contents
    BY RepoShape, TipIsTree DEF Sides, Trees
  <1>2. ASSUME NEW a \in Contents, NEW b \in Contents PROVE Diff(a, b) \in SUBSET (0..9)
    BY DEF Diff, Contents, Absent
  <1> QED BY <1>1, <1>2 DEF DiffShown

\* The hunks picked by their place are those seen, while nobody changes the diff.
LEMMA ReadDiffServes ==
    ASSUME GitInv, NEW h \in Calls, ReadDiff(h)
    PROVE  StepServes(h)
  <1> DEFINE c == calls[h]  n == calls'[h]
             sides == Sides(repo, c.op)
             picked == {x \in DiffShown(repo, c.op) : Place(DiffShown(repo, c.op), x) \in c.pick}
             todo == <<Decoded(sides[1]), Decoded(sides[2]), picked>>
             change == [at |-> "patch", todo |-> todo]
  <1>1. CASE Refuse(h)
    BY <1>1, RefuseServes DEF GitInv
  <1>2. CASE Look(h, change) /\ ~(c.op = "hunks" /\ sides[1] = Absent)
    <2>1. c.op \in {"hunks", "reverse"} /\ c.at = "resolved" /\ Set(h, change)
      BY <1>2 DEF ReadDiff, Look, Then
    <2>2. /\ n.op = c.op /\ n.at = "patch" /\ n.seen = c.seen
          /\ n.todo = todo
      <3>1. DOMAIN change = {"at", "todo"} /\ change.at = "patch" /\ change.todo = todo
        OBVIOUS
      <3> HIDE DEF change, todo
      <3> QED BY <2>1, <3>1, MovesOn DEF GitInv
    <2>3. ASSUME c.clean PROVE HunksFollow(n, repo)
      <3>1. HunksFollow(c, repo)
        BY <2>1, <2>3, Undisturbed DEF Told
      <3>2. c.pick = {Place(DiffShown(repo, c.op), x) : x \in c.seen} /\ c.seen \subseteq DiffShown(repo, c.op)
        BY <2>1, <3>1 DEF HunksFollow
      <3>3. DiffShown(repo, c.op) \in SUBSET (0..9)
        BY SidesAre, CallShape DEF GitInv
      <3>4. picked = c.seen
        BY <3>2, <3>3, PlacesPick
      <3> HIDE DEF picked
      <3> QED BY <1>2, <2>2, <3>1, <3>4 DEF HunksFollow
    <2> HIDE DEF todo, sides
    <2> QED BY <1>2, <2>1, <2>2, <2>3, LookServes DEF HasMoved
  <1>3. Refuse(h) \/ (Look(h, change) /\ ~(c.op = "hunks" /\ sides[1] = Absent))
    BY Zenon DEF ReadDiff, DiffShown
  <1> QED BY <1>1, <1>2, <1>3

\* Places of a file have lines of their own.
LEMMA LinesDiffer ==
    ASSUME NEW places \in SUBSET (1..9), NEW x \in 1..9
    PROVE  /\ x \in places => Lines(x) \subseteq LinesAt(places)
           /\ x \notin places => Lines(x) \cap LinesAt(places) = {}
           /\ LinesAt(places) \subseteq 1..18
  BY DEF LinesAt, Lines, Left

\* Some hunks of a diff taken change nothing but those hunks, and leave of them
\* what decoding leaves of what they lead to.
LEMMA TakenIsDiff ==
    ASSUME NEW a \in Contents, NEW b \in Contents, NEW seen, seen # {},
           seen \subseteq Diff(a, b) \/ seen \subseteq Diff(b, a)
    PROVE  LET taken == Flip(a, seen, Decoded(b))
           IN /\ Diff(a, taken) \subseteq seen
              /\ Diff(Decoded(taken), Decoded(b)) \cap seen = {}
  <1> DEFINE taken == Flip(a, seen, Decoded(b))
  <1>1. CASE Absent \in {a, b}
    <2>1. seen = {0} /\ a # b
      BY <1>1 DEF Diff
    <2>2. taken = Decoded(b)
      BY <2>1 DEF Flip
    <2>3. Absent \in {a, Decoded(b)}
      BY <1>1, DecodedIs
    <2>4. Diff(a, Decoded(b)) \subseteq {0}
      BY <2>3, DiffIs
    <2>5. Decoded(Decoded(b)) = Decoded(b)
      BY DecodedIs
    <2>6. Diff(Decoded(b), Decoded(b)) = {}
      BY DEF Diff
    <2> HIDE DEF taken
    <2> QED BY <2>1, <2>2, <2>4, <2>5, <2>6 DEF taken
  <1>2. CASE Absent \notin {a, b}
    <2>1. a \in SUBSET (1..18) /\ seen \in SUBSET (1..9) /\ seen # {0}
      BY <1>2 DEF Contents, Diff
    <2> DEFINE lines == LinesAt(seen)  new == Decoded(b)
    <2>2. taken = (a \ lines) \cup (new \cap lines)
      BY <2>1 DEF Flip
    <2>3. lines \subseteq 1..18 /\ new \in SUBSET (1..18) /\ new \cap Lossy = {}
      BY <1>2, <2>1, LinesDiffer, DecodedIs
    <2> HIDE DEF taken, lines, new
    <2>4. ASSUME NEW x \in Diff(a, taken) PROVE x \in seen
      <3>1. a # Absent /\ taken # Absent
        BY <2>1, <2>2, <2>3 DEF Absent
      <3>2. x \in 1..9 /\ a \cap Lines(x) # taken \cap Lines(x)
        BY <3>1, <2>4 DEF Diff
      <3> SUFFICES ASSUME x \notin seen PROVE FALSE
        OBVIOUS
      <3>3. Lines(x) \cap lines = {}
        BY <2>1, <3>2, LinesDiffer DEF lines
      <3> QED BY <2>2, <3>2, <3>3
    <2>5. ASSUME NEW x \in seen PROVE x \notin Diff(Decoded(taken), new)
      <3>1. Lines(x) \subseteq lines /\ x \in 1..9
        BY <2>1, LinesDiffer DEF lines
      <3>2. ASSUME NEW y \in Lines(x) PROVE y \in Decoded(taken) <=> y \in new
        <4>1. y \in new => y \in Decoded(taken)
          BY <2>2, <2>3, <3>1 DEF Decoded
        <4>2. ASSUME y \in Decoded(taken) PROVE y \in new
          <5>1. PICK z \in taken : y = IF z \in Lossy THEN Left(z) ELSE z
            BY <4>2 DEF Decoded
          <5>2. CASE z \notin Lossy
            BY <5>1, <5>2, <2>2, <3>1
          <5>3. CASE z \in Lossy
            <6>1. z \in 1..8 /\ y = z + 9
              BY <5>1, <5>3, GitAssumption DEF Left
            <6>2. z = x
              BY <3>1, <6>1 DEF Lines, Left
            <6>3. z \in Lines(x)
              BY <6>2 DEF Lines
            <6> QED BY <2>2, <2>3, <3>1, <5>3, <6>3
          <5> QED BY <5>2, <5>3
        <4> QED BY <4>1, <4>2
      <3>3. Decoded(taken) \cap Lines(x) = new \cap Lines(x)
        BY <3>2
      <3> QED BY <3>1, <3>3 DEF Diff
    <2> QED BY <2>4, <2>5 DEF new, taken
  <1> QED BY <1>1, <1>2

\* The patch applied is of the hunks picked, in the direction asked for.
LEMMA ApplyHunksServes ==
    ASSUME GitInv, NEW h \in Calls, ApplyHunks(h)
    PROVE  StepServes(h)
  <1> DEFINE c == calls[h]
             new == IF c.op = "hunks" THEN c.todo[2] ELSE c.todo[1]
             d == Flip(repo.index.f, c.todo[3], new)
  <1>1. CASE Refuse(h)
    BY <1>1, RefuseServes DEF GitInv
  <1>2. CASE End(h, [repo EXCEPT !.index.f = d])
    <2>1. c.at = "patch" /\ c.op \in {"hunks", "reverse"}
      BY CallShape DEF ApplyHunks, GitInv, CallTyped
    <2>2. repo' = [repo EXCEPT !.index.f = d] /\ Set(h, [Calm EXCEPT !.at = "served"])
      BY <1>2 DEF End, Then
    <2>3. ASSUME c.clean PROVE Serves(h)
      <3> DEFINE a == repo.index.f  b == Goal(repo, c.op)
      <3>1. HunksFollow(c, repo) /\ repo = Was(c) /\ repo \in Repos
        BY <2>1, <2>3, Undisturbed DEF Told, HasMoved
      <3>2. /\ c.seen # {} /\ c.seen \subseteq DiffShown(repo, c.op)
            /\ c.todo = <<Decoded(Sides(repo, c.op)[1]), Decoded(Sides(repo, c.op)[2]), c.seen>>
        BY <2>1, <3>1 DEF HunksFollow
      <3>3. c.todo[1] = Decoded(Sides(repo, c.op)[1]) /\ c.todo[2] = Decoded(Sides(repo, c.op)[2])
            /\ c.todo[3] = c.seen
        BY <3>2
      <3>4. a \in Contents /\ b \in Contents
        BY <3>1, RepoShape, TipIsTree DEF Goal, Trees
      <3>5. c.seen \subseteq Diff(a, b) \/ c.seen \subseteq Diff(b, a)
        BY <2>1, <3>2 DEF DiffShown, Sides, Goal
      <3>6. d = Flip(a, c.seen, Decoded(b))
        BY <2>1, <3>3 DEF Sides, Goal
      <3> HIDE DEF a, b, d
      <3>7. Diff(a, d) \subseteq c.seen /\ Diff(Decoded(d), Decoded(b)) \cap c.seen = {}
        BY <3>2, <3>4, <3>5, <3>6, TakenIsDiff
      <3>8. repo'.index.f = d /\ repo'.work = repo.work
        BY <2>2, <3>1, RepoShape DEF RepoFields
      <3> QED BY <2>1, <3>1, <3>7, <3>8 DEF Serves, Was, a, b
    <2> QED BY <2>2, <2>3, EndServes DEF GitInv
  <1>3. Refuse(h) \/ End(h, [repo EXCEPT !.index.f = d])
    BY DEF ApplyHunks
  <1> QED BY <1>1, <1>2, <1>3

-----------------------------------------------------------------------------
(* Conflicts, discards and removals.                                         *)

\* A conflict found brings the resolution further.
LEMMA CheckConflictServes ==
    ASSUME GitInv, NEW h \in Calls, CheckConflict(h)
    PROVE  StepServes(h)
  <1> DEFINE c == calls[h]  n == calls'[h]
  <1>1. CASE Refuse(h)
    BY <1>1, RefuseServes DEF GitInv
  <1>2. CASE Look(h, [at |-> "conflict"]) /\ Conflicted(repo, "f")
    <2>1. c.op = "resolve" /\ c.at = "resolved" /\ Set(h, [at |-> "conflict"])
      BY <1>2 DEF CheckConflict, Stands, Look, Then
    <2>2. n.op = c.op /\ n.at = "conflict"
      BY <2>1, MovesOn DEF GitInv
    <2>3. ResolveFollows(n, repo)
      BY <1>2, <2>2 DEF ResolveFollows
    <2> QED BY <1>2, <2>1, <2>2, <2>3, LookServes DEF HasMoved
  <1> QED BY <1>1, <1>2 DEF CheckConflict

\* The resolution written is the one asked for.
LEMMA WriteResolutionServes ==
    ASSUME GitInv, NEW h \in Calls, WriteResolution(h)
    PROVE  StepServes(h)
  <1> DEFINE c == calls[h]  n == calls'[h]  r == [repo EXCEPT !.work.f = Chosen(c, repo)]
  <1>1. c.op = "resolve" /\ c.at = "conflict"
    BY DEF WriteResolution, Stands
  <1>2. (c.todo = <<>> /\ End(h, r)) \/ Then(h, r, [at |-> "written"])
    BY DEF WriteResolution, Chosen
  <1>3. r.work.f = Chosen(c, repo)
    <2>1. r.work = [repo.work EXCEPT !.f = Chosen(c, repo)] /\ DOMAIN repo.work = {"f", "g"}
      BY <1>1, ChosenIs DEF GitInv
    <2> HIDE DEF r
    <2> QED BY <2>1
  <1>4. ASSUME c.clean
        PROVE  Was(c) \in Repos /\ repo = Was(c) /\ nested = Under(c) /\ Conflicted(repo, "f")
    BY <1>1, <1>4, Undisturbed DEF Told, HasMoved, ResolveFollows
  <1> HIDE DEF r
  <1>5. CASE c.todo = <<>> /\ End(h, r)
    <2>1. repo' = r /\ Set(h, [Calm EXCEPT !.at = "served"])
      BY <1>5 DEF End, Then
    <2>2. ASSUME c.clean PROVE Serves(h)
      <3>1. repo'.work.f = IF c.branch = "manual" THEN c.seen
                           ELSE c.before[1].conflict.f[IF c.branch = "ours" THEN 1 ELSE 2]
        BY <1>3, <1>4, <2>1, <2>2 DEF Chosen, Was
      <3> QED BY <1>1, <1>5, <3>1 DEF Serves
    <2> QED BY <2>1, <2>2, EndServes DEF GitInv
  <1>6. CASE Then(h, r, [at |-> "written"])
    <2>1. repo' = r /\ nested' = nested /\ Set(h, [at |-> "written"])
      BY <1>6 DEF Then
    <2>2. /\ n.op = c.op /\ n.at = "written" /\ n.clean = c.clean /\ n.before = c.before
          /\ n.seen = c.seen /\ n.branch = c.branch
      BY <2>1, MovesOn DEF GitInv
    <2>3. c.clean => ResolveFollows(n, repo') /\ Was(n) \in Repos /\ nested' = Under(n)
      BY <1>3, <1>4, <2>1, <2>2 DEF ResolveFollows, Was, Under, Chosen
    <2>4. c.clean => Follows(n, repo', nested')
      BY <1>1, <2>2, <2>3 DEF Follows, HasMoved
    <2> QED BY <2>2, <2>4, NotServedYet DEF GitInv
  <1> QED BY <1>2, <1>5, <1>6

\* The resolution staged is the one written.
LEMMA StageResolutionServes ==
    ASSUME GitInv, NEW h \in Calls, StageResolution(h)
    PROVE  StepServes(h)
  <1> DEFINE c == calls[h]  r == Add(repo, F)
  <1>1. c.op = "resolve" /\ c.at = "written" /\ repo' = r /\ Set(h, [Calm EXCEPT !.at = "served"])
    BY DEF StageResolution, Stands, End, Then
  <1>2. /\ r.work = repo.work /\ r.index.f = repo.work.f /\ r.conflict.f = <<>>
    <2>1. F \in Targets /\ Held(F) = {"f"}
      BY HeldIs DEF Targets
    <2> QED BY <2>1, AddIs, CallShape DEF GitInv, SameBut
  <1>3. ASSUME c.clean PROVE Serves(h)
    <2>1. repo.work.f = Chosen(c, Was(c)) /\ Conflicted(Was(c), "f")
      BY <1>1, <1>3, Undisturbed DEF Told, ResolveFollows
    <2>2. repo'.work.f = IF c.branch = "manual" THEN c.seen
                         ELSE c.before[1].conflict.f[IF c.branch = "ours" THEN 1 ELSE 2]
      BY <1>1, <1>2, <2>1 DEF Chosen, Was
    <2>3. ~Conflicted(repo', "f") /\ repo'.index.f = repo'.work.f
      BY <1>1, <1>2 DEF Conflicted
    <2> QED BY <1>1, <2>2, <2>3 DEF Serves
  <1> QED BY <1>1, <1>3, EndServes DEF GitInv

\* A path that git does not track holds no file of the last commit.
LEMMA UntrackedIs ==
    ASSUME NEW r \in Repos, NEW t \in Targets,
           Tracked(r, t) = {}, Untracked(r, t) # {}
    PROVE  \A x \in Held(t) : r.index[x] = Absent /\ Tip(r)[x] = Absent
  <1>1. \A x \in Held(t) : r.index[x] = Tip(r)[x]
    BY DEF Tracked
  <1>2. CASE t # F /\ nested.there
    BY <1>2, HeldIs
  <1>3. CASE t = F \/ ~nested.there
    <2>1. IsWithin(D, t) => ~nested.there
      BY <1>3, Within, PathsDiffer
    <2>2. PICK x \in Held(t) : r.index[x] = Absent
      BY <2>1 DEF Untracked
    <2>3. \A y \in Held(t) : y = x
      BY <2>2, HeldIs
    <2> QED BY <1>1, <2>2, <2>3
  <1> QED BY <1>2, <1>3

\* The way of a discard is that of the status it read.
LEMMA ReadStatusServes ==
    ASSUME GitInv, NEW h \in Calls, ReadStatus(h)
    PROVE  StepServes(h)
  <1> DEFINE c == calls[h]  n == calls'[h]
  <1>0. c.op \in {"discard", "delete"} /\ c.at = "resolved" /\ c.target \in Targets /\ repo \in Repos
    BY CallShape DEF ReadStatus, Stands, GitInv, CallTyped
  <1>1. CASE Refuse(h)
    BY <1>1, RefuseServes DEF GitInv
  <1>2. CASE Look(h, [at |-> "remove"]) /\ c.op = "delete"
    <2>1. n.op = c.op /\ n.at = "remove"
      <3>1. Set(h, [at |-> "remove"])
        BY <1>2 DEF Look, Then
      <3> QED BY <3>1, MovesOn DEF GitInv
    <2> QED BY <1>0, <1>2, <2>1, LookServes DEF HasMoved
  <1>3. CASE c.op = "discard" /\ ~Refuse(h)
    <2> DEFINE tracked == Tracked(repo, c.target) # {}
               a == IF tracked THEN "indexed" ELSE "remove"
               b == IF tracked /\ HasCommits(repo) THEN "restore" ELSE NoBranch
    <2>1. Look(h, [at |-> a, branch |-> b]) /\ (tracked \/ Untracked(repo, c.target) # {})
      BY <1>3 DEF ReadStatus, Stands
    <2>2. /\ a = "indexed" <=> tracked
          /\ b = "restore" <=> tracked /\ HasCommits(repo)
          /\ a \in {"indexed", "remove"}
      BY DEF NoBranch
    <2> HIDE DEF a, b
    <2>3. repo' = repo /\ nested' = nested /\ Set(h, [at |-> a, branch |-> b])
      BY <2>1 DEF Look, Then
    <2>4. /\ n.op = c.op /\ n.at = a /\ n.branch = b /\ n.target = c.target
          /\ n.clean = c.clean /\ n.before = c.before
      <3>1. DOMAIN [at |-> a, branch |-> b] = {"at", "branch"}
        OBVIOUS
      <3> QED BY <2>3, <3>1, MovesOn DEF GitInv
    <2>5. ASSUME c.clean
          PROVE  /\ DiscardFollows(n, repo, nested) /\ Was(n) \in Repos /\ Was(n) = repo
                 /\ nested = Under(n)
      <3>1. Was(n) = repo /\ nested = Under(n)
        BY <1>0, <1>3, <2>4, <2>5, Undisturbed DEF Told, HasMoved, Was, Under
      <3>2. Held(c.target) = HeldIn(c.target, nested.there)
        BY <1>0, HeldInIs
      <3>3. a = "remove" => \A x \in Held(c.target) : repo.index[x] = Absent /\ Tip(repo)[x] = Absent
        BY <1>0, <2>1, <2>2, <3>1, UntrackedIs
      <3> QED BY <1>0, <2>2, <2>4, <3>1, <3>2, <3>3 DEF DiscardFollows
    <2>6. c.clean => Follows(n, repo, nested)
      BY <1>3, <2>2, <2>4, <2>5 DEF Follows
    <2> QED BY <2>2, <2>3, <2>4, <2>6, NotServedYet DEF GitInv
  <1> QED BY <1>0, <1>1, <1>2, <1>3 DEF ReadStatus, Stands

\* The index of a discarded path becomes that of the last commit.
LEMMA UnindexServes ==
    ASSUME GitInv, NEW h \in Calls, Unindex(h)
    PROVE  StepServes(h)
  <1> DEFINE c == calls[h]  n == calls'[h]  t == c.target
             r == IF c.branch # "restore" THEN RemoveCached(repo, t)
                  ELSE IF HasCommits(repo) THEN Reset(repo, t) ELSE repo
  <1>1. c.op = "discard" /\ c.at = "indexed" /\ t \in Targets /\ repo \in Repos
    BY CallShape DEF Unindex, Stands, CallTyped, GitInv
  <1>2. repo' = r /\ nested' = nested /\ Set(h, [at |-> "remove"])
    BY DEF Unindex, Then
  <1>3. /\ n.op = c.op /\ n.at = "remove" /\ n.branch = c.branch /\ n.target = t
        /\ n.clean = c.clean /\ n.before = c.before
    BY <1>2, MovesOn DEF GitInv
  <1>4. ASSUME c.clean PROVE DiscardFollows(n, r, nested) /\ Was(n) \in Repos /\ nested = Under(n)
    <2>1. /\ Was(c) = repo /\ Was(n) = repo /\ nested = Under(n)
          /\ c.branch = "restore" <=> HasCommits(repo)
      BY <1>1, <1>3, <1>4, Undisturbed DEF Told, HasMoved, DiscardFollows, Was, Under
    <2>2. Held(t) = HeldIn(t, nested.there)
      BY <1>1, HeldInIs
    <2>3. /\ SameBut(r, repo)
          /\ \A x \in {"f", "g"} : r.index[x] = IF x \in Held(t) THEN Tip(repo)[x] ELSE repo.index[x]
          /\ c.branch # "restore" => Tip(repo) = NoTree
      <3>1. CASE HasCommits(repo)
        BY <1>1, <2>1, <3>1, ResetIs
      <3>2. CASE ~HasCommits(repo)
        <4>1. Tip(repo) = NoTree /\ NoTree.f = Absent /\ NoTree.g = Absent
          BY <1>1, <3>2, TipIsTree DEF NoTree
        <4> QED BY <1>1, <2>1, <3>2, <4>1, RemoveCachedIs
      <3> QED BY <3>1, <3>2
    <2> HIDE DEF r
    <2>4. Tip(r) = Tip(repo) /\ r.work = repo.work
      BY <2>3 DEF SameBut, Tip, HasCommits
    <2>5. NoTree.f = Absent /\ NoTree.g = Absent /\ Held(t) \subseteq {"f", "g"}
      BY <1>1, HeldIs DEF NoTree
    <2> QED BY <1>1, <1>3, <2>1, <2>2, <2>3, <2>4, <2>5 DEF DiscardFollows
  <1>5. c.clean => Follows(n, r, nested)
    BY <1>1, <1>3, <1>4 DEF Follows, HasMoved
  <1> QED BY <1>2, <1>3, <1>5, NotServedYet DEF GitInv

\* What a discard leaves of the files that were the project's when it began.
AsDiscarded(c, r) ==
    \A x \in {"f", "g"} : IF x \in HeldIn(c.target, Under(c).there)
                         THEN {r.work[x], r.index[x]} = {Tip(Was(c))[x]}
                         ELSE \/ IsWithin(Tracks[x], c.target)
                              \/ r.work[x] = Was(c).work[x] /\ r.index[x] = Was(c).index[x]
LEMMA DiscardedServes ==
    ASSUME NEW h \in Calls, calls[h].op = "discard", calls[h].target \in Targets,
           AsDiscarded(calls[h], repo'), nested.there => Under(calls[h]).there
    PROVE  Serves(h)
  <1> DEFINE c == calls[h]  t == c.target
             files == {x \in Held(t) : ~(x = "g" /\ c.before[2].there)}
  <1>1. Held(t) = HeldIn(t, nested.there) /\ Held(t) \subseteq {"f", "g"}
    BY HeldInIs
  <1>2. files = HeldIn(t, Under(c).there)
    BY <1>1 DEF HeldIn, Under
  <1>3. \A x \in Names : IF x \in files THEN {repo'.work[x], repo'.index[x]} = {Tip(c.before[1])[x]}
                        ELSE \/ IsWithin(Tracks[x], t)
                             \/ /\ repo'.work[x] = c.before[1].work[x]
                                /\ repo'.index[x] = c.before[1].index[x]
    BY <1>2, PathsDiffer DEF AsDiscarded, Was
  <1> HIDE DEF c
  <1>4. c.op = "discard"
    BY DEF c
  <1> QED BY <1>3, <1>4 DEF Serves, c

\* A path that is removed is gone from the disk, and from the index.
LEMMA RemovePathServes ==
    ASSUME GitInv, NEW h \in Calls, RemovePath(h)
    PROVE  StepServes(h)
  <1> DEFINE c == calls[h]  n == calls'[h]  t == c.target
             work == [x \in Names |-> IF IsWithin(Tracks[x], t) THEN Absent ELSE repo.work[x]]
             change == IF c.branch = "restore" THEN [at |-> "restore"] ELSE [Calm EXCEPT !.at = "served"]
  <1>1. c.op \in {"discard", "delete"} /\ c.at = "remove" /\ t \in Targets /\ repo \in Repos
    BY CallShape DEF RemovePath, CallTyped, GitInv
  <1>2. /\ repo' = [repo EXCEPT !.work = work] /\ Set(h, change)
        /\ nested' = IF IsWithin(D, t) THEN [nested EXCEPT !.there = FALSE, !.linked = FALSE, !.head = 0]
                     ELSE nested
    BY DEF RemovePath
  <1>3. \A x \in {"f", "g"} : work[x] = IF IsWithin(Tracks[x], t) THEN Absent ELSE repo.work[x]
    BY PathsDiffer
  <1> HIDE DEF work
  <1>4. repo'.work = work /\ repo'.index = repo.index /\ repo'.tips = repo.tips /\ repo'.at = repo.at
    BY <1>1, <1>2, RepoShape DEF RepoFields
  <1>5. \A x \in Held(t) : repo'.work[x] = Absent
    BY <1>3, <1>4, PathsDiffer DEF Held
  <1>6. CASE c.op = "delete"
    <2>1. ASSUME c.clean PROVE Serves(h)
      <3>1. repo = Was(c)
        BY <1>1, <1>6, <2>1, Undisturbed DEF Told, HasMoved
      <3> QED BY <1>4, <1>5, <1>6, <3>1 DEF Serves, Was
    <2>2. CASE c.branch = "restore"
      <3>1. n.op = c.op /\ n.at = "restore" /\ n.clean = c.clean /\ n.before = c.before
        BY <1>2, <2>2, MovesOn DEF GitInv
      <3>2. c.clean => Was(n) \in Repos
        BY <1>1, <1>6, <3>1, Undisturbed DEF Told, Was
      <3>3. c.clean => Follows(n, repo', nested')
        BY <1>6, <3>1, <3>2 DEF Follows, HasMoved
      <3> QED BY <3>1, <3>3, NotServedYet DEF GitInv
    <2>3. CASE c.branch # "restore"
      BY <1>2, <2>1, <2>3, EndServes DEF GitInv
    <2> QED BY <2>2, <2>3
  <1>7. CASE c.op = "discard"
    <2> DEFINE files == HeldIn(t, Under(c).there)
    <2>1. ASSUME c.clean
          PROVE  /\ DiscardFollows(c, repo, nested) /\ Was(c) \in Repos
                 /\ nested'.there => Under(c).there
                 /\ \A x \in {"f", "g"} : /\ x \in files => repo'.work[x] = Absent
                                          /\ ~IsWithin(Tracks[x], t) => repo'.work[x] = Was(c).work[x]
      <3>1. DiscardFollows(c, repo, nested) /\ Was(c) \in Repos
        BY <1>7, <2>1, Undisturbed DEF Told
      <3>2. \A x \in {"f", "g"} : repo.work[x] = Was(c).work[x]
        BY <1>1, <3>1 DEF DiscardFollows
      <3>3. \A x \in files : IsWithin(Tracks[x], t)
        BY <1>1, HeldInIs
      <3>4. nested'.there => nested.there
        BY <1>2
      <3>5. nested.there => Under(c).there
        BY <3>1 DEF DiscardFollows
      <3> QED BY <1>3, <1>4, <3>1, <3>2, <3>3, <3>4, <3>5
    <2>2. Tip(repo') = Tip(repo)
      BY <1>4 DEF Tip, HasCommits
    <2>3. CASE c.branch = "restore"
      <3>1. /\ n.op = c.op /\ n.at = "restore" /\ n.clean = c.clean /\ n.before = c.before
            /\ n.target = t /\ n.branch = c.branch
        BY <1>2, <2>3, MovesOn DEF GitInv
      <3>2. ASSUME c.clean PROVE DiscardFollows(n, repo', nested') /\ Was(n) \in Repos
        <4>1. Was(n) = Was(c) /\ Under(n) = Under(c)
          BY <3>1 DEF Was, Under
        <4>2. /\ Tip(repo') = Tip(Was(c))
              /\ \A x \in {"f", "g"} : repo'.index[x] = IF x \in files THEN Tip(repo')[x] ELSE Was(c).index[x]
          BY <1>1, <1>4, <2>1, <2>2, <3>2 DEF DiscardFollows
        <4>3. /\ nested'.there => Under(c).there
              /\ \A x \in {"f", "g"} : /\ x \in files => repo'.work[x] = Absent
                                       /\ ~IsWithin(Tracks[x], t) => repo'.work[x] = Was(c).work[x]
          BY <2>1, <3>2
        <4>4. files = HeldIn(n.target, Under(n).there)
          BY <3>1, <4>1
        <4> HIDE DEF files, c, n
        <4>5. n.at = "restore" /\ n.branch = "restore"
          BY <2>3, <3>1
        <4> QED BY <2>1, <3>1, <3>2, <4>1, <4>2, <4>3, <4>4, <4>5 DEF DiscardFollows
      <3>3. c.clean => Follows(n, repo', nested')
        BY <1>7, <3>1, <3>2 DEF Follows, HasMoved
      <3> QED BY <3>1, <3>3, NotServedYet DEF GitInv
    <2>4. CASE c.branch # "restore"
      <3>1. ASSUME c.clean PROVE Serves(h)
        <4>1. /\ Tip(repo) = Tip(Was(c))
              /\ \A x \in {"f", "g"} : repo.index[x] = IF x \in files THEN Tip(repo)[x] ELSE Was(c).index[x]
              /\ \A x \in files : Tip(repo)[x] = Absent
          BY <1>1, <2>1, <2>4, <3>1 DEF DiscardFollows
        <4>2. AsDiscarded(c, repo')
          <5>1. ASSUME NEW x \in {"f", "g"}
                PROVE  IF x \in files THEN {repo'.work[x], repo'.index[x]} = {Tip(Was(c))[x]}
                       ELSE \/ IsWithin(Tracks[x], t)
                            \/ repo'.work[x] = Was(c).work[x] /\ repo'.index[x] = Was(c).index[x]
            <6> HIDE DEF files, c
            <6>1. CASE x \in files
              BY <1>4, <2>1, <3>1, <4>1, <6>1
            <6>2. CASE x \notin files
              BY <1>4, <2>1, <3>1, <4>1, <6>2
            <6> QED BY <6>1, <6>2
          <5> QED BY <5>1 DEF AsDiscarded
        <4>3. nested.there => Under(c).there
          BY <2>1, <3>1 DEF DiscardFollows
        <4> QED BY <1>1, <1>7, <4>2, <4>3, DiscardedServes DEF GitInv
      <3> QED BY <1>2, <2>4, <3>1, EndServes DEF GitInv
    <2> QED BY <2>3, <2>4
  <1> QED BY <1>1, <1>6, <1>7

\* A path that is restored is as in the last commit.
LEMMA RestoreServes ==
    ASSUME GitInv, NEW h \in Calls, Restore(h)
    PROVE  StepServes(h)
  <1> DEFINE c == calls[h]  t == c.target
             work == [x \in Names |->
                 IF x \in Held(t) /\ {Tip(repo)[x], repo.index[x]} # {Absent} THEN Tip(repo)[x]
                 ELSE repo.work[x]]
  <1>1. c.op = "discard" /\ c.at = "restore" /\ t \in Targets /\ repo \in Repos
    BY CallShape DEF Restore, Stands, CallTyped, GitInv
  <1>2. repo' = [repo EXCEPT !.work = work] /\ Set(h, [Calm EXCEPT !.at = "served"])
    BY DEF Restore, End, Then
  <1>3. \A x \in {"f", "g"} : work[x] = IF x \in Held(t) /\ {Tip(repo)[x], repo.index[x]} # {Absent}
                                        THEN Tip(repo)[x] ELSE repo.work[x]
    BY PathsDiffer
  <1> HIDE DEF work
  <1>4. repo'.work = work /\ repo'.index = repo.index
    BY <1>1, <1>2, RepoShape DEF RepoFields
  <1>5. ASSUME c.clean PROVE Serves(h)
    <2> DEFINE files == HeldIn(t, Under(c).there)
    <2>1. DiscardFollows(c, repo, nested) /\ Held(t) = HeldIn(t, nested.there)
      BY <1>1, <1>5, Undisturbed, HeldInIs DEF Told
    <2>2. /\ Tip(repo) = Tip(Was(c)) /\ (nested.there => Under(c).there)
          /\ \A x \in {"f", "g"} :
                /\ repo.index[x] = IF x \in files THEN Tip(repo)[x] ELSE Was(c).index[x]
                /\ x \in files => repo.work[x] = Absent
                /\ ~IsWithin(Tracks[x], t) => repo.work[x] = Was(c).work[x]
      BY <1>1, <2>1 DEF DiscardFollows
    <2>3. files \subseteq Held(t)
      BY <2>1, <2>2 DEF HeldIn
    <2>4. \A x \in {"f", "g"} : ~IsWithin(Tracks[x], t) => x \notin Held(t)
      BY <1>1, HeldInIs
    <2>5. AsDiscarded(c, repo')
      BY <1>1, <1>3, <1>4, <2>2, <2>3, <2>4 DEF AsDiscarded
    <2> QED BY <1>1, <2>2, <2>5, DiscardedServes DEF GitInv
  <1> QED BY <1>2, <1>5, EndServes DEF GitInv

-----------------------------------------------------------------------------
(* Commits.                                                                  *)

\* The paths of a commit enter the index one after the other.
LEMMA AddNextServes ==
    ASSUME GitInv, NEW h \in Calls, AddNext(h)
    PROVE  StepServes(h)
  <1> DEFINE c == calls[h]  n == calls'[h]  r == Add(repo, c.target)
  <1>1. /\ c.op = "commit" /\ c.at = "resolved" /\ c.target \in Targets
        /\ repo \in Repos /\ nested \in Subs
    BY CallShape DEF AddNext, Stands, CallTyped, GitInv
  <1>2. CASE Refuse(h)
    BY <1>2, RefuseServes DEF GitInv
  <1>3. /\ SameBut(r, repo)
        /\ \A x \in {"f", "g"} : r.index[x] = IF x \in Held(c.target) THEN repo.work[x] ELSE repo.index[x]
    BY <1>1, AddIs
  <1> HIDE DEF r
  <1>4. ASSUME c.clean
        PROVE  /\ Was(c) \in Repos /\ nested = Under(c) /\ r.tips = Was(c).tips /\ r.at = Was(c).at
               /\ r.work = Was(c).work /\ r.index.f \in {Was(c).work.f, Was(c).index.f}
               /\ \A x \in HeldIn(c.target, nested.there) : r.index[x] = Was(c).work[x]
    <2>1. CommitFollows(c, repo, nested) /\ Was(c) \in Repos /\ nested = Under(c)
      BY <1>1, <1>4, Undisturbed DEF Told
    <2>2. r.tips = Was(c).tips /\ r.at = Was(c).at /\ r.work = Was(c).work /\ repo.work = Was(c).work
      BY <1>3, <2>1 DEF CommitFollows, SameBut
    <2>3. r.index.f \in {Was(c).work.f, Was(c).index.f}
      BY <1>3, <2>1, <2>2 DEF CommitFollows
    <2>4. Held(c.target) = HeldIn(c.target, nested.there) /\ HeldIn(c.target, nested.there) \subseteq {"f", "g"}
      BY <1>1, HeldInIs
    <2> QED BY <1>3, <2>1, <2>2, <2>3, <2>4
  <1>5. CASE Then(h, r, [at |-> "added"])
    <2>1. repo' = r /\ nested' = nested /\ Set(h, [at |-> "added"])
      BY <1>5 DEF Then
    <2>2. n.op = c.op /\ n.at = "added" /\ n.target = c.target /\ n.clean = c.clean /\ n.before = c.before
      BY <2>1, MovesOn DEF GitInv
    <2>3. c.clean => CommitFollows(n, r, nested) /\ Was(n) \in Repos /\ nested = Under(n)
      BY <1>4, <2>2 DEF CommitFollows, Was, Under
    <2>4. c.clean => Follows(n, r, nested)
      BY <1>1, <2>2, <2>3 DEF Follows, HasMoved
    <2> QED BY <2>1, <2>2, <2>4, NotServedYet DEF GitInv
  <1>6. CASE Then(h, r, [at |-> "asked", target |-> Head(c.todo), todo |-> Tail(c.todo)])
    <2>1. repo' = r /\ nested' = nested
          /\ Set(h, [at |-> "asked", target |-> Head(c.todo), todo |-> Tail(c.todo)])
      BY <1>6 DEF Then
    <2>2. n.op = c.op /\ n.at = "asked" /\ n.clean = c.clean /\ n.before = c.before
      BY <2>1, MovesOn DEF GitInv
    <2>3. c.clean => CommitFollows(n, r, nested) /\ Was(n) \in Repos /\ nested = Under(n)
      BY <1>4, <2>2 DEF CommitFollows, Was, Under
    <2>4. c.clean => Follows(n, r, nested)
      BY <1>1, <2>2, <2>3 DEF Follows, HasMoved
    <2> QED BY <2>1, <2>2, <2>4, NotServedYet DEF GitInv
  <1> QED BY <1>2, <1>5, <1>6 DEF AddNext, r

\* The commit holds what the paths named had on disk.
LEMMA CommitIndexServes ==
    ASSUME GitInv, NEW h \in Calls, CommitIndex(h)
    PROVE  StepServes(h)
  <1> DEFINE c == calls[h]  r == Commit(repo)
  <1>1. c.op \in {"commit", "initial"} /\ c.at = "added" /\ c.target \in Targets /\ repo \in Repos
    BY CallShape DEF CommitIndex, CallTyped, GitInv
  <1>2. CASE Refuse(h)
    BY <1>2, RefuseServes DEF GitInv
  <1>3. CASE End(h, r)
    <2>1. repo' = r /\ Set(h, [Calm EXCEPT !.at = "served"])
      BY <1>3 DEF End, Then
    <2>2. /\ r = [repo EXCEPT !.tips = r.tips] /\ Tip(r) = repo.index
          /\ Front(r.tips[repo.at]) = repo.tips[repo.at]
          /\ Len(r.tips[repo.at]) = Len(repo.tips[repo.at]) + 1
      BY <1>1, CommitIs
    <2> HIDE DEF r
    <2>3. r.at = repo.at /\ r.work = repo.work
      BY <1>1, <2>2, RepoShape DEF RepoFields
    <2>4. CASE c.op = "commit"
      <3>1. ASSUME c.clean PROVE Serves(h)
        <4>1. CommitFollows(c, repo, nested)
          BY <2>4, <3>1, Undisturbed DEF Told
        <4>2. Held(c.target) = HeldIn(c.target, nested.there)
          BY <1>1, HeldInIs
        <4>3. /\ Front(repo'.tips[repo'.at]) = c.before[1].tips[c.before[1].at]
              /\ repo'.work = c.before[1].work
          BY <2>1, <2>2, <2>3, <4>1 DEF CommitFollows, Was
        <4>4. Tip(repo') = repo.index
          BY <2>1, <2>2
        <4>5. /\ Tip(repo').f \in {c.before[1].work.f, c.before[1].index.f}
              /\ \A x \in Held(c.target) : Tip(repo')[x] = c.before[1].work[x]
          BY <1>1, <4>1, <4>2, <4>4 DEF CommitFollows, Was
        <4> QED BY <2>4, <4>3, <4>5 DEF Serves
      <3> QED BY <2>1, <3>1, EndServes DEF GitInv
    <2>5. CASE c.op = "initial"
      <3>1. ASSUME c.clean PROVE Serves(h)
        <4>1. InitialFollows(c, repo, nested)
          BY <2>5, <3>1, Undisturbed DEF Told
        <4>2. repo.tips[repo.at] = <<>> /\ repo.index.f = Was(c).work.f
              /\ (Kind = "none" /\ ~nested.there => repo.index.g = Was(c).work.g)
          BY <1>1, <4>1, KindIs DEF InitialFollows
        <4>3. Len(repo'.tips[repo'.at]) = 1
          BY <2>1, <2>2, <2>3, <4>2
        <4>4. Tip(repo') = repo.index
          BY <2>1, <2>2
        <4>5. ASSUME NEW x \in Held(<<>>), Kind = "none" \/ ~Overlaps(Tracks[x])
              PROVE  Tip(repo')[x] = c.before[1].work[x]
          <5>1. x = "f" \/ (x = "g" /\ Kind = "none" /\ ~nested.there)
            <6>1. x \in {"f", "g"} /\ (x = "g" => ~nested.there)
              BY HeldIs DEF Held
            <6>2. Overlaps(G)
              BY Within, PathsDiffer DEF Targets
            <6> QED BY <4>5, <6>1, <6>2, PathsDiffer
          <5> QED BY <4>2, <4>4, <5>1 DEF Was
        <4> QED BY <2>5, <4>3, <4>5 DEF Serves
      <3> QED BY <2>1, <3>1, EndServes DEF GitInv
    <2> QED BY <1>1, <2>4, <2>5
  <1> QED BY <1>2, <1>3 DEF CommitIndex

\* The first commit goes on with what was found in D.
LEMMA DiscoverServes ==
    ASSUME GitInv, NEW h \in Calls, Discover(h)
    PROVE  StepServes(h)
  <1> DEFINE c == calls[h]  n == calls'[h]
  <1>1. c.op = "initial" /\ c.at = "unborn" /\ Look(h, [at |-> "catalog", branch |-> Kind])
    BY DEF Discover, Stands
  <1>2. n.op = c.op /\ n.at = "catalog" /\ n.branch = Kind
    <2>1. Set(h, [at |-> "catalog", branch |-> Kind])
      BY <1>1 DEF Look, Then
    <2>2. /\ DOMAIN [at |-> "catalog", branch |-> Kind] = {"at", "branch"}
          /\ [at |-> "catalog", branch |-> Kind].at = "catalog"
          /\ [at |-> "catalog", branch |-> Kind].branch = Kind
      OBVIOUS
    <2> QED BY <2>1, <2>2, MovesOn DEF GitInv
  <1>3. ASSUME c.clean PROVE InitialFollows(n, repo, nested)
    <2>1. InitialFollows(c, repo, nested)
      BY <1>1, <1>3, Undisturbed DEF Told
    <2> QED BY <1>1, <1>2, <2>1, KindIs DEF InitialFollows
  <1> QED BY <1>1, <1>2, <1>3, LookServes DEF HasMoved

\* The index of the first commit has all files that may be added.
LEMMA AddAllServes ==
    ASSUME GitInv, NEW h \in Calls, AddAll(h)
    PROVE  StepServes(h)
  <1> DEFINE c == calls[h]  n == calls'[h]
             left == c.branch \in {"nested", "worktree", "uninitialized"}
             r == IF left THEN Add(repo, F) ELSE Add(repo, <<>>)
  <1>1. c.op = "initial" /\ c.at = "catalog" /\ repo \in Repos /\ nested \in Subs
    BY CallShape DEF AddAll, Stands, GitInv
  <1>2. CASE Refuse(h)
    BY <1>2, RefuseServes DEF GitInv
  <1>3. CASE Then(h, r, [at |-> "added"])
    <2>1. repo' = r /\ nested' = nested /\ Set(h, [at |-> "added"])
      BY <1>3 DEF Then
    <2>2. n.op = c.op /\ n.at = "added" /\ n.clean = c.clean /\ n.before = c.before
      BY <2>1, MovesOn DEF GitInv
    <2>3. /\ SameBut(r, repo) /\ r.index.f = repo.work.f
          /\ ~left /\ ~nested.there => r.index.g = repo.work.g
          /\ ~nested.there => r.index.link = repo.index.link
      <3>1. F \in Targets /\ Held(F) = {"f"} /\ ~Links(F) /\ (Links(<<>>) <=> nested.there)
            /\ Held(<<>>) = {"f"} \cup (IF nested.there THEN {} ELSE {"g"})
        BY HeldIs, PathsDiffer DEF Targets
      <3>2. CASE left
        BY <1>1, <3>1, <3>2, AddIs
      <3>3. CASE ~left
        BY <1>1, <3>1, <3>3, AddIs
      <3> QED BY <3>2, <3>3
    <2> HIDE DEF r
    <2>4. ASSUME c.clean PROVE InitialFollows(n, r, nested) /\ Was(n) \in Repos /\ nested = Under(n)
      <3>1. /\ InitialFollows(c, repo, nested) /\ repo = Was(c) /\ Was(n) = Was(c)
            /\ nested = Under(n)
        BY <1>1, <2>2, <2>4, Undisturbed DEF Told, HasMoved, Was, Under
      <3>2. r.tips[r.at] = <<>>
        BY <1>1, <2>3, <3>1 DEF InitialFollows, SameBut
      <3>3. NothingInD(r, nested) => ~left /\ ~nested.there
        BY <1>1, <2>3, <3>1 DEF InitialFollows, NothingInD, SameBut
      <3> QED BY <1>1, <2>2, <2>3, <3>1, <3>2, <3>3 DEF InitialFollows
    <2>5. c.clean => Follows(n, r, nested)
      BY <1>1, <2>2, <2>4 DEF Follows, HasMoved
    <2> QED BY <2>1, <2>2, <2>5, NotServedYet DEF GitInv
  <1> QED BY <1>2, <1>3 DEF AddAll

\* A revert takes back the last commit, and leaves index and files.
LEMMA ResetSoftServes ==
    ASSUME GitInv, NEW h \in Calls, ResetSoft(h)
    PROVE  StepServes(h)
  <1> DEFINE c == calls[h]  n == calls'[h]  commits == repo.tips[repo.at]
             r == [repo EXCEPT !.tips[repo.at] = Front(commits)]
  <1>1. c.op = "revert" /\ c.at = "born" /\ repo \in Repos
    BY CallShape DEF ResetSoft, Stands, GitInv
  <1>2. CASE Refuse(h)
    BY <1>2, RefuseServes DEF GitInv
  <1>3. CASE Look(h, [at |-> "orphan"]) /\ Len(commits) = 1
    <2>1. n.op = c.op /\ n.at = "orphan"
      <3>1. Set(h, [at |-> "orphan"])
        BY <1>3 DEF Look, Then
      <3> QED BY <3>1, MovesOn DEF GitInv
    <2>2. RevertFollows(n, repo)
      BY <1>3, <2>1 DEF RevertFollows
    <2> QED BY <1>1, <1>3, <2>1, <2>2, LookServes DEF HasMoved
  <1>4. CASE End(h, r) /\ commits # <<>>
    <2>1. commits \in Seq(Trees) /\ repo.at \in Branches
      BY <1>1, RepoShape
    <2>2. Front(commits) \in Seq(Trees)
      BY <1>4, <2>1, FrontIs
    <2>3. repo' = r /\ Set(h, [Calm EXCEPT !.at = "served"])
      BY <1>4 DEF End, Then
    <2>4. /\ r = [repo EXCEPT !.tips = [repo.tips EXCEPT ![repo.at] = Front(commits)]]
          /\ r.tips = [repo.tips EXCEPT ![repo.at] = Front(commits)]
      BY <1>1, <2>1, <2>2, WithTips
    <2> HIDE DEF r
    <2>5. r = [repo EXCEPT !.tips = r.tips]
      BY <2>4
    <2>6. r.tips[repo.at] = Front(commits)
      BY <1>1, <2>1, <2>4, RepoShape
    <2>7. ASSUME c.clean PROVE Serves(h)
      <3>1. c.before[1] = repo
        BY <1>1, <2>7, Undisturbed DEF Told, HasMoved, Was
      <3> QED BY <1>1, <2>3, <2>5, <2>6, <3>1 DEF Serves
    <2> QED BY <2>3, <2>7, EndServes DEF GitInv
  <1>5. Refuse(h) \/ (Look(h, [at |-> "orphan"]) /\ Len(commits) = 1) \/ (End(h, r) /\ commits # <<>>)
    <2>1. CASE commits = <<>>
      BY <2>1 DEF ResetSoft
    <2>2. CASE commits # <<>> /\ Len(commits) = 1
      BY <2>2 DEF ResetSoft
    <2>3. CASE commits # <<>> /\ Len(commits) # 1
      BY <2>3 DEF ResetSoft
    <2> QED BY <2>1, <2>2, <2>3
  <1> QED BY <1>2, <1>3, <1>4, <1>5

\* A revert of the only commit leaves no commit.
LEMMA DeleteHeadServes ==
    ASSUME GitInv, NEW h \in Calls, DeleteHead(h)
    PROVE  StepServes(h)
  <1> DEFINE c == calls[h]  commits == repo.tips[repo.at]
             r == [repo EXCEPT !.tips[repo.at] = <<>>]
  <1>1. c.op = "revert" /\ c.at = "orphan" /\ repo \in Repos /\ repo' = r
        /\ Set(h, [Calm EXCEPT !.at = "served"])
    BY CallShape DEF DeleteHead, Stands, GitInv, End, Then
  <1>2. commits \in Seq(Trees) /\ repo.at \in Branches /\ <<>> \in Seq(Trees)
    BY <1>1, RepoShape
  <1>3. /\ r = [repo EXCEPT !.tips = [repo.tips EXCEPT ![repo.at] = <<>>]]
        /\ r.tips = [repo.tips EXCEPT ![repo.at] = <<>>]
    BY <1>1, <1>2, WithTips
  <1> HIDE DEF r
  <1>4. r = [repo EXCEPT !.tips = r.tips]
    BY <1>3
  <1>5. r.tips[repo.at] = <<>>
    BY <1>1, <1>2, <1>3, RepoShape
  <1>6. Len(commits) = 1 => Front(commits) = <<>>
    BY <1>2 DEF Front
  <1>7. ASSUME c.clean PROVE Serves(h)
    <2>1. c.before[1] = repo /\ RevertFollows(c, repo)
      BY <1>1, <1>7, Undisturbed DEF Told, HasMoved, Was
    <2>2. Len(commits) = 1
      BY <1>1, <2>1 DEF RevertFollows
    <2> QED BY <1>1, <1>4, <1>5, <1>6, <2>1, <2>2 DEF Serves
  <1> QED BY <1>1, <1>7, EndServes DEF GitInv

\* A stash has the changes, and the files are as in the last commit.
LEMMA CreateStashServes ==
    ASSUME GitInv, NEW h \in Calls, CreateStash(h)
    PROVE  StepServes(h)
  <1> DEFINE c == calls[h]  r == IF Dirty(repo) = {} THEN repo ELSE Stash(repo)
  <1>1. c.op = "stash" /\ c.at = "asked" /\ repo \in Repos
    BY CallShape DEF CreateStash, Stands, GitInv
  <1>2. CASE Refuse(h)
    BY <1>2, RefuseServes DEF GitInv
  <1>3. CASE ~SomeConflict(repo) /\ End(h, r)
    <2>1. repo' = r /\ Set(h, [Calm EXCEPT !.at = "served"])
      BY <1>3 DEF End, Then
    <2>2. ASSUME Dirty(repo) # {}
          PROVE  (r.work # repo.work \/ r.index # repo.index) /\ Head(r.stashes).work = repo.work
      <3> DEFINE s == Stash(repo)
      <3>1. r = s
        BY <2>2
      <3>2. /\ Head(s.stashes).work = repo.work
            /\ \A x \in {"f", "g"} :
                  /\ s.work[x] = IF x \in Held(<<>>) THEN Tip(repo)[x] ELSE repo.work[x]
                  /\ s.index[x] = IF x \in Held(<<>>) THEN Tip(repo)[x] ELSE repo.index[x]
        BY <1>1, StashIs
      <3> HIDE DEF r, s
      <3>3. PICK x : x \in Dirty(repo)
        BY <2>2
      <3>4. x \in Held(<<>>) /\ x \in {"f", "g"}
        BY <3>3, PathsDiffer DEF Dirty, Tracked, Untracked
      <3>5. \/ repo.index[x] # Tip(repo)[x]
            \/ repo.work[x] # repo.index[x]
        <4>1. ~Conflicted(repo, x)
          BY <1>3, <3>4, PathsDiffer DEF SomeConflict
        <4>2. x # "d"
          BY <3>4
        <4> QED BY <3>3, <4>1, <4>2 DEF Dirty, Tracked, Untracked
      <3>6. s.work # repo.work \/ s.index # repo.index
        BY <3>2, <3>4, <3>5
      <3> QED BY <3>1, <3>2, <3>6
    <2> HIDE DEF r
    <2>3. ASSUME c.clean PROVE Serves(h)
      <3>1. c.before[1] = repo
        BY <1>1, <2>3, Undisturbed DEF Told, HasMoved, Was
      <3> QED BY <1>1, <2>1, <2>2, <3>1 DEF Serves
    <2> QED BY <2>1, <2>3, EndServes DEF GitInv
  <1> QED BY <1>2, <1>3 DEF CreateStash

\* The branch read is the one checked out, then the one it goes to.
LEMMA ReadUpstreamServes ==
    ASSUME GitInv, NEW h \in Calls, ReadUpstream(h)
    PROVE  StepServes(h)
  <1> DEFINE c == calls[h]  n == calls'[h]
  <1>1. c.op \in {"push", "pull"} /\ c.at \in {"asked", "current"}
    BY DEF ReadUpstream
  <1>2. CASE Refuse(h)
    BY <1>2, RefuseServes DEF GitInv
  <1>3. ASSUME NEW a \in {"current", "upstream"}, NEW b, Look(h, [at |-> a, branch |-> b]),
               c.clean /\ c.op = "push" => b = IF a = "current" THEN repo.at ELSE Upstream(repo)
        PROVE  StepServes(h)
    <2> DEFINE change == [at |-> a, branch |-> b]
    <2>1. DOMAIN change = {"at", "branch"} /\ change.at = a /\ change.branch = b
      OBVIOUS
    <2>2. Set(h, change) /\ Look(h, change)
      BY <1>3 DEF Look, Then
    <2> HIDE DEF change
    <2>3. n.op = c.op /\ n.at = a /\ n.branch = b
      BY <2>1, <2>2, MovesOn DEF GitInv
    <2>4. ASSUME c.clean, c.op \in Told PROVE PushFollows(n, repo)
      BY <1>1, <1>3, <2>3, <2>4 DEF PushFollows, Told
    <2> QED BY <1>1, <2>1, <2>2, <2>3, <2>4, LookServes DEF HasMoved
  <1>4. CASE c.at = "asked" /\ ~Refuse(h)
    BY <1>3, <1>4 DEF ReadUpstream
  <1>5. CASE c.at = "current"
    <2>1. c.clean /\ c.op = "push" => c.branch = repo.at
      BY <1>5, Undisturbed DEF Told, PushFollows
    <2>2. PICK b : Look(h, [at |-> "upstream", branch |-> b])
                   /\ b = IF repo.upstream[repo.at] = NoBranch THEN c.branch ELSE repo.upstream[repo.at]
      BY <1>5 DEF ReadUpstream
    <2> QED BY <1>3, <2>1, <2>2 DEF Upstream
  <1> QED BY <1>1, <1>2, <1>4, <1>5

\* The remote branch has the commits pushed.
LEMMA PushBranchServes ==
    ASSUME GitInv, NEW h \in Calls, PushBranch(h)
    PROVE  StepServes(h)
  <1> DEFINE c == calls[h]  b == c.branch
  <1>1. c.op \in {"push", "publish"} /\ c.at = "upstream" /\ b \in Branches
        /\ repo \in Repos /\ remote \in Remotes
    BY CallShape DEF PushBranch, GitInv, CallTyped
  <1>2. CASE Refuse(h)
    BY <1>2, RefuseServes DEF GitInv
  <1>3. CASE /\ remote' = [remote EXCEPT !.tips[b] = repo.tips[b]]
             /\ Set(h, [Calm EXCEPT !.at = "served"])
    <2>1. remote'.tips[b] = repo.tips[b]
      BY <1>1, <1>3 DEF Remotes
    <2>2. ASSUME c.clean PROVE Serves(h)
      <3>1. CASE c.op = "push"
        <4>1. b = Upstream(repo)
          BY <1>1, <2>2, <3>1, Undisturbed DEF Told, PushFollows
        <4>2. repo.upstream[repo.at] \in {NoBranch, repo.at} => b = repo.at
          BY <4>1 DEF Upstream
        <4> QED BY <2>1, <3>1, <4>2 DEF Serves
      <3>2. CASE c.op = "publish"
        BY <3>2 DEF Serves
      <3> QED BY <1>1, <3>1, <3>2
    <2> QED BY <1>3, <2>2, EndServes DEF GitInv
  <1> QED BY <1>2, <1>3 DEF PushBranch

\* Requests of which nothing is told.
UntoldSteps(h) ==
    \/ Stage(h) \/ Unstage(h) \/ TakeStash(h) \/ Checkout(h) \/ CreateBranch(h)
    \/ DeleteBranch(h) \/ CheckCurrent(h) \/ PullBranch(h) \/ SetRemote(h)
    \/ InitSubmodule(h) \/ InitRepository(h)

\* Steps of the requests that nothing is told of serve.
LEMMA UntoldStepsServe ==
    ASSUME GitInv, NEW h \in Calls, UntoldSteps(h)
    PROVE  StepServes(h)
  <1>1. ASSUME NEW change, Set(h, change), "op" \notin DOMAIN change, calls[h].op \notin Told
        PROVE  StepServes(h)
    <2>1. calls'[h].op = calls[h].op
      BY <1>1, SetIs, MovedIs, CallShape DEF GitInv, CallFields
    <2> QED BY <1>1, <2>1, UntoldServes
  <1>2. ASSUME NEW change, Look(h, change), "op" \notin DOMAIN change, calls[h].op \notin Told
        PROVE  StepServes(h)
    BY <1>1, <1>2 DEF Look, Then
  <1>3. ASSUME NEW a, Set(h, [Calm EXCEPT !.at = a]), calls[h].op \notin Told
        PROVE  StepServes(h)
    BY <1>3, EndsCalm, UntoldServes DEF GitInv
  <1>4. ASSUME Refuse(h) \/ \E r : End(h, r), calls[h].op \notin Told
        PROVE  StepServes(h)
    BY <1>3, <1>4 DEF Refuse, End, Then
  <1>5. CASE Stage(h) \/ Unstage(h) \/ Checkout(h) \/ CreateBranch(h) \/ PullBranch(h)
    <2>1. calls[h].op \notin Told
      BY <1>5 DEF Told, Stage, Unstage, Checkout, CreateBranch, PullBranch, Stands
    <2>2. Refuse(h) \/ \E r : End(h, r)
      <3>1. CASE Stage(h) \/ Unstage(h) \/ Checkout(h) \/ CreateBranch(h)
        BY <3>1, Zenon DEF Stage, Unstage, Checkout, CreateBranch
      <3>2. CASE PullBranch(h)
        BY <3>2, Zenon DEF PullBranch
      <3> QED BY <1>5, <3>1, <3>2
    <2> QED BY <1>4, <2>1, <2>2
  <1>6. CASE TakeStash(h)
    <2>1. calls[h].op \notin Told
      BY <1>6 DEF Told, TakeStash
    <2>2. Refuse(h) \/ (\E r : End(h, r)) \/ Set(h, [Calm EXCEPT !.at = "refused"])
      BY <1>6, Zenon DEF TakeStash, Then
    <2> QED BY <1>3, <1>4, <2>1, <2>2
  <1>7. CASE DeleteBranch(h) \/ CheckCurrent(h) \/ SetRemote(h) \/ InitRepository(h) \/ InitSubmodule(h)
    <2>1. calls[h].op \notin Told
      BY <1>7 DEF Told, DeleteBranch, CheckCurrent, SetRemote, InitRepository, InitSubmodule, Stands
    <2>2. ASSUME NEW a PROVE "op" \notin DOMAIN [at |-> a]
      OBVIOUS
    <2>3. ASSUME NEW b PROVE "op" \notin DOMAIN [at |-> "listed", branch |-> b]
      OBVIOUS
    <2>4. \/ Refuse(h) \/ (\E r : End(h, r)) \/ Set(h, [Calm EXCEPT !.at = "served"])
          \/ (\E a : Look(h, [at |-> a])) \/ (\E b : Look(h, [at |-> "listed", branch |-> b]))
      BY <1>7, Zenon DEF DeleteBranch, CheckCurrent, SetRemote, InitRepository, InitSubmodule
    <2> QED BY <1>2, <1>3, <1>4, <2>1, <2>2, <2>3, <2>4
  <1> QED BY <1>5, <1>6, <1>7 DEF UntoldSteps

-----------------------------------------------------------------------------
(* Requests that begin, steps of the others, and the theorem.                *)

\* A request that begins has come nowhere.
LEMMA BegunFollows ==
    ASSUME GitKnown, NEW change, MayBegin(change)
    PROVE  Follows(Begun(change), repo, nested)
  <1> DEFINE n == Begun(change)
  <1>1. /\ n.op = change.op /\ n.at = "asked" /\ n.before = <<repo, nested>>
        /\ "seen" \in DOMAIN change => n.seen = change.seen
        /\ "pick" \in DOMAIN change => n.pick = change.pick
    BY BegunIs DEF MayBegin
  <1> HIDE DEF n
  <1>2. Was(n) = repo /\ repo \in Repos /\ Under(n) = nested
    BY <1>1 DEF Was, Under, GitKnown, GitTyped
  <1>3. n.op \in {"hunks", "reverse"} => HunksFollow(n, repo)
    BY <1>1 DEF MayBegin, HunksFollow
  <1>4. CommitFollows(n, repo, nested)
    BY <1>1, <1>2 DEF CommitFollows
  <1>5. /\ DiscardFollows(n, repo, nested) /\ RevertFollows(n, repo) /\ ResolveFollows(n, repo)
        /\ InitialFollows(n, repo, nested) /\ PushFollows(n, repo)
    BY <1>1, <1>2 DEF DiscardFollows, RevertFollows, InitialFollows, ResolveFollows, PushFollows
  <1> QED BY <1>1, <1>2, <1>3, <1>4, <1>5 DEF Follows, n

\* So the requests under way follow, and nobody is served.
LEMMA BeginServes ==
    ASSUME GitInv, NEW h \in Calls, BeginsOf(h)
    PROVE  /\ AllFollow'
           /\ \A k \in Calls : Acts(k) /\ calls'[k].at = "served" /\ calls[k].clean => Serves(k)
  <1>1. PICK change : Begin(h, change) /\ MayBegin(change)
    BY BeginsAs
  <1>2. /\ repo' = repo /\ nested' = nested /\ calls'[h] = Begun(change)
        /\ \A k \in Calls \ {h} : calls'[k] = calls[k]
    BY <1>1, BeginSafe DEF GitInv
  <1>3. Begun(change).at = "asked"
    BY <1>1, BegunIs DEF MayBegin, GitInv
  <1>4. Follows(calls'[h], repo, nested)
    BY <1>1, <1>2, BegunFollows DEF GitInv
  <1>5. AllFollow'
    BY <1>2, <1>4 DEF AllFollow, GitInv
  <1> QED BY <1>2, <1>3, <1>5 DEF Acts

\* Steps from elsewhere disturb, and a disturbed request is owed nothing.
LEMMA ElsewhereServes ==
    ASSUME GitInv, Elsewhere
    PROVE  AllFollow'
  <1>1. calls' = [h \in Calls |-> [calls[h] EXCEPT !.clean = FALSE]]
    BY ElsewhereIs DEF GitInv, Disturb
  <1>2. ASSUME NEW k \in Calls PROVE calls'[k].clean = FALSE
    <2>1. "clean" \in DOMAIN calls[k]
      BY CallShape DEF GitInv, CallFields
    <2> QED BY <1>1, <2>1
  <1> QED BY <1>2 DEF AllFollow, Follows

\* Every step of a request serves.
LEMMA StepsServe ==
    ASSUME GitInv, NEW h \in Calls, StepsOf(h)
    PROVE  StepServes(h)
  BY UntoldStepsServe, ResolveServes, LookForCommitsServes, ReadDiffServes, ApplyHunksServes,
     CheckConflictServes, WriteResolutionServes, StageResolutionServes, ReadStatusServes,
     UnindexServes, RemovePathServes, RestoreServes, AddNextServes, CommitIndexServes,
     DiscoverServes, AddAllServes, ResetSoftServes, DeleteHeadServes, CreateStashServes,
     ReadUpstreamServes, PushBranchServes
  DEF StepsOf, UntoldSteps

\* A step that serves keeps every request on its way.
LEMMA StepKeepsAll ==
    ASSUME GitInv, NEW h \in Calls, StepsOf(h)
    PROVE  /\ AllFollow'
           /\ \A k \in Calls : Acts(k) /\ calls'[k].at = "served" /\ calls[k].clean => Serves(k)
  <1>1. StepIsSafe(h) /\ StepServes(h)
    BY StepsAreSafe, StepsServe DEF GitInv
  <1>2. OthersNotice(h)
    BY <1>1 DEF StepIsSafe
  <1>3. AllFollow'
    BY <1>1, <1>2, OthersFollow DEF GitInv, AllFollow, StepServes
  <1>4. ASSUME NEW k \in Calls \ {h} PROVE ~Acts(k)
    <2>1. /\ DOMAIN calls[k] = CallFields
          /\ calls'[k] = [calls[k] EXCEPT !.clean = @ /\ ~Notice, !.stood = @ /\ Found',
                                          !.loose = @ /\ Found' /\ repo'.index.link = 0]
      BY <1>2, CallShape, Zenon DEF GitInv, OthersNotice
    <2>2. calls'[k].at = calls[k].at
      BY <2>1 DEF CallFields
    <2> QED BY <2>2 DEF Acts
  <1> QED BY <1>1, <1>3, <1>4 DEF StepServes

\* A repository git may have, a directory that may be another, and a remote.
GitStart ==
    /\ repo \in Repos /\ nested \in Subs /\ remote \in Remotes
    /\ GitInit([repo |-> repo, nested |-> nested, remote |-> remote])
GitSpec == GitStart /\ [][GitNext]_gitVars

\* No request has begun at the start.
LEMMA GitFirst == GitStart => GitInv
  <1> SUFFICES ASSUME GitStart PROVE GitInv
    OBVIOUS
  <1>1. calls = [h \in Calls |-> Calm]
    BY DEF GitStart, GitInit
  <1>2. GitTyped
    BY <1>1 DEF GitStart, GitTyped
  <1>3. /\ DOMAIN Calm = CallFields /\ Calm.op = "none" /\ Calm.at = "idle" /\ Calm.target = F
        /\ Calm.clean = TRUE /\ Calm.stood = FALSE /\ Calm.loose = FALSE
    BY DEF Calm, CallFields
  <1>4. CallTyped(Calm)
    BY <1>3 DEF CallTyped, Free, Targets
  <1>5. WorksOutside(Calm, Found, repo.index.link) /\ Follows(Calm, repo, nested)
    BY <1>3 DEF WorksOutside, Follows, Told
  <1> QED BY <1>1, <1>2, <1>4, <1>5 DEF GitInv, GitKnown, AllFollow, Fits

\* Whatever two requests, users and agents do between two of its commands, a
\* request leaves a repository that stands in D alone and loses no version of a
\* file it was not told to give up; and one that nobody disturbed does what it
\* was asked for.
THEOREM GitIsServed == GitSpec => GitServed
  <1> DEFINE Kept2 == \A h \in Calls : Acts(h) =>
                 /\ ParentKeepsOut(h) /\ NothingLost(h)
                 /\ calls'[h].at = "served" /\ calls[h].clean => Serves(h)
  <1>1. GitInv /\ [GitNext]_gitVars => GitInv' /\ Kept2
    <2> SUFFICES ASSUME GitInv, [GitNext]_gitVars PROVE GitInv' /\ Kept2
      OBVIOUS
    <2>1. CASE UNCHANGED gitVars
      <3>1. GitKnown' /\ \A h \in Calls : ~Acts(h)
        BY <2>1, SameState DEF GitInv
      <3>2. AllFollow'
        BY <2>1 DEF GitInv, AllFollow, gitVars
      <3> QED BY <3>1, <3>2 DEF GitInv
    <2>2. CASE Elsewhere
      BY <2>2, ElsewhereKeeps, ElsewhereServes DEF GitInv
    <2>3. ASSUME NEW h \in Calls, BeginsOf(h) PROVE GitInv' /\ Kept2
      BY <2>3, BeginKeeps, BeginServes DEF GitInv
    <2>4. ASSUME NEW h \in Calls, StepsOf(h) PROVE GitInv' /\ Kept2
      BY <2>4, StepsAreSafe, GitStepKeeps, StepKeepsAll DEF GitInv
    <2> QED BY <2>1, <2>2, <2>3, <2>4, NextIs
  <1>2. GitServed <=> [][Kept2]_gitVars
    BY DEF GitServed
  <1> HIDE DEF Kept2
  <1>3. GitSpec => []GitInv
    BY <1>1, GitFirst, PTL DEF GitSpec
  <1> QED BY <1>1, <1>2, <1>3, PTL DEF GitSpec
====
