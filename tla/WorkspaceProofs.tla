---------------------------- MODULE WorkspaceProofs ----------------------------
(***************************************************************************)
(* What a finished transfer, import or export did, and on which server a   *)
(* request works, for any tables and rows, any size of a page, any number  *)
(* of requests and any size of the cache of pools; and that the cache      *)
(* keeps that size.                                                        *)
(*                                                                         *)
(* The invariant follows a request that nobody disturbed from point to     *)
(* point: what it has read are rows of its source, as many as it has       *)
(* counted, what it added to the target came from there, and where the     *)
(* target has a key no two of the rows it added share one.  So, if no row  *)
(* failed, the added rows stand for as many different rows of the source   *)
(* as the source has: for all of them, though nothing orders the pages.  A *)
(* request is disturbed when another one writes a table it works with      *)
(* (Writes takes its field clean away); it then promises nothing, and the  *)
(* step of the other request owes it nothing.  So the step of a request    *)
(* has to keep only the part of the invariant about that request.          *)
(*                                                                         *)
(* The last part is about a call of the Codex app-server, for any turn the *)
(* server may serve: what is in the pipe is true of the turn, and the      *)
(* client ends as the line it read last told it, or as someone asked.      *)
(***************************************************************************)
EXTENDS DatabaseWorkspace, CodexTurn, FiniteSetTheorems, SequenceTheorems, TLAPS

IsSeq(s) == s \in Seq({s[i] : i \in DOMAIN s})
HaveNames(cols) == \A c \in cols : "name" \in DOMAIN c
Fields == {"op", "at", "mode", "from", "to", "url", "pool", "dial", "opening", "cols",
           "todo", "read", "offset", "more", "copied", "failed", "made", "map", "seen",
           "clean", "before"}

\* Requests that work with tables; those that work with one.
OnOneTable == Ops \ {"none", "create", "update", "delete", "transfer"}

WellFormed(table) ==
    /\ DOMAIN table = {"there", "cols", "rows"}
    /\ table.there \in BOOLEAN /\ IsSeq(table.rows) /\ HaveNames(table.cols)
    /\ ~table.there => table.rows = <<>>

RequestTyped(h) ==
    /\ DOMAIN serve[h] = Fields
    /\ serve[h].op \in Ops
    /\ serve[h].url = [c \in Conns |-> serve[h].url[c]]
    /\ serve[h].pool = [c \in Conns |-> serve[h].pool[c]]
    /\ {serve[h].offset, serve[h].copied, serve[h].failed} \subseteq Nat
    /\ IsSeq(serve[h].todo) /\ IsSeq(serve[h].read) /\ HaveNames(serve[h].cols)
    /\ WellFormed(serve[h].before)
    /\ serve[h].clean \in BOOLEAN
    /\ serve[h].op \in OnOneTable => serve[h].from = serve[h].to
    /\ serve[h].op \in OnOneTable \cup {"transfer"} => {serve[h].from, serve[h].to} \subseteq Tables
    /\ "status" \in DOMAIN jobs[h]
    /\ serve[h].at # "over" /\ serve[h].op \in HasJob => jobs[h].status \notin {"done", "failed"}

Typed ==
    /\ serve = [h \in Handlers |-> serve[h]] /\ \A h \in Handlers : RequestTyped(h)
    /\ tables = [t \in Tables |-> tables[t]] /\ \A t \in Tables : WellFormed(tables[t])
    /\ jobs = [h \in Handlers |-> jobs[h]]
    /\ IsSeq(file.rows) /\ HaveNames(file.cols)
    /\ IsSeq(clip.rows) /\ HaveNames(clip.cols)

\* The pools of a request lead where its profiles do; before it reads them it
\* has none.
PoolsHold(h) ==
    /\ serve[h].at \in {"none", "shown"} => serve[h].dial = {} /\ serve[h].opening = {}
    /\ \A c \in Conns :
          /\ serve[h].pool[c] \in {Nowhere, serve[h].url[c]}
          /\ serve[h].at \in {"none", "shown"} => serve[h].pool[c] = Nowhere

\* The rows that were added come from the source; where there is a key, no two
\* of them share one.
CameFrom(s, source, target) ==
    \A j \in 1..Len(target.rows) : Len(s.before.rows) < j =>
        \E i \in 1..Len(source.rows) :
            target.rows[j] = Carried(s.to, target.cols, s.map, source.rows[i])
Differ(s, target) == HasKey(target.cols) =>
    \A j, k \in 1..Len(target.rows) : Len(s.before.rows) < j /\ j < k =>
        ~SameKey(target.cols, target.rows[j], target.rows[k])

\* As many rows were met as were counted, and added as were copied, or more if
\* an answer was lost.
Copied(s, source, target, copied, failed) ==
    /\ copied + failed <= Len(source.rows)
    /\ Len(s.before.rows) + copied <= Len(target.rows)
    /\ Len(target.rows) <= Len(s.before.rows) + copied
           + IF Home[s.to] \in Sqlite THEN 0 ELSE failed
    /\ CameFrom(s, source, target) /\ Differ(s, target)

\* A transfer that nobody disturbed, from its request to its end.
BeforeCopying(s, source, target) ==
    /\ s.from # s.to
    /\ s.at \in {"asked", "inspected", "creating"} => target = s.before
    /\ s.at \in {"asked", "inspected", "creating", "mapping"} =>
          s.offset = 0 /\ s.copied = 0 /\ s.failed = 0
    /\ s.at \in {"inspected", "creating", "mapping"} => s.cols = source.cols
    /\ s.at = "creating" => s.mode # "copy" /\ ~s.before.there
    /\ s.at = "mapping" => s.mode # "schema" /\ target.rows = s.before.rows
WhileCopying(s, source, target) ==
    /\ s.at \in {"read", "insert"} =>
          /\ s.mode # "schema" /\ s.offset = s.copied + s.failed
          /\ Copied(s, source, target, s.copied, s.failed)
    /\ s.at = "insert" =>
          /\ s.offset + Len(s.todo) <= Len(source.rows)
          /\ \A i \in 1..Len(s.todo) :
                \E k \in 1..Len(source.rows) : s.todo[i] = JsonRow(source.rows[k])
          /\ s.more <=> s.offset + Len(s.todo) < Len(source.rows)
AfterCopying(s, source, target, copied, failed) ==
    IF s.mode = "schema" THEN target.rows = <<>> /\ copied = 0
    ELSE /\ Copied(s, source, target, copied, failed)
         /\ copied + failed = Len(source.rows)
TransferSound(s, source, target, job) ==
    /\ BeforeCopying(s, source, target) /\ WhileCopying(s, source, target)
    /\ s.at = "finish" => AfterCopying(s, source, target, s.copied, s.failed)
    /\ s.at = "over" /\ job.status = "done" =>
          /\ {job.copied, job.failed} \subseteq Nat
          /\ AfterCopying(s, source, target, job.copied, job.failed)

\* An import that nobody disturbed; one into SQLite inserts all rows or none.
ImportSound(s, target, job) ==
    /\ s.at \in {"asked", "inspected", "creating"} => target = s.before /\ s.copied = 0
    /\ s.at = "creating" => ~s.before.there
    /\ s.at = "insert" =>
          /\ Len(target.rows) = Len(s.before.rows) + s.copied
          /\ Home[s.to] \in Sqlite /\ s.todo # <<>> => s.copied = 0
    /\ s.at = "over" /\ job.status = "done" =>
          job.copied \in Nat /\ Len(target.rows) = Len(s.before.rows) + job.copied
    /\ s.at = "over" /\ job.status = "failed" /\ Home[s.to] \in Sqlite =>
          Len(target.rows) = Len(s.before.rows)

\* What was read of a table: rows of it, as many as it has, and all of them if
\* one statement read them.
FromTable(read, source) ==
    \A j \in 1..Len(read) : \E i \in 1..Len(source.rows) : read[j] = JsonRow(source.rows[i])
Covers(read, source) ==
    \A i \in 1..Len(source.rows) : \E j \in 1..Len(read) : read[j] = JsonRow(source.rows[i])
Exported(s, source, read) ==
    /\ Len(read) = Len(source.rows) /\ FromTable(read, source)
    /\ Home[s.from] \in Sqlite \/ Len(source.rows) <= Batch => Covers(read, source)

\* An export that nobody disturbed reads page after page; its file holds what it
\* read unless another export has replaced it.
ExportSound(h, s, source, job, f) ==
    /\ s.mode = "copy"
    /\ s.at = "asked" => /\ s.offset <= Len(source.rows) /\ Len(s.read) = s.offset
                         /\ FromTable(s.read, source)
                         /\ Home[s.from] \in Sqlite \/ Len(source.rows) <= Batch => s.offset = 0
    /\ s.at \in {"write", "writing"} => Exported(s, source, s.read)
    /\ s.at = "over" /\ f.by = h /\ job.status = "done" =>
          f.whole /\ Exported(s, source, f.rows)

Alone(h, op) == serve[h].op = op /\ serve[h].clean
TransferHolds(h) == Alone(h, "transfer") =>
    TransferSound(serve[h], tables[serve[h].from], tables[serve[h].to], jobs[h])
ImportHolds(h) == Alone(h, "import") => ImportSound(serve[h], tables[serve[h].to], jobs[h])
ExportHolds(h) == Alone(h, "export") =>
    ExportSound(h, serve[h], tables[serve[h].from], jobs[h], file)

IInv == /\ Typed
        /\ \A h \in Handlers : PoolsHold(h) /\ TransferHolds(h) /\ ImportHolds(h) /\ ExportHolds(h)

-----------------------------------------------------------------------------
(* Sequences of rows, whatever a row is.                                    *)

\* A sequence over any set is one.
LEMMA MemberIsSeq ==
    ASSUME NEW S, NEW s \in Seq(S)
    PROVE  IsSeq(s) /\ Len(s) \in Nat /\ DOMAIN s = 1..Len(s)
  <1>1. Len(s) \in Nat /\ s \in [1..Len(s) -> S] /\ DOMAIN s = 1..Len(s)
    BY LenProperties
  <1>2. s \in [1..Len(s) -> {s[i] : i \in DOMAIN s}]
    BY <1>1
  <1>3. s \in Seq({s[i] : i \in DOMAIN s})
    BY <1>1, <1>2, SeqDef
  <1> QED BY <1>1, <1>3 DEF IsSeq

\* A sequence has a length and places up to it.
LEMMA SeqHasLen ==
    ASSUME NEW s, IsSeq(s)
    PROVE  /\ Len(s) \in Nat /\ DOMAIN s = 1..Len(s)
           /\ s = [i \in 1..Len(s) |-> s[i]]
           /\ Len(s) = 0 <=> s = <<>>
  <1> DEFINE S == {s[i] : i \in DOMAIN s}
  <1>1. s \in Seq(S)
    BY DEF IsSeq
  <1>2. Len(s) \in Nat /\ s \in [1..Len(s) -> S] /\ DOMAIN s = 1..Len(s)
    BY <1>1, LenProperties
  <1>3. Len(s) = 0 <=> s = <<>>
    BY <1>1, EmptySeq
  <1> QED BY <1>2, <1>3

\* Two sequences are over a set of both.
LEMMA CommonSet ==
    ASSUME NEW s, NEW t, IsSeq(s), IsSeq(t)
    PROVE  \E S : s \in Seq(S) /\ t \in Seq(S)
  <1> DEFINE S == {s[i] : i \in DOMAIN s}
             T == {t[i] : i \in DOMAIN t}
             U == S \cup T
  <1>1. s \in Seq(S) /\ t \in Seq(T) /\ S \subseteq U /\ T \subseteq U
    BY DEF IsSeq
  <1>2. s \in Seq(U)
    BY <1>1, SeqMonotonic
  <1>3. t \in Seq(U)
    BY <1>1, SeqMonotonic
  <1> QED BY <1>2, <1>3

\* What is given place by place is a sequence.
LEMMA ListIsSeq ==
    ASSUME NEW n \in Nat, NEW s, s = [i \in 1..n |-> s[i]]
    PROVE  IsSeq(s) /\ Len(s) = n
  <1>1. DOMAIN s = 1..n
    OBVIOUS
  <1>2. s \in [1..n -> {s[i] : i \in DOMAIN s}]
    BY <1>1
  <1>3. s \in Seq({s[i] : i \in DOMAIN s})
    BY <1>2, SeqDef
  <1>4. Len(s) \in Nat /\ DOMAIN s = 1..Len(s)
    BY <1>3, LenProperties
  <1>5. 1..Len(s) = 1..n
    BY <1>1, <1>4
  <1>6. Len(s) = n
    BY <1>4, <1>5
  <1> QED BY <1>3, <1>6 DEF IsSeq

\* The empty sequence.
LEMMA NothingIsSeq == IsSeq(<<>>) /\ Len(<<>>) = 0
  <1>1. <<>> \in Seq({}) /\ Len(<<>>) = 0
    BY EmptySeq
  <1> QED BY <1>1, MemberIsSeq

\* Sequences with the same elements are the same.
LEMMA SameSeq ==
    ASSUME NEW s, NEW t, IsSeq(s), IsSeq(t), Len(s) = Len(t),
           \A i \in 1..Len(s) : s[i] = t[i]
    PROVE  s = t
  <1>1. PICK S : s \in Seq(S) /\ t \in Seq(S)
    BY CommonSet
  <1> QED BY <1>1, SeqEqual

\* One row more.
LEMMA AppendIsSeq ==
    ASSUME NEW s, IsSeq(s), NEW e
    PROVE  /\ IsSeq(Append(s, e)) /\ Len(Append(s, e)) = Len(s) + 1
           /\ \A i \in 1..Len(s) : Append(s, e)[i] = s[i]
           /\ Append(s, e)[Len(s) + 1] = e
           /\ Append(s, e) # <<>>
  <1> DEFINE S == {s[i] : i \in DOMAIN s}
             U == S \cup {e}
  <1>1. s \in Seq(S) /\ S \subseteq U
    BY DEF IsSeq
  <1>2. s \in Seq(U) /\ e \in U
    BY <1>1, SeqMonotonic
  <1> HIDE DEF U, S
  <1>3. /\ Append(s, e) \in Seq(U) /\ Append(s, e) # <<>>
        /\ Len(Append(s, e)) = Len(s) + 1
        /\ \A i \in 1..Len(s) : Append(s, e)[i] = s[i]
        /\ Append(s, e)[Len(s) + 1] = e
    BY <1>2, AppendProperties
  <1> QED BY <1>3, MemberIsSeq

\* Two sequences one after the other.
LEMMA ConcatIsSeq ==
    ASSUME NEW s, NEW t, IsSeq(s), IsSeq(t)
    PROVE  /\ IsSeq(s \o t) /\ Len(s \o t) = Len(s) + Len(t)
           /\ \A i \in 1..(Len(s) + Len(t)) :
                 (s \o t)[i] = IF i <= Len(s) THEN s[i] ELSE t[i - Len(s)]
  <1>1. PICK S : s \in Seq(S) /\ t \in Seq(S)
    BY CommonSet
  <1>2. /\ s \o t \in Seq(S) /\ Len(s \o t) = Len(s) + Len(t)
        /\ \A i \in 1..(Len(s) + Len(t)) :
              (s \o t)[i] = IF i <= Len(s) THEN s[i] ELSE t[i - Len(s)]
    BY <1>1, ConcatProperties
  <1> QED BY <1>2, MemberIsSeq

\* A part of a sequence.
LEMMA PartIsSeq ==
    ASSUME NEW s, IsSeq(s), NEW m \in Nat \ {0}, NEW n \in Nat, n <= Len(s)
    PROVE  /\ IsSeq(SubSeq(s, m, n))
           /\ Len(SubSeq(s, m, n)) = IF m <= n THEN n - m + 1 ELSE 0
           /\ \A i \in 1..(n - m + 1) : SubSeq(s, m, n)[i] = s[m + i - 1]
  <1> DEFINE S == {s[i] : i \in DOMAIN s}
  <1>1. Len(s) \in Nat /\ DOMAIN s = 1..Len(s)
    BY SeqHasLen
  <1>2. \A i \in m..n : s[i] \in S
    BY <1>1
  <1>3. m \in Int /\ n \in Int
    OBVIOUS
  <1> HIDE DEF S
  <1>4. /\ SubSeq(s, m, n) \in Seq(S)
        /\ Len(SubSeq(s, m, n)) = IF m <= n THEN n - m + 1 ELSE 0
        /\ \A i \in 1..(n - m + 1) : SubSeq(s, m, n)[i] = s[m + i - 1]
    BY <1>2, <1>3, SubSeqProperties
  <1> QED BY <1>4, MemberIsSeq

\* A sequence without its first element.
LEMMA TailIsSeq ==
    ASSUME NEW s, IsSeq(s), s # <<>>
    PROVE  /\ IsSeq(Tail(s)) /\ Len(Tail(s)) = Len(s) - 1 /\ Len(s) \in Nat \ {0}
           /\ \A i \in 1..Len(Tail(s)) : Tail(s)[i] = s[i + 1]
           /\ Head(s) = s[1]
  <1> DEFINE S == {s[i] : i \in DOMAIN s}
  <1>1. s \in Seq(S)
    BY DEF IsSeq
  <1> HIDE DEF S
  <1>2. /\ Tail(s) \in Seq(S) /\ Len(Tail(s)) = Len(s) - 1
        /\ \A i \in 1..Len(Tail(s)) : Tail(s)[i] = s[i + 1]
    BY <1>1, HeadTailProperties
  <1>3. Len(s) \in Nat \ {0}
    BY SeqHasLen
  <1>4. Head(s) = s[1]
    OBVIOUS
  <1> QED BY <1>2, <1>3, <1>4, MemberIsSeq

\* Places that are all different, as many as there are, are all of them.
LEMMA DifferentIsAll ==
    ASSUME NEW n \in Nat, NEW f \in [1..n -> 1..n],
           \A j, k \in 1..n : f[j] = f[k] => j = k
    PROVE  \A i \in 1..n : \E j \in 1..n : f[j] = i
  <1>1. IsFiniteSet(1..n)
    BY FS_Interval
  <1>2. f \in Injection(1..n, 1..n)
    BY DEF Injection, IsInjective
  <1>3. f \in Surjection(1..n, 1..n)
    BY <1>1, <1>2, FS_Injection
  <1> QED BY <1>3 DEF Surjection

-----------------------------------------------------------------------------
(* Steps of requests.                                                       *)

\* What a step of request h leaves of its record.
Becomes(h, change) ==
    /\ DOMAIN serve'[h] = Fields
    /\ \A f \in Fields : serve'[h][f] = IF f \in DOMAIN change THEN change[f] ELSE serve[h][f]

\* A change and what is left as it was, field by field.
LEMMA Combine ==
    ASSUME NEW old, DOMAIN old = Fields, NEW change, DOMAIN change \subseteq Fields
    PROVE  /\ DOMAIN (With(old, change)) = Fields
           /\ \A f \in Fields : (With(old, change))[f] =
                 IF f \in DOMAIN change THEN change[f] ELSE old[f]
  <1>1. With(old, change) = [f \in DOMAIN change \cup DOMAIN old |->
                            IF f \in DOMAIN change THEN change[f] ELSE old[f]]
    BY DEF With
  <1>2. DOMAIN change \cup DOMAIN old = Fields
    OBVIOUS
  <1> QED BY <1>1, <1>2

\* Go changes one request.
LEMMA GoMoves ==
    ASSUME Typed, NEW h \in Handlers, NEW change, DOMAIN change \subseteq Fields, Go(h, change)
    PROVE  /\ serve' = [g \in Handlers |-> serve'[g]]
           /\ \A g \in Handlers : g # h => serve'[g] = serve[g]
           /\ Becomes(h, change)
  <1>1. serve = [g \in Handlers |-> serve[g]] /\ DOMAIN serve[h] = Fields
    BY DEF Typed, RequestTyped
  <1>2. serve' = [serve EXCEPT ![h] = With(serve[h], change)]
    BY DEF Go
  <1>3. /\ serve' = [g \in Handlers |-> serve'[g]]
        /\ \A g \in Handlers : g # h => serve'[g] = serve[g]
        /\ serve'[h] = With(serve[h], change)
    BY <1>1, <1>2
  <1> QED BY <1>1, <1>3, Combine DEF Becomes

\* The invariant of one request.
Holds(h) == /\ RequestTyped(h) /\ PoolsHold(h)
            /\ TransferHolds(h) /\ ImportHolds(h) /\ ExportHolds(h)

\* A step of another request leaves g as it is, or not alone any more; alone, it
\* finds its tables and its file as they were.
Bystander(g) ==
    /\ serve'[g] = serve[g] \/ serve'[g] = [serve[g] EXCEPT !.clean = FALSE]
    /\ jobs'[g] = jobs[g]
    /\ serve'[g].clean => \A t \in Tables \cap {serve[g].from, serve[g].to} : tables'[t] = tables[t]
    /\ file' = file \/ file'.by # g

\* It keeps what it relies on.
LEMMA BystanderKeeps ==
    ASSUME IInv, NEW g \in Handlers, Bystander(g)
    PROVE  Holds(g)'
  <1>1. Holds(g) /\ DOMAIN serve[g] = Fields
    BY DEF IInv, Typed, Holds, RequestTyped
  <1>2. /\ DOMAIN serve'[g] = Fields
        /\ \A f \in Fields : f # "clean" => serve'[g][f] = serve[g][f]
        /\ serve'[g].clean => serve'[g] = serve[g]
        /\ serve'[g].clean \in BOOLEAN
    <2>1. CASE serve'[g] = serve[g]
      BY <1>1, <2>1 DEF Holds, RequestTyped
    <2>2. CASE serve'[g] = [serve[g] EXCEPT !.clean = FALSE]
      BY <1>1, <2>2 DEF Fields
    <2> QED BY <2>1, <2>2 DEF Bystander
  <1>3. RequestTyped(g)'
    BY <1>1, <1>2 DEF Holds, RequestTyped, Bystander, Fields
  <1>4. PoolsHold(g)'
    BY <1>1, <1>2 DEF Holds, PoolsHold, Fields
  <1>5. ASSUME serve'[g].clean, serve'[g].op \in {"transfer", "import", "export"}
        PROVE  /\ serve'[g] = serve[g] /\ jobs'[g] = jobs[g]
               /\ tables'[serve[g].from] = tables[serve[g].from]
               /\ tables'[serve[g].to] = tables[serve[g].to]
    <2>1. serve'[g] = serve[g]
      BY <1>2, <1>5
    <2>2. {serve[g].from, serve[g].to} \subseteq Tables
      BY <1>1, <1>5, <2>1 DEF Holds, RequestTyped, OnOneTable, Ops
    <2> QED BY <1>5, <2>1, <2>2 DEF Bystander
  <1>6. TransferHolds(g)'
    BY <1>1, <1>5 DEF Holds, TransferHolds, Alone
  <1>7. ImportHolds(g)'
    BY <1>1, <1>5 DEF Holds, ImportHolds, Alone
  <1>8. ExportHolds(g)'
    BY <1>1, <1>5 DEF Holds, ExportHolds, ExportSound, Alone, Bystander
  <1> QED BY <1>3, <1>4, <1>6, <1>7, <1>8 DEF Holds

\* What is stored besides requests.
TablesTyped ==
    /\ tables = [t \in Tables |-> tables[t]] /\ \A t \in Tables : WellFormed(tables[t])
    /\ jobs = [h \in Handlers |-> jobs[h]]
    /\ IsSeq(file.rows) /\ HaveNames(file.cols)
    /\ IsSeq(clip.rows) /\ HaveNames(clip.cols)

\* A step of h keeps the invariant if h keeps its own part and the others find
\* theirs.
LEMMA StepKeeps ==
    ASSUME IInv, NEW h \in Handlers, Holds(h)', TablesTyped',
           serve' = [g \in Handlers |-> serve'[g]],
           \A g \in Handlers : g # h => Bystander(g)
    PROVE  IInv'
  <1>1. \A g \in Handlers : Holds(g)'
    BY BystanderKeeps
  <1> QED BY <1>1 DEF IInv, Typed, TablesTyped, Holds

\* A step of h that writes no table and, if a file, its own.
LEMMA GoKeeps ==
    ASSUME IInv, NEW h \in Handlers, NEW change, DOMAIN change \subseteq Fields,
           Go(h, change), UNCHANGED tables, TablesTyped',
           \A g \in Handlers : g # h => jobs'[g] = jobs[g],
           file' = file \/ file'.by = h, Holds(h)'
    PROVE  IInv'
  <1>1. Typed
    BY DEF IInv
  <1>2. /\ serve' = [g \in Handlers |-> serve'[g]]
        /\ \A g \in Handlers : g # h => serve'[g] = serve[g]
    BY <1>1, GoMoves
  <1>3. \A g \in Handlers : g # h => Bystander(g)
    BY <1>2 DEF Bystander
  <1> QED BY <1>2, <1>3, StepKeeps

\* A step that stores nothing.
LEMMA ContinueKeeps ==
    ASSUME IInv, NEW h \in Handlers, NEW change, DOMAIN change \subseteq Fields,
           Continue(h, change), Becomes(h, change) => Holds(h)'
    PROVE  IInv'
  <1>1. Go(h, change) /\ UNCHANGED <<tables, file, clip, jobs>>
    BY DEF Continue
  <1>2. Typed
    BY DEF IInv
  <1>3. TablesTyped'
    BY <1>1, <1>2 DEF Typed, TablesTyped
  <1>4. Becomes(h, change)
    BY <1>1, <1>2, GoMoves
  <1> QED BY <1>1, <1>3, <1>4, GoKeeps

\* A write: the others that work with the table are not alone any more.
LEMMA WritesKeep ==
    ASSUME IInv, NEW h \in Handlers, NEW t \in Tables, NEW table, WellFormed(table),
           NEW change, DOMAIN change \subseteq Fields, Writes(h, t, table, change),
           UNCHANGED <<file, clip>>, jobs' = [g \in Handlers |-> jobs'[g]],
           \A g \in Handlers : g # h => jobs'[g] = jobs[g],
           (/\ Becomes(h, change) /\ tables'[t] = table
            /\ \A u \in Tables \ {t} : tables'[u] = tables[u])
              => Holds(h)'
    PROVE  IInv'
  <1>1. Typed /\ DOMAIN serve[h] = Fields
    BY DEF IInv, Typed, RequestTyped
  <1>2. /\ tables' = [tables EXCEPT ![t] = table]
        /\ serve' = [g \in Handlers |->
                        IF g = h THEN With(serve[h], change)
                        ELSE IF t \in {serve[g].from, serve[g].to}
                             THEN [serve[g] EXCEPT !.clean = FALSE] ELSE serve[g]]
    BY DEF Writes
  <1>3. /\ tables' = [u \in Tables |-> tables'[u]] /\ tables'[t] = table
        /\ \A u \in Tables \ {t} : tables'[u] = tables[u]
    BY <1>1, <1>2 DEF Typed
  <1>4. Becomes(h, change)
    BY <1>1, <1>2, Combine DEF Becomes
  <1>5. Holds(h)'
    BY <1>3, <1>4
  <1>6. TablesTyped'
    BY <1>1, <1>2, <1>3 DEF Typed, TablesTyped
  <1>7. ASSUME NEW g \in Handlers, g # h PROVE Bystander(g)
    <2>1. DOMAIN serve[g] = Fields /\ "clean" \in Fields
      BY <1>1 DEF Typed, RequestTyped, Fields
    <2>2. CASE t \in {serve[g].from, serve[g].to}
      <3>1. serve'[g] = [serve[g] EXCEPT !.clean = FALSE]
        BY <1>2, <1>7, <2>2
      <3>2. serve'[g].clean = FALSE
        BY <2>1, <3>1
      <3> QED BY <1>2, <1>7, <3>1, <3>2 DEF Bystander
    <2>3. CASE t \notin {serve[g].from, serve[g].to}
      BY <1>2, <1>3, <1>7, <2>3 DEF Bystander
    <2> QED BY <2>2, <2>3
  <1>8. serve' = [g \in Handlers |-> serve'[g]]
    BY <1>2
  <1> QED BY <1>5, <1>6, <1>7, <1>8, StepKeeps

\* A write that leaves the jobs as they are.
LEMMA StoreKeeps ==
    ASSUME IInv, NEW h \in Handlers, NEW t \in Tables, NEW table, WellFormed(table),
           NEW change, DOMAIN change \subseteq Fields, Store(h, t, table, change),
           (/\ Becomes(h, change) /\ tables'[t] = table
            /\ \A u \in Tables \ {t} : tables'[u] = tables[u])
              => Holds(h)'
    PROVE  IInv'
  <1>1. Writes(h, t, table, change) /\ UNCHANGED <<file, clip, jobs>>
    BY DEF Store
  <1>2. jobs = [g \in Handlers |-> jobs[g]]
    BY DEF IInv, Typed
  <1> QED BY <1>1, <1>2, WritesKeep

\* The fields a request changes once it is under way.
Working == {"at", "dial", "opening", "cols", "todo", "read", "offset", "more", "copied",
            "failed", "made", "map"}

\* A change of them that keeps their types.
Work(change) ==
    /\ DOMAIN change \subseteq Working
    /\ "at" \in DOMAIN change => change.at \notin {"none", "shown"}
    /\ "todo" \in DOMAIN change => IsSeq(change.todo)
    /\ "read" \in DOMAIN change => IsSeq(change.read)
    /\ "cols" \in DOMAIN change => HaveNames(change.cols)
    /\ "offset" \in DOMAIN change => change.offset \in Nat
    /\ "copied" \in DOMAIN change => change.copied \in Nat
    /\ "failed" \in DOMAIN change => change.failed \in Nat

\* A request under way keeps its types and its pools.
LEMMA WorkIsTyped ==
    ASSUME IInv, NEW h \in Handlers, NEW change, Work(change),
           Becomes(h, change), serve[h].at \notin {"none", "shown"},
           "status" \in DOMAIN jobs'[h],
           serve'[h].at # "over" /\ serve[h].op \in HasJob =>
               jobs'[h].status \notin {"done", "failed"}
    PROVE  /\ RequestTyped(h)' /\ PoolsHold(h)'
           /\ \A f \in Fields \ Working : serve'[h][f] = serve[h][f]
  <1>1. RequestTyped(h) /\ PoolsHold(h)
    BY DEF IInv, Typed
  <1>2. \A f \in Fields \ Working : serve'[h][f] = serve[h][f]
    BY DEF Becomes, Work
  <1>3. /\ serve'[h].op = serve[h].op /\ serve'[h].from = serve[h].from
        /\ serve'[h].to = serve[h].to /\ serve'[h].url = serve[h].url
        /\ serve'[h].pool = serve[h].pool /\ serve'[h].before = serve[h].before
        /\ serve'[h].clean = serve[h].clean
    BY <1>2 DEF Fields, Working
  <1>4. /\ serve'[h].offset \in Nat /\ serve'[h].copied \in Nat /\ serve'[h].failed \in Nat
        /\ IsSeq(serve'[h].todo) /\ IsSeq(serve'[h].read) /\ HaveNames(serve'[h].cols)
    BY <1>1 DEF Becomes, RequestTyped, Fields, Work
  <1>5. DOMAIN serve'[h] = Fields
    BY DEF Becomes
  <1>6. serve'[h].at \notin {"none", "shown"}
    BY DEF Becomes, Fields, Work
  <1>7. RequestTyped(h)'
    BY <1>1, <1>3, <1>4, <1>5 DEF RequestTyped
  <1>8. PoolsHold(h)'
    BY <1>1, <1>3, <1>6 DEF PoolsHold
  <1> QED BY <1>2, <1>7, <1>8

\* Requests that neither transfer nor write or read a file promise no more.
LEMMA OthersHold ==
    ASSUME NEW h \in Handlers, RequestTyped(h)', PoolsHold(h)',
           serve'[h].op \notin {"transfer", "import", "export"}
    PROVE  Holds(h)'
  BY DEF Holds, TransferHolds, ImportHolds, ExportHolds, Alone

-----------------------------------------------------------------------------
(* How requests begin.                                                      *)

\* A request that has not begun.
LEMMA IdleIs ==
    ASSUME NEW h \in Handlers, serve[h] = Idle
    PROVE  /\ serve[h].op = "none" /\ serve[h].at = "none" /\ serve[h].offset = 0
           /\ serve[h].copied = 0 /\ serve[h].failed = 0 /\ serve[h].todo = <<>>
           /\ serve[h].read = <<>> /\ serve[h].cols = {} /\ serve[h].made = FALSE
           /\ serve[h].clean = TRUE /\ serve[h].before = NoTable
           /\ serve[h].from = NoName /\ serve[h].to = NoName
           /\ serve[h].url = [c \in Conns |-> Nowhere]
           /\ serve[h].pool = [c \in Conns |-> Nowhere]
           /\ serve[h].mode = "copy" /\ DOMAIN serve[h] = Fields
  BY DEF Idle, Fields, NoRows

\* A request for tables begins with the table it will write as it is.
LEMMA RequestKeeps ==
    ASSUME IInv, NEW h \in Handlers, NEW op \in OnOneTable \cup {"transfer"},
           NEW from \in Tables, NEW to \in Tables, NEW mode, NEW job,
           Request(h, op, from, to, mode, job), (op = "transfer") = (from # to),
           op = "export" => mode = "copy",
           "status" \in DOMAIN job, job.status \notin {"done", "failed"}
    PROVE  IInv'
  <1> DEFINE needs == {Home[t] : t \in {from, to}}
             url == [c \in Conns |-> IF c \in needs THEN profiles[c] ELSE Nowhere]
             change == [op |-> op, at |-> "asked", from |-> from, to |-> to, mode |-> mode,
                        url |-> url, dial |-> needs \ Sqlite, before |-> tables[to]]
  <1>1. serve[h] = Idle /\ Go(h, change) /\ UNCHANGED <<tables, file, clip>>
        /\ jobs' = [jobs EXCEPT ![h] = job]
    BY DEF Request
  <1>2. Typed /\ WellFormed(tables[to])
    BY DEF IInv, Typed
  <1>3. DOMAIN change = {"op", "at", "from", "to", "mode", "url", "dial", "before"}
    OBVIOUS
  <1>4. DOMAIN change \subseteq Fields
    BY <1>3 DEF Fields
  <1>5. /\ serve'[h].op = op /\ serve'[h].at = "asked" /\ serve'[h].from = from
        /\ serve'[h].to = to /\ serve'[h].mode = mode /\ serve'[h].url = url
        /\ serve'[h].before = tables[to] /\ serve'[h].pool = serve[h].pool
        /\ serve'[h].offset = serve[h].offset /\ serve'[h].copied = serve[h].copied
        /\ serve'[h].failed = serve[h].failed /\ serve'[h].todo = serve[h].todo
        /\ serve'[h].read = serve[h].read /\ serve'[h].cols = serve[h].cols
        /\ serve'[h].made = serve[h].made /\ serve'[h].clean = serve[h].clean
        /\ DOMAIN serve'[h] = Fields
    <2>1. Becomes(h, change)
      BY <1>1, <1>2, <1>4, GoMoves
    <2> HIDE DEF change
    <2>2. /\ change.op = op /\ change.at = "asked" /\ change.from = from /\ change.to = to
          /\ change.mode = mode /\ change.url = url /\ change.before = tables[to]
      BY DEF change
    <2> QED BY <2>1, <2>2, <1>3 DEF Becomes, Fields
  <1>6. jobs' = [g \in Handlers |-> jobs'[g]] /\ jobs'[h] = job
        /\ \A g \in Handlers : g # h => jobs'[g] = jobs[g]
    BY <1>1, <1>2 DEF Typed
  <1>7. TablesTyped'
    BY <1>1, <1>2, <1>6 DEF Typed, TablesTyped
  <1> HIDE DEF change
  <1>15. /\ serve[h].offset = 0 /\ serve[h].copied = 0 /\ serve[h].failed = 0
         /\ serve[h].todo = <<>> /\ serve[h].read = <<>> /\ serve[h].cols = {}
         /\ serve[h].made = FALSE /\ serve[h].clean = TRUE
         /\ serve[h].pool = [c \in Conns |-> Nowhere]
    BY <1>1, IdleIs
  <1>8. RequestTyped(h)'
    <2>1. IsSeq(<<>>) /\ HaveNames({})
      BY NothingIsSeq DEF HaveNames
    <2>2. op \in Ops /\ op # "none"
      BY DEF OnOneTable, Ops
    <2>3. /\ serve'[h].url = [c \in Conns |-> serve'[h].url[c]]
          /\ serve'[h].pool = [c \in Conns |-> serve'[h].pool[c]]
      BY <1>5, <1>15
    <2>4. op \in OnOneTable => from = to
      BY DEF OnOneTable
    <2>5. /\ IsSeq(serve'[h].todo) /\ IsSeq(serve'[h].read) /\ HaveNames(serve'[h].cols)
          /\ WellFormed(serve'[h].before)
      BY <1>2, <1>5, <1>15, <2>1
    <2>9. /\ serve'[h].offset = 0 /\ serve'[h].copied = 0 /\ serve'[h].failed = 0
          /\ serve'[h].clean = TRUE
      BY <1>5, <1>15
    <2>10. serve'[h].clean \in BOOLEAN
      BY <2>9, Zenon
    <2>6. {serve'[h].offset, serve'[h].copied, serve'[h].failed} \subseteq Nat
      BY <2>9
    <2>7. /\ serve'[h].op \in Ops /\ {serve'[h].from, serve'[h].to} \subseteq Tables
          /\ serve'[h].op \in OnOneTable => serve'[h].from = serve'[h].to
      BY <1>5, <2>2, <2>4
    <2>8. /\ "status" \in DOMAIN jobs'[h] /\ jobs'[h].status \notin {"done", "failed"}
          /\ DOMAIN serve'[h] = Fields
      BY <1>5, <1>6
    <2> QED BY <2>3, <2>5, <2>6, <2>7, <2>8, <2>10 DEF RequestTyped
  <1>9. PoolsHold(h)'
    BY <1>5, <1>15 DEF PoolsHold
  <1>10. TransferHolds(h)'
    <2> SUFFICES ASSUME serve'[h].op = "transfer"
                 PROVE  TransferSound(serve'[h], tables'[serve'[h].from],
                                      tables'[serve'[h].to], jobs'[h])
      BY DEF TransferHolds, Alone
    <2> QED BY <1>1, <1>5, <1>6, <1>15 DEF TransferSound, BeforeCopying, WhileCopying, OnOneTable
  <1>11. ImportHolds(h)'
    BY <1>1, <1>5, <1>6, <1>15 DEF ImportHolds, ImportSound, Alone
  <1>12. ExportHolds(h)'
    <2> SUFFICES ASSUME serve'[h].op = "export"
                 PROVE  ExportSound(h, serve'[h], tables'[serve'[h].from], jobs'[h], file')
      BY DEF ExportHolds, Alone
    <2>1. IsSeq(tables[from].rows)
      BY <1>2 DEF Typed, WellFormed
    <2>2. Len(tables[from].rows) \in Nat
      BY <2>1, SeqHasLen
    <2>3. /\ serve'[h].read = <<>> /\ serve'[h].offset = 0 /\ serve'[h].at = "asked"
          /\ Len(serve'[h].read) = 0 /\ FromTable(serve'[h].read, tables[from])
      BY <1>5, <1>15, NothingIsSeq DEF FromTable
    <2>4. serve'[h].mode = "copy" /\ serve'[h].from = from /\ UNCHANGED tables
      BY <1>1, <1>5, <1>6
    <2> QED BY <2>2, <2>3, <2>4 DEF ExportSound
  <1>13. Holds(h)'
    BY <1>8, <1>9, <1>10, <1>11, <1>12 DEF Holds
  <1> QED BY <1>1, <1>4, <1>6, <1>7, <1>13, GoKeeps

-----------------------------------------------------------------------------
(* Requests about profiles, and the pools of all.                           *)

\* A request about a profile begins: it has no pool and works with no table.
LEMMA ProfileKeeps ==
    ASSUME IInv, NEW h \in Handlers, serve[h] = Idle, NEW change,
           DOMAIN change \subseteq {"op", "at", "url", "seen"},
           {"op", "at"} \subseteq DOMAIN change,
           change.op \in {"create", "update", "delete"}, change.at \notin {"none", "shown"},
           "url" \in DOMAIN change => change.url = [c \in Conns |-> change.url[c]],
           Go(h, change), UNCHANGED <<tables, file, clip, jobs>>
    PROVE  IInv'
  <1>1. Typed /\ RequestTyped(h)
    BY DEF IInv, Typed
  <1>2. DOMAIN change \subseteq Fields
    BY DEF Fields
  <1>3. Becomes(h, change)
    BY <1>1, <1>2, GoMoves
  <1>4. /\ serve'[h].op = change.op /\ serve'[h].at = change.at
        /\ serve'[h].pool = serve[h].pool /\ serve'[h].offset = serve[h].offset
        /\ serve'[h].copied = serve[h].copied /\ serve'[h].failed = serve[h].failed
        /\ serve'[h].todo = serve[h].todo /\ serve'[h].read = serve[h].read
        /\ serve'[h].cols = serve[h].cols /\ serve'[h].before = serve[h].before
        /\ serve'[h].clean = serve[h].clean /\ DOMAIN serve'[h] = Fields
        /\ serve'[h].url = IF "url" \in DOMAIN change THEN change.url ELSE serve[h].url
    BY <1>3 DEF Becomes, Fields
  <1>5. serve[h].pool = [c \in Conns |-> Nowhere]
    BY IdleIs
  <1>6. serve'[h].url = [c \in Conns |-> serve'[h].url[c]]
    BY <1>1, <1>4 DEF RequestTyped
  <1>7. RequestTyped(h)'
    BY <1>1, <1>4, <1>6 DEF RequestTyped, OnOneTable, HasJob, Ops
  <1>8. PoolsHold(h)'
    BY <1>4, <1>5 DEF PoolsHold
  <1>9. Holds(h)'
    BY <1>4, <1>7, <1>8, OthersHold
  <1>10. TablesTyped'
    BY <1>1 DEF Typed, TablesTyped
  <1> QED BY <1>2, <1>9, <1>10, GoKeeps

\* A request that neither transfers nor has a file moves on.
LEMMA OutsideKeeps ==
    ASSUME IInv, NEW h \in Handlers, serve[h].op \notin HasJob,
           serve[h].at \notin {"none", "shown"}, NEW change, Work(change),
           Go(h, change), UNCHANGED <<tables, file, jobs>>,
           IsSeq(clip'.rows) /\ HaveNames(clip'.cols)
    PROVE  IInv'
  <1>1. Typed /\ RequestTyped(h)
    BY DEF IInv, Typed
  <1>2. DOMAIN change \subseteq Fields
    BY DEF Fields, Working, Work
  <1>3. Becomes(h, change)
    BY <1>1, <1>2, GoMoves
  <1>4. "status" \in DOMAIN jobs'[h]
    BY <1>1 DEF RequestTyped
  <1>5. /\ RequestTyped(h)' /\ PoolsHold(h)'
        /\ \A f \in Fields \ Working : serve'[h][f] = serve[h][f]
    BY <1>3, <1>4, WorkIsTyped
  <1>6. serve'[h].op = serve[h].op
    BY <1>5 DEF Fields, Working
  <1>7. Holds(h)'
    BY <1>5, <1>6, OthersHold DEF HasJob
  <1>8. TablesTyped'
    BY <1>1 DEF Typed, TablesTyped
  <1> QED BY <1>2, <1>7, <1>8, GoKeeps

\* It writes a table.
LEMMA OutsideStores ==
    ASSUME IInv, NEW h \in Handlers, serve[h].op \notin HasJob,
           serve[h].at \notin {"none", "shown"}, NEW change, Work(change),
           NEW t \in Tables, NEW table, WellFormed(table), Store(h, t, table, change)
    PROVE  IInv'
  <1>1. Typed /\ RequestTyped(h)
    BY DEF IInv, Typed
  <1>2. DOMAIN change \subseteq Fields
    BY DEF Fields, Working, Work
  <1>3. UNCHANGED jobs
    BY DEF Store
  <1>4. "status" \in DOMAIN jobs'[h]
    BY <1>1, <1>3 DEF RequestTyped
  <1>5. ASSUME Becomes(h, change) PROVE Holds(h)'
    <2>1. /\ RequestTyped(h)' /\ PoolsHold(h)'
          /\ \A f \in Fields \ Working : serve'[h][f] = serve[h][f]
      BY <1>4, <1>5, WorkIsTyped
    <2>2. serve'[h].op = serve[h].op
      BY <2>1 DEF Fields, Working
    <2> QED BY <2>1, <2>2, OthersHold DEF HasJob
  <1> QED BY <1>2, <1>5, StoreKeeps

\* Creating a profile.
LEMMA CreateConnectionKeeps ==
    ASSUME IInv, NEW h \in Handlers, NEW c \in Conns, CreateConnection(h, c)
    PROVE  IInv'
  <1> DEFINE change == [op |-> "create", at |-> "over"]
  <1>1. DOMAIN change = {"op", "at"} /\ change.op = "create" /\ change.at = "over"
    OBVIOUS
  <1>2. serve[h] = Idle /\ Go(h, change) /\ UNCHANGED <<tables, file, clip, jobs>>
    BY DEF CreateConnection
  <1> HIDE DEF change
  <1> QED BY <1>1, <1>2, ProfileKeeps

\* Reading it before it is changed.
LEMMA LoadForUpdateKeeps ==
    ASSUME IInv, NEW h \in Handlers, NEW c \in Conns, LoadForUpdate(h, c)
    PROVE  IInv'
  <1> DEFINE url == [serve[h].url EXCEPT ![c] = profiles[c]]
             change == [op |-> "update", at |-> "loaded", url |-> url, seen |-> c]
  <1>1. /\ DOMAIN change = {"op", "at", "url", "seen"} /\ change.op = "update"
        /\ change.at = "loaded" /\ change.url = url
    OBVIOUS
  <1>2. serve[h] = Idle /\ Go(h, change) /\ UNCHANGED <<tables, file, clip, jobs>>
    BY DEF LoadForUpdate
  <1>3. serve[h].url = [d \in Conns |-> serve[h].url[d]]
    BY DEF IInv, Typed, RequestTyped
  <1>4. url = [d \in Conns |-> url[d]]
    BY <1>3
  <1> HIDE DEF change, url
  <1> QED BY <1>1, <1>2, <1>4, ProfileKeeps

\* Deleting it.
LEMMA DeleteConnectionKeeps ==
    ASSUME IInv, NEW h \in Handlers, NEW c \in Conns, DeleteConnection(h, c)
    PROVE  IInv'
  <1> DEFINE change == [op |-> "delete", at |-> "changed", seen |-> c]
  <1>1. DOMAIN change = {"op", "at", "seen"} /\ change.op = "delete" /\ change.at = "changed"
    OBVIOUS
  <1>2. serve[h] = Idle /\ Go(h, change) /\ UNCHANGED <<tables, file, clip, jobs>>
    BY DEF DeleteConnection
  <1> HIDE DEF change
  <1> QED BY <1>1, <1>2, ProfileKeeps

\* A request that only comes to another point.
LEMMA MoveKeeps ==
    ASSUME IInv, NEW h \in Handlers, serve[h].op \notin HasJob,
           serve[h].at \notin {"none", "shown"}, NEW at, at \notin {"none", "shown"},
           Go(h, [at |-> at]), UNCHANGED <<tables, file, clip, jobs>>
    PROVE  IInv'
  <1> DEFINE change == [at |-> at]
  <1>1. DOMAIN change = {"at"} /\ change.at = at /\ Go(h, change)
    OBVIOUS
  <1>2. Work(change)
    BY <1>1 DEF Work, Working
  <1>3. IsSeq(clip'.rows) /\ HaveNames(clip'.cols)
    BY DEF IInv, Typed
  <1> HIDE DEF change
  <1> QED BY <1>1, <1>2, <1>3, OutsideKeeps

\* Saving a profile.
LEMMA SaveConnectionKeeps ==
    ASSUME IInv, NEW h \in Handlers, SaveConnection(h)
    PROVE  IInv'
  <1>1. /\ serve[h].op = "update" /\ serve[h].at = "loaded"
        /\ Go(h, [at |-> "over"]) \/ Go(h, [at |-> "changed"])
        /\ UNCHANGED <<tables, file, clip, jobs>>
    BY DEF SaveConnection
  <1>2. serve[h].op \notin HasJob /\ serve[h].at \notin {"none", "shown"}
    BY <1>1 DEF HasJob
  <1> QED BY <1>1, <1>2, MoveKeeps

\* Closing its pools.
LEMMA EvictPoolsKeeps ==
    ASSUME IInv, NEW h \in Handlers, EvictPools(h)
    PROVE  IInv'
  <1>1. /\ serve[h].op \in {"update", "delete"} /\ serve[h].at = "changed"
        /\ Go(h, [at |-> "over"]) /\ UNCHANGED <<tables, file, clip, jobs>>
    BY DEF EvictPools
  <1>2. serve[h].op \notin HasJob /\ serve[h].at \notin {"none", "shown"}
    BY <1>1 DEF HasJob
  <1> QED BY <1>1, <1>2, MoveKeeps

\* A request that asked for a pool is given none but one of its own profile.
LEMMA PoolKeeps ==
    ASSUME IInv, NEW h \in Handlers, serve[h].at \notin {"none", "shown"},
           NEW change, DOMAIN change \subseteq {"dial", "opening", "pool"},
           NEW c \in Conns,
           "pool" \in DOMAIN change => change.pool = [serve[h].pool EXCEPT ![c] = serve[h].url[c]],
           Go(h, change), UNCHANGED <<tables, file, clip, jobs>>
    PROVE  IInv'
  <1>1. Typed /\ RequestTyped(h) /\ PoolsHold(h)
        /\ TransferHolds(h) /\ ImportHolds(h) /\ ExportHolds(h)
    BY DEF IInv, Typed
  <1>2. DOMAIN change \subseteq Fields
    BY DEF Fields
  <1>3. Becomes(h, change)
    BY <1>1, <1>2, GoMoves
  <1>4. /\ \A f \in Fields \ {"dial", "opening", "pool"} : serve'[h][f] = serve[h][f]
        /\ DOMAIN serve'[h] = Fields
        /\ serve'[h].pool = IF "pool" \in DOMAIN change THEN change.pool ELSE serve[h].pool
    BY <1>3 DEF Becomes, Fields
  <1>5. /\ serve'[h].op = serve[h].op /\ serve'[h].at = serve[h].at
        /\ serve'[h].mode = serve[h].mode /\ serve'[h].from = serve[h].from
        /\ serve'[h].to = serve[h].to /\ serve'[h].url = serve[h].url
        /\ serve'[h].cols = serve[h].cols /\ serve'[h].todo = serve[h].todo
        /\ serve'[h].read = serve[h].read /\ serve'[h].offset = serve[h].offset
        /\ serve'[h].more = serve[h].more /\ serve'[h].copied = serve[h].copied
        /\ serve'[h].failed = serve[h].failed /\ serve'[h].made = serve[h].made
        /\ serve'[h].map = serve[h].map /\ serve'[h].clean = serve[h].clean
        /\ serve'[h].before = serve[h].before
    BY <1>4 DEF Fields
  <1>6. /\ serve'[h].pool = [d \in Conns |-> serve'[h].pool[d]]
        /\ \A d \in Conns : serve'[h].pool[d] \in {Nowhere, serve[h].url[d]}
    BY <1>1, <1>4 DEF RequestTyped, PoolsHold
  <1>7. RequestTyped(h)'
    BY <1>1, <1>4, <1>5, <1>6 DEF RequestTyped
  <1>8. PoolsHold(h)'
    BY <1>5, <1>6 DEF PoolsHold
  <1>9. TransferHolds(h)'
    <2> SUFFICES ASSUME Alone(h, "transfer")'
                 PROVE  TransferSound(serve[h], tables[serve[h].from], tables[serve[h].to],
                                      jobs[h])'
      BY DEF TransferHolds
    <2> DEFINE source == tables[serve[h].from]
               target == tables[serve[h].to]
    <2>1. /\ TransferSound(serve[h], source, target, jobs[h])
          /\ tables'[serve'[h].from] = source /\ tables'[serve'[h].to] = target
          /\ jobs'[h] = jobs[h]
      BY <1>1, <1>5 DEF TransferHolds, Alone
    <2> HIDE DEF source, target
    <2>2. BeforeCopying(serve'[h], source, target)
      BY <1>5, <2>1 DEF TransferSound, BeforeCopying
    <2>3. WhileCopying(serve'[h], source, target)
      BY <1>5, <2>1 DEF TransferSound, WhileCopying, Copied, CameFrom, Differ
    <2>4. \A copied, failed :
             AfterCopying(serve[h], source, target, copied, failed)
                 => AfterCopying(serve'[h], source, target, copied, failed)
      BY <1>5 DEF AfterCopying, Copied, CameFrom, Differ
    <2>5. TransferSound(serve'[h], source, target, jobs[h])
      BY <1>5, <2>1, <2>2, <2>3, <2>4 DEF TransferSound
    <2> QED BY <2>1, <2>5
  <1>10. ImportHolds(h)'
    BY <1>1, <1>5 DEF ImportHolds, Alone, ImportSound
  <1>11. ExportHolds(h)'
    BY <1>1, <1>5 DEF ExportHolds, Alone, ExportSound, Exported
  <1>12. Holds(h)'
    BY <1>7, <1>8, <1>9, <1>10, <1>11 DEF Holds
  <1>13. TablesTyped'
    BY <1>1 DEF Typed, TablesTyped
  <1> QED BY <1>2, <1>12, <1>13, GoKeeps

\* The cache is asked for a pool of the profile as the request read it.
LEMMA LookUpPoolKeeps ==
    ASSUME IInv, NEW h \in Handlers, NEW c \in Conns, LookUpPool(h, c)
    PROVE  IInv'
  <1>1. c \in serve[h].dial /\ UNCHANGED <<tables, file, clip, jobs>>
    BY DEF LookUpPool
  <1>2. serve[h].at \notin {"none", "shown"}
    BY <1>1 DEF IInv, PoolsHold
  <1>3. CASE FindPool(h, c) = {}
    <2> DEFINE change == [dial |-> serve[h].dial \ {c}, opening |-> serve[h].opening \cup {c}]
    <2>1. DOMAIN change = {"dial", "opening"} /\ Go(h, change)
      BY <1>3 DEF LookUpPool
    <2> HIDE DEF change
    <2> QED BY <1>1, <1>2, <2>1, PoolKeeps
  <1>4. ASSUME NEW p \in FindPool(h, c),
               Go(h, [dial |-> serve[h].dial \ {c},
                      pool |-> [serve[h].pool EXCEPT ![c] = p.url]])
        PROVE  IInv'
    <2> DEFINE change == [dial |-> serve[h].dial \ {c},
                          pool |-> [serve[h].pool EXCEPT ![c] = p.url]]
    <2>1. p.url = serve[h].url[c]
      BY DEF FindPool
    <2>2. DOMAIN change = {"dial", "pool"} /\ Go(h, change)
          /\ change.pool = [serve[h].pool EXCEPT ![c] = serve[h].url[c]]
      BY <1>4, <2>1
    <2> HIDE DEF change
    <2> QED BY <1>1, <1>2, <2>2, PoolKeeps
  <1> QED BY <1>3, <1>4 DEF LookUpPool

\* A pool is opened where it leads, or found to have been opened.
LEMMA OpenPoolKeeps ==
    ASSUME IInv, NEW h \in Handlers, NEW c \in Conns, OpenPool(h, c)
    PROVE  IInv'
  <1> DEFINE found == IF FindPool(h, c) = {} THEN serve[h].url[c]
                      ELSE (CHOOSE p \in FindPool(h, c) : TRUE).url
             change == [opening |-> serve[h].opening \ {c},
                        pool |-> [serve[h].pool EXCEPT ![c] = found]]
  <1>1. c \in serve[h].opening /\ UNCHANGED <<tables, file, clip, jobs>> /\ Go(h, change)
    BY DEF OpenPool
  <1>2. serve[h].at \notin {"none", "shown"}
    BY <1>1 DEF IInv, PoolsHold
  <1>3. found = serve[h].url[c]
    <2>1. \A p \in FindPool(h, c) : p.url = serve[h].url[c]
      BY DEF FindPool
    <2> QED BY <2>1
  <1>4. DOMAIN change = {"opening", "pool"}
        /\ change.pool = [serve[h].pool EXCEPT ![c] = serve[h].url[c]]
    BY <1>3
  <1> HIDE DEF change, found
  <1> QED BY <1>1, <1>2, <1>4, PoolKeeps

\* Pools in the cache are nobody's.
LEMMA ExpirePoolKeeps ==
    ASSUME IInv, ExpirePool
    PROVE  IInv'
  BY DEF ExpirePool, IInv, Typed, RequestTyped, PoolsHold, TransferHolds, ImportHolds, ExportHolds,
         Alone

-----------------------------------------------------------------------------
(* What is written is a table.                                              *)

\* Other rows for a table that is there.
LEMMA RowsAreWell ==
    ASSUME NEW table, WellFormed(table), NEW rows, IsSeq(rows), ~table.there => rows = <<>>
    PROVE  /\ WellFormed([table EXCEPT !.rows = rows])
           /\ [table EXCEPT !.rows = rows].rows = rows
           /\ [table EXCEPT !.rows = rows].cols = table.cols
           /\ [table EXCEPT !.rows = rows].there = table.there
  BY DEF WellFormed

\* A table that takes a row has one more.
LEMMA InsertedIsWell ==
    ASSUME IInv, NEW t \in Tables, NEW row, Accepts(t, row)
    PROVE  /\ WellFormed(Inserted(t, row))
           /\ Inserted(t, row).rows = Append(tables[t].rows, Stored(t, tables[t].cols, row))
           /\ Inserted(t, row).cols = tables[t].cols
           /\ Inserted(t, row).there
           /\ Len(Inserted(t, row).rows) = Len(tables[t].rows) + 1
  <1>1. WellFormed(tables[t]) /\ tables[t].there
    BY DEF IInv, Typed, Accepts
  <1> DEFINE rows == Append(tables[t].rows, Stored(t, tables[t].cols, row))
  <1>2. IsSeq(tables[t].rows)
    BY <1>1 DEF WellFormed
  <1>3. IsSeq(rows) /\ Len(rows) = Len(tables[t].rows) + 1
    BY <1>2, AppendIsSeq
  <1>4. Inserted(t, row) = [tables[t] EXCEPT !.rows = rows]
    BY DEF Inserted
  <1> HIDE DEF rows
  <1>5. /\ WellFormed([tables[t] EXCEPT !.rows = rows])
        /\ [tables[t] EXCEPT !.rows = rows].rows = rows
        /\ [tables[t] EXCEPT !.rows = rows].cols = tables[t].cols
        /\ [tables[t] EXCEPT !.rows = rows].there = tables[t].there
    BY <1>1, <1>3, RowsAreWell
  <1> QED BY <1>1, <1>3, <1>4, <1>5 DEF rows

\* A new table has no row.
LEMMA CreatedIsWell ==
    ASSUME IInv, NEW t \in Tables, NEW cols, HaveNames(cols)
    PROVE  /\ WellFormed(Created(t, cols)) /\ Created(t, cols).rows = tables[t].rows
           /\ Created(t, cols).there
  <1>1. WellFormed(tables[t])
    BY DEF IInv, Typed
  <1>2. CASE tables[t].there
    BY <1>1, <1>2 DEF Created
  <1>3. CASE ~tables[t].there
    <2> DEFINE Col(c) == [c EXCEPT !.type = ColumnType(Home[t], c.type)]
               made == {Col(c) : c \in cols}
    <2>1. Created(t, cols) = [there |-> TRUE, rows |-> <<>>, cols |-> made]
      BY <1>3 DEF Created, NoRows
    <2>2. \A c \in cols : "name" \in DOMAIN Col(c) /\ Col(c).name = c.name
      BY DEF HaveNames
    <2> HIDE DEF Col
    <2>3. HaveNames(made)
      BY <2>2 DEF HaveNames
    <2>5. tables[t].rows = <<>>
      BY <1>1, <1>3 DEF WellFormed
    <2> HIDE DEF made
    <2>6. /\ DOMAIN Created(t, cols) = {"there", "cols", "rows"} /\ Created(t, cols).there = TRUE
          /\ Created(t, cols).rows = <<>> /\ Created(t, cols).cols = made
      BY <2>1
    <2>7. Created(t, cols).there \in BOOLEAN
      BY <2>6, Zenon
    <2> QED BY <2>3, <2>5, <2>6, <2>7, NothingIsSeq DEF WellFormed
  <1> QED BY <1>2, <1>3

\* Without its first row.
LEMMA ShorterIsWell ==
    ASSUME NEW table, WellFormed(table), table.rows # <<>>
    PROVE  WellFormed([table EXCEPT !.rows = Tail(table.rows)])
  <1>1. IsSeq(table.rows) /\ table.there
    BY DEF WellFormed
  <1>2. IsSeq(Tail(table.rows))
    BY <1>1, TailIsSeq
  <1> QED BY <1>1, <1>2, RowsAreWell

\* What a statement leaves.
LEMMA EffectIsWell ==
    ASSUME IInv, NEW t \in Tables, NEW statement, NEW row
    PROVE  WellFormed(Effect(t, statement, row))
  <1>1. WellFormed(tables[t])
    BY DEF IInv, Typed
  <1>2. CASE statement = "insert" /\ Accepts(t, row) /\ Len(tables[t].rows) < MaxRows
    BY <1>2, InsertedIsWell DEF Effect
  <1>3. CASE statement = "delete" /\ tables[t].rows # NoRows
    <2>1. Effect(t, statement, row) = [tables[t] EXCEPT !.rows = Tail(tables[t].rows)]
      BY <1>3 DEF Effect
    <2> QED BY <1>1, <1>3, <2>1, ShorterIsWell DEF NoRows
  <1> QED BY <1>1, <1>2, <1>3 DEF Effect

-----------------------------------------------------------------------------
(* A request that fails.                                                    *)

\* It fails: a transfer or an export then promises nothing, an import into SQLite
\* that it added nothing.
LEMMA FailKeeps ==
    ASSUME IInv, NEW h \in Handlers, Fail(h), serve[h].at \notin {"none", "shown"},
           (Alone(h, "import") /\ Home[serve[h].to] \in Sqlite)
               => Len(tables[serve[h].to].rows) = Len(serve[h].before.rows)
    PROVE  IInv'
  <1>1. Typed /\ RequestTyped(h)
        /\ TransferHolds(h) /\ ImportHolds(h) /\ ExportHolds(h)
    BY DEF IInv, Typed
  <1>2. CASE serve[h].op \notin HasJob
    BY <1>2, MoveKeeps DEF Fail
  <1>3. CASE serve[h].op \in HasJob
    <2> DEFINE change == [at |-> "over"]
    <2>1. /\ Go(h, change) /\ jobs' = [jobs EXCEPT ![h].status = "failed"]
          /\ UNCHANGED <<tables, file, clip>>
      BY <1>3 DEF Fail
    <2>2. /\ jobs' = [g \in Handlers |-> jobs'[g]]
          /\ \A g \in Handlers : g # h => jobs'[g] = jobs[g]
          /\ "status" \in DOMAIN jobs'[h] /\ jobs'[h].status = "failed"
      BY <1>1, <2>1 DEF Typed, RequestTyped
    <2>3. DOMAIN change = {"at"} /\ change.at = "over"
      OBVIOUS
    <2>4. DOMAIN change \subseteq Fields /\ Work(change)
      BY <2>3 DEF Fields, Work, Working
    <2>5. Becomes(h, change)
      BY <1>1, <2>1, <2>4, GoMoves
    <2> HIDE DEF change
    <2>6. serve'[h].at = "over"
      BY <2>3, <2>5 DEF Becomes, Fields
    <2>7. /\ RequestTyped(h)' /\ PoolsHold(h)'
          /\ \A f \in Fields \ Working : serve'[h][f] = serve[h][f]
      BY <2>2, <2>3, <2>4, <2>5, <2>6, WorkIsTyped
    <2>8. /\ serve'[h].op = serve[h].op /\ serve'[h].from = serve[h].from
          /\ serve'[h].to = serve[h].to /\ serve'[h].mode = serve[h].mode
          /\ serve'[h].before = serve[h].before /\ serve'[h].clean = serve[h].clean
      BY <2>7 DEF Fields, Working
    <2>9. TransferHolds(h)'
      BY <1>1, <2>2, <2>6, <2>8 DEF TransferHolds, Alone, TransferSound, BeforeCopying, WhileCopying
    <2>10. ImportHolds(h)'
      BY <1>1, <2>1, <2>2, <2>6, <2>8 DEF ImportHolds, Alone, ImportSound
    <2>11. ExportHolds(h)'
      BY <1>1, <2>1, <2>2, <2>6, <2>8 DEF ExportHolds, Alone, ExportSound
    <2>12. Holds(h)'
      BY <2>7, <2>9, <2>10, <2>11 DEF Holds
    <2>13. TablesTyped'
      BY <1>1, <2>1, <2>2 DEF Typed, TablesTyped
    <2> QED BY <2>1, <2>2, <2>4, <2>12, <2>13, GoKeeps
  <1> QED BY <1>2, <1>3

\* The database is lost: an import into SQLite loses none.
LEMMA LoseDatabaseKeeps ==
    ASSUME IInv, NEW h \in Handlers, LoseDatabase(h)
    PROVE  IInv'
  <1>1. /\ serve[h].at \notin {"none", "shown"} /\ Fail(h)
        /\ \E t \in {serve[h].from, serve[h].to} : Home[t] \notin Sqlite
    BY DEF LoseDatabase
  <1>2. serve[h].op = "import" => serve[h].from = serve[h].to
    BY DEF IInv, Typed, RequestTyped, OnOneTable, Ops
  <1> QED BY <1>1, <1>2, FailKeeps DEF Alone

\* A write whose answer is lost ends the request; its job, if it has one, fails.
LEMMA UnheardKeeps ==
    ASSUME IInv, NEW h \in Handlers, serve[h].at \notin {"none", "shown"},
           serve[h].op \in {"transfer", "import", "new"},
           NEW table, WellFormed(table), StoreUnheard(h, serve[h].to, table)
    PROVE  IInv'
  <1> DEFINE change == [at |-> "over"]
             t == serve[h].to
  <1>1. Typed /\ RequestTyped(h) /\ TransferHolds(h) /\ t \in Tables
    BY DEF IInv, Typed, RequestTyped, OnOneTable, Ops
  <1>2. /\ Home[t] \notin Sqlite /\ Writes(h, t, table, change) /\ UNCHANGED <<file, clip>>
        /\ jobs' = IF serve[h].op \in HasJob THEN [jobs EXCEPT ![h].status = "failed"] ELSE jobs
    BY DEF StoreUnheard
  <1>3. /\ jobs' = [g \in Handlers |-> jobs'[g]]
        /\ \A g \in Handlers : g # h => jobs'[g] = jobs[g]
        /\ "status" \in DOMAIN jobs'[h]
        /\ serve[h].op \in HasJob => jobs'[h].status = "failed"
    BY <1>1, <1>2 DEF Typed, RequestTyped
  <1>4. DOMAIN change = {"at"} /\ change.at = "over"
    OBVIOUS
  <1> HIDE DEF change
  <1>5. DOMAIN change \subseteq Fields /\ Work(change)
    BY <1>4 DEF Fields, Work, Working
  <1>6. ASSUME Becomes(h, change), \A u \in Tables \ {t} : tables'[u] = tables[u]
        PROVE  Holds(h)'
    <2>1. serve'[h].at = "over"
      BY <1>4, <1>6 DEF Becomes, Fields
    <2>2. /\ RequestTyped(h)' /\ PoolsHold(h)'
          /\ \A f \in Fields \ Working : serve'[h][f] = serve[h][f]
      BY <1>3, <1>5, <1>6, <2>1, WorkIsTyped
    <2>3. /\ serve'[h].op = serve[h].op /\ serve'[h].from = serve[h].from
          /\ serve'[h].to = serve[h].to /\ serve'[h].clean = serve[h].clean
      BY <2>2 DEF Fields, Working
    <2>4. TransferHolds(h)'
      BY <1>1, <1>3, <2>1, <2>3 DEF TransferHolds, Alone, TransferSound, BeforeCopying,
                                     WhileCopying, HasJob
    <2>5. ImportHolds(h)'
      BY <1>2, <1>3, <2>1, <2>3 DEF ImportHolds, Alone, ImportSound, HasJob
    <2>6. ExportHolds(h)'
      BY <2>3 DEF ExportHolds, Alone
    <2> QED BY <2>2, <2>4, <2>5, <2>6 DEF Holds
  <1> QED BY <1>1, <1>2, <1>3, <1>5, <1>6, WritesKeep

-----------------------------------------------------------------------------
(* Requests that edit rows, run statements or insert a copy.                *)

\* Where a request stands.
LEMMA AtPoint ==
    ASSUME IInv, NEW h \in Handlers, NEW ops, NEW at, At(h, ops, at)
    PROVE  /\ serve[h].op \in ops /\ serve[h].at = at /\ DOMAIN serve[h] = Fields
           /\ serve[h].op \in OnOneTable \cup {"transfer"} =>
                 {serve[h].from, serve[h].to} \subseteq Tables
           /\ serve[h].op \in OnOneTable => serve[h].from = serve[h].to
           /\ IsSeq(serve[h].todo) /\ IsSeq(serve[h].read) /\ HaveNames(serve[h].cols)
           /\ {serve[h].offset, serve[h].copied, serve[h].failed} \subseteq Nat
           /\ "status" \in DOMAIN jobs[h]
           /\ at # "over" /\ serve[h].op \in HasJob => jobs[h].status \notin {"done", "failed"}
           /\ TransferHolds(h) /\ ImportHolds(h) /\ ExportHolds(h)
  BY DEF At, IInv, Typed, RequestTyped

\* A write that only moves on.
LEMMA WriteKeeps ==
    ASSUME IInv, NEW h \in Handlers, serve[h].op \notin HasJob,
           serve[h].at \notin {"none", "shown"}, NEW at, at \notin {"none", "shown"},
           NEW t \in Tables, NEW table, WellFormed(table), Store(h, t, table, [at |-> at])
    PROVE  IInv'
  <1> DEFINE change == [at |-> at]
  <1>1. DOMAIN change = {"at"} /\ change.at = at /\ Store(h, t, table, change)
    OBVIOUS
  <1>2. Work(change)
    BY <1>1 DEF Work, Working
  <1> HIDE DEF change
  <1> QED BY <1>1, <1>2, OutsideStores

\* A request that is no transfer and has no file has come to its end.
LEMMA OverKeeps ==
    ASSUME IInv, NEW h \in Handlers, serve[h].op \notin HasJob,
           serve[h].at \notin {"none", "shown"}, NEW at, at \notin {"none", "shown"},
           Continue(h, [at |-> at])
    PROVE  IInv'
  <1>1. Go(h, [at |-> at]) /\ UNCHANGED <<tables, file, clip, jobs>>
    BY DEF Continue
  <1> QED BY <1>1, MoveKeeps

\* The client has the copy.
LEMMA GiveCopyKeeps ==
    ASSUME IInv, NEW h \in Handlers, GiveCopy(h)
    PROVE  IInv'
  <1> DEFINE change == [at |-> "over"]
  <1>1. /\ At(h, {"copy"}, "write") /\ Go(h, change) /\ UNCHANGED <<tables, file, jobs>>
        /\ clip' = [cols |-> serve[h].cols, rows |-> serve[h].read]
    BY DEF GiveCopy
  <1>2. /\ serve[h].op = "copy" /\ serve[h].at = "write"
        /\ IsSeq(serve[h].read) /\ HaveNames(serve[h].cols)
    BY <1>1, AtPoint
  <1>3. DOMAIN change = {"at"} /\ change.at = "over"
    OBVIOUS
  <1>4. Work(change)
    BY <1>3 DEF Work, Working
  <1>5. IsSeq(clip'.rows) /\ HaveNames(clip'.cols)
    BY <1>1, <1>2
  <1> HIDE DEF change
  <1> QED BY <1>1, <1>2, <1>3, <1>4, <1>5, OutsideKeeps DEF HasJob

\* A copy is looked at before it is inserted.
LEMMA PreparePortableKeeps ==
    ASSUME IInv, NEW h \in Handlers, PreparePortable(h)
    PROVE  IInv'
  <1> DEFINE change == [at |-> "creating", cols |-> clip.cols, todo |-> clip.rows,
                        map |-> [n \in {c.name : c \in clip.cols} |-> n]]
  <1>1. At(h, {"new"}, "asked") /\ (Fail(h) \/ Continue(h, change))
    BY DEF PreparePortable
  <1>2. serve[h].op = "new" /\ serve[h].at = "asked"
    BY <1>1, AtPoint
  <1>3. CASE Fail(h)
    BY <1>2, <1>3, FailKeeps DEF Alone
  <1>4. CASE Continue(h, change)
    <2>1. /\ DOMAIN change = {"at", "cols", "todo", "map"} /\ change.at = "creating"
          /\ change.cols = clip.cols /\ change.todo = clip.rows
      OBVIOUS
    <2>2. IsSeq(clip.rows) /\ HaveNames(clip.cols)
      BY DEF IInv, Typed
    <2>3. Work(change)
      BY <2>1, <2>2 DEF Work, Working
    <2>4. Go(h, change) /\ UNCHANGED <<tables, file, clip, jobs>>
      BY <1>4 DEF Continue
    <2> HIDE DEF change
    <2> QED BY <1>2, <2>1, <2>2, <2>3, <2>4, OutsideKeeps DEF HasJob
  <1> QED BY <1>1, <1>3, <1>4

\* A paste takes the rows of the clipboard.
LEMMA PreparePasteKeeps ==
    ASSUME IInv, NEW h \in Handlers, PreparePaste(h)
    PROVE  IInv'
  <1> DEFINE change == [at |-> "insert", todo |-> clip.rows,
                        map |-> Mapping(clip.cols, tables[serve[h].to].cols)]
  <1>1. At(h, {"paste"}, "asked") /\ (Fail(h) \/ Continue(h, change))
    BY DEF PreparePaste
  <1>2. serve[h].op = "paste" /\ serve[h].at = "asked"
    BY <1>1, AtPoint
  <1>3. CASE Fail(h)
    BY <1>2, <1>3, FailKeeps DEF Alone
  <1>4. CASE Continue(h, change)
    <2>1. /\ DOMAIN change = {"at", "todo", "map"} /\ change.at = "insert"
          /\ change.todo = clip.rows
      OBVIOUS
    <2>2. IsSeq(clip.rows) /\ HaveNames(clip.cols)
      BY DEF IInv, Typed
    <2>3. Work(change)
      BY <2>1, <2>2 DEF Work, Working
    <2>4. Go(h, change) /\ UNCHANGED <<tables, file, clip, jobs>>
      BY <1>4 DEF Continue
    <2> HIDE DEF change
    <2> QED BY <1>2, <2>1, <2>2, <2>3, <2>4, OutsideKeeps DEF HasJob
  <1> QED BY <1>1, <1>3, <1>4

\* One row of a copy is inserted, or counted.
LEMMA InsertClipRowKeeps ==
    ASSUME IInv, NEW h \in Handlers, InsertClipRow(h)
    PROVE  IInv'
  <1> DEFINE t == serve[h].to
             row == MappedRow(serve[h].map, Head(serve[h].todo))
             next == [todo |-> Tail(serve[h].todo),
                      copied |-> serve[h].copied, failed |-> serve[h].failed]
             one == [next EXCEPT !.copied = @ + 1]
             none == [next EXCEPT !.failed = @ + 1]
  <1>1. /\ At(h, {"new", "paste"}, "insert") /\ serve[h].todo # <<>>
        /\ \/ /\ Accepts(t, row)
              /\ Store(h, t, Inserted(t, row), one) \/ Store(h, t, Inserted(t, row), none)
           \/ Continue(h, none)
    BY DEF InsertClipRow, InsertMapped, NoRows
  <1>2. /\ serve[h].op \in {"new", "paste"} /\ serve[h].at = "insert" /\ t \in Tables
        /\ serve[h].copied \in Nat /\ serve[h].failed \in Nat /\ IsSeq(serve[h].todo)
    BY <1>1, AtPoint DEF OnOneTable, Ops
  <1>3. IsSeq(Tail(serve[h].todo))
    BY <1>1, <1>2, TailIsSeq
  <1>4. /\ DOMAIN one = {"todo", "copied", "failed"} /\ one.todo = Tail(serve[h].todo)
        /\ one.copied = serve[h].copied + 1 /\ one.failed = serve[h].failed
        /\ DOMAIN none = {"todo", "copied", "failed"} /\ none.todo = Tail(serve[h].todo)
        /\ none.copied = serve[h].copied /\ none.failed = serve[h].failed + 1
    OBVIOUS
  <1>5. serve[h].op \notin HasJob /\ serve[h].at \notin {"none", "shown"}
    BY <1>2 DEF HasJob
  <1> HIDE DEF one, none, next
  <1>6. Work(one) /\ Work(none)
    BY <1>2, <1>3, <1>4 DEF Work, Working
  <1>7. CASE /\ Accepts(t, row)
             /\ Store(h, t, Inserted(t, row), one) \/ Store(h, t, Inserted(t, row), none)
    <2>1. WellFormed(Inserted(t, row))
      BY <1>2, <1>7, InsertedIsWell
    <2>2. ASSUME Store(h, t, Inserted(t, row), one) PROVE IInv'
      BY <1>2, <1>5, <1>6, <2>1, <2>2, OutsideStores
    <2>3. ASSUME Store(h, t, Inserted(t, row), none) PROVE IInv'
      BY <1>2, <1>5, <1>6, <2>1, <2>3, OutsideStores
    <2> QED BY <1>7, <2>2, <2>3
  <1>8. CASE Continue(h, none)
    <2>1. /\ Go(h, none) /\ UNCHANGED <<tables, file, clip, jobs>>
          /\ IsSeq(clip.rows) /\ HaveNames(clip.cols)
      BY <1>8 DEF Continue, IInv, Typed
    <2> QED BY <1>2, <1>3, <1>4, <1>5, <1>6, <2>1, OutsideKeeps
  <1> QED BY <1>1, <1>7, <1>8

\* A paste or a new table ends when its rows are used up.
LEMMA FinishClipKeeps ==
    ASSUME IInv, NEW h \in Handlers, FinishClip(h)
    PROVE  IInv'
  <1>1. At(h, {"new", "paste"}, "insert") /\ Continue(h, [at |-> "over"])
    BY DEF FinishClip
  <1>2. serve[h].op \in {"new", "paste"} /\ serve[h].at = "insert"
    BY <1>1, AtPoint
  <1> QED BY <1>1, <1>2, OverKeeps DEF HasJob

\* A row is shown to a client: it holds no pool meanwhile.
LEMMA ShowRowsKeeps ==
    ASSUME IInv, NEW h \in Handlers, NEW t \in Tables, NEW op \in {"edit", "remove"},
           ShowRows(h, t, op)
    PROVE  IInv'
  <1>1. PICK row : /\ serve[h] = Idle /\ UNCHANGED <<tables, file, clip, jobs>>
                   /\ Go(h, [op |-> op, at |-> "shown", from |-> t, to |-> t, seen |-> row])
    BY DEF ShowRows
  <1> DEFINE change == [op |-> op, at |-> "shown", from |-> t, to |-> t, seen |-> row]
  <1>2. Typed /\ RequestTyped(h) /\ PoolsHold(h)
    BY DEF IInv, Typed
  <1>3. /\ DOMAIN change = {"op", "at", "from", "to", "seen"} /\ change.op = op
        /\ change.at = "shown" /\ change.from = t /\ change.to = t /\ Go(h, change)
    BY <1>1
  <1>4. DOMAIN change \subseteq Fields
    BY <1>3 DEF Fields
  <1>5. Becomes(h, change)
    BY <1>1, <1>2, <1>4, GoMoves
  <1> HIDE DEF change
  <1>6. /\ serve'[h].op = op /\ serve'[h].at = "shown"
        /\ serve'[h].from = t /\ serve'[h].to = t
        /\ serve'[h].pool = serve[h].pool /\ serve'[h].offset = serve[h].offset
        /\ serve'[h].copied = serve[h].copied /\ serve'[h].failed = serve[h].failed
        /\ serve'[h].todo = serve[h].todo /\ serve'[h].read = serve[h].read
        /\ serve'[h].cols = serve[h].cols /\ serve'[h].before = serve[h].before
        /\ serve'[h].clean = serve[h].clean /\ DOMAIN serve'[h] = Fields
        /\ serve'[h].url = serve[h].url /\ serve'[h].dial = serve[h].dial
        /\ serve'[h].opening = serve[h].opening
    BY <1>3, <1>5 DEF Becomes, Fields
  <1>7. serve[h].at = "none"
    BY <1>1, IdleIs
  <1>8. RequestTyped(h)'
    BY <1>1, <1>2, <1>6 DEF RequestTyped, OnOneTable, HasJob, Ops
  <1>9. PoolsHold(h)'
    BY <1>2, <1>6, <1>7 DEF PoolsHold
  <1>10. Holds(h)'
    BY <1>6, <1>8, <1>9, OthersHold
  <1>11. TablesTyped'
    BY <1>1, <1>2 DEF Typed, TablesTyped
  <1> QED BY <1>1, <1>3, <1>4, <1>10, <1>11, GoKeeps

\* The client sends its edit: now the profile is read.
LEMMA SubmitRowKeeps ==
    ASSUME IInv, NEW h \in Handlers, SubmitRow(h)
    PROVE  IInv'
  <1> DEFINE c == Home[serve[h].to]
             url == [serve[h].url EXCEPT ![c] = profiles[c]]
             change == [at |-> "asked", dial |-> {c} \ Sqlite, url |-> url]
  <1>1. At(h, {"edit", "remove"}, "shown") /\ Continue(h, change)
    BY DEF SubmitRow
  <1>2. Typed /\ RequestTyped(h) /\ PoolsHold(h)
    BY DEF IInv, Typed
  <1>3. serve[h].op \in {"edit", "remove"} /\ serve[h].at = "shown"
    BY <1>1, AtPoint
  <1>4. DOMAIN change = {"at", "dial", "url"} /\ change.at = "asked" /\ change.url = url
    OBVIOUS
  <1>5. DOMAIN change \subseteq Fields
    BY <1>4 DEF Fields
  <1>6. url = [d \in Conns |-> url[d]]
    BY <1>2 DEF RequestTyped
  <1> HIDE DEF change, url
  <1>7. ASSUME Becomes(h, change) PROVE Holds(h)'
    <2>1. /\ serve'[h].op = serve[h].op /\ serve'[h].at = "asked"
          /\ serve'[h].from = serve[h].from /\ serve'[h].to = serve[h].to
          /\ serve'[h].pool = serve[h].pool /\ serve'[h].offset = serve[h].offset
          /\ serve'[h].copied = serve[h].copied /\ serve'[h].failed = serve[h].failed
          /\ serve'[h].todo = serve[h].todo /\ serve'[h].read = serve[h].read
          /\ serve'[h].cols = serve[h].cols /\ serve'[h].before = serve[h].before
          /\ serve'[h].clean = serve[h].clean /\ DOMAIN serve'[h] = Fields
          /\ serve'[h].url = url /\ UNCHANGED jobs
      BY <1>1, <1>4, <1>7 DEF Becomes, Fields, Continue
    <2>2. RequestTyped(h)'
      BY <1>2, <1>3, <1>6, <2>1 DEF RequestTyped, OnOneTable, HasJob, Ops
    <2>3. PoolsHold(h)'
      BY <1>2, <1>3, <2>1 DEF PoolsHold
    <2> QED BY <1>3, <2>1, <2>2, <2>3, OthersHold
  <1> QED BY <1>1, <1>5, <1>7, ContinueKeeps

\* A change of a row checks it against the rows it finds.
LEMMA CheckRowKeeps ==
    ASSUME IInv, NEW h \in Handlers, CheckRow(h)
    PROVE  IInv'
  <1>1. At(h, {"edit", "remove"}, "asked") /\ (Continue(h, [at |-> "apply"]) \/ Fail(h))
    BY DEF CheckRow
  <1>2. serve[h].op \in {"edit", "remove"} /\ serve[h].at = "asked"
    BY <1>1, AtPoint
  <1>3. CASE Continue(h, [at |-> "apply"])
    BY <1>2, <1>3, OverKeeps DEF HasJob
  <1>4. CASE Fail(h)
    BY <1>2, <1>4, FailKeeps DEF Alone
  <1> QED BY <1>1, <1>3, <1>4

\* The rows of a key become the new one.
LEMMA UpdateRowKeeps ==
    ASSUME IInv, NEW h \in Handlers, NEW row, UpdateRow(h, row)
    PROVE  IInv'
  <1> DEFINE t == serve[h].to
             hit == Matching(t, serve[h].seen)
             rows == [i \in DOMAIN tables[t].rows |->
                         IF i \in hit THEN Edited(t, tables[t].rows[i], row)
                         ELSE tables[t].rows[i]]
             table == [tables[t] EXCEPT !.rows = rows]
  <1>1. At(h, {"edit"}, "apply") /\ Store(h, t, table, [at |-> "over"])
    BY DEF UpdateRow
  <1>2. serve[h].op = "edit" /\ serve[h].at = "apply" /\ t \in Tables
    BY <1>1, AtPoint DEF OnOneTable, Ops
  <1>3. WellFormed(tables[t])
    BY <1>2 DEF IInv, Typed
  <1>4. /\ Len(tables[t].rows) \in Nat /\ DOMAIN tables[t].rows = 1..Len(tables[t].rows)
        /\ IsSeq(tables[t].rows)
    BY <1>3, SeqHasLen DEF WellFormed
  <1>5. rows = [i \in 1..Len(tables[t].rows) |-> rows[i]]
    BY <1>4
  <1>6. Store(h, t, table, [at |-> "over"])
    BY <1>1
  <1> HIDE DEF rows
  <1>7. IsSeq(rows) /\ Len(rows) = Len(tables[t].rows)
    BY <1>4, <1>5, ListIsSeq
  <1>8. ~tables[t].there => rows = <<>>
    <2>1. ~tables[t].there => Len(tables[t].rows) = 0
      BY <1>3, NothingIsSeq DEF WellFormed
    <2> QED BY <1>7, <2>1, SeqHasLen
  <1>9. WellFormed(table)
    BY <1>3, <1>7, <1>8, RowsAreWell
  <1> HIDE DEF table
  <1> QED BY <1>2, <1>6, <1>9, WriteKeeps DEF HasJob

\* The row of a key goes.
LEMMA RemoveRowKeeps ==
    ASSUME IInv, NEW h \in Handlers, RemoveRow(h)
    PROVE  IInv'
  <1> DEFINE t == serve[h].to
             hit == Matching(t, serve[h].seen)
             place == CHOOSE i \in hit : TRUE
             rows == RemoveAt(tables[t].rows, place)
             table == IF hit = {} THEN tables[t] ELSE [tables[t] EXCEPT !.rows = rows]
  <1>1. At(h, {"remove"}, "apply") /\ Store(h, t, table, [at |-> "over"])
    BY DEF RemoveRow
  <1>2. serve[h].op = "remove" /\ serve[h].at = "apply" /\ t \in Tables
    BY <1>1, AtPoint DEF OnOneTable, Ops
  <1>3. WellFormed(tables[t])
    BY <1>2 DEF IInv, Typed
  <1>4. Len(tables[t].rows) \in Nat /\ IsSeq(tables[t].rows)
    BY <1>3, SeqHasLen DEF WellFormed
  <1>5. WellFormed(table)
    <2>1. CASE hit = {}
      BY <1>3, <2>1
    <2>2. CASE hit # {}
      <3>1. place \in 1..Len(tables[t].rows)
        BY <2>2 DEF Matching
      <3> HIDE DEF place, hit
      <3>2. place - 1 \in Nat /\ place - 1 <= Len(tables[t].rows) /\ place + 1 \in Nat \ {0}
        BY <1>4, <3>1
      <3>3. IsSeq(SubSeq(tables[t].rows, 1, place - 1))
        BY <1>4, <3>2, PartIsSeq
      <3>4. IsSeq(SubSeq(tables[t].rows, place + 1, Len(tables[t].rows)))
        BY <1>4, <3>2, PartIsSeq
      <3>5. IsSeq(rows)
        BY <3>3, <3>4, ConcatIsSeq DEF RemoveAt
      <3>6. tables[t].there
        BY <1>3, <1>4, <3>1, NothingIsSeq DEF WellFormed
      <3> HIDE DEF rows
      <3>7. WellFormed([tables[t] EXCEPT !.rows = rows])
        BY <1>3, <3>5, <3>6, RowsAreWell
      <3> QED BY <2>2, <3>7
    <2> QED BY <2>1, <2>2
  <1> HIDE DEF table
  <1> QED BY <1>1, <1>2, <1>5, WriteKeeps DEF HasJob

\* A row is added.
LEMMA InsertRowKeeps ==
    ASSUME IInv, NEW h \in Handlers, NEW row, InsertRow(h, row)
    PROVE  IInv'
  <1> DEFINE t == serve[h].to
  <1>1. /\ At(h, {"add"}, "asked")
        /\ (Accepts(t, row) /\ Store(h, t, Inserted(t, row), [at |-> "over"])) \/ Fail(h)
    BY DEF InsertRow
  <1>2. serve[h].op = "add" /\ serve[h].at = "asked" /\ t \in Tables
    BY <1>1, AtPoint DEF OnOneTable, Ops
  <1>3. CASE Accepts(t, row) /\ Store(h, t, Inserted(t, row), [at |-> "over"])
    <2>1. WellFormed(Inserted(t, row))
      BY <1>2, <1>3, InsertedIsWell
    <2> QED BY <1>2, <1>3, <2>1, WriteKeeps DEF HasJob
  <1>4. CASE Fail(h)
    BY <1>2, <1>4, FailKeeps DEF Alone
  <1> QED BY <1>1, <1>3, <1>4

\* Statements.
LEMMA RunSqliteKeeps ==
    ASSUME IInv, NEW h \in Handlers, NEW script, NEW row, RunSqlite(h, script, row)
    PROVE  IInv'
  <1> DEFINE t == serve[h].to
  <1>1. /\ At(h, {"query"}, "asked")
        /\ Fail(h) \/ Store(h, t, Effect(t, Head(script), row), [at |-> "over"])
    BY DEF RunSqlite
  <1>2. serve[h].op = "query" /\ serve[h].at = "asked" /\ t \in Tables
    BY <1>1, AtPoint DEF OnOneTable, Ops
  <1>3. CASE Store(h, t, Effect(t, Head(script), row), [at |-> "over"])
    <2>1. WellFormed(Effect(t, Head(script), row))
      BY <1>2, EffectIsWell
    <2> QED BY <1>2, <1>3, <2>1, WriteKeeps DEF HasJob
  <1>4. CASE Fail(h)
    BY <1>2, <1>4, FailKeeps DEF Alone
  <1> QED BY <1>1, <1>3, <1>4

\* A live database runs a query.
LEMMA RunLiveKeeps ==
    ASSUME IInv, NEW h \in Handlers, NEW script, NEW row, RunLive(h, script, row)
    PROVE  IInv'
  <1> DEFINE t == serve[h].to
             at == IF Len(script) > 1 THEN "asked" ELSE "over"
  <1>1. /\ At(h, {"query"}, "asked")
        /\ Store(h, t, Effect(t, Head(script), row), [at |-> at])
    BY DEF RunLive
  <1>2. serve[h].op = "query" /\ serve[h].at = "asked" /\ t \in Tables
    BY <1>1, AtPoint DEF OnOneTable, Ops
  <1>3. at \notin {"none", "shown"} /\ serve[h].op \notin HasJob
    BY <1>2 DEF HasJob
  <1>4. WellFormed(Effect(t, Head(script), row))
    BY <1>2, EffectIsWell
  <1> HIDE DEF at
  <1> QED BY <1>1, <1>2, <1>3, <1>4, WriteKeeps

\* A statement of PostgreSQL that inserts a row and deletes the first.
LEMMA RunPostgresKeeps ==
    ASSUME IInv, NEW h \in Handlers, NEW row, RunPostgres(h, row)
    PROVE  IInv'
  <1> DEFINE t == serve[h].to
             table == [Inserted(t, row) EXCEPT !.rows = Tail(Inserted(t, row).rows)]
  <1>1. /\ At(h, {"query"}, "asked")
        /\ (Accepts(t, row) /\ Store(h, t, table, [at |-> "over"])) \/ Fail(h)
    BY DEF RunPostgres
  <1>2. serve[h].op = "query" /\ serve[h].at = "asked" /\ t \in Tables
    BY <1>1, AtPoint DEF OnOneTable, Ops
  <1>3. CASE Accepts(t, row) /\ Store(h, t, table, [at |-> "over"])
    <2>1. /\ WellFormed(Inserted(t, row))
          /\ Inserted(t, row).rows = Append(tables[t].rows, Stored(t, tables[t].cols, row))
      BY <1>2, <1>3, InsertedIsWell
    <2>2. IsSeq(tables[t].rows)
      BY <1>2 DEF IInv, Typed, WellFormed
    <2>3. Inserted(t, row).rows # <<>>
      BY <2>1, <2>2, AppendIsSeq
    <2>4. WellFormed(table)
      BY <2>1, <2>3, ShorterIsWell
    <2> HIDE DEF table
    <2> QED BY <1>2, <1>3, <2>4, WriteKeeps DEF HasJob
  <1>4. CASE Fail(h)
    BY <1>2, <1>4, FailKeeps DEF Alone
  <1> QED BY <1>1, <1>3, <1>4

\* A test of a connection is recorded.
LEMMA RecordTestKeeps ==
    ASSUME IInv, NEW h \in Handlers, RecordTest(h)
    PROVE  IInv'
  <1>1. At(h, {"test"}, "asked") /\ Continue(h, [at |-> "over"])
    BY DEF RecordTest
  <1>2. serve[h].op = "test" /\ serve[h].at = "asked"
    BY <1>1, AtPoint
  <1> QED BY <1>1, <1>2, OverKeeps DEF HasJob

-----------------------------------------------------------------------------
(* Requests that have a job.                                                *)

\* What a request keeps while it is under way.
Same(h) == /\ serve'[h].op = serve[h].op /\ serve'[h].mode = serve[h].mode
           /\ serve'[h].from = serve[h].from /\ serve'[h].to = serve[h].to
           /\ serve'[h].before = serve[h].before /\ serve'[h].clean = serve[h].clean

\* It moves on.
LEMMA JobContinues ==
    ASSUME IInv, NEW h \in Handlers, serve[h].at \notin {"none", "shown", "over"},
           NEW change, Work(change), Continue(h, change),
           (Becomes(h, change) /\ Same(h))
             => (TransferHolds(h)' /\ ImportHolds(h)' /\ ExportHolds(h)')
    PROVE  IInv'
  <1>1. DOMAIN change \subseteq Fields
    BY DEF Work, Working, Fields
  <1>2. RequestTyped(h) /\ UNCHANGED jobs
    BY DEF IInv, Typed, Continue
  <1>3. /\ "status" \in DOMAIN jobs'[h]
        /\ serve[h].op \in HasJob => jobs'[h].status \notin {"done", "failed"}
    BY <1>2 DEF RequestTyped
  <1>4. ASSUME Becomes(h, change) PROVE Holds(h)'
    <2>1. /\ RequestTyped(h)' /\ PoolsHold(h)'
          /\ \A f \in Fields \ Working : serve'[h][f] = serve[h][f]
      BY <1>3, <1>4, WorkIsTyped
    <2>2. Same(h)
      BY <2>1 DEF Same, Fields, Working
    <2> QED BY <1>4, <2>1, <2>2 DEF Holds
  <1> QED BY <1>1, <1>4, ContinueKeeps

\* It writes a table.
LEMMA JobStores ==
    ASSUME IInv, NEW h \in Handlers, serve[h].at \notin {"none", "shown", "over"},
           NEW change, Work(change), NEW t \in Tables, NEW table, WellFormed(table),
           Store(h, t, table, change),
           (/\ Becomes(h, change) /\ Same(h) /\ tables'[t] = table
            /\ \A u \in Tables \ {t} : tables'[u] = tables[u])
             => (TransferHolds(h)' /\ ImportHolds(h)' /\ ExportHolds(h)')
    PROVE  IInv'
  <1>1. DOMAIN change \subseteq Fields
    BY DEF Work, Working, Fields
  <1>2. RequestTyped(h) /\ UNCHANGED jobs
    BY DEF IInv, Typed, Store
  <1>3. /\ "status" \in DOMAIN jobs'[h]
        /\ serve[h].op \in HasJob => jobs'[h].status \notin {"done", "failed"}
    BY <1>2 DEF RequestTyped
  <1>4. ASSUME Becomes(h, change), tables'[t] = table,
               \A u \in Tables \ {t} : tables'[u] = tables[u]
        PROVE  Holds(h)'
    <2>1. /\ RequestTyped(h)' /\ PoolsHold(h)'
          /\ \A f \in Fields \ Working : serve'[h][f] = serve[h][f]
      BY <1>3, <1>4, WorkIsTyped
    <2>2. Same(h)
      BY <2>1 DEF Same, Fields, Working
    <2> QED BY <1>4, <2>1, <2>2 DEF Holds
  <1> QED BY <1>1, <1>4, StoreKeeps

\* It ends well: its job counts what it did.
LEMMA SucceedKeeps ==
    ASSUME IInv, NEW h \in Handlers, Succeed(h), serve[h].op \in {"transfer", "import"},
           serve[h].at \notin {"none", "shown"},
           Alone(h, "transfer") => /\ serve[h].from # serve[h].to
                                   /\ AfterCopying(serve[h], tables[serve[h].from],
                                          tables[serve[h].to], serve[h].copied,
                                          serve[h].failed),
           Alone(h, "import") =>
               Len(tables[serve[h].to].rows) = Len(serve[h].before.rows) + serve[h].copied
    PROVE  IInv'
  <1> DEFINE change == [at |-> "over"]
             job == [status |-> "done", copied |-> serve[h].copied,
                     failed |-> serve[h].failed, made |-> serve[h].made]
  <1>1. Typed
    BY DEF IInv
  <1>2. /\ Go(h, change) /\ jobs' = [jobs EXCEPT ![h] = job] /\ UNCHANGED <<tables, file, clip>>
    BY DEF Succeed
  <1>3. /\ DOMAIN change = {"at"} /\ change.at = "over" /\ "status" \in DOMAIN job
        /\ job.status = "done" /\ job.copied = serve[h].copied /\ job.failed = serve[h].failed
        /\ job.made = serve[h].made
    OBVIOUS
  <1>a. job.copied \in Nat /\ job.failed \in Nat
    BY <1>1, <1>3 DEF Typed, RequestTyped
  <1> HIDE DEF change, job
  <1>4. /\ jobs' = [g \in Handlers |-> jobs'[g]] /\ jobs'[h] = job
        /\ \A g \in Handlers : g # h => jobs'[g] = jobs[g]
    BY <1>1, <1>2 DEF Typed
  <1>5. DOMAIN change \subseteq Fields /\ Work(change)
    BY <1>3 DEF Fields, Work, Working
  <1>6. Becomes(h, change)
    BY <1>1, <1>2, <1>5, GoMoves
  <1>7. /\ serve'[h].at = "over" /\ serve'[h].map = serve[h].map
    BY <1>3, <1>6 DEF Becomes, Fields
  <1>8. /\ RequestTyped(h)' /\ PoolsHold(h)'
        /\ \A f \in Fields \ Working : serve'[h][f] = serve[h][f]
    BY <1>3, <1>4, <1>5, <1>6, <1>7, WorkIsTyped
  <1>9. Same(h)
    BY <1>8 DEF Same, Fields, Working
  <1>10. TransferHolds(h)'
    <2> SUFFICES ASSUME serve'[h].op = "transfer", serve'[h].clean
                 PROVE  TransferSound(serve'[h], tables'[serve'[h].from],
                                      tables'[serve'[h].to], jobs'[h])
      BY DEF TransferHolds, Alone
    <2>1. AfterCopying(serve[h], tables[serve[h].from], tables[serve[h].to], job.copied,
                       job.failed) /\ serve[h].from # serve[h].to
      BY <1>3, <1>9 DEF Alone, Same
    <2>2. AfterCopying(serve'[h], tables[serve[h].from], tables[serve[h].to], job.copied,
                       job.failed)
      BY <1>7, <1>9, <2>1 DEF Same, AfterCopying, Copied, CameFrom, Differ
    <2>3. BeforeCopying(serve'[h], tables[serve[h].from], tables[serve[h].to])
      BY <1>7, <1>9, <2>1 DEF Same, BeforeCopying
    <2>4. WhileCopying(serve'[h], tables[serve[h].from], tables[serve[h].to])
      BY <1>7 DEF WhileCopying
    <2> QED BY <1>2, <1>a, <1>4, <1>7, <1>9, <2>2, <2>3, <2>4 DEF Same, TransferSound
  <1>11. ImportHolds(h)'
    BY <1>2, <1>3, <1>a, <1>4, <1>7, <1>9 DEF ImportHolds, Alone, Same, ImportSound
  <1>12. ExportHolds(h)'
    BY <1>9 DEF ExportHolds, Alone, Same
  <1>13. Holds(h)'
    BY <1>8, <1>10, <1>11, <1>12 DEF Holds
  <1>14. TablesTyped'
    BY <1>1, <1>2, <1>4 DEF Typed, TablesTyped
  <1> QED BY <1>2, <1>4, <1>5, <1>13, <1>14, GoKeeps

-----------------------------------------------------------------------------
(* Files.                                                                   *)

\* A page is as many rows of the table as it has places; if these are as many as
\* the table's rows, it is all of them.
LEMMA PageIs ==
    ASSUME IInv, NEW t \in Tables, NEW n \in Nat, NEW page \in Pages(t, n)
    PROVE  /\ IsSeq(page) /\ Len(page) = n
           /\ FromTable(page, tables[t])
           /\ n = Len(tables[t].rows) => Covers(page, tables[t])
  <1> DEFINE rows == tables[t].rows
  <1>1. IsSeq(rows) /\ Len(rows) \in Nat
    BY SeqHasLen DEF IInv, Typed, WellFormed
  <1>2. PICK place \in Injection(1..n, 1..Len(rows)) :
           page = [i \in 1..n |-> JsonRow(rows[place[i]])]
    BY DEF Pages
  <1>3. place \in [1..n -> 1..Len(rows)] /\ \A i, j \in 1..n : place[i] = place[j] => i = j
    BY <1>2 DEF Injection, IsInjective
  <1> HIDE DEF rows
  <1>4. IsSeq(page) /\ Len(page) = n /\ \A i \in 1..n : page[i] = JsonRow(rows[place[i]])
    <2>1. page = [i \in 1..n |-> page[i]] /\ \A i \in 1..n : page[i] = JsonRow(rows[place[i]])
      BY <1>2
    <2> QED BY <2>1, ListIsSeq
  <1>5. FromTable(page, tables[t])
    BY <1>3, <1>4 DEF FromTable, rows
  <1>6. ASSUME n = Len(rows) PROVE Covers(page, tables[t])
    <2>1. \A i \in 1..n : \E j \in 1..n : place[j] = i
      BY <1>3, <1>6, DifferentIsAll
    <2> QED BY <1>4, <1>6, <2>1 DEF Covers, rows
  <1> QED BY <1>4, <1>5, <1>6 DEF rows

\* A page ends with the table, or is full and leaves rows for another one.
LEMMA PageFits ==
    ASSUME IInv, NEW t \in Tables, NEW offset \in Nat
    PROVE  /\ Len(tables[t].rows) \in Nat /\ PageSize(t, offset) \in Nat
           /\ offset <= Len(tables[t].rows) =>
                 /\ offset + PageSize(t, offset) <= Len(tables[t].rows)
                 /\ HasMore(t, offset) <=>
                       offset + PageSize(t, offset) < Len(tables[t].rows)
           /\ PageSize(t, offset) = 0 => Len(tables[t].rows) <= offset
           /\ offset = 0 /\ Len(tables[t].rows) <= Batch =>
                 PageSize(t, offset) = Len(tables[t].rows)
  <1> DEFINE all == Len(tables[t].rows)
  <1>1. all \in Nat /\ Batch \in Nat \ {0}
    BY SeqHasLen, DatabaseAssumption DEF IInv, Typed, WellFormed
  <1>2. /\ PageSize(t, offset) = IF all - offset <= 0 THEN 0
                                 ELSE IF all - offset <= Batch THEN all - offset ELSE Batch
        /\ HasMore(t, offset) <=> all > offset + Batch
    BY DEF PageSize, HasMore
  <1> HIDE DEF all
  <1>3. PageSize(t, offset) \in Nat
    BY <1>1, <1>2
  <1> QED BY <1>1, <1>2, <1>3 DEF all

\* An export or a copy reads the next rows, a SQLite file all of them at once.
LEMMA ReadSourceKeeps ==
    ASSUME IInv, NEW h \in Handlers, ReadSource(h)
    PROVE  IInv'
  <1> DEFINE t == serve[h].from
             rows == tables[t].rows
             n == IF serve[h].mode = "schema" THEN 0
                  ELSE IF Home[t] \in Sqlite THEN Len(rows)
                  ELSE PageSize(t, serve[h].offset)
             done == Home[t] \in Sqlite \/ serve[h].mode = "schema"
                         \/ ~HasMore(t, serve[h].offset)
             Change(page) == [read |-> serve[h].read \o page, cols |-> tables[t].cols,
                              offset |-> serve[h].offset + n,
                              at |-> IF done THEN "write" ELSE "asked"]
  <1>1. /\ At(h, {"export", "copy"}, "asked")
        /\ Fail(h) \/ \E page \in Pages(t, n) : Continue(h, Change(page))
    BY DEF ReadSource
  <1>2. /\ serve[h].op \in {"export", "copy"} /\ serve[h].at = "asked" /\ t \in Tables
        /\ serve[h].offset \in Nat /\ IsSeq(serve[h].read) /\ ExportHolds(h)
        /\ "status" \in DOMAIN jobs[h]
    BY <1>1, AtPoint DEF OnOneTable, Ops
  <1>3. CASE Fail(h)
    BY <1>2, <1>3, FailKeeps DEF Alone
  <1>4. ASSUME NEW page \in Pages(t, n), Continue(h, Change(page)) PROVE IInv'
    <2> DEFINE change == Change(page)
    <2>1. HaveNames(tables[t].cols) /\ n \in Nat /\ Len(rows) \in Nat
      <3>1. Len(rows) \in Nat /\ PageSize(t, serve[h].offset) \in Nat
        BY <1>2, PageFits
      <3>2. HaveNames(tables[t].cols)
        BY <1>2 DEF IInv, Typed, WellFormed
      <3> QED BY <3>1, <3>2
    <2>2. /\ DOMAIN change = {"read", "cols", "offset", "at"}
          /\ change.read = serve[h].read \o page /\ change.cols = tables[t].cols
          /\ change.offset = serve[h].offset + n
          /\ change.at = IF done THEN "write" ELSE "asked"
          /\ Continue(h, change)
      BY <1>4
    <2>3. /\ serve[h].mode # "schema" /\ Home[t] \in Sqlite => n = Len(rows)
          /\ serve[h].mode # "schema" /\ Home[t] \notin Sqlite => n = PageSize(t, serve[h].offset)
          /\ serve[h].mode # "schema" =>
                (done <=> Home[t] \in Sqlite \/ ~HasMore(t, serve[h].offset))
      OBVIOUS
    <2> HIDE DEF change, n, done
    <2>4. /\ IsSeq(page) /\ Len(page) = n /\ FromTable(page, tables[t])
          /\ n = Len(rows) => Covers(page, tables[t])
      BY <1>2, <2>1, PageIs
    <2>5. /\ IsSeq(serve[h].read \o page)
          /\ Len(serve[h].read \o page) = Len(serve[h].read) + n
          /\ \A i \in 1..(Len(serve[h].read) + n) :
                (serve[h].read \o page)[i] = IF i <= Len(serve[h].read) THEN serve[h].read[i]
                                             ELSE page[i - Len(serve[h].read)]
      BY <1>2, <2>4, ConcatIsSeq
    <2>6. Work(change)
      BY <1>2, <2>1, <2>2, <2>5 DEF Work, Working
    <2>7. ASSUME Becomes(h, change), Same(h)
          PROVE  TransferHolds(h)' /\ ImportHolds(h)' /\ ExportHolds(h)'
      <3>1. TransferHolds(h)' /\ ImportHolds(h)'
        BY <1>2, <2>7 DEF Same, TransferHolds, ImportHolds, Alone
      <3>2. ASSUME serve'[h].op = "export", serve'[h].clean
            PROVE  ExportSound(h, serve'[h], tables'[serve'[h].from], jobs'[h], file')
        <4> DEFINE all == serve[h].read \o page
                   small == Home[t] \in Sqlite \/ Len(rows) <= Batch
        <4>1. /\ serve[h].mode = "copy" /\ serve[h].offset <= Len(rows)
              /\ Len(serve[h].read) = serve[h].offset /\ FromTable(serve[h].read, tables[t])
              /\ small => serve[h].offset = 0
          BY <1>2, <2>7, <3>2 DEF Same, ExportHolds, Alone, ExportSound
        <4>2. /\ serve'[h].read = all
              /\ serve'[h].offset = serve[h].offset + n
              /\ serve'[h].at = IF done THEN "write" ELSE "asked"
              /\ serve'[h].mode = "copy" /\ serve'[h].from = t /\ UNCHANGED <<tables, file, jobs>>
          BY <2>2, <2>7, <4>1 DEF Becomes, Fields, Same, Continue
        <4>3. FromTable(all, tables[t])
          <5> SUFFICES ASSUME NEW j \in 1..(serve[h].offset + n)
                       PROVE  \E i \in 1..Len(rows) : all[j] = JsonRow(rows[i])
            BY <2>5, <4>1 DEF FromTable
          <5>1. CASE j <= serve[h].offset
            <6>1. j \in 1..Len(serve[h].read) /\ all[j] = serve[h].read[j]
              BY <1>2, <2>1, <2>5, <4>1, <5>1
            <6> QED BY <4>1, <6>1 DEF FromTable
          <5>2. CASE ~(j <= serve[h].offset)
            <6>1. j - serve[h].offset \in 1..n
              BY <1>2, <2>1, <5>2
            <6>2. all[j] = page[j - serve[h].offset]
              BY <2>5, <4>1, <5>2
            <6> QED BY <2>4, <6>1, <6>2 DEF FromTable
          <5> QED BY <5>1, <5>2
        <4>4. /\ serve[h].offset + n <= Len(rows)
              /\ done <=> serve[h].offset + n = Len(rows)
              /\ small => n = Len(rows)
          <5>1. CASE Home[t] \in Sqlite
            BY <2>1, <2>3, <4>1, <5>1
          <5>2. CASE Home[t] \notin Sqlite
            <6>1. /\ n = PageSize(t, serve[h].offset)
                  /\ done <=> ~HasMore(t, serve[h].offset)
              BY <2>3, <4>1, <5>2
            <6>2. /\ serve[h].offset + n <= Len(rows)
                  /\ HasMore(t, serve[h].offset) <=> serve[h].offset + n < Len(rows)
                  /\ serve[h].offset = 0 /\ Len(rows) <= Batch => n = Len(rows)
              BY <1>2, <4>1, <6>1, PageFits
            <6> HIDE DEF rows
            <6> QED BY <1>2, <2>1, <4>1, <5>2, <6>1, <6>2
          <5> QED BY <5>1, <5>2
        <4>5. small => done /\ Covers(all, tables[t])
          <5> SUFFICES ASSUME small PROVE done /\ Covers(all, tables[t])
            OBVIOUS
          <5>1. serve[h].offset = 0 /\ n = Len(rows) /\ Covers(page, tables[t])
            BY <2>4, <4>1, <4>4
          <5>2. Len(all) = n /\ \A i \in 1..n : all[i] = page[i]
            <6>1. \A i \in 1..n : ~(i <= 0) /\ i - 0 = i
              BY <2>1
            <6> QED BY <2>1, <2>5, <4>1, <5>1, <6>1
          <5>3. Covers(all, tables[t])
            BY <2>4, <5>1, <5>2 DEF Covers
          <5>4. done
            BY <2>1, <4>4, <5>1
          <5> QED BY <5>3, <5>4
        <4>6. Len(all) = serve[h].offset + n
          BY <2>5, <4>1
        <4> HIDE DEF all
        <4>7. CASE done
          <5>1. serve'[h].at = "write" /\ Exported(serve'[h], tables[t], all)
            BY <4>2, <4>3, <4>4, <4>5, <4>6, <4>7 DEF Exported
          <5> QED BY <4>2, <5>1 DEF ExportSound
        <4>8. CASE ~done
          BY <4>2, <4>3, <4>4, <4>5, <4>6, <4>8 DEF ExportSound
        <4> QED BY <4>7, <4>8
      <3> QED BY <3>1, <3>2 DEF ExportHolds, Alone
    <2> QED BY <1>2, <2>2, <2>6, <2>7, JobContinues
  <1> QED BY <1>1, <1>3, <1>4

\* The file is emptied.
LEMMA OpenExportKeeps ==
    ASSUME IInv, NEW h \in Handlers, OpenExport(h)
    PROVE  IInv'
  <1> DEFINE change == [at |-> "writing"]
  <1>1. /\ At(h, {"export"}, "write") /\ Go(h, change) /\ UNCHANGED <<tables, clip, jobs>>
        /\ file' = [by |-> h, whole |-> FALSE, cols |-> {}, rows |-> <<>>]
    BY DEF OpenExport, NoRows
  <1>2. /\ serve[h].op = "export" /\ serve[h].at = "write" /\ ExportHolds(h)
        /\ "status" \in DOMAIN jobs[h] /\ jobs[h].status \notin {"done", "failed"}
    BY <1>1, AtPoint DEF HasJob
  <1>3. DOMAIN change = {"at"} /\ change.at = "writing"
    OBVIOUS
  <1>4. DOMAIN change \subseteq Fields /\ Work(change) /\ Typed
    BY <1>3 DEF Fields, Work, Working, IInv
  <1> HIDE DEF change
  <1>5. Becomes(h, change)
    BY <1>1, <1>4, GoMoves
  <1>6. /\ RequestTyped(h)' /\ PoolsHold(h)'
        /\ \A f \in Fields \ Working : serve'[h][f] = serve[h][f]
    BY <1>1, <1>2, <1>4, <1>5, WorkIsTyped
  <1>7. Same(h) /\ serve'[h].read = serve[h].read /\ serve'[h].at = "writing"
    BY <1>3, <1>5, <1>6 DEF Same, Fields, Working, Becomes
  <1>8. TransferHolds(h)' /\ ImportHolds(h)'
    BY <1>2, <1>7 DEF Same, TransferHolds, ImportHolds, Alone
  <1>9. ExportHolds(h)'
    BY <1>1, <1>2, <1>7 DEF Same, ExportHolds, ExportSound, Exported, Alone
  <1>10. Holds(h)'
    BY <1>6, <1>8, <1>9 DEF Holds
  <1>11. TablesTyped'
    BY <1>1, <1>4, NothingIsSeq DEF Typed, TablesTyped, HaveNames
  <1>12. file'.by = h
    BY <1>1
  <1> QED BY <1>1, <1>4, <1>10, <1>11, <1>12, GoKeeps

\* It is written: the export is done.
LEMMA WriteExportKeeps ==
    ASSUME IInv, NEW h \in Handlers, WriteExport(h)
    PROVE  IInv'
  <1> DEFINE change == [at |-> "over", copied |-> Len(serve[h].read)]
             job == [NoJob EXCEPT !.status = "done", !.copied = Len(serve[h].read)]
  <1>1. /\ At(h, {"export"}, "writing") /\ Go(h, change) /\ UNCHANGED <<tables, clip>>
        /\ file' = [by |-> h, whole |-> TRUE, cols |-> serve[h].cols, rows |-> serve[h].read]
        /\ jobs' = [jobs EXCEPT ![h] = job]
    BY DEF WriteExport
  <1>2. /\ serve[h].op = "export" /\ serve[h].at = "writing" /\ ExportHolds(h)
        /\ IsSeq(serve[h].read) /\ HaveNames(serve[h].cols) /\ Len(serve[h].read) \in Nat
    BY <1>1, AtPoint, SeqHasLen DEF HasJob
  <1>3. /\ DOMAIN change = {"at", "copied"} /\ change.at = "over"
        /\ change.copied = Len(serve[h].read) /\ "status" \in DOMAIN job
    BY DEF NoJob
  <1>4. DOMAIN change \subseteq Fields /\ Work(change) /\ Typed
    BY <1>2, <1>3 DEF Fields, Work, Working, IInv
  <1> HIDE DEF change, job
  <1>5. Becomes(h, change)
    BY <1>1, <1>4, GoMoves
  <1>6. /\ jobs' = [g \in Handlers |-> jobs'[g]] /\ jobs'[h] = job
        /\ \A g \in Handlers : g # h => jobs'[g] = jobs[g]
    BY <1>1, <1>4 DEF Typed
  <1>7. serve'[h].at = "over"
    BY <1>3, <1>5 DEF Becomes, Fields
  <1>8. /\ RequestTyped(h)' /\ PoolsHold(h)'
        /\ \A f \in Fields \ Working : serve'[h][f] = serve[h][f]
    BY <1>2, <1>3, <1>4, <1>5, <1>6, <1>7, WorkIsTyped
  <1>9. Same(h)
    BY <1>8 DEF Same, Fields, Working
  <1>10. TransferHolds(h)' /\ ImportHolds(h)'
    BY <1>2, <1>9 DEF Same, TransferHolds, ImportHolds, Alone
  <1>11. file'.whole = TRUE /\ file'.rows = serve[h].read /\ file'.by = h
         /\ file'.cols = serve[h].cols
    BY <1>1
  <1>12. file'.whole
    BY <1>11, Zenon
  <1>13. ExportHolds(h)'
    BY <1>1, <1>2, <1>7, <1>9, <1>11, <1>12 DEF Same, ExportHolds, ExportSound, Exported, Alone
  <1>14. Holds(h)'
    BY <1>8, <1>10, <1>13 DEF Holds
  <1>15. TablesTyped'
    BY <1>1, <1>2, <1>4, <1>6, <1>11 DEF Typed, TablesTyped
  <1> QED BY <1>1, <1>4, <1>6, <1>11, <1>14, <1>15, GoKeeps

\* An import that moves on to another point.
LEMMA ImportContinues ==
    ASSUME IInv, NEW h \in Handlers, serve[h].op = "import",
           serve[h].at \notin {"none", "shown", "over"}, NEW change, Work(change),
           Continue(h, change),
           (/\ ImportSound(serve[h], tables[serve[h].to], jobs[h])
            /\ Becomes(h, change) /\ Same(h))
             => ImportSound(serve'[h], tables[serve[h].to], jobs[h])
    PROVE  IInv'
  <1>1. ImportHolds(h) /\ UNCHANGED <<tables, jobs>>
    BY DEF IInv, Continue
  <1>2. ASSUME Becomes(h, change), Same(h)
        PROVE  TransferHolds(h)' /\ ImportHolds(h)' /\ ExportHolds(h)'
    <2>1. TransferHolds(h)' /\ ExportHolds(h)'
      BY <1>2 DEF Same, TransferHolds, ExportHolds, Alone
    <2>2. ImportHolds(h)'
      BY <1>1, <1>2 DEF Same, ImportHolds, Alone
    <2> QED BY <2>1, <2>2
  <1> QED BY <1>2, JobContinues

\* The file is read, as text.
LEMMA ReadImportKeeps ==
    ASSUME IInv, NEW h \in Handlers, ReadImport(h)
    PROVE  IInv'
  <1> DEFINE change == [at |-> "inspected", todo |-> file.rows, cols |-> Inferred(file.cols)]
  <1>1. At(h, {"import"}, "asked") /\ (Fail(h) \/ Continue(h, change))
    BY DEF ReadImport
  <1>2. serve[h].op = "import" /\ serve[h].at = "asked" /\ ImportHolds(h)
    BY <1>1, AtPoint
  <1>3. CASE Fail(h)
    BY <1>2, <1>3, FailKeeps DEF ImportHolds, ImportSound, Alone
  <1>4. CASE Continue(h, change)
    <2>1. IsSeq(file.rows) /\ HaveNames(file.cols)
      BY DEF IInv, Typed
    <2>2. HaveNames(Inferred(file.cols))
      BY <2>1 DEF HaveNames, Inferred
    <2>3. /\ DOMAIN change = {"at", "todo", "cols"} /\ change.at = "inspected"
          /\ change.todo = file.rows /\ change.cols = Inferred(file.cols)
          /\ Continue(h, change)
      BY <1>4
    <2> HIDE DEF change
    <2>4. Work(change)
      BY <2>1, <2>2, <2>3 DEF Work, Working
    <2>5. ASSUME ImportSound(serve[h], tables[serve[h].to], jobs[h]), Becomes(h, change), Same(h)
          PROVE  ImportSound(serve'[h], tables[serve[h].to], jobs[h])
      <3>1. serve'[h].at = "inspected" /\ serve'[h].copied = serve[h].copied
        BY <2>3, <2>5 DEF Becomes, Fields
      <3> QED BY <1>2, <2>5, <3>1 DEF ImportSound, Same
    <2> QED BY <1>2, <2>3, <2>4, <2>5, ImportContinues
  <1> QED BY <1>1, <1>3, <1>4

\* An import finds its target, or that it must create it.
LEMMA FindImportTargetKeeps ==
    ASSUME IInv, NEW h \in Handlers, FindImportTarget(h)
    PROVE  IInv'
  <1> DEFINE there == tables[serve[h].to].there
             change == [at |-> IF there THEN "insert" ELSE "creating"]
  <1>1. At(h, {"import"}, "inspected") /\ Continue(h, change)
    BY DEF FindImportTarget
  <1>2. serve[h].op = "import" /\ serve[h].at = "inspected" /\ serve[h].to \in Tables
    BY <1>1, AtPoint DEF OnOneTable, Ops
  <1>3. DOMAIN change = {"at"} /\ change.at = IF there THEN "insert" ELSE "creating"
    OBVIOUS
  <1>4. Work(change)
    BY <1>3 DEF Work, Working
  <1> HIDE DEF change
  <1>5. ASSUME ImportSound(serve[h], tables[serve[h].to], jobs[h]), Becomes(h, change), Same(h)
        PROVE  ImportSound(serve'[h], tables[serve[h].to], jobs[h])
    <2>1. /\ serve'[h].at = IF there THEN "insert" ELSE "creating"
          /\ serve'[h].copied = serve[h].copied
      BY <1>3, <1>5 DEF Becomes, Fields
    <2>2. Len(tables[serve[h].to].rows) \in Nat
      BY <1>2, SeqHasLen DEF IInv, Typed, WellFormed
    <2>3. tables[serve[h].to] = serve[h].before /\ serve[h].copied = 0
      BY <1>2, <1>5 DEF ImportSound
    <2> QED BY <1>5, <2>1, <2>2, <2>3 DEF ImportSound, Same
  <1> QED BY <1>1, <1>2, <1>4, <1>5, ImportContinues

\* An import that writes its table.
LEMMA ImportStores ==
    ASSUME IInv, NEW h \in Handlers, serve[h].op = "import",
           serve[h].at \notin {"none", "shown", "over"}, NEW change, Work(change),
           NEW table, WellFormed(table), Store(h, serve[h].to, table, change),
           (/\ ImportSound(serve[h], tables[serve[h].to], jobs[h])
            /\ Becomes(h, change) /\ Same(h))
             => ImportSound(serve'[h], table, jobs[h])
    PROVE  IInv'
  <1>1. ImportHolds(h) /\ UNCHANGED jobs /\ serve[h].to \in Tables
    BY DEF IInv, Store, Typed, RequestTyped, OnOneTable, Ops
  <1>2. ASSUME Becomes(h, change), Same(h), tables'[serve[h].to] = table
        PROVE  TransferHolds(h)' /\ ImportHolds(h)' /\ ExportHolds(h)'
    <2>1. TransferHolds(h)' /\ ExportHolds(h)'
      BY <1>2 DEF Same, TransferHolds, ExportHolds, Alone
    <2>2. ImportHolds(h)'
      BY <1>1, <1>2 DEF Same, ImportHolds, Alone
    <2> QED BY <2>1, <2>2
  <1> QED BY <1>1, <1>2, JobStores

\* A live table takes the next row, or the import ends there.
LEMMA ImportByRowKeeps ==
    ASSUME IInv, NEW h \in Handlers, ImportByRow(h), Home[serve[h].to] \notin Sqlite
    PROVE  IInv'
  <1> DEFINE t == serve[h].to
             change == [todo |-> Tail(serve[h].todo), copied |-> serve[h].copied + 1]
             row == Head(serve[h].todo)
  <1>1. /\ At(h, {"import"}, "insert") /\ serve[h].todo # <<>>
        /\ \/ /\ Accepts(t, row)
              /\ Store(h, t, Inserted(t, row), change) \/ StoreUnheard(h, t, Inserted(t, row))
           \/ Fail(h)
    BY DEF ImportByRow, NoRows
  <1>2. /\ serve[h].op = "import" /\ serve[h].at = "insert" /\ t \in Tables
        /\ serve[h].copied \in Nat /\ IsSeq(serve[h].todo)
    BY <1>1, AtPoint DEF OnOneTable, Ops
  <1>3. CASE Fail(h)
    BY <1>2, <1>3, FailKeeps
  <1>4. CASE Accepts(t, row) /\ Store(h, t, Inserted(t, row), change)
    <2>1. IsSeq(Tail(serve[h].todo))
      BY <1>1, <1>2, TailIsSeq
    <2>2. /\ DOMAIN change = {"todo", "copied"} /\ change.todo = Tail(serve[h].todo)
          /\ change.copied = serve[h].copied + 1 /\ Store(h, t, Inserted(t, row), change)
      BY <1>4
    <2> HIDE DEF change
    <2>3. Work(change)
      BY <1>2, <2>1, <2>2 DEF Work, Working
    <2>4. /\ WellFormed(Inserted(t, row)) /\ Len(Inserted(t, row).rows) = Len(tables[t].rows) + 1
      BY <1>2, <1>4, InsertedIsWell
    <2>5. Len(tables[t].rows) \in Nat /\ Len(serve[h].before.rows) \in Nat
      BY <1>2, SeqHasLen DEF IInv, Typed, RequestTyped, WellFormed
    <2>6. ASSUME ImportSound(serve[h], tables[t], jobs[h]), Becomes(h, change), Same(h)
          PROVE  ImportSound(serve'[h], Inserted(t, row), jobs[h])
      <3>1. serve'[h].at = "insert" /\ serve'[h].copied = serve[h].copied + 1
        BY <1>2, <2>2, <2>6 DEF Becomes, Fields
      <3>2. Len(tables[t].rows) = Len(serve[h].before.rows) + serve[h].copied
        BY <1>2, <2>6 DEF ImportSound
      <3>3. Len(Inserted(t, row).rows) = Len(serve'[h].before.rows) + serve'[h].copied
        <4>1. serve'[h].before = serve[h].before
          BY <2>6 DEF Same
        <4> DEFINE all == Len(Inserted(t, row).rows)
                   had == Len(tables[t].rows)
                   first == Len(serve[h].before.rows)
                   n == serve[h].copied
        <4>2. /\ all = had + 1 /\ had = first + n /\ had \in Nat /\ first \in Nat /\ n \in Nat
              /\ serve'[h].copied = n + 1 /\ Len(serve'[h].before.rows) = first
          BY <1>2, <2>4, <2>5, <3>1, <3>2, <4>1
        <4> HIDE DEF all, had, first, n
        <4>3. all = first + (n + 1)
          BY <4>2
        <4> QED BY <4>2, <4>3 DEF all
      <3> QED BY <2>6, <3>1, <3>3 DEF ImportSound, Same
    <2> QED BY <1>2, <2>2, <2>3, <2>4, <2>6, ImportStores
  <1>5. CASE Accepts(t, row) /\ StoreUnheard(h, t, Inserted(t, row))
    BY <1>2, <1>5, InsertedIsWell, UnheardKeeps
  <1> QED BY <1>1, <1>3, <1>4, <1>5

\* A SQLite table takes all rows or none.
LEMMA ImportRowsKeeps ==
    ASSUME IInv, NEW h \in Handlers, ImportRows(h)
    PROVE  IInv'
  <1> DEFINE t == serve[h].to
             todo == serve[h].todo
             new == [i \in 1..Len(todo) |-> Stored(t, tables[t].cols, todo[i])]
             rows == tables[t].rows \o new
             table == [tables[t] EXCEPT !.rows = rows]
             change == [todo |-> <<>>, copied |-> Len(todo)]
  <1>1. /\ At(h, {"import"}, "insert") /\ todo # <<>>
        /\ Home[t] \notin Sqlite => ImportByRow(h)
        /\ Home[t] \in Sqlite =>
              (AllAccepted(t, todo) /\ Store(h, t, table, change)) \/ Fail(h)
    BY DEF ImportRows, NoRows
  <1>2. /\ serve[h].op = "import" /\ serve[h].at = "insert" /\ t \in Tables
        /\ IsSeq(todo) /\ ImportHolds(h)
    BY <1>1, AtPoint DEF OnOneTable, Ops
  <1>3. /\ WellFormed(tables[t]) /\ Len(tables[t].rows) \in Nat /\ IsSeq(tables[t].rows)
        /\ Len(serve[h].before.rows) \in Nat /\ Len(todo) \in Nat \ {0}
    BY <1>1, <1>2, SeqHasLen DEF IInv, Typed, RequestTyped, WellFormed
  <1>4. CASE Home[t] \notin Sqlite
    BY <1>1, <1>4, ImportByRowKeeps
  <1>5. CASE Home[t] \in Sqlite /\ Fail(h)
    <2>1. Alone(h, "import") => Len(tables[t].rows) = Len(serve[h].before.rows)
      BY <1>1, <1>2, <1>3, <1>5 DEF ImportHolds, ImportSound
    <2> QED BY <1>2, <1>5, <2>1, FailKeeps
  <1>6. CASE Home[t] \in Sqlite /\ AllAccepted(t, todo) /\ Store(h, t, table, change)
    <2>1. IsSeq(new) /\ Len(new) = Len(todo)
      BY <1>3, ListIsSeq
    <2> HIDE DEF new
    <2>2. IsSeq(rows) /\ Len(rows) = Len(tables[t].rows) + Len(todo)
      <3>1. /\ IsSeq(tables[t].rows \o new)
            /\ Len(tables[t].rows \o new) = Len(tables[t].rows) + Len(new)
        BY <1>3, <2>1, ConcatIsSeq, Zenon
      <3> QED BY <2>1, <3>1
    <2> HIDE DEF rows
    <2>3. tables[t].there
      <3>1. 1 \in 1..Len(todo)
        BY <1>3
      <3>2. Accepts(t, todo[1])
        BY <1>6, <3>1 DEF AllAccepted
      <3> QED BY <3>2 DEF Accepts
    <2>4. WellFormed(table) /\ table.rows = rows
      BY <1>3, <2>2, <2>3, RowsAreWell
    <2>5. /\ DOMAIN change = {"todo", "copied"} /\ change.todo = <<>>
          /\ change.copied = Len(todo) /\ Store(h, t, table, change)
      BY <1>6
    <2> HIDE DEF change, table
    <2>6. Work(change)
      BY <1>3, <2>5, NothingIsSeq DEF Work, Working
    <2>7. ASSUME ImportSound(serve[h], tables[t], jobs[h]), Becomes(h, change), Same(h)
          PROVE  ImportSound(serve'[h], table, jobs[h])
      <3>1. serve'[h].at = "insert" /\ serve'[h].copied = Len(todo) /\ serve'[h].todo = <<>>
        BY <1>2, <2>5, <2>7 DEF Becomes, Fields
      <3>2. Len(tables[t].rows) = Len(serve[h].before.rows) + serve[h].copied /\ serve[h].copied = 0
        BY <1>1, <1>2, <1>6, <2>7 DEF ImportSound
      <3>3. Len(table.rows) = Len(serve'[h].before.rows) + serve'[h].copied
        <4>1. serve'[h].before = serve[h].before
          BY <2>7 DEF Same
        <4> DEFINE all == Len(table.rows)
                   had == Len(tables[t].rows)
                   first == Len(serve[h].before.rows)
                   n == Len(todo)
        <4>2. /\ all = had + n /\ had = first + serve[h].copied /\ serve[h].copied = 0
              /\ had \in Nat /\ first \in Nat /\ n \in Nat /\ serve'[h].copied = n
              /\ Len(serve'[h].before.rows) = first
          BY <1>3, <2>2, <2>4, <3>1, <3>2, <4>1
        <4> HIDE DEF all, had, first, n
        <4>3. all = first + n
          BY <4>2
        <4> QED BY <4>2, <4>3 DEF all
      <3> QED BY <2>7, <3>1, <3>3 DEF ImportSound, Same
    <2> QED BY <1>2, <2>4, <2>5, <2>6, <2>7, ImportStores
  <1> QED BY <1>1, <1>4, <1>5, <1>6

\* An import ends when its rows are in the table.
LEMMA FinishImportKeeps ==
    ASSUME IInv, NEW h \in Handlers, FinishImport(h)
    PROVE  IInv'
  <1>1. At(h, {"import"}, "insert") /\ Succeed(h)
    BY DEF FinishImport
  <1>2. serve[h].op = "import" /\ serve[h].at = "insert" /\ ImportHolds(h)
    BY <1>1, AtPoint
  <1>3. Alone(h, "import") =>
            Len(tables[serve[h].to].rows) = Len(serve[h].before.rows) + serve[h].copied
    BY <1>2 DEF ImportHolds, ImportSound
  <1> QED BY <1>1, <1>2, <1>3, SucceedKeeps DEF Alone

-----------------------------------------------------------------------------
(* Transfers.                                                               *)

\* A transfer nobody disturbs: its record, its tables and its job.
Sound(h) == TransferSound(serve[h], tables[serve[h].from], tables[serve[h].to], jobs[h])

\* A transfer that moves on.
LEMMA TransferContinues ==
    ASSUME IInv, NEW h \in Handlers, serve[h].op = "transfer",
           serve[h].at \notin {"none", "shown", "over"}, NEW change, Work(change),
           Continue(h, change),
           (Sound(h) /\ Becomes(h, change) /\ Same(h))
             => TransferSound(serve'[h], tables[serve[h].from], tables[serve[h].to], jobs[h])
    PROVE  IInv'
  <1>1. TransferHolds(h) /\ UNCHANGED <<tables, jobs>>
    BY DEF IInv, Continue
  <1>2. ASSUME Becomes(h, change), Same(h)
        PROVE  TransferHolds(h)' /\ ImportHolds(h)' /\ ExportHolds(h)'
    <2>1. ImportHolds(h)' /\ ExportHolds(h)'
      BY <1>2 DEF Same, ImportHolds, ExportHolds, Alone
    <2>2. TransferHolds(h)'
      BY <1>1, <1>2 DEF Same, TransferHolds, Alone, Sound
    <2> QED BY <2>1, <2>2
  <1> QED BY <1>2, JobContinues

\* A transfer that writes its target.
LEMMA TransferStores ==
    ASSUME IInv, NEW h \in Handlers, serve[h].op = "transfer",
           serve[h].at \notin {"none", "shown", "over"}, NEW change, Work(change),
           NEW table, WellFormed(table), Store(h, serve[h].to, table, change),
           (Sound(h) /\ Becomes(h, change) /\ Same(h))
             => TransferSound(serve'[h], tables[serve[h].from], table, jobs[h])
    PROVE  IInv'
  <1>1. /\ TransferHolds(h) /\ UNCHANGED jobs /\ {serve[h].from, serve[h].to} \subseteq Tables
    BY DEF IInv, Store, Typed, RequestTyped
  <1>2. ASSUME Becomes(h, change), Same(h), tables'[serve[h].to] = table,
               \A u \in Tables \ {serve[h].to} : tables'[u] = tables[u]
        PROVE  TransferHolds(h)' /\ ImportHolds(h)' /\ ExportHolds(h)'
    <2>1. ImportHolds(h)' /\ ExportHolds(h)'
      BY <1>2 DEF Same, ImportHolds, ExportHolds, Alone
    <2>2. TransferHolds(h)'
      <3> SUFFICES ASSUME serve'[h].clean
                   PROVE  TransferSound(serve'[h], tables'[serve'[h].from],
                                        tables'[serve'[h].to], jobs'[h])
        BY DEF TransferHolds, Alone
      <3>1. Sound(h)
        BY <1>1, <1>2 DEF Same, TransferHolds, Alone, Sound
      <3>2. serve[h].from # serve[h].to
        BY <3>1 DEF Sound, TransferSound, BeforeCopying
      <3>3. tables'[serve[h].from] = tables[serve[h].from]
        BY <1>1, <1>2, <3>2
      <3>4. TransferSound(serve'[h], tables[serve[h].from], table, jobs[h])
        BY <1>2, <3>1
      <3>5. serve'[h].from = serve[h].from /\ serve'[h].to = serve[h].to /\ jobs' = jobs
        BY <1>1, <1>2 DEF Same
      <3> QED BY <1>2, <3>3, <3>4, <3>5
    <2> QED BY <2>1, <2>2
  <1> QED BY <1>1, <1>2, JobStores

\* What a transfer works with.
LEMMA TransferIs ==
    ASSUME IInv, NEW h \in Handlers, serve[h].op = "transfer"
    PROVE  /\ {serve[h].from, serve[h].to} \subseteq Tables
           /\ WellFormed(tables[serve[h].from]) /\ WellFormed(tables[serve[h].to])
           /\ WellFormed(serve[h].before)
           /\ IsSeq(tables[serve[h].from].rows) /\ IsSeq(tables[serve[h].to].rows)
           /\ IsSeq(serve[h].before.rows) /\ IsSeq(serve[h].todo)
           /\ Len(tables[serve[h].from].rows) \in Nat /\ Len(tables[serve[h].to].rows) \in Nat
           /\ Len(serve[h].before.rows) \in Nat /\ Len(serve[h].todo) \in Nat
           /\ serve[h].offset \in Nat /\ serve[h].copied \in Nat /\ serve[h].failed \in Nat
  <1>1. RequestTyped(h) /\ \A t \in Tables : WellFormed(tables[t])
    BY DEF IInv, Typed
  <1>2. {serve[h].from, serve[h].to} \subseteq Tables
    BY <1>1 DEF RequestTyped
  <1>3. /\ IsSeq(tables[serve[h].from].rows) /\ IsSeq(tables[serve[h].to].rows)
        /\ IsSeq(serve[h].before.rows) /\ IsSeq(serve[h].todo)
    BY <1>1, <1>2 DEF RequestTyped, WellFormed
  <1> QED BY <1>1, <1>2, <1>3, SeqHasLen DEF RequestTyped

\* The source is there, with its columns.
LEMMA InspectSourceKeeps ==
    ASSUME IInv, NEW h \in Handlers, InspectSource(h)
    PROVE  IInv'
  <1> DEFINE cols == tables[serve[h].from].cols
             change == [at |-> "inspected", cols |-> cols]
  <1>1. At(h, {"transfer"}, "asked") /\ (Fail(h) \/ Continue(h, change))
    BY DEF InspectSource
  <1>2. serve[h].op = "transfer" /\ serve[h].at = "asked"
    BY <1>1, AtPoint
  <1>3. CASE Fail(h)
    BY <1>2, <1>3, FailKeeps DEF Alone
  <1>4. CASE Continue(h, change)
    <2>1. HaveNames(cols)
      BY <1>2, TransferIs DEF WellFormed
    <2>2. /\ DOMAIN change = {"at", "cols"} /\ change.at = "inspected" /\ change.cols = cols
          /\ Continue(h, change)
      BY <1>4
    <2> HIDE DEF change
    <2>3. Work(change)
      BY <2>1, <2>2 DEF Work, Working
    <2>4. ASSUME Sound(h), Becomes(h, change), Same(h)
          PROVE  TransferSound(serve'[h], tables[serve[h].from], tables[serve[h].to], jobs[h])
      <3>1. /\ serve'[h].at = "inspected" /\ serve'[h].cols = cols
            /\ serve'[h].made = serve[h].made /\ serve'[h].offset = serve[h].offset
            /\ serve'[h].copied = serve[h].copied /\ serve'[h].failed = serve[h].failed
        BY <2>2, <2>4 DEF Becomes, Fields
      <3>2. BeforeCopying(serve'[h], tables[serve[h].from], tables[serve[h].to])
        BY <1>2, <2>4, <3>1 DEF Sound, TransferSound, BeforeCopying, Same
      <3>3. WhileCopying(serve'[h], tables[serve[h].from], tables[serve[h].to])
        BY <3>1 DEF WhileCopying
      <3> QED BY <3>1, <3>2, <3>3 DEF TransferSound
    <2> QED BY <1>2, <2>2, <2>3, <2>4, TransferContinues
  <1> QED BY <1>1, <1>3, <1>4

\* The target is there to be copied to, or not there to be made.
LEMMA PrepareTargetKeeps ==
    ASSUME IInv, NEW h \in Handlers, PrepareTarget(h)
    PROVE  IInv'
  <1> DEFINE next == IF serve[h].mode = "copy" THEN "mapping" ELSE "creating"
             change == [at |-> next]
  <1>1. /\ At(h, {"transfer"}, "inspected")
        /\ \/ Fail(h)
           \/ tables[serve[h].to].there = (serve[h].mode = "copy") /\ Continue(h, change)
    BY DEF PrepareTarget
  <1>2. serve[h].op = "transfer" /\ serve[h].at = "inspected"
    BY <1>1, AtPoint
  <1>3. CASE Fail(h)
    BY <1>2, <1>3, FailKeeps DEF Alone
  <1>4. CASE tables[serve[h].to].there = (serve[h].mode = "copy") /\ Continue(h, change)
    <2>1. DOMAIN change = {"at"} /\ change.at = next /\ Continue(h, change)
      BY <1>4
    <2> HIDE DEF change
    <2>2. Work(change)
      BY <2>1 DEF Work, Working
    <2>3. ASSUME Sound(h), Becomes(h, change), Same(h)
          PROVE  TransferSound(serve'[h], tables[serve[h].from], tables[serve[h].to], jobs[h])
      <3>1. /\ serve'[h].at = next /\ serve'[h].cols = serve[h].cols
            /\ serve'[h].made = serve[h].made /\ serve'[h].offset = serve[h].offset
            /\ serve'[h].copied = serve[h].copied /\ serve'[h].failed = serve[h].failed
        BY <2>1, <2>3 DEF Becomes, Fields
      <3>2. serve[h].mode # "copy" => ~tables[serve[h].to].there
        BY <1>4
      <3>3. BeforeCopying(serve[h], tables[serve[h].from], tables[serve[h].to])
        BY <2>3 DEF Sound, TransferSound
      <3>4. BeforeCopying(serve'[h], tables[serve[h].from], tables[serve[h].to])
        BY <1>2, <2>3, <3>1, <3>2, <3>3 DEF BeforeCopying, Same
      <3>5. WhileCopying(serve'[h], tables[serve[h].from], tables[serve[h].to])
        BY <3>1 DEF WhileCopying
      <3> QED BY <3>1, <3>4, <3>5 DEF TransferSound
    <2> QED BY <1>2, <2>1, <2>2, <2>3, TransferContinues
  <1> QED BY <1>1, <1>3, <1>4

\* A table is made: a transfer makes one that was not there, so it is empty.
LEMMA CreateTargetKeeps ==
    ASSUME IInv, NEW h \in Handlers, CreateTarget(h)
    PROVE  IInv'
  <1> DEFINE t == serve[h].to
             table == Created(t, serve[h].cols)
             next == IF serve[h].op # "transfer" THEN "insert"
                     ELSE IF serve[h].mode = "schema" THEN "finish" ELSE "mapping"
             change == [made |-> TRUE, at |-> next]
  <1>1. /\ At(h, {"transfer", "import", "new"}, "creating")
        /\ Store(h, t, table, change) \/ StoreUnheard(h, t, table)
    BY DEF CreateTarget
  <1>2. /\ serve[h].op \in {"transfer", "import", "new"} /\ serve[h].at = "creating"
        /\ t \in Tables /\ HaveNames(serve[h].cols)
    BY <1>1, AtPoint DEF OnOneTable, Ops
  <1>3. WellFormed(table) /\ table.rows = tables[t].rows
    BY <1>2, CreatedIsWell
  <1>4. DOMAIN change = {"made", "at"} /\ change.at = next /\ change.made = TRUE
    OBVIOUS
  <1> HIDE DEF change, table
  <1>5. Work(change)
    BY <1>4 DEF Work, Working
  <1>9. CASE StoreUnheard(h, t, table)
    BY <1>2, <1>3, <1>9, UnheardKeeps
  <1>6. CASE serve[h].op = "new" /\ Store(h, t, table, change)
    BY <1>2, <1>3, <1>4, <1>5, <1>6, OutsideStores DEF HasJob
  <1>7. CASE serve[h].op = "import" /\ Store(h, t, table, change)
    <2>1. Len(tables[t].rows) \in Nat
      BY <1>2, SeqHasLen DEF IInv, Typed, WellFormed
    <2>2. ASSUME ImportSound(serve[h], tables[t], jobs[h]), Becomes(h, change), Same(h)
          PROVE  ImportSound(serve'[h], table, jobs[h])
      <3>1. serve'[h].at = "insert" /\ serve'[h].copied = serve[h].copied
        BY <1>4, <1>7, <2>2 DEF Becomes, Fields
      <3>2. tables[t] = serve[h].before /\ serve[h].copied = 0
        BY <1>2, <2>2 DEF ImportSound
      <3>3. table.rows = serve'[h].before.rows /\ Len(table.rows) \in Nat
        BY <1>3, <2>1, <2>2, <3>2 DEF Same
      <3> QED BY <3>1, <3>2, <3>3 DEF ImportSound
    <2> QED BY <1>2, <1>3, <1>4, <1>5, <1>7, <2>2, ImportStores
  <1>8. CASE serve[h].op = "transfer" /\ Store(h, t, table, change)
    <2>1. ASSUME Sound(h), Becomes(h, change), Same(h)
          PROVE  TransferSound(serve'[h], tables[serve[h].from], table, jobs[h])
      <3>1. /\ serve'[h].at = next /\ serve'[h].cols = serve[h].cols
            /\ serve'[h].offset = serve[h].offset
            /\ serve'[h].copied = serve[h].copied /\ serve'[h].failed = serve[h].failed
        BY <1>4, <2>1 DEF Becomes, Fields
      <3>2. BeforeCopying(serve[h], tables[serve[h].from], tables[t])
        BY <2>1 DEF Sound, TransferSound
      <3>3. /\ tables[t] = serve[h].before /\ ~serve[h].before.there /\ serve[h].from # serve[h].to
            /\ serve[h].offset = 0 /\ serve[h].copied = 0 /\ serve[h].failed = 0
            /\ serve[h].cols = tables[serve[h].from].cols
        BY <1>2, <3>2 DEF BeforeCopying
      <3>4. serve[h].before.rows = <<>>
        BY <1>8, <3>3, TransferIs DEF WellFormed
      <3>5. table.rows = <<>>
        BY <1>3, <3>3, <3>4
      <3>6. next \in {"finish", "mapping"} /\ (next = "finish" <=> serve[h].mode = "schema")
        BY <1>8
      <3>7. BeforeCopying(serve'[h], tables[serve[h].from], table)
        BY <2>1, <3>1, <3>3, <3>4, <3>5, <3>6 DEF BeforeCopying, Same
      <3>8. WhileCopying(serve'[h], tables[serve[h].from], table)
        BY <3>1, <3>6 DEF WhileCopying
      <3>9. serve'[h].at = "finish" => AfterCopying(serve'[h], tables[serve[h].from], table,
                 serve'[h].copied, serve'[h].failed)
        BY <2>1, <3>1, <3>3, <3>5, <3>6 DEF AfterCopying, Same
      <3> QED BY <3>1, <3>6, <3>7, <3>8, <3>9 DEF TransferSound
    <2> QED BY <1>2, <1>3, <1>4, <1>5, <1>8, <2>1, TransferStores
  <1> QED BY <1>1, <1>2, <1>6, <1>7, <1>8, <1>9

\* The columns are matched before any row is read.
LEMMA MapColumnsKeeps ==
    ASSUME IInv, NEW h \in Handlers, MapColumns(h)
    PROVE  IInv'
  <1> DEFINE to == tables[serve[h].to].cols
             map == Mapping(serve[h].cols, to)
             change == [at |-> "read", map |-> map]
  <1>1. At(h, {"transfer"}, "mapping") /\ (Fail(h) \/ Continue(h, change))
    BY DEF MapColumns
  <1>2. serve[h].op = "transfer" /\ serve[h].at = "mapping"
    BY <1>1, AtPoint
  <1>3. CASE Fail(h)
    BY <1>2, <1>3, FailKeeps DEF Alone
  <1>4. CASE Continue(h, change)
    <2>1. /\ DOMAIN change = {"at", "map"} /\ change.at = "read" /\ change.map = map
          /\ Continue(h, change)
      BY <1>4
    <2> HIDE DEF change, map
    <2>2. Work(change)
      BY <2>1 DEF Work, Working
    <2>3. ASSUME Sound(h), Becomes(h, change), Same(h)
          PROVE  TransferSound(serve'[h], tables[serve[h].from], tables[serve[h].to], jobs[h])
      <3> DEFINE source == tables[serve[h].from]
                 target == tables[serve[h].to]
      <3>1. /\ serve'[h].at = "read" /\ serve'[h].map = map
            /\ serve'[h].made = serve[h].made /\ serve'[h].offset = serve[h].offset
            /\ serve'[h].copied = serve[h].copied /\ serve'[h].failed = serve[h].failed
        BY <2>1, <2>3 DEF Becomes, Fields
      <3>2. BeforeCopying(serve[h], source, target)
        BY <2>3 DEF Sound, TransferSound
      <3>3. /\ serve[h].from # serve[h].to /\ serve[h].mode # "schema"
            /\ serve[h].offset = 0 /\ serve[h].copied = 0 /\ serve[h].failed = 0
            /\ target.rows = serve[h].before.rows
        BY <1>2, <3>2 DEF BeforeCopying
      <3>4. Len(source.rows) \in Nat /\ Len(target.rows) \in Nat
        BY <1>2, TransferIs
      <3> HIDE DEF source, target
      <3>7. Copied(serve'[h], source, target, 0, 0)
        <4>1. serve'[h].before = serve[h].before
          BY <2>3 DEF Same
        <4>2. Len(target.rows) = Len(serve'[h].before.rows) /\ Len(target.rows) \in Nat
          BY <3>3, <3>4, <4>1
        <4>3. CameFrom(serve'[h], source, target) /\ Differ(serve'[h], target)
          BY <4>2 DEF CameFrom, Differ
        <4> QED BY <3>4, <4>2, <4>3 DEF Copied
      <3>8. BeforeCopying(serve'[h], source, target)
        BY <2>3, <3>1, <3>3 DEF BeforeCopying, Same
      <3>9. WhileCopying(serve'[h], source, target)
        BY <2>3, <3>1, <3>3, <3>7 DEF WhileCopying, Same
      <3> QED BY <3>1, <3>8, <3>9 DEF TransferSound, source, target
    <2> QED BY <1>2, <2>1, <2>2, <2>3, TransferContinues
  <1> QED BY <1>1, <1>3, <1>4

\* The next page, or the end of the source.
LEMMA ReadPageKeeps ==
    ASSUME IInv, NEW h \in Handlers, ReadPage(h)
    PROVE  IInv'
  <1> DEFINE n == PageSize(serve[h].from, serve[h].offset)
             more == HasMore(serve[h].from, serve[h].offset)
             some(page) == [at |-> "insert", todo |-> page, more |-> more]
             none == [at |-> "finish"]
             source == tables[serve[h].from]
             target == tables[serve[h].to]
  <1>1. /\ At(h, {"transfer"}, "read")
        /\ \/ n = 0 /\ Continue(h, none)
           \/ n # 0 /\ \E page \in Pages(serve[h].from, n) : Continue(h, some(page))
    BY DEF ReadPage
  <1>2. serve[h].op = "transfer" /\ serve[h].at = "read"
    BY <1>1, AtPoint
  <1>3. /\ n \in Nat /\ serve[h].offset \in Nat /\ Len(source.rows) \in Nat
        /\ serve[h].offset <= Len(source.rows) =>
              /\ serve[h].offset + n <= Len(source.rows)
              /\ more <=> serve[h].offset + n < Len(source.rows)
        /\ n = 0 => Len(source.rows) <= serve[h].offset
    <2>1. serve[h].offset \in Nat /\ serve[h].from \in Tables
      BY <1>2, TransferIs
    <2> QED BY <2>1, PageFits
  <1>4. ASSUME Sound(h)
        PROVE  /\ serve[h].from # serve[h].to /\ serve[h].mode # "schema"
               /\ serve[h].offset = serve[h].copied + serve[h].failed
               /\ Copied(serve[h], source, target, serve[h].copied, serve[h].failed)
               /\ serve[h].offset <= Len(source.rows)
    <2>1. BeforeCopying(serve[h], source, target) /\ WhileCopying(serve[h], source, target)
      BY <1>4 DEF Sound, TransferSound
    <2> HIDE DEF source, target
    <2>2. /\ serve[h].offset = serve[h].copied + serve[h].failed
          /\ Copied(serve[h], source, target, serve[h].copied, serve[h].failed)
          /\ serve[h].mode # "schema"
      BY <1>2, <2>1 DEF WhileCopying
    <2>3. serve[h].copied + serve[h].failed <= Len(source.rows)
      BY <2>2 DEF Copied
    <2> QED BY <2>1, <2>2, <2>3 DEF BeforeCopying
  <1>5. CASE n = 0 /\ Continue(h, none)
    <2>1. DOMAIN none = {"at"} /\ none.at = "finish" /\ Continue(h, none)
      BY <1>5
    <2> HIDE DEF none
    <2>2. Work(none)
      BY <2>1 DEF Work, Working
    <2>3. ASSUME Sound(h), Becomes(h, none), Same(h)
          PROVE  TransferSound(serve'[h], source, target, jobs[h])
      <3>1. /\ serve'[h].at = "finish" /\ serve'[h].map = serve[h].map
            /\ serve'[h].copied = serve[h].copied /\ serve'[h].failed = serve[h].failed
        BY <2>1, <2>3 DEF Becomes, Fields
      <3> DEFINE met == serve[h].offset
                 all == Len(source.rows)
      <3>2. met <= all /\ all <= met /\ met \in Nat /\ all \in Nat
        BY <1>3, <1>4, <1>5, <2>3
      <3>3. met = all
        <4> HIDE DEF met, all
        <4> QED BY <3>2
      <3> HIDE DEF source, target
      <3>4. Copied(serve'[h], source, target, serve'[h].copied, serve'[h].failed)
        BY <1>4, <2>3, <3>1 DEF Copied, CameFrom, Differ, Same
      <3>5. AfterCopying(serve'[h], source, target, serve'[h].copied, serve'[h].failed)
        BY <1>4, <2>3, <3>1, <3>3, <3>4 DEF AfterCopying, Same
      <3>6. BeforeCopying(serve'[h], source, target) /\ WhileCopying(serve'[h], source, target)
        BY <1>4, <2>3, <3>1 DEF BeforeCopying, WhileCopying, Same
      <3> QED BY <3>1, <3>5, <3>6 DEF TransferSound
    <2> QED BY <1>2, <2>1, <2>2, <2>3, TransferContinues
  <1>6. ASSUME NEW page \in Pages(serve[h].from, n), Continue(h, some(page)) PROVE IInv'
    <2> DEFINE change == some(page)
    <2>1. /\ DOMAIN change = {"at", "todo", "more"} /\ change.at = "insert" /\ change.todo = page
          /\ change.more = more /\ Continue(h, change)
      BY <1>6
    <2> HIDE DEF change, more, n
    <2>2. IsSeq(page) /\ Len(page) = n /\ FromTable(page, source)
      BY <1>2, <1>3, PageIs, TransferIs
    <2>3. Work(change)
      BY <2>1, <2>2 DEF Work, Working
    <2>4. ASSUME Sound(h), Becomes(h, change), Same(h)
          PROVE  TransferSound(serve'[h], source, target, jobs[h])
      <3>1. /\ serve'[h].at = "insert" /\ serve'[h].todo = page /\ serve'[h].more = more
            /\ serve'[h].map = serve[h].map /\ serve'[h].offset = serve[h].offset
            /\ serve'[h].copied = serve[h].copied /\ serve'[h].failed = serve[h].failed
        BY <2>1, <2>4 DEF Becomes, Fields
      <3>2. /\ serve[h].offset + Len(page) <= Len(source.rows)
            /\ more <=> serve[h].offset + Len(page) < Len(source.rows)
        BY <1>3, <1>4, <2>2, <2>4
      <3> HIDE DEF source, target
      <3>3. Copied(serve'[h], source, target, serve'[h].copied, serve'[h].failed)
        BY <1>4, <2>4, <3>1 DEF Copied, CameFrom, Differ, Same
      <3>4. BeforeCopying(serve'[h], source, target)
        BY <1>4, <2>4, <3>1 DEF BeforeCopying, Same
      <3>5. /\ serve'[h].more <=> serve'[h].offset + Len(serve'[h].todo) < Len(source.rows)
            /\ serve'[h].offset + Len(serve'[h].todo) <= Len(source.rows)
            /\ \A i \in 1..Len(serve'[h].todo) :
                  \E k \in 1..Len(source.rows) : serve'[h].todo[i] = JsonRow(source.rows[k])
        BY <2>2, <3>1, <3>2 DEF FromTable
      <3>6. serve'[h].mode # "schema" /\ serve'[h].offset = serve'[h].copied + serve'[h].failed
        BY <1>4, <2>4, <3>1 DEF Same
      <3>7. WhileCopying(serve'[h], source, target)
        BY <3>1, <3>3, <3>5, <3>6 DEF WhileCopying
      <3> QED BY <3>1, <3>4, <3>7 DEF TransferSound
    <2> QED BY <1>2, <2>1, <2>3, <2>4, TransferContinues
  <1> QED BY <1>1, <1>5, <1>6

\* A row that a table accepts came from the source, and shares its key with none.
LEMMA AddedCameFrom ==
    ASSUME IInv, NEW h \in Handlers, serve[h].op = "transfer",
           NEW source, NEW k \in 1..Len(source.rows), NEW row,
           row = MappedRow(serve[h].map, JsonRow(source.rows[k])), Accepts(serve[h].to, row),
           CameFrom(serve[h], source, tables[serve[h].to]), Differ(serve[h], tables[serve[h].to])
    PROVE  /\ CameFrom(serve[h], source, Inserted(serve[h].to, row))
           /\ Differ(serve[h], Inserted(serve[h].to, row))
  <1> DEFINE t == serve[h].to
             cols == tables[t].cols
             rows == tables[t].rows
             new == Stored(t, cols, row)
             table == Inserted(t, row)
             had == Len(rows)
             first == Len(serve[h].before.rows)
  <1>1. t \in Tables /\ IsSeq(rows) /\ had \in Nat /\ first \in Nat
    BY TransferIs
  <1>2. table.cols = cols /\ table.rows = Append(rows, new)
    BY <1>1, InsertedIsWell
  <1>3. new = Carried(t, cols, serve[h].map, source.rows[k])
    BY DEF Carried
  <1>4. HasKey(cols) => \A j \in 1..had : ~SameKey(cols, rows[j], new)
    BY DEF Accepts
  <1>5. /\ \A j \in 1..had : first < j =>
              \E i \in 1..Len(source.rows) :
                 rows[j] = Carried(t, cols, serve[h].map, source.rows[i])
        /\ HasKey(cols) => \A i, j \in 1..had : first < i /\ i < j =>
                               ~SameKey(cols, rows[i], rows[j])
    BY DEF CameFrom, Differ
  <1> HIDE DEF rows, new, table, cols
  <1>6. /\ Len(table.rows) = had + 1 /\ \A j \in 1..had : table.rows[j] = rows[j]
        /\ table.rows[had + 1] = new
    BY <1>1, <1>2, AppendIsSeq
  <1>7. \A j \in 1..Len(table.rows) : j \in 1..had \/ j = had + 1
    BY <1>1, <1>6
  <1>8. CameFrom(serve[h], source, table)
    <2> SUFFICES ASSUME NEW j \in 1..Len(table.rows), first < j
                 PROVE  \E i \in 1..Len(source.rows) :
                           table.rows[j] = Carried(t, cols, serve[h].map, source.rows[i])
      BY <1>2 DEF CameFrom
    <2> QED BY <1>3, <1>5, <1>6, <1>7
  <1>9. Differ(serve[h], table)
    <2> SUFFICES ASSUME HasKey(cols), NEW i \in 1..Len(table.rows), NEW j \in 1..Len(table.rows),
                        first < i, i < j
                 PROVE  ~SameKey(cols, table.rows[i], table.rows[j])
      BY <1>2 DEF Differ
    <2>1. i \in 1..had
      BY <1>1, <1>6
    <2> QED BY <1>4, <1>5, <1>6, <1>7, <2>1
  <1> QED BY <1>8, <1>9 DEF table

\* One row is met: it is in the target, or it is counted as failed, or both.
LEMMA CopyRowKeeps ==
    ASSUME IInv, NEW h \in Handlers, CopyRow(h)
    PROVE  IInv'
  <1> DEFINE t == serve[h].to
             todo == serve[h].todo
             source == tables[serve[h].from]
             target == tables[t]
             row == MappedRow(serve[h].map, Head(todo))
             next == [todo |-> Tail(todo), offset |-> serve[h].offset + 1,
                      copied |-> serve[h].copied, failed |-> serve[h].failed]
             one == [next EXCEPT !.copied = @ + 1]
             none == [next EXCEPT !.failed = @ + 1]
             table == Inserted(t, row)
             all == Len(source.rows)
             had == Len(target.rows)
             first == Len(serve[h].before.rows)
             offset == serve[h].offset
             copied == serve[h].copied
             failed == serve[h].failed
             left == Len(todo)
             Lost(n) == IF Home[t] \in Sqlite THEN 0 ELSE n
  <1>1. /\ At(h, {"transfer"}, "insert") /\ todo # <<>>
        /\ \/ /\ Accepts(t, row)
              /\ \/ Store(h, t, table, one)
                 \/ Home[t] \notin Sqlite /\ Store(h, t, table, none)
           \/ Continue(h, none)
    BY DEF CopyRow, InsertMapped, NoRows
  <1>2. serve[h].op = "transfer" /\ serve[h].at = "insert"
    BY <1>1, AtPoint
  <1>3. /\ IsSeq(todo) /\ t \in Tables
        /\ all \in Nat /\ had \in Nat /\ first \in Nat /\ left \in Nat
        /\ offset \in Nat /\ copied \in Nat /\ failed \in Nat
    BY <1>2, TransferIs
  <1>4. /\ IsSeq(Tail(todo)) /\ Len(Tail(todo)) = left - 1 /\ left \in Nat \ {0}
        /\ \A i \in 1..Len(Tail(todo)) : Tail(todo)[i] = todo[i + 1]
        /\ Head(todo) = todo[1]
    BY <1>1, <1>3, TailIsSeq
  <1>5. ASSUME Sound(h)
        PROVE  /\ serve[h].from # serve[h].to /\ serve[h].mode # "schema"
               /\ offset = copied + failed /\ offset + left <= all
               /\ first + copied <= had /\ had <= first + copied + Lost(failed)
               /\ CameFrom(serve[h], source, target) /\ Differ(serve[h], target)
               /\ serve[h].more <=> offset + left < all
               /\ \A i \in 1..left : \E k \in 1..all : todo[i] = JsonRow(source.rows[k])
    <2>1. BeforeCopying(serve[h], source, target) /\ WhileCopying(serve[h], source, target)
      BY <1>5 DEF Sound, TransferSound
    <2> HIDE DEF source, target
    <2>2. /\ serve[h].offset = serve[h].copied + serve[h].failed
          /\ Copied(serve[h], source, target, serve[h].copied, serve[h].failed)
          /\ serve[h].mode # "schema"
          /\ serve[h].offset + Len(todo) <= Len(source.rows)
          /\ \A i \in 1..Len(todo) :
                \E k \in 1..Len(source.rows) : todo[i] = JsonRow(source.rows[k])
      BY <1>2, <2>1 DEF WhileCopying
    <2>3. serve[h].more <=> serve[h].offset + Len(todo) < Len(source.rows)
      BY <1>2, <2>1 DEF WhileCopying
    <2>4. serve[h].from # serve[h].to
      BY <2>1 DEF BeforeCopying
    <2> QED BY <2>2, <2>3, <2>4 DEF Copied
  <1>6. Sound(h) => \A i \in 1..Len(Tail(todo)) :
                       \E k \in 1..all : Tail(todo)[i] = JsonRow(source.rows[k])
    <2> SUFFICES ASSUME Sound(h), NEW i \in 1..Len(Tail(todo))
                 PROVE  \E k \in 1..all : Tail(todo)[i] = JsonRow(source.rows[k])
      OBVIOUS
    <2>1. \A j \in 1..left : \E k \in 1..all : todo[j] = JsonRow(source.rows[k])
      BY <1>5
    <2> HIDE DEF all, left, source, todo
    <2>2. i + 1 \in 1..left /\ Tail(todo)[i] = todo[i + 1]
      BY <1>3, <1>4
    <2> QED BY <2>1, <2>2
  <1>7. /\ DOMAIN one = {"todo", "offset", "copied", "failed"} /\ one.todo = Tail(todo)
        /\ one.offset = offset + 1 /\ one.copied = copied + 1 /\ one.failed = failed
        /\ DOMAIN none = {"todo", "offset", "copied", "failed"} /\ none.todo = Tail(todo)
        /\ none.offset = offset + 1 /\ none.copied = copied /\ none.failed = failed + 1
    OBVIOUS
  <1> HIDE DEF one, none, next
  <1>8. Work(one) /\ Work(none)
    <2>1. offset + 1 \in Nat /\ copied + 1 \in Nat /\ failed + 1 \in Nat
      <3> HIDE DEF offset, copied, failed
      <3> QED BY <1>3
    <2>2. IsSeq(one.todo) /\ IsSeq(none.todo)
      BY <1>4, <1>7
    <2>3. /\ one.offset \in Nat /\ one.copied \in Nat /\ one.failed \in Nat
          /\ none.offset \in Nat /\ none.copied \in Nat /\ none.failed \in Nat
      BY <1>3, <1>7, <2>1
    <2>4. /\ DOMAIN one = {"todo", "offset", "copied", "failed"}
          /\ DOMAIN none = {"todo", "offset", "copied", "failed"}
      BY <1>7
    <2> QED BY <2>2, <2>3, <2>4 DEF Work, Working
  <1>9. Sound(h) => /\ copied + 1 + failed <= all /\ copied + (failed + 1) <= all
                    /\ offset + 1 = copied + 1 + failed /\ offset + 1 = copied + (failed + 1)
                    /\ (offset + 1) + Len(Tail(todo)) = offset + left
    <2> DEFINE rest == Len(Tail(todo))
    <2> SUFFICES ASSUME Sound(h)
                 PROVE  /\ copied + 1 + failed <= all /\ copied + (failed + 1) <= all
                        /\ offset + 1 = copied + 1 + failed /\ offset + 1 = copied + (failed + 1)
                        /\ (offset + 1) + rest = offset + left
      OBVIOUS
    <2>1. /\ offset = copied + failed /\ offset + left <= all /\ rest = left - 1
          /\ left \in Nat \ {0}
      BY <1>4, <1>5
    <2> HIDE DEF offset, copied, failed, all, left, rest
    <2> QED BY <1>3, <2>1
  <1>10. ASSUME Sound(h), NEW change \in {one, none}, Becomes(h, change), Same(h), NEW new,
                Copied(serve[h], source, new, change.copied, change.failed)
         PROVE  TransferSound(serve'[h], source, new, jobs[h])
    <2>1. /\ serve'[h].at = "insert" /\ serve'[h].todo = Tail(todo)
          /\ serve'[h].more = serve[h].more /\ serve'[h].map = serve[h].map
          /\ serve'[h].offset = offset + 1
          /\ serve'[h].copied = change.copied /\ serve'[h].failed = change.failed
      <3>1. /\ DOMAIN change = {"todo", "offset", "copied", "failed"}
            /\ change.todo = Tail(todo) /\ change.offset = offset + 1
        BY <1>7
      <3>2. \A f \in Fields : serve'[h][f] = IF f \in DOMAIN change THEN change[f]
                                            ELSE serve[h][f]
        BY <1>10 DEF Becomes
      <3> QED BY <1>2, <3>1, <3>2 DEF Fields
    <2>2. /\ serve'[h].before = serve[h].before /\ serve'[h].mode = serve[h].mode
          /\ serve'[h].from = serve[h].from /\ serve'[h].to = serve[h].to
      BY <1>10 DEF Same
    <2>3. offset + 1 = change.copied + change.failed
      <3>1. change = one => change.copied = copied + 1 /\ change.failed = failed
        BY <1>7
      <3>2. change = none => change.copied = copied /\ change.failed = failed + 1
        BY <1>7
      <3> QED BY <1>9, <1>10, <3>1, <3>2
    <2>4. /\ serve[h].from # serve[h].to /\ serve[h].mode # "schema" /\ offset + left <= all
      BY <1>5, <1>10
    <2>5. serve[h].more <=> offset + left < all
      BY <1>5, <1>10
    <2>6. (offset + 1) + Len(Tail(todo)) = offset + left
      BY <1>9, <1>10
    <2>7. \A i \in 1..Len(Tail(todo)) :
             \E k \in 1..Len(source.rows) : Tail(todo)[i] = JsonRow(source.rows[k])
      BY <1>6, <1>10
    <2> HIDE DEF source
    <2>8. Copied(serve'[h], source, new, serve'[h].copied, serve'[h].failed)
      BY <1>10, <2>1, <2>2 DEF Copied, CameFrom, Differ
    <2>9. /\ serve'[h].offset + Len(serve'[h].todo) <= Len(source.rows)
          /\ serve'[h].more <=> serve'[h].offset + Len(serve'[h].todo) < Len(source.rows)
          /\ serve'[h].mode # "schema" /\ serve'[h].offset = serve'[h].copied + serve'[h].failed
      BY <2>1, <2>2, <2>3, <2>4, <2>5, <2>6
    <2>10. WhileCopying(serve'[h], source, new)
      BY <2>1, <2>7, <2>8, <2>9 DEF WhileCopying
    <2>11. BeforeCopying(serve'[h], source, new)
      BY <2>1, <2>2, <2>4 DEF BeforeCopying
    <2> QED BY <2>1, <2>10, <2>11 DEF TransferSound
  <1>11. Accepts(t, row) => WellFormed(table) /\ Len(table.rows) = had + 1
    BY <1>3, InsertedIsWell
  <1>12. ASSUME Sound(h), Accepts(t, row)
         PROVE  CameFrom(serve[h], source, table) /\ Differ(serve[h], table)
    <2>1. PICK k \in 1..all : todo[1] = JsonRow(source.rows[k])
      <3>1. 1 \in 1..left
        BY <1>3, <1>4
      <3> QED BY <1>5, <1>12, <3>1
    <2>2. row = MappedRow(serve[h].map, JsonRow(source.rows[k]))
      BY <1>4, <2>1
    <2>3. CameFrom(serve[h], source, target) /\ Differ(serve[h], target)
      BY <1>5, <1>12
    <2> HIDE DEF row, source
    <2> QED BY <1>2, <1>12, <2>2, <2>3, AddedCameFrom
  <1>13. CASE Accepts(t, row) /\ Store(h, t, table, one)
    <2>1. ASSUME Sound(h) PROVE Copied(serve[h], source, table, one.copied, one.failed)
      <3> DEFINE new == Len(table.rows)
                 lost == Lost(failed)
      <3>1. /\ first + copied <= had /\ had <= first + copied + lost /\ new = had + 1
            /\ copied + 1 + failed <= all
        BY <1>5, <1>9, <1>11, <1>13, <2>1
      <3>2. lost \in Nat
        BY <1>3
      <3> HIDE DEF new, had, first, copied, failed, lost, all
      <3>3. /\ (copied + 1) + failed <= all /\ first + (copied + 1) <= new
            /\ new <= first + (copied + 1) + lost
        BY <1>3, <3>1, <3>2
      <3>4. /\ one.copied = copied + 1 /\ one.failed = failed
            /\ CameFrom(serve[h], source, table) /\ Differ(serve[h], table)
        BY <1>7, <1>12, <1>13, <2>1
      <3> QED BY <3>3, <3>4 DEF Copied, new, lost, all, first, failed
    <2> HIDE DEF table, source
    <2> QED BY <1>2, <1>3, <1>8, <1>10, <1>11, <1>13, <2>1, TransferStores DEF source
  <1>14. CASE Accepts(t, row) /\ Home[t] \notin Sqlite /\ Store(h, t, table, none)
    <2>1. ASSUME Sound(h) PROVE Copied(serve[h], source, table, none.copied, none.failed)
      <3> DEFINE new == Len(table.rows)
      <3>1. /\ first + copied <= had /\ had <= first + copied + failed /\ new = had + 1
            /\ copied + (failed + 1) <= all
        BY <1>5, <1>9, <1>11, <1>14, <2>1
      <3> HIDE DEF new, had, first, copied, failed, all
      <3>2. first + copied <= new /\ new <= first + copied + (failed + 1)
        BY <1>3, <3>1
      <3>3. /\ none.copied = copied /\ none.failed = failed + 1
            /\ CameFrom(serve[h], source, table) /\ Differ(serve[h], table)
        BY <1>7, <1>12, <1>14, <2>1
      <3> QED BY <1>14, <3>1, <3>2, <3>3 DEF Copied, new, all, first
    <2> HIDE DEF table, source
    <2> QED BY <1>2, <1>3, <1>8, <1>10, <1>11, <1>14, <2>1, TransferStores DEF source
  <1>15. CASE Continue(h, none)
    <2>1. ASSUME Sound(h) PROVE Copied(serve[h], source, target, none.copied, none.failed)
      <3> DEFINE lost == Lost(failed)
                 more == Lost(failed + 1)
      <3>1. /\ first + copied <= had /\ had <= first + copied + lost
            /\ copied + (failed + 1) <= all
            /\ CameFrom(serve[h], source, target) /\ Differ(serve[h], target)
        BY <1>5, <1>9, <2>1
      <3>2. lost \in Nat /\ more \in Nat /\ lost <= more
        BY <1>3
      <3> HIDE DEF had, first, copied, failed, all, lost, more
      <3>3. had <= first + copied + more
        BY <1>3, <3>1, <3>2
      <3>4. none.copied = copied /\ none.failed = failed + 1
        BY <1>7
      <3> HIDE DEF source, target
      <3> QED BY <3>1, <3>3, <3>4 DEF Copied, had, all, first, more
    <2> HIDE DEF source, target
    <2> QED BY <1>2, <1>8, <1>10, <1>15, <2>1, TransferContinues DEF source, target
  <1> QED BY <1>1, <1>13, <1>14, <1>15

\* A page is copied: there is another, or the whole source was met.
LEMMA NextPageKeeps ==
    ASSUME IInv, NEW h \in Handlers, NextPage(h)
    PROVE  IInv'
  <1> DEFINE next == IF serve[h].more THEN "read" ELSE "finish"
             change == [at |-> next]
             source == tables[serve[h].from]
             target == tables[serve[h].to]
  <1>1. /\ At(h, {"transfer"}, "insert") /\ serve[h].todo = <<>> /\ Continue(h, change)
    BY DEF NextPage, NoRows
  <1>2. serve[h].op = "transfer" /\ serve[h].at = "insert"
    BY <1>1, AtPoint
  <1>3. DOMAIN change = {"at"} /\ change.at = next /\ Continue(h, change)
    BY <1>1
  <1> HIDE DEF change
  <1>4. Work(change)
    BY <1>3 DEF Work, Working
  <1>5. ASSUME Sound(h), Becomes(h, change), Same(h)
        PROVE  TransferSound(serve'[h], source, target, jobs[h])
    <2>1. /\ serve'[h].at = next /\ serve'[h].map = serve[h].map /\ serve'[h].offset = serve[h].offset
          /\ serve'[h].copied = serve[h].copied /\ serve'[h].failed = serve[h].failed
      BY <1>3, <1>5 DEF Becomes, Fields
    <2>2. BeforeCopying(serve[h], source, target) /\ WhileCopying(serve[h], source, target)
      BY <1>5 DEF Sound, TransferSound
    <2>3. Len(source.rows) \in Nat /\ serve[h].offset \in Nat
      BY <1>2, TransferIs
    <2>4. Len(serve[h].todo) = 0
      BY <1>1, NothingIsSeq
    <2> HIDE DEF source, target
    <2>5. /\ serve[h].offset = serve[h].copied + serve[h].failed
          /\ Copied(serve[h], source, target, serve[h].copied, serve[h].failed)
          /\ serve[h].mode # "schema"
          /\ serve[h].offset + Len(serve[h].todo) <= Len(source.rows)
      BY <1>2, <2>2 DEF WhileCopying
    <2>6. serve[h].more <=> serve[h].offset + Len(serve[h].todo) < Len(source.rows)
      BY <1>2, <2>2 DEF WhileCopying
    <2>7. ~serve[h].more => serve[h].offset = Len(source.rows)
      <3> DEFINE n == serve[h].offset
                 all == Len(source.rows)
      <3>1. n <= all /\ (serve[h].more <=> n < all) /\ n \in Nat /\ all \in Nat
        <4>1. serve[h].offset + Len(serve[h].todo) = n
          BY <2>3, <2>4
        <4> QED BY <2>3, <2>5, <2>6, <4>1
      <3> HIDE DEF n, all
      <3>2. ~(n < all) => n = all
        BY <3>1
      <3> QED BY <3>1, <3>2 DEF n, all
    <2>8. Copied(serve'[h], source, target, serve'[h].copied, serve'[h].failed)
      BY <1>5, <2>1, <2>5 DEF Copied, CameFrom, Differ, Same
    <2>9. serve'[h].mode # "schema" /\ serve'[h].offset = serve'[h].copied + serve'[h].failed
      BY <1>5, <2>1, <2>5 DEF Same
    <2>10. BeforeCopying(serve'[h], source, target)
      BY <1>5, <2>1, <2>2 DEF BeforeCopying, Same
    <2>11. WhileCopying(serve'[h], source, target)
      BY <2>1, <2>8, <2>9 DEF WhileCopying
    <2>12. serve'[h].at = "finish" =>
              AfterCopying(serve'[h], source, target, serve'[h].copied, serve'[h].failed)
      BY <2>1, <2>7, <2>8, <2>9 DEF AfterCopying
    <2> QED BY <2>1, <2>10, <2>11, <2>12 DEF TransferSound
  <1> QED BY <1>2, <1>3, <1>4, <1>5, TransferContinues

\* A transfer ends when it has met all rows, or wanted none.
LEMMA FinishTransferKeeps ==
    ASSUME IInv, NEW h \in Handlers, FinishTransfer(h)
    PROVE  IInv'
  <1>1. At(h, {"transfer"}, "finish") /\ Succeed(h)
    BY DEF FinishTransfer
  <1>2. serve[h].op = "transfer" /\ serve[h].at = "finish" /\ TransferHolds(h)
    BY <1>1, AtPoint
  <1>3. Alone(h, "transfer") =>
            /\ serve[h].from # serve[h].to
            /\ AfterCopying(serve[h], tables[serve[h].from], tables[serve[h].to],
                            serve[h].copied, serve[h].failed)
    BY <1>2 DEF TransferHolds, TransferSound, BeforeCopying
  <1> QED BY <1>1, <1>2, <1>3, SucceedKeeps DEF Alone

-----------------------------------------------------------------------------
(* The invariant.                                                           *)

\* The requests for tables begin with what they will read and write.
LEMMA RequestsKeep ==
    ASSUME IInv, NEW h \in Handlers, NEW t \in Tables,
           \/ ExportTable(h, t) \/ ImportTable(h, t)
           \/ \E mode \in {"schema", "data"} : ExportPortable(h, t, mode)
           \/ ImportPortable(h, t) \/ PasteRows(h, t) \/ AddRow(h, t)
           \/ ExecuteQuery(h, t) \/ TestConnection(h, t)
    PROVE  IInv'
  <1>1. PICK op, mode : /\ op \in OnOneTable /\ Request(h, op, t, t, mode, NoJob)
                        /\ op = "export" => mode = "copy"
    BY DEF ExportTable, ImportTable, ExportPortable, ImportPortable, PasteRows, AddRow,
           ExecuteQuery, TestConnection, OnOneTable, Ops
  <1>2. "status" \in DOMAIN NoJob /\ NoJob.status = "none"
    BY DEF NoJob
  <1>3. NoJob.status \notin {"done", "failed"} /\ op # "transfer"
    BY <1>1, <1>2 DEF OnOneTable
  <1> QED BY <1>1, <1>2, <1>3, RequestKeeps

\* A transfer begins with a job that runs.
LEMMA CreateTransferKeeps ==
    ASSUME IInv, NEW h \in Handlers, NEW from \in Tables, NEW to \in Tables, NEW mode,
           CreateTransfer(h, from, to, mode)
    PROVE  IInv'
  <1> DEFINE job == [NoJob EXCEPT !.status = "running"]
  <1>1. from # to /\ Request(h, "transfer", from, to, mode, job)
    BY DEF CreateTransfer
  <1>2. "status" \in DOMAIN job /\ job.status \notin {"done", "failed"}
    BY DEF NoJob
  <1> HIDE DEF job
  <1> QED BY <1>1, <1>2, RequestKeeps

\* The server restarts: a request that was under way is nothing any more.
LEMMA RestartKeeps ==
    ASSUME IInv, RestartWorkspace
    PROVE  IInv'
  <1>1. /\ serve' = [h \in Handlers |->
                        IF serve[h].at \in {"none", "over", "shown"} THEN serve[h]
                        ELSE [serve[h] EXCEPT !.at = "dead", !.dial = {}, !.opening = {}]]
        /\ UNCHANGED <<tables, file, clip, jobs>>
    BY DEF RestartWorkspace
  <1>2. ASSUME NEW h \in Handlers PROVE Holds(h)'
    <2>1. Holds(h)
      BY DEF IInv, Typed, Holds
    <2>2. CASE serve'[h] = serve[h]
      <3>1. RequestTyped(h)'
        BY <1>1, <2>1, <2>2 DEF Holds, RequestTyped
      <3>2. PoolsHold(h)'
        BY <1>1, <2>1, <2>2 DEF Holds, PoolsHold
      <3> QED BY <1>1, <2>1, <2>2, <3>1, <3>2
                 DEF Holds, TransferHolds, ImportHolds, ExportHolds, Alone
    <2>3. CASE /\ serve'[h] = [serve[h] EXCEPT !.at = "dead", !.dial = {}, !.opening = {}]
               /\ serve[h].at \notin {"none", "over", "shown"}
      <3>1. /\ serve'[h].at = "dead" /\ DOMAIN serve'[h] = Fields
            /\ \A f \in Fields \ {"at", "dial", "opening"} : serve'[h][f] = serve[h][f]
        BY <2>1, <2>3 DEF Holds, RequestTyped, Fields
      <3>2. /\ serve'[h].op = serve[h].op /\ serve'[h].url = serve[h].url
            /\ serve'[h].pool = serve[h].pool /\ serve'[h].offset = serve[h].offset
            /\ serve'[h].copied = serve[h].copied /\ serve'[h].failed = serve[h].failed
            /\ serve'[h].todo = serve[h].todo /\ serve'[h].read = serve[h].read
            /\ serve'[h].cols = serve[h].cols /\ serve'[h].before = serve[h].before
            /\ serve'[h].clean = serve[h].clean /\ serve'[h].from = serve[h].from
            /\ serve'[h].to = serve[h].to /\ serve'[h].mode = serve[h].mode
        BY <3>1 DEF Fields
      <3>3. RequestTyped(h)'
        <4>1. /\ RequestTyped(h) /\ jobs'[h] = jobs[h]
              /\ serve[h].at # "over"
          BY <1>1, <2>1, <2>3 DEF Holds
        <4>2. /\ serve'[h].url = [c \in Conns |-> serve'[h].url[c]]
              /\ serve'[h].pool = [c \in Conns |-> serve'[h].pool[c]]
              /\ DOMAIN serve'[h] = Fields /\ serve'[h].op \in Ops
          BY <3>1, <3>2, <4>1 DEF RequestTyped
        <4>3. /\ {serve'[h].offset, serve'[h].copied, serve'[h].failed} \subseteq Nat
              /\ IsSeq(serve'[h].todo) /\ IsSeq(serve'[h].read) /\ HaveNames(serve'[h].cols)
              /\ WellFormed(serve'[h].before) /\ serve'[h].clean \in BOOLEAN
          BY <3>2, <4>1 DEF RequestTyped
        <4>4. /\ serve'[h].op \in OnOneTable => serve'[h].from = serve'[h].to
              /\ serve'[h].op \in OnOneTable \cup {"transfer"} =>
                    {serve'[h].from, serve'[h].to} \subseteq Tables
          BY <3>2, <4>1 DEF RequestTyped
        <4>5. /\ "status" \in DOMAIN jobs'[h]
              /\ serve'[h].op \in HasJob => jobs'[h].status \notin {"done", "failed"}
          BY <3>2, <4>1 DEF RequestTyped
        <4> QED BY <4>2, <4>3, <4>4, <4>5 DEF RequestTyped
      <3>4. PoolsHold(h)'
        BY <2>1, <3>1, <3>2 DEF Holds, PoolsHold
      <3>5. TransferHolds(h)'
        BY <1>1, <2>1, <3>1, <3>2 DEF Holds, TransferHolds, Alone, TransferSound, BeforeCopying,
                                       WhileCopying
      <3>6. ImportHolds(h)'
        BY <3>1 DEF ImportHolds, ImportSound
      <3>7. ExportHolds(h)'
        BY <1>1, <2>1, <3>1, <3>2 DEF Holds, ExportHolds, Alone, ExportSound
      <3> QED BY <3>3, <3>4, <3>5, <3>6, <3>7 DEF Holds
    <2> QED BY <1>1, <2>2, <2>3
  <1>3. serve' = [h \in Handlers |-> serve'[h]]
    BY <1>1
  <1> QED BY <1>1, <1>2, <1>3 DEF IInv, Typed, Holds

\* Connections and tables are as the users left them; no request has begun.
DatabaseStart == /\ \E made \in SUBSET Conns : DatabaseInit(made, tables)
                 /\ tables = [t \in Tables |-> tables[t]]
                 /\ \A t \in Tables : WellFormed(tables[t])
DatabaseSpec == DatabaseStart /\ [][DatabaseNext]_databaseVars

\* It holds of a workspace in which no request has begun.
LEMMA InvariantFirst == DatabaseStart => IInv
  <1> SUFFICES ASSUME DatabaseStart PROVE IInv
    OBVIOUS
  <1>1. /\ file.rows = <<>> /\ file.cols = {} /\ clip.rows = <<>> /\ clip.cols = {}
        /\ jobs = [h \in Handlers |-> NoJob] /\ serve = [h \in Handlers |-> Idle]
    BY DEF DatabaseStart, DatabaseInit, NoRows
  <1>2. IsSeq(<<>>) /\ HaveNames({}) /\ WellFormed(NoTable)
    <2>1. IsSeq(<<>>) /\ HaveNames({})
      BY NothingIsSeq DEF HaveNames
    <2>2. /\ DOMAIN NoTable = {"there", "cols", "rows"} /\ NoTable.there = FALSE
          /\ NoTable.cols = {} /\ NoTable.rows = <<>>
      BY DEF NoTable
    <2>3. NoTable.there \in BOOLEAN
      BY <2>2, Zenon
    <2> QED BY <2>1, <2>2, <2>3 DEF WellFormed
  <1>3. Typed
    <2>1. ASSUME NEW h \in Handlers PROVE RequestTyped(h)
      <3>1. serve[h] = Idle /\ jobs[h] = NoJob
        BY <1>1
      <3>2. serve[h].op = "none" /\ serve[h].op \notin OnOneTable \cup {"transfer"} \cup HasJob
        BY <3>1, IdleIs DEF OnOneTable, HasJob
      <3>3. serve[h].clean \in BOOLEAN
        <4>1. serve[h].clean = TRUE
          BY <3>1, IdleIs
        <4> QED BY <4>1, Zenon
      <3>4. /\ serve[h].url = [c \in Conns |-> serve[h].url[c]]
            /\ serve[h].pool = [c \in Conns |-> serve[h].pool[c]]
        <4>1. serve[h].url = [c \in Conns |-> Nowhere] /\ serve[h].pool = [c \in Conns |-> Nowhere]
          BY <3>1, IdleIs
        <4> QED BY <4>1
      <3>5. /\ DOMAIN serve[h] = Fields /\ "status" \in DOMAIN jobs[h]
            /\ serve[h].offset = 0 /\ serve[h].copied = 0 /\ serve[h].failed = 0
            /\ serve[h].todo = <<>> /\ serve[h].read = <<>> /\ serve[h].cols = {}
            /\ serve[h].before = NoTable
        BY <3>1, IdleIs DEF NoJob
      <3>6. {serve[h].offset, serve[h].copied, serve[h].failed} \subseteq Nat
        BY <3>5
      <3>7. serve[h].op \in Ops
        BY <3>2 DEF Ops
      <3> QED BY <1>2, <3>2, <3>3, <3>4, <3>5, <3>6, <3>7 DEF RequestTyped
    <2> QED BY <1>1, <1>2, <2>1 DEF Typed, DatabaseStart
  <1>4. ASSUME NEW h \in Handlers
        PROVE  PoolsHold(h) /\ TransferHolds(h) /\ ImportHolds(h) /\ ExportHolds(h)
    <2>1. serve[h] = Idle
      BY <1>1
    <2>2. /\ serve[h].op = "none" /\ serve[h].pool = [c \in Conns |-> Nowhere]
          /\ serve[h].dial = {} /\ serve[h].opening = {}
      BY <2>1, IdleIs DEF Idle
    <2> QED BY <2>2 DEF PoolsHold, TransferHolds, ImportHolds, ExportHolds, Alone
  <1> QED BY <1>3, <1>4 DEF IInv

\* Every step keeps it.
LEMMA InvariantNext == IInv /\ [DatabaseNext]_databaseVars => IInv'
  <1> SUFFICES ASSUME IInv, [DatabaseNext]_databaseVars PROVE IInv'
    OBVIOUS
  <1>1. CASE UNCHANGED databaseVars
    BY <1>1 DEF databaseVars, IInv, Typed, RequestTyped, PoolsHold, TransferHolds, ImportHolds,
                ExportHolds, Alone
  <1>2. ASSUME NEW h \in Handlers, NEW c \in Conns,
               \/ CreateConnection(h, c) \/ LoadForUpdate(h, c) \/ DeleteConnection(h, c)
               \/ LookUpPool(h, c) \/ OpenPool(h, c)
        PROVE  IInv'
    BY <1>2, CreateConnectionKeeps, LoadForUpdateKeeps, DeleteConnectionKeeps, LookUpPoolKeeps,
       OpenPoolKeeps
  <1>3. ASSUME NEW h \in Handlers, NEW from \in Tables, NEW to \in Tables, NEW mode \in Modes,
               CreateTransfer(h, from, to, mode)
        PROVE  IInv'
    BY <1>3, CreateTransferKeeps
  <1>4. ASSUME NEW h \in Handlers, NEW t \in Tables,
               \/ ExportTable(h, t) \/ ImportTable(h, t)
               \/ \E mode \in {"schema", "data"} : ExportPortable(h, t, mode)
               \/ ImportPortable(h, t) \/ PasteRows(h, t) \/ AddRow(h, t)
               \/ \E op \in {"edit", "remove"} : ShowRows(h, t, op)
               \/ ExecuteQuery(h, t) \/ TestConnection(h, t)
        PROVE  IInv'
    BY <1>4, RequestsKeep, ShowRowsKeeps
  <1>5. ASSUME NEW h \in Handlers,
               \/ SaveConnection(h) \/ EvictPools(h) \/ LoseDatabase(h)
               \/ InspectSource(h) \/ PrepareTarget(h) \/ CreateTarget(h) \/ MapColumns(h)
               \/ ReadPage(h) \/ CopyRow(h) \/ NextPage(h) \/ FinishTransfer(h)
        PROVE  IInv'
    BY <1>5, SaveConnectionKeeps, EvictPoolsKeeps, LoseDatabaseKeeps, InspectSourceKeeps,
       PrepareTargetKeeps, CreateTargetKeeps, MapColumnsKeeps, ReadPageKeeps, CopyRowKeeps,
       NextPageKeeps, FinishTransferKeeps
  <1>6. ASSUME NEW h \in Handlers,
               \/ ReadSource(h) \/ OpenExport(h) \/ WriteExport(h)
               \/ ReadImport(h) \/ FindImportTarget(h) \/ ImportRows(h) \/ FinishImport(h)
               \/ GiveCopy(h) \/ PreparePortable(h) \/ PreparePaste(h) \/ InsertClipRow(h)
        PROVE  IInv'
    BY <1>6, ReadSourceKeeps, OpenExportKeeps, WriteExportKeeps, ReadImportKeeps,
       FindImportTargetKeeps, ImportRowsKeeps, FinishImportKeeps, GiveCopyKeeps,
       PreparePortableKeeps, PreparePasteKeeps, InsertClipRowKeeps
  <1>7. ASSUME NEW h \in Handlers,
               \/ FinishClip(h) \/ SubmitRow(h) \/ CheckRow(h) \/ RemoveRow(h) \/ RecordTest(h)
               \/ \E row \in Rows : UpdateRow(h, row) \/ InsertRow(h, row) \/ RunPostgres(h, row)
               \/ \E script \in Scripts, row \in Rows :
                     RunSqlite(h, script, row) \/ RunLive(h, script, row)
        PROVE  IInv'
    BY <1>7, FinishClipKeeps, SubmitRowKeeps, CheckRowKeeps, RemoveRowKeeps, RecordTestKeeps,
       UpdateRowKeeps, InsertRowKeeps, RunPostgresKeeps, RunSqliteKeeps, RunLiveKeeps
  <1>8. CASE ExpirePool
    BY <1>8, ExpirePoolKeeps
  <1>9. CASE RestartWorkspace
    BY <1>9, RestartKeeps
  <1> QED BY <1>1, <1>2, <1>3, <1>4, <1>5, <1>6, <1>7, <1>8, <1>9 DEF DatabaseNext

\* As many rows as the source has, all from there and no two with the same key,
\* are all rows of the source.
LEMMA AllArrived ==
    ASSUME NEW s, NEW source, NEW target, NEW n \in Nat, NEW first \in Nat,
           Len(source.rows) = n, Len(s.before.rows) = first, Len(target.rows) = first + n,
           CameFrom(s, source, target), Differ(s, target), HasKey(target.cols)
    PROVE  \A i \in 1..n : \E j \in 1..Len(target.rows) :
              target.rows[j] = Carried(s.to, target.cols, s.map, source.rows[i])
  <1> DEFINE Arrived(i, j) == target.rows[j] = Carried(s.to, target.cols, s.map, source.rows[i])
             f == [j \in 1..n |-> CHOOSE i \in 1..n : Arrived(i, first + j)]
  <1>1. ASSUME NEW j \in 1..n
        PROVE  f[j] \in 1..n /\ Arrived(f[j], first + j) /\ first + j \in 1..Len(target.rows)
    <2>1. first + j \in 1..Len(target.rows) /\ first < first + j
      OBVIOUS
    <2>2. \E i \in 1..n : Arrived(i, first + j)
      BY <2>1 DEF CameFrom
    <2> QED BY <2>1, <2>2
  <1>2. f \in [1..n -> 1..n]
    BY <1>1
  <1> HIDE DEF f
  <1>3. ASSUME NEW j \in 1..n, NEW k \in 1..n, j < k PROVE f[j] # f[k]
    <2>1. first + j < first + k /\ first < first + j
      BY <1>3
    <2>2. ~SameKey(target.cols, target.rows[first + j], target.rows[first + k])
      BY <1>1, <2>1 DEF Differ
    <2>3. target.rows[first + j] # target.rows[first + k]
      BY <2>2 DEF SameKey
    <2>4. Arrived(f[j], first + j) /\ Arrived(f[k], first + k)
      BY <1>1
    <2> QED BY <2>3, <2>4
  <1>4. \A j, k \in 1..n : f[j] = f[k] => j = k
    <2> SUFFICES ASSUME NEW j \in 1..n, NEW k \in 1..n, j # k PROVE f[j] # f[k]
      OBVIOUS
    <2>1. j < k \/ k < j
      OBVIOUS
    <2> QED BY <1>3, <2>1
  <1>5. \A i \in 1..n : \E j \in 1..n : f[j] = i
    BY <1>2, <1>4, DifferentIsAll
  <1>6. ASSUME NEW i \in 1..n PROVE \E j \in 1..Len(target.rows) : Arrived(i, j)
    <2>1. PICK j \in 1..n : f[j] = i
      BY <1>5
    <2>2. Arrived(i, first + j) /\ first + j \in 1..Len(target.rows)
      BY <1>1, <2>1
    <2> QED BY <2>2
  <1> QED BY <1>6 DEF Arrived

\* What it says of requests that ended.
LEMMA InvariantServes == IInv => DatabaseServed
  <1> SUFFICES ASSUME IInv PROVE DatabaseServed
    OBVIOUS
  <1>1. ASSUME NEW h \in Handlers, serve[h].op \in HasJob, jobs[h].status \in {"done", "failed"}
        PROVE  serve[h].at = "over"
    BY <1>1 DEF IInv, Typed, RequestTyped
  <1>2. TransferIsComplete
    <2> SUFFICES ASSUME NEW h \in Handlers, jobs[h].status = "done",
                        serve[h].op = "transfer", serve[h].clean
                 PROVE  LET source == tables[serve[h].from].rows
                            target == tables[serve[h].to]
                            old == Len(serve[h].before.rows)
                            Arrived(i, j) == target.rows[j] = Carried(serve[h].to, target.cols,
                                                                      serve[h].map, source[i])
                        IN IF serve[h].mode = "schema"
                           THEN target.rows = <<>> /\ jobs[h].copied = 0
                           ELSE /\ jobs[h].copied + jobs[h].failed = Len(source)
                                /\ Len(target.rows) >= old + jobs[h].copied
                                /\ Len(target.rows) <= old + jobs[h].copied
                                       + IF Home[serve[h].to] \in Sqlite THEN 0
                                         ELSE jobs[h].failed
                                /\ \A j \in 1..Len(target.rows) : j > old =>
                                      \E i \in 1..Len(source) : Arrived(i, j)
                                /\ jobs[h].failed = 0 /\ HasKey(target.cols) =>
                                      \A i \in 1..Len(source) :
                                         \E j \in 1..Len(target.rows) : Arrived(i, j)
      BY DEF TransferIsComplete, NoRows
    <2> DEFINE source == tables[serve[h].from]
               target == tables[serve[h].to]
               copied == jobs[h].copied
               failed == jobs[h].failed
               old == Len(serve[h].before.rows)
    <2>1. serve[h].at = "over"
      BY <1>1 DEF HasJob
    <2>2. /\ AfterCopying(serve[h], source, target, copied, failed)
          /\ copied \in Nat /\ failed \in Nat
      BY <2>1 DEF IInv, TransferHolds, Alone, TransferSound
    <2>3. CASE serve[h].mode = "schema"
      BY <2>2, <2>3 DEF AfterCopying
    <2>4. CASE serve[h].mode # "schema"
      <3> HIDE DEF source, target
      <3>1. /\ copied + failed = Len(source.rows)
            /\ old + copied <= Len(target.rows)
            /\ Len(target.rows) <= old + copied + IF Home[serve[h].to] \in Sqlite THEN 0 ELSE failed
            /\ CameFrom(serve[h], source, target) /\ Differ(serve[h], target)
        BY <2>2, <2>4 DEF AfterCopying, Copied
      <3>2. old \in Nat /\ Len(target.rows) \in Nat
        BY TransferIs DEF target
      <3>3. ASSUME failed = 0, HasKey(target.cols)
            PROVE  \A i \in 1..Len(source.rows) : \E j \in 1..Len(target.rows) :
                      target.rows[j] = Carried(serve[h].to, target.cols, serve[h].map,
                                               source.rows[i])
        <4> DEFINE all == Len(target.rows)
                   met == Len(source.rows)
        <4>1. /\ copied + 0 = met /\ old + copied <= all /\ all <= old + copied + 0
              /\ all \in Nat
          BY <3>1, <3>2, <3>3
        <4> HIDE DEF copied, old, all, met
        <4>2. met = copied /\ all = old + copied
          BY <2>2, <3>2, <4>1
        <4>3. copied \in Nat /\ old \in Nat
          BY <2>2, <3>2
        <4>4. CameFrom(serve[h], source, target) /\ Differ(serve[h], target)
          BY <3>1
        <4>5. Len(source.rows) = copied /\ Len(serve[h].before.rows) = old
              /\ Len(target.rows) = old + copied
          BY <4>2 DEF all, met, old
        <4>6. \A i \in 1..copied : \E j \in 1..Len(target.rows) :
                 target.rows[j] = Carried(serve[h].to, target.cols, serve[h].map, source.rows[i])
          BY <3>3, <4>3, <4>4, <4>5, AllArrived
        <4> QED BY <4>5, <4>6
      <3>4. \A j \in 1..Len(target.rows) : j > old =>
               \E i \in 1..Len(source.rows) :
                  target.rows[j] = Carried(serve[h].to, target.cols, serve[h].map, source.rows[i])
        BY <3>1, <3>2 DEF CameFrom
      <3>5. Len(target.rows) >= old + copied
        BY <2>2, <3>1, <3>2
      <3> QED BY <2>4, <3>1, <3>3, <3>4, <3>5 DEF source, target
    <2> QED BY <2>3, <2>4
  <1>3. ImportIsWhole
    <2>1. ASSUME NEW h \in Handlers, serve[h].op = "import", serve[h].clean
          PROVE  LET added == Len(tables[serve[h].to].rows) - Len(serve[h].before.rows)
                 IN /\ jobs[h].status = "failed" /\ Home[serve[h].to] \in Sqlite => added = 0
                    /\ jobs[h].status = "done" => added = jobs[h].copied
      <3> DEFINE all == Len(tables[serve[h].to].rows)
                 first == Len(serve[h].before.rows)
                 copied == jobs[h].copied
      <3>1. ImportSound(serve[h], tables[serve[h].to], jobs[h])
        BY <2>1 DEF IInv, ImportHolds, Alone
      <3>2. all \in Nat /\ first \in Nat
        <4>1. serve[h].to \in Tables /\ WellFormed(serve[h].before)
          BY <2>1 DEF IInv, Typed, RequestTyped, OnOneTable, Ops
        <4>2. IsSeq(tables[serve[h].to].rows) /\ IsSeq(serve[h].before.rows)
          BY <4>1 DEF IInv, Typed, WellFormed
        <4> QED BY <4>2, SeqHasLen
      <3>3. /\ jobs[h].status = "failed" /\ Home[serve[h].to] \in Sqlite => all = first
            /\ jobs[h].status = "done" => copied \in Nat /\ all = first + copied
        BY <1>1, <2>1, <3>1 DEF ImportSound, HasJob
      <3> HIDE DEF all, first, copied
      <3>4. /\ jobs[h].status = "failed" /\ Home[serve[h].to] \in Sqlite => all - first = 0
            /\ jobs[h].status = "done" => all - first = copied
        BY <3>2, <3>3
      <3> QED BY <3>4 DEF all, first, copied
    <2>2. ASSUME NEW h \in Handlers, serve[h].op = "export", serve[h].clean, file.by = h,
                 jobs[h].status = "done"
          PROVE  LET source == tables[serve[h].from].rows
                     Written(i, j) == file.rows[j] = JsonRow(source[i])
                 IN /\ file.whole /\ Len(file.rows) = Len(source)
                    /\ \A j \in 1..Len(file.rows) : \E i \in 1..Len(source) : Written(i, j)
                    /\ Home[serve[h].from] \in Sqlite \/ Len(source) <= Batch =>
                          \A i \in 1..Len(source) : \E j \in 1..Len(file.rows) : Written(i, j)
      <3>1. file.whole /\ Exported(serve[h], tables[serve[h].from], file.rows)
        BY <1>1, <2>2 DEF IInv, ExportHolds, Alone, ExportSound, HasJob
      <3> QED BY <3>1 DEF Exported, FromTable, Covers
    <2> QED BY <2>1, <2>2 DEF ImportIsWhole
  <1>4. PoolFollowsProfile
    BY DEF IInv, PoolsHold, PoolFollowsProfile
  <1> QED BY <1>2, <1>3, <1>4 DEF DatabaseServed

\* A transfer that ended well between two tables nobody else wrote has counted as
\* many rows as its source has, added only rows that come from there, and missed
\* none if none failed and the target has a key; an import into SQLite is all or
\* nothing; a finished export has rows of its table, as many as it has; and a
\* request works on the server its profile named: for any tables and rows, any
\* page size, any order in which pages are read, any number of requests and any
\* cache.
THEOREM DatabaseIsServed == DatabaseSpec => []DatabaseServed
  <1>1. DatabaseSpec => []IInv
    BY InvariantFirst, InvariantNext, PTL DEF DatabaseSpec
  <1> QED BY <1>1, InvariantServes, PTL

-----------------------------------------------------------------------------
(* The caches of pools.                                                     *)

Cached(set, kind) == {p \in set : p.kind = kind}
PoolsFit(set) == /\ IsFiniteSet(set)
                 /\ \A k \in {"any", "typed"} : Cardinality(Cached(set, k)) =< MaxPools

\* A cache that gives up pools has room.
LEMMA FewerPoolsFit ==
    ASSUME NEW set, PoolsFit(set), NEW left \in SUBSET set
    PROVE  PoolsFit(left)
  <1>1. IsFiniteSet(left)
    BY FS_Subset DEF PoolsFit
  <1>2. ASSUME NEW k \in {"any", "typed"}
        PROVE  Cardinality(Cached(left, k)) =< MaxPools
    <2>1. Cached(left, k) \subseteq Cached(set, k) /\ Cached(set, k) \subseteq set
      BY DEF Cached
    <2>2. IsFiniteSet(Cached(set, k))
      BY <2>1, FS_Subset DEF PoolsFit
    <2>3. /\ Cardinality(Cached(left, k)) =< Cardinality(Cached(set, k))
          /\ IsFiniteSet(Cached(left, k))
      BY <2>1, <2>2, FS_Subset
    <2>4. /\ Cardinality(Cached(left, k)) \in Nat /\ Cardinality(Cached(set, k)) \in Nat
          /\ MaxPools \in Nat /\ Cardinality(Cached(set, k)) =< MaxPools
      BY <2>2, <2>3, FS_CardinalityType, DatabaseAssumption DEF PoolsFit
    <2> QED BY <2>3, <2>4
  <1> QED BY <1>1, <1>2 DEF PoolsFit

\* A cache that was not full has room for one more.
LEMMA OneMoreFits ==
    ASSUME NEW set, PoolsFit(set), NEW new, new.kind \in {"any", "typed"},
           Cardinality(Cached(set, new.kind)) < MaxPools
    PROVE  PoolsFit(set \cup {new})
  <1>1. IsFiniteSet(set \cup {new})
    BY FS_AddElement DEF PoolsFit
  <1>2. ASSUME NEW k \in {"any", "typed"}
        PROVE  Cardinality(Cached(set \cup {new}, k)) =< MaxPools
    <2>1. IsFiniteSet(Cached(set, k))
      <3>1. Cached(set, k) \subseteq set
        BY DEF Cached
      <3> QED BY <3>1, FS_Subset DEF PoolsFit
    <2>2. CASE k = new.kind
      <3>1. Cached(set \cup {new}, k) = Cached(set, k) \cup {new}
        BY <2>2 DEF Cached
      <3>2. /\ \/ Cardinality(Cached(set, k) \cup {new}) = Cardinality(Cached(set, k))
               \/ Cardinality(Cached(set, k) \cup {new}) = Cardinality(Cached(set, k)) + 1
            /\ Cardinality(Cached(set, k)) \in Nat
        BY <2>1, FS_AddElement, FS_CardinalityType
      <3> DEFINE n == Cardinality(Cached(set, k))
                 m == Cardinality(Cached(set, k) \cup {new})
      <3>3. n \in Nat /\ MaxPools \in Nat /\ n < MaxPools /\ (m = n \/ m = n + 1)
        BY <2>2, <3>2, DatabaseAssumption
      <3> HIDE DEF n, m
      <3>4. m =< MaxPools
        BY <3>3
      <3> QED BY <3>1, <3>4 DEF m
    <2>3. CASE k # new.kind
      <3>1. Cached(set \cup {new}, k) = Cached(set, k)
        BY <2>3 DEF Cached
      <3> QED BY <3>1 DEF PoolsFit
    <2> QED BY <2>2, <2>3
  <1> QED BY <1>1, <1>2 DEF PoolsFit

\* A new pool takes a free place or that of an older one.
LEMMA OpenPoolFits ==
    ASSUME PoolsFit(pools), NEW h \in Handlers, NEW c \in Conns, OpenPool(h, c)
    PROVE  PoolsFit(pools')
  <1> DEFINE new == [kind |-> CacheOf(serve[h].op), conn |-> c, url |-> serve[h].url[c]]
             same == Cached(pools, new.kind)
  <1>1. \/ UNCHANGED pools
        \/ Cardinality(same) < MaxPools /\ pools' = pools \cup {new}
        \/ /\ Cardinality(same) = MaxPools
           /\ \E old \in same : pools' = (pools \ {old}) \cup {new}
    BY DEF OpenPool, Cached
  <1>2. new.kind \in {"any", "typed"}
    BY DEF CacheOf
  <1>3. IsFiniteSet(same) /\ Cardinality(same) \in Nat /\ MaxPools \in Nat
    <2>1. same \subseteq pools
      BY DEF Cached
    <2> QED BY <2>1, FS_Subset, FS_CardinalityType, DatabaseAssumption DEF PoolsFit
  <1> HIDE DEF new
  <1>4. CASE \E old \in same : pools' = (pools \ {old}) \cup {new} /\ Cardinality(same) = MaxPools
    <2>1. PICK old \in same : pools' = (pools \ {old}) \cup {new} /\ Cardinality(same) = MaxPools
      BY <1>4
    <2>2. PoolsFit(pools \ {old})
      BY FewerPoolsFit
    <2>3. Cached(pools \ {old}, new.kind) = same \ {old}
      BY DEF Cached
    <2>4. Cardinality(same \ {old}) = Cardinality(same) - 1
      BY <1>3, <2>1, FS_RemoveElement
    <2>5. Cardinality(Cached(pools \ {old}, new.kind)) < MaxPools
      <3> DEFINE n == Cardinality(same)
                 m == Cardinality(same \ {old})
      <3>1. n = MaxPools /\ n \in Nat /\ m = n - 1
        BY <1>3, <2>1, <2>4
      <3> HIDE DEF n, m
      <3>2. m < MaxPools
        BY <3>1
      <3> QED BY <2>3, <3>2 DEF m
    <2> QED BY <1>2, <2>1, <2>2, <2>5, OneMoreFits
  <1>5. CASE Cardinality(same) < MaxPools /\ pools' = pools \cup {new}
    BY <1>2, <1>5, OneMoreFits
  <1>6. CASE UNCHANGED pools
    BY <1>6
  <1> QED BY <1>1, <1>4, <1>5, <1>6

\* No other step adds a pool.
LEMMA PoolsOnlyLeave ==
    ASSUME [DatabaseNext]_databaseVars,
           ~ \E h \in Handlers, c \in Conns : OpenPool(h, c)
    PROVE  pools' \subseteq pools
  <1>1. CASE UNCHANGED databaseVars
    BY <1>1 DEF databaseVars
  <1>2. ASSUME NEW h \in Handlers, NEW c \in Conns,
               CreateConnection(h, c) \/ LoadForUpdate(h, c) \/ DeleteConnection(h, c)
                   \/ LookUpPool(h, c)
        PROVE  pools' \subseteq pools
    BY <1>2 DEF CreateConnection, LoadForUpdate, DeleteConnection, LookUpPool
  <1>3. ASSUME NEW h \in Handlers, NEW from \in Tables, NEW to \in Tables, NEW mode \in Modes,
               CreateTransfer(h, from, to, mode)
        PROVE  pools' \subseteq pools
    BY <1>3 DEF CreateTransfer, Request
  <1>4. ASSUME NEW h \in Handlers, NEW t \in Tables,
               \/ ExportTable(h, t) \/ ImportTable(h, t)
               \/ \E mode \in {"schema", "data"} : ExportPortable(h, t, mode)
               \/ ImportPortable(h, t) \/ PasteRows(h, t) \/ AddRow(h, t)
               \/ \E op \in {"edit", "remove"} : ShowRows(h, t, op)
               \/ ExecuteQuery(h, t) \/ TestConnection(h, t)
        PROVE  pools' \subseteq pools
    BY <1>4 DEF ExportTable, ImportTable, ExportPortable, ImportPortable, PasteRows, AddRow,
                ShowRows, ExecuteQuery, TestConnection, Request
  <1>5. ASSUME NEW h \in Handlers,
               \/ SaveConnection(h) \/ EvictPools(h) \/ LoseDatabase(h)
               \/ InspectSource(h) \/ PrepareTarget(h) \/ CreateTarget(h) \/ MapColumns(h)
               \/ ReadPage(h) \/ CopyRow(h) \/ NextPage(h) \/ FinishTransfer(h)
        PROVE  pools' \subseteq pools
    <2>1. CASE SaveConnection(h) \/ EvictPools(h) \/ LoseDatabase(h)
      BY <2>1 DEF SaveConnection, EvictPools, LoseDatabase, Fail
    <2>2. CASE InspectSource(h) \/ PrepareTarget(h) \/ CreateTarget(h) \/ MapColumns(h)
      BY <2>2 DEF InspectSource, PrepareTarget, CreateTarget, MapColumns, Continue, Store,
                  StoreUnheard, Fail
    <2>3. CASE ReadPage(h) \/ CopyRow(h)
      BY <2>3 DEF ReadPage, CopyRow, InsertMapped, Continue, Store
    <2>4. CASE NextPage(h) \/ FinishTransfer(h)
      BY <2>4 DEF NextPage, FinishTransfer, Continue, Succeed
    <2> QED BY <1>5, <2>1, <2>2, <2>3, <2>4
  <1>6. ASSUME NEW h \in Handlers,
               \/ ReadSource(h) \/ OpenExport(h) \/ WriteExport(h)
               \/ ReadImport(h) \/ FindImportTarget(h) \/ ImportRows(h) \/ FinishImport(h)
               \/ GiveCopy(h) \/ PreparePortable(h) \/ PreparePaste(h) \/ InsertClipRow(h)
        PROVE  pools' \subseteq pools
    <2>1. CASE ReadSource(h) \/ OpenExport(h) \/ WriteExport(h)
      BY <2>1 DEF ReadSource, OpenExport, WriteExport, Continue, Fail
    <2>2. CASE ReadImport(h) \/ FindImportTarget(h) \/ FinishImport(h)
      BY <2>2 DEF ReadImport, FindImportTarget, FinishImport, Continue, Succeed, Fail
    <2>3. CASE ImportRows(h)
      BY <2>3 DEF ImportRows, ImportByRow, Store, StoreUnheard, Fail
    <2>4. CASE GiveCopy(h) \/ PreparePortable(h) \/ PreparePaste(h)
      BY <2>4 DEF GiveCopy, PreparePortable, PreparePaste, Continue, Fail
    <2>5. CASE InsertClipRow(h)
      BY <2>5 DEF InsertClipRow, InsertMapped, Store, Continue
    <2> QED BY <1>6, <2>1, <2>2, <2>3, <2>4, <2>5
  <1>7. ASSUME NEW h \in Handlers,
               \/ FinishClip(h) \/ SubmitRow(h) \/ CheckRow(h) \/ RemoveRow(h) \/ RecordTest(h)
               \/ \E row \in Rows : UpdateRow(h, row) \/ InsertRow(h, row) \/ RunPostgres(h, row)
               \/ \E script \in Scripts, row \in Rows :
                     RunSqlite(h, script, row) \/ RunLive(h, script, row)
        PROVE  pools' \subseteq pools
    <2>1. CASE FinishClip(h) \/ SubmitRow(h) \/ CheckRow(h) \/ RecordTest(h)
      BY <2>1 DEF FinishClip, SubmitRow, CheckRow, RecordTest, Continue, Fail
    <2>2. CASE RemoveRow(h) \/ \E row \in Rows : UpdateRow(h, row)
      BY <2>2 DEF RemoveRow, UpdateRow, Store
    <2>3. CASE \E row \in Rows : InsertRow(h, row) \/ RunPostgres(h, row)
      BY <2>3 DEF InsertRow, RunPostgres, Store, Fail
    <2>4. CASE \E script \in Scripts, row \in Rows :
                  RunSqlite(h, script, row) \/ RunLive(h, script, row)
      BY <2>4 DEF RunSqlite, RunLive, Store, Fail
    <2> QED BY <1>7, <2>1, <2>2, <2>3, <2>4
  <1>8. CASE ExpirePool \/ RestartWorkspace
    BY <1>8, Zenon DEF ExpirePool, RestartWorkspace
  <1> QED BY <1>1, <1>2, <1>3, <1>4, <1>5, <1>6, <1>7, <1>8 DEF DatabaseNext

\* Neither cache of pools outgrows its limit, though its lock is released
\* while a pool is opened and any number of requests open pools at once
\* (LIVE_POOL_CACHE_MAX_ENTRIES).
THEOREM PoolsAreBounded ==
    DatabaseSpec => [](\A k \in {"any", "typed"} :
                           Cardinality({p \in pools : p.kind = k}) =< MaxPools)
  <1>1. DatabaseStart => PoolsFit(pools)
    <2> SUFFICES ASSUME DatabaseStart PROVE PoolsFit(pools)
      OBVIOUS
    <2>1. pools = {} /\ \A k : Cached(pools, k) = {}
      BY DEF DatabaseStart, DatabaseInit, Cached
    <2> QED BY <2>1, FS_EmptySet, DatabaseAssumption DEF PoolsFit
  <1>2. PoolsFit(pools) /\ [DatabaseNext]_databaseVars => PoolsFit(pools)'
    <2>1. PoolsFit(pools)' <=> PoolsFit(pools')
      BY DEF PoolsFit, Cached
    <2> QED BY <2>1, OpenPoolFits, PoolsOnlyLeave, FewerPoolsFit
  <1>3. PoolsFit(pools) => \A k \in {"any", "typed"} :
                               Cardinality({p \in pools : p.kind = k}) =< MaxPools
    BY DEF PoolsFit, Cached
  <1>4. DatabaseSpec => []PoolsFit(pools)
    BY <1>1, <1>2, PTL DEF DatabaseSpec
  <1> QED BY <1>3, <1>4, PTL

-----------------------------------------------------------------------------
(* A call of the Codex app-server.                                          *)

\* What a server may tell of the call's own turn, and of others.
PlanIsSound ==
    /\ plan.status \in {"completed", "failed", "interrupted"}
    /\ IsSeq(plan.own) /\ IsSeq(plan.other)
    /\ \A i \in 1..Len(plan.own) : /\ plan.own[i].type = "note" /\ plan.own[i].turn = "own"
                                   /\ plan.own[i].method # "ended"
    /\ \A i \in 1..Len(plan.other) : plan.other[i].type = "note" /\ plan.other[i].turn # "own"
CodexStart == PlanIsSound /\ CodexInit({plan})
CodexSpec == CodexStart /\ [][CodexNext]_codexVars

\* A line that tells the end of the call's own turn, or names that turn.
LineIsTrue(line, status, gives) ==
    /\ line.type \in {"note", "ask", "response"}
    /\ line.type = "note" /\ line.method = "ended" /\ line.turn = "own" =>
          line.status = status /\ status # "none"
    /\ line.type = "response" /\ line.id = 3 =>
          line.turn = IF gives THEN "own" ELSE NoTurn

ClientPlaces == Asking \cup {"live", "waiting", "over"}
Outcomes == {"completed", "failed", "interrupted", "error"}
CodexTyped ==
    /\ {"told", "answered", "own", "other", "status", "interrupt", "asked", "open", "up"}
          \subseteq DOMAIN server
    /\ {"at", "turn", "saw", "strayed", "abort", "heard", "outcome"} \subseteq DOMAIN client
    /\ server.own \in Nat /\ server.other \in Nat
    /\ server.status \in {"none", "completed", "failed", "interrupted"}
    /\ IsSeq(pipe) /\ IsSeq(notes)
    /\ client.at \in ClientPlaces
    /\ client.at = "live" => plan.kind = "live"
    /\ client.at = "waiting" => plan.kind # "live"

\* The client follows the turn it was given, and ends as that turn does.
ClientIsTrue ==
    /\ client.at = "live" /\ plan.gives => client.turn = "own"
    /\ client.heard => client.abort
    /\ client.at = "over" /\ plan.kind = "live" /\ plan.gives =>
          /\ client.outcome \in Outcomes
          /\ client.outcome = "completed" => server.status = "completed"
          /\ client.outcome = "interrupted" => client.abort \/ server.status = "interrupted"

CodexInv ==
    /\ PlanIsSound /\ CodexTyped
    /\ \A i \in 1..Len(pipe) : LineIsTrue(pipe[i], server.status, plan.gives)
    /\ ClientIsTrue
    /\ ended.at # "running" => client.at = "over"
    /\ EndsAsTold /\ OthersAreKeptOut

\* The server adds a line, and may say now how the turn ended.
LEMMA ServerWrites ==
    ASSUME CodexInv, NEW line, pipe' = Append(pipe, line),
           LineIsTrue(line, server'.status, plan.gives),
           UNCHANGED <<plan, client, notes, said, ended>>, DOMAIN server' = DOMAIN server,
           server'.own \in Nat, server'.other \in Nat,
           \/ server'.status = server.status
           \/ server.status = "none" /\ server'.status \in {"completed", "failed", "interrupted"}
    PROVE  CodexInv'
  <1>1. IsSeq(pipe) /\ Len(pipe) \in Nat
    BY SeqHasLen DEF CodexInv, CodexTyped
  <1>2. /\ IsSeq(pipe') /\ Len(pipe') = Len(pipe) + 1
        /\ \A i \in 1..Len(pipe) : pipe'[i] = pipe[i]
        /\ pipe'[Len(pipe) + 1] = line
    BY <1>1, AppendIsSeq
  <1>3. \A i \in 1..Len(pipe) : LineIsTrue(pipe[i], server'.status, plan.gives)
    BY DEF CodexInv, LineIsTrue
  <1>4. \A i \in 1..Len(pipe') : LineIsTrue(pipe'[i], server'.status, plan.gives)
    <2> TAKE i \in 1..Len(pipe')
    <2>1. i \in 1..Len(pipe) \/ i = Len(pipe) + 1
      BY <1>1, <1>2
    <2> QED BY <1>2, <1>3, <2>1
  <1>5. PlanIsSound' /\ CodexTyped'
    BY <1>2 DEF CodexInv, PlanIsSound, CodexTyped
  <1>6. ClientIsTrue' /\ EndsAsTold' /\ OthersAreKeptOut'
    BY DEF CodexInv, ClientIsTrue, EndsAsTold, OthersAreKeptOut
  <1> QED BY <1>4, <1>5, <1>6 DEF CodexInv

\* It answers a request.
LEMMA AnswerKeeps ==
    ASSUME CodexInv, Answer
    PROVE  CodexInv'
  <1>1. PICK ok : Write([type |-> "response", id |-> server.told, ok |-> ok,
                         turn |-> IF server.told = 3 /\ plan.gives THEN "own" ELSE NoTurn])
    BY DEF Answer
  <1> DEFINE line == [type |-> "response", id |-> server.told, ok |-> ok,
                      turn |-> IF server.told = 3 /\ plan.gives THEN "own" ELSE NoTurn]
  <1>2. /\ pipe' = Append(pipe, line) /\ server' = [server EXCEPT !.answered = server.told]
        /\ UNCHANGED <<plan, client, notes, said, ended>>
    BY <1>1 DEF Answer, Write
  <1>3. LineIsTrue(line, server.status, plan.gives)
    BY DEF LineIsTrue
  <1>4. /\ DOMAIN server' = DOMAIN server /\ server'.own = server.own
        /\ server'.other = server.other /\ server'.status = server.status
    BY <1>2 DEF CodexInv, CodexTyped
  <1> HIDE DEF line
  <1> QED BY <1>2, <1>3, <1>4, ServerWrites DEF CodexInv, CodexTyped

\* It tells of the call's turn, at last that it ended.
LEMMA TellOwnKeeps ==
    ASSUME CodexInv, TellOwn
    PROVE  CodexInv'
  <1> DEFINE next == server.own + 1
             status == IF server.interrupt THEN "interrupted" ELSE plan.status
             items == IF plan.repeats THEN Items(SubSeq(plan.own, 1, server.own)) ELSE <<>>
  <1>1. /\ server.status = "none" /\ UNCHANGED <<plan, client, notes, said, ended>>
        /\ \/ /\ next <= Len(plan.own) /\ pipe' = Append(pipe, plan.own[next])
              /\ server' = [server EXCEPT !.own = next]
           \/ /\ pipe' = Append(pipe, Ended("own", status, items))
              /\ server' = [server EXCEPT !.status = status]
    BY DEF TellOwn, Write
  <1>2. /\ {"own", "other", "status"} \subseteq DOMAIN server
        /\ server.own \in Nat /\ server.other \in Nat /\ Len(plan.own) \in Nat
    BY SeqHasLen DEF CodexInv, CodexTyped, PlanIsSound
  <1>3. CASE /\ next <= Len(plan.own) /\ pipe' = Append(pipe, plan.own[next])
             /\ server' = [server EXCEPT !.own = next]
    <2>1. next \in 1..Len(plan.own) /\ next \in Nat
      BY <1>2, <1>3
    <2>2. LineIsTrue(plan.own[next], server.status, plan.gives)
      BY <2>1 DEF CodexInv, PlanIsSound, LineIsTrue
    <2>3. /\ DOMAIN server' = DOMAIN server /\ server'.own = next
          /\ server'.other = server.other /\ server'.status = server.status
      BY <1>2, <1>3
    <2> QED BY <1>1, <1>2, <1>3, <2>1, <2>2, <2>3, ServerWrites
  <1>4. CASE /\ pipe' = Append(pipe, Ended("own", status, items))
             /\ server' = [server EXCEPT !.status = status]
    <2>1. status \in {"completed", "failed", "interrupted"}
      BY DEF CodexInv, PlanIsSound
    <2>2. LineIsTrue(Ended("own", status, items), status, plan.gives)
      BY <2>1 DEF LineIsTrue, Ended
    <2>3. /\ DOMAIN server' = DOMAIN server /\ server'.own = server.own
          /\ server'.other = server.other /\ server'.status = status
      BY <1>2, <1>4
    <2> HIDE DEF status, items
    <2> QED BY <1>1, <1>2, <1>4, <2>1, <2>2, <2>3, ServerWrites
  <1> QED BY <1>1, <1>3, <1>4

\* It tells of other turns.
LEMMA TellOtherKeeps ==
    ASSUME CodexInv, TellOther
    PROVE  CodexInv'
  <1> DEFINE next == server.other + 1
  <1>1. /\ server.other < Len(plan.other) /\ pipe' = Append(pipe, plan.other[next])
        /\ server' = [server EXCEPT !.other = @ + 1]
        /\ UNCHANGED <<plan, client, notes, said, ended>>
    BY DEF TellOther, Write
  <1>2. /\ {"own", "other", "status"} \subseteq DOMAIN server
        /\ server.own \in Nat /\ server.other \in Nat /\ Len(plan.other) \in Nat
    BY SeqHasLen DEF CodexInv, CodexTyped, PlanIsSound
  <1>3. next \in 1..Len(plan.other) /\ next \in Nat
    BY <1>1, <1>2
  <1>4. LineIsTrue(plan.other[next], server.status, plan.gives)
    BY <1>3 DEF CodexInv, PlanIsSound, LineIsTrue
  <1>5. /\ DOMAIN server' = DOMAIN server /\ server'.own = server.own
        /\ server'.other = next /\ server'.status = server.status
    BY <1>1, <1>2
  <1> QED BY <1>1, <1>2, <1>3, <1>4, <1>5, ServerWrites

\* It asks something itself.
LEMMA AskKeeps ==
    ASSUME CodexInv, Ask
    PROVE  CodexInv'
  <1>1. PICK id : /\ Write([type |-> "ask", id |-> id])
                  /\ server' = [server EXCEPT !.asked = @ \cup {id}, !.open = @ \cup {id}]
    BY DEF Ask
  <1>2. LineIsTrue([type |-> "ask", id |-> id], server.status, plan.gives)
    BY DEF LineIsTrue
  <1>3. /\ DOMAIN server' = DOMAIN server /\ server'.own = server.own
        /\ server'.other = server.other /\ server'.status = server.status
    BY <1>1 DEF CodexInv, CodexTyped
  <1>4. /\ pipe' = Append(pipe, [type |-> "ask", id |-> id])
        /\ UNCHANGED <<plan, client, notes, said, ended>>
    BY <1>1 DEF Ask, Write
  <1> QED BY <1>2, <1>3, <1>4, ServerWrites DEF CodexInv, CodexTyped

\* What a step of the client keeps: it reads lines from the front, and its end is
\* that of its turn.
LEMMA ClientSteps ==
    ASSUME CodexInv, client.at # "over", pipe' = pipe \/ (pipe # <<>> /\ pipe' = Tail(pipe)),
           UNCHANGED <<plan, said, ended>>,
           DOMAIN server' = DOMAIN server, server'.status = server.status,
           server'.own = server.own, server'.other = server.other,
           DOMAIN client' = DOMAIN client, client'.at \in ClientPlaces,
           client'.at = "live" => plan.kind = "live",
           client'.at = "waiting" => plan.kind # "live",
           IsSeq(notes'), ClientIsTrue', OthersAreKeptOut'
    PROVE  CodexInv'
  <1>1. ended.at = "running"
    BY DEF CodexInv
  <1>2. IsSeq(pipe') /\ \A i \in 1..Len(pipe') : LineIsTrue(pipe'[i], server.status, plan.gives)
    <2>1. IsSeq(pipe) /\ \A i \in 1..Len(pipe) : LineIsTrue(pipe[i], server.status, plan.gives)
      BY DEF CodexInv, CodexTyped
    <2>2. CASE pipe # <<>> /\ pipe' = Tail(pipe)
      <3>1. /\ IsSeq(pipe') /\ Len(pipe') = Len(pipe) - 1 /\ Len(pipe) \in Nat \ {0}
            /\ \A i \in 1..Len(pipe') : pipe'[i] = pipe[i + 1]
        BY <2>1, <2>2, TailIsSeq
      <3>2. \A i \in 1..Len(pipe') : i + 1 \in 1..Len(pipe)
        BY <3>1
      <3> QED BY <2>1, <3>1, <3>2
    <2> QED BY <2>1, <2>2
  <1>3. PlanIsSound' /\ CodexTyped'
    BY <1>2 DEF CodexInv, PlanIsSound, CodexTyped
  <1>4. EndsAsTold'
    BY <1>1 DEF EndsAsTold
  <1> QED BY <1>1, <1>2, <1>3, <1>4 DEF CodexInv

\* The step after which the client reads no more.
LEMMA ClientEnds ==
    ASSUME CodexInv, client.at # "over", pipe' = pipe \/ (pipe # <<>> /\ pipe' = Tail(pipe)),
           UNCHANGED <<plan, said, ended, notes>>,
           DOMAIN server' = DOMAIN server, server'.status = server.status,
           server'.own = server.own, server'.other = server.other,
           NEW outcome, client' = Over(client, outcome),
           plan.kind = "live" /\ plan.gives =>
              /\ outcome \in Outcomes
              /\ outcome = "completed" => server.status = "completed"
              /\ outcome = "interrupted" => client.abort \/ server.status = "interrupted"
    PROVE  CodexInv'
  <1>1. /\ DOMAIN client' = DOMAIN client /\ client'.at = "over" /\ client'.outcome = outcome
        /\ client'.abort = client.abort /\ client'.heard = client.heard
        /\ client'.strayed = client.strayed
    BY DEF Over, CodexInv, CodexTyped
  <1>2. ClientIsTrue' /\ OthersAreKeptOut'
    BY <1>1 DEF CodexInv, ClientIsTrue, OthersAreKeptOut
  <1>3. client'.at \in ClientPlaces /\ IsSeq(notes')
    BY <1>1 DEF CodexInv, CodexTyped, ClientPlaces
  <1> QED BY <1>1, <1>2, <1>3, ClientSteps

\* A note that the client sends on belongs to the call's turn, or is counted.
LEMMA SentIsKnown ==
    ASSUME CodexInv, NEW line, NEW strayed, Send(line),
           plan.kind = "live" /\ plan.gives => Stray(line) \subseteq strayed,
           client.strayed \subseteq strayed
    PROVE  /\ IsSeq(notes')
           /\ plan.kind = "live" /\ plan.gives =>
                 \A k \in DOMAIN notes' : Stray(notes'[k]) \subseteq strayed
  <1>1. IsSeq(notes) /\ notes' = Append(notes, line)
    BY DEF CodexInv, CodexTyped, Send
  <1>2. /\ IsSeq(notes') /\ Len(notes') = Len(notes) + 1
        /\ \A i \in 1..Len(notes) : notes'[i] = notes[i]
        /\ notes'[Len(notes) + 1] = line
    BY <1>1, AppendIsSeq
  <1>3. Len(notes) \in Nat /\ DOMAIN notes = 1..Len(notes) /\ DOMAIN notes' = 1..Len(notes')
    BY <1>1, <1>2, SeqHasLen
  <1>4. ASSUME plan.kind = "live", plan.gives, NEW k \in DOMAIN notes'
        PROVE  Stray(notes'[k]) \subseteq strayed
    <2>1. k \in DOMAIN notes \/ k = Len(notes) + 1
      BY <1>2, <1>3
    <2>2. CASE k \in DOMAIN notes
      <3>1. Stray(notes[k]) \subseteq client.strayed /\ notes'[k] = notes[k]
        BY <1>2, <1>3, <1>4, <2>2 DEF CodexInv, OthersAreKeptOut
      <3> QED BY <3>1
    <2> QED BY <1>2, <1>4, <2>1, <2>2
  <1> QED BY <1>2, <1>4

\* A request, or the setup of a compaction.
LEMMA ReadRequestKeeps ==
    ASSUME CodexInv, NEW line, ReadRequest(line), plan.kind # "live", client.at \in Asking,
           pipe # <<>>, pipe' = Tail(pipe), UNCHANGED <<plan, said, ended>>
    PROVE  CodexInv'
  <1>1. /\ DOMAIN server' = DOMAIN server /\ server'.status = server.status
        /\ server'.own = server.own /\ server'.other = server.other
    BY DEF ReadRequest, CodexInv, CodexTyped
  <1>2. /\ \/ client' = client \/ \E outcome : client' = Over(client, outcome)
           \/ \E at \in {"thread", "turn", "waiting"} : client' = [client EXCEPT !.at = at]
        /\ UNCHANGED notes
    BY DEF ReadRequest, Asking
  <1>3. CASE \E outcome : client' = Over(client, outcome)
    BY <1>1, <1>2, <1>3, ClientEnds DEF Asking
  <1>4. CASE client' = client \/ \E at \in {"thread", "turn", "waiting"} :
                                   client' = [client EXCEPT !.at = at]
    <2>1. /\ DOMAIN client' = DOMAIN client /\ client'.at \in Asking \cup {"waiting"}
          /\ client'.abort = client.abort /\ client'.heard = client.heard
      BY <1>4 DEF CodexInv, CodexTyped, Asking
    <2>2. ClientIsTrue' /\ OthersAreKeptOut'
      BY <2>1 DEF CodexInv, ClientIsTrue, OthersAreKeptOut, Asking
    <2> QED BY <1>1, <1>2, <2>1, <2>2, ClientSteps DEF ClientPlaces, Asking, CodexInv, CodexTyped
  <1> QED BY <1>2, <1>3, <1>4

\* The setup of a turn sends every note on, and counts those of other turns.
LEMMA ReadSetupKeeps ==
    ASSUME CodexInv, NEW line, LineIsTrue(line, server.status, plan.gives), ReadSetup(line),
           plan.kind = "live", client.at \in Asking,
           pipe # <<>>, pipe' = Tail(pipe), UNCHANGED <<plan, said, ended>>
    PROVE  CodexInv'
  <1>1. CodexTyped /\ client.at # "over"
    BY DEF CodexInv, Asking
  <1>2. CASE line.type # "note" /\ line.id = Awaited(client.at)
    <2>1. /\ client' = IF line.type = "ask" \/ ~line.ok THEN Over(client, "error")
                       ELSE IF client.at = "turn" THEN [client EXCEPT !.at = "live", !.turn = line.turn]
                       ELSE [client EXCEPT !.at = IF @ = "init" THEN "thread" ELSE "turn"]
          /\ server' = [server EXCEPT !.told = IF client'.at \in Asking THEN Awaited(client'.at) ELSE @]
          /\ UNCHANGED notes
      BY <1>2 DEF ReadSetup
    <2>2. /\ DOMAIN server' = DOMAIN server /\ server'.status = server.status
          /\ server'.own = server.own /\ server'.other = server.other
      BY <1>1, <2>1 DEF CodexTyped
    <2>3. CASE client' = Over(client, "error")
      BY <1>1, <2>1, <2>2, <2>3, ClientEnds DEF Outcomes
    <2>4. CASE client.at = "turn" /\ client' = [client EXCEPT !.at = "live", !.turn = line.turn]
               /\ line.type # "ask"
      <3>1. line.type = "response" /\ line.id = 3
        BY <1>2, <2>4 DEF LineIsTrue, Awaited
      <3>2. line.turn = IF plan.gives THEN "own" ELSE NoTurn
        BY <3>1 DEF LineIsTrue
      <3>3. /\ DOMAIN client' = DOMAIN client /\ client'.at = "live" /\ client'.turn = line.turn
            /\ client'.abort = client.abort /\ client'.heard = client.heard
            /\ client'.strayed = client.strayed
        BY <1>1, <2>4 DEF CodexTyped
      <3>4. ClientIsTrue' /\ OthersAreKeptOut'
        BY <2>1, <3>2, <3>3 DEF CodexInv, ClientIsTrue, OthersAreKeptOut
      <3> QED BY <1>1, <2>1, <2>2, <3>3, <3>4, ClientSteps DEF ClientPlaces, CodexTyped
    <2>5. CASE \E at \in {"thread", "turn"} : client' = [client EXCEPT !.at = at]
      <3>1. /\ DOMAIN client' = DOMAIN client /\ client'.at \in {"thread", "turn"}
            /\ client'.abort = client.abort /\ client'.heard = client.heard
            /\ client'.strayed = client.strayed
        BY <1>1, <2>5 DEF CodexTyped
      <3>2. ClientIsTrue' /\ OthersAreKeptOut'
        BY <2>1, <3>1 DEF CodexInv, ClientIsTrue, OthersAreKeptOut
      <3> QED BY <1>1, <2>1, <2>2, <3>1, <3>2, ClientSteps DEF ClientPlaces, Asking, CodexTyped
    <2> QED BY <2>1, <2>3, <2>4, <2>5
  <1>3. CASE line.type = "note"
    <2>1. /\ Send(line) /\ UNCHANGED server
          /\ client' = [client EXCEPT !.strayed = @ \cup Stray(line)]
      BY <1>3 DEF ReadSetup
    <2>2. /\ DOMAIN client' = DOMAIN client /\ client'.at = client.at
          /\ client'.abort = client.abort /\ client'.heard = client.heard
          /\ client'.strayed = client.strayed \cup Stray(line)
      BY <1>1, <2>1 DEF CodexTyped
    <2>3. /\ IsSeq(notes')
          /\ plan.kind = "live" /\ plan.gives =>
                \A k \in DOMAIN notes' : Stray(notes'[k]) \subseteq client'.strayed
      BY <2>1, <2>2, SentIsKnown
    <2>4. ClientIsTrue' /\ OthersAreKeptOut'
      BY <2>2, <2>3 DEF CodexInv, ClientIsTrue, OthersAreKeptOut, Asking
    <2> QED BY <1>1, <2>1, <2>2, <2>3, <2>4, ClientSteps DEF ClientPlaces, Asking, CodexTyped
  <1>4. CASE line.type # "note" /\ line.id # Awaited(client.at)
    <2>1. /\ server' = IF line.type = "ask" THEN [server EXCEPT !.open = @ \ {line.id}] ELSE server
          /\ UNCHANGED <<client, notes>>
      BY <1>4 DEF ReadSetup
    <2>2. /\ DOMAIN server' = DOMAIN server /\ server'.status = server.status
          /\ server'.own = server.own /\ server'.other = server.other
      BY <1>1, <2>1 DEF CodexTyped
    <2>3. ClientIsTrue' /\ OthersAreKeptOut'
      BY <2>1 DEF CodexInv, ClientIsTrue, OthersAreKeptOut, Asking
    <2> QED BY <1>1, <2>1, <2>2, <2>3, ClientSteps DEF ClientPlaces, Asking, CodexTyped
  <1> QED BY <1>2, <1>3, <1>4

\* A live turn: what is about other turns goes no further.
LEMMA ReadLiveKeeps ==
    ASSUME CodexInv, NEW line, LineIsTrue(line, server.status, plan.gives), ReadLive(line),
           client.at = "live", pipe # <<>>, pipe' = Tail(pipe), UNCHANGED <<plan, said, ended>>
    PROVE  CodexInv'
  <1>1. /\ CodexTyped /\ client.at # "over" /\ ClientIsTrue /\ OthersAreKeptOut
        /\ plan.kind = "live" /\ (plan.gives => client.turn = "own")
    BY DEF CodexInv, CodexTyped, ClientIsTrue
  <1>2. CASE line.type # "note"
    <2>1. /\ server' = server \/ server' = [server EXCEPT !.open = @ \ {line.id}]
          /\ UNCHANGED <<client, notes>>
      BY <1>2 DEF ReadLive, LineIsTrue
    <2>2. /\ DOMAIN server' = DOMAIN server /\ server'.status = server.status
          /\ server'.own = server.own /\ server'.other = server.other
      BY <1>1, <2>1 DEF CodexTyped
    <2>3. ClientIsTrue' /\ OthersAreKeptOut'
      BY <1>1, <2>1 DEF ClientIsTrue, OthersAreKeptOut
    <2> QED BY <1>1, <2>1, <2>2, <2>3, ClientSteps DEF CodexTyped
  <1>3. CASE line.type = "note"
    <2> DEFINE turn == IF client.turn = NoTurn /\ MatchesThread(line) THEN line.turn
                       ELSE client.turn
               known == [client EXCEPT
                            !.turn = turn,
                            !.saw = @ \/ /\ MatchesThread(line) /\ MatchesTurn(line, turn)
                                         /\ line.turn # NoTurn /\ ConfirmsActivity(line)]
               ends == line.method = "ended" /\ MatchesThread(line) /\ MatchesTurn(line, turn)
    <2>1. /\ IF Forwards(line, turn) THEN Send(line) ELSE UNCHANGED notes
          /\ client' = IF ends THEN Over(known, line.status) ELSE known
          /\ UNCHANGED server
      BY <1>3 DEF ReadLive
    <2>2. plan.kind = "live" /\ plan.gives => turn = "own"
      BY <1>1 DEF NoTurn
    <2>3. /\ DOMAIN known = DOMAIN client /\ known.at = "live" /\ known.turn = turn
          /\ known.abort = client.abort /\ known.heard = client.heard
          /\ known.strayed = client.strayed
      BY <1>1 DEF CodexTyped
    <2> HIDE DEF turn, known
    <2>4. /\ DOMAIN client' = DOMAIN client
          /\ client'.at = IF ends THEN "over" ELSE "live"
          /\ client'.turn = turn
          /\ ends => client'.outcome = line.status
          /\ client'.abort = client.abort /\ client'.heard = client.heard
          /\ client'.strayed = client.strayed
      BY <1>1, <2>1, <2>3 DEF Over, CodexTyped
    <2>5. /\ IsSeq(notes')
          /\ plan.kind = "live" /\ plan.gives =>
                \A k \in DOMAIN notes' : Stray(notes'[k]) \subseteq client.strayed
      <3>1. CASE ~Forwards(line, turn)
        BY <1>1, <2>1, <3>1 DEF CodexTyped, OthersAreKeptOut
      <3>2. CASE Forwards(line, turn)
        <4>1. plan.kind = "live" /\ plan.gives => Stray(line) = {}
          BY <2>2, <3>2 DEF Forwards, IsThreadLevel, MatchesTurn, NoTurn, Stray
        <4> QED BY <2>1, <3>2, <4>1, SentIsKnown
      <3> QED BY <3>1, <3>2
    <2>6. ends /\ plan.gives => /\ line.status = server.status
                                /\ server.status \in Outcomes
      <3> SUFFICES ASSUME ends, plan.gives
                   PROVE  line.status = server.status /\ server.status \in Outcomes
        OBVIOUS
      <3>1. line.turn = "own" /\ line.method = "ended"
        BY <1>1, <2>2 DEF MatchesTurn, NoTurn
      <3>2. line.status = server.status /\ server.status # "none"
        BY <1>3, <3>1 DEF LineIsTrue
      <3> QED BY <1>1, <3>2 DEF CodexTyped, Outcomes
    <2>7. OthersAreKeptOut'
      BY <2>4, <2>5 DEF OthersAreKeptOut
    <2>8. ClientIsTrue'
      <3> HIDE DEF ends
      <3>0. plan' = plan /\ server' = server
        BY <2>1
      <3>1. client'.at = "live" /\ plan'.gives => client'.turn = "own"
        <4> SUFFICES ASSUME plan'.gives PROVE client'.turn = "own"
          OBVIOUS
        <4>1. plan.gives
          BY <3>0
        <4> QED BY <1>1, <2>2, <2>4, <4>1
      <3>2. client'.heard => client'.abort
        BY <1>1, <2>4 DEF ClientIsTrue
      <3>3. client'.at = "over" /\ plan'.gives => client'.outcome = server'.status
                                                  /\ server'.status \in Outcomes
        <4> SUFFICES ASSUME client'.at = "over", plan'.gives
                     PROVE  client'.outcome = server'.status /\ server'.status \in Outcomes
          OBVIOUS
        <4>1. ends /\ plan.gives
          BY <2>4, <3>0
        <4> QED BY <2>4, <2>6, <3>0, <4>1
      <3> QED BY <3>1, <3>2, <3>3 DEF ClientIsTrue
    <2>9. client'.at \in ClientPlaces /\ client'.at # "waiting"
      BY <2>4 DEF ClientPlaces
    <2> QED BY <1>1, <2>1, <2>4, <2>5, <2>7, <2>8, <2>9, ClientSteps
  <1> QED BY <1>2, <1>3

\* One line for the client.
LEMMA ReadLineKeeps ==
    ASSUME CodexInv, ReadLine
    PROVE  CodexInv'
  <1> DEFINE line == Head(pipe)
  <1>1. /\ pipe # <<>> /\ client.at # "over" /\ pipe' = Tail(pipe) /\ UNCHANGED <<plan, said, ended>>
        /\ client.at \in ClientPlaces
        /\ client.at = "live" => plan.kind = "live"
        /\ client.at = "waiting" => plan.kind # "live"
    BY DEF ReadLine, CodexInv, CodexTyped
  <1>2. LineIsTrue(line, server.status, plan.gives)
    <2>1. IsSeq(pipe) /\ \A i \in 1..Len(pipe) : LineIsTrue(pipe[i], server.status, plan.gives)
      BY DEF CodexInv, CodexTyped
    <2>2. line = pipe[1] /\ Len(pipe) \in Nat \ {0}
      BY <1>1, <2>1, TailIsSeq
    <2>3. 1 \in 1..Len(pipe)
      BY <2>2
    <2> QED BY <2>1, <2>2, <2>3
  <1>3. \/ plan.kind # "live" /\ client.at \in Asking /\ ReadRequest(line)
        \/ plan.kind = "live" /\ client.at \in Asking /\ ReadSetup(line)
        \/ client.at = "live" /\ ReadLive(line)
        \/ client.at = "waiting" /\ ReadCompaction(line)
    BY <1>1 DEF ReadLine, ClientPlaces, Asking
  <1> HIDE DEF line
  <1>4. CASE client.at = "waiting" /\ ReadCompaction(line)
    <2>1. UNCHANGED <<server, notes>> /\ (client' = client \/ \E o : client' = Over(client, o))
      BY <1>4 DEF ReadCompaction
    <2>2. CASE \E o : client' = Over(client, o)
      BY <1>1, <1>4, <2>1, <2>2, ClientEnds
    <2>3. CASE client' = client
      <3>1. ClientIsTrue' /\ OthersAreKeptOut' /\ CodexTyped
        BY <1>1, <2>1, <2>3 DEF CodexInv, ClientIsTrue, OthersAreKeptOut
      <3> QED BY <1>1, <2>1, <2>3, <3>1, ClientSteps DEF CodexTyped
    <2> QED BY <2>1, <2>2, <2>3
  <1> QED BY <1>1, <1>2, <1>3, <1>4, ReadRequestKeeps, ReadSetupKeeps, ReadLiveKeeps

\* The client ends without a line, or hears of an abort.
LEMMA ClientAloneKeeps ==
    ASSUME CodexInv, ServerClosed \/ TimeOut \/ HearAbort \/ GiveUp
    PROVE  CodexInv'
  <1>1. CodexTyped /\ ClientIsTrue /\ OthersAreKeptOut
    BY DEF CodexInv
  <1>2. CASE ServerClosed \/ TimeOut
    <2>1. /\ client.at # "over" /\ client' = Over(client, "error")
          /\ UNCHANGED <<plan, server, pipe, notes, said, ended>>
      BY <1>2 DEF ServerClosed, TimeOut, Asking
    <2> QED BY <2>1, ClientEnds DEF Outcomes
  <1>3. CASE GiveUp \/ (HearAbort /\ client.turn = NoTurn)
    <2>1. /\ client.at # "over" /\ client' = Over(client, "interrupted") /\ client.abort
          /\ UNCHANGED <<plan, server, pipe, notes, said, ended>>
      BY <1>1, <1>3 DEF GiveUp, HearAbort, ClientIsTrue
    <2> QED BY <2>1, ClientEnds DEF Outcomes
  <1>4. CASE HearAbort /\ client.turn # NoTurn
    <2>1. /\ client.at = "live" /\ client.abort /\ client' = [client EXCEPT !.heard = TRUE]
          /\ server' = [server EXCEPT !.told = 4, !.interrupt = client.turn = "own"]
          /\ UNCHANGED <<plan, pipe, notes, said, ended>>
      BY <1>4 DEF HearAbort
    <2>2. /\ DOMAIN server' = DOMAIN server /\ server'.status = server.status
          /\ server'.own = server.own /\ server'.other = server.other
      BY <1>1, <2>1 DEF CodexTyped
    <2>3. /\ DOMAIN client' = DOMAIN client /\ client'.at = "live" /\ client'.turn = client.turn
          /\ client'.abort = client.abort /\ client'.strayed = client.strayed
      BY <1>1, <2>1 DEF CodexTyped
    <2>4. ClientIsTrue' /\ OthersAreKeptOut'
      BY <1>1, <2>1, <2>3 DEF ClientIsTrue, OthersAreKeptOut
    <2> QED BY <1>1, <2>1, <2>2, <2>3, <2>4, ClientSteps DEF CodexTyped, ClientPlaces
  <1> QED BY <1>2, <1>3, <1>4

\* Someone asks for an abort.
LEMMA AbortKeeps ==
    ASSUME CodexInv, Abort
    PROVE  CodexInv'
  <1>1. /\ client' = [client EXCEPT !.abort = TRUE]
        /\ UNCHANGED <<plan, server, pipe, notes, said, ended>>
    BY DEF Abort
  <1>2. /\ DOMAIN client' = DOMAIN client /\ client'.at = client.at /\ client'.turn = client.turn
        /\ client'.abort = TRUE /\ client'.strayed = client.strayed
        /\ client'.outcome = client.outcome
    BY <1>1 DEF CodexInv, CodexTyped
  <1>3. client'.abort
    BY <1>2, Zenon
  <1>4. CodexTyped' /\ ClientIsTrue' /\ OthersAreKeptOut' /\ EndsAsTold' /\ PlanIsSound'
    BY <1>1, <1>2, <1>3 DEF CodexInv, CodexTyped, ClientIsTrue, OthersAreKeptOut, EndsAsTold,
                            PlanIsSound
  <1> QED BY <1>1, <1>2, <1>4 DEF CodexInv

\* The task takes a note, or ends as the client did; the server dies.
LEMMA TaskKeeps ==
    ASSUME CodexInv, TakeNote \/ FinishTurn \/ Die
    PROVE  CodexInv'
  <1>1. IsSeq(pipe) /\ IsSeq(notes)
    BY DEF CodexInv, CodexTyped
  <1>2. CASE TakeNote
    <2>1. notes # <<>> /\ notes' = Tail(notes) /\ UNCHANGED <<plan, server, pipe, client, ended>>
      BY <1>2 DEF TakeNote
    <2>2. /\ IsSeq(notes') /\ Len(notes') = Len(notes) - 1 /\ Len(notes) \in Nat \ {0}
          /\ \A i \in 1..Len(notes') : notes'[i] = notes[i + 1]
      BY <1>1, <2>1, TailIsSeq
    <2>3. DOMAIN notes' = 1..Len(notes') /\ DOMAIN notes = 1..Len(notes)
      BY <1>1, <2>2, SeqHasLen
    <2>4. \A i \in DOMAIN notes' : i + 1 \in DOMAIN notes /\ notes'[i] = notes[i + 1]
      BY <2>2, <2>3
    <2>5. OthersAreKeptOut'
      BY <2>1, <2>4 DEF CodexInv, OthersAreKeptOut
    <2>6. CodexTyped' /\ ClientIsTrue' /\ EndsAsTold' /\ PlanIsSound'
      BY <2>1, <2>2 DEF CodexInv, CodexTyped, ClientIsTrue, EndsAsTold, PlanIsSound
    <2> QED BY <2>1, <2>5, <2>6 DEF CodexInv
  <1>3. CASE FinishTurn
    <2> DEFINE n == TakeWaiting(said, FALSE)
    <2>1. /\ client.at = "over" /\ ended' = Settled(n, client.outcome)
          /\ UNCHANGED <<plan, server, pipe, client, notes, said>>
      BY <1>3 DEF FinishTurn, Settle
    <2> HIDE DEF n
    <2>2. plan.kind = "live" /\ plan.gives =>
             /\ ended'.at = "completed" => client.outcome = "completed"
             /\ ended'.at = "aborted" => client.outcome = "interrupted"
      <3> SUFFICES ASSUME plan.kind = "live", plan.gives
                   PROVE  /\ ended'.at = "completed" => client.outcome = "completed"
                          /\ ended'.at = "aborted" => client.outcome = "interrupted"
        OBVIOUS
      <3>1. client.outcome \in Outcomes
        BY <2>1 DEF CodexInv, ClientIsTrue
      <3>2. /\ client.outcome = "failed" => ended'.at = "failed"
            /\ client.outcome = "error" => ended'.at = "failed"
            /\ client.outcome = "interrupted" => ended'.at = "aborted"
            /\ client.outcome = "completed" => ended'.at \in {"failed", "completed"}
        BY <2>1 DEF Settled
      <3> QED BY <3>1, <3>2 DEF Outcomes
    <2>3. plan.kind # "live" => ended'.at # "aborted"
      BY <2>1 DEF Settled
    <2>4. EndsAsTold'
      BY <2>1, <2>2, <2>3 DEF EndsAsTold, CodexInv, ClientIsTrue
    <2>5. CodexTyped' /\ ClientIsTrue' /\ OthersAreKeptOut' /\ PlanIsSound'
      BY <2>1 DEF CodexInv, CodexTyped, ClientIsTrue, OthersAreKeptOut, PlanIsSound
    <2> QED BY <2>1, <2>4, <2>5 DEF CodexInv
  <1>4. CASE Die
    <2>1. /\ server' = [server EXCEPT !.up = FALSE]
          /\ UNCHANGED <<plan, pipe, client, notes, said, ended>>
      BY <1>4 DEF Die
    <2>2. /\ DOMAIN server' = DOMAIN server /\ server'.status = server.status
          /\ server'.own = server.own /\ server'.other = server.other
      BY <2>1 DEF CodexInv, CodexTyped
    <2>3. CodexTyped' /\ ClientIsTrue' /\ OthersAreKeptOut' /\ PlanIsSound' /\ EndsAsTold'
      BY <2>1, <2>2 DEF CodexInv, CodexTyped, ClientIsTrue, OthersAreKeptOut, PlanIsSound,
                        EndsAsTold
    <2> QED BY <2>1, <2>2, <2>3 DEF CodexInv
  <1> QED BY <1>2, <1>3, <1>4

\* Before the call nothing was said.
LEMMA CodexFirst == CodexStart => CodexInv
  <1> SUFFICES ASSUME CodexStart PROVE CodexInv
    OBVIOUS
  <1>1. /\ server = [told |-> 1, answered |-> 0, own |-> 0, other |-> 0, status |-> "none",
                     interrupt |-> FALSE, asked |-> {}, open |-> {}, up |-> TRUE]
        /\ client = [at |-> "init", turn |-> NoTurn, saw |-> FALSE, strayed |-> {},
                     abort |-> FALSE, heard |-> FALSE, outcome |-> "none"]
        /\ pipe = <<>> /\ notes = <<>> /\ PlanIsSound
        /\ ended = [at |-> "running", reply |-> NoReply, usage |-> NoTurn]
    BY DEF CodexStart, CodexInit
  <1>2. IsSeq(pipe) /\ IsSeq(notes) /\ Len(pipe) = 0 /\ DOMAIN notes = {}
    <2>1. IsSeq(<<>>) /\ Len(<<>>) = 0
      BY NothingIsSeq
    <2>2. DOMAIN <<>> = {}
      BY <2>1, SeqHasLen
    <2> QED BY <1>1, <2>1, <2>2
  <1>3. CodexTyped
    BY <1>1, <1>2 DEF CodexTyped, ClientPlaces, Asking
  <1>4. ClientIsTrue /\ EndsAsTold /\ OthersAreKeptOut
    BY <1>1, <1>2 DEF ClientIsTrue, EndsAsTold, OthersAreKeptOut
  <1>5. \A i \in 1..Len(pipe) : LineIsTrue(pipe[i], server.status, plan.gives)
    BY <1>2
  <1> QED BY <1>1, <1>3, <1>4, <1>5 DEF CodexInv

\* Whatever else a server tells, and in whatever order with aborts, timeouts and
\* its own end: a call completes only when its turn did and is aborted only when
\* asked or told, and once the turn is live no text of another turn reaches the
\* task.
THEOREM OwnTurnIsServed == CodexSpec => []OwnTurnServed
  <1>1. CodexInv /\ [CodexNext]_codexVars => CodexInv'
    <2> SUFFICES ASSUME CodexInv, [CodexNext]_codexVars PROVE CodexInv'
      OBVIOUS
    <2>1. CASE UNCHANGED codexVars
      BY <2>1 DEF codexVars, CodexInv, CodexTyped, ClientIsTrue, OthersAreKeptOut, PlanIsSound,
                  EndsAsTold
    <2> QED BY <2>1, AnswerKeeps, TellOwnKeeps, TellOtherKeeps, AskKeeps, ReadLineKeeps,
               ClientAloneKeeps, AbortKeeps, TaskKeeps DEF CodexNext
  <1>2. CodexInv => OwnTurnServed
    BY DEF CodexInv, OwnTurnServed
  <1>3. CodexSpec => []CodexInv
    BY <1>1, CodexFirst, PTL DEF CodexSpec
  <1> QED BY <1>2, <1>3, PTL

=============================================================================
