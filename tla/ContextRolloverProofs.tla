-------------------------- MODULE ContextRolloverProofs --------------------------
(***************************************************************************)
(* Proofs about ContextRollover for every set of turns and calls, every    *)
(* number of deaths and resumed runs: a prompt is answered once, an        *)
(* activation is whole, the chat never goes back to a thread it left, and  *)
(* no user message disappears.                                             *)
(***************************************************************************)
EXTENDS ContextRollover, SequenceTheorems, FiniteSetTheorems, TLAPS

-----------------------------------------------------------------------------
(* What makes the invariants inductive.                                      *)

\* The rows that run the prompt of turn t: its own, and those of the retries
\* of it.
Owns(t, x) ==
    \/ x = Turn(t)
    \/ \E c \in Calls : /\ Kind[c] = "retry" /\ call[c].at # "none"
                        /\ call[c].turn = t
                        /\ x \in {Compact(c), Again(c)}

\* A row whose task may still settle it, and one that is about to get a task.
Pending(x) == /\ task[x].at \in {"starting", "live", "ending", "deactivate",
                                 "terminal"}
              /\ task[x].how # "activated"
Staged(x) == \E c \in Calls :
                 \/ x = Compact(c) /\ call[c].at = "prepared"
                 \/ /\ x = Again(c) /\ row[x].status # "none"
                    /\ task[Compact(c)].how = "activated"

\* A row that carries its prompt: it answered it, may still answer it, or
\* failed so that a retry may start from it.
Carries(x) == \/ row[x].status \in Open \cup {"failed"}
              \/ row[x].status = "completed" /\ x \notin CompactRows
              \/ Pending(x) \/ Staged(x)

\* A prompt is carried by one row at a time: retries and activations hand it
\* on, and nothing gives it to a second row or back to an earlier one.
OneCarrier == \A t \in Turns, x, y \in Rows :
                  Owns(t, x) /\ Owns(t, y) /\ Carries(x) /\ Carries(y) => x = y

RowShape(x) ==
    /\ row[x].status = "none" => task[x].at = "none" /\ x \notin aborting
    /\ row[x].status = "failed" =>
           task[x].at \in {"none", "failing", "release"} /\ ~Staged(x)
    /\ task[x].at \in {"none", "starting", "live", "failing"} <=>
           task[x].how = "none"
    /\ task[x].how = "activated" =>
           x \in CompactRows /\ task[x].at # "ending"
RowsAreSound == \A x \in Rows : RowShape(x)

CallShape(c) ==
    /\ Kind[c] = "manual" => call[c].source = NoRow
    /\ call[c].at \in {"none", "read", "replaced"} => roll[c].state = "none"
    /\ roll[c].state = "none" <=> row[Compact(c)].status = "none"
    /\ call[c].at = "prepared" =>
           roll[c].state = "starting" /\ task[Compact(c)].at = "none"
    /\ row[Again(c)].status # "none" => Kind[c] = "retry" /\ roll[c].state = "active"
    /\ roll[c].state = "active" =>
           /\ row[Compact(c)].status \notin Open \cup {"failed", "none"}
           /\ roll[c].candidate # NoThread
           /\ task[Compact(c)].at = "none" \/ task[Compact(c)].how = "activated"
    /\ task[Compact(c)].how = "activated" =>
           roll[c].state = "active" /\ task[Again(c)].at = "none"
CallsAreSound == \A c \in Calls : CallShape(c)

\* What a handler of a retry read: the failed row it wants to supersede.  It
\* is that still, or it does not carry the prompt any more.
Reading(c) == Kind[c] = "retry" /\ call[c].at \in {"read", "replaced"}
SourceShape(c) ==
    /\ call[c].turn \in Turns
    /\ Owns(call[c].turn, call[c].source)
    /\ row[call[c].source].status # "none"
    /\ Carries(call[c].source) => row[call[c].source].status = "failed"
    /\ \A d \in Calls : call[c].source = Compact(d) => roll[d].state = "failed"
SourcesAreSound == \A c \in Calls : Reading(c) => SourceShape(c)

\* Rows are listed in the order of their creation, each once.
BornOnce ==
    /\ \A x \in Rows : row[x].status # "none" => x \in ToSet(born)
    /\ \A t \in Turns : said[t] = "none" => Turn(t) \notin ToSet(born)
    /\ \A c \in Calls : /\ call[c].at = "none" <=> Compact(c) \notin ToSet(born)
                        /\ roll[c].state # "active" => Again(c) \notin ToSet(born)

\* Recovery treats its rows before any task or handler starts.
BootIsAlone ==
    /\ mode.at # "up" => /\ aborting = {}
                         /\ \A c \in Calls : call[c].at \in {"none", "over"}
    /\ mode.rows # {} => mode.at = "recovering"
    /\ mode.at = "down" \/ mode.rows # {} => \A x \in Rows : task[x].at = "none"
    /\ \A x \in mode.rows : row[x].status \in Open

ReportsAreKnown ==
    report # {} /\ (\E c \in Calls : roll[c].state = "active") => "report" \in raced

\* Messages.  As long as no turn begins during the checks of a handler, what it
\* read is what the chat has.
SeenIsAll ==
    /\ \A c \in Calls : Kind[c] = "retry" /\ call[c].at # "none" =>
           call[c].turn \in Turns /\ said[call[c].turn] # "none"
    /\ \A c \in Calls : \A t \in call[c].seen : said[t] # "none"
    /\ "turn" \notin raced =>
          /\ \A t \in Turns : said[t] # "lost"
          /\ \A c \in Calls : call[c].at = "read" =>
                 \A t \in Turns : said[t] # "none" => t \in call[c].seen

\* Only one turn is retried at a time: that of the newest row.
Calm == /\ "turn" \notin raced
        /\ \A c \in Calls : Kind[c] = "manual" => call[c].at = "none"
Engaged(c) == call[c].at \in {"read", "replaced"} \/ roll[c].state = "starting"
Retried(t) == /\ said[t] = "kept"
              /\ LatestRow # {} /\ \A x \in LatestRow : Owns(t, x)
FromNewest(c) ==
    /\ row[call[c].source].status = "failed" => LatestRow = {call[c].source}
    /\ \E i, j \in DOMAIN born : /\ i < j /\ born[i] = call[c].source
                                 /\ born[j] = Compact(c)
NewestIsRetried ==
    Calm =>
        /\ \A t \in Turns, x \in LatestRow : said[t] = "renamed" => ~Owns(t, x)
        /\ \A c \in Calls : Engaged(c) => Retried(call[c].turn)
        /\ \A c \in Calls : roll[c].state = "starting" => LatestRow = {Compact(c)}
        /\ \A c \in Calls : Reading(c) => FromNewest(c)

IInv == /\ RollTypeOK
        /\ RowsAreSound /\ CallsAreSound /\ SourcesAreSound
        /\ BornOnce /\ BootIsAlone /\ OneCarrier
        /\ ReportsAreKnown
        /\ SeenIsAll /\ NewestIsRetried

-----------------------------------------------------------------------------
(* Rows, and the tables that describe them.                                  *)
LEMMA RowKinds ==
    /\ \A t, u \in Turns : Turn(t) = Turn(u) => t = u
    /\ \A c, d \in Calls : Compact(c) = Compact(d) => c = d
    /\ \A c, d \in Calls : Again(c) = Again(d) => c = d
    /\ \A t \in Turns, c \in Calls : Turn(t) # Compact(c) /\ Turn(t) # Again(c)
    /\ \A c, d \in Calls : Compact(c) # Again(d)
  BY DEF Turn, Compact, Again

\* Rows of turns, compactions and retries.
LEMMA RowMembers ==
    /\ \A t \in Turns : Turn(t) \in Rows /\ Turn(t) \notin CompactRows
    /\ \A c \in Calls : /\ Compact(c) \in Rows /\ Compact(c) \in CompactRows
                        /\ Again(c) \in Rows /\ Again(c) \notin CompactRows
    /\ \A x \in CompactRows : x \in Rows /\ \E c \in Calls : x = Compact(c)
    /\ \A x \in Rows \ CompactRows : \/ \E t \in Turns : x = Turn(t)
                                     \/ \E c \in Calls : x = Again(c)
    /\ NoRow \notin Rows /\ NoThread \notin Rows
  <1>1. \A t \in Turns : Turn(t) \in Rows
    BY DEF Rows
  <1>2. \A c \in Calls : Compact(c) \in Rows /\ Again(c) \in Rows
    BY DEF Rows
  <1>3. \A x \in Rows \ CompactRows : \/ \E t \in Turns : x = Turn(t)
                                     \/ \E c \in Calls : x = Again(c)
    BY DEF Rows, CompactRows
  <1>4. NoRow \notin Rows /\ NoThread \notin Rows
    BY DEF Rows, NoRow, NoThread, Turn, Compact, Again
  <1> QED BY <1>1, <1>2, <1>3, <1>4, RowKinds DEF CompactRows

\* Records of the tables: a new one, and one with another value in a field.
LEMMA RowRecords ==
    /\ \A v \in Statuses, th \in Threads, n \in 0..MaxRecoveries :
          LET r == [status |-> v, thread |-> th, tries |-> n]
          IN  r \in RowType /\ r.status = v /\ r.thread = th
    /\ \A r \in RowType :
          /\ r.status \in Statuses /\ r.thread \in Threads
          /\ \A v \in Statuses : LET s == [r EXCEPT !.status = v]
                                 IN  s \in RowType /\ s.status = v /\ s.thread = r.thread
          /\ \A v \in Threads : LET s == [r EXCEPT !.thread = v]
                                IN  s \in RowType /\ s.status = r.status /\ s.thread = v
  BY DEF RowType

\* Records of tasks and their updates.
LEMMA TaskRecords ==
    /\ \A r \in TaskType :
          /\ r.how \in TaskEnds
          /\ \A v \in TaskSteps :
                LET s == [r EXCEPT !.at = v]
                IN  s \in TaskType /\ s.at = v /\ s.how = r.how
    /\ \A v \in TaskSteps,
          w \in TaskEnds :
          LET s == [at |-> v, how |-> w]
          IN  s \in TaskType /\ s.at = v /\ s.how = w
  BY DEF TaskType

\* Records of handlers and their updates.
LEMMA CallRecords ==
    /\ \A t \in Turns \cup {NoTurn}, x \in Rows \cup {NoRow}, S \in SUBSET Turns,
          th \in Threads :
          LET r == [at |-> "read", turn |-> t, source |-> x, seen |-> S, from |-> th]
          IN  /\ r \in CallType /\ r.at = "read" /\ r.turn = t /\ r.source = x
              /\ r.seen = S
    /\ \A r \in CallType :
          /\ r.turn \in Turns \cup {NoTurn} /\ r.source \in Rows \cup {NoRow}
          /\ r.from \in Threads /\ r.seen \subseteq Turns
          /\ \A v \in CallSteps :
                LET s == [r EXCEPT !.at = v]
                IN  /\ s \in CallType /\ s.at = v /\ s.turn = r.turn
                    /\ s.source = r.source /\ s.seen = r.seen
  BY DEF CallType, CallSteps

\* Records of rollovers and their updates.
LEMMA RollRecords ==
    /\ \A v \in RollStates, x, y \in Threads :
          LET r == [state |-> v, from |-> x, candidate |-> y]
          IN  r \in RollType /\ r.state = v /\ r.candidate = y
    /\ \A r \in RollType :
          /\ r.state \in RollStates
          /\ r.candidate \in Threads
          /\ \A v \in RollStates :
                LET s == [r EXCEPT !.state = v]
                IN  s \in RollType /\ s.state = v /\ s.candidate = r.candidate
          /\ \A v \in Threads : LET s == [r EXCEPT !.candidate = v]
                                IN  s \in RollType /\ s.state = r.state /\ s.candidate = v
  BY DEF RollType

\* Records of the chat and their updates.
LEMMA ChatRecords ==
    /\ \A r \in ChatType :
          /\ r.thread \in Threads
          /\ \A v \in BOOLEAN : LET s == [r EXCEPT !.active = v]
                                IN  s \in ChatType /\ s.thread = r.thread
          /\ \A v \in Threads : LET s == [r EXCEPT !.thread = v]
                                IN  s \in ChatType /\ s.thread = v
    /\ \A v \in BOOLEAN, th \in Threads :
          LET s == [active |-> v, thread |-> th] IN s \in ChatType /\ s.thread = th
  BY DEF ChatType

\* Records of the server and their updates.
LEMMA ModeRecords ==
    \A r \in ModeType :
        /\ r.at \in {"up", "recovering", "down"} /\ r.rows \subseteq Rows
        /\ \A v \in {"up", "recovering", "down"} :
              LET s == [r EXCEPT !.at = v]
              IN  s \in ModeType /\ s.at = v /\ s.rows = r.rows
        /\ \A S \in SUBSET Rows :
              LET s == [r EXCEPT !.rows = S]
              IN  s \in ModeType /\ s.at = r.at /\ s.rows = S
        /\ \A S \in SUBSET Rows :
              LET s == [r EXCEPT !.at = "recovering", !.rows = S]
              IN  s \in ModeType /\ s.at = "recovering" /\ s.rows = S
  BY DEF ModeType

\* What an update of one entry of a table does.
LEMMA Updated ==
    ASSUME NEW S, NEW T, NEW f \in [S -> T], NEW x \in S, NEW v
    PROVE  /\ [f EXCEPT ![x] = v][x] = v
           /\ \A y \in S : y # x => [f EXCEPT ![x] = v][y] = f[y]
           /\ v \in T => [f EXCEPT ![x] = v] \in [S -> T]
  OBVIOUS

\* A list that a new row is added to.
LEMMA AppendOnce ==
    ASSUME NEW S, NEW q \in Seq(S), IsInjective(q), NEW x \in S, x \notin ToSet(q)
    PROVE  /\ Append(q, x) \in Seq(S) /\ IsInjective(Append(q, x))
           /\ ToSet(Append(q, x)) = ToSet(q) \cup {x}
  <1>1. Append(q, x) \in Seq(S) /\ Len(Append(q, x)) = Len(q) + 1
    BY AppendProperties
  <1>2. \A i \in 1..Len(q) : Append(q, x)[i] = q[i]
    BY AppendProperties
  <1>3. Append(q, x)[Len(q) + 1] = x
    BY AppendProperties
  <1>4. DOMAIN q = 1..Len(q) /\ DOMAIN Append(q, x) = 1..(Len(q) + 1) /\ Len(q) \in Nat
    BY <1>1, LenProperties
  <1>5. IsInjective(Append(q, x))
    BY <1>2, <1>3, <1>4 DEF IsInjective, ToSet
  <1>6. ToSet(Append(q, x)) = ToSet(q) \cup {x}
    BY <1>2, <1>3, <1>4 DEF ToSet
  <1> QED BY <1>1, <1>5, <1>6

\* The newest row of a set, when rows are added to the list or to the set.
LEMMA NewestAlone ==
    ASSUME NEW q, NEW S, NEW x \in LastOf(q, S), NEW y \in LastOf(q, S),
           DOMAIN q \subseteq Nat
    PROVE  x = y
  BY DEF LastOf

\* An element outside the set does not become its last.
LEMMA NewestKept ==
    ASSUME NEW R, NEW q \in Seq(R), NEW S, NEW y, y \notin S
    PROVE  LastOf(Append(q, y), S) = LastOf(q, S)
  <1>1. /\ DOMAIN q = 1..Len(q) /\ DOMAIN Append(q, y) = 1..(Len(q) + 1) /\ Len(q) \in Nat
        /\ \A i \in 1..Len(q) : Append(q, y)[i] = q[i]
        /\ Append(q, y)[Len(q) + 1] = y
    OBVIOUS
  <1> QED BY <1>1 DEF LastOf

\* An element of the set that is appended becomes its last.
LEMMA NewestAppended ==
    ASSUME NEW R, NEW q \in Seq(R), NEW S, NEW y \in S
    PROVE  LastOf(Append(q, y), S) = {y}
  <1>1. /\ DOMAIN q = 1..Len(q) /\ DOMAIN Append(q, y) = 1..(Len(q) + 1) /\ Len(q) \in Nat
        /\ \A i \in 1..Len(q) : Append(q, y)[i] = q[i]
        /\ Append(q, y)[Len(q) + 1] = y
    OBVIOUS
  <1>2. y \in LastOf(Append(q, y), S)
    BY <1>1 DEF LastOf
  <1>3. ASSUME NEW z \in LastOf(Append(q, y), S) PROVE z = y
    <2>1. PICK i \in 1..(Len(q) + 1) :
              /\ Append(q, y)[i] = z
              /\ \A j \in 1..(Len(q) + 1) : j > i => Append(q, y)[j] \notin S
      BY <1>1 DEF LastOf
    <2>2. i = Len(q) + 1
      BY <1>1, <2>1
    <2> QED BY <1>1, <2>1, <2>2
  <1> QED BY <1>2, <1>3

\* A row that joins the set behind its newest one is the newest then.
LEMMA NewestJoins ==
    ASSUME NEW R, NEW q \in Seq(R), IsInjective(q), NEW S, NEW x \in LastOf(q, S), NEW y,
           \E i, j \in DOMAIN q : i < j /\ q[i] = x /\ q[j] = y
    PROVE  LastOf(q, S \cup {y}) = {y}
  <1>0. PICK i \in DOMAIN q, j \in DOMAIN q : i < j /\ q[i] = x /\ q[j] = y
    OBVIOUS
  <1>1. DOMAIN q \subseteq Nat
    OBVIOUS
  <1>2. \A k \in DOMAIN q : k > i => q[k] \notin S
    <2>1. PICK k \in DOMAIN q : q[k] = x /\ \A l \in DOMAIN q : l > k => q[l] \notin S
      BY DEF LastOf
    <2>2. k = i
      BY <1>0, <2>1 DEF IsInjective
    <2> QED BY <2>1, <2>2
  <1>3. \A k \in DOMAIN q : k > j => q[k] \notin S \cup {y}
    BY <1>0, <1>1, <1>2 DEF IsInjective
  <1>4. y \in LastOf(q, S \cup {y})
    BY <1>0, <1>3 DEF LastOf
  <1> QED BY <1>1, <1>4, NewestAlone

-----------------------------------------------------------------------------
(* What each step does to the tables, entry by entry.                        *)
RowsTyped == row' \in [Rows -> RowType]
TasksTyped == task' \in [Rows -> TaskType]
CallsTyped == call' \in [Calls -> CallType]
RollsTyped == roll' \in [Calls -> RollType]
RowOnly(x) == \A y \in Rows : y # x => row'[y].status = row[y].status
TaskOnly(x) == \A y \in Rows : y # x => task'[y] = task[y]
CallOnly(c) == \A d \in Calls : d # c => call'[d] = call[d]
RollOnly(c) == \A d \in Calls : d # c => roll'[d] = roll[d]
CallMoves(c, at) == /\ call'[c].at = at /\ call'[c].turn = call[c].turn
                    /\ call'[c].source = call[c].source
                    /\ call'[c].seen = call[c].seen

\* The ways in which an entry is written.
LEMMA SetStatus ==
    ASSUME RollTypeOK, NEW x \in Rows, NEW v \in Statuses,
           row' = [row EXCEPT ![x].status = v]
    PROVE  RowsTyped /\ RowOnly(x) /\ row'[x].status = v
  <1>1. row \in [Rows -> RowType] /\ row[x] \in RowType
    BY DEF RollTypeOK
  <1>2. [row[x] EXCEPT !.status = v] \in RowType /\ [row[x] EXCEPT !.status = v].status = v
    BY <1>1, RowRecords
  <1>3. row' = [row EXCEPT ![x] = [row[x] EXCEPT !.status = v]]
    OBVIOUS
  <1> HIDE DEF RollTypeOK
  <1> QED BY <1>1, <1>2, <1>3, Updated DEF RowsTyped, RowOnly

\* Setting the thread of a row.
LEMMA SetThread ==
    ASSUME RollTypeOK, NEW x \in Rows, NEW v \in Threads,
           row' = [row EXCEPT ![x].thread = v]
    PROVE  RowsTyped /\ \A y \in Rows : row'[y].status = row[y].status
  <1>1. row \in [Rows -> RowType] /\ row[x] \in RowType
    BY DEF RollTypeOK
  <1>2. /\ [row[x] EXCEPT !.thread = v] \in RowType
        /\ [row[x] EXCEPT !.thread = v].status = row[x].status
    BY <1>1, RowRecords
  <1>3. row' = [row EXCEPT ![x] = [row[x] EXCEPT !.thread = v]]
    OBVIOUS
  <1> QED BY <1>1, <1>2, <1>3, Updated DEF RowsTyped

\* Moving a task.
LEMMA SetTask ==
    ASSUME RollTypeOK, NEW x \in Rows,
           NEW v \in TaskSteps,
           task' = [task EXCEPT ![x].at = v]
    PROVE  TasksTyped /\ TaskOnly(x) /\ task'[x].at = v /\ task'[x].how = task[x].how
  <1>1. task \in [Rows -> TaskType] /\ task[x] \in TaskType
    BY DEF RollTypeOK
  <1>2. /\ [task[x] EXCEPT !.at = v] \in TaskType /\ [task[x] EXCEPT !.at = v].at = v
        /\ [task[x] EXCEPT !.at = v].how = task[x].how
    BY <1>1, TaskRecords
  <1>3. task' = [task EXCEPT ![x] = [task[x] EXCEPT !.at = v]]
    OBVIOUS
  <1> QED BY <1>1, <1>2, <1>3, Updated DEF TasksTyped, TaskOnly

\* Giving a row a task.
LEMMA PutTask ==
    ASSUME RollTypeOK, NEW x \in Rows,
           NEW v \in TaskSteps,
           NEW w \in TaskEnds,
           task' = [task EXCEPT ![x] = [at |-> v, how |-> w]]
    PROVE  TasksTyped /\ TaskOnly(x) /\ task'[x].at = v /\ task'[x].how = w
  <1>1. task \in [Rows -> TaskType]
    BY DEF RollTypeOK
  <1>2. [at |-> v, how |-> w] \in TaskType
    BY TaskRecords
  <1> QED BY <1>1, <1>2, Updated DEF TasksTyped, TaskOnly

\* Moving a handler.
LEMMA SetCall ==
    ASSUME RollTypeOK, NEW c \in Calls,
           NEW v \in CallSteps,
           call' = [call EXCEPT ![c].at = v]
    PROVE  CallsTyped /\ CallOnly(c) /\ CallMoves(c, v)
  <1>1. call \in [Calls -> CallType] /\ call[c] \in CallType
    BY DEF RollTypeOK
  <1>2. LET s == [call[c] EXCEPT !.at = v]
        IN  /\ s \in CallType /\ s.at = v /\ s.turn = call[c].turn
            /\ s.source = call[c].source /\ s.seen = call[c].seen
    BY <1>1, CallRecords
  <1>3. call' = [call EXCEPT ![c] = [call[c] EXCEPT !.at = v]]
    OBVIOUS
  <1> QED BY <1>1, <1>2, <1>3, Updated DEF CallsTyped, CallOnly, CallMoves

\* Moving a rollover.
LEMMA SetRoll ==
    ASSUME RollTypeOK, NEW c \in Calls, NEW v \in RollStates,
           roll' = [roll EXCEPT ![c].state = v]
    PROVE  /\ RollsTyped /\ RollOnly(c) /\ roll'[c].state = v
           /\ roll'[c].candidate = roll[c].candidate
  <1>1. roll \in [Calls -> RollType] /\ roll[c] \in RollType
    BY DEF RollTypeOK
  <1>2. LET s == [roll[c] EXCEPT !.state = v]
        IN  s \in RollType /\ s.state = v /\ s.candidate = roll[c].candidate
    BY <1>1, RollRecords
  <1>3. roll' = [roll EXCEPT ![c] = [roll[c] EXCEPT !.state = v]]
    OBVIOUS
  <1> QED BY <1>1, <1>2, <1>3, Updated DEF RollsTyped, RollOnly

\* Updating the chat.
LEMMA SetChat ==
    ASSUME RollTypeOK
    PROVE  /\ \A v \in BOOLEAN : /\ [chat EXCEPT !.active = v] \in ChatType
                                 /\ [chat EXCEPT !.active = v].thread = chat.thread
           /\ \A v \in Threads : [chat EXCEPT !.thread = v] \in ChatType
  BY ChatRecords DEF RollTypeOK

\* A rollover fails, or is not there to fail.
LEMMA FailRollEffect ==
    ASSUME RollTypeOK, NEW c \in Calls, FailRoll(c)
    PROVE  /\ RollsTyped /\ RollOnly(c)
           /\ roll'[c].state = IF roll[c].state = "starting" THEN "failed"
                               ELSE roll[c].state
           /\ roll'[c].candidate = roll[c].candidate
  <1>1. roll[c].state \in RollStates
    BY RollRecords DEF RollTypeOK
  <1>2. "failed" \in RollStates
    BY DEF RollStates
  <1>3. roll' = [roll EXCEPT ![c].state = IF roll[c].state = "starting" THEN "failed"
                                          ELSE roll[c].state]
    BY DEF FailRoll
  <1> QED BY <1>1, <1>2, <1>3, SetRoll

\* The sets of labels.
LEMMA Names ==
    /\ {"none", "running", "recovering", "completed", "failed", "aborted",
        "interrupted", "superseded"} = Statuses
    /\ Open = {"running", "recovering"}
    /\ {"none", "starting", "live", "ending", "deactivate", "terminal", "release",
        "failing"} = TaskSteps
    /\ {"none", "completed", "failed", "aborted", "activated"} = TaskEnds
    /\ {"none", "read", "replaced", "prepared", "over"} = CallSteps
    /\ {"none", "starting", "active", "failed"} = RollStates
    /\ NoThread \in Threads /\ Rows \subseteq Threads
  BY DEF Statuses, Open, TaskSteps, TaskEnds, CallSteps, RollStates, Threads

\* Labels that steps assign.
LEMMA Labels ==
    /\ "running" \in Statuses /\ "recovering" \in Statuses /\ "failed" \in Statuses
    /\ "interrupted" \in Statuses /\ "superseded" \in Statuses
    /\ "completed" \in Statuses /\ "failed" \in RollStates
  BY DEF Statuses, Open, RollStates

\* The types of the entries.
LEMMA Typed ==
    ASSUME RollTypeOK
    PROVE  /\ \A x \in Rows : /\ row[x] \in RowType /\ row[x].status \in Statuses
                              /\ task[x] \in TaskType /\ task[x].how \in TaskEnds
                              /\ task[x].at \in TaskSteps
           /\ \A c \in Calls : /\ call[c] \in CallType /\ roll[c] \in RollType
                               /\ roll[c].candidate \in Threads
                               /\ roll[c].state \in RollStates
                               /\ call[c].turn \in Turns \cup {NoTurn}
                               /\ call[c].source \in Rows \cup {NoRow}
                               /\ call[c].from \in Threads
                               /\ call[c].at \in CallSteps
           /\ chat.thread \in Threads /\ born \in Seq(Rows) /\ IsInjective(born)
           /\ mode.rows \subseteq Rows
  <1>1. \A x \in Rows : row[x] \in RowType /\ task[x] \in TaskType
    BY DEF RollTypeOK
  <1>2. \A c \in Calls : call[c] \in CallType /\ roll[c] \in RollType
    BY DEF RollTypeOK
  <1>3. \A r \in TaskType : r.at \in TaskSteps
    BY DEF TaskType
  <1>4. \A r \in CallType : r.at \in CallSteps
    BY DEF CallType
  <1>5. chat.thread \in Threads /\ mode.rows \subseteq Rows
    BY ChatRecords, ModeRecords DEF RollTypeOK
  <1> QED
    BY <1>1, <1>2, <1>3, <1>4, <1>5, RowRecords, TaskRecords, CallRecords, RollRecords
    DEF RollTypeOK

\* BeginTurn entry by entry.
LEMMA BeginTurnEffect ==
    ASSUME RollTypeOK, BornOnce, NEW t \in Turns, BeginTurn(t)
    PROVE  /\ RollTypeOK'
           /\ row'[Turn(t)].status = "running"
           /\ \A y \in Rows : y # Turn(t) =>
                 row'[y].status = IF row[y].status \in Open THEN "interrupted"
                                  ELSE row[y].status
           /\ TaskOnly(Turn(t)) /\ task'[Turn(t)].at = "starting"
           /\ task'[Turn(t)].how = task[Turn(t)].how
           /\ ToSet(born') = ToSet(born) \cup {Turn(t)}
           /\ chat'.thread = chat.thread
  <1> DEFINE fresh == [status |-> "running", thread |-> chat.thread, tries |-> 0]
             cut(y) == [row[y] EXCEPT !.status = "interrupted"]
  <1>1. Turn(t) \in Rows /\ Turn(t) \notin ToSet(born)
    BY RowMembers DEF BeginTurn, BornOnce
  <1>2. fresh \in RowType /\ fresh.status = "running"
    BY Typed, Labels, RowRecords, ContextRolloverAssumption
  <1>3. \A y \in Rows : cut(y) \in RowType /\ cut(y).status = "interrupted"
    BY Typed, Labels, RowRecords
  <1>4. \A y \in Rows : row'[y] = IF y = Turn(t) THEN fresh
                                  ELSE IF row[y].status \in Open THEN cut(y) ELSE row[y]
    BY DEF BeginTurn, ActiveRows
  <1>5. row' = [y \in Rows |-> row'[y]]
    BY DEF BeginTurn
  <1> HIDE DEF fresh, cut
  <1>6. RowsTyped
    BY <1>2, <1>3, <1>4, <1>5, Typed DEF RowsTyped
  <1>7. TasksTyped /\ TaskOnly(Turn(t)) /\ task'[Turn(t)].at = "starting"
        /\ task'[Turn(t)].how = task[Turn(t)].how
    BY <1>1, SetTask, Names DEF BeginTurn
  <1>8. /\ born' \in Seq(Rows) /\ IsInjective(born')
        /\ ToSet(born') = ToSet(born) \cup {Turn(t)}
    BY <1>1, Typed, AppendOnce DEF BeginTurn
  <1>9. chat' \in ChatType /\ chat'.thread = chat.thread
    BY SetChat DEF BeginTurn
  <1>10. said' \in [Turns -> {"none", "kept", "renamed", "lost"}]
         /\ raced' \subseteq {"turn", "report"}
    BY DEF BeginTurn, RollTypeOK
  <1>11. RollTypeOK'
    BY <1>6, <1>7, <1>8, <1>9, <1>10 DEF BeginTurn, RollTypeOK, RowsTyped, TasksTyped
  <1> QED BY <1>1, <1>2, <1>3, <1>4, <1>7, <1>8, <1>9, <1>11

\* Register entry by entry.
LEMMA RegisterEffect ==
    ASSUME RollTypeOK, NEW x \in Rows, Register(x)
    PROVE  /\ RollTypeOK'
           /\ TaskOnly(x) /\ task'[x].at = "live" /\ task'[x].how = task[x].how
  <1>1. TasksTyped /\ TaskOnly(x) /\ task'[x].at = "live" /\ task'[x].how = task[x].how
    BY SetTask, Names DEF Register
  <1> QED BY <1>1 DEF Register, RollTypeOK, TasksTyped

\* StartFails entry by entry.
LEMMA StartFailsEffect ==
    ASSUME RollTypeOK, NEW x \in Rows, StartFails(x)
    PROVE  /\ RollTypeOK'
           /\ RowOnly(x) /\ row'[x].status = "failed"
           /\ TaskOnly(x) /\ task'[x].at = "failing" /\ task'[x].how = task[x].how
           /\ \A c \in Calls :
                 /\ roll'[c].state = IF Compact(c) = x /\ roll[c].state = "starting"
                                     THEN "failed" ELSE roll[c].state
                 /\ roll'[c].candidate = roll[c].candidate
  <1>1. RowsTyped /\ RowOnly(x) /\ row'[x].status = "failed"
    BY SetStatus, Names DEF StartFails
  <1>2. TasksTyped /\ TaskOnly(x) /\ task'[x].at = "failing" /\ task'[x].how = task[x].how
    BY SetTask, Names DEF StartFails
  <1>3. /\ roll' = [c \in Calls |-> roll'[c]]
        /\ \A c \in Calls : roll'[c] = IF Compact(c) = x /\ roll[c].state = "starting"
                                       THEN [roll[c] EXCEPT !.state = "failed"]
                                       ELSE roll[c]
    BY DEF StartFails
  <1>4. \A c \in Calls : LET s == [roll[c] EXCEPT !.state = "failed"]
                         IN s \in RollType /\ s.state = "failed" /\ s.candidate = roll[c].candidate
    BY Typed, Labels, RollRecords
  <1>5. /\ RollsTyped
        /\ \A c \in Calls :
                 /\ roll'[c].state = IF Compact(c) = x /\ roll[c].state = "starting"
                                     THEN "failed" ELSE roll[c].state
                 /\ roll'[c].candidate = roll[c].candidate
    BY <1>3, <1>4, Typed DEF RollsTyped
  <1>6. RollTypeOK'
    BY <1>1, <1>2, <1>5 DEF StartFails, RollTypeOK, RowsTyped, TasksTyped, RollsTyped
  <1> QED BY <1>1, <1>2, <1>5, <1>6

\* StartFailed entry by entry.
LEMMA StartFailedEffect ==
    ASSUME RollTypeOK, NEW x \in Rows, StartFailed(x)
    PROVE  /\ RollTypeOK'
           /\ TaskOnly(x) /\ task'[x].at = "none" /\ task'[x].how = "none"
           /\ chat'.thread = chat.thread
  <1>1. TasksTyped /\ TaskOnly(x) /\ task'[x].at = "none" /\ task'[x].how = "none"
    BY PutTask, Names DEF StartFailed
  <1>2. chat' \in ChatType /\ chat'.thread = chat.thread
    BY SetChat DEF StartFailed
  <1> QED BY <1>1, <1>2 DEF StartFailed, RollTypeOK, TasksTyped

\* Provider entry by entry.
LEMMA ProviderEffect ==
    ASSUME RollTypeOK, NEW x \in Rows, ProviderEnds(x) \/ ProviderStopped(x)
    PROVE  /\ RollTypeOK'
           /\ TaskOnly(x) /\ task'[x].at = "ending"
           /\ task'[x].how \in {"completed", "failed", "aborted"}
  <1>1. PICK how \in {"completed", "failed", "aborted"} :
            task' = [task EXCEPT ![x] = [at |-> "ending", how |-> how]]
    BY DEF ProviderEnds, ProviderStopped
  <1>2. TasksTyped /\ TaskOnly(x) /\ task'[x].at = "ending" /\ task'[x].how = how
    BY <1>1, PutTask, Names
  <1> QED BY <1>2 DEF ProviderEnds, ProviderStopped, RollTypeOK, TasksTyped

\* Thread entry by entry.
LEMMA ThreadEffect ==
    ASSUME RollTypeOK, NEW x \in Rows, ThreadChecked(x) \/ ThreadWritten(x)
    PROVE  /\ RollTypeOK'
           /\ \A y \in Rows : row'[y].status = row[y].status
  <1>1. ReportedThread(x) \in Threads
    BY Typed, RowRecords, Names DEF ReportedThread, NewThread
  <1>2. CASE ThreadChecked(x)
    BY <1>2 DEF ThreadChecked, RollTypeOK
  <1>3. CASE ThreadWritten(x)
    <2>1. RowsTyped /\ \A y \in Rows : row'[y].status = row[y].status
      BY <1>1, <1>3, SetThread DEF ThreadWritten
    <2>2. chat' \in ChatType
      BY <1>1, <1>3, SetChat DEF ThreadWritten
    <2> QED BY <1>3, <2>1, <2>2 DEF ThreadWritten, RollTypeOK, RowsTyped
  <1> QED BY <1>2, <1>3

\* Stage entry by entry.
LEMMA StageEffect ==
    ASSUME RollTypeOK, NEW c \in Calls, StageCandidate(c)
    PROVE  /\ RollTypeOK'
           /\ \A y \in Rows : row'[y].status = row[y].status
           /\ RollOnly(c) /\ roll'[c].state = roll[c].state /\ roll'[c].candidate # NoThread
  <1>1. NewThread(Compact(c)) \in Threads /\ NewThread(Compact(c)) # NoThread
        /\ Compact(c) \in Rows
    BY Names, RowMembers DEF NewThread
  <1>2. RowsTyped /\ \A y \in Rows : row'[y].status = row[y].status
    BY <1>1, SetThread DEF StageCandidate
  <1>3. LET s == [roll[c] EXCEPT !.candidate = NewThread(Compact(c))]
        IN  s \in RollType /\ s.state = roll[c].state /\ s.candidate = NewThread(Compact(c))
    BY <1>1, Typed, RollRecords
  <1>4. roll' = [roll EXCEPT ![c] = [roll[c] EXCEPT !.candidate = NewThread(Compact(c))]]
    BY DEF StageCandidate
  <1>5. /\ RollsTyped /\ RollOnly(c) /\ roll'[c].state = roll[c].state
        /\ roll'[c].candidate # NoThread
    BY <1>1, <1>3, <1>4, Updated DEF RollTypeOK, RollsTyped, RollOnly
  <1>6. RollTypeOK'
    BY <1>2, <1>5 DEF StageCandidate, RollTypeOK, RowsTyped, RollsTyped
  <1> QED BY <1>2, <1>5, <1>6

\* Read entry by entry.
LEMMA ReadEffect ==
    ASSUME RollTypeOK, BornOnce, NEW c \in Calls, NEW t \in Turns \cup {NoTurn},
           NEW x \in Rows \cup {NoRow}, ReadChat(c, t, x)
    PROVE  /\ RollTypeOK'
           /\ CallOnly(c) /\ call'[c].at = "read" /\ call'[c].turn = t
           /\ call'[c].source = x
           /\ call'[c].seen = {u \in Turns : said[u] \in {"kept", "renamed"}}
           /\ born' = Append(born, Compact(c)) /\ Compact(c) \notin ToSet(born)
           /\ ToSet(born') = ToSet(born) \cup {Compact(c)}
  <1> DEFINE seen == {u \in Turns : said[u] \in {"kept", "renamed"}}
             r == [at |-> "read", turn |-> t, source |-> x, seen |-> seen,
                   from |-> chat.thread]
  <1>1. r \in CallType /\ r.at = "read" /\ r.turn = t /\ r.source = x /\ r.seen = seen
    BY Typed, CallRecords
  <1>2. call' = [call EXCEPT ![c] = r]
    BY DEF ReadChat
  <1> HIDE DEF r
  <1>3. CallsTyped /\ CallOnly(c) /\ call'[c] = r
    BY <1>1, <1>2, Updated DEF RollTypeOK, CallsTyped, CallOnly
  <1>4. Compact(c) \in Rows /\ Compact(c) \notin ToSet(born)
        /\ born' = Append(born, Compact(c))
    BY RowMembers DEF ReadChat, BornOnce
  <1>5. /\ born' \in Seq(Rows) /\ IsInjective(born')
        /\ ToSet(born') = ToSet(born) \cup {Compact(c)}
    BY <1>4, Typed, AppendOnce
  <1>6. RollTypeOK'
    BY <1>3, <1>5 DEF ReadChat, RollTypeOK, CallsTyped
  <1> QED BY <1>1, <1>3, <1>4, <1>5, <1>6

\* Replace entry by entry.
LEMMA ReplaceEffect ==
    ASSUME RollTypeOK, NEW c \in Calls, ReplaceMessages(c)
    PROVE  /\ RollTypeOK' /\ CallOnly(c) /\ CallMoves(c, "replaced")
           /\ \A t \in Turns :
                 said'[t] = IF t \in call[c].seen
                            THEN IF t = call[c].turn /\ said[t] = "kept" THEN "kept"
                                 ELSE "renamed"
                            ELSE IF said[t] = "none" THEN "none" ELSE "lost"
  <1>1. CallsTyped /\ CallOnly(c) /\ CallMoves(c, "replaced")
    BY SetCall, Names DEF ReplaceMessages
  <1>2. said' \in [Turns -> {"none", "kept", "renamed", "lost"}]
    BY DEF ReplaceMessages
  <1> QED BY <1>1, <1>2 DEF ReplaceMessages, RollTypeOK, CallsTyped

\* Prepare entry by entry.
LEMMA PrepareEffect ==
    ASSUME RollTypeOK, NEW c \in Calls, Prepare(c)
    PROVE  /\ RollTypeOK' /\ CallOnly(c)
           /\ \/ CallMoves(c, "over") /\ row' = row /\ roll' = roll
              \/ /\ CallMoves(c, "prepared")
                 /\ ~Known(c)
                 /\ Kind[c] = "manual" \/ row[call[c].source].status = "failed"
                 /\ RollOnly(c) /\ roll'[c].state = "starting"
                 /\ row'[Compact(c)].status = "running"
                 /\ \A y \in Rows : y # Compact(c) =>
                       row'[y].status = IF y = call[c].source THEN "superseded"
                                        ELSE row[y].status
  <1> DEFINE manual == Kind[c] = "manual"
             source == call[c].source
             th == IF manual THEN call[c].from ELSE NoThread
             fresh == [status |-> "running", tries |-> 0, thread |-> th]
             old(y) == [row[y] EXCEPT !.status = "superseded"]
             new == [state |-> "starting", from |-> call[c].from, candidate |-> th]
  <1>1. CASE Known(c) \/ (~manual /\ row[source].status # "failed")
    <2>1. CallsTyped /\ CallOnly(c) /\ CallMoves(c, "over") /\ row' = row /\ roll' = roll
      BY <1>1, SetCall, Names DEF Prepare
    <2> QED BY <2>1 DEF Prepare, RollTypeOK, CallsTyped
  <1>2. CASE ~(Known(c) \/ (~manual /\ row[source].status # "failed"))
    <2>1. CallsTyped /\ CallOnly(c) /\ CallMoves(c, "prepared")
      BY <1>2, SetCall, Names DEF Prepare
    <2>2. th \in Threads
      BY Typed, Names
    <2>3. fresh \in RowType /\ fresh.status = "running"
      BY <2>2, Labels, RowRecords, ContextRolloverAssumption
    <2>4. \A y \in Rows : old(y) \in RowType /\ old(y).status = "superseded"
      BY Typed, Labels, RowRecords
    <2>5. /\ row' = [y \in Rows |-> row'[y]]
          /\ \A y \in Rows : row'[y] = IF y = Compact(c) THEN fresh
                                       ELSE IF y = source THEN old(y) ELSE row[y]
      BY <1>2 DEF Prepare
    <2>6. new \in RollType /\ new.state = "starting"
      BY <2>2, Typed, Names, RollRecords
    <2>7. roll' = [roll EXCEPT ![c] = new]
      BY <1>2 DEF Prepare
    <2> HIDE DEF fresh, old, new, th
    <2>8. RollsTyped /\ RollOnly(c) /\ roll'[c].state = "starting"
      BY <2>6, <2>7, Updated DEF RollTypeOK, RollsTyped, RollOnly
    <2>9. RowsTyped
      BY <2>3, <2>4, <2>5, Typed DEF RowsTyped
    <2>10. RollTypeOK'
      BY <2>1, <2>8, <2>9 DEF Prepare, RollTypeOK, CallsTyped, RollsTyped, RowsTyped
    <2>11. row'[Compact(c)].status = "running"
      BY <2>3, <2>5, RowMembers
    <2> QED BY <1>2, <2>1, <2>4, <2>5, <2>8, <2>10, <2>11
  <1> QED BY <1>1, <1>2

\* Launch entry by entry.
LEMMA LaunchEffect ==
    ASSUME RollTypeOK, NEW c \in Calls, Launch(c)
    PROVE  /\ RollTypeOK' /\ CallOnly(c) /\ CallMoves(c, "over")
           /\ TaskOnly(Compact(c)) /\ task'[Compact(c)].at \in {"live", "starting"}
           /\ task'[Compact(c)].how = task[Compact(c)].how
           /\ chat'.thread = chat.thread
  <1>1. CallsTyped /\ CallOnly(c) /\ CallMoves(c, "over")
    BY SetCall, Names DEF Launch
  <1>2. /\ TasksTyped /\ TaskOnly(Compact(c)) /\ task'[Compact(c)].at \in {"live", "starting"}
        /\ task'[Compact(c)].how = task[Compact(c)].how
    <2>1. PICK v \in {"live", "starting"} : task' = [task EXCEPT ![Compact(c)].at = v]
      BY DEF Launch
    <2> QED BY <2>1, SetTask, Names, RowMembers
  <1>3. chat' \in ChatType /\ chat'.thread = chat.thread
    BY SetChat DEF Launch
  <1> QED BY <1>1, <1>2, <1>3 DEF Launch, RollTypeOK, CallsTyped, TasksTyped

\* The prompt is run again if the rollover was a retry and its message is there.
ToRunAgain(c) == Kind[c] = "retry" /\ said[call[c].turn] = "kept"

\* Activate entry by entry.
LEMMA ActivateEffect ==
    ASSUME RollTypeOK, BornOnce, NEW c \in Calls, CanComplete(c), Activate(c)
    PROVE  /\ RowsTyped /\ RollsTyped /\ chat' \in ChatType
           /\ born' \in Seq(Rows) /\ IsInjective(born')
           /\ raced' \subseteq {"turn", "report"}
           /\ RollOnly(c) /\ roll'[c].state = "active"
           /\ roll'[c].candidate = roll[c].candidate
           /\ chat'.thread = roll'[c].candidate
           /\ row'[Compact(c)].status = "completed"
           /\ ToRunAgain(c) => row'[Again(c)].status = "running"
           /\ \A y \in Rows : y # Compact(c) /\ (y # Again(c) \/ ~ToRunAgain(c))
                                 => row'[y].status = row[y].status
           /\ born' = IF ToRunAgain(c) THEN Append(born, Again(c)) ELSE born
           /\ ToSet(born') = ToSet(born) \cup (IF ToRunAgain(c) THEN {Again(c)} ELSE {})
  <1> DEFINE fresh == [status |-> "running", tries |-> 0, thread |-> roll[c].candidate]
             done == [row[Compact(c)] EXCEPT !.status = "completed"]
  <1>1. fresh \in RowType /\ fresh.status = "running"
    BY Labels, Typed, RowRecords, ContextRolloverAssumption
  <1>2. done \in RowType /\ done.status = "completed"
    BY Labels, Typed, RowRecords, RowMembers
  <1>3. /\ row' = [y \in Rows |-> row'[y]]
        /\ \A y \in Rows : row'[y] = IF y = Compact(c) THEN done
                                     ELSE IF ToRunAgain(c) /\ y = Again(c) THEN fresh
                                     ELSE row[y]
    BY DEF Activate, ToRunAgain
  <1> HIDE DEF fresh, done
  <1>4. RowsTyped
    BY <1>1, <1>2, <1>3, Typed DEF RowsTyped
  <1>5. /\ row'[Compact(c)].status = "completed"
        /\ ToRunAgain(c) => row'[Again(c)].status = "running"
        /\ \A y \in Rows : y # Compact(c) /\ (y # Again(c) \/ ~ToRunAgain(c))
                                 => row'[y].status = row[y].status
    BY <1>1, <1>2, <1>3, RowMembers, RowKinds
  <1>6. /\ RollsTyped /\ RollOnly(c) /\ roll'[c].state = "active"
        /\ roll'[c].candidate = roll[c].candidate
    BY SetRoll, Names DEF Activate
  <1>7. chat' \in ChatType /\ chat'.thread = roll'[c].candidate
    BY <1>6, Typed, ChatRecords DEF Activate
  <1>8. Again(c) \notin ToSet(born)
    BY DEF BornOnce, CanComplete
  <1>9. born' = IF ToRunAgain(c) THEN Append(born, Again(c)) ELSE born
    BY DEF Activate, ToRunAgain
  <1>10. /\ born' \in Seq(Rows) /\ IsInjective(born')
         /\ ToSet(born') = ToSet(born) \cup (IF ToRunAgain(c) THEN {Again(c)} ELSE {})
    BY <1>8, <1>9, Typed, AppendOnce, RowMembers
  <1>11. raced' \subseteq {"turn", "report"}
    BY DEF Activate, RollTypeOK
  <1> QED BY <1>4, <1>5, <1>6, <1>7, <1>9, <1>10, <1>11

\* FinishCompact entry by entry.
LEMMA FinishCompactEffect ==
    ASSUME RollTypeOK, BornOnce, NEW c \in Calls, FinishCompact(c)
    PROVE  /\ RollTypeOK'
           /\ TaskOnly(Compact(c)) /\ task'[Compact(c)].at = "deactivate"
           /\ \/ /\ CanComplete(c) /\ Activate(c) /\ task'[Compact(c)].how = "activated"
              \/ /\ FailRoll(c) /\ UNCHANGED <<chat, row, born, raced>>
                 /\ task'[Compact(c)].how \in {"failed", "aborted"}
  <1> DEFINE x == Compact(c)
             how == IF task[x].how = "aborted" THEN "aborted" ELSE "failed"
  <1>1. CASE task[x].how = "completed" /\ CanComplete(c)
    <2>1. Activate(c) /\ task' = [task EXCEPT ![x] = [at |-> "deactivate", how |-> "activated"]]
      BY <1>1 DEF FinishCompact
    <2>2. /\ TasksTyped /\ TaskOnly(x) /\ task'[x].at = "deactivate"
          /\ task'[x].how = "activated"
      BY <2>1, PutTask, Names, RowMembers
    <2>3. RollTypeOK'
      BY <1>1, <2>1, <2>2, ActivateEffect
      DEF FinishCompact, RollTypeOK, RowsTyped, RollsTyped, TasksTyped
    <2> QED BY <1>1, <2>1, <2>2, <2>3
  <1>2. CASE ~(task[x].how = "completed" /\ CanComplete(c))
    <2>1. /\ FailRoll(c) /\ UNCHANGED <<chat, row, born, raced>>
          /\ task' = [task EXCEPT ![x] = [at |-> "deactivate", how |-> how]]
      BY <1>2 DEF FinishCompact
    <2>2. TasksTyped /\ TaskOnly(x) /\ task'[x].at = "deactivate" /\ task'[x].how = how
      BY <2>1, PutTask, Names, RowMembers
    <2>3. RollTypeOK'
      BY <2>1, <2>2, FailRollEffect DEF FinishCompact, RollTypeOK, RollsTyped, TasksTyped
    <2> QED BY <2>1, <2>2, <2>3
  <1> QED BY <1>1, <1>2

\* Manual entry by entry.
LEMMA ManualEffect ==
    ASSUME RollTypeOK, BornOnce, NEW c \in Calls, ManualEnds(c)
    PROVE  /\ RollTypeOK'
           /\ TaskOnly(Compact(c)) /\ task'[Compact(c)].how = task[Compact(c)].how
           /\ \/ CanComplete(c) /\ Activate(c) /\ task'[Compact(c)].at = "none"
              \/ /\ FailRoll(c) /\ UNCHANGED <<chat, born, raced>>
                 /\ task'[Compact(c)].at = "failing"
                 /\ RowOnly(Compact(c)) /\ row'[Compact(c)].status = "failed"
  <1>1. CASE /\ CanComplete(c) /\ Activate(c)
             /\ task' = [task EXCEPT ![Compact(c)].at = "none"]
    <2>1. /\ TasksTyped /\ TaskOnly(Compact(c)) /\ task'[Compact(c)].at = "none"
          /\ task'[Compact(c)].how = task[Compact(c)].how
      BY <1>1, SetTask, Names, RowMembers
    <2>2. RollTypeOK'
      BY <1>1, <2>1, ActivateEffect
      DEF ManualEnds, RollTypeOK, RowsTyped, RollsTyped, TasksTyped
    <2> QED BY <1>1, <2>1, <2>2
  <1>2. CASE /\ FailRoll(c) /\ row' = [row EXCEPT ![Compact(c)].status = "failed"]
             /\ task' = [task EXCEPT ![Compact(c)].at = "failing"]
             /\ UNCHANGED <<chat, born, raced>>
    <2>1. /\ TasksTyped /\ TaskOnly(Compact(c)) /\ task'[Compact(c)].at = "failing"
          /\ task'[Compact(c)].how = task[Compact(c)].how
      BY <1>2, SetTask, Names, RowMembers
    <2>2. RowsTyped /\ RowOnly(Compact(c)) /\ row'[Compact(c)].status = "failed"
      BY <1>2, SetStatus, Labels, RowMembers
    <2>3. RollTypeOK'
      BY <1>2, <2>1, <2>2, FailRollEffect
      DEF ManualEnds, RollTypeOK, RowsTyped, RollsTyped, TasksTyped
    <2> QED BY <1>2, <2>1, <2>2, <2>3
  <1> QED BY <1>1, <1>2 DEF ManualEnds

\* Finish entry by entry.
LEMMA FinishEffect ==
    ASSUME RollTypeOK, NEW x \in Rows, FinishAnswer(x) \/ FinishInactive(x)
    PROVE  /\ RollTypeOK' /\ TaskOnly(x) /\ task'[x].how = task[x].how
           /\ task'[x].at = IF task[x].at = "ending" THEN "deactivate" ELSE "terminal"
           /\ chat'.thread = chat.thread
  <1>1. chat' \in ChatType /\ chat'.thread = chat.thread
    BY SetChat DEF FinishAnswer, FinishInactive, RollTypeOK
  <1>2. /\ TasksTyped /\ TaskOnly(x) /\ task'[x].how = task[x].how
        /\ task'[x].at = IF task[x].at = "ending" THEN "deactivate" ELSE "terminal"
    <2>1. CASE FinishAnswer(x)
      <3>1. task[x].at = "ending" /\ task' = [task EXCEPT ![x].at = "deactivate"]
        BY <2>1 DEF FinishAnswer
      <3> QED BY <3>1, SetTask, Names
    <2>2. CASE FinishInactive(x)
      <3>1. task[x].at = "deactivate" /\ task' = [task EXCEPT ![x].at = "terminal"]
        BY <2>2 DEF FinishInactive
      <3>2. /\ TasksTyped /\ TaskOnly(x) /\ task'[x].how = task[x].how
            /\ task'[x].at = "terminal"
        BY <3>1, SetTask, Names
      <3> QED BY <3>1, <3>2
    <2> QED BY <2>1, <2>2
  <1>3. answered' \subseteq Rows
    BY DEF FinishAnswer, FinishInactive, RollTypeOK
  <1>4. /\ UNCHANGED <<mode, row, born, roll, said, call, attached, report, aborting, raced>>
    BY DEF FinishAnswer, FinishInactive
  <1> QED BY <1>1, <1>2, <1>3, <1>4 DEF RollTypeOK, TasksTyped

\* Terminal entry by entry.
LEMMA TerminalEffect ==
    ASSUME RollTypeOK, RowsAreSound, NEW x \in Rows, FinishTerminal(x)
    PROVE  /\ RollTypeOK'
           /\ TaskOnly(x) /\ task'[x].at = "release" /\ task'[x].how = task[x].how
           /\ RowOnly(x)
           /\ row'[x].status = IF task[x].how = "activated" THEN row[x].status
                               ELSE task[x].how
  <1>1. /\ TasksTyped /\ TaskOnly(x) /\ task'[x].at = "release"
        /\ task'[x].how = task[x].how
    BY SetTask, Names DEF FinishTerminal
  <1>2. task[x].how # "none"
    BY DEF FinishTerminal, RowsAreSound, RowShape
  <1>3. CASE task[x].how = "activated"
    BY <1>1, <1>3 DEF FinishTerminal, RollTypeOK, TasksTyped, RowOnly
  <1>4. CASE task[x].how # "activated"
    <2>1. task[x].how \in Statuses
      BY <1>2, <1>4, Typed, Names
    <2>2. row' = [row EXCEPT ![x].status = task[x].how]
      BY <1>4 DEF FinishTerminal
    <2>3. RowsTyped /\ RowOnly(x) /\ row'[x].status = task[x].how
      BY <2>1, <2>2, SetStatus
    <2>4. RollTypeOK'
      BY <1>1, <2>3 DEF FinishTerminal, RollTypeOK, TasksTyped, RowsTyped
    <2> QED BY <1>1, <1>4, <2>3, <2>4
  <1> QED BY <1>3, <1>4

\* Release entry by entry.
LEMMA ReleaseEffect ==
    ASSUME RollTypeOK, NEW x \in Rows, FinishRelease(x)
    PROVE  /\ RollTypeOK'
           /\ task'[x].at = "none" /\ task'[x].how = "none"
           /\ \A y \in Rows : y # x =>
                \/ task'[y] = task[y]
                \/ /\ task[x].how = "activated" /\ row[y].status # "none"
                   /\ \E c \in Calls : x = Compact(c) /\ y = Again(c)
                   /\ task'[y].at = "starting" /\ task'[y].how = "none"
           /\ \A c \in Calls : /\ x = Compact(c) /\ task[x].how = "activated"
                               /\ row[Again(c)].status # "none"
                               => task'[Again(c)].at = "starting"
           /\ chat'.thread = chat.thread
  <1> DEFINE off == [at |-> "none", how |-> "none"]
             on == [at |-> "starting", how |-> "none"]
             Next(y) == /\ task[x].how = "activated"
                        /\ \E c \in Calls : x = Compact(c) /\ y = Again(c)
                        /\ row[y].status # "none"
  <1>1. /\ off \in TaskType /\ off.at = "none" /\ off.how = "none"
        /\ on \in TaskType /\ on.at = "starting" /\ on.how = "none"
    BY TaskRecords, Names
  <1>2. /\ task' = [y \in Rows |-> task'[y]]
        /\ \A y \in Rows : task'[y] = IF y = x THEN off
                                      ELSE IF Next(y) THEN on ELSE task[y]
    BY DEF FinishRelease
  <1> HIDE DEF off, on
  <1>3. TasksTyped
    BY <1>1, <1>2, Typed DEF TasksTyped
  <1>4. chat' \in ChatType /\ chat'.thread = chat.thread
    BY SetChat DEF FinishRelease, RollTypeOK
  <1>5. RollTypeOK'
    BY <1>3, <1>4 DEF FinishRelease, RollTypeOK, TasksTyped
  <1>6. task'[x].at = "none" /\ task'[x].how = "none"
    BY <1>1, <1>2
  <1>7. \A y \in Rows : y # x => \/ task'[y] = task[y]
                                 \/ Next(y) /\ task'[y].at = "starting" /\ task'[y].how = "none"
    BY <1>1, <1>2
  <1>8. \A c \in Calls : /\ x = Compact(c) /\ task[x].how = "activated"
                         /\ row[Again(c)].status # "none"
                         => task'[Again(c)].at = "starting"
    BY <1>1, <1>2, RowMembers, RowKinds
  <1> QED BY <1>4, <1>5, <1>6, <1>7, <1>8

\* Abort entry by entry.
LEMMA AbortEffect ==
    ASSUME RollTypeOK, Abort
    PROVE  /\ RollTypeOK' /\ chat'.thread = chat.thread
           /\ \A x \in aborting' : row[x].status # "none"
  <1>1. chat' \in ChatType /\ chat'.thread = chat.thread
    BY SetChat DEF Abort, RollTypeOK
  <1>2. aborting' \subseteq Rows /\ \A x \in aborting' : row[x].status # "none"
    BY Names DEF Abort, ActiveRows
  <1>3. attached' \in Rows \cup {NoRow}
    BY DEF Abort, RollTypeOK
  <1> QED BY <1>1, <1>2, <1>3 DEF Abort, RollTypeOK

\* AbortMark entry by entry.
LEMMA AbortMarkEffect ==
    ASSUME RollTypeOK, NEW x \in Rows, AbortMark(x)
    PROVE  /\ RollTypeOK' /\ chat'.thread = chat.thread
           /\ RowOnly(x) /\ row'[x].status = "aborted"
  <1>1. RowsTyped /\ RowOnly(x) /\ row'[x].status = "aborted"
    BY SetStatus, Names DEF AbortMark
  <1>2. chat' \in ChatType /\ chat'.thread = chat.thread
    BY SetChat DEF AbortMark, RollTypeOK
  <1>3. aborting' \subseteq Rows
    BY DEF AbortMark, RollTypeOK
  <1> QED BY <1>1, <1>2, <1>3 DEF AbortMark, RollTypeOK, RowsTyped

\* Die entry by entry.
LEMMA DieEffect ==
    ASSUME RollTypeOK, Die
    PROVE  /\ RollTypeOK'
           /\ \A x \in Rows : task'[x].at = "none" /\ task'[x].how = "none"
           /\ \A c \in Calls : CallMoves(c, IF call[c].at = "none" THEN "none" ELSE "over")
           /\ mode'.at = "down" /\ mode'.rows = {}
  <1> DEFINE off == [at |-> "none", how |-> "none"]
             over(c) == [call[c] EXCEPT !.at = "over"]
  <1>1. off \in TaskType /\ off.at = "none" /\ off.how = "none"
    BY TaskRecords, Names
  <1>2. \A c \in Calls : /\ over(c) \in CallType /\ over(c).at = "over"
                         /\ over(c).turn = call[c].turn
                         /\ over(c).source = call[c].source /\ over(c).seen = call[c].seen
    BY Typed, Names, CallRecords
  <1>3. /\ task' = [x \in Rows |-> off]
        /\ call' = [c \in Calls |-> call'[c]]
        /\ \A c \in Calls : call'[c] = IF call[c].at = "none" THEN call[c] ELSE over(c)
    BY DEF Die
  <1> HIDE DEF off, over
  <1>4. TasksTyped /\ \A x \in Rows : task'[x].at = "none" /\ task'[x].how = "none"
    BY <1>1, <1>3 DEF TasksTyped
  <1>5. CallsTyped /\ \A c \in Calls :
                         CallMoves(c, IF call[c].at = "none" THEN "none" ELSE "over")
    BY <1>2, <1>3, Typed DEF CallsTyped, CallMoves
  <1>6. mode' \in ModeType /\ mode'.at = "down" /\ mode'.rows = {}
    BY ContextRolloverAssumption DEF Die, ModeType, RollTypeOK
  <1>7. RollTypeOK'
    BY <1>4, <1>5, <1>6 DEF Die, RollTypeOK, TasksTyped, CallsTyped
  <1> QED BY <1>4, <1>5, <1>6, <1>7

\* Only manual rollovers whose run is over are failed.
LEMMA ReconciledEffect ==
    ASSUME RollTypeOK, roll' = Reconciled
    PROVE  /\ RollsTyped
           /\ \A c \in Calls :
                 /\ roll'[c].candidate = roll[c].candidate
                 /\ \/ roll'[c].state = roll[c].state
                    \/ /\ Kind[c] = "manual" /\ roll[c].state = "starting"
                       /\ row[Compact(c)].status \notin Open
                       /\ roll'[c].state = "failed"
  <1> DEFINE failed(c) == [roll[c] EXCEPT !.state = "failed"]
  <1>1. \A c \in Calls : /\ failed(c) \in RollType /\ failed(c).state = "failed"
                         /\ failed(c).candidate = roll[c].candidate
    BY Typed, Labels, RollRecords
  <1>2. /\ roll' = [c \in Calls |-> roll'[c]]
        /\ \A c \in Calls : \/ roll'[c] = roll[c]
                            \/ /\ Kind[c] = "manual" /\ roll[c].state = "starting"
                               /\ row[Compact(c)].status \notin Open
                               /\ roll'[c] = failed(c)
    BY DEF Reconciled
  <1> HIDE DEF failed
  <1>3. RollsTyped
    BY <1>1, <1>2, Typed DEF RollsTyped
  <1> QED BY <1>1, <1>2, <1>3

\* Boot entry by entry.
LEMMA BootEffect ==
    ASSUME RollTypeOK, Restart \/ Recovered
    PROVE  /\ RollTypeOK'
           /\ chat'.thread = chat.thread
           /\ mode'.at \in {"up", "recovering"}
           /\ \A x \in mode'.rows : row[x].status \in Open
           /\ mode'.rows # {} => mode'.at = "recovering"
  <1>1. RollsTyped
    BY ReconciledEffect DEF Restart, Recovered
  <1>2. chat' \in ChatType /\ chat'.thread = chat.thread
    BY SetChat DEF Restart, Recovered, RollTypeOK
  <1>3. CASE Restart
    <2>1. /\ mode' \in ModeType /\ mode'.at = "recovering" /\ mode'.rows = ActiveRows
      <3>1. mode' = [mode EXCEPT !.at = "recovering", !.rows = ActiveRows]
        BY <1>3 DEF Restart
      <3>2. mode \in ModeType /\ ActiveRows \in SUBSET Rows
        BY DEF RollTypeOK, ActiveRows
      <3> QED BY <3>1, <3>2 DEF ModeType
    <2>2. RollTypeOK'
      BY <1>1, <1>2, <1>3, <2>1 DEF Restart, RollTypeOK, RollsTyped
    <2> QED BY <1>2, <2>1, <2>2 DEF ActiveRows
  <1>4. CASE Recovered
    <2>1. /\ mode' \in ModeType /\ mode'.at = "up" /\ mode'.rows = {}
      BY <1>4, ModeRecords DEF Recovered, RollTypeOK
    <2>2. RollTypeOK'
      BY <1>1, <1>2, <1>4, <2>1 DEF Recovered, RollTypeOK, RollsTyped
    <2> QED BY <1>2, <2>1, <2>2
  <1> QED BY <1>3, <1>4

\* RecoverNot entry by entry.
LEMMA RecoverNotEffect ==
    ASSUME RollTypeOK, NEW x \in Rows, RecoverNot(x)
    PROVE  /\ RollTypeOK'
           /\ RowOnly(x) /\ row'[x].status = "interrupted"
           /\ mode'.at = mode.at /\ mode'.rows = mode.rows \ {x}
  <1>1. RowsTyped /\ RowOnly(x) /\ row'[x].status = "interrupted"
    BY SetStatus, Labels DEF RecoverNot
  <1>2. mode' \in ModeType /\ mode'.at = mode.at /\ mode'.rows = mode.rows \ {x}
    <2>1. mode' = [mode EXCEPT !.rows = mode.rows \ {x}]
      BY DEF RecoverNot
    <2>2. mode \in ModeType /\ mode.rows \ {x} \in SUBSET Rows
      BY Typed DEF RollTypeOK
    <2> QED BY <2>1, <2>2 DEF ModeType
  <1> QED BY <1>1, <1>2 DEF RecoverNot, RollTypeOK, RowsTyped

\* RecoverRow entry by entry.
LEMMA RecoverRowEffect ==
    ASSUME RollTypeOK, NEW x \in Rows, RecoverRow(x)
    PROVE  /\ RollTypeOK'
           /\ chat'.thread = chat.thread
           /\ RowOnly(x) /\ mode'.at = mode.at /\ mode'.rows = {}
           /\ \/ row'[x].status \in {"completed", "failed"} /\ task' = task
              \/ /\ row'[x].status = "recovering"
                 /\ TaskOnly(x) /\ task'[x].at = "starting" /\ task'[x].how = task[x].how
  <1> DEFINE next(v) == [row[x] EXCEPT !.tries = row[x].tries + 1, !.status = v]
  <1>1. \A v \in Statuses : next(v) \in RowType /\ next(v).status = v
    <2>1. row[x] \in RowType
      BY Typed
    <2>2. row[x].tries < MaxRecoveries
      BY DEF RecoverRow
    <2> HIDE DEF RollTypeOK
    <2>3. row[x].tries + 1 \in 0..MaxRecoveries
      BY <2>1, <2>2, ContextRolloverAssumption DEF RowType
    <2> QED BY <2>1, <2>3 DEF RowType
  <1>2. PICK v \in {"completed", "failed", "recovering"} :
            /\ row' = [row EXCEPT ![x] = next(v)]
            /\ v \in {"completed", "failed"} => task' = task
            /\ v = "recovering" => task' = [task EXCEPT ![x].at = "starting"]
    BY Zenon DEF RecoverRow
  <1>3. RowsTyped /\ RowOnly(x) /\ row'[x].status = v
    <2>1. v \in Statuses /\ row \in [Rows -> RowType]
      BY Labels DEF RollTypeOK
    <2>2. next(v) \in RowType /\ next(v).status = v
      BY <1>1, <2>1
    <2> HIDE DEF next
    <2> QED BY <1>2, <2>1, <2>2, Updated DEF RowsTyped, RowOnly
  <1>4. mode' \in ModeType /\ mode'.at = mode.at /\ mode'.rows = {}
    <2>1. mode' = [mode EXCEPT !.rows = {}]
      BY DEF RecoverRow
    <2>2. mode \in ModeType /\ {} \in SUBSET Rows
      BY DEF RollTypeOK
    <2> QED BY <2>1, <2>2 DEF ModeType
  <1>5. chat' \in ChatType /\ chat'.thread = chat.thread
    BY SetChat DEF RecoverRow, RollTypeOK
  <1>6. CASE v = "recovering"
    <2>1. /\ TasksTyped /\ TaskOnly(x) /\ task'[x].at = "starting"
          /\ task'[x].how = task[x].how
      BY <1>2, <1>6, SetTask, Names
    <2>2. RollTypeOK'
      BY <1>3, <1>4, <1>5, <2>1 DEF RecoverRow, RollTypeOK, RowsTyped, TasksTyped
    <2> QED BY <1>3, <1>4, <1>5, <1>6, <2>1, <2>2
  <1>7. CASE v # "recovering"
    <2>1. task' = task /\ v \in {"completed", "failed"}
      BY <1>2, <1>7
    <2>2. RollTypeOK'
      BY <1>3, <1>4, <1>5, <2>1 DEF RecoverRow, RollTypeOK, RowsTyped
    <2> QED BY <1>3, <1>4, <1>5, <2>1, <2>2
  <1> QED BY <1>6, <1>7

-----------------------------------------------------------------------------
(* Rows and handlers stay sound.                                             *)
LEMMA StagedKinds ==
    /\ \A t \in Turns : ~Staged(Turn(t)) /\ ~Staged(Turn(t))'
    /\ \A c \in Calls :
          /\ Staged(Compact(c)) <=> call[c].at = "prepared"
          /\ Staged(Compact(c))' <=> call'[c].at = "prepared"
          /\ Staged(Again(c)) <=> /\ row[Again(c)].status # "none"
                                  /\ task[Compact(c)].how = "activated"
          /\ Staged(Again(c))' <=> /\ row'[Again(c)].status # "none"
                                   /\ task'[Compact(c)].how = "activated"
  <1>1. \A t \in Turns : ~Staged(Turn(t)) /\ ~Staged(Turn(t))'
    BY RowKinds DEF Staged
  <1>2. ASSUME NEW c \in Calls
        PROVE  /\ Staged(Compact(c)) <=> call[c].at = "prepared"
               /\ Staged(Compact(c))' <=> call'[c].at = "prepared"
    BY RowKinds DEF Staged
  <1>3. ASSUME NEW c \in Calls
        PROVE  /\ Staged(Again(c)) <=> /\ row[Again(c)].status # "none"
                                       /\ task[Compact(c)].how = "activated"
               /\ Staged(Again(c))' <=> /\ row'[Again(c)].status # "none"
                                        /\ task'[Compact(c)].how = "activated"
    BY RowKinds DEF Staged
  <1> QED BY <1>1, <1>2, <1>3

\* Which rows run the prompt of a turn, kind by kind.
LEMMA OwnsKinds ==
    \A t \in Turns :
        /\ \A u \in Turns : Owns(t, Turn(u)) <=> t = u
        /\ \A c \in Calls :
              /\ Owns(t, Compact(c)) <=>
                    Kind[c] = "retry" /\ call[c].at # "none" /\ call[c].turn = t
              /\ Owns(t, Again(c)) <=> Owns(t, Compact(c))
  <1> SUFFICES ASSUME NEW t \in Turns
               PROVE  /\ \A u \in Turns : Owns(t, Turn(u)) <=> t = u
                      /\ \A c \in Calls :
                            /\ Owns(t, Compact(c)) <=>
                                  Kind[c] = "retry" /\ call[c].at # "none" /\ call[c].turn = t
                            /\ Owns(t, Again(c)) <=> Owns(t, Compact(c))
    OBVIOUS
  <1>1. \A u \in Turns : Owns(t, Turn(u)) <=> t = u
    BY RowKinds DEF Owns
  <1>2. ASSUME NEW c \in Calls
        PROVE  /\ Owns(t, Compact(c)) <=>
                     Kind[c] = "retry" /\ call[c].at # "none" /\ call[c].turn = t
               /\ Owns(t, Again(c)) <=> Owns(t, Compact(c))
    BY RowKinds DEF Owns
  <1> QED BY <1>1, <1>2

\* BeginTurn keeps rows and handlers sound.
LEMMA BeginTurnShapes ==
    ASSUME IInv, NEW t \in Turns,
           BeginTurn(t)
    PROVE  RowsAreSound' /\ CallsAreSound'
  <1>1. /\ RollTypeOK /\ RowsAreSound /\ CallsAreSound /\ BornOnce /\ BootIsAlone
        /\ \A y \in Rows : RowShape(y)
        /\ \A d \in Calls : CallShape(d)
    BY DEF IInv, RowsAreSound, CallsAreSound
  <1>2. ASSUME NEW y \in Rows PROVE RowShape(y)'
    <2>1. row[Turn(t)].status = "none" /\ Turn(t) \in Rows
      BY <1>1, RowMembers DEF BornOnce, BeginTurn
    <2>2. task[Turn(t)].how = "none"
      BY <1>1, <2>1 DEF RowShape
    <2>3. CASE y = Turn(t)
      BY <2>2, <2>3, BeginTurnEffect, <1>1 DEF RowShape, Open
    <2>4. CASE y # Turn(t)
      <3>1. /\ row'[y].status = IF row[y].status \in Open THEN "interrupted"
                                ELSE row[y].status
            /\ task'[y] = task[y] /\ aborting' = aborting
        BY <2>4, BeginTurnEffect, <1>1 DEF TaskOnly, BeginTurn
      <3>2. Staged(y)' => Staged(y)
        <4>1. CASE \E u \in Turns : y = Turn(u)
          BY <4>1, StagedKinds
        <4>2. CASE \E c \in Calls : y = Compact(c)
          BY <4>2, StagedKinds DEF BeginTurn
        <4>3. ASSUME NEW c \in Calls, y = Again(c) PROVE Staged(y)' => Staged(y)
          <5>1. task'[Compact(c)] = task[Compact(c)]
            BY <2>1, BeginTurnEffect, <1>1, RowMembers, RowKinds DEF TaskOnly
          <5> QED BY <3>1, <4>3, <5>1, StagedKinds DEF Open
        <4> QED BY <4>1, <4>2, <4>3, RowMembers
      <3> QED BY <1>1, <3>1, <3>2 DEF RowShape, Open
    <2> QED BY <2>3, <2>4
  <1>3. ASSUME NEW d \in Calls PROVE CallShape(d)'
    <2>1. /\ Compact(d) # Turn(t) /\ Again(d) # Turn(t)
          /\ Compact(d) \in Rows /\ Again(d) \in Rows
      BY RowKinds, RowMembers
    <2>2. /\ row'[Compact(d)].status = IF row[Compact(d)].status \in Open
                                       THEN "interrupted" ELSE row[Compact(d)].status
          /\ row'[Again(d)].status = IF row[Again(d)].status \in Open
                                     THEN "interrupted" ELSE row[Again(d)].status
          /\ task'[Compact(d)] = task[Compact(d)] /\ task'[Again(d)] = task[Again(d)]
          /\ call' = call /\ roll' = roll
      BY <1>1, <2>1, BeginTurnEffect DEF TaskOnly, BeginTurn
    <2> QED BY <1>1, <2>2 DEF CallShape, Open
  <1> QED BY <1>2, <1>3 DEF RowsAreSound, CallsAreSound

\* Register keeps rows and handlers sound.
LEMMA RegisterShapes ==
    ASSUME IInv, NEW x \in Rows,
           Register(x)
    PROVE  RowsAreSound' /\ CallsAreSound'
  <1>1. /\ RollTypeOK /\ RowsAreSound /\ CallsAreSound /\ BornOnce /\ BootIsAlone
        /\ \A y \in Rows : RowShape(y)
        /\ \A d \in Calls : CallShape(d)
    BY DEF IInv, RowsAreSound, CallsAreSound
  <1>2. ASSUME NEW y \in Rows PROVE RowShape(y)'
    BY <1>1, RegisterEffect, Typed, RowMembers, RowKinds, StagedKinds
    DEF Register, RowShape, CallShape, TaskOnly, RowOnly, CallOnly, CallMoves, RollOnly, Open
  <1>3. ASSUME NEW d \in Calls PROVE CallShape(d)'
    BY <1>1, RegisterEffect, Typed, RowMembers, RowKinds, StagedKinds
    DEF Register, RowShape, CallShape, TaskOnly, RowOnly, CallOnly, CallMoves, RollOnly, Open
  <1> QED BY <1>2, <1>3 DEF RowsAreSound, CallsAreSound

\* StartFails keeps rows and handlers sound.
LEMMA StartFailsShapes ==
    ASSUME IInv, NEW x \in Rows,
           StartFails(x)
    PROVE  RowsAreSound' /\ CallsAreSound'
  <1>1. /\ RollTypeOK /\ RowsAreSound /\ CallsAreSound /\ BornOnce /\ BootIsAlone
        /\ \A y \in Rows : RowShape(y)
        /\ \A d \in Calls : CallShape(d)
    BY DEF IInv, RowsAreSound, CallsAreSound
  <1>2. ASSUME NEW y \in Rows PROVE RowShape(y)'
    <2>1. ~Staged(x)
      <3>1. CASE \E u \in Turns : x = Turn(u)
        BY <3>1, StagedKinds
      <3>2. CASE \E c \in Calls : x = Compact(c)
        BY <1>1, <3>2, StagedKinds DEF StartFails, CallShape
      <3>3. CASE \E c \in Calls : x = Again(c)
        BY <1>1, <3>3, StagedKinds DEF StartFails, CallShape
      <3> QED BY <3>1, <3>2, <3>3, RowMembers
    <2>2. \A c \in Calls : task'[Compact(c)].how = task[Compact(c)].how
      BY <1>1, StartFailsEffect, RowMembers DEF TaskOnly
    <2>3. row[x].status # "none"
      BY <1>1 DEF StartFails, RowShape
    <2>4. Staged(y)' => Staged(y)
      <3>1. \A c \in Calls : row'[Again(c)].status # "none" => row[Again(c)].status # "none"
        BY <1>1, <2>3, StartFailsEffect, RowMembers DEF RowOnly
      <3>2. call' = call
        BY DEF StartFails
      <3> QED BY <2>2, <3>1, <3>2, StagedKinds, RowMembers
    <2>5. CASE y = x
      <3>1. /\ row'[y].status = "failed" /\ task'[y].at = "failing"
            /\ task'[y].how = task[y].how /\ task[y].at = "starting"
        BY <1>1, <2>5, StartFailsEffect DEF StartFails
      <3> QED BY <1>1, <2>1, <2>4, <2>5, <3>1 DEF RowShape
    <2>6. CASE y # x
      <3>1. /\ row'[y].status = row[y].status /\ task'[y] = task[y]
            /\ aborting' = aborting
        BY <1>1, <2>6, StartFailsEffect DEF StartFails, RowOnly, TaskOnly
      <3> QED BY <1>1, <2>4, <3>1 DEF RowShape
    <2> QED BY <2>5, <2>6
  <1>3. ASSUME NEW d \in Calls PROVE CallShape(d)'
    BY <1>1, StartFailsEffect, Typed, RowMembers, RowKinds, StagedKinds
    DEF StartFails, RowShape, CallShape, TaskOnly, RowOnly, CallOnly, CallMoves, RollOnly, Open
  <1> QED BY <1>2, <1>3 DEF RowsAreSound, CallsAreSound

\* StartFailed keeps rows and handlers sound.
LEMMA StartFailedShapes ==
    ASSUME IInv, NEW x \in Rows,
           StartFailed(x)
    PROVE  RowsAreSound' /\ CallsAreSound'
  <1>1. /\ RollTypeOK /\ RowsAreSound /\ CallsAreSound /\ BornOnce /\ BootIsAlone
        /\ \A y \in Rows : RowShape(y)
        /\ \A d \in Calls : CallShape(d)
    BY DEF IInv, RowsAreSound, CallsAreSound
  <1>2. ASSUME NEW y \in Rows PROVE RowShape(y)'
    BY <1>1, StartFailedEffect, Typed, RowMembers, RowKinds, StagedKinds
    DEF StartFailed, RowShape, CallShape, TaskOnly, RowOnly, CallOnly, CallMoves, RollOnly, Open
  <1>3. ASSUME NEW d \in Calls PROVE CallShape(d)'
    BY <1>1, StartFailedEffect, Typed, RowMembers, RowKinds, StagedKinds
    DEF StartFailed, RowShape, CallShape, TaskOnly, RowOnly, CallOnly, CallMoves, RollOnly, Open
  <1> QED BY <1>2, <1>3 DEF RowsAreSound, CallsAreSound

\* Provider keeps rows and handlers sound.
LEMMA ProviderShapes ==
    ASSUME IInv, NEW x \in Rows,
           ProviderEnds(x) \/ ProviderStopped(x)
    PROVE  RowsAreSound' /\ CallsAreSound'
  <1>1. /\ RollTypeOK /\ RowsAreSound /\ CallsAreSound /\ BornOnce /\ BootIsAlone
        /\ \A y \in Rows : RowShape(y)
        /\ \A d \in Calls : CallShape(d)
    BY DEF IInv, RowsAreSound, CallsAreSound
  <1>2. ASSUME NEW y \in Rows PROVE RowShape(y)'
    BY <1>1, ProviderEffect, Typed, RowMembers, RowKinds, StagedKinds
    DEF ProviderEnds, ProviderStopped, RowShape, CallShape, TaskOnly, RowOnly, CallOnly, CallMoves, RollOnly, Open
  <1>3. ASSUME NEW d \in Calls PROVE CallShape(d)'
    BY <1>1, ProviderEffect, Typed, RowMembers, RowKinds, StagedKinds
    DEF ProviderEnds, ProviderStopped, RowShape, CallShape, TaskOnly, RowOnly, CallOnly, CallMoves, RollOnly, Open
  <1> QED BY <1>2, <1>3 DEF RowsAreSound, CallsAreSound

\* Thread keeps rows and handlers sound.
LEMMA ThreadShapes ==
    ASSUME IInv, NEW x \in Rows,
           ThreadChecked(x) \/ ThreadWritten(x)
    PROVE  RowsAreSound' /\ CallsAreSound'
  <1>1. /\ RollTypeOK /\ RowsAreSound /\ CallsAreSound /\ BornOnce /\ BootIsAlone
        /\ \A y \in Rows : RowShape(y)
        /\ \A d \in Calls : CallShape(d)
    BY DEF IInv, RowsAreSound, CallsAreSound
  <1>2. ASSUME NEW y \in Rows PROVE RowShape(y)'
    BY <1>1, ThreadEffect, Typed, RowMembers, RowKinds, StagedKinds
    DEF ThreadChecked, ThreadWritten, RowShape, CallShape, TaskOnly, RowOnly, CallOnly, CallMoves, RollOnly, Open
  <1>3. ASSUME NEW d \in Calls PROVE CallShape(d)'
    BY <1>1, ThreadEffect, Typed, RowMembers, RowKinds, StagedKinds
    DEF ThreadChecked, ThreadWritten, RowShape, CallShape, TaskOnly, RowOnly, CallOnly, CallMoves, RollOnly, Open
  <1> QED BY <1>2, <1>3 DEF RowsAreSound, CallsAreSound

\* Stage keeps rows and handlers sound.
LEMMA StageShapes ==
    ASSUME IInv, NEW c \in Calls,
           StageCandidate(c)
    PROVE  RowsAreSound' /\ CallsAreSound'
  <1>1. /\ RollTypeOK /\ RowsAreSound /\ CallsAreSound /\ BornOnce /\ BootIsAlone
        /\ \A y \in Rows : RowShape(y)
        /\ \A d \in Calls : CallShape(d)
    BY DEF IInv, RowsAreSound, CallsAreSound
  <1>2. ASSUME NEW y \in Rows PROVE RowShape(y)'
    BY <1>1, StageEffect, Typed, RowMembers, RowKinds, StagedKinds
    DEF StageCandidate, RowShape, CallShape, TaskOnly, RowOnly, CallOnly, CallMoves, RollOnly, Open
  <1>3. ASSUME NEW d \in Calls PROVE CallShape(d)'
    BY <1>1, StageEffect, Typed, RowMembers, RowKinds, StagedKinds
    DEF StageCandidate, RowShape, CallShape, TaskOnly, RowOnly, CallOnly, CallMoves, RollOnly, Open
  <1> QED BY <1>2, <1>3 DEF RowsAreSound, CallsAreSound

\* Read keeps rows and handlers sound.
LEMMA ReadShapes ==
    ASSUME IInv, NEW c \in Calls, NEW t \in Turns \cup {NoTurn},
           NEW x \in Rows \cup {NoRow},
           ReadChat(c, t, x),
           Kind[c] = "manual" => x = NoRow,
           Kind[c] = "retry" => t \in Turns /\ said[t] # "none"
    PROVE  RowsAreSound' /\ CallsAreSound'
  <1>1. /\ RollTypeOK /\ RowsAreSound /\ CallsAreSound /\ BornOnce /\ BootIsAlone
        /\ \A y \in Rows : RowShape(y)
        /\ \A d \in Calls : CallShape(d)
    BY DEF IInv, RowsAreSound, CallsAreSound
  <1>2. ASSUME NEW y \in Rows PROVE RowShape(y)'
    BY <1>1, ReadEffect, Typed, RowMembers, RowKinds, StagedKinds
    DEF ReadChat, RowShape, CallShape, TaskOnly, RowOnly, CallOnly, CallMoves, RollOnly, Open
  <1>3. ASSUME NEW d \in Calls PROVE CallShape(d)'
    BY <1>1, ReadEffect, Typed, RowMembers, RowKinds, StagedKinds
    DEF ReadChat, RowShape, CallShape, TaskOnly, RowOnly, CallOnly, CallMoves, RollOnly, Open
  <1> QED BY <1>2, <1>3 DEF RowsAreSound, CallsAreSound

\* Replace keeps rows and handlers sound.
LEMMA ReplaceShapes ==
    ASSUME IInv, NEW c \in Calls,
           ReplaceMessages(c)
    PROVE  RowsAreSound' /\ CallsAreSound'
  <1>1. /\ RollTypeOK /\ RowsAreSound /\ CallsAreSound /\ BornOnce /\ BootIsAlone
        /\ \A y \in Rows : RowShape(y)
        /\ \A d \in Calls : CallShape(d)
    BY DEF IInv, RowsAreSound, CallsAreSound
  <1>2. ASSUME NEW y \in Rows PROVE RowShape(y)'
    BY <1>1, ReplaceEffect, Typed, RowMembers, RowKinds, StagedKinds
    DEF ReplaceMessages, RowShape, CallShape, TaskOnly, RowOnly, CallOnly, CallMoves, RollOnly, Open
  <1>3. ASSUME NEW d \in Calls PROVE CallShape(d)'
    BY <1>1, ReplaceEffect, Typed, RowMembers, RowKinds, StagedKinds
    DEF ReplaceMessages, RowShape, CallShape, TaskOnly, RowOnly, CallOnly, CallMoves, RollOnly, Open
  <1> QED BY <1>2, <1>3 DEF RowsAreSound, CallsAreSound

\* Prepare keeps rows and handlers sound.
LEMMA PrepareShapes ==
    ASSUME IInv, NEW c \in Calls,
           Prepare(c)
    PROVE  RowsAreSound' /\ CallsAreSound'
  <1>1. /\ RollTypeOK /\ RowsAreSound /\ CallsAreSound /\ BornOnce /\ BootIsAlone
        /\ \A y \in Rows : RowShape(y)
        /\ \A d \in Calls : CallShape(d)
    BY DEF IInv, RowsAreSound, CallsAreSound
  <1>2. ASSUME NEW y \in Rows PROVE RowShape(y)'
    <2>1. CASE CallMoves(c, "over") /\ row' = row /\ roll' = roll
      <3>1. /\ task' = task /\ aborting' = aborting
            /\ \A d \in Calls : call'[d].at = call[d].at \/ call'[d].at = "over"
        BY <1>1, <2>1, PrepareEffect DEF CallMoves, CallOnly, Prepare
      <3>2. Staged(y)' => Staged(y)
        BY <2>1, <3>1, StagedKinds, RowMembers
      <3> QED BY <1>1, <2>1, <3>1, <3>2 DEF RowShape
    <2>2. CASE ~(CallMoves(c, "over") /\ row' = row /\ roll' = roll)
      <3>1. /\ CallOnly(c) /\ task' = task /\ aborting' = aborting
            /\ Kind[c] = "manual" \/ row[call[c].source].status = "failed"
            /\ row'[Compact(c)].status = "running"
            /\ \A z \in Rows : z # Compact(c) =>
                  row'[z].status = IF z = call[c].source THEN "superseded"
                                   ELSE row[z].status
        BY <1>1, <2>2, PrepareEffect DEF Prepare
      <3>2. task[Compact(c)].at = "none" /\ task[Compact(c)].how = "none"
        BY <1>1, RowMembers DEF Prepare, CallShape, RowShape
      <3>3. \A z \in Rows : z = call[c].source => row[z].status = "failed"
        BY <1>1, <3>1, RowMembers DEF CallShape
      <3>4. \A d \in Calls : /\ row'[Again(d)].status # "none" => row[Again(d)].status # "none"
                             /\ d # c => call'[d] = call[d]
        BY <3>1, <3>3, RowMembers, RowKinds DEF CallOnly
      <3>5. Staged(y)' => Staged(y) \/ y = Compact(c)
        <4>1. CASE \E u \in Turns : y = Turn(u)
          BY <4>1, StagedKinds
        <4>2. ASSUME NEW d \in Calls, y = Compact(d), d # c PROVE Staged(y)' => Staged(y)
          <5>1. call'[d] = call[d]
            BY <3>4, <4>2
          <5> QED BY <4>2, <5>1, StagedKinds
        <4>3. ASSUME NEW d \in Calls, y = Again(d) PROVE Staged(y)' => Staged(y)
          <5>1. row'[Again(d)].status # "none" => row[Again(d)].status # "none"
            BY <3>4
          <5> QED BY <3>1, <4>3, <5>1, StagedKinds
        <4> QED BY <4>1, <4>2, <4>3, RowMembers
      <3>6. CASE y = Compact(c)
        BY <1>1, <3>1, <3>2, <3>6 DEF RowShape
      <3>7. CASE y # Compact(c)
        BY <1>1, <3>1, <3>3, <3>5, <3>7 DEF RowShape
      <3> QED BY <3>6, <3>7
    <2> QED BY <2>1, <2>2
  <1>3. ASSUME NEW d \in Calls PROVE CallShape(d)'
    <2>1. CASE CallMoves(c, "over") /\ row' = row /\ roll' = roll
      <3>1. /\ call'[d].source = call[d].source /\ task' = task
            /\ call'[d].at = call[d].at \/ call'[d].at = "over"
        BY <1>1, <2>1, PrepareEffect DEF CallMoves, CallOnly, Prepare
      <3> QED BY <1>1, <2>1, <3>1 DEF CallShape
    <2>2. CASE ~(CallMoves(c, "over") /\ row' = row /\ roll' = roll)
      <3>1. /\ CallMoves(c, "prepared") /\ CallOnly(c) /\ task' = task
            /\ Kind[c] = "manual" \/ row[call[c].source].status = "failed"
            /\ RollOnly(c) /\ roll'[c].state = "starting"
            /\ row'[Compact(c)].status = "running"
            /\ \A y \in Rows : y # Compact(c) =>
                  row'[y].status = IF y = call[c].source THEN "superseded"
                                   ELSE row[y].status
        BY <1>1, <2>2, PrepareEffect DEF Prepare
      <3>2. roll[c].state = "none" /\ row[Again(c)].status = "none"
            /\ task[Compact(c)].at = "none" /\ task[Compact(c)].how = "none"
        BY <1>1, RowMembers DEF Prepare, CallShape, RowShape
      <3>3. \A y \in Rows : y = call[c].source => row[y].status = "failed"
        BY <1>1, <3>1, RowMembers DEF CallShape
      <3>4. /\ Again(d) # Compact(c) /\ Again(d) \in Rows /\ Compact(d) \in Rows
            /\ d # c => Compact(d) # Compact(c)
        BY RowKinds, RowMembers
      <3>5. /\ \/ row'[Again(d)].status = row[Again(d)].status
               \/ row[Again(d)].status = "failed" /\ row'[Again(d)].status = "superseded"
            /\ d # c => \/ row'[Compact(d)].status = row[Compact(d)].status
                        \/ /\ row[Compact(d)].status = "failed"
                           /\ row'[Compact(d)].status = "superseded"
        BY <3>1, <3>3, <3>4
      <3>6. CASE d = c
        BY <1>1, <3>1, <3>2, <3>5, <3>6 DEF CallShape, CallMoves
      <3>7. CASE d # c
        <4>1. call'[d] = call[d] /\ roll'[d] = roll[d]
          BY <3>1, <3>7 DEF CallOnly, RollOnly
        <4> QED BY <1>1, <3>1, <3>5, <3>7, <4>1 DEF CallShape, Open
      <3> QED BY <3>6, <3>7
    <2> QED BY <2>1, <2>2
  <1> QED BY <1>2, <1>3 DEF RowsAreSound, CallsAreSound

\* Launch keeps rows and handlers sound.
LEMMA LaunchShapes ==
    ASSUME IInv, NEW c \in Calls,
           Launch(c)
    PROVE  RowsAreSound' /\ CallsAreSound'
  <1>1. /\ RollTypeOK /\ RowsAreSound /\ CallsAreSound /\ BornOnce /\ BootIsAlone
        /\ \A y \in Rows : RowShape(y)
        /\ \A d \in Calls : CallShape(d)
    BY DEF IInv, RowsAreSound, CallsAreSound
  <1>2. ASSUME NEW y \in Rows PROVE RowShape(y)'
    BY <1>1, LaunchEffect, Typed, RowMembers, RowKinds, StagedKinds
    DEF Launch, RowShape, CallShape, TaskOnly, RowOnly, CallOnly, CallMoves, RollOnly, Open
  <1>3. ASSUME NEW d \in Calls PROVE CallShape(d)'
    <2>1. /\ CallOnly(c) /\ CallMoves(c, "over") /\ TaskOnly(Compact(c))
          /\ task'[Compact(c)].how = task[Compact(c)].how
          /\ row' = row /\ roll' = roll
      BY <1>1, LaunchEffect DEF Launch
    <2>2. /\ Again(d) # Compact(c) /\ Again(d) \in Rows /\ Compact(d) \in Rows
          /\ d # c => Compact(d) # Compact(c)
      BY RowKinds, RowMembers
    <2>3. CASE d = c
      <3>1. roll[c].state = "starting" /\ task[Compact(c)].how = "none"
        BY <1>1, RowMembers DEF Launch, CallShape, RowShape
      <3> QED BY <1>1, <2>1, <2>3, <3>1 DEF CallShape, CallMoves
    <2>4. CASE d # c
      <3>1. /\ call'[d] = call[d] /\ task'[Compact(d)] = task[Compact(d)]
            /\ task'[Again(d)] = task[Again(d)]
        BY <2>1, <2>2, <2>4 DEF CallOnly, TaskOnly
      <3> QED BY <1>1, <2>1, <3>1 DEF CallShape
    <2> QED BY <2>3, <2>4
  <1> QED BY <1>2, <1>3 DEF RowsAreSound, CallsAreSound

\* FinishCompact keeps rows and handlers sound.
LEMMA FinishCompactShapes ==
    ASSUME IInv, NEW c \in Calls,
           FinishCompact(c)
    PROVE  RowsAreSound' /\ CallsAreSound'
  <1>1. /\ RollTypeOK /\ RowsAreSound /\ CallsAreSound /\ BornOnce /\ BootIsAlone
        /\ \A y \in Rows : RowShape(y)
        /\ \A d \in Calls : CallShape(d)
    BY DEF IInv, RowsAreSound, CallsAreSound
  <1>2. ASSUME NEW y \in Rows PROVE RowShape(y)'
    BY <1>1, FinishCompactEffect, ActivateEffect, FailRollEffect, Typed, RowMembers, RowKinds, StagedKinds
    DEF FinishCompact, RowShape, CallShape, TaskOnly, RowOnly, CallOnly, CallMoves, RollOnly, Open
  <1>3. ASSUME NEW d \in Calls PROVE CallShape(d)'
    <2>1. /\ roll[c].state # "active" /\ roll[c].state # "none"
          /\ call[c].at \notin {"none", "read", "replaced", "prepared"}
          /\ row[Again(c)].status = "none" /\ task[Again(c)].at = "none"
          /\ row[Compact(c)].status # "none" /\ Kind[c] = "retry"
      BY <1>1, RowMembers DEF FinishCompact, CallShape, RowShape
    <2>2. /\ Again(d) # Compact(c) /\ Again(d) \in Rows /\ Compact(d) \in Rows
          /\ d # c => Compact(d) # Compact(c) /\ Again(d) # Again(c)
          /\ Compact(d) # Again(c)
      BY RowKinds, RowMembers
    <2>3. /\ call' = call /\ task'[Again(d)] = task[Again(d)]
          /\ d # c => task'[Compact(d)] = task[Compact(d)]
      BY <1>1, <2>2, FinishCompactEffect DEF TaskOnly, FinishCompact
    <2>4. CASE /\ CanComplete(c) /\ Activate(c) /\ task'[Compact(c)].how = "activated"
      <3>1. /\ RollOnly(c) /\ roll'[c].state = "active"
            /\ roll'[c].candidate = roll[c].candidate
            /\ row'[Compact(c)].status = "completed"
            /\ \A y \in Rows : y # Compact(c) /\ (y # Again(c) \/ ~ToRunAgain(c))
                                 => row'[y].status = row[y].status
        BY <1>1, <2>4, ActivateEffect
      <3>2. roll[c].candidate # NoThread
        BY <2>4 DEF CanComplete
      <3>3. CASE d = c
        BY <1>1, <2>1, <2>3, <2>4, <3>1, <3>2, <3>3 DEF CallShape, Open
      <3>4. CASE d # c
        <4>1. /\ row'[Compact(d)].status = row[Compact(d)].status
              /\ row'[Again(d)].status = row[Again(d)].status
          BY <2>2, <3>1, <3>4
        <4>2. roll'[d] = roll[d]
          BY <3>1, <3>4 DEF RollOnly
        <4> QED BY <1>1, <2>3, <3>4, <4>1, <4>2 DEF CallShape
      <3> QED BY <3>3, <3>4
    <2>5. CASE /\ FailRoll(c) /\ row' = row /\ task'[Compact(c)].how \in {"failed", "aborted"}
      <3>1. /\ RollOnly(c) /\ roll'[c].candidate = roll[c].candidate
            /\ roll'[c].state = IF roll[c].state = "starting" THEN "failed"
                               ELSE roll[c].state
        BY <1>1, <2>5, FailRollEffect
      <3>2. CASE d = c
        BY <1>1, <2>1, <2>3, <2>5, <3>1, <3>2 DEF CallShape
      <3>3. CASE d # c
        BY <1>1, <2>3, <2>5, <3>1, <3>3 DEF CallShape, RollOnly
      <3> QED BY <3>2, <3>3
    <2> QED BY <1>1, <2>4, <2>5, FinishCompactEffect
  <1> QED BY <1>2, <1>3 DEF RowsAreSound, CallsAreSound

\* Manual keeps rows and handlers sound.
LEMMA ManualShapes ==
    ASSUME IInv, NEW c \in Calls,
           ManualEnds(c)
    PROVE  RowsAreSound' /\ CallsAreSound'
  <1>1. /\ RollTypeOK /\ RowsAreSound /\ CallsAreSound /\ BornOnce /\ BootIsAlone
        /\ \A y \in Rows : RowShape(y)
        /\ \A d \in Calls : CallShape(d)
    BY DEF IInv, RowsAreSound, CallsAreSound
  <1>2. ASSUME NEW y \in Rows PROVE RowShape(y)'
    <2>1. /\ roll[c].state # "active" /\ roll[c].state # "none"
          /\ call[c].at \notin {"none", "read", "replaced", "prepared"}
          /\ row[Again(c)].status = "none" /\ task[Compact(c)].how = "none"
          /\ row[Compact(c)].status # "none"
      BY <1>1, RowMembers DEF ManualEnds, CallShape, RowShape
    <2>2. ~ToRunAgain(c) /\ call' = call /\ aborting' = aborting
      BY DEF ToRunAgain, ManualEnds
    <2>3. /\ \A z \in Rows : z # Compact(c) => row'[z].status = row[z].status
          /\ TaskOnly(Compact(c)) /\ RollOnly(c)
          /\ task'[Compact(c)].how = task[Compact(c)].how
          /\ roll'[c].candidate = roll[c].candidate
          /\ \/ /\ roll'[c].state = "active" /\ row'[Compact(c)].status = "completed"
                /\ task'[Compact(c)].at = "none" /\ roll[c].candidate # NoThread
             \/ /\ roll'[c].state \in {"failed", roll[c].state}
                /\ row'[Compact(c)].status = "failed"
                /\ task'[Compact(c)].at = "failing"
      <3>1. CASE CanComplete(c) /\ Activate(c) /\ task'[Compact(c)].at = "none"
        BY <1>1, <2>2, <3>1, ManualEffect, ActivateEffect DEF CanComplete
      <3>2. CASE ~(CanComplete(c) /\ Activate(c) /\ task'[Compact(c)].at = "none")
        BY <1>1, <3>2, ManualEffect, FailRollEffect DEF RowOnly
      <3> QED BY <3>1, <3>2
    <2>4. Staged(y)' => Staged(y)
      <3>1. \A e \in Calls : /\ task'[Compact(e)].how = task[Compact(e)].how
                             /\ row'[Again(e)].status = row[Again(e)].status
        BY <2>3, RowMembers, RowKinds DEF TaskOnly
      <3> QED BY <2>2, <3>1, StagedKinds, RowMembers
    <2>5. CASE y = Compact(c)
      <3>1. ~Staged(y)
        BY <2>1, <2>5, StagedKinds
      <3> QED BY <1>1, <2>1, <2>3, <2>4, <2>5, <3>1 DEF RowShape
    <2>6. CASE y # Compact(c)
      BY <1>1, <2>2, <2>3, <2>4, <2>6 DEF RowShape, TaskOnly
    <2> QED BY <2>5, <2>6
  <1>3. ASSUME NEW d \in Calls PROVE CallShape(d)'
    <2>1. /\ roll[c].state # "active" /\ roll[c].state # "none"
          /\ call[c].at \notin {"none", "read", "replaced", "prepared"}
          /\ row[Again(c)].status = "none" /\ task[Compact(c)].how = "none"
          /\ row[Compact(c)].status # "none"
      BY <1>1, RowMembers DEF ManualEnds, CallShape, RowShape
    <2>2. ~ToRunAgain(c) /\ call' = call /\ aborting' = aborting
      BY DEF ToRunAgain, ManualEnds
    <2>3. /\ \A z \in Rows : z # Compact(c) => row'[z].status = row[z].status
          /\ TaskOnly(Compact(c)) /\ RollOnly(c)
          /\ task'[Compact(c)].how = task[Compact(c)].how
          /\ roll'[c].candidate = roll[c].candidate
          /\ \/ /\ roll'[c].state = "active" /\ row'[Compact(c)].status = "completed"
                /\ task'[Compact(c)].at = "none" /\ roll[c].candidate # NoThread
             \/ /\ roll'[c].state \in {"failed", roll[c].state}
                /\ row'[Compact(c)].status = "failed"
                /\ task'[Compact(c)].at = "failing"
      <3>1. CASE CanComplete(c) /\ Activate(c) /\ task'[Compact(c)].at = "none"
        BY <1>1, <2>2, <3>1, ManualEffect, ActivateEffect DEF CanComplete
      <3>2. CASE ~(CanComplete(c) /\ Activate(c) /\ task'[Compact(c)].at = "none")
        BY <1>1, <3>2, ManualEffect, FailRollEffect DEF RowOnly
      <3> QED BY <3>1, <3>2
    <2>4. /\ Again(d) # Compact(c) /\ Again(d) \in Rows /\ Compact(d) \in Rows
          /\ d # c => Compact(d) # Compact(c)
      BY RowKinds, RowMembers
    <2>5. CASE d = c
      <3>1. task'[Again(c)] = task[Again(c)] /\ row'[Again(c)].status = row[Again(c)].status
        BY <2>3, <2>4, <2>5 DEF TaskOnly
      <3> QED BY <1>1, <2>1, <2>2, <2>3, <2>5, <3>1 DEF CallShape, Open
    <2>6. CASE d # c
      <3>1. /\ task'[Again(d)] = task[Again(d)] /\ task'[Compact(d)] = task[Compact(d)]
            /\ row'[Again(d)].status = row[Again(d)].status /\ roll'[d] = roll[d]
            /\ row'[Compact(d)].status = row[Compact(d)].status
        BY <2>3, <2>4, <2>6 DEF TaskOnly, RollOnly
      <3> QED BY <1>1, <2>2, <3>1 DEF CallShape
    <2> QED BY <2>5, <2>6
  <1> QED BY <1>2, <1>3 DEF RowsAreSound, CallsAreSound

\* Finish keeps rows and handlers sound.
LEMMA FinishShapes ==
    ASSUME IInv, NEW x \in Rows,
           FinishAnswer(x) \/ FinishInactive(x)
    PROVE  RowsAreSound' /\ CallsAreSound'
  <1>1. /\ RollTypeOK /\ RowsAreSound /\ CallsAreSound /\ BornOnce /\ BootIsAlone
        /\ \A y \in Rows : RowShape(y)
        /\ \A d \in Calls : CallShape(d)
    BY DEF IInv, RowsAreSound, CallsAreSound
  <1>2. ASSUME NEW y \in Rows PROVE RowShape(y)'
    BY <1>1, FinishEffect, Typed, RowMembers, RowKinds, StagedKinds
    DEF FinishAnswer, FinishInactive, RowShape, CallShape, TaskOnly, RowOnly, CallOnly, CallMoves, RollOnly, Open
  <1>3. ASSUME NEW d \in Calls PROVE CallShape(d)'
    BY <1>1, FinishEffect, Typed, RowMembers, RowKinds, StagedKinds
    DEF FinishAnswer, FinishInactive, RowShape, CallShape, TaskOnly, RowOnly, CallOnly, CallMoves, RollOnly, Open
  <1> QED BY <1>2, <1>3 DEF RowsAreSound, CallsAreSound

\* Terminal keeps rows and handlers sound.
LEMMA TerminalShapes ==
    ASSUME IInv, NEW x \in Rows,
           FinishTerminal(x)
    PROVE  RowsAreSound' /\ CallsAreSound'
  <1>1. /\ RollTypeOK /\ RowsAreSound /\ CallsAreSound /\ BornOnce /\ BootIsAlone
        /\ \A y \in Rows : RowShape(y)
        /\ \A d \in Calls : CallShape(d)
    BY DEF IInv, RowsAreSound, CallsAreSound
  <1>2. ASSUME NEW y \in Rows PROVE RowShape(y)'
    <2>1. /\ TaskOnly(x) /\ task'[x].at = "release" /\ task'[x].how = task[x].how
          /\ RowOnly(x) /\ aborting' = aborting /\ call' = call
          /\ row'[x].status = IF task[x].how = "activated" THEN row[x].status
                             ELSE task[x].how
      BY <1>1, TerminalEffect DEF FinishTerminal
    <2>2. ~Staged(x)
      <3>1. CASE \E u \in Turns : x = Turn(u)
        BY <3>1, StagedKinds
      <3>2. CASE \E c \in Calls : x = Compact(c)
        BY <1>1, <3>2, StagedKinds DEF FinishTerminal, CallShape
      <3>3. CASE \E c \in Calls : x = Again(c)
        BY <1>1, <3>3, StagedKinds DEF FinishTerminal, CallShape
      <3> QED BY <3>1, <3>2, <3>3, RowMembers
    <2>3. row[x].status # "none" /\ row'[x].status # "none" /\ task[x].how # "none"
      BY <1>1, <2>1, Typed DEF FinishTerminal, RowShape
    <2>4. Staged(y)' => Staged(y)
      <3>1. \A c \in Calls : /\ row'[Again(c)].status # "none" => row[Again(c)].status # "none"
                             /\ task'[Compact(c)].how = task[Compact(c)].how
        BY <2>1, <2>3, RowMembers DEF RowOnly, TaskOnly
      <3> QED BY <2>1, <3>1, StagedKinds, RowMembers
    <2>5. CASE y = x
      BY <1>1, <2>1, <2>2, <2>3, <2>4, <2>5 DEF RowShape, FinishTerminal
    <2>6. CASE y # x
      BY <1>1, <2>1, <2>4, <2>6 DEF RowShape, RowOnly, TaskOnly
    <2> QED BY <2>5, <2>6
  <1>3. ASSUME NEW d \in Calls PROVE CallShape(d)'
    BY <1>1, TerminalEffect, Typed, RowMembers, RowKinds, StagedKinds
    DEF FinishTerminal, RowShape, CallShape, TaskOnly, RowOnly, CallOnly, CallMoves, RollOnly, Open
  <1> QED BY <1>2, <1>3 DEF RowsAreSound, CallsAreSound

\* Release keeps rows and handlers sound.
LEMMA ReleaseShapes ==
    ASSUME IInv, NEW x \in Rows,
           FinishRelease(x)
    PROVE  RowsAreSound' /\ CallsAreSound'
  <1>1. /\ RollTypeOK /\ RowsAreSound /\ CallsAreSound /\ BornOnce /\ BootIsAlone
        /\ \A y \in Rows : RowShape(y)
        /\ \A d \in Calls : CallShape(d)
    BY DEF IInv, RowsAreSound, CallsAreSound
  <1>2. ASSUME NEW y \in Rows PROVE RowShape(y)'
    <2>1. /\ row' = row /\ call' = call /\ aborting' = aborting
          /\ task'[x].at = "none" /\ task'[x].how = "none"
      BY <1>1, ReleaseEffect DEF FinishRelease
    <2>2. \A z \in Rows : task'[z].how # "none" => task'[z].how = task[z].how
      BY <1>1, <2>1, ReleaseEffect
    <2>3. Staged(y)' => Staged(y)
      BY <2>1, <2>2, StagedKinds, RowMembers
    <2>4. CASE task'[y] = task[y]
      BY <1>1, <2>1, <2>3, <2>4 DEF RowShape
    <2>5. CASE y = x
      <3>1. ~Staged(x)
        <4>1. CASE \E u \in Turns : x = Turn(u)
          BY <4>1, StagedKinds
        <4>2. CASE \E c \in Calls : x = Compact(c)
          BY <1>1, <4>2, StagedKinds DEF FinishRelease, CallShape
        <4>3. CASE \E c \in Calls : x = Again(c)
          BY <1>1, <4>3, StagedKinds DEF FinishRelease, CallShape
        <4> QED BY <4>1, <4>2, <4>3, RowMembers
      <3>2. row[x].status # "none"
        BY <1>1 DEF FinishRelease, RowShape
      <3> QED BY <1>1, <2>1, <2>3, <2>5, <3>1, <3>2 DEF RowShape
    <2>6. CASE y # x /\ task'[y] # task[y]
      <3>1. PICK c \in Calls : x = Compact(c) /\ y = Again(c)
        BY <1>1, <2>6, ReleaseEffect
      <3>2. /\ task[x].how = "activated" /\ row[y].status # "none"
            /\ task'[y].at = "starting" /\ task'[y].how = "none"
        BY <1>1, <2>6, ReleaseEffect
      <3>3. Staged(y)
        BY <3>1, <3>2, StagedKinds
      <3> QED BY <1>1, <2>1, <2>3, <3>2, <3>3 DEF RowShape
    <2> QED BY <2>4, <2>5, <2>6
  <1>3. ASSUME NEW d \in Calls PROVE CallShape(d)'
    BY <1>1, ReleaseEffect, Typed, RowMembers, RowKinds, StagedKinds
    DEF FinishRelease, RowShape, CallShape, TaskOnly, RowOnly, CallOnly, CallMoves, RollOnly, Open
  <1> QED BY <1>2, <1>3 DEF RowsAreSound, CallsAreSound

\* Abort keeps rows and handlers sound.
LEMMA AbortShapes ==
    ASSUME IInv, Abort
    PROVE  RowsAreSound' /\ CallsAreSound'
  <1>1. /\ RollTypeOK /\ RowsAreSound /\ CallsAreSound /\ BornOnce /\ BootIsAlone
        /\ \A y \in Rows : RowShape(y)
        /\ \A d \in Calls : CallShape(d)
    BY DEF IInv, RowsAreSound, CallsAreSound
  <1>2. ASSUME NEW y \in Rows PROVE RowShape(y)'
    BY <1>1, AbortEffect, Typed, RowMembers, RowKinds, StagedKinds
    DEF Abort, RowShape, CallShape, TaskOnly, RowOnly, CallOnly, CallMoves, RollOnly, Open
  <1>3. ASSUME NEW d \in Calls PROVE CallShape(d)'
    BY <1>1, AbortEffect, Typed, RowMembers, RowKinds, StagedKinds
    DEF Abort, RowShape, CallShape, TaskOnly, RowOnly, CallOnly, CallMoves, RollOnly, Open
  <1> QED BY <1>2, <1>3 DEF RowsAreSound, CallsAreSound

\* AbortMark keeps rows and handlers sound.
LEMMA AbortMarkShapes ==
    ASSUME IInv, NEW x \in Rows,
           AbortMark(x)
    PROVE  RowsAreSound' /\ CallsAreSound'
  <1>1. /\ RollTypeOK /\ RowsAreSound /\ CallsAreSound /\ BornOnce /\ BootIsAlone
        /\ \A y \in Rows : RowShape(y)
        /\ \A d \in Calls : CallShape(d)
    BY DEF IInv, RowsAreSound, CallsAreSound
  <1>2. ASSUME NEW y \in Rows PROVE RowShape(y)'
    BY <1>1, AbortMarkEffect, Typed, RowMembers, RowKinds, StagedKinds
    DEF AbortMark, RowShape, CallShape, TaskOnly, RowOnly, CallOnly, CallMoves, RollOnly, Open
  <1>3. ASSUME NEW d \in Calls PROVE CallShape(d)'
    BY <1>1, AbortMarkEffect, Typed, RowMembers, RowKinds, StagedKinds
    DEF AbortMark, RowShape, CallShape, TaskOnly, RowOnly, CallOnly, CallMoves, RollOnly, Open
  <1> QED BY <1>2, <1>3 DEF RowsAreSound, CallsAreSound

\* Die keeps rows and handlers sound.
LEMMA DieShapes ==
    ASSUME IInv, Die
    PROVE  RowsAreSound' /\ CallsAreSound'
  <1>1. /\ RollTypeOK /\ RowsAreSound /\ CallsAreSound /\ BornOnce /\ BootIsAlone
        /\ \A y \in Rows : RowShape(y)
        /\ \A d \in Calls : CallShape(d)
    BY DEF IInv, RowsAreSound, CallsAreSound
  <1>2. ASSUME NEW y \in Rows PROVE RowShape(y)'
    BY <1>1, DieEffect, Typed, RowMembers, RowKinds, StagedKinds
    DEF Die, RowShape, CallShape, TaskOnly, RowOnly, CallOnly, CallMoves, RollOnly, Open
  <1>3. ASSUME NEW d \in Calls PROVE CallShape(d)'
    BY <1>1, DieEffect, Typed, RowMembers, RowKinds, StagedKinds
    DEF Die, RowShape, CallShape, TaskOnly, RowOnly, CallOnly, CallMoves, RollOnly, Open
  <1> QED BY <1>2, <1>3 DEF RowsAreSound, CallsAreSound

\* Boot keeps rows and handlers sound.
LEMMA BootShapes ==
    ASSUME IInv, Restart \/ Recovered
    PROVE  RowsAreSound' /\ CallsAreSound'
  <1>1. /\ RollTypeOK /\ RowsAreSound /\ CallsAreSound /\ BornOnce /\ BootIsAlone
        /\ \A y \in Rows : RowShape(y)
        /\ \A d \in Calls : CallShape(d)
    BY DEF IInv, RowsAreSound, CallsAreSound
  <1>2. ASSUME NEW y \in Rows PROVE RowShape(y)'
    BY <1>1, BootEffect, ReconciledEffect, Typed, RowMembers, RowKinds, StagedKinds
    DEF Restart, Recovered, RowShape, CallShape, TaskOnly, RowOnly, CallOnly, CallMoves, RollOnly, Open
  <1>3. ASSUME NEW d \in Calls PROVE CallShape(d)'
    <2>1. /\ row' = row /\ call' = call /\ task' = task
          /\ call[d].at \in {"none", "over"}
      BY <1>1 DEF Restart, Recovered, BootIsAlone
    <2>2. /\ roll'[d].candidate = roll[d].candidate
          /\ \/ roll'[d].state = roll[d].state
             \/ roll[d].state = "starting" /\ roll'[d].state = "failed"
      BY <1>1, ReconciledEffect DEF Restart, Recovered
    <2> QED BY <1>1, <2>1, <2>2 DEF CallShape
  <1> QED BY <1>2, <1>3 DEF RowsAreSound, CallsAreSound

\* RecoverNot keeps rows and handlers sound.
LEMMA RecoverNotShapes ==
    ASSUME IInv, NEW x \in Rows,
           RecoverNot(x)
    PROVE  RowsAreSound' /\ CallsAreSound'
  <1>1. /\ RollTypeOK /\ RowsAreSound /\ CallsAreSound /\ BornOnce /\ BootIsAlone
        /\ \A y \in Rows : RowShape(y)
        /\ \A d \in Calls : CallShape(d)
    BY DEF IInv, RowsAreSound, CallsAreSound
  <1>2. ASSUME NEW y \in Rows PROVE RowShape(y)'
    BY <1>1, RecoverNotEffect, Typed, RowMembers, RowKinds, StagedKinds
    DEF RecoverNot, RowShape, CallShape, TaskOnly, RowOnly, CallOnly, CallMoves, RollOnly, Open
  <1>3. ASSUME NEW d \in Calls PROVE CallShape(d)'
    <2>1. row[x].status \in Open
      BY <1>1 DEF RecoverNot, BootIsAlone
    <2>2. /\ task' = task /\ call' = call /\ roll' = roll
          /\ \A y \in Rows : \/ row'[y].status = row[y].status
                             \/ row[y].status \in Open /\ row'[y].status = "interrupted"
      BY <1>1, <2>1, RecoverNotEffect DEF RecoverNot, RowOnly
    <2>3. Compact(d) \in Rows /\ Again(d) \in Rows
      BY RowMembers
    <2> QED BY <1>1, <2>2, <2>3 DEF CallShape, Open
  <1> QED BY <1>2, <1>3 DEF RowsAreSound, CallsAreSound

\* RecoverRow keeps rows and handlers sound.
LEMMA RecoverRowShapes ==
    ASSUME IInv, NEW x \in Rows,
           RecoverRow(x)
    PROVE  RowsAreSound' /\ CallsAreSound'
  <1>1. /\ RollTypeOK /\ RowsAreSound /\ CallsAreSound /\ BornOnce /\ BootIsAlone
        /\ \A y \in Rows : RowShape(y)
        /\ \A d \in Calls : CallShape(d)
    BY DEF IInv, RowsAreSound, CallsAreSound
  <1>2. ASSUME NEW y \in Rows PROVE RowShape(y)'
    <2>1. /\ row[x].status \in Open /\ aborting' = aborting /\ x \notin aborting
          /\ call' = call /\ roll' = roll
          /\ \A c \in Calls : call[c].at # "prepared"
          /\ \A z \in Rows : task[z].at = "none" /\ task[z].how = "none"
      BY <1>1 DEF RecoverRow, BootIsAlone, RowShape
    <2>2. RowOnly(x) /\ TaskOnly(x) /\ task'[x].how = "none"
      BY <1>1, <2>1, RecoverRowEffect DEF TaskOnly
    <2>3. \/ row'[x].status \in {"completed", "failed"} /\ task'[x].at = "none"
          \/ row'[x].status = "recovering" /\ task'[x].at = "starting"
      BY <1>1, <2>1, RecoverRowEffect
    <2>4. ~Staged(y)'
      <3>1. \A c \in Calls : task'[Compact(c)].how = "none"
        BY <2>1, <2>2, RowMembers DEF TaskOnly
      <3> QED BY <2>1, <3>1, StagedKinds, RowMembers
    <2>5. CASE y = x
      BY <2>1, <2>2, <2>3, <2>4, <2>5 DEF RowShape, Open
    <2>6. CASE y # x
      BY <1>1, <2>1, <2>2, <2>4, <2>6 DEF RowShape, RowOnly, TaskOnly
    <2> QED BY <2>5, <2>6
  <1>3. ASSUME NEW d \in Calls PROVE CallShape(d)'
    <2>1. /\ row[x].status \in Open /\ aborting' = aborting /\ x \notin aborting
          /\ call' = call /\ roll' = roll
          /\ \A c \in Calls : call[c].at # "prepared"
          /\ \A z \in Rows : task[z].at = "none" /\ task[z].how = "none"
      BY <1>1 DEF RecoverRow, BootIsAlone, RowShape
    <2>2. RowOnly(x) /\ TaskOnly(x) /\ task'[x].how = "none"
      BY <1>1, <2>1, RecoverRowEffect DEF TaskOnly
    <2>3. \/ row'[x].status \in {"completed", "failed"} /\ task'[x].at = "none"
          \/ row'[x].status = "recovering" /\ task'[x].at = "starting"
      BY <1>1, <2>1, RecoverRowEffect
    <2>4. Compact(d) \in Rows /\ Again(d) \in Rows /\ Compact(d) # Again(d)
      BY RowMembers, RowKinds
    <2>5. CASE x = Compact(d)
      <3>1. row'[Again(d)].status = row[Again(d)].status /\ task'[Again(d)] = task[Again(d)]
        BY <2>2, <2>4, <2>5 DEF RowOnly, TaskOnly
      <3> QED BY <1>1, <2>1, <2>2, <2>3, <2>5, <3>1 DEF CallShape, Open
    <2>6. CASE x # Compact(d)
      <3>1. /\ row'[Compact(d)].status = row[Compact(d)].status
            /\ task'[Compact(d)] = task[Compact(d)]
            /\ row'[Again(d)].status # "none" => row[Again(d)].status # "none"
        BY <2>1, <2>2, <2>4, <2>6 DEF RowOnly, TaskOnly, Open
      <3>2. task'[Compact(d)].how = "none"
        BY <2>1, <2>4, <3>1
      <3> QED BY <1>1, <2>1, <3>1, <3>2 DEF CallShape
    <2> QED BY <2>5, <2>6
  <1> QED BY <1>2, <1>3 DEF RowsAreSound, CallsAreSound

-----------------------------------------------------------------------------
(* Rows in the order of their creation, the boot, reports and messages.      *)

\* BeginTurn keeps the order of rows, the boot, reports and messages.
LEMMA BeginTurnKeeps ==
    ASSUME IInv, NEW t \in Turns,
           BeginTurn(t)
    PROVE  BornOnce' /\ BootIsAlone' /\ ReportsAreKnown' /\ SeenIsAll'
  <1>1. /\ RollTypeOK /\ RowsAreSound /\ BornOnce /\ BootIsAlone /\ ReportsAreKnown /\ SeenIsAll
        /\ \A y \in Rows : RowShape(y)
        /\ \A d \in Calls : CallShape(d)
    BY DEF IInv, RowsAreSound, CallsAreSound
  <1>2. BornOnce'
    <2>1. ToSet(born') = ToSet(born) \cup {Turn(t)} /\ call' = call /\ roll' = roll
      BY <1>1, BeginTurnEffect DEF BeginTurn
    <2>2. ASSUME NEW y \in Rows, row'[y].status # "none" PROVE y \in ToSet(born')
      <3>1. y = Turn(t) \/ row[y].status # "none"
        BY <1>1, <2>2, BeginTurnEffect DEF Open
      <3> QED BY <1>1, <2>1, <3>1 DEF BornOnce
    <2>3. ASSUME NEW u \in Turns, said'[u] = "none" PROVE Turn(u) \notin ToSet(born')
      <3>1. u # t /\ said[u] = "none"
        BY <1>1, <2>3 DEF BeginTurn, RollTypeOK
      <3> QED BY <1>1, <2>1, <3>1, RowKinds DEF BornOnce
    <2>4. \A c \in Calls : /\ call'[c].at = "none" <=> Compact(c) \notin ToSet(born')
                           /\ roll'[c].state # "active" => Again(c) \notin ToSet(born')
      BY <1>1, <2>1, RowKinds DEF BornOnce
    <2> QED BY <2>2, <2>3, <2>4 DEF BornOnce
  <1>3. BootIsAlone'
    BY <1>1, BeginTurnEffect, Typed, RowMembers, RowKinds
    DEF BeginTurn, BootIsAlone, RowShape, CallShape, TaskOnly, RowOnly, CallOnly, CallMoves, RollOnly, Open
  <1>4. ReportsAreKnown'
    BY <1>1, BeginTurnEffect, Typed, RowMembers, RowKinds
    DEF BeginTurn, ReportsAreKnown, RowShape, CallShape, TaskOnly, RowOnly, CallOnly, CallMoves, RollOnly, Open
  <1>5. SeenIsAll'
    BY <1>1, BeginTurnEffect, Typed, RowMembers, RowKinds
    DEF BeginTurn, SeenIsAll, RowShape, CallShape, TaskOnly, RowOnly, CallOnly, CallMoves, RollOnly, Open
  <1> QED BY <1>2, <1>3, <1>4, <1>5

\* Register keeps the order of rows, the boot, reports and messages.
LEMMA RegisterKeeps ==
    ASSUME IInv, NEW x \in Rows,
           Register(x)
    PROVE  BornOnce' /\ BootIsAlone' /\ ReportsAreKnown' /\ SeenIsAll'
  <1>1. /\ RollTypeOK /\ RowsAreSound /\ BornOnce /\ BootIsAlone /\ ReportsAreKnown /\ SeenIsAll
        /\ \A y \in Rows : RowShape(y)
        /\ \A d \in Calls : CallShape(d)
    BY DEF IInv, RowsAreSound, CallsAreSound
  <1>2. BornOnce'
    BY <1>1, RegisterEffect, Typed, RowMembers, RowKinds
    DEF Register, BornOnce, RowShape, CallShape, TaskOnly, RowOnly, CallOnly, CallMoves, RollOnly, Open
  <1>3. BootIsAlone'
    BY <1>1, RegisterEffect, Typed, RowMembers, RowKinds
    DEF Register, BootIsAlone, RowShape, CallShape, TaskOnly, RowOnly, CallOnly, CallMoves, RollOnly, Open
  <1>4. ReportsAreKnown'
    BY <1>1, RegisterEffect, Typed, RowMembers, RowKinds
    DEF Register, ReportsAreKnown, RowShape, CallShape, TaskOnly, RowOnly, CallOnly, CallMoves, RollOnly, Open
  <1>5. SeenIsAll'
    BY <1>1, RegisterEffect, Typed, RowMembers, RowKinds
    DEF Register, SeenIsAll, RowShape, CallShape, TaskOnly, RowOnly, CallOnly, CallMoves, RollOnly, Open
  <1> QED BY <1>2, <1>3, <1>4, <1>5

\* StartFails keeps the order of rows, the boot, reports and messages.
LEMMA StartFailsKeeps ==
    ASSUME IInv, NEW x \in Rows,
           StartFails(x)
    PROVE  BornOnce' /\ BootIsAlone' /\ ReportsAreKnown' /\ SeenIsAll'
  <1>1. /\ RollTypeOK /\ RowsAreSound /\ BornOnce /\ BootIsAlone /\ ReportsAreKnown /\ SeenIsAll
        /\ \A y \in Rows : RowShape(y)
        /\ \A d \in Calls : CallShape(d)
    BY DEF IInv, RowsAreSound, CallsAreSound
  <1>2. BornOnce'
    BY <1>1, StartFailsEffect, Typed, RowMembers, RowKinds
    DEF StartFails, BornOnce, RowShape, CallShape, TaskOnly, RowOnly, CallOnly, CallMoves, RollOnly, Open
  <1>3. BootIsAlone'
    BY <1>1, StartFailsEffect, Typed, RowMembers, RowKinds
    DEF StartFails, BootIsAlone, RowShape, CallShape, TaskOnly, RowOnly, CallOnly, CallMoves, RollOnly, Open
  <1>4. ReportsAreKnown'
    BY <1>1, StartFailsEffect, Typed, RowMembers, RowKinds
    DEF StartFails, ReportsAreKnown, RowShape, CallShape, TaskOnly, RowOnly, CallOnly, CallMoves, RollOnly, Open
  <1>5. SeenIsAll'
    BY <1>1, StartFailsEffect, Typed, RowMembers, RowKinds
    DEF StartFails, SeenIsAll, RowShape, CallShape, TaskOnly, RowOnly, CallOnly, CallMoves, RollOnly, Open
  <1> QED BY <1>2, <1>3, <1>4, <1>5

\* StartFailed keeps the order of rows, the boot, reports and messages.
LEMMA StartFailedKeeps ==
    ASSUME IInv, NEW x \in Rows,
           StartFailed(x)
    PROVE  BornOnce' /\ BootIsAlone' /\ ReportsAreKnown' /\ SeenIsAll'
  <1>1. /\ RollTypeOK /\ RowsAreSound /\ BornOnce /\ BootIsAlone /\ ReportsAreKnown /\ SeenIsAll
        /\ \A y \in Rows : RowShape(y)
        /\ \A d \in Calls : CallShape(d)
    BY DEF IInv, RowsAreSound, CallsAreSound
  <1>2. BornOnce'
    BY <1>1, StartFailedEffect, Typed, RowMembers, RowKinds
    DEF StartFailed, BornOnce, RowShape, CallShape, TaskOnly, RowOnly, CallOnly, CallMoves, RollOnly, Open
  <1>3. BootIsAlone'
    BY <1>1, StartFailedEffect, Typed, RowMembers, RowKinds
    DEF StartFailed, BootIsAlone, RowShape, CallShape, TaskOnly, RowOnly, CallOnly, CallMoves, RollOnly, Open
  <1>4. ReportsAreKnown'
    BY <1>1, StartFailedEffect, Typed, RowMembers, RowKinds
    DEF StartFailed, ReportsAreKnown, RowShape, CallShape, TaskOnly, RowOnly, CallOnly, CallMoves, RollOnly, Open
  <1>5. SeenIsAll'
    BY <1>1, StartFailedEffect, Typed, RowMembers, RowKinds
    DEF StartFailed, SeenIsAll, RowShape, CallShape, TaskOnly, RowOnly, CallOnly, CallMoves, RollOnly, Open
  <1> QED BY <1>2, <1>3, <1>4, <1>5

\* Provider keeps the order of rows, the boot, reports and messages.
LEMMA ProviderKeeps ==
    ASSUME IInv, NEW x \in Rows,
           ProviderEnds(x) \/ ProviderStopped(x)
    PROVE  BornOnce' /\ BootIsAlone' /\ ReportsAreKnown' /\ SeenIsAll'
  <1>1. /\ RollTypeOK /\ RowsAreSound /\ BornOnce /\ BootIsAlone /\ ReportsAreKnown /\ SeenIsAll
        /\ \A y \in Rows : RowShape(y)
        /\ \A d \in Calls : CallShape(d)
    BY DEF IInv, RowsAreSound, CallsAreSound
  <1>2. BornOnce'
    BY <1>1, ProviderEffect, Typed, RowMembers, RowKinds
    DEF ProviderEnds, ProviderStopped, BornOnce, RowShape, CallShape, TaskOnly, RowOnly, CallOnly, CallMoves, RollOnly, Open
  <1>3. BootIsAlone'
    BY <1>1, ProviderEffect, Typed, RowMembers, RowKinds
    DEF ProviderEnds, ProviderStopped, BootIsAlone, RowShape, CallShape, TaskOnly, RowOnly, CallOnly, CallMoves, RollOnly, Open
  <1>4. ReportsAreKnown'
    BY <1>1, ProviderEffect, Typed, RowMembers, RowKinds
    DEF ProviderEnds, ProviderStopped, ReportsAreKnown, RowShape, CallShape, TaskOnly, RowOnly, CallOnly, CallMoves, RollOnly, Open
  <1>5. SeenIsAll'
    BY <1>1, ProviderEffect, Typed, RowMembers, RowKinds
    DEF ProviderEnds, ProviderStopped, SeenIsAll, RowShape, CallShape, TaskOnly, RowOnly, CallOnly, CallMoves, RollOnly, Open
  <1> QED BY <1>2, <1>3, <1>4, <1>5

\* Thread keeps the order of rows, the boot, reports and messages.
LEMMA ThreadKeeps ==
    ASSUME IInv, NEW x \in Rows,
           ThreadChecked(x) \/ ThreadWritten(x)
    PROVE  BornOnce' /\ BootIsAlone' /\ ReportsAreKnown' /\ SeenIsAll'
  <1>1. /\ RollTypeOK /\ RowsAreSound /\ BornOnce /\ BootIsAlone /\ ReportsAreKnown /\ SeenIsAll
        /\ \A y \in Rows : RowShape(y)
        /\ \A d \in Calls : CallShape(d)
    BY DEF IInv, RowsAreSound, CallsAreSound
  <1>2. BornOnce'
    BY <1>1, ThreadEffect, Typed, RowMembers, RowKinds
    DEF ThreadChecked, ThreadWritten, BornOnce, RowShape, CallShape, TaskOnly, RowOnly, CallOnly, CallMoves, RollOnly, Open
  <1>3. BootIsAlone'
    BY <1>1, ThreadEffect, Typed, RowMembers, RowKinds
    DEF ThreadChecked, ThreadWritten, BootIsAlone, RowShape, CallShape, TaskOnly, RowOnly, CallOnly, CallMoves, RollOnly, Open
  <1>4. ReportsAreKnown'
    <2>1. roll' = roll /\ raced' = raced
      BY DEF ThreadChecked, ThreadWritten
    <2>2. CASE ThreadChecked(x)
      <3>1. ASSUME NEW c \in Calls, roll[c].state = "active" PROVE FALSE
        <4>1. roll[c].candidate # NoThread
          BY <1>1, <3>1 DEF CallShape
        <4>2. roll[c].candidate \in ArchivedThreads
          BY <3>1, <4>1 DEF ArchivedThreads
        <4> QED BY <2>2, <4>2 DEF ThreadChecked
      <3> QED BY <2>1, <3>1 DEF ReportsAreKnown
    <2>3. CASE ThreadWritten(x)
      <3>1. report' \subseteq report
        BY <2>3 DEF ThreadWritten
      <3> QED BY <1>1, <2>1, <3>1 DEF ReportsAreKnown
    <2> QED BY <2>2, <2>3
  <1>5. SeenIsAll'
    BY <1>1, ThreadEffect, Typed, RowMembers, RowKinds
    DEF ThreadChecked, ThreadWritten, SeenIsAll, RowShape, CallShape, TaskOnly, RowOnly, CallOnly, CallMoves, RollOnly, Open
  <1> QED BY <1>2, <1>3, <1>4, <1>5

\* Stage keeps the order of rows, the boot, reports and messages.
LEMMA StageKeeps ==
    ASSUME IInv, NEW c \in Calls,
           StageCandidate(c)
    PROVE  BornOnce' /\ BootIsAlone' /\ ReportsAreKnown' /\ SeenIsAll'
  <1>1. /\ RollTypeOK /\ RowsAreSound /\ BornOnce /\ BootIsAlone /\ ReportsAreKnown /\ SeenIsAll
        /\ \A y \in Rows : RowShape(y)
        /\ \A d \in Calls : CallShape(d)
    BY DEF IInv, RowsAreSound, CallsAreSound
  <1>2. BornOnce'
    BY <1>1, StageEffect, Typed, RowMembers, RowKinds
    DEF StageCandidate, BornOnce, RowShape, CallShape, TaskOnly, RowOnly, CallOnly, CallMoves, RollOnly, Open
  <1>3. BootIsAlone'
    BY <1>1, StageEffect, Typed, RowMembers, RowKinds
    DEF StageCandidate, BootIsAlone, RowShape, CallShape, TaskOnly, RowOnly, CallOnly, CallMoves, RollOnly, Open
  <1>4. ReportsAreKnown'
    BY <1>1, StageEffect, Typed, RowMembers, RowKinds
    DEF StageCandidate, ReportsAreKnown, RowShape, CallShape, TaskOnly, RowOnly, CallOnly, CallMoves, RollOnly, Open
  <1>5. SeenIsAll'
    BY <1>1, StageEffect, Typed, RowMembers, RowKinds
    DEF StageCandidate, SeenIsAll, RowShape, CallShape, TaskOnly, RowOnly, CallOnly, CallMoves, RollOnly, Open
  <1> QED BY <1>2, <1>3, <1>4, <1>5

\* Read keeps the order of rows, the boot, reports and messages.
LEMMA ReadKeeps ==
    ASSUME IInv, NEW c \in Calls, NEW t \in Turns \cup {NoTurn},
           NEW x \in Rows \cup {NoRow},
           ReadChat(c, t, x),
           Kind[c] = "manual" => x = NoRow,
           Kind[c] = "retry" => t \in Turns /\ said[t] # "none"
    PROVE  BornOnce' /\ BootIsAlone' /\ ReportsAreKnown' /\ SeenIsAll'
  <1>1. /\ RollTypeOK /\ RowsAreSound /\ BornOnce /\ BootIsAlone /\ ReportsAreKnown /\ SeenIsAll
        /\ \A y \in Rows : RowShape(y)
        /\ \A d \in Calls : CallShape(d)
    BY DEF IInv, RowsAreSound, CallsAreSound
  <1>2. BornOnce'
    <2>1. /\ ToSet(born') = ToSet(born) \cup {Compact(c)}
          /\ row' = row /\ said' = said /\ roll' = roll
          /\ CallOnly(c) /\ call'[c].at = "read"
      BY <1>1, ReadEffect DEF ReadChat
    <2>2. \A d \in Calls : /\ call'[d].at = "none" <=> Compact(d) \notin ToSet(born')
                           /\ roll'[d].state # "active" => Again(d) \notin ToSet(born')
      BY <1>1, <2>1, RowKinds DEF BornOnce, CallOnly
    <2>3. \A u \in Turns : Turn(u) # Compact(c)
      BY RowKinds
    <2> QED BY <1>1, <2>1, <2>2, <2>3 DEF BornOnce
  <1>3. BootIsAlone'
    BY <1>1, ReadEffect, Typed, RowMembers, RowKinds
    DEF ReadChat, BootIsAlone, RowShape, CallShape, TaskOnly, RowOnly, CallOnly, CallMoves, RollOnly, Open
  <1>4. ReportsAreKnown'
    BY <1>1, ReadEffect, Typed, RowMembers, RowKinds
    DEF ReadChat, ReportsAreKnown, RowShape, CallShape, TaskOnly, RowOnly, CallOnly, CallMoves, RollOnly, Open
  <1>5. SeenIsAll'
    <2>1. /\ CallOnly(c) /\ said' = said /\ raced' = raced
          /\ call'[c].seen = {u \in Turns : said[u] \in {"kept", "renamed"}}
      BY <1>1, ReadEffect DEF ReadChat
    <2>2. \A u \in Turns : said[u] \in {"none", "kept", "renamed", "lost"}
      BY <1>1 DEF RollTypeOK
    <2>3. ASSUME "turn" \notin raced, NEW d \in Calls, call'[d].at = "read",
                 NEW u \in Turns, said[u] # "none"
          PROVE  u \in call'[d].seen
      <3>1. CASE d = c
        <4>1. said[u] \in {"kept", "renamed"}
          BY <1>1, <2>2, <2>3 DEF SeenIsAll
        <4> QED BY <2>1, <3>1, <4>1
      <3>2. CASE d # c
        BY <1>1, <2>1, <2>3, <3>2 DEF SeenIsAll, CallOnly
      <3> QED BY <3>1, <3>2
    <2>4. ASSUME NEW d \in Calls PROVE \A u \in call'[d].seen : said[u] # "none"
      <3>1. CASE d = c
        BY <2>1, <3>1
      <3>2. CASE d # c
        BY <1>1, <2>1, <3>2 DEF SeenIsAll, CallOnly
      <3> QED BY <3>1, <3>2
    <2>5. ASSUME NEW d \in Calls, Kind[d] = "retry", call'[d].at # "none"
          PROVE  call'[d].turn \in Turns /\ said[call'[d].turn] # "none"
      <3>1. CASE d = c
        BY <1>1, <2>5, <3>1, ReadEffect
      <3>2. CASE d # c
        BY <1>1, <2>1, <2>5, <3>2 DEF SeenIsAll, CallOnly
      <3> QED BY <3>1, <3>2
    <2> QED BY <1>1, <2>1, <2>3, <2>4, <2>5 DEF SeenIsAll
  <1> QED BY <1>2, <1>3, <1>4, <1>5

\* Replace keeps the order of rows, the boot, reports and messages.
LEMMA ReplaceKeeps ==
    ASSUME IInv, NEW c \in Calls,
           ReplaceMessages(c)
    PROVE  BornOnce' /\ BootIsAlone' /\ ReportsAreKnown' /\ SeenIsAll'
  <1>1. /\ RollTypeOK /\ RowsAreSound /\ BornOnce /\ BootIsAlone /\ ReportsAreKnown /\ SeenIsAll
        /\ \A y \in Rows : RowShape(y)
        /\ \A d \in Calls : CallShape(d)
    BY DEF IInv, RowsAreSound, CallsAreSound
  <1>2. BornOnce'
    BY <1>1, ReplaceEffect, Typed, RowMembers, RowKinds
    DEF ReplaceMessages, BornOnce, RowShape, CallShape, TaskOnly, RowOnly, CallOnly, CallMoves, RollOnly, Open
  <1>3. BootIsAlone'
    BY <1>1, ReplaceEffect, Typed, RowMembers, RowKinds
    DEF ReplaceMessages, BootIsAlone, RowShape, CallShape, TaskOnly, RowOnly, CallOnly, CallMoves, RollOnly, Open
  <1>4. ReportsAreKnown'
    BY <1>1, ReplaceEffect, Typed, RowMembers, RowKinds
    DEF ReplaceMessages, ReportsAreKnown, RowShape, CallShape, TaskOnly, RowOnly, CallOnly, CallMoves, RollOnly, Open
  <1>5. SeenIsAll'
    <2>1. /\ CallOnly(c) /\ call'[c].at = "replaced" /\ raced' = raced
          /\ call[c].at = "read" /\ call'[c].seen = call[c].seen
      BY <1>1, ReplaceEffect DEF ReplaceMessages, CallMoves
    <2>2. \A d \in Calls : call[d].seen \subseteq Turns
      BY <1>1, Typed, CallRecords
    <2>3. \A t \in Turns : said'[t] = "none" <=> said[t] = "none"
      BY <1>1, ReplaceEffect DEF SeenIsAll
    <2>4. ASSUME NEW d \in Calls PROVE \A t \in call'[d].seen : said'[t] # "none"
      <3>1. call'[d].seen = call[d].seen
        BY <2>1 DEF CallOnly
      <3> QED BY <1>1, <2>2, <2>3, <3>1 DEF SeenIsAll
    <2>5. ASSUME "turn" \notin raced
          PROVE  /\ \A t \in Turns : said'[t] # "lost"
                 /\ \A d \in Calls : call'[d].at = "read" =>
                        \A t \in Turns : said'[t] # "none" => t \in call'[d].seen
      <3>1. \A t \in Turns : said[t] # "none" => t \in call[c].seen
        BY <1>1, <2>1, <2>5 DEF SeenIsAll
      <3>2. \A t \in Turns : said'[t] # "lost"
        BY <1>1, <3>1, ReplaceEffect
      <3>3. ASSUME NEW d \in Calls, call'[d].at = "read"
            PROVE  \A t \in Turns : said'[t] # "none" => t \in call'[d].seen
        <4>1. call'[d] = call[d]
          BY <2>1, <3>3 DEF CallOnly
        <4> QED BY <1>1, <2>3, <2>5, <3>3, <4>1 DEF SeenIsAll
      <3> QED BY <3>2, <3>3
    <2>6. ASSUME NEW d \in Calls, Kind[d] = "retry", call'[d].at # "none"
          PROVE  call'[d].turn \in Turns /\ said'[call'[d].turn] # "none"
      <3>1. call'[d].turn = call[d].turn /\ call[d].at # "none"
        BY <1>1, <2>1, <2>6, ReplaceEffect DEF CallOnly, CallMoves
      <3> QED BY <1>1, <2>3, <2>6, <3>1 DEF SeenIsAll
    <2> QED BY <2>1, <2>4, <2>5, <2>6 DEF SeenIsAll
  <1> QED BY <1>2, <1>3, <1>4, <1>5

\* Prepare keeps the order of rows, the boot, reports and messages.
LEMMA PrepareKeeps ==
    ASSUME IInv, NEW c \in Calls,
           Prepare(c)
    PROVE  BornOnce' /\ BootIsAlone' /\ ReportsAreKnown' /\ SeenIsAll'
  <1>1. /\ RollTypeOK /\ RowsAreSound /\ BornOnce /\ BootIsAlone /\ ReportsAreKnown /\ SeenIsAll
        /\ \A y \in Rows : RowShape(y)
        /\ \A d \in Calls : CallShape(d)
    BY DEF IInv, RowsAreSound, CallsAreSound
  <1>2. BornOnce'
    <2>1. /\ born' = born /\ said' = said
          /\ \A d \in Calls : call'[d].at = "none" <=> call[d].at = "none"
      BY <1>1, PrepareEffect DEF Prepare, CallOnly, CallMoves
    <2>2. Compact(c) \in ToSet(born)
      BY <1>1 DEF Prepare, BornOnce
    <2>3. CASE row' = row /\ roll' = roll
      BY <1>1, <2>1, <2>3 DEF BornOnce
    <2>4. CASE ~(row' = row /\ roll' = roll)
      <3>1. /\ Kind[c] = "manual" \/ row[call[c].source].status = "failed"
            /\ RollOnly(c) /\ roll'[c].state = "starting"
            /\ \A y \in Rows : y # Compact(c) =>
                  row'[y].status = IF y = call[c].source THEN "superseded"
                                   ELSE row[y].status
        BY <1>1, <2>4, PrepareEffect
      <3>2. roll[c].state = "none"
        BY <1>1 DEF Prepare, CallShape
      <3>3. \A y \in Rows : y = call[c].source => row[y].status = "failed"
        BY <1>1, <3>1, RowMembers DEF CallShape
      <3>4. \A y \in Rows : row'[y].status # "none" => row[y].status # "none" \/ y = Compact(c)
        BY <3>1, <3>3
      <3>5. \A d \in Calls : roll'[d].state # "active" => roll[d].state # "active"
        BY <3>1, <3>2 DEF RollOnly
      <3> QED BY <1>1, <2>1, <2>2, <3>4, <3>5 DEF BornOnce
    <2> QED BY <2>3, <2>4
  <1>3. BootIsAlone'
    BY <1>1, PrepareEffect, Typed, RowMembers, RowKinds
    DEF Prepare, BootIsAlone, RowShape, CallShape, TaskOnly, RowOnly, CallOnly, CallMoves, RollOnly, Open
  <1>4. ReportsAreKnown'
    BY <1>1, PrepareEffect, Typed, RowMembers, RowKinds
    DEF Prepare, ReportsAreKnown, RowShape, CallShape, TaskOnly, RowOnly, CallOnly, CallMoves, RollOnly, Open
  <1>5. SeenIsAll'
    BY <1>1, PrepareEffect, Typed, RowMembers, RowKinds
    DEF Prepare, SeenIsAll, RowShape, CallShape, TaskOnly, RowOnly, CallOnly, CallMoves, RollOnly, Open
  <1> QED BY <1>2, <1>3, <1>4, <1>5

\* Launch keeps the order of rows, the boot, reports and messages.
LEMMA LaunchKeeps ==
    ASSUME IInv, NEW c \in Calls,
           Launch(c)
    PROVE  BornOnce' /\ BootIsAlone' /\ ReportsAreKnown' /\ SeenIsAll'
  <1>1. /\ RollTypeOK /\ RowsAreSound /\ BornOnce /\ BootIsAlone /\ ReportsAreKnown /\ SeenIsAll
        /\ \A y \in Rows : RowShape(y)
        /\ \A d \in Calls : CallShape(d)
    BY DEF IInv, RowsAreSound, CallsAreSound
  <1>2. BornOnce'
    BY <1>1, LaunchEffect, Typed, RowMembers, RowKinds
    DEF Launch, BornOnce, RowShape, CallShape, TaskOnly, RowOnly, CallOnly, CallMoves, RollOnly, Open
  <1>3. BootIsAlone'
    BY <1>1, LaunchEffect, Typed, RowMembers, RowKinds
    DEF Launch, BootIsAlone, RowShape, CallShape, TaskOnly, RowOnly, CallOnly, CallMoves, RollOnly, Open
  <1>4. ReportsAreKnown'
    BY <1>1, LaunchEffect, Typed, RowMembers, RowKinds
    DEF Launch, ReportsAreKnown, RowShape, CallShape, TaskOnly, RowOnly, CallOnly, CallMoves, RollOnly, Open
  <1>5. SeenIsAll'
    BY <1>1, LaunchEffect, Typed, RowMembers, RowKinds
    DEF Launch, SeenIsAll, RowShape, CallShape, TaskOnly, RowOnly, CallOnly, CallMoves, RollOnly, Open
  <1> QED BY <1>2, <1>3, <1>4, <1>5

\* FinishCompact keeps the order of rows, the boot, reports and messages.
LEMMA FinishCompactKeeps ==
    ASSUME IInv, NEW c \in Calls,
           FinishCompact(c)
    PROVE  BornOnce' /\ BootIsAlone' /\ ReportsAreKnown' /\ SeenIsAll'
  <1>1. /\ RollTypeOK /\ RowsAreSound /\ BornOnce /\ BootIsAlone /\ ReportsAreKnown /\ SeenIsAll
        /\ \A y \in Rows : RowShape(y)
        /\ \A d \in Calls : CallShape(d)
    BY DEF IInv, RowsAreSound, CallsAreSound
  <1>2. BornOnce'
    BY <1>1, FinishCompactEffect, ActivateEffect, FailRollEffect, Typed, RowMembers, RowKinds
    DEF FinishCompact, BornOnce, RowShape, CallShape, TaskOnly, RowOnly, CallOnly, CallMoves, RollOnly, Open
  <1>3. BootIsAlone'
    BY <1>1, FinishCompactEffect, ActivateEffect, FailRollEffect, Typed, RowMembers, RowKinds
    DEF FinishCompact, BootIsAlone, RowShape, CallShape, TaskOnly, RowOnly, CallOnly, CallMoves, RollOnly, Open
  <1>4. ReportsAreKnown'
    <2>1. report' = report
      BY DEF FinishCompact
    <2>2. CASE Activate(c)
      BY <2>1, <2>2 DEF Activate, ReportsAreKnown
    <2>3. CASE ~Activate(c)
      <3>1. FailRoll(c) /\ raced' = raced
        BY <1>1, <2>3, FinishCompactEffect
      <3>2. \A d \in Calls : roll'[d].state = "active" => roll[d].state = "active"
        BY <1>1, <3>1, FailRollEffect DEF RollOnly
      <3> QED BY <1>1, <2>1, <3>1, <3>2 DEF ReportsAreKnown
    <2> QED BY <2>2, <2>3
  <1>5. SeenIsAll'
    <2>1. call' = call /\ said' = said
      BY DEF FinishCompact
    <2>2. "turn" \notin raced' => "turn" \notin raced
      <3>1. CASE Activate(c)
        BY <3>1 DEF Activate
      <3>2. CASE ~Activate(c)
        BY <1>1, <3>2, FinishCompactEffect
      <3> QED BY <3>1, <3>2
    <2> QED BY <1>1, <2>1, <2>2 DEF SeenIsAll
  <1> QED BY <1>2, <1>3, <1>4, <1>5

\* Manual keeps the order of rows, the boot, reports and messages.
LEMMA ManualKeeps ==
    ASSUME IInv, NEW c \in Calls,
           ManualEnds(c)
    PROVE  BornOnce' /\ BootIsAlone' /\ ReportsAreKnown' /\ SeenIsAll'
  <1>1. /\ RollTypeOK /\ RowsAreSound /\ BornOnce /\ BootIsAlone /\ ReportsAreKnown /\ SeenIsAll
        /\ \A y \in Rows : RowShape(y)
        /\ \A d \in Calls : CallShape(d)
    BY DEF IInv, RowsAreSound, CallsAreSound
  <1>2. BornOnce'
    BY <1>1, ManualEffect, ActivateEffect, FailRollEffect, Typed, RowMembers, RowKinds
    DEF ManualEnds, BornOnce, RowShape, CallShape, TaskOnly, RowOnly, CallOnly, CallMoves, RollOnly, Open
  <1>3. BootIsAlone'
    BY <1>1, ManualEffect, ActivateEffect, FailRollEffect, Typed, RowMembers, RowKinds
    DEF ManualEnds, BootIsAlone, RowShape, CallShape, TaskOnly, RowOnly, CallOnly, CallMoves, RollOnly, Open
  <1>4. ReportsAreKnown'
    <2>1. report' = report
      BY DEF ManualEnds
    <2>2. CASE Activate(c)
      BY <2>1, <2>2 DEF Activate, ReportsAreKnown
    <2>3. CASE ~Activate(c)
      <3>1. FailRoll(c) /\ raced' = raced
        BY <1>1, <2>3, ManualEffect
      <3>2. \A d \in Calls : roll'[d].state = "active" => roll[d].state = "active"
        BY <1>1, <3>1, FailRollEffect DEF RollOnly
      <3> QED BY <1>1, <2>1, <3>1, <3>2 DEF ReportsAreKnown
    <2> QED BY <2>2, <2>3
  <1>5. SeenIsAll'
    <2>1. call' = call /\ said' = said
      BY DEF ManualEnds
    <2>2. "turn" \notin raced' => "turn" \notin raced
      <3>1. CASE Activate(c)
        BY <3>1 DEF Activate
      <3>2. CASE ~Activate(c)
        BY <1>1, <3>2, ManualEffect
      <3> QED BY <3>1, <3>2
    <2> QED BY <1>1, <2>1, <2>2 DEF SeenIsAll
  <1> QED BY <1>2, <1>3, <1>4, <1>5

\* Finish keeps the order of rows, the boot, reports and messages.
LEMMA FinishKeeps ==
    ASSUME IInv, NEW x \in Rows,
           FinishAnswer(x) \/ FinishInactive(x)
    PROVE  BornOnce' /\ BootIsAlone' /\ ReportsAreKnown' /\ SeenIsAll'
  <1>1. /\ RollTypeOK /\ RowsAreSound /\ BornOnce /\ BootIsAlone /\ ReportsAreKnown /\ SeenIsAll
        /\ \A y \in Rows : RowShape(y)
        /\ \A d \in Calls : CallShape(d)
    BY DEF IInv, RowsAreSound, CallsAreSound
  <1>2. BornOnce'
    BY <1>1, FinishEffect, Typed, RowMembers, RowKinds
    DEF FinishAnswer, FinishInactive, BornOnce, RowShape, CallShape, TaskOnly, RowOnly, CallOnly, CallMoves, RollOnly, Open
  <1>3. BootIsAlone'
    BY <1>1, FinishEffect, Typed, RowMembers, RowKinds
    DEF FinishAnswer, FinishInactive, BootIsAlone, RowShape, CallShape, TaskOnly, RowOnly, CallOnly, CallMoves, RollOnly, Open
  <1>4. ReportsAreKnown'
    BY <1>1, FinishEffect, Typed, RowMembers, RowKinds
    DEF FinishAnswer, FinishInactive, ReportsAreKnown, RowShape, CallShape, TaskOnly, RowOnly, CallOnly, CallMoves, RollOnly, Open
  <1>5. SeenIsAll'
    BY <1>1, FinishEffect, Typed, RowMembers, RowKinds
    DEF FinishAnswer, FinishInactive, SeenIsAll, RowShape, CallShape, TaskOnly, RowOnly, CallOnly, CallMoves, RollOnly, Open
  <1> QED BY <1>2, <1>3, <1>4, <1>5

\* Terminal keeps the order of rows, the boot, reports and messages.
LEMMA TerminalKeeps ==
    ASSUME IInv, NEW x \in Rows,
           FinishTerminal(x)
    PROVE  BornOnce' /\ BootIsAlone' /\ ReportsAreKnown' /\ SeenIsAll'
  <1>1. /\ RollTypeOK /\ RowsAreSound /\ BornOnce /\ BootIsAlone /\ ReportsAreKnown /\ SeenIsAll
        /\ \A y \in Rows : RowShape(y)
        /\ \A d \in Calls : CallShape(d)
    BY DEF IInv, RowsAreSound, CallsAreSound
  <1>2. BornOnce'
    BY <1>1, TerminalEffect, Typed, RowMembers, RowKinds
    DEF FinishTerminal, BornOnce, RowShape, CallShape, TaskOnly, RowOnly, CallOnly, CallMoves, RollOnly, Open
  <1>3. BootIsAlone'
    BY <1>1, TerminalEffect, Typed, RowMembers, RowKinds
    DEF FinishTerminal, BootIsAlone, RowShape, CallShape, TaskOnly, RowOnly, CallOnly, CallMoves, RollOnly, Open
  <1>4. ReportsAreKnown'
    BY <1>1, TerminalEffect, Typed, RowMembers, RowKinds
    DEF FinishTerminal, ReportsAreKnown, RowShape, CallShape, TaskOnly, RowOnly, CallOnly, CallMoves, RollOnly, Open
  <1>5. SeenIsAll'
    BY <1>1, TerminalEffect, Typed, RowMembers, RowKinds
    DEF FinishTerminal, SeenIsAll, RowShape, CallShape, TaskOnly, RowOnly, CallOnly, CallMoves, RollOnly, Open
  <1> QED BY <1>2, <1>3, <1>4, <1>5

\* Release keeps the order of rows, the boot, reports and messages.
LEMMA ReleaseKeeps ==
    ASSUME IInv, NEW x \in Rows,
           FinishRelease(x)
    PROVE  BornOnce' /\ BootIsAlone' /\ ReportsAreKnown' /\ SeenIsAll'
  <1>1. /\ RollTypeOK /\ RowsAreSound /\ BornOnce /\ BootIsAlone /\ ReportsAreKnown /\ SeenIsAll
        /\ \A y \in Rows : RowShape(y)
        /\ \A d \in Calls : CallShape(d)
    BY DEF IInv, RowsAreSound, CallsAreSound
  <1>2. BornOnce'
    BY <1>1, ReleaseEffect, Typed, RowMembers, RowKinds
    DEF FinishRelease, BornOnce, RowShape, CallShape, TaskOnly, RowOnly, CallOnly, CallMoves, RollOnly, Open
  <1>3. BootIsAlone'
    BY <1>1, ReleaseEffect, Typed, RowMembers, RowKinds
    DEF FinishRelease, BootIsAlone, RowShape, CallShape, TaskOnly, RowOnly, CallOnly, CallMoves, RollOnly, Open
  <1>4. ReportsAreKnown'
    BY <1>1, ReleaseEffect, Typed, RowMembers, RowKinds
    DEF FinishRelease, ReportsAreKnown, RowShape, CallShape, TaskOnly, RowOnly, CallOnly, CallMoves, RollOnly, Open
  <1>5. SeenIsAll'
    BY <1>1, ReleaseEffect, Typed, RowMembers, RowKinds
    DEF FinishRelease, SeenIsAll, RowShape, CallShape, TaskOnly, RowOnly, CallOnly, CallMoves, RollOnly, Open
  <1> QED BY <1>2, <1>3, <1>4, <1>5

\* Abort keeps the order of rows, the boot, reports and messages.
LEMMA AbortKeeps ==
    ASSUME IInv, Abort
    PROVE  BornOnce' /\ BootIsAlone' /\ ReportsAreKnown' /\ SeenIsAll'
  <1>1. /\ RollTypeOK /\ RowsAreSound /\ BornOnce /\ BootIsAlone /\ ReportsAreKnown /\ SeenIsAll
        /\ \A y \in Rows : RowShape(y)
        /\ \A d \in Calls : CallShape(d)
    BY DEF IInv, RowsAreSound, CallsAreSound
  <1>2. BornOnce'
    BY <1>1, AbortEffect, Typed, RowMembers, RowKinds
    DEF Abort, BornOnce, RowShape, CallShape, TaskOnly, RowOnly, CallOnly, CallMoves, RollOnly, Open
  <1>3. BootIsAlone'
    BY <1>1, AbortEffect, Typed, RowMembers, RowKinds
    DEF Abort, BootIsAlone, RowShape, CallShape, TaskOnly, RowOnly, CallOnly, CallMoves, RollOnly, Open
  <1>4. ReportsAreKnown'
    BY <1>1, AbortEffect, Typed, RowMembers, RowKinds
    DEF Abort, ReportsAreKnown, RowShape, CallShape, TaskOnly, RowOnly, CallOnly, CallMoves, RollOnly, Open
  <1>5. SeenIsAll'
    BY <1>1, AbortEffect, Typed, RowMembers, RowKinds
    DEF Abort, SeenIsAll, RowShape, CallShape, TaskOnly, RowOnly, CallOnly, CallMoves, RollOnly, Open
  <1> QED BY <1>2, <1>3, <1>4, <1>5

\* AbortMark keeps the order of rows, the boot, reports and messages.
LEMMA AbortMarkKeeps ==
    ASSUME IInv, NEW x \in Rows,
           AbortMark(x)
    PROVE  BornOnce' /\ BootIsAlone' /\ ReportsAreKnown' /\ SeenIsAll'
  <1>1. /\ RollTypeOK /\ RowsAreSound /\ BornOnce /\ BootIsAlone /\ ReportsAreKnown /\ SeenIsAll
        /\ \A y \in Rows : RowShape(y)
        /\ \A d \in Calls : CallShape(d)
    BY DEF IInv, RowsAreSound, CallsAreSound
  <1>2. BornOnce'
    BY <1>1, AbortMarkEffect, Typed, RowMembers, RowKinds
    DEF AbortMark, BornOnce, RowShape, CallShape, TaskOnly, RowOnly, CallOnly, CallMoves, RollOnly, Open
  <1>3. BootIsAlone'
    BY <1>1, AbortMarkEffect, Typed, RowMembers, RowKinds
    DEF AbortMark, BootIsAlone, RowShape, CallShape, TaskOnly, RowOnly, CallOnly, CallMoves, RollOnly, Open
  <1>4. ReportsAreKnown'
    BY <1>1, AbortMarkEffect, Typed, RowMembers, RowKinds
    DEF AbortMark, ReportsAreKnown, RowShape, CallShape, TaskOnly, RowOnly, CallOnly, CallMoves, RollOnly, Open
  <1>5. SeenIsAll'
    BY <1>1, AbortMarkEffect, Typed, RowMembers, RowKinds
    DEF AbortMark, SeenIsAll, RowShape, CallShape, TaskOnly, RowOnly, CallOnly, CallMoves, RollOnly, Open
  <1> QED BY <1>2, <1>3, <1>4, <1>5

\* Die keeps the order of rows, the boot, reports and messages.
LEMMA DieKeeps ==
    ASSUME IInv, Die
    PROVE  BornOnce' /\ BootIsAlone' /\ ReportsAreKnown' /\ SeenIsAll'
  <1>1. /\ RollTypeOK /\ RowsAreSound /\ BornOnce /\ BootIsAlone /\ ReportsAreKnown /\ SeenIsAll
        /\ \A y \in Rows : RowShape(y)
        /\ \A d \in Calls : CallShape(d)
    BY DEF IInv, RowsAreSound, CallsAreSound
  <1>2. BornOnce'
    BY <1>1, DieEffect, Typed, RowMembers, RowKinds
    DEF Die, BornOnce, RowShape, CallShape, TaskOnly, RowOnly, CallOnly, CallMoves, RollOnly, Open
  <1>3. BootIsAlone'
    BY <1>1, DieEffect, Typed, RowMembers, RowKinds
    DEF Die, BootIsAlone, RowShape, CallShape, TaskOnly, RowOnly, CallOnly, CallMoves, RollOnly, Open
  <1>4. ReportsAreKnown'
    BY <1>1, DieEffect, Typed, RowMembers, RowKinds
    DEF Die, ReportsAreKnown, RowShape, CallShape, TaskOnly, RowOnly, CallOnly, CallMoves, RollOnly, Open
  <1>5. SeenIsAll'
    BY <1>1, DieEffect, Typed, RowMembers, RowKinds
    DEF Die, SeenIsAll, RowShape, CallShape, TaskOnly, RowOnly, CallOnly, CallMoves, RollOnly, Open
  <1> QED BY <1>2, <1>3, <1>4, <1>5

\* Boot keeps the order of rows, the boot, reports and messages.
LEMMA BootKeeps ==
    ASSUME IInv, Restart \/ Recovered
    PROVE  BornOnce' /\ BootIsAlone' /\ ReportsAreKnown' /\ SeenIsAll'
  <1>1. /\ RollTypeOK /\ RowsAreSound /\ BornOnce /\ BootIsAlone /\ ReportsAreKnown /\ SeenIsAll
        /\ \A y \in Rows : RowShape(y)
        /\ \A d \in Calls : CallShape(d)
    BY DEF IInv, RowsAreSound, CallsAreSound
  <1>2. BornOnce'
    BY <1>1, BootEffect, ReconciledEffect, Typed, RowMembers, RowKinds
    DEF Restart, Recovered, BornOnce, RowShape, CallShape, TaskOnly, RowOnly, CallOnly, CallMoves, RollOnly, Open
  <1>3. BootIsAlone'
    <2>1. /\ task' = task /\ aborting' = aborting /\ call' = call /\ row' = row
          /\ mode.at # "up"
      BY DEF Restart, Recovered
    <2>2. CASE Restart
      <3>1. \A y \in Rows : task[y].at = "none"
        BY <1>1, <2>2 DEF Restart, BootIsAlone
      <3> QED BY <1>1, <2>1, <3>1, BootEffect DEF BootIsAlone
    <2>3. CASE Recovered
      <3>1. mode'.at = "up" /\ mode'.rows = {}
        BY <1>1, <2>3, ModeRecords DEF Recovered, RollTypeOK
      <3> QED BY <3>1 DEF BootIsAlone
    <2> QED BY <2>2, <2>3
  <1>4. ReportsAreKnown'
    BY <1>1, BootEffect, ReconciledEffect, Typed, RowMembers, RowKinds
    DEF Restart, Recovered, ReportsAreKnown, RowShape, CallShape, TaskOnly, RowOnly, CallOnly, CallMoves, RollOnly, Open
  <1>5. SeenIsAll'
    BY <1>1, BootEffect, ReconciledEffect, Typed, RowMembers, RowKinds
    DEF Restart, Recovered, SeenIsAll, RowShape, CallShape, TaskOnly, RowOnly, CallOnly, CallMoves, RollOnly, Open
  <1> QED BY <1>2, <1>3, <1>4, <1>5

\* RecoverNot keeps the order of rows, the boot, reports and messages.
LEMMA RecoverNotKeeps ==
    ASSUME IInv, NEW x \in Rows,
           RecoverNot(x)
    PROVE  BornOnce' /\ BootIsAlone' /\ ReportsAreKnown' /\ SeenIsAll'
  <1>1. /\ RollTypeOK /\ RowsAreSound /\ BornOnce /\ BootIsAlone /\ ReportsAreKnown /\ SeenIsAll
        /\ \A y \in Rows : RowShape(y)
        /\ \A d \in Calls : CallShape(d)
    BY DEF IInv, RowsAreSound, CallsAreSound
  <1>2. BornOnce'
    <2>1. row[x].status # "none" /\ x \in Rows
      BY <1>1 DEF RecoverNot, BootIsAlone, Open
    <2>2. born' = born /\ said' = said /\ call' = call /\ roll' = roll
      BY DEF RecoverNot
    <2>3. \A y \in Rows : row'[y].status # "none" => row[y].status # "none"
      BY <1>1, <2>1, RecoverNotEffect DEF RowOnly
    <2> QED BY <1>1, <2>2, <2>3 DEF BornOnce
  <1>3. BootIsAlone'
    BY <1>1, RecoverNotEffect, Typed, RowMembers, RowKinds
    DEF RecoverNot, BootIsAlone, RowShape, CallShape, TaskOnly, RowOnly, CallOnly, CallMoves, RollOnly, Open
  <1>4. ReportsAreKnown'
    BY <1>1, RecoverNotEffect, Typed, RowMembers, RowKinds
    DEF RecoverNot, ReportsAreKnown, RowShape, CallShape, TaskOnly, RowOnly, CallOnly, CallMoves, RollOnly, Open
  <1>5. SeenIsAll'
    BY <1>1, RecoverNotEffect, Typed, RowMembers, RowKinds
    DEF RecoverNot, SeenIsAll, RowShape, CallShape, TaskOnly, RowOnly, CallOnly, CallMoves, RollOnly, Open
  <1> QED BY <1>2, <1>3, <1>4, <1>5

\* RecoverRow keeps the order of rows, the boot, reports and messages.
LEMMA RecoverRowKeeps ==
    ASSUME IInv, NEW x \in Rows,
           RecoverRow(x)
    PROVE  BornOnce' /\ BootIsAlone' /\ ReportsAreKnown' /\ SeenIsAll'
  <1>1. /\ RollTypeOK /\ RowsAreSound /\ BornOnce /\ BootIsAlone /\ ReportsAreKnown /\ SeenIsAll
        /\ \A y \in Rows : RowShape(y)
        /\ \A d \in Calls : CallShape(d)
    BY DEF IInv, RowsAreSound, CallsAreSound
  <1>2. BornOnce'
    <2>1. row[x].status # "none" /\ x \in Rows
      BY <1>1 DEF RecoverRow, BootIsAlone, Open
    <2>2. born' = born /\ said' = said /\ call' = call /\ roll' = roll
      BY DEF RecoverRow
    <2>3. \A y \in Rows : row'[y].status # "none" => row[y].status # "none"
      BY <1>1, <2>1, RecoverRowEffect DEF RowOnly
    <2> QED BY <1>1, <2>2, <2>3 DEF BornOnce
  <1>3. BootIsAlone'
    BY <1>1, RecoverRowEffect, Typed, RowMembers, RowKinds
    DEF RecoverRow, BootIsAlone, RowShape, CallShape, TaskOnly, RowOnly, CallOnly, CallMoves, RollOnly, Open
  <1>4. ReportsAreKnown'
    BY <1>1, RecoverRowEffect, Typed, RowMembers, RowKinds
    DEF RecoverRow, ReportsAreKnown, RowShape, CallShape, TaskOnly, RowOnly, CallOnly, CallMoves, RollOnly, Open
  <1>5. SeenIsAll'
    BY <1>1, RecoverRowEffect, Typed, RowMembers, RowKinds
    DEF RecoverRow, SeenIsAll, RowShape, CallShape, TaskOnly, RowOnly, CallOnly, CallMoves, RollOnly, Open
  <1> QED BY <1>2, <1>3, <1>4, <1>5

-----------------------------------------------------------------------------
(* Who carries a prompt.                                                     *)

\* A row that exists goes on existing, does not begin to carry a prompt, and a
\* failed one that carries it stays failed.
Steady(y) ==
    row[y].status # "none" =>
        /\ row'[y].status # "none"
        /\ Carries(y)' => /\ Carries(y)
                          /\ row[y].status = "failed" => row'[y].status = "failed"
Unborn(y) == row[y].status = "none" => ~Carries(y)'
FailuresStay == \A c \in Calls : roll[c].state = "failed" => roll'[c].state = "failed"
OwnersStay ==
    \A c \in Calls : /\ call'[c].turn = call[c].turn /\ call'[c].source = call[c].source
                     /\ call'[c].at = "none" <=> call[c].at = "none"
                     /\ Reading(c)' => Reading(c)

\* Rows are not staged anew by steps that prepare, activate and insert nothing.
LEMMA StagedKept ==
    ASSUME NEW y \in Rows,
           \A c \in Calls : call'[c].at = "prepared" => call[c].at = "prepared",
           \A c \in Calls : task'[Compact(c)].how = "activated" =>
                                task[Compact(c)].how = "activated",
           \A c \in Calls : row'[Again(c)].status # "none" =>
                                row[Again(c)].status # "none"
    PROVE  Staged(y)' => Staged(y)
  BY StagedKinds, RowMembers

\* A row that does not exist has no task and none coming.
LEMMA UnbornRests ==
    ASSUME IInv, NEW y \in Rows, row[y].status = "none"
    PROVE  task[y].at = "none" /\ task[y].how = "none" /\ ~Staged(y) /\ ~Carries(y)
  <1>1. RowShape(y) /\ \A d \in Calls : CallShape(d)
    BY DEF IInv, RowsAreSound, CallsAreSound
  <1>2. ~Staged(y)
    BY <1>1, StagedKinds, RowMembers DEF CallShape
  <1> QED BY <1>1, <1>2 DEF RowShape, Carries, Pending, Open

\* BeginTurn: which rows may newly carry a prompt, and who owns them.
LEMMA BeginTurnHands ==
    ASSUME IInv, NEW t \in Turns,
           BeginTurn(t)
    PROVE  /\ \A y \in Rows : Steady(y) /\ (y # Turn(t) => Unborn(y))
           /\ FailuresStay /\ OwnersStay
  <1>1. /\ RollTypeOK /\ RowsAreSound /\ BornOnce /\ BootIsAlone
        /\ \A y \in Rows : RowShape(y)
        /\ \A d \in Calls : CallShape(d)
    BY DEF IInv, RowsAreSound, CallsAreSound
  <1>2. ASSUME NEW y \in Rows PROVE Steady(y)
    <2> SUFFICES ASSUME row[y].status # "none" PROVE Steady(y)
      BY DEF Steady
    <2>3. row[Turn(t)].status = "none"
      BY <1>1, RowMembers DEF BornOnce, BeginTurn
    <2>1. /\ row'[y].status = IF row[y].status \in Open THEN "interrupted"
                              ELSE row[y].status
          /\ task'[y] = task[y]
      BY <1>1, <2>3, BeginTurnEffect DEF TaskOnly
    <2>2. Staged(y)' => Staged(y)
      <3>1. /\ call' = call
            /\ \A c \in Calls : /\ task'[Compact(c)] = task[Compact(c)]
                                /\ row'[Again(c)].status # "none" => row[Again(c)].status # "none"
        BY <1>1, BeginTurnEffect, RowMembers, RowKinds DEF BeginTurn, TaskOnly, Open
      <3> QED BY <3>1, StagedKept
    <2> QED BY <2>1, <2>2 DEF Steady, Carries, Pending, Open
  <1>3. ASSUME NEW y \in Rows, y # Turn(t) PROVE Unborn(y)
    <2> SUFFICES ASSUME row[y].status = "none" PROVE ~Carries(y)'
      BY DEF Unborn
    <2>1. /\ row'[y].status = IF row[y].status \in Open THEN "interrupted"
                              ELSE row[y].status
          /\ task'[y] = task[y]
      BY <1>1, <1>3, BeginTurnEffect DEF TaskOnly
    <2>2. Staged(y)' => Staged(y)
      <3>1. /\ call' = call
            /\ \A c \in Calls : /\ task'[Compact(c)] = task[Compact(c)]
                                /\ row'[Again(c)].status # "none" => row[Again(c)].status # "none"
        BY <1>1, BeginTurnEffect, RowMembers, RowKinds DEF BeginTurn, TaskOnly, Open
      <3> QED BY <3>1, StagedKept
    <2>3. task[y].at = "none" /\ ~Staged(y)
      BY UnbornRests
    <2> QED BY <2>1, <2>2, <2>3 DEF Carries, Pending, Open
  <1>4. FailuresStay /\ OwnersStay
    BY <1>1, BeginTurnEffect, Typed, RowMembers, RowKinds, StagedKinds
    DEF BeginTurn, FailuresStay, OwnersStay, Reading, CallShape, TaskOnly, RowOnly, CallOnly, CallMoves, RollOnly, Open
  <1> QED BY <1>2, <1>3, <1>4

\* Register: which rows may newly carry a prompt, and who owns them.
LEMMA RegisterHands ==
    ASSUME IInv, NEW x \in Rows,
           Register(x)
    PROVE  /\ \A y \in Rows : Steady(y) /\ Unborn(y)
           /\ FailuresStay /\ OwnersStay
  <1>1. /\ RollTypeOK /\ RowsAreSound /\ BornOnce /\ BootIsAlone
        /\ \A y \in Rows : RowShape(y)
        /\ \A d \in Calls : CallShape(d)
    BY DEF IInv, RowsAreSound, CallsAreSound
  <1>2. ASSUME NEW y \in Rows PROVE Steady(y)
    BY <1>1, RegisterEffect, Typed, RowMembers, RowKinds, StagedKinds
    DEF Register, Steady, Carries, Pending, RowShape, CallShape, TaskOnly, RowOnly, CallOnly, CallMoves, RollOnly, Open
  <1>3. ASSUME NEW y \in Rows PROVE Unborn(y)
    BY <1>1, RegisterEffect, Typed, RowMembers, RowKinds, StagedKinds
    DEF Register, Unborn, Carries, Pending, RowShape, CallShape, TaskOnly, RowOnly, CallOnly, CallMoves, RollOnly, Open
  <1>4. FailuresStay /\ OwnersStay
    BY <1>1, RegisterEffect, Typed, RowMembers, RowKinds, StagedKinds
    DEF Register, FailuresStay, OwnersStay, Reading, CallShape, TaskOnly, RowOnly, CallOnly, CallMoves, RollOnly, Open
  <1> QED BY <1>2, <1>3, <1>4

\* StartFails: which rows may newly carry a prompt, and who owns them.
LEMMA StartFailsHands ==
    ASSUME IInv, NEW x \in Rows,
           StartFails(x)
    PROVE  /\ \A y \in Rows : Steady(y) /\ Unborn(y)
           /\ FailuresStay /\ OwnersStay
  <1>1. /\ RollTypeOK /\ RowsAreSound /\ BornOnce /\ BootIsAlone
        /\ \A y \in Rows : RowShape(y)
        /\ \A d \in Calls : CallShape(d)
    BY DEF IInv, RowsAreSound, CallsAreSound
  <1>2. ASSUME NEW y \in Rows PROVE Steady(y)
    BY <1>1, StartFailsEffect, Typed, RowMembers, RowKinds, StagedKinds
    DEF StartFails, Steady, Carries, Pending, RowShape, CallShape, TaskOnly, RowOnly, CallOnly, CallMoves, RollOnly, Open
  <1>3. ASSUME NEW y \in Rows PROVE Unborn(y)
    BY <1>1, StartFailsEffect, Typed, RowMembers, RowKinds, StagedKinds
    DEF StartFails, Unborn, Carries, Pending, RowShape, CallShape, TaskOnly, RowOnly, CallOnly, CallMoves, RollOnly, Open
  <1>4. FailuresStay /\ OwnersStay
    BY <1>1, StartFailsEffect, Typed, RowMembers, RowKinds, StagedKinds
    DEF StartFails, FailuresStay, OwnersStay, Reading, CallShape, TaskOnly, RowOnly, CallOnly, CallMoves, RollOnly, Open
  <1> QED BY <1>2, <1>3, <1>4

\* StartFailed: which rows may newly carry a prompt, and who owns them.
LEMMA StartFailedHands ==
    ASSUME IInv, NEW x \in Rows,
           StartFailed(x)
    PROVE  /\ \A y \in Rows : Steady(y) /\ Unborn(y)
           /\ FailuresStay /\ OwnersStay
  <1>1. /\ RollTypeOK /\ RowsAreSound /\ BornOnce /\ BootIsAlone
        /\ \A y \in Rows : RowShape(y)
        /\ \A d \in Calls : CallShape(d)
    BY DEF IInv, RowsAreSound, CallsAreSound
  <1>2. ASSUME NEW y \in Rows PROVE Steady(y)
    BY <1>1, StartFailedEffect, Typed, RowMembers, RowKinds, StagedKinds
    DEF StartFailed, Steady, Carries, Pending, RowShape, CallShape, TaskOnly, RowOnly, CallOnly, CallMoves, RollOnly, Open
  <1>3. ASSUME NEW y \in Rows PROVE Unborn(y)
    BY <1>1, StartFailedEffect, Typed, RowMembers, RowKinds, StagedKinds
    DEF StartFailed, Unborn, Carries, Pending, RowShape, CallShape, TaskOnly, RowOnly, CallOnly, CallMoves, RollOnly, Open
  <1>4. FailuresStay /\ OwnersStay
    BY <1>1, StartFailedEffect, Typed, RowMembers, RowKinds, StagedKinds
    DEF StartFailed, FailuresStay, OwnersStay, Reading, CallShape, TaskOnly, RowOnly, CallOnly, CallMoves, RollOnly, Open
  <1> QED BY <1>2, <1>3, <1>4

\* Provider: which rows may newly carry a prompt, and who owns them.
LEMMA ProviderHands ==
    ASSUME IInv, NEW x \in Rows,
           ProviderEnds(x) \/ ProviderStopped(x)
    PROVE  /\ \A y \in Rows : Steady(y) /\ Unborn(y)
           /\ FailuresStay /\ OwnersStay
  <1>1. /\ RollTypeOK /\ RowsAreSound /\ BornOnce /\ BootIsAlone
        /\ \A y \in Rows : RowShape(y)
        /\ \A d \in Calls : CallShape(d)
    BY DEF IInv, RowsAreSound, CallsAreSound
  <1>2. ASSUME NEW y \in Rows PROVE Steady(y)
    BY <1>1, ProviderEffect, Typed, RowMembers, RowKinds, StagedKinds
    DEF ProviderEnds, ProviderStopped, Steady, Carries, Pending, RowShape, CallShape, TaskOnly, RowOnly, CallOnly, CallMoves, RollOnly, Open
  <1>3. ASSUME NEW y \in Rows PROVE Unborn(y)
    BY <1>1, ProviderEffect, Typed, RowMembers, RowKinds, StagedKinds
    DEF ProviderEnds, ProviderStopped, Unborn, Carries, Pending, RowShape, CallShape, TaskOnly, RowOnly, CallOnly, CallMoves, RollOnly, Open
  <1>4. FailuresStay /\ OwnersStay
    BY <1>1, ProviderEffect, Typed, RowMembers, RowKinds, StagedKinds
    DEF ProviderEnds, ProviderStopped, FailuresStay, OwnersStay, Reading, CallShape, TaskOnly, RowOnly, CallOnly, CallMoves, RollOnly, Open
  <1> QED BY <1>2, <1>3, <1>4

\* Thread: which rows may newly carry a prompt, and who owns them.
LEMMA ThreadHands ==
    ASSUME IInv, NEW x \in Rows,
           ThreadChecked(x) \/ ThreadWritten(x)
    PROVE  /\ \A y \in Rows : Steady(y) /\ Unborn(y)
           /\ FailuresStay /\ OwnersStay
  <1>1. /\ RollTypeOK /\ RowsAreSound /\ BornOnce /\ BootIsAlone
        /\ \A y \in Rows : RowShape(y)
        /\ \A d \in Calls : CallShape(d)
    BY DEF IInv, RowsAreSound, CallsAreSound
  <1>2. ASSUME NEW y \in Rows PROVE Steady(y)
    BY <1>1, ThreadEffect, Typed, RowMembers, RowKinds, StagedKinds
    DEF ThreadChecked, ThreadWritten, Steady, Carries, Pending, RowShape, CallShape, TaskOnly, RowOnly, CallOnly, CallMoves, RollOnly, Open
  <1>3. ASSUME NEW y \in Rows PROVE Unborn(y)
    BY <1>1, ThreadEffect, Typed, RowMembers, RowKinds, StagedKinds
    DEF ThreadChecked, ThreadWritten, Unborn, Carries, Pending, RowShape, CallShape, TaskOnly, RowOnly, CallOnly, CallMoves, RollOnly, Open
  <1>4. FailuresStay /\ OwnersStay
    BY <1>1, ThreadEffect, Typed, RowMembers, RowKinds, StagedKinds
    DEF ThreadChecked, ThreadWritten, FailuresStay, OwnersStay, Reading, CallShape, TaskOnly, RowOnly, CallOnly, CallMoves, RollOnly, Open
  <1> QED BY <1>2, <1>3, <1>4

\* Stage: which rows may newly carry a prompt, and who owns them.
LEMMA StageHands ==
    ASSUME IInv, NEW c \in Calls,
           StageCandidate(c)
    PROVE  /\ \A y \in Rows : Steady(y) /\ Unborn(y)
           /\ FailuresStay /\ OwnersStay
  <1>1. /\ RollTypeOK /\ RowsAreSound /\ BornOnce /\ BootIsAlone
        /\ \A y \in Rows : RowShape(y)
        /\ \A d \in Calls : CallShape(d)
    BY DEF IInv, RowsAreSound, CallsAreSound
  <1>2. ASSUME NEW y \in Rows PROVE Steady(y)
    BY <1>1, StageEffect, Typed, RowMembers, RowKinds, StagedKinds
    DEF StageCandidate, Steady, Carries, Pending, RowShape, CallShape, TaskOnly, RowOnly, CallOnly, CallMoves, RollOnly, Open
  <1>3. ASSUME NEW y \in Rows PROVE Unborn(y)
    BY <1>1, StageEffect, Typed, RowMembers, RowKinds, StagedKinds
    DEF StageCandidate, Unborn, Carries, Pending, RowShape, CallShape, TaskOnly, RowOnly, CallOnly, CallMoves, RollOnly, Open
  <1>4. FailuresStay /\ OwnersStay
    BY <1>1, StageEffect, Typed, RowMembers, RowKinds, StagedKinds
    DEF StageCandidate, FailuresStay, OwnersStay, Reading, CallShape, TaskOnly, RowOnly, CallOnly, CallMoves, RollOnly, Open
  <1> QED BY <1>2, <1>3, <1>4

\* Read: which rows may newly carry a prompt, and who owns them.
LEMMA ReadHands ==
    ASSUME IInv, NEW c \in Calls, NEW t \in Turns \cup {NoTurn},
           NEW x \in Rows \cup {NoRow},
           ReadChat(c, t, x),
           Kind[c] = "manual" => x = NoRow,
           Kind[c] = "retry" => t \in Turns /\ said[t] # "none"
    PROVE  /\ \A y \in Rows : Steady(y) /\ Unborn(y)
           /\ FailuresStay
  <1>1. /\ RollTypeOK /\ RowsAreSound /\ BornOnce /\ BootIsAlone
        /\ \A y \in Rows : RowShape(y)
        /\ \A d \in Calls : CallShape(d)
    BY DEF IInv, RowsAreSound, CallsAreSound
  <1>2. ASSUME NEW y \in Rows PROVE Steady(y)
    BY <1>1, ReadEffect, Typed, RowMembers, RowKinds, StagedKinds
    DEF ReadChat, Steady, Carries, Pending, RowShape, CallShape, TaskOnly, RowOnly, CallOnly, CallMoves, RollOnly, Open
  <1>3. ASSUME NEW y \in Rows PROVE Unborn(y)
    BY <1>1, ReadEffect, Typed, RowMembers, RowKinds, StagedKinds
    DEF ReadChat, Unborn, Carries, Pending, RowShape, CallShape, TaskOnly, RowOnly, CallOnly, CallMoves, RollOnly, Open
  <1>4. FailuresStay
    BY <1>1, ReadEffect, Typed, RowMembers, RowKinds, StagedKinds
    DEF ReadChat, FailuresStay, OwnersStay, Reading, CallShape, TaskOnly, RowOnly, CallOnly, CallMoves, RollOnly, Open
  <1> QED BY <1>2, <1>3, <1>4

\* Replace: which rows may newly carry a prompt, and who owns them.
LEMMA ReplaceHands ==
    ASSUME IInv, NEW c \in Calls,
           ReplaceMessages(c)
    PROVE  /\ \A y \in Rows : Steady(y) /\ Unborn(y)
           /\ FailuresStay /\ OwnersStay
  <1>1. /\ RollTypeOK /\ RowsAreSound /\ BornOnce /\ BootIsAlone
        /\ \A y \in Rows : RowShape(y)
        /\ \A d \in Calls : CallShape(d)
    BY DEF IInv, RowsAreSound, CallsAreSound
  <1>2. ASSUME NEW y \in Rows PROVE Steady(y)
    BY <1>1, ReplaceEffect, Typed, RowMembers, RowKinds, StagedKinds
    DEF ReplaceMessages, Steady, Carries, Pending, RowShape, CallShape, TaskOnly, RowOnly, CallOnly, CallMoves, RollOnly, Open
  <1>3. ASSUME NEW y \in Rows PROVE Unborn(y)
    BY <1>1, ReplaceEffect, Typed, RowMembers, RowKinds, StagedKinds
    DEF ReplaceMessages, Unborn, Carries, Pending, RowShape, CallShape, TaskOnly, RowOnly, CallOnly, CallMoves, RollOnly, Open
  <1>4. FailuresStay /\ OwnersStay
    BY <1>1, ReplaceEffect, Typed, RowMembers, RowKinds, StagedKinds
    DEF ReplaceMessages, FailuresStay, OwnersStay, Reading, CallShape, TaskOnly, RowOnly, CallOnly, CallMoves, RollOnly, Open
  <1> QED BY <1>2, <1>3, <1>4

\* Prepare: which rows may newly carry a prompt, and who owns them.
LEMMA PrepareHands ==
    ASSUME IInv, NEW c \in Calls,
           Prepare(c)
    PROVE  /\ \A y \in Rows : Steady(y) /\ (y # Compact(c) => Unborn(y))
           /\ FailuresStay /\ OwnersStay
  <1>1. /\ RollTypeOK /\ RowsAreSound /\ BornOnce /\ BootIsAlone
        /\ \A y \in Rows : RowShape(y)
        /\ \A d \in Calls : CallShape(d)
    BY DEF IInv, RowsAreSound, CallsAreSound
  <1>2. ASSUME NEW y \in Rows PROVE Steady(y)
    BY <1>1, PrepareEffect, Typed, RowMembers, RowKinds, StagedKinds
    DEF Prepare, Steady, Carries, Pending, RowShape, CallShape, TaskOnly, RowOnly, CallOnly, CallMoves, RollOnly, Open
  <1>3. ASSUME NEW y \in Rows, y # Compact(c) PROVE Unborn(y)
    <2> SUFFICES ASSUME row[y].status = "none" PROVE ~Carries(y)'
      BY DEF Unborn
    <2>1. task[y].at = "none" /\ ~Staged(y)
      BY UnbornRests
    <2>2. row'[y].status = "none" /\ task' = task
      <3>1. CASE row' = row
        BY <3>1 DEF Prepare
      <3>2. CASE row' # row
        <4>1. /\ Kind[c] = "manual" \/ row[call[c].source].status = "failed"
              /\ row'[y].status = IF y = call[c].source THEN "superseded" ELSE row[y].status
          BY <1>1, <1>3, <3>2, PrepareEffect
        <4>2. y # call[c].source
          BY <1>1, <4>1, RowMembers DEF CallShape
        <4> QED BY <4>1, <4>2 DEF Prepare
      <3> QED BY <3>1, <3>2
    <2>3. ~Staged(y)'
      <3>1. CASE \E u \in Turns : y = Turn(u)
        BY <3>1, StagedKinds
      <3>2. ASSUME NEW d \in Calls, y = Compact(d) PROVE ~Staged(y)'
        <4>1. call'[d] = call[d]
          BY <1>1, <1>3, <3>2, PrepareEffect DEF CallOnly
        <4> QED BY <2>1, <3>2, <4>1, StagedKinds
      <3>3. CASE \E d \in Calls : y = Again(d)
        BY <2>2, <3>3, StagedKinds
      <3> QED BY <3>1, <3>2, <3>3, RowMembers
    <2> QED BY <2>1, <2>2, <2>3 DEF Carries, Pending, Open
  <1>4. FailuresStay /\ OwnersStay
    <2>1. FailuresStay
      <3>1. roll[c].state = "none"
        BY <1>1 DEF Prepare, CallShape
      <3>2. \A d \in Calls : d # c => roll'[d] = roll[d]
        BY <1>1, PrepareEffect DEF RollOnly
      <3> QED BY <3>1, <3>2 DEF FailuresStay
    <2>2. /\ CallOnly(c) /\ call'[c].turn = call[c].turn /\ call'[c].source = call[c].source
          /\ call'[c].at \in {"over", "prepared"} /\ call[c].at = "replaced"
      BY <1>1, PrepareEffect DEF Prepare, CallMoves
    <2> QED BY <2>1, <2>2 DEF OwnersStay, Reading, CallOnly
  <1> QED BY <1>2, <1>3, <1>4

\* Launch: which rows may newly carry a prompt, and who owns them.
LEMMA LaunchHands ==
    ASSUME IInv, NEW c \in Calls,
           Launch(c)
    PROVE  /\ \A y \in Rows : Steady(y) /\ Unborn(y)
           /\ FailuresStay /\ OwnersStay
  <1>1. /\ RollTypeOK /\ RowsAreSound /\ BornOnce /\ BootIsAlone
        /\ \A y \in Rows : RowShape(y)
        /\ \A d \in Calls : CallShape(d)
    BY DEF IInv, RowsAreSound, CallsAreSound
  <1>2. ASSUME NEW y \in Rows PROVE Steady(y)
    BY <1>1, LaunchEffect, Typed, RowMembers, RowKinds, StagedKinds
    DEF Launch, Steady, Carries, Pending, RowShape, CallShape, TaskOnly, RowOnly, CallOnly, CallMoves, RollOnly, Open
  <1>3. ASSUME NEW y \in Rows PROVE Unborn(y)
    BY <1>1, LaunchEffect, Typed, RowMembers, RowKinds, StagedKinds
    DEF Launch, Unborn, Carries, Pending, RowShape, CallShape, TaskOnly, RowOnly, CallOnly, CallMoves, RollOnly, Open
  <1>4. FailuresStay /\ OwnersStay
    BY <1>1, LaunchEffect, Typed, RowMembers, RowKinds, StagedKinds
    DEF Launch, FailuresStay, OwnersStay, Reading, CallShape, TaskOnly, RowOnly, CallOnly, CallMoves, RollOnly, Open
  <1> QED BY <1>2, <1>3, <1>4

\* FinishCompact: which rows may newly carry a prompt, and who owns them.
LEMMA FinishCompactHands ==
    ASSUME IInv, NEW c \in Calls,
           FinishCompact(c)
    PROVE  /\ \A y \in Rows : Steady(y) /\ (y # Again(c) => Unborn(y))
           /\ FailuresStay /\ OwnersStay
  <1>1. /\ RollTypeOK /\ RowsAreSound /\ BornOnce /\ BootIsAlone
        /\ \A y \in Rows : RowShape(y)
        /\ \A d \in Calls : CallShape(d)
    BY DEF IInv, RowsAreSound, CallsAreSound
  <1>2. ASSUME NEW y \in Rows PROVE Steady(y)
    BY <1>1, FinishCompactEffect, ActivateEffect, FailRollEffect, Typed, RowMembers, RowKinds, StagedKinds
    DEF FinishCompact, Steady, Carries, Pending, RowShape, CallShape, TaskOnly, RowOnly, CallOnly, CallMoves, RollOnly, Open
  <1>3. ASSUME NEW y \in Rows, y # Again(c) PROVE Unborn(y)
    <2> SUFFICES ASSUME row[y].status = "none" PROVE ~Carries(y)'
      BY DEF Unborn
    <2>1. task[y].at = "none" /\ ~Staged(y)
      BY UnbornRests
    <2>2. y # Compact(c)
      BY <1>1 DEF RowShape, FinishCompact
    <2>3. row'[y].status = "none" /\ task'[y].at = "none"
      <3>1. task'[y].at = "none"
        BY <1>1, <2>1, <2>2, FinishCompactEffect DEF TaskOnly
      <3>2. CASE CanComplete(c) /\ Activate(c)
        BY <1>1, <1>3, <2>2, <3>1, <3>2, ActivateEffect DEF FinishCompact, ToRunAgain
      <3>3. CASE ~(CanComplete(c) /\ Activate(c))
        BY <1>1, <2>2, <3>1, <3>3, FinishCompactEffect DEF RowOnly
      <3> QED BY <3>2, <3>3
    <2>4. ~Staged(y)'
      BY <2>1, <2>3, StagedKinds, RowMembers DEF FinishCompact
    <2> QED BY <2>3, <2>4 DEF Carries, Pending, Open
  <1>4. FailuresStay /\ OwnersStay
    <2>1. call' = call
      BY DEF FinishCompact
    <2>2. CASE CanComplete(c) /\ Activate(c)
      <3>1. roll[c].state # "failed" /\ RollOnly(c)
        BY <1>1, <2>2, ActivateEffect DEF CanComplete
      <3> QED BY <2>1, <3>1 DEF FailuresStay, OwnersStay, Reading, RollOnly
    <2>3. CASE ~(CanComplete(c) /\ Activate(c))
      BY <1>1, <2>1, <2>3, FinishCompactEffect, FailRollEffect DEF FailuresStay, OwnersStay, Reading, RollOnly
    <2> QED BY <2>2, <2>3
  <1> QED BY <1>2, <1>3, <1>4

\* Manual: which rows may newly carry a prompt, and who owns them.
LEMMA ManualHands ==
    ASSUME IInv, NEW c \in Calls,
           ManualEnds(c)
    PROVE  /\ \A y \in Rows : Steady(y) /\ Unborn(y)
           /\ FailuresStay /\ OwnersStay
  <1>1. /\ RollTypeOK /\ RowsAreSound /\ BornOnce /\ BootIsAlone
        /\ \A y \in Rows : RowShape(y)
        /\ \A d \in Calls : CallShape(d)
    BY DEF IInv, RowsAreSound, CallsAreSound
  <1>2. ASSUME NEW y \in Rows PROVE Steady(y)
    BY <1>1, ManualEffect, ActivateEffect, FailRollEffect, Typed, RowMembers, RowKinds, StagedKinds
    DEF ManualEnds, Steady, Carries, Pending, RowShape, CallShape, TaskOnly, RowOnly, CallOnly, CallMoves, RollOnly, Open
  <1>3. ASSUME NEW y \in Rows PROVE Unborn(y)
    <2> SUFFICES ASSUME row[y].status = "none" PROVE ~Carries(y)'
      BY DEF Unborn
    <2>1. task[y].at = "none" /\ ~Staged(y)
      BY UnbornRests
    <2>2. y # Compact(c)
      BY <1>1 DEF RowShape, ManualEnds
    <2>3. row'[y].status = "none" /\ task'[y].at = "none"
      <3>1. task'[y].at = "none"
        BY <1>1, <2>1, <2>2, ManualEffect DEF TaskOnly
      <3>2. CASE CanComplete(c) /\ Activate(c)
        BY <1>1, <2>2, <3>1, <3>2, ActivateEffect DEF ManualEnds, ToRunAgain
      <3>3. CASE ~(CanComplete(c) /\ Activate(c))
        BY <1>1, <2>2, <3>1, <3>3, ManualEffect DEF RowOnly
      <3> QED BY <3>2, <3>3
    <2>4. ~Staged(y)'
      BY <2>1, <2>3, StagedKinds, RowMembers DEF ManualEnds
    <2> QED BY <2>3, <2>4 DEF Carries, Pending, Open
  <1>4. FailuresStay /\ OwnersStay
    <2>1. call' = call
      BY DEF ManualEnds
    <2>2. CASE CanComplete(c) /\ Activate(c)
      <3>1. roll[c].state # "failed" /\ RollOnly(c)
        BY <1>1, <2>2, ActivateEffect DEF CanComplete
      <3> QED BY <2>1, <3>1 DEF FailuresStay, OwnersStay, Reading, RollOnly
    <2>3. CASE ~(CanComplete(c) /\ Activate(c))
      BY <1>1, <2>1, <2>3, ManualEffect, FailRollEffect DEF FailuresStay, OwnersStay, Reading, RollOnly
    <2> QED BY <2>2, <2>3
  <1> QED BY <1>2, <1>3, <1>4

\* Finish: which rows may newly carry a prompt, and who owns them.
LEMMA FinishHands ==
    ASSUME IInv, NEW x \in Rows,
           FinishAnswer(x) \/ FinishInactive(x)
    PROVE  /\ \A y \in Rows : Steady(y) /\ Unborn(y)
           /\ FailuresStay /\ OwnersStay
  <1>1. /\ RollTypeOK /\ RowsAreSound /\ BornOnce /\ BootIsAlone
        /\ \A y \in Rows : RowShape(y)
        /\ \A d \in Calls : CallShape(d)
    BY DEF IInv, RowsAreSound, CallsAreSound
  <1>2. ASSUME NEW y \in Rows PROVE Steady(y)
    BY <1>1, FinishEffect, Typed, RowMembers, RowKinds, StagedKinds
    DEF FinishAnswer, FinishInactive, Steady, Carries, Pending, RowShape, CallShape, TaskOnly, RowOnly, CallOnly, CallMoves, RollOnly, Open
  <1>3. ASSUME NEW y \in Rows PROVE Unborn(y)
    BY <1>1, FinishEffect, Typed, RowMembers, RowKinds, StagedKinds
    DEF FinishAnswer, FinishInactive, Unborn, Carries, Pending, RowShape, CallShape, TaskOnly, RowOnly, CallOnly, CallMoves, RollOnly, Open
  <1>4. FailuresStay /\ OwnersStay
    BY <1>1, FinishEffect, Typed, RowMembers, RowKinds, StagedKinds
    DEF FinishAnswer, FinishInactive, FailuresStay, OwnersStay, Reading, CallShape, TaskOnly, RowOnly, CallOnly, CallMoves, RollOnly, Open
  <1> QED BY <1>2, <1>3, <1>4

\* Terminal: which rows may newly carry a prompt, and who owns them.
LEMMA TerminalHands ==
    ASSUME IInv, NEW x \in Rows,
           FinishTerminal(x)
    PROVE  /\ \A y \in Rows : Steady(y) /\ Unborn(y)
           /\ FailuresStay /\ OwnersStay
  <1>1. /\ RollTypeOK /\ RowsAreSound /\ BornOnce /\ BootIsAlone
        /\ \A y \in Rows : RowShape(y)
        /\ \A d \in Calls : CallShape(d)
    BY DEF IInv, RowsAreSound, CallsAreSound
  <1>2. ASSUME NEW y \in Rows PROVE Steady(y)
    BY <1>1, TerminalEffect, Typed, RowMembers, RowKinds, StagedKinds
    DEF FinishTerminal, Steady, Carries, Pending, RowShape, CallShape, TaskOnly, RowOnly, CallOnly, CallMoves, RollOnly, Open
  <1>3. ASSUME NEW y \in Rows PROVE Unborn(y)
    BY <1>1, TerminalEffect, Typed, RowMembers, RowKinds, StagedKinds
    DEF FinishTerminal, Unborn, Carries, Pending, RowShape, CallShape, TaskOnly, RowOnly, CallOnly, CallMoves, RollOnly, Open
  <1>4. FailuresStay /\ OwnersStay
    BY <1>1, TerminalEffect, Typed, RowMembers, RowKinds, StagedKinds
    DEF FinishTerminal, FailuresStay, OwnersStay, Reading, CallShape, TaskOnly, RowOnly, CallOnly, CallMoves, RollOnly, Open
  <1> QED BY <1>2, <1>3, <1>4

\* Release: which rows may newly carry a prompt, and who owns them.
LEMMA ReleaseHands ==
    ASSUME IInv, NEW x \in Rows,
           FinishRelease(x)
    PROVE  /\ \A y \in Rows : Steady(y) /\ Unborn(y)
           /\ FailuresStay /\ OwnersStay
  <1>1. /\ RollTypeOK /\ RowsAreSound /\ BornOnce /\ BootIsAlone
        /\ \A y \in Rows : RowShape(y)
        /\ \A d \in Calls : CallShape(d)
    BY DEF IInv, RowsAreSound, CallsAreSound
  <1>2. ASSUME NEW y \in Rows PROVE Steady(y)
    <2>1. row' = row /\ call' = call
      BY DEF FinishRelease
    <2>2. Staged(y)' => Staged(y)
      <3>1. \A z \in Rows : task'[z].how = "activated" => task[z].how = "activated"
        BY <1>1, ReleaseEffect
      <3> QED BY <2>1, <3>1, StagedKept, RowMembers
    <2>3. Pending(y)' => Pending(y) \/ Staged(y)
      <3>1. CASE y = x
        BY <1>1, <3>1, ReleaseEffect DEF Pending
      <3>2. CASE task'[y] = task[y]
        BY <3>2 DEF Pending
      <3>3. CASE y # x /\ task'[y] # task[y]
        <4>1. /\ task[x].how = "activated" /\ row[y].status # "none"
              /\ \E c \in Calls : x = Compact(c) /\ y = Again(c)
          BY <1>1, <3>3, ReleaseEffect
        <4> QED BY <4>1, StagedKinds
      <3> QED BY <3>1, <3>2, <3>3
    <2> QED BY <2>1, <2>2, <2>3 DEF Steady, Carries
  <1>3. ASSUME NEW y \in Rows PROVE Unborn(y)
    <2>1. row' = row /\ call' = call
      BY DEF FinishRelease
    <2>2. Staged(y)' => Staged(y)
      <3>1. \A z \in Rows : task'[z].how = "activated" => task[z].how = "activated"
        BY <1>1, ReleaseEffect
      <3> QED BY <2>1, <3>1, StagedKept, RowMembers
    <2>3. Pending(y)' => Pending(y) \/ Staged(y)
      <3>1. CASE y = x
        BY <1>1, <3>1, ReleaseEffect DEF Pending
      <3>2. CASE task'[y] = task[y]
        BY <3>2 DEF Pending
      <3>3. CASE y # x /\ task'[y] # task[y]
        <4>1. /\ task[x].how = "activated" /\ row[y].status # "none"
              /\ \E c \in Calls : x = Compact(c) /\ y = Again(c)
          BY <1>1, <3>3, ReleaseEffect
        <4> QED BY <4>1, StagedKinds
      <3> QED BY <3>1, <3>2, <3>3
    <2> QED BY <2>1, <2>2, <2>3, UnbornRests DEF Unborn, Carries
  <1>4. FailuresStay /\ OwnersStay
    BY <1>1, ReleaseEffect, Typed, RowMembers, RowKinds, StagedKinds
    DEF FinishRelease, FailuresStay, OwnersStay, Reading, CallShape, TaskOnly, RowOnly, CallOnly, CallMoves, RollOnly, Open
  <1> QED BY <1>2, <1>3, <1>4

\* Abort: which rows may newly carry a prompt, and who owns them.
LEMMA AbortHands ==
    ASSUME IInv, Abort
    PROVE  /\ \A y \in Rows : Steady(y) /\ Unborn(y)
           /\ FailuresStay /\ OwnersStay
  <1>1. /\ RollTypeOK /\ RowsAreSound /\ BornOnce /\ BootIsAlone
        /\ \A y \in Rows : RowShape(y)
        /\ \A d \in Calls : CallShape(d)
    BY DEF IInv, RowsAreSound, CallsAreSound
  <1>2. ASSUME NEW y \in Rows PROVE Steady(y)
    BY <1>1, AbortEffect, Typed, RowMembers, RowKinds, StagedKinds
    DEF Abort, Steady, Carries, Pending, RowShape, CallShape, TaskOnly, RowOnly, CallOnly, CallMoves, RollOnly, Open
  <1>3. ASSUME NEW y \in Rows PROVE Unborn(y)
    BY <1>1, AbortEffect, Typed, RowMembers, RowKinds, StagedKinds
    DEF Abort, Unborn, Carries, Pending, RowShape, CallShape, TaskOnly, RowOnly, CallOnly, CallMoves, RollOnly, Open
  <1>4. FailuresStay /\ OwnersStay
    BY <1>1, AbortEffect, Typed, RowMembers, RowKinds, StagedKinds
    DEF Abort, FailuresStay, OwnersStay, Reading, CallShape, TaskOnly, RowOnly, CallOnly, CallMoves, RollOnly, Open
  <1> QED BY <1>2, <1>3, <1>4

\* AbortMark: which rows may newly carry a prompt, and who owns them.
LEMMA AbortMarkHands ==
    ASSUME IInv, NEW x \in Rows,
           AbortMark(x)
    PROVE  /\ \A y \in Rows : Steady(y) /\ Unborn(y)
           /\ FailuresStay /\ OwnersStay
  <1>1. /\ RollTypeOK /\ RowsAreSound /\ BornOnce /\ BootIsAlone
        /\ \A y \in Rows : RowShape(y)
        /\ \A d \in Calls : CallShape(d)
    BY DEF IInv, RowsAreSound, CallsAreSound
  <1>2. ASSUME NEW y \in Rows PROVE Steady(y)
    BY <1>1, AbortMarkEffect, Typed, RowMembers, RowKinds, StagedKinds
    DEF AbortMark, Steady, Carries, Pending, RowShape, CallShape, TaskOnly, RowOnly, CallOnly, CallMoves, RollOnly, Open
  <1>3. ASSUME NEW y \in Rows PROVE Unborn(y)
    BY <1>1, AbortMarkEffect, Typed, RowMembers, RowKinds, StagedKinds
    DEF AbortMark, Unborn, Carries, Pending, RowShape, CallShape, TaskOnly, RowOnly, CallOnly, CallMoves, RollOnly, Open
  <1>4. FailuresStay /\ OwnersStay
    BY <1>1, AbortMarkEffect, Typed, RowMembers, RowKinds, StagedKinds
    DEF AbortMark, FailuresStay, OwnersStay, Reading, CallShape, TaskOnly, RowOnly, CallOnly, CallMoves, RollOnly, Open
  <1> QED BY <1>2, <1>3, <1>4

\* Die: which rows may newly carry a prompt, and who owns them.
LEMMA DieHands ==
    ASSUME IInv, Die
    PROVE  /\ \A y \in Rows : Steady(y) /\ Unborn(y)
           /\ FailuresStay /\ OwnersStay
  <1>1. /\ RollTypeOK /\ RowsAreSound /\ BornOnce /\ BootIsAlone
        /\ \A y \in Rows : RowShape(y)
        /\ \A d \in Calls : CallShape(d)
    BY DEF IInv, RowsAreSound, CallsAreSound
  <1>2. ASSUME NEW y \in Rows PROVE Steady(y)
    BY <1>1, DieEffect, Typed, RowMembers, RowKinds, StagedKinds
    DEF Die, Steady, Carries, Pending, RowShape, CallShape, TaskOnly, RowOnly, CallOnly, CallMoves, RollOnly, Open
  <1>3. ASSUME NEW y \in Rows PROVE Unborn(y)
    BY <1>1, DieEffect, Typed, RowMembers, RowKinds, StagedKinds
    DEF Die, Unborn, Carries, Pending, RowShape, CallShape, TaskOnly, RowOnly, CallOnly, CallMoves, RollOnly, Open
  <1>4. FailuresStay /\ OwnersStay
    BY <1>1, DieEffect, Typed, RowMembers, RowKinds, StagedKinds
    DEF Die, FailuresStay, OwnersStay, Reading, CallShape, TaskOnly, RowOnly, CallOnly, CallMoves, RollOnly, Open
  <1> QED BY <1>2, <1>3, <1>4

\* Boot: which rows may newly carry a prompt, and who owns them.
LEMMA BootHands ==
    ASSUME IInv, Restart \/ Recovered
    PROVE  /\ \A y \in Rows : Steady(y) /\ Unborn(y)
           /\ FailuresStay /\ OwnersStay
  <1>1. /\ RollTypeOK /\ RowsAreSound /\ BornOnce /\ BootIsAlone
        /\ \A y \in Rows : RowShape(y)
        /\ \A d \in Calls : CallShape(d)
    BY DEF IInv, RowsAreSound, CallsAreSound
  <1>2. ASSUME NEW y \in Rows PROVE Steady(y)
    BY <1>1, BootEffect, ReconciledEffect, Typed, RowMembers, RowKinds, StagedKinds
    DEF Restart, Recovered, Steady, Carries, Pending, RowShape, CallShape, TaskOnly, RowOnly, CallOnly, CallMoves, RollOnly, Open
  <1>3. ASSUME NEW y \in Rows PROVE Unborn(y)
    BY <1>1, BootEffect, ReconciledEffect, Typed, RowMembers, RowKinds, StagedKinds
    DEF Restart, Recovered, Unborn, Carries, Pending, RowShape, CallShape, TaskOnly, RowOnly, CallOnly, CallMoves, RollOnly, Open
  <1>4. FailuresStay /\ OwnersStay
    BY <1>1, BootEffect, ReconciledEffect, Typed, RowMembers, RowKinds, StagedKinds
    DEF Restart, Recovered, FailuresStay, OwnersStay, Reading, CallShape, TaskOnly, RowOnly, CallOnly, CallMoves, RollOnly, Open
  <1> QED BY <1>2, <1>3, <1>4

\* RecoverNot: which rows may newly carry a prompt, and who owns them.
LEMMA RecoverNotHands ==
    ASSUME IInv, NEW x \in Rows,
           RecoverNot(x)
    PROVE  /\ \A y \in Rows : Steady(y) /\ Unborn(y)
           /\ FailuresStay /\ OwnersStay
  <1>1. /\ RollTypeOK /\ RowsAreSound /\ BornOnce /\ BootIsAlone
        /\ \A y \in Rows : RowShape(y)
        /\ \A d \in Calls : CallShape(d)
    BY DEF IInv, RowsAreSound, CallsAreSound
  <1>2. ASSUME NEW y \in Rows PROVE Steady(y)
    BY <1>1, RecoverNotEffect, Typed, RowMembers, RowKinds, StagedKinds
    DEF RecoverNot, Steady, Carries, Pending, RowShape, CallShape, TaskOnly, RowOnly, CallOnly, CallMoves, RollOnly, Open
  <1>3. ASSUME NEW y \in Rows PROVE Unborn(y)
    <2> SUFFICES ASSUME row[y].status = "none" PROVE ~Carries(y)'
      BY DEF Unborn
    <2>1. y # x
      BY <1>1 DEF RecoverNot, BootIsAlone, Open
    <2>2. row'[y].status = "none" /\ task' = task /\ call' = call
      BY <1>1, <2>1, RecoverNotEffect DEF RecoverNot, RowOnly
    <2>3. task[y].at = "none" /\ ~Staged(y)
      BY UnbornRests
    <2>4. ~Staged(y)'
      BY <2>2, <2>3, StagedKinds, RowMembers
    <2> QED BY <2>2, <2>3, <2>4 DEF Carries, Pending, Open
  <1>4. FailuresStay /\ OwnersStay
    BY <1>1, RecoverNotEffect, Typed, RowMembers, RowKinds, StagedKinds
    DEF RecoverNot, FailuresStay, OwnersStay, Reading, CallShape, TaskOnly, RowOnly, CallOnly, CallMoves, RollOnly, Open
  <1> QED BY <1>2, <1>3, <1>4

\* RecoverRow: which rows may newly carry a prompt, and who owns them.
LEMMA RecoverRowHands ==
    ASSUME IInv, NEW x \in Rows,
           RecoverRow(x)
    PROVE  /\ \A y \in Rows : Steady(y) /\ Unborn(y)
           /\ FailuresStay /\ OwnersStay
  <1>1. /\ RollTypeOK /\ RowsAreSound /\ BornOnce /\ BootIsAlone
        /\ \A y \in Rows : RowShape(y)
        /\ \A d \in Calls : CallShape(d)
    BY DEF IInv, RowsAreSound, CallsAreSound
  <1>2. ASSUME NEW y \in Rows PROVE Steady(y)
    <2>1. /\ row[x].status \in Open /\ call' = call
          /\ \A c \in Calls : call[c].at # "prepared"
          /\ \A z \in Rows : task[z].at = "none" /\ task[z].how = "none"
      BY <1>1 DEF RecoverRow, BootIsAlone, RowShape
    <2>2. /\ RowOnly(x) /\ TaskOnly(x) /\ task'[x].how = "none"
          /\ row'[x].status # "none"
      BY <1>1, <2>1, RecoverRowEffect DEF TaskOnly
    <2>3. ~Staged(y)'
      <3>1. \A c \in Calls : task'[Compact(c)].how = "none"
        BY <2>1, <2>2, RowMembers DEF TaskOnly
      <3> QED BY <2>1, <3>1, StagedKinds, RowMembers
    <2>4. CASE y = x
      BY <2>1, <2>2, <2>4 DEF Steady, Carries, Open
    <2>5. CASE y # x
      <3>1. row'[y].status = row[y].status /\ task'[y] = task[y]
        BY <2>2, <2>5 DEF RowOnly, TaskOnly
      <3> QED BY <2>3, <3>1 DEF Steady, Carries, Pending
    <2> QED BY <2>4, <2>5
  <1>3. ASSUME NEW y \in Rows PROVE Unborn(y)
    <2>1. /\ row[x].status \in Open /\ call' = call
          /\ \A c \in Calls : call[c].at # "prepared"
          /\ \A z \in Rows : task[z].at = "none" /\ task[z].how = "none"
      BY <1>1 DEF RecoverRow, BootIsAlone, RowShape
    <2>2. /\ RowOnly(x) /\ TaskOnly(x) /\ task'[x].how = "none"
          /\ row'[x].status # "none"
      BY <1>1, <2>1, RecoverRowEffect DEF TaskOnly
    <2>3. ~Staged(y)'
      <3>1. \A c \in Calls : task'[Compact(c)].how = "none"
        BY <2>1, <2>2, RowMembers DEF TaskOnly
      <3> QED BY <2>1, <3>1, StagedKinds, RowMembers
    <2>4. row[y].status = "none" => row'[y].status = "none" /\ task'[y] = task[y]
      BY <2>1, <2>2 DEF RowOnly, TaskOnly, Open
    <2> QED BY <2>1, <2>3, <2>4 DEF Unborn, Carries, Pending, Open
  <1>4. FailuresStay /\ OwnersStay
    BY <1>1, RecoverRowEffect, Typed, RowMembers, RowKinds, StagedKinds
    DEF RecoverRow, FailuresStay, OwnersStay, Reading, CallShape, TaskOnly, RowOnly, CallOnly, CallMoves, RollOnly, Open
  <1> QED BY <1>2, <1>3, <1>4

-----------------------------------------------------------------------------
(* A prompt is carried by one row, and sources stay sound.                   *)
LEMMA OwnersKept ==
    ASSUME OwnersStay
    PROVE  \A t \in Turns, x \in Rows : Owns(t, x)' <=> Owns(t, x)
  BY DEF OwnersStay, Owns

\* Only rows run prompts.
LEMMA OwnedRows ==
    \A t \in Turns : \A x : Owns(t, x) => x \in Rows
  BY RowMembers DEF Owns

\* A step after which no row newly carries its prompt keeps one carrier.
LEMMA CarriersQuiet ==
    ASSUME OneCarrier, \A y \in Rows : Steady(y) /\ Unborn(y),
           \A t \in Turns, x \in Rows : Owns(t, x)' /\ Carries(x)' => Owns(t, x)
    PROVE  OneCarrier'
  <1>1. \A x \in Rows : Carries(x)' => Carries(x)
    BY DEF Steady, Unborn
  <1> QED BY <1>1 DEF OneCarrier

\* The prompt of row a goes on to row b.
LEMMA CarriersHanded ==
    ASSUME OneCarrier, NEW a \in Rows, NEW b \in Rows, OwnersStay,
           \A y \in Rows : Steady(y) /\ (y # b => Unborn(y)),
           \A t \in Turns : Owns(t, b) => Owns(t, a) /\ Carries(a) /\ ~Carries(a)'
    PROVE  OneCarrier'
  <1>1. \A x \in Rows : x # b /\ Carries(x)' => Carries(x)
    BY DEF Steady, Unborn
  <1>2. ASSUME NEW t \in Turns, NEW x \in Rows, NEW y \in Rows,
               Owns(t, x), Owns(t, y), Carries(x)', Carries(y)'
        PROVE  x = y
    BY <1>1, <1>2 DEF OneCarrier
  <1> QED BY <1>2, OwnersKept DEF OneCarrier

\* Sources stay sound when failures and owners stay.
LEMMA SourcesStay ==
    ASSUME SourcesAreSound, \A y \in Rows : Steady(y), FailuresStay, OwnersStay
    PROVE  SourcesAreSound'
  <1> SUFFICES ASSUME NEW c \in Calls, Reading(c)' PROVE SourceShape(c)'
    BY DEF SourcesAreSound
  <1>1. /\ SourceShape(c)
        /\ call'[c].turn = call[c].turn /\ call'[c].source = call[c].source
    BY DEF SourcesAreSound, OwnersStay
  <1>2. PICK t \in Turns, x \in Rows : t = call[c].turn /\ x = call[c].source
    BY <1>1, OwnedRows DEF SourceShape
  <1>3. Owns(t, x) /\ Owns(t, x)' /\ Steady(x)
    BY <1>1, <1>2, OwnersKept DEF SourceShape
  <1>4. /\ row'[x].status # "none"
        /\ Carries(x)' => row'[x].status = "failed"
    BY <1>1, <1>2, <1>3 DEF SourceShape, Steady
  <1>5. \A d \in Calls : x = Compact(d) => roll'[d].state = "failed"
    BY <1>1, <1>2 DEF SourceShape, FailuresStay
  <1> QED BY <1>1, <1>2, <1>3, <1>4, <1>5 DEF SourceShape, Owns, Carries, Pending, Staged

\* Quiet keeps the whole invariant.
LEMMA QuietStep ==
    ASSUME IInv, \A y \in Rows : Steady(y) /\ Unborn(y), FailuresStay, OwnersStay
    PROVE  OneCarrier' /\ SourcesAreSound'
  BY CarriersQuiet, OwnersKept, SourcesStay DEF IInv

\* A turn is new: no row owns its message yet.
LEMMA BeginTurnCarriers ==
    ASSUME IInv, NEW t \in Turns, BeginTurn(t)
    PROVE  OneCarrier' /\ SourcesAreSound'
  <1>1. /\ \A y \in Rows : Steady(y) /\ (y # Turn(t) => Unborn(y))
        /\ FailuresStay /\ OwnersStay
    BY BeginTurnHands
  <1>2. \A y \in Rows : y # Turn(t) => ~Owns(t, y)
    <2>1. \A c \in Calls : ~(Kind[c] = "retry" /\ call[c].at # "none" /\ call[c].turn = t)
      BY DEF IInv, SeenIsAll, BeginTurn
    <2> QED BY <2>1 DEF Owns
  <1>3. \A u \in Turns : Owns(u, Turn(t)) => u = t
    BY OwnsKinds
  <1>4. \A x \in Rows : x # Turn(t) /\ Carries(x)' => Carries(x)
    BY <1>1 DEF Steady, Unborn
  <1>5. ASSUME NEW u \in Turns, NEW x \in Rows, NEW y \in Rows,
               Owns(u, x), Owns(u, y), Carries(x)', Carries(y)'
        PROVE  x = y
    BY <1>2, <1>3, <1>4, <1>5 DEF IInv, OneCarrier
  <1>6. OneCarrier'
    BY <1>1, <1>5, OwnersKept DEF OneCarrier
  <1> QED BY <1>1, <1>6, SourcesStay DEF IInv

\* A handler of a retry takes the prompt from the failed row.
LEMMA PrepareCarriers ==
    ASSUME IInv, NEW c \in Calls, Prepare(c)
    PROVE  OneCarrier' /\ SourcesAreSound'
  <1>1. /\ \A y \in Rows : Steady(y) /\ (y # Compact(c) => Unborn(y))
        /\ FailuresStay /\ OwnersStay
    BY PrepareHands
  <1>2. RollTypeOK /\ \A y \in Rows : RowShape(y)
    BY DEF IInv, RowsAreSound
  <1>3. CASE row' = row
    <2>1. Unborn(Compact(c))
      <3> SUFFICES ASSUME row[Compact(c)].status = "none" PROVE ~Carries(Compact(c))'
        BY DEF Unborn
      <3>1. task[Compact(c)].at = "none"
        BY UnbornRests, RowMembers
      <3>2. call'[c].at = "over"
        BY <1>2, <1>3, PrepareEffect DEF CallMoves
      <3>3. ~Staged(Compact(c))'
        BY <3>2, StagedKinds
      <3> QED BY <1>3, <3>1, <3>3 DEF Carries, Pending, Open, Prepare
    <2> QED BY <1>1, <2>1, QuietStep
  <1>4. CASE Kind[c] = "manual"
    <2>1. \A t \in Turns : ~Owns(t, Compact(c))
      BY <1>4, OwnsKinds
    <2>2. OneCarrier'
      BY <1>1, <2>1, RowMembers, CarriersHanded DEF IInv
    <2> QED BY <1>1, <2>2, SourcesStay DEF IInv
  <1>5. CASE Kind[c] = "retry" /\ row' # row
    <2>1. SourceShape(c)
      BY <1>5 DEF IInv, SourcesAreSound, Reading, Prepare
    <2>2. PICK a \in Rows : a = call[c].source /\ Owns(call[c].turn, a)
      BY <2>1, OwnedRows DEF SourceShape
    <2>3. /\ row[a].status = "failed" /\ task' = task
          /\ row'[a].status = "superseded" /\ CallOnly(c)
      <3>1. row[a].status = "failed"
        BY <1>2, <1>5, <2>2, PrepareEffect
      <3>2. a # Compact(c)
        BY <1>2, <3>1, RowMembers DEF Prepare, IInv, CallsAreSound, CallShape
      <3> QED BY <1>2, <1>5, <2>2, <3>1, <3>2, PrepareEffect DEF Prepare
    <2>4. Carries(a)
      BY <2>3 DEF Carries
    <2>5. ~Carries(a)'
      <3>1. task[a].at \in {"none", "failing", "release"} /\ ~Staged(a)
        BY <1>2, <2>3 DEF RowShape
      <3>2. a # Compact(c)
        BY <1>2, <2>3, RowMembers DEF Prepare, IInv, CallsAreSound, CallShape
      <3>3. ~Staged(a)'
        <4>1. CASE \E u \in Turns : a = Turn(u)
          BY <4>1, StagedKinds
        <4>2. ASSUME NEW d \in Calls, a = Compact(d) PROVE ~Staged(a)'
          <5>1. call'[d] = call[d]
            BY <2>3, <3>2, <4>2 DEF CallOnly
          <5> QED BY <3>1, <4>2, <5>1, StagedKinds
        <4>3. ASSUME NEW d \in Calls, a = Again(d) PROVE ~Staged(a)'
          BY <2>3, <3>1, <4>3, StagedKinds
        <4> QED BY <4>1, <4>2, <4>3, RowMembers
      <3> QED BY <2>3, <3>1, <3>3 DEF Carries, Pending, Open
    <2>6. \A t \in Turns : Owns(t, Compact(c)) => Owns(t, a)
      BY <2>2, OwnsKinds
    <2>7. OneCarrier'
      BY <1>1, <2>4, <2>5, <2>6, RowMembers, CarriersHanded DEF IInv
    <2> QED BY <1>1, <2>7, SourcesStay DEF IInv
  <1>6. Kind[c] \in {"manual", "retry"}
    BY ContextRolloverAssumption
  <1> QED BY <1>3, <1>4, <1>5, <1>6

\* An activation gives the prompt to the row that runs it again.
LEMMA FinishCompactCarriers ==
    ASSUME IInv, NEW c \in Calls, FinishCompact(c)
    PROVE  OneCarrier' /\ SourcesAreSound'
  <1>1. /\ \A y \in Rows : Steady(y) /\ (y # Again(c) => Unborn(y))
        /\ FailuresStay /\ OwnersStay
    BY FinishCompactHands
  <1>2. /\ RollTypeOK /\ BornOnce /\ RowShape(Compact(c)) /\ CallShape(c)
        /\ Compact(c) \in Rows /\ Again(c) \in Rows /\ Compact(c) # Again(c)
    BY RowMembers, RowKinds DEF IInv, RowsAreSound, CallsAreSound
  <1>3. task[Compact(c)].at = "ending" /\ call' = call /\ Kind[c] = "retry"
    BY DEF FinishCompact
  <1>4. CASE CanComplete(c) /\ Activate(c)
    <2>1. Carries(Compact(c))
      BY <1>2, <1>3 DEF Carries, Pending, RowShape
    <2>2. ~Carries(Compact(c))'
      <3>1. row'[Compact(c)].status = "completed" /\ roll'[c].state = "active"
            /\ roll[c].state = "starting"
        BY <1>2, <1>4, ActivateEffect DEF CanComplete
      <3>2. task'[Compact(c)].how = "activated"
        <4>1. \/ task'[Compact(c)].how = "activated"
              \/ FailRoll(c)
          BY <1>2, FinishCompactEffect
        <4>2. ~FailRoll(c)
          BY <1>2, <3>1, FailRollEffect
        <4> QED BY <4>1, <4>2
      <3>3. ~Staged(Compact(c))'
        BY <1>2, <1>3, StagedKinds DEF CallShape
      <3> QED BY <3>1, <3>2, <3>3, RowMembers DEF Carries, Pending, Open
    <2>3. \A t \in Turns : Owns(t, Again(c)) => Owns(t, Compact(c))
      BY OwnsKinds
    <2>4. OneCarrier'
      BY <1>1, <1>2, <2>1, <2>2, <2>3, CarriersHanded DEF IInv
    <2> QED BY <1>1, <2>4, SourcesStay DEF IInv
  <1>5. CASE ~(CanComplete(c) /\ Activate(c))
    <2>1. row' = row /\ task'[Again(c)] = task[Again(c)]
          /\ task'[Compact(c)].how # "activated"
      BY <1>2, <1>5, FinishCompactEffect DEF TaskOnly
    <2>2. Unborn(Again(c))
      <3> SUFFICES ASSUME row[Again(c)].status = "none" PROVE ~Carries(Again(c))'
        BY DEF Unborn
      <3>1. task[Again(c)].at = "none"
        BY <1>2, UnbornRests
      <3>2. ~Staged(Again(c))'
        BY <2>1, StagedKinds
      <3> QED BY <2>1, <3>1, <3>2 DEF Carries, Pending, Open
    <2> QED BY <1>1, <2>2, QuietStep
  <1> QED BY <1>4, <1>5

\* The row a retry of turn t starts from.
LEMMA RetrySourceShape ==
    ASSUME IInv, NEW t \in Turns, NEW x \in RetrySource(t)
    PROVE  /\ x \in Rows /\ Owns(t, x) /\ row[x].status = "failed"
           /\ \A d \in Calls : x = Compact(d) => roll[d].state = "failed"
           /\ x \in LatestRow
  <1>1. x \in LatestRow
    BY DEF RetrySource
  <1>2. ASSUME x \in RowOf(t), row[x].status = "failed"
        PROVE  /\ x \in Rows /\ Owns(t, x)
               /\ \A d \in Calls : x = Compact(d) => roll[d].state = "failed"
    <2>1. \/ x = Turn(t)
          \/ \E c \in Calls : call[c].turn = t /\ x = Again(c)
      BY <1>2 DEF RowOf, LastOf
    <2>2. CASE x = Turn(t)
      BY <2>2, RowMembers, RowKinds DEF Owns
    <2>3. ASSUME NEW c \in Calls, call[c].turn = t, x = Again(c)
          PROVE  /\ x \in Rows /\ Owns(t, x)
                 /\ \A d \in Calls : x = Compact(d) => roll[d].state = "failed"
      <3>1. Kind[c] = "retry" /\ call[c].at # "none"
        BY <1>2, <2>3 DEF IInv, CallsAreSound, CallShape
      <3> QED BY <2>3, <3>1, RowMembers, RowKinds, OwnsKinds
    <2> QED BY <2>1, <2>2, <2>3
  <1>3. ASSUME NEW c \in Calls, x = Compact(c), Kind[c] = "retry",
               roll[c].state = "failed", call[c].turn = t
        PROVE  /\ x \in Rows /\ Owns(t, x)
               /\ \A d \in Calls : x = Compact(d) => roll[d].state = "failed"
    <2>1. call[c].at # "none"
      BY <1>3 DEF IInv, CallsAreSound, CallShape
    <2> QED BY <1>3, <2>1, RowMembers, RowKinds, OwnsKinds
  <1>4. \/ x \in RowOf(t) /\ row[x].status = "failed"
        \/ \E c \in Calls : /\ x = Compact(c) /\ Kind[c] = "retry"
                            /\ roll[c].state = "failed" /\ call[c].turn = t
                            /\ row[x].status = "failed"
    BY DEF RetrySource, LatestRoll
  <1> QED BY <1>1, <1>2, <1>3, <1>4

\* Read leaves one carrier for each prompt, and sources sound.
LEMMA ReadCarriers ==
    ASSUME IInv, NEW c \in Calls, NEW t \in Turns \cup {NoTurn},
           NEW x \in Rows \cup {NoRow}, ReadChat(c, t, x),
           Kind[c] = "manual" => x = NoRow,
           Kind[c] = "retry" => t \in Turns /\ said[t] # "none" /\ x \in RetrySource(t)
    PROVE  OneCarrier' /\ SourcesAreSound'
  <1>1. (\A y \in Rows : Steady(y) /\ Unborn(y)) /\ FailuresStay
    BY ReadHands
  <1>2. /\ RollTypeOK /\ BornOnce /\ CallShape(c)
        /\ row' = row /\ call[c].at = "none" /\ roll' = roll
    BY DEF IInv, CallsAreSound, ReadChat
  <1>3. CallOnly(c) /\ call'[c].at = "read" /\ call'[c].turn = t /\ call'[c].source = x
    BY <1>2, ReadEffect
  <1>4. row[Compact(c)].status = "none" /\ row[Again(c)].status = "none"
    BY <1>2 DEF CallShape
  <1>5. ~Carries(Compact(c))' /\ ~Carries(Again(c))'
    BY <1>1, <1>4, RowMembers DEF Unborn
  <1>6. \A u \in Turns, y \in Rows : y \notin {Compact(c), Again(c)} =>
                                         (Owns(u, y)' <=> Owns(u, y))
    BY <1>3 DEF Owns, CallOnly
  <1>7. OneCarrier'
    BY <1>1, <1>5, <1>6, CarriersQuiet DEF IInv
  <1>8. ASSUME NEW d \in Calls, Reading(d)' PROVE SourceShape(d)'
    <2>1. CASE d = c
      <3>1. /\ t \in Turns /\ x \in Rows /\ Owns(t, x) /\ row[x].status = "failed"
            /\ \A e \in Calls : x = Compact(e) => roll[e].state = "failed"
        BY <1>8, <2>1, RetrySourceShape DEF Reading
      <3>2. x \notin {Compact(c), Again(c)}
        BY <1>4, <3>1
      <3>3. Owns(t, x)'
        BY <1>6, <3>1, <3>2
      <3> QED BY <1>2, <1>3, <2>1, <3>1, <3>3 DEF SourceShape, Owns, Carries, Pending, Staged
    <2>2. CASE d # c
      <3>1. call'[d] = call[d]
        BY <1>3, <2>2 DEF CallOnly
      <3>2. SourceShape(d)
        BY <1>8, <3>1 DEF IInv, SourcesAreSound, Reading
      <3>3. PICK u \in Turns, y \in Rows : u = call[d].turn /\ y = call[d].source
        BY <3>2, OwnedRows DEF SourceShape
      <3>4. y \notin {Compact(c), Again(c)} /\ Owns(u, y) /\ Steady(y)
        BY <1>1, <1>4, <3>2, <3>3 DEF SourceShape
      <3>5. Owns(u, y)'
        BY <1>6, <3>4
      <3>6. /\ row'[y].status # "none"
            /\ Carries(y)' => row'[y].status = "failed"
            /\ \A e \in Calls : y = Compact(e) => roll'[e].state = "failed"
        BY <1>2, <3>2, <3>3, <3>4 DEF SourceShape, Steady
      <3> QED BY <3>1, <3>3, <3>5, <3>6 DEF SourceShape, Owns, Carries, Pending, Staged
    <2> QED BY <2>1, <2>2
  <1> QED BY <1>7, <1>8 DEF SourcesAreSound

-----------------------------------------------------------------------------
(* The newest row is the one that is retried.                                *)
LEMMA NewestWithin ==
    ASSUME NEW q, NEW S, NEW T, T \subseteq S, NEW x \in LastOf(q, S), x \in T
    PROVE  x \in LastOf(q, T)
  BY DEF LastOf

\* A row runs the prompt of one turn.
LEMMA OwnerUnique ==
    ASSUME NEW t \in Turns, NEW u \in Turns, NEW x, Owns(t, x), Owns(u, x)
    PROVE  t = u
  BY RowKinds DEF Owns

\* The newest row, before and after.
LEMMA LatestIs ==
    /\ LatestRow = LastOf(born, Existing) /\ LatestRow' = LastOf(born', Existing')
    /\ Existing = {x \in Rows : row[x].status # "none"}
    /\ Existing' = {x \in Rows : row'[x].status # "none"}
    /\ LatestRow \subseteq Existing /\ LatestRow' \subseteq Existing'
  BY DEF LatestRow, Existing, LastOf

\* There is one newest row.
LEMMA LatestAlone ==
    ASSUME RollTypeOK, NEW x \in LatestRow
    PROVE  LatestRow = {x}
  <1>1. born \in Seq(Rows)
    BY Typed
  <1>2. DOMAIN born \subseteq Nat
    BY <1>1
  <1>3. ASSUME NEW y \in LatestRow PROVE y = x
    BY <1>2, LatestIs, NewestAlone
  <1> QED BY <1>3

\* Once turns race with requests, or messages are renamed by a manual
\* compaction, they have; so a calm chat was calm before.
CalmBefore == /\ raced \subseteq raced'
              /\ \A c \in Calls : call'[c].at = "none" => call[c].at = "none"

\* A chat that is calm after a step was calm before.
LEMMA CalmStays ==
    ASSUME CalmBefore
    PROVE  Calm' => Calm
  BY DEF CalmBefore, Calm

\* In a calm chat the pending requests are retries.
LEMMA CalmRetries ==
    ASSUME IInv, Calm, NEW c \in Calls, Engaged(c)
    PROVE  Kind[c] = "retry" /\ call[c].turn \in Turns
  <1>1. call[c].at # "none"
    BY DEF Engaged, IInv, CallsAreSound, CallShape
  <1>2. Kind[c] = "retry"
    BY <1>1, ContextRolloverAssumption DEF Calm
  <1> QED BY <1>1, <1>2 DEF IInv, SeenIsAll

\* A source that does not carry its prompt any more does not fail again.
LEMMA SourceFailedBefore ==
    ASSUME IInv, NEW c \in Calls, Reading(c), \A y \in Rows : Steady(y),
           row'[call[c].source].status = "failed"
    PROVE  row[call[c].source].status = "failed"
  <1>1. SourceShape(c)
    BY DEF IInv, SourcesAreSound
  <1>2. PICK x \in Rows : x = call[c].source
    BY <1>1, OwnedRows DEF SourceShape
  <1>3. Steady(x) /\ Carries(x)'
    BY <1>2 DEF Carries
  <1> QED BY <1>1, <1>2, <1>3 DEF SourceShape, Steady

\* Quiet leaves the newest row to the turn that is retried.
LEMMA QuietNewest ==
    ASSUME IInv, \A y \in Rows : Steady(y), OwnersStay, CalmBefore,
           \A y \in Rows : row[y].status = "none" => row'[y].status = "none",
           born' = born, said' = said,
           \A c \in Calls : roll'[c].state = "starting" => roll[c].state = "starting"
    PROVE  NewestIsRetried'
  <1> SUFFICES ASSUME Calm'
               PROVE  /\ \A t \in Turns, x \in LatestRow' : said'[t] = "renamed" => ~Owns(t, x)'
                      /\ \A c \in Calls : Engaged(c)' => Retried(call[c].turn)'
                      /\ \A c \in Calls : roll'[c].state = "starting" => LatestRow' = {Compact(c)}
                      /\ \A c \in Calls : Reading(c)' => FromNewest(c)'
    BY DEF NewestIsRetried
  <1>1. Calm /\ NewestIsRetried
    BY CalmStays DEF IInv
  <1>2. Existing' = Existing
    BY LatestIs DEF Steady
  <1>3. LatestRow' = LatestRow /\ LatestRow \subseteq Rows
    BY <1>2, LatestIs
  <1>4. \A t \in Turns, x \in LatestRow' : said'[t] = "renamed" => ~Owns(t, x)'
    BY <1>1, <1>3, OwnersKept DEF NewestIsRetried
  <1>5. ASSUME NEW c \in Calls, Engaged(c)' PROVE Retried(call[c].turn)'
    <2>1. Engaged(c) /\ call'[c].turn = call[c].turn
      <3>1. CASE roll'[c].state = "starting"
        BY <3>1 DEF Engaged, OwnersStay
      <3>2. CASE call'[c].at \in {"read", "replaced"}
        <4>1. Kind[c] = "retry"
          BY <3>2, ContextRolloverAssumption DEF Calm
        <4> QED BY <3>2, <4>1 DEF Engaged, OwnersStay, Reading
      <3> QED BY <1>5, <3>1, <3>2 DEF Engaged
    <2>2. PICK t \in Turns : t = call[c].turn
      BY <1>1, <2>1, CalmRetries
    <2>3. said[t] = "kept" /\ LatestRow # {} /\ \A x \in LatestRow : Owns(t, x)
      BY <1>1, <2>1, <2>2 DEF NewestIsRetried, Retried
    <2>4. \A x \in LatestRow : Owns(t, x)'
      BY <1>3, <2>3, OwnersKept
    <2> QED BY <1>3, <2>1, <2>2, <2>3, <2>4 DEF Retried, Owns
  <1>6. \A c \in Calls : roll'[c].state = "starting" => LatestRow' = {Compact(c)}
    BY <1>1, <1>3 DEF NewestIsRetried
  <1>7. ASSUME NEW c \in Calls, Reading(c)' PROVE FromNewest(c)'
    <2>1. Reading(c) /\ call'[c].source = call[c].source
      BY <1>7 DEF OwnersStay
    <2>2. FromNewest(c)
      BY <1>1, <2>1 DEF NewestIsRetried
    <2>3. row'[call[c].source].status = "failed" => row[call[c].source].status = "failed"
      BY <2>1, SourceFailedBefore
    <2> QED BY <1>3, <2>1, <2>2, <2>3 DEF FromNewest
  <1> QED BY <1>4, <1>5, <1>6, <1>7

\* BeginTurn leaves the newest row to the turn that is retried.
LEMMA BeginTurnNewest ==
    ASSUME IInv, NEW t \in Turns, BeginTurn(t)
    PROVE  NewestIsRetried'
  <1> SUFFICES ASSUME Calm'
               PROVE  /\ \A u \in Turns, x \in LatestRow' : said'[u] = "renamed" => ~Owns(u, x)'
                      /\ \A c \in Calls : ~Engaged(c)'
                      /\ \A c \in Calls : roll'[c].state # "starting"
                      /\ \A c \in Calls : ~Reading(c)'
    BY DEF NewestIsRetried
  <1>1. /\ RollTypeOK /\ BornOnce /\ SeenIsAll
        /\ Turn(t) \in Rows /\ Turn(t) \notin ToSet(born)
    BY RowMembers DEF IInv, BeginTurn, BornOnce
  <1>2. Calm /\ NewestIsRetried
    <2>1. CalmBefore
      BY DEF BeginTurn, CalmBefore
    <2> QED BY <2>1, CalmStays DEF IInv
  <1>3. \A c \in Calls : call[c].at \notin {"read", "replaced"}
    BY DEF Calm, BeginTurn
  <1>4. \A c \in Calls : roll[c].state # "starting"
    <2> SUFFICES ASSUME NEW c \in Calls, roll[c].state = "starting" PROVE FALSE
      OBVIOUS
    <2>1. LatestRow = {Compact(c)} /\ Kind[c] = "retry"
      BY <1>2, CalmRetries DEF NewestIsRetried, Engaged
    <2> DEFINE S == {Compact(d) : d \in {e \in Calls : roll[e].state # "none"}}
    <2>2. S \subseteq Existing
      BY LatestIs, RowMembers DEF IInv, CallsAreSound, CallShape
    <2>3. Compact(c) \in S
      OBVIOUS
    <2>4. Compact(c) \in LastOf(born, S)
      BY <2>1, <2>2, <2>3, LatestIs, NewestWithin
    <2>5. c \in LatestRoll
      BY <2>4 DEF LatestRoll
    <2> QED BY <2>1, <2>5 DEF BeginTurn, ContextRecovery
  <1>5. LatestRow' = {Turn(t)}
    <2>1. Turn(t) \in Existing'
      BY <1>1, BeginTurnEffect, LatestIs
    <2>2. born' = Append(born, Turn(t)) /\ born \in Seq(Rows)
      BY <1>1, Typed DEF BeginTurn
    <2> QED BY <2>1, <2>2, LatestIs, NewestAppended
  <1>6. \A u \in Turns : Owns(u, Turn(t)) => u = t
    BY OwnsKinds
  <1>7. said'[t] = "kept" /\ call' = call /\ roll' = roll
    BY <1>1 DEF BeginTurn, RollTypeOK
  <1>8. \A u \in Turns : Owns(u, Turn(t))' => u = t
    BY <1>6, <1>7 DEF Owns
  <1>9. \A u \in Turns, x \in LatestRow' : said'[u] = "renamed" => ~Owns(u, x)'
    BY <1>5, <1>7, <1>8
  <1>10. \A c \in Calls : ~Engaged(c)' /\ ~Reading(c)' /\ roll'[c].state # "starting"
    BY <1>3, <1>4, <1>7 DEF Engaged, Reading
  <1> QED BY <1>9, <1>10

\* Read leaves the newest row to the turn that is retried.
LEMMA ReadNewest ==
    ASSUME IInv, NEW c \in Calls, NEW t \in Turns \cup {NoTurn},
           NEW x \in Rows \cup {NoRow}, ReadChat(c, t, x),
           Kind[c] = "manual" => x = NoRow,
           Kind[c] = "retry" => t \in Turns /\ said[t] # "none" /\ x \in RetrySource(t)
    PROVE  NewestIsRetried'
  <1> SUFFICES ASSUME Calm'
               PROVE  /\ \A u \in Turns, y \in LatestRow' : said'[u] = "renamed" => ~Owns(u, y)'
                      /\ \A d \in Calls : Engaged(d)' => Retried(call[d].turn)'
                      /\ \A d \in Calls : roll'[d].state = "starting" => LatestRow' = {Compact(d)}
                      /\ \A d \in Calls : Reading(d)' => FromNewest(d)'
    BY DEF NewestIsRetried
  <1>1. RollTypeOK /\ BornOnce /\ SeenIsAll /\ CallShape(c)
    BY DEF IInv, CallsAreSound
  <1>2. /\ row' = row /\ said' = said /\ roll' = roll /\ raced' = raced /\ call[c].at = "none"
        /\ CallOnly(c) /\ call'[c].at = "read" /\ call'[c].turn = t /\ call'[c].source = x
        /\ born' = Append(born, Compact(c)) /\ born \in Seq(Rows)
    <2>1. /\ row' = row /\ said' = said /\ roll' = roll /\ raced' = raced
          /\ call[c].at = "none"
      BY DEF ReadChat
    <2>2. CallOnly(c) /\ call'[c].at = "read" /\ call'[c].turn = t /\ call'[c].source = x
      BY <1>1, ReadEffect
    <2>3. born' = Append(born, Compact(c)) /\ born \in Seq(Rows)
      BY <1>1, Typed DEF ReadChat
    <2> QED BY <2>1, <2>2, <2>3
  <1>3. Calm /\ NewestIsRetried
    <2>1. CalmBefore
      BY <1>2 DEF CalmBefore, CallOnly
    <2> QED BY <2>1, CalmStays DEF IInv
  <1>4. Kind[c] = "retry"
    BY <1>2, ContextRolloverAssumption DEF Calm
  <1>5. row[Compact(c)].status = "none" /\ row[Again(c)].status = "none"
    BY <1>1, <1>2 DEF CallShape
  <1>6. LatestRow' = LatestRow
    <2>1. Existing' = Existing /\ Compact(c) \notin Existing
      BY <1>2, <1>5, LatestIs
    <2> QED BY <1>2, <2>1, LatestIs, NewestKept
  <1>7. /\ t \in Turns /\ said[t] # "none" /\ x \in Rows /\ Owns(t, x)
        /\ LatestRow = {x} /\ row[x].status = "failed"
    BY <1>1, <1>4, RetrySourceShape, LatestAlone
  <1>8. \A u \in Turns, y \in LatestRow : Owns(u, y)' <=> Owns(u, y)
    <2>1. \A y \in LatestRow : y \notin {Compact(c), Again(c)}
      BY <1>5, LatestIs
    <2> QED BY <1>2, <2>1 DEF Owns, CallOnly
  <1>9. said[t] = "kept"
    <2>1. said[t] \in {"none", "kept", "renamed", "lost"}
      BY <1>1, <1>7 DEF RollTypeOK
    <2>2. said[t] # "renamed"
      BY <1>3, <1>7 DEF NewestIsRetried
    <2>3. said[t] # "lost"
      BY <1>1, <1>3, <1>7 DEF SeenIsAll, Calm
    <2> QED BY <1>7, <2>1, <2>2, <2>3
  <1>10. \A u \in Turns, y \in LatestRow' : said'[u] = "renamed" => ~Owns(u, y)'
    BY <1>2, <1>3, <1>6, <1>8 DEF NewestIsRetried
  <1>11. ASSUME NEW d \in Calls, Engaged(d)' PROVE Retried(call[d].turn)'
    <2>1. PICK u \in Turns : /\ u = call'[d].turn /\ said[u] = "kept"
                             /\ LatestRow # {} /\ \A y \in LatestRow : Owns(u, y)
      <3>1. CASE d = c
        BY <1>2, <1>7, <1>9, <3>1
      <3>2. CASE d # c
        <4>1. Engaged(d) /\ call'[d] = call[d]
          BY <1>2, <1>11, <3>2 DEF Engaged, CallOnly
        <4> QED BY <1>3, <4>1, CalmRetries DEF NewestIsRetried, Retried
      <3> QED BY <3>1, <3>2
    <2>2. \A y \in LatestRow : Owns(u, y)'
      BY <1>8, <2>1
    <2> QED BY <1>2, <1>6, <2>1, <2>2 DEF Retried, Owns
  <1>12. \A d \in Calls : roll'[d].state = "starting" => LatestRow' = {Compact(d)}
    BY <1>2, <1>3, <1>6 DEF NewestIsRetried
  <1>13. ASSUME NEW d \in Calls, Reading(d)' PROVE FromNewest(d)'
    <2>1. /\ DOMAIN born = 1..Len(born) /\ DOMAIN born' = 1..(Len(born) + 1) /\ Len(born) \in Nat
          /\ \A i \in 1..Len(born) : born'[i] = born[i]
          /\ born'[Len(born) + 1] = Compact(c)
      BY <1>2
    <2>2. CASE d = c
      <3>1. PICK i \in DOMAIN born : born[i] = x
        BY <1>7, LatestIs DEF LastOf
      <3>2. \E k, j \in DOMAIN born' : k < j /\ born'[k] = x /\ born'[j] = Compact(c)
        <4>1. /\ i \in DOMAIN born' /\ Len(born) + 1 \in DOMAIN born' /\ i < Len(born) + 1
              /\ born'[i] = x
          BY <2>1, <3>1
        <4> QED BY <2>1, <4>1
      <3> QED BY <1>2, <1>6, <1>7, <2>2, <3>2 DEF FromNewest
    <2>3. CASE d # c
      <3>1. Reading(d) /\ call'[d] = call[d]
        BY <1>2, <1>13, <2>3 DEF Reading, CallOnly
      <3>2. FromNewest(d)
        BY <1>3, <3>1 DEF NewestIsRetried
      <3>3. PICK i, j \in DOMAIN born : /\ i < j /\ born[i] = call[d].source
                                        /\ born[j] = Compact(d)
        BY <3>2 DEF FromNewest
      <3>4. i \in DOMAIN born' /\ j \in DOMAIN born' /\ born'[i] = born[i] /\ born'[j] = born[j]
        BY <2>1, <3>3
      <3> QED BY <1>2, <1>6, <3>1, <3>2, <3>3, <3>4 DEF FromNewest
    <2> QED BY <2>2, <2>3
  <1> QED BY <1>10, <1>11, <1>12, <1>13

\* Replace leaves the newest row to the turn that is retried.
LEMMA ReplaceNewest ==
    ASSUME IInv, NEW c \in Calls, ReplaceMessages(c)
    PROVE  NewestIsRetried'
  <1> SUFFICES ASSUME Calm'
               PROVE  /\ \A u \in Turns, y \in LatestRow' : said'[u] = "renamed" => ~Owns(u, y)'
                      /\ \A d \in Calls : Engaged(d)' => Retried(call[d].turn)'
                      /\ \A d \in Calls : roll'[d].state = "starting" => LatestRow' = {Compact(d)}
                      /\ \A d \in Calls : Reading(d)' => FromNewest(d)'
    BY DEF NewestIsRetried
  <1>1. /\ RollTypeOK /\ SeenIsAll /\ OwnersStay
        /\ row' = row /\ roll' = roll /\ born' = born /\ raced' = raced
        /\ call[c].at = "read"
    BY ReplaceHands DEF IInv, ReplaceMessages
  <1>2. Calm /\ NewestIsRetried
    <2>1. CalmBefore
      BY <1>1 DEF CalmBefore, OwnersStay
    <2> QED BY <2>1, CalmStays DEF IInv
  <1>3. Kind[c] = "retry" /\ call[c].turn \in Turns /\ Retried(call[c].turn)
    BY <1>1, <1>2, CalmRetries DEF Engaged, NewestIsRetried
  <1>4. LatestRow' = LatestRow
    BY <1>1, LatestIs
  <1>5. \A u \in Turns : said[u] # "none" => u \in call[c].seen
    BY <1>1, <1>2 DEF SeenIsAll, Calm
  <1>6. /\ said'[call[c].turn] = "kept"
        /\ \A u \in Turns : said'[u] = "renamed" => u # call[c].turn
    BY <1>1, <1>3, <1>5, ReplaceEffect DEF Retried
  <1>7. \A u \in Turns, y \in LatestRow : u # call[c].turn => ~Owns(u, y)
    BY <1>3, OwnerUnique DEF Retried
  <1>8. \A u \in Turns, y \in LatestRow' : said'[u] = "renamed" => ~Owns(u, y)'
    BY <1>1, <1>4, <1>6, <1>7, OwnersKept, LatestIs
  <1>9. ASSUME NEW d \in Calls, Engaged(d)' PROVE Retried(call[d].turn)'
    <2>1. Engaged(d) /\ call'[d].turn = call[d].turn
      <3>1. CASE d = c
        BY <1>1, <3>1 DEF Engaged, OwnersStay
      <3>2. CASE d # c
        BY <1>1, <1>9, <3>2, ReplaceEffect DEF Engaged, CallOnly
      <3> QED BY <3>1, <3>2
    <2>2. PICK u \in Turns : u = call[d].turn
      BY <1>2, <2>1, CalmRetries
    <2>3. LatestRow # {} /\ \A y \in LatestRow : Owns(u, y)
      BY <1>2, <2>1, <2>2 DEF NewestIsRetried, Retried
    <2>4. u = call[c].turn
      BY <1>7, <2>3
    <2>5. \A y \in LatestRow : Owns(u, y)'
      BY <1>1, <2>3, OwnersKept, LatestIs
    <2> QED BY <1>4, <1>6, <2>1, <2>2, <2>3, <2>4, <2>5 DEF Retried, Owns
  <1>10. \A d \in Calls : roll'[d].state = "starting" => LatestRow' = {Compact(d)}
    BY <1>1, <1>2, <1>4 DEF NewestIsRetried
  <1>11. ASSUME NEW d \in Calls, Reading(d)' PROVE FromNewest(d)'
    <2>1. Reading(d) /\ call'[d].source = call[d].source
      BY <1>1, <1>11 DEF OwnersStay
    <2> QED BY <1>1, <1>2, <1>4, <2>1 DEF NewestIsRetried, FromNewest
  <1> QED BY <1>8, <1>9, <1>10, <1>11

\* Prepare leaves the newest row to the turn that is retried.
LEMMA PrepareNewest ==
    ASSUME IInv, NEW c \in Calls, Prepare(c)
    PROVE  NewestIsRetried'
  <1>1. /\ RollTypeOK /\ \A y \in Rows : Steady(y)
        /\ OwnersStay
        /\ born' = born /\ said' = said /\ raced' = raced /\ call[c].at = "replaced"
    BY PrepareHands DEF IInv, Prepare
  <1>2. CalmBefore
    BY <1>1 DEF CalmBefore, OwnersStay
  <1>3. CASE row' = row /\ roll' = roll
    BY <1>1, <1>2, <1>3, QuietNewest
  <1>4. CASE ~(row' = row /\ roll' = roll)
    <2> SUFFICES ASSUME Calm'
                 PROVE  /\ \A u \in Turns, y \in LatestRow' : said'[u] = "renamed" => ~Owns(u, y)'
                        /\ \A d \in Calls : Engaged(d)' => Retried(call[d].turn)'
                        /\ \A d \in Calls : roll'[d].state = "starting" => LatestRow' = {Compact(d)}
                        /\ \A d \in Calls : Reading(d)' => FromNewest(d)'
      BY DEF NewestIsRetried
    <2>1. Calm /\ NewestIsRetried
      BY <1>2, CalmStays DEF IInv
    <2>2. Kind[c] = "retry" /\ Reading(c) /\ call[c].turn \in Turns /\ Retried(call[c].turn)
      BY <1>1, <2>1, CalmRetries DEF Engaged, Reading, NewestIsRetried
    <2>3. /\ row[call[c].source].status = "failed" /\ CallOnly(c) /\ RollOnly(c)
          /\ call'[c].at = "prepared"
          /\ row'[Compact(c)].status = "running"
          /\ \A y \in Rows : y # Compact(c) =>
                row'[y].status = IF y = call[c].source THEN "superseded" ELSE row[y].status
      BY <1>1, <1>4, <2>2, PrepareEffect DEF CallMoves
    <2>4. PICK a \in Rows : a = call[c].source /\ Owns(call[c].turn, a)
      BY <2>2, OwnedRows DEF IInv, SourcesAreSound, SourceShape
    <2>5. /\ LatestRow = {a}
          /\ \E i, j \in DOMAIN born : i < j /\ born[i] = a /\ born[j] = Compact(c)
      BY <2>1, <2>2, <2>3, <2>4 DEF NewestIsRetried, FromNewest
    <2>6. LatestRow' = {Compact(c)}
      <3>1. Existing' = Existing \cup {Compact(c)}
        <4>1. \A y \in Rows : row'[y].status # "none" <=> (row[y].status # "none" \/ y = Compact(c))
          BY <2>3, <2>4
        <4> QED BY <4>1, RowMembers, LatestIs
      <3>2. born \in Seq(Rows) /\ IsInjective(born) /\ a \in LastOf(born, Existing)
        BY <1>1, <2>5, Typed, LatestIs
      <3>3. LastOf(born, Existing \cup {Compact(c)}) = {Compact(c)}
        BY <2>5, <3>2, NewestJoins
      <3> QED BY <1>1, <3>1, <3>3, LatestIs
    <2>7. \A u \in Turns : Owns(u, Compact(c)) <=> u = call[c].turn
      <3>1. call[c].at # "none"
        BY <1>1
      <3> QED BY <2>2, <3>1, OwnsKinds
    <2>8. \A u \in Turns : Owns(u, Compact(c))' <=> u = call[c].turn
      BY <1>1, <2>7, OwnersKept, RowMembers
    <2>9. \A u \in Turns, y \in LatestRow' : said'[u] = "renamed" => ~Owns(u, y)'
      BY <1>1, <2>2, <2>6, <2>8 DEF Retried
    <2>10. ASSUME NEW d \in Calls, Engaged(d)' PROVE Retried(call[d].turn)'
      <3>1. call'[d].turn = call[c].turn
        <4>1. CASE d = c
          BY <1>1, <4>1 DEF OwnersStay
        <4>2. CASE d # c
          <5>1. Engaged(d) /\ call'[d] = call[d]
            BY <2>3, <2>10, <4>2 DEF Engaged, CallOnly, RollOnly
          <5>2. PICK u \in Turns : u = call[d].turn /\ Owns(u, a)
            BY <2>1, <2>5, <5>1, CalmRetries DEF NewestIsRetried, Retried
          <5> QED BY <2>2, <2>4, <5>1, <5>2, OwnerUnique
        <4> QED BY <4>1, <4>2
      <3>2. PICK u \in Turns : u = call[c].turn
        BY <2>2
      <3>3. said'[u] = "kept" /\ Owns(u, Compact(c))'
        BY <1>1, <2>2, <2>8, <3>2 DEF Retried
      <3> QED BY <2>6, <3>1, <3>2, <3>3 DEF Retried, Owns
    <2>11. ASSUME NEW d \in Calls, roll'[d].state = "starting"
           PROVE  LatestRow' = {Compact(d)}
      <3>1. CASE d = c
        BY <2>6, <3>1
      <3>2. CASE d # c
        <4>1. roll[d].state = "starting"
          BY <2>3, <2>11, <3>2 DEF RollOnly
        <4>2. call[c].source = Compact(d)
          BY <2>1, <2>4, <2>5, <4>1 DEF NewestIsRetried
        <4>3. roll[d].state = "failed"
          BY <2>2, <4>2 DEF IInv, SourcesAreSound, SourceShape
        <4> QED BY <4>1, <4>3
      <3> QED BY <3>1, <3>2
    <2>12. ASSUME NEW d \in Calls, Reading(d)' PROVE FromNewest(d)'
      <3>1. Reading(d) /\ call'[d].source = call[d].source /\ d # c
        BY <1>1, <2>3, <2>12 DEF OwnersStay, Reading
      <3>2. FromNewest(d)
        BY <2>1, <3>1 DEF NewestIsRetried
      <3>3. row'[call[d].source].status # "failed"
        <4>1. SUFFICES ASSUME row'[call[d].source].status = "failed" PROVE FALSE
          OBVIOUS
        <4>2. row[call[d].source].status = "failed"
          BY <1>1, <3>1, <4>1, SourceFailedBefore
        <4>3. call[d].source = a
          BY <2>5, <3>2, <4>2 DEF FromNewest
        <4>4. row'[a].status \in {"superseded", "running"}
          BY <2>3, <2>4
        <4> QED BY <4>1, <4>3, <4>4
      <3> QED BY <1>1, <3>1, <3>2, <3>3 DEF FromNewest
    <2> QED BY <2>9, <2>10, <2>11, <2>12
  <1> QED BY <1>3, <1>4

\* FinishCompact leaves the newest row to the turn that is retried.
LEMMA FinishCompactNewest ==
    ASSUME IInv, NEW c \in Calls, FinishCompact(c)
    PROVE  NewestIsRetried'
  <1>1. /\ RollTypeOK /\ BornOnce /\ SeenIsAll /\ CallShape(c)
        /\ \A y \in Rows : Steady(y) /\ (y # Again(c) => Unborn(y))
        /\ OwnersStay /\ call' = call /\ said' = said
        /\ task[Compact(c)].at = "ending" /\ Kind[c] = "retry"
    BY FinishCompactHands DEF IInv, CallsAreSound, FinishCompact
  <1>2. CASE ~(CanComplete(c) /\ Activate(c))
    <2>1. FailRoll(c) /\ row' = row /\ born' = born /\ raced' = raced
      BY <1>1, <1>2, FinishCompactEffect
    <2>2. \A d \in Calls : roll'[d].state = "starting" => roll[d].state = "starting"
      BY <1>1, <2>1, FailRollEffect DEF RollOnly
    <2>3. CalmBefore
      BY <1>1, <2>1 DEF CalmBefore
    <2> QED BY <1>1, <2>1, <2>2, <2>3, QuietNewest
  <1>3. CASE CanComplete(c) /\ Activate(c)
    <2> SUFFICES ASSUME Calm'
                 PROVE  /\ \A u \in Turns, y \in LatestRow' : said'[u] = "renamed" => ~Owns(u, y)'
                        /\ \A d \in Calls : Engaged(d)' => Retried(call[d].turn)'
                        /\ \A d \in Calls : roll'[d].state = "starting" => LatestRow' = {Compact(d)}
                        /\ \A d \in Calls : Reading(d)' => FromNewest(d)'
      BY DEF NewestIsRetried
    <2>1. Calm /\ NewestIsRetried
      <3>1. CalmBefore
        BY <1>1, <1>3 DEF CalmBefore, Activate
      <3> QED BY <3>1, CalmStays DEF IInv
    <2>2. roll[c].state = "starting" /\ call[c].at \notin {"none", "read", "replaced"}
      BY <1>1, <1>3 DEF CanComplete, CallShape
    <2>3. /\ LatestRow = {Compact(c)} /\ call[c].turn \in Turns
          /\ said[call[c].turn] = "kept"
      BY <2>1, <2>2, CalmRetries DEF NewestIsRetried, Engaged, Retried
    <2>4. ToRunAgain(c)
      BY <1>1, <2>3 DEF ToRunAgain
    <2>5. /\ born' = Append(born, Again(c)) /\ born \in Seq(Rows)
          /\ row'[Again(c)].status = "running" /\ row'[Compact(c)].status = "completed"
          /\ RollOnly(c) /\ roll'[c].state = "active"
      BY <1>1, <1>3, <2>4, ActivateEffect, Typed
    <2>6. LatestRow' = {Again(c)}
      <3>1. Again(c) \in Existing'
        BY <2>5, LatestIs, RowMembers
      <3> QED BY <2>5, <3>1, LatestIs, NewestAppended
    <2>7. \A u \in Turns : (Owns(u, Again(c)) <=> u = call[c].turn)
                           /\ (Owns(u, Compact(c)) <=> u = call[c].turn)
      BY <1>1, <2>2, OwnsKinds
    <2>8. \A u \in Turns : Owns(u, Again(c))' <=> u = call[c].turn
      BY <1>1, <2>7, OwnersKept, RowMembers
    <2>9. \A u \in Turns, y \in LatestRow' : said'[u] = "renamed" => ~Owns(u, y)'
      BY <1>1, <2>3, <2>6, <2>8
    <2>10. ASSUME NEW d \in Calls, Engaged(d)' PROVE Retried(call[d].turn)'
      <3>1. d # c /\ Engaged(d)
        BY <1>1, <2>2, <2>5, <2>10 DEF Engaged, RollOnly
      <3>2. PICK u \in Turns : u = call[d].turn /\ Owns(u, Compact(c))
        BY <2>1, <2>3, <3>1, CalmRetries DEF NewestIsRetried, Retried
      <3>3. u = call[c].turn
        BY <2>7, <3>2
      <3>4. said'[u] = "kept" /\ Owns(u, Again(c))'
        BY <1>1, <2>3, <2>8, <3>3
      <3> QED BY <1>1, <2>6, <3>2, <3>4 DEF Retried, Owns
    <2>11. ASSUME NEW d \in Calls, roll'[d].state = "starting" PROVE FALSE
      <3>1. d # c /\ roll[d].state = "starting"
        BY <2>5, <2>11 DEF RollOnly
      <3>2. Compact(d) = Compact(c)
        BY <2>1, <2>3, <3>1 DEF NewestIsRetried
      <3> QED BY <3>1, <3>2, RowKinds
    <2>12. ASSUME NEW d \in Calls, Reading(d)' PROVE FromNewest(d)'
      <3>1. Reading(d) /\ FromNewest(d)
        BY <1>1, <2>1, <2>12 DEF OwnersStay, NewestIsRetried
      <3>2. row'[call[d].source].status # "failed"
        <4>1. SUFFICES ASSUME row'[call[d].source].status = "failed" PROVE FALSE
          OBVIOUS
        <4>2. row[call[d].source].status = "failed"
          BY <1>1, <3>1, <4>1, SourceFailedBefore
        <4>3. call[d].source = Compact(c)
          BY <2>3, <3>1, <4>2 DEF FromNewest
        <4> QED BY <2>5, <4>1, <4>3
      <3>3. PICK i, j \in DOMAIN born : /\ i < j /\ born[i] = call[d].source
                                        /\ born[j] = Compact(d)
        BY <3>1 DEF FromNewest
      <3>4. i \in DOMAIN born' /\ j \in DOMAIN born' /\ born'[i] = born[i] /\ born'[j] = born[j]
        BY <2>5, <3>3
      <3> QED BY <1>1, <3>2, <3>3, <3>4 DEF FromNewest
    <2> QED BY <2>9, <2>10, <2>11, <2>12
  <1> QED BY <1>2, <1>3

\* Manual leaves the newest row to the turn that is retried.
LEMMA ManualNewest ==
    ASSUME IInv, NEW c \in Calls, ManualEnds(c)
    PROVE  NewestIsRetried'
  <1>1. call' = call /\ Kind[c] = "manual" /\ task[Compact(c)].at = "live"
    BY DEF ManualEnds
  <1>2. call[c].at # "none"
    <2>1. row[Compact(c)].status # "none"
      BY <1>1, RowMembers DEF IInv, RowsAreSound, RowShape
    <2> QED BY <2>1 DEF IInv, CallsAreSound, CallShape
  <1>3. ~Calm'
    BY <1>1, <1>2 DEF Calm
  <1> QED BY <1>3 DEF NewestIsRetried

-----------------------------------------------------------------------------
(* The invariant.                                                            *)
LEMMA InitInv == RollInit => IInv
  <1> SUFFICES ASSUME RollInit PROVE IInv
    OBVIOUS
  <1>1. /\ \A x \in Rows : row[x].status = "none" /\ task[x].at = "none" /\ task[x].how = "none"
        /\ \A c \in Calls : /\ roll[c].state = "none" /\ call[c].at = "none"
                            /\ call[c].source = NoRow /\ call[c].seen = {}
        /\ \A t \in Turns : said[t] = "none"
        /\ born = <<>> /\ aborting = {} /\ report = {} /\ raced = {}
        /\ mode.at = "up" /\ mode.rows = {}
    BY DEF RollInit
  <1>2. RollTypeOK
    <2>1. mode \in ModeType
      BY ContextRolloverAssumption DEF RollInit, ModeType
    <2>2. row \in [Rows -> RowType]
      BY ContextRolloverAssumption, Names DEF RollInit, RowType, Statuses
    <2>3. born \in Seq(Rows) /\ IsInjective(born)
      BY <1>1 DEF IsInjective
    <2>4. roll \in [Calls -> RollType] /\ chat \in ChatType
      BY Names DEF RollInit, RollType, ChatType, RollStates
    <2>5. call \in [Calls -> CallType]
      BY Names DEF RollInit, CallType, CallSteps
    <2>6. task \in [Rows -> TaskType]
      BY Names DEF RollInit, TaskType, TaskSteps, TaskEnds
    <2> QED BY <2>1, <2>2, <2>3, <2>4, <2>5, <2>6 DEF RollInit, RollTypeOK
  <1>3. \A x \in Rows : ~Staged(x)
    BY <1>1, StagedKinds, RowMembers
  <1>4. \A x \in Rows : RowShape(x) /\ ~Carries(x)
    BY <1>1, <1>3 DEF RowShape, Carries, Pending, Open
  <1>5. \A c \in Calls : CallShape(c) /\ ~Reading(c) /\ ~Engaged(c)
    BY <1>1, RowMembers DEF CallShape, Reading, Engaged
  <1>6. ToSet(born) = {}
    BY <1>1 DEF ToSet
  <1>7. BornOnce /\ BootIsAlone
    BY <1>1, <1>6 DEF BornOnce, BootIsAlone
  <1>8. LatestRow = {}
    BY <1>1 DEF LatestRow, Existing, LastOf
  <1>9. NewestIsRetried
    BY <1>1, <1>5, <1>8 DEF NewestIsRetried
  <1>10. ReportsAreKnown /\ SeenIsAll
    BY <1>1 DEF ReportsAreKnown, SeenIsAll
  <1> QED BY <1>2, <1>4, <1>5, <1>7, <1>9, <1>10
      DEF IInv, RowsAreSound, CallsAreSound, SourcesAreSound, OneCarrier

\* Stuttering keeps the invariant.
LEMMA StutterInv == IInv /\ UNCHANGED rollVars => IInv'
  <1> SUFFICES ASSUME IInv, UNCHANGED rollVars PROVE IInv'
    OBVIOUS
  <1>1. /\ mode' = mode /\ row' = row /\ born' = born /\ roll' = roll /\ chat' = chat
        /\ said' = said /\ call' = call /\ task' = task /\ attached' = attached
        /\ report' = report /\ aborting' = aborting /\ answered' = answered /\ raced' = raced
    BY DEF rollVars
  <1>2. RollTypeOK'
    BY <1>1 DEF IInv, RollTypeOK
  <1>3. RowsAreSound' /\ CallsAreSound'
    BY <1>1 DEF IInv, RowsAreSound, CallsAreSound, RowShape, CallShape, Staged
  <1>4. BornOnce' /\ BootIsAlone' /\ ReportsAreKnown' /\ SeenIsAll'
    BY <1>1 DEF IInv, BornOnce, BootIsAlone, ReportsAreKnown, SeenIsAll
  <1>5. (\A y \in Rows : Steady(y) /\ Unborn(y)) /\ FailuresStay /\ OwnersStay
    <2>1. \A y \in Rows : Carries(y)' <=> Carries(y)
      BY <1>1 DEF Carries, Pending, Staged
    <2> QED BY <1>1, <2>1, UnbornRests
        DEF Steady, Unborn, FailuresStay, OwnersStay, Reading
  <1>6. OneCarrier' /\ SourcesAreSound'
    BY <1>5, QuietStep
  <1>7. NewestIsRetried'
    BY <1>1, <1>5, QuietNewest DEF CalmBefore
  <1> QED BY <1>2, <1>3, <1>4, <1>6, <1>7 DEF IInv

-----------------------------------------------------------------------------
(* Every step.                                                               *)

\* BeginTurn keeps the whole invariant.
LEMMA BeginTurnStep ==
    ASSUME IInv, NEW t \in Turns,
           BeginTurn(t)
    PROVE  IInv'
  <1>1. /\ RowsAreSound' /\ CallsAreSound'
        /\ BornOnce' /\ BootIsAlone' /\ ReportsAreKnown' /\ SeenIsAll'
    BY BeginTurnShapes, BeginTurnKeeps
  <1>2. RollTypeOK'
    BY BeginTurnEffect DEF IInv
  <1>3. OneCarrier' /\ SourcesAreSound'
    BY BeginTurnCarriers
  <1>4. NewestIsRetried'
    BY BeginTurnNewest
  <1> QED BY <1>1, <1>2, <1>3, <1>4 DEF IInv

\* Register keeps the whole invariant.
LEMMA RegisterStep ==
    ASSUME IInv, NEW x \in Rows,
           Register(x)
    PROVE  IInv'
  <1>1. /\ RowsAreSound' /\ CallsAreSound'
        /\ BornOnce' /\ BootIsAlone' /\ ReportsAreKnown' /\ SeenIsAll'
    BY RegisterShapes, RegisterKeeps
  <1>2. RollTypeOK'
    BY RegisterEffect DEF IInv
  <1>3. (\A y \in Rows : Steady(y) /\ Unborn(y)) /\ FailuresStay /\ OwnersStay
    BY RegisterHands
  <1>4. OneCarrier' /\ SourcesAreSound'
    BY <1>3, QuietStep
  <1>5. born' = born /\ said' = said /\ CalmBefore
    BY <1>3 DEF Register, CalmBefore, OwnersStay
  <1>6. \A y \in Rows : row[y].status = "none" => row'[y].status = "none"
    BY RegisterEffect DEF Register, IInv, RowsAreSound, RowShape, BootIsAlone, RowOnly, Open
  <1>7. \A c \in Calls : roll'[c].state = "starting" => roll[c].state = "starting"
    BY RegisterEffect DEF Register, IInv, RollOnly
  <1>8. NewestIsRetried'
    BY <1>3, <1>5, <1>6, <1>7, QuietNewest
  <1> QED BY <1>1, <1>2, <1>4, <1>8 DEF IInv

\* StartFails keeps the whole invariant.
LEMMA StartFailsStep ==
    ASSUME IInv, NEW x \in Rows,
           StartFails(x)
    PROVE  IInv'
  <1>1. /\ RowsAreSound' /\ CallsAreSound'
        /\ BornOnce' /\ BootIsAlone' /\ ReportsAreKnown' /\ SeenIsAll'
    BY StartFailsShapes, StartFailsKeeps
  <1>2. RollTypeOK'
    BY StartFailsEffect DEF IInv
  <1>3. (\A y \in Rows : Steady(y) /\ Unborn(y)) /\ FailuresStay /\ OwnersStay
    BY StartFailsHands
  <1>4. OneCarrier' /\ SourcesAreSound'
    BY <1>3, QuietStep
  <1>5. born' = born /\ said' = said /\ CalmBefore
    BY <1>3 DEF StartFails, CalmBefore, OwnersStay
  <1>6. \A y \in Rows : row[y].status = "none" => row'[y].status = "none"
    BY StartFailsEffect DEF StartFails, IInv, RowsAreSound, RowShape, BootIsAlone, RowOnly, Open
  <1>7. \A c \in Calls : roll'[c].state = "starting" => roll[c].state = "starting"
    BY StartFailsEffect DEF StartFails, IInv, RollOnly
  <1>8. NewestIsRetried'
    BY <1>3, <1>5, <1>6, <1>7, QuietNewest
  <1> QED BY <1>1, <1>2, <1>4, <1>8 DEF IInv

\* StartFailed keeps the whole invariant.
LEMMA StartFailedStep ==
    ASSUME IInv, NEW x \in Rows,
           StartFailed(x)
    PROVE  IInv'
  <1>1. /\ RowsAreSound' /\ CallsAreSound'
        /\ BornOnce' /\ BootIsAlone' /\ ReportsAreKnown' /\ SeenIsAll'
    BY StartFailedShapes, StartFailedKeeps
  <1>2. RollTypeOK'
    BY StartFailedEffect DEF IInv
  <1>3. (\A y \in Rows : Steady(y) /\ Unborn(y)) /\ FailuresStay /\ OwnersStay
    BY StartFailedHands
  <1>4. OneCarrier' /\ SourcesAreSound'
    BY <1>3, QuietStep
  <1>5. born' = born /\ said' = said /\ CalmBefore
    BY <1>3 DEF StartFailed, CalmBefore, OwnersStay
  <1>6. \A y \in Rows : row[y].status = "none" => row'[y].status = "none"
    BY StartFailedEffect DEF StartFailed, IInv, RowsAreSound, RowShape, BootIsAlone, RowOnly, Open
  <1>7. \A c \in Calls : roll'[c].state = "starting" => roll[c].state = "starting"
    BY StartFailedEffect DEF StartFailed, IInv, RollOnly
  <1>8. NewestIsRetried'
    BY <1>3, <1>5, <1>6, <1>7, QuietNewest
  <1> QED BY <1>1, <1>2, <1>4, <1>8 DEF IInv

\* Provider keeps the whole invariant.
LEMMA ProviderStep ==
    ASSUME IInv, NEW x \in Rows,
           ProviderEnds(x) \/ ProviderStopped(x)
    PROVE  IInv'
  <1>1. /\ RowsAreSound' /\ CallsAreSound'
        /\ BornOnce' /\ BootIsAlone' /\ ReportsAreKnown' /\ SeenIsAll'
    BY ProviderShapes, ProviderKeeps
  <1>2. RollTypeOK'
    BY ProviderEffect DEF IInv
  <1>3. (\A y \in Rows : Steady(y) /\ Unborn(y)) /\ FailuresStay /\ OwnersStay
    BY ProviderHands
  <1>4. OneCarrier' /\ SourcesAreSound'
    BY <1>3, QuietStep
  <1>5. born' = born /\ said' = said /\ CalmBefore
    BY <1>3 DEF ProviderEnds, ProviderStopped, CalmBefore, OwnersStay
  <1>6. \A y \in Rows : row[y].status = "none" => row'[y].status = "none"
    BY ProviderEffect DEF ProviderEnds, ProviderStopped, IInv, RowsAreSound, RowShape, BootIsAlone, RowOnly, Open
  <1>7. \A c \in Calls : roll'[c].state = "starting" => roll[c].state = "starting"
    BY ProviderEffect DEF ProviderEnds, ProviderStopped, IInv, RollOnly
  <1>8. NewestIsRetried'
    BY <1>3, <1>5, <1>6, <1>7, QuietNewest
  <1> QED BY <1>1, <1>2, <1>4, <1>8 DEF IInv

\* Thread keeps the whole invariant.
LEMMA ThreadStep ==
    ASSUME IInv, NEW x \in Rows,
           ThreadChecked(x) \/ ThreadWritten(x)
    PROVE  IInv'
  <1>1. /\ RowsAreSound' /\ CallsAreSound'
        /\ BornOnce' /\ BootIsAlone' /\ ReportsAreKnown' /\ SeenIsAll'
    BY ThreadShapes, ThreadKeeps
  <1>2. RollTypeOK'
    BY ThreadEffect DEF IInv
  <1>3. (\A y \in Rows : Steady(y) /\ Unborn(y)) /\ FailuresStay /\ OwnersStay
    BY ThreadHands
  <1>4. OneCarrier' /\ SourcesAreSound'
    BY <1>3, QuietStep
  <1>5. born' = born /\ said' = said /\ CalmBefore
    BY <1>3 DEF ThreadChecked, ThreadWritten, CalmBefore, OwnersStay
  <1>6. \A y \in Rows : row[y].status = "none" => row'[y].status = "none"
    BY ThreadEffect DEF ThreadChecked, ThreadWritten, IInv, RowsAreSound, RowShape, BootIsAlone, RowOnly, Open
  <1>7. \A c \in Calls : roll'[c].state = "starting" => roll[c].state = "starting"
    BY ThreadEffect DEF ThreadChecked, ThreadWritten, IInv, RollOnly
  <1>8. NewestIsRetried'
    BY <1>3, <1>5, <1>6, <1>7, QuietNewest
  <1> QED BY <1>1, <1>2, <1>4, <1>8 DEF IInv

\* Stage keeps the whole invariant.
LEMMA StageStep ==
    ASSUME IInv, NEW c \in Calls,
           StageCandidate(c)
    PROVE  IInv'
  <1>1. /\ RowsAreSound' /\ CallsAreSound'
        /\ BornOnce' /\ BootIsAlone' /\ ReportsAreKnown' /\ SeenIsAll'
    BY StageShapes, StageKeeps
  <1>2. RollTypeOK'
    BY StageEffect DEF IInv
  <1>3. (\A y \in Rows : Steady(y) /\ Unborn(y)) /\ FailuresStay /\ OwnersStay
    BY StageHands
  <1>4. OneCarrier' /\ SourcesAreSound'
    BY <1>3, QuietStep
  <1>5. born' = born /\ said' = said /\ CalmBefore
    BY <1>3 DEF StageCandidate, CalmBefore, OwnersStay
  <1>6. \A y \in Rows : row[y].status = "none" => row'[y].status = "none"
    BY StageEffect DEF StageCandidate, IInv, RowsAreSound, RowShape, BootIsAlone, RowOnly, Open
  <1>7. \A d \in Calls : roll'[d].state = "starting" => roll[d].state = "starting"
    BY StageEffect DEF StageCandidate, IInv, RollOnly
  <1>8. NewestIsRetried'
    BY <1>3, <1>5, <1>6, <1>7, QuietNewest
  <1> QED BY <1>1, <1>2, <1>4, <1>8 DEF IInv

\* Read keeps the whole invariant.
LEMMA ReadStep ==
    ASSUME IInv, NEW c \in Calls, NEW t \in Turns \cup {NoTurn},
           NEW x \in Rows \cup {NoRow},
           ReadChat(c, t, x),
           Kind[c] = "manual" => x = NoRow,
           Kind[c] = "retry" => t \in Turns /\ said[t] # "none" /\ x \in RetrySource(t)
    PROVE  IInv'
  <1>1. /\ RowsAreSound' /\ CallsAreSound'
        /\ BornOnce' /\ BootIsAlone' /\ ReportsAreKnown' /\ SeenIsAll'
    BY ReadShapes, ReadKeeps
  <1>2. RollTypeOK'
    BY ReadEffect DEF IInv
  <1>3. OneCarrier' /\ SourcesAreSound'
    BY ReadCarriers
  <1>4. NewestIsRetried'
    BY ReadNewest
  <1> QED BY <1>1, <1>2, <1>3, <1>4 DEF IInv

\* Replace keeps the whole invariant.
LEMMA ReplaceStep ==
    ASSUME IInv, NEW c \in Calls,
           ReplaceMessages(c)
    PROVE  IInv'
  <1>1. /\ RowsAreSound' /\ CallsAreSound'
        /\ BornOnce' /\ BootIsAlone' /\ ReportsAreKnown' /\ SeenIsAll'
    BY ReplaceShapes, ReplaceKeeps
  <1>2. RollTypeOK'
    BY ReplaceEffect DEF IInv
  <1>3. OneCarrier' /\ SourcesAreSound'
    BY ReplaceHands, QuietStep
  <1>4. NewestIsRetried'
    BY ReplaceNewest
  <1> QED BY <1>1, <1>2, <1>3, <1>4 DEF IInv

\* Prepare keeps the whole invariant.
LEMMA PrepareStep ==
    ASSUME IInv, NEW c \in Calls,
           Prepare(c)
    PROVE  IInv'
  <1>1. /\ RowsAreSound' /\ CallsAreSound'
        /\ BornOnce' /\ BootIsAlone' /\ ReportsAreKnown' /\ SeenIsAll'
    BY PrepareShapes, PrepareKeeps
  <1>2. RollTypeOK'
    BY PrepareEffect DEF IInv
  <1>3. OneCarrier' /\ SourcesAreSound'
    BY PrepareCarriers
  <1>4. NewestIsRetried'
    BY PrepareNewest
  <1> QED BY <1>1, <1>2, <1>3, <1>4 DEF IInv

\* Launch keeps the whole invariant.
LEMMA LaunchStep ==
    ASSUME IInv, NEW c \in Calls,
           Launch(c)
    PROVE  IInv'
  <1>1. /\ RowsAreSound' /\ CallsAreSound'
        /\ BornOnce' /\ BootIsAlone' /\ ReportsAreKnown' /\ SeenIsAll'
    BY LaunchShapes, LaunchKeeps
  <1>2. RollTypeOK'
    BY LaunchEffect DEF IInv
  <1>3. (\A y \in Rows : Steady(y) /\ Unborn(y)) /\ FailuresStay /\ OwnersStay
    BY LaunchHands
  <1>4. OneCarrier' /\ SourcesAreSound'
    BY <1>3, QuietStep
  <1>5. born' = born /\ said' = said /\ CalmBefore
    BY <1>3 DEF Launch, CalmBefore, OwnersStay
  <1>6. \A y \in Rows : row[y].status = "none" => row'[y].status = "none"
    BY LaunchEffect DEF Launch, IInv, RowsAreSound, RowShape, BootIsAlone, RowOnly, Open
  <1>7. \A d \in Calls : roll'[d].state = "starting" => roll[d].state = "starting"
    BY LaunchEffect DEF Launch, IInv, RollOnly
  <1>8. NewestIsRetried'
    BY <1>3, <1>5, <1>6, <1>7, QuietNewest
  <1> QED BY <1>1, <1>2, <1>4, <1>8 DEF IInv

\* FinishCompact keeps the whole invariant.
LEMMA FinishCompactStep ==
    ASSUME IInv, NEW c \in Calls,
           FinishCompact(c)
    PROVE  IInv'
  <1>1. /\ RowsAreSound' /\ CallsAreSound'
        /\ BornOnce' /\ BootIsAlone' /\ ReportsAreKnown' /\ SeenIsAll'
    BY FinishCompactShapes, FinishCompactKeeps
  <1>2. RollTypeOK'
    BY FinishCompactEffect DEF IInv
  <1>3. OneCarrier' /\ SourcesAreSound'
    BY FinishCompactCarriers
  <1>4. NewestIsRetried'
    BY FinishCompactNewest
  <1> QED BY <1>1, <1>2, <1>3, <1>4 DEF IInv

\* Manual keeps the whole invariant.
LEMMA ManualStep ==
    ASSUME IInv, NEW c \in Calls,
           ManualEnds(c)
    PROVE  IInv'
  <1>1. /\ RowsAreSound' /\ CallsAreSound'
        /\ BornOnce' /\ BootIsAlone' /\ ReportsAreKnown' /\ SeenIsAll'
    BY ManualShapes, ManualKeeps
  <1>2. RollTypeOK'
    BY ManualEffect DEF IInv
  <1>3. OneCarrier' /\ SourcesAreSound'
    BY ManualHands, QuietStep
  <1>4. NewestIsRetried'
    BY ManualNewest
  <1> QED BY <1>1, <1>2, <1>3, <1>4 DEF IInv

\* Finish keeps the whole invariant.
LEMMA FinishStep ==
    ASSUME IInv, NEW x \in Rows,
           FinishAnswer(x) \/ FinishInactive(x)
    PROVE  IInv'
  <1>1. /\ RowsAreSound' /\ CallsAreSound'
        /\ BornOnce' /\ BootIsAlone' /\ ReportsAreKnown' /\ SeenIsAll'
    BY FinishShapes, FinishKeeps
  <1>2. RollTypeOK'
    BY FinishEffect DEF IInv
  <1>3. (\A y \in Rows : Steady(y) /\ Unborn(y)) /\ FailuresStay /\ OwnersStay
    BY FinishHands
  <1>4. OneCarrier' /\ SourcesAreSound'
    BY <1>3, QuietStep
  <1>5. born' = born /\ said' = said /\ CalmBefore
    BY <1>3 DEF FinishAnswer, FinishInactive, CalmBefore, OwnersStay
  <1>6. \A y \in Rows : row[y].status = "none" => row'[y].status = "none"
    BY FinishEffect DEF FinishAnswer, FinishInactive, IInv, RowsAreSound, RowShape, BootIsAlone, RowOnly, Open
  <1>7. \A c \in Calls : roll'[c].state = "starting" => roll[c].state = "starting"
    BY FinishEffect DEF FinishAnswer, FinishInactive, IInv, RollOnly
  <1>8. NewestIsRetried'
    BY <1>3, <1>5, <1>6, <1>7, QuietNewest
  <1> QED BY <1>1, <1>2, <1>4, <1>8 DEF IInv

\* Terminal keeps the whole invariant.
LEMMA TerminalStep ==
    ASSUME IInv, NEW x \in Rows,
           FinishTerminal(x)
    PROVE  IInv'
  <1>1. /\ RowsAreSound' /\ CallsAreSound'
        /\ BornOnce' /\ BootIsAlone' /\ ReportsAreKnown' /\ SeenIsAll'
    BY TerminalShapes, TerminalKeeps
  <1>2. RollTypeOK'
    BY TerminalEffect DEF IInv
  <1>3. (\A y \in Rows : Steady(y) /\ Unborn(y)) /\ FailuresStay /\ OwnersStay
    BY TerminalHands
  <1>4. OneCarrier' /\ SourcesAreSound'
    BY <1>3, QuietStep
  <1>5. born' = born /\ said' = said /\ CalmBefore
    BY <1>3 DEF FinishTerminal, CalmBefore, OwnersStay
  <1>6. \A y \in Rows : row[y].status = "none" => row'[y].status = "none"
    BY TerminalEffect DEF FinishTerminal, IInv, RowsAreSound, RowShape, BootIsAlone, RowOnly, Open
  <1>7. \A c \in Calls : roll'[c].state = "starting" => roll[c].state = "starting"
    BY TerminalEffect DEF FinishTerminal, IInv, RollOnly
  <1>8. NewestIsRetried'
    BY <1>3, <1>5, <1>6, <1>7, QuietNewest
  <1> QED BY <1>1, <1>2, <1>4, <1>8 DEF IInv

\* Release keeps the whole invariant.
LEMMA ReleaseStep ==
    ASSUME IInv, NEW x \in Rows,
           FinishRelease(x)
    PROVE  IInv'
  <1>1. /\ RowsAreSound' /\ CallsAreSound'
        /\ BornOnce' /\ BootIsAlone' /\ ReportsAreKnown' /\ SeenIsAll'
    BY ReleaseShapes, ReleaseKeeps
  <1>2. RollTypeOK'
    BY ReleaseEffect DEF IInv
  <1>3. (\A y \in Rows : Steady(y) /\ Unborn(y)) /\ FailuresStay /\ OwnersStay
    BY ReleaseHands
  <1>4. OneCarrier' /\ SourcesAreSound'
    BY <1>3, QuietStep
  <1>5. born' = born /\ said' = said /\ CalmBefore
    BY <1>3 DEF FinishRelease, CalmBefore, OwnersStay
  <1>6. \A y \in Rows : row[y].status = "none" => row'[y].status = "none"
    BY ReleaseEffect DEF FinishRelease, IInv, RowsAreSound, RowShape, BootIsAlone, RowOnly, Open
  <1>7. \A c \in Calls : roll'[c].state = "starting" => roll[c].state = "starting"
    BY ReleaseEffect DEF FinishRelease, IInv, RollOnly
  <1>8. NewestIsRetried'
    BY <1>3, <1>5, <1>6, <1>7, QuietNewest
  <1> QED BY <1>1, <1>2, <1>4, <1>8 DEF IInv

\* Abort keeps the whole invariant.
LEMMA AbortStep ==
    ASSUME IInv, Abort
    PROVE  IInv'
  <1>1. /\ RowsAreSound' /\ CallsAreSound'
        /\ BornOnce' /\ BootIsAlone' /\ ReportsAreKnown' /\ SeenIsAll'
    BY AbortShapes, AbortKeeps
  <1>2. RollTypeOK'
    BY AbortEffect DEF IInv
  <1>3. (\A y \in Rows : Steady(y) /\ Unborn(y)) /\ FailuresStay /\ OwnersStay
    BY AbortHands
  <1>4. OneCarrier' /\ SourcesAreSound'
    BY <1>3, QuietStep
  <1>5. born' = born /\ said' = said /\ CalmBefore
    BY <1>3 DEF Abort, CalmBefore, OwnersStay
  <1>6. \A y \in Rows : row[y].status = "none" => row'[y].status = "none"
    BY AbortEffect DEF Abort, IInv, RowsAreSound, RowShape, BootIsAlone, RowOnly, Open
  <1>7. \A c \in Calls : roll'[c].state = "starting" => roll[c].state = "starting"
    BY AbortEffect DEF Abort, IInv, RollOnly
  <1>8. NewestIsRetried'
    BY <1>3, <1>5, <1>6, <1>7, QuietNewest
  <1> QED BY <1>1, <1>2, <1>4, <1>8 DEF IInv

\* AbortMark keeps the whole invariant.
LEMMA AbortMarkStep ==
    ASSUME IInv, NEW x \in Rows,
           AbortMark(x)
    PROVE  IInv'
  <1>1. /\ RowsAreSound' /\ CallsAreSound'
        /\ BornOnce' /\ BootIsAlone' /\ ReportsAreKnown' /\ SeenIsAll'
    BY AbortMarkShapes, AbortMarkKeeps
  <1>2. RollTypeOK'
    BY AbortMarkEffect DEF IInv
  <1>3. (\A y \in Rows : Steady(y) /\ Unborn(y)) /\ FailuresStay /\ OwnersStay
    BY AbortMarkHands
  <1>4. OneCarrier' /\ SourcesAreSound'
    BY <1>3, QuietStep
  <1>5. born' = born /\ said' = said /\ CalmBefore
    BY <1>3 DEF AbortMark, CalmBefore, OwnersStay
  <1>6. \A y \in Rows : row[y].status = "none" => row'[y].status = "none"
    BY AbortMarkEffect DEF AbortMark, IInv, RowsAreSound, RowShape, BootIsAlone, RowOnly, Open
  <1>7. \A c \in Calls : roll'[c].state = "starting" => roll[c].state = "starting"
    BY AbortMarkEffect DEF AbortMark, IInv, RollOnly
  <1>8. NewestIsRetried'
    BY <1>3, <1>5, <1>6, <1>7, QuietNewest
  <1> QED BY <1>1, <1>2, <1>4, <1>8 DEF IInv

\* Die keeps the whole invariant.
LEMMA DieStep ==
    ASSUME IInv, Die
    PROVE  IInv'
  <1>1. /\ RowsAreSound' /\ CallsAreSound'
        /\ BornOnce' /\ BootIsAlone' /\ ReportsAreKnown' /\ SeenIsAll'
    BY DieShapes, DieKeeps
  <1>2. RollTypeOK'
    BY DieEffect DEF IInv
  <1>3. (\A y \in Rows : Steady(y) /\ Unborn(y)) /\ FailuresStay /\ OwnersStay
    BY DieHands
  <1>4. OneCarrier' /\ SourcesAreSound'
    BY <1>3, QuietStep
  <1>5. born' = born /\ said' = said /\ CalmBefore
    BY <1>3 DEF Die, CalmBefore, OwnersStay
  <1>6. \A y \in Rows : row[y].status = "none" => row'[y].status = "none"
    BY DieEffect DEF Die, IInv, RowsAreSound, RowShape, BootIsAlone, RowOnly, Open
  <1>7. \A c \in Calls : roll'[c].state = "starting" => roll[c].state = "starting"
    BY DieEffect DEF Die, IInv, RollOnly
  <1>8. NewestIsRetried'
    BY <1>3, <1>5, <1>6, <1>7, QuietNewest
  <1> QED BY <1>1, <1>2, <1>4, <1>8 DEF IInv

\* Boot keeps the whole invariant.
LEMMA BootStep ==
    ASSUME IInv, Restart \/ Recovered
    PROVE  IInv'
  <1>1. /\ RowsAreSound' /\ CallsAreSound'
        /\ BornOnce' /\ BootIsAlone' /\ ReportsAreKnown' /\ SeenIsAll'
    BY BootShapes, BootKeeps
  <1>2. RollTypeOK'
    BY BootEffect, ReconciledEffect DEF IInv
  <1>3. (\A y \in Rows : Steady(y) /\ Unborn(y)) /\ FailuresStay /\ OwnersStay
    BY BootHands
  <1>4. OneCarrier' /\ SourcesAreSound'
    BY <1>3, QuietStep
  <1>5. born' = born /\ said' = said /\ CalmBefore
    BY <1>3 DEF Restart, Recovered, CalmBefore, OwnersStay
  <1>6. \A y \in Rows : row[y].status = "none" => row'[y].status = "none"
    BY BootEffect, ReconciledEffect DEF Restart, Recovered, IInv, RowsAreSound, RowShape, BootIsAlone, RowOnly, Open
  <1>7. \A c \in Calls : roll'[c].state = "starting" => roll[c].state = "starting"
    BY BootEffect, ReconciledEffect DEF Restart, Recovered, IInv, RollOnly
  <1>8. NewestIsRetried'
    BY <1>3, <1>5, <1>6, <1>7, QuietNewest
  <1> QED BY <1>1, <1>2, <1>4, <1>8 DEF IInv

\* RecoverNot keeps the whole invariant.
LEMMA RecoverNotStep ==
    ASSUME IInv, NEW x \in Rows,
           RecoverNot(x)
    PROVE  IInv'
  <1>1. /\ RowsAreSound' /\ CallsAreSound'
        /\ BornOnce' /\ BootIsAlone' /\ ReportsAreKnown' /\ SeenIsAll'
    BY RecoverNotShapes, RecoverNotKeeps
  <1>2. RollTypeOK'
    BY RecoverNotEffect DEF IInv
  <1>3. (\A y \in Rows : Steady(y) /\ Unborn(y)) /\ FailuresStay /\ OwnersStay
    BY RecoverNotHands
  <1>4. OneCarrier' /\ SourcesAreSound'
    BY <1>3, QuietStep
  <1>5. born' = born /\ said' = said /\ CalmBefore
    BY <1>3 DEF RecoverNot, CalmBefore, OwnersStay
  <1>6. \A y \in Rows : row[y].status = "none" => row'[y].status = "none"
    BY RecoverNotEffect DEF RecoverNot, IInv, RowsAreSound, RowShape, BootIsAlone, RowOnly, Open
  <1>7. \A c \in Calls : roll'[c].state = "starting" => roll[c].state = "starting"
    BY RecoverNotEffect DEF RecoverNot, IInv, RollOnly
  <1>8. NewestIsRetried'
    BY <1>3, <1>5, <1>6, <1>7, QuietNewest
  <1> QED BY <1>1, <1>2, <1>4, <1>8 DEF IInv

\* RecoverRow keeps the whole invariant.
LEMMA RecoverRowStep ==
    ASSUME IInv, NEW x \in Rows,
           RecoverRow(x)
    PROVE  IInv'
  <1>1. /\ RowsAreSound' /\ CallsAreSound'
        /\ BornOnce' /\ BootIsAlone' /\ ReportsAreKnown' /\ SeenIsAll'
    BY RecoverRowShapes, RecoverRowKeeps
  <1>2. RollTypeOK'
    BY RecoverRowEffect DEF IInv
  <1>3. (\A y \in Rows : Steady(y) /\ Unborn(y)) /\ FailuresStay /\ OwnersStay
    BY RecoverRowHands
  <1>4. OneCarrier' /\ SourcesAreSound'
    BY <1>3, QuietStep
  <1>5. born' = born /\ said' = said /\ CalmBefore
    BY <1>3 DEF RecoverRow, CalmBefore, OwnersStay
  <1>6. \A y \in Rows : row[y].status = "none" => row'[y].status = "none"
    BY RecoverRowEffect DEF RecoverRow, IInv, RowsAreSound, RowShape, BootIsAlone, RowOnly, Open
  <1>7. \A c \in Calls : roll'[c].state = "starting" => roll[c].state = "starting"
    BY RecoverRowEffect DEF RecoverRow, IInv, RollOnly
  <1>8. NewestIsRetried'
    BY <1>3, <1>5, <1>6, <1>7, QuietNewest
  <1> QED BY <1>1, <1>2, <1>4, <1>8 DEF IInv

\* CompactManually keeps the whole invariant.
LEMMA CompactManuallyStep ==
    ASSUME IInv, NEW c \in Calls, CompactManually(c)
    PROVE  IInv'
  BY ReadStep DEF CompactManually

\* CompactAndRetry keeps the whole invariant.
LEMMA CompactAndRetryStep ==
    ASSUME IInv, NEW c \in Calls, NEW t \in Turns, CompactAndRetry(c, t)
    PROVE  IInv'
  <1>1. PICK x \in RetrySource(t) : ReadChat(c, t, x)
    BY DEF CompactAndRetry
  <1>2. x \in Rows
    BY RetrySourceShape
  <1> QED BY <1>1, <1>2, ReadStep DEF CompactAndRetry

\* Every step keeps it.
LEMMA NextInv == IInv /\ [RollNext]_rollVars => IInv'
  <1> SUFFICES ASSUME IInv, [RollNext]_rollVars PROVE IInv'
    OBVIOUS
  <1>1. CASE UNCHANGED rollVars
    BY <1>1, StutterInv
  <1>2. ASSUME NEW t \in Turns, BeginTurn(t) PROVE IInv'
    BY <1>2, BeginTurnStep
  <1>3. ASSUME NEW x \in Rows, TaskStep(x) PROVE IInv'
    BY <1>3, RegisterStep, StartFailsStep, StartFailedStep, ThreadStep, FinishStep,
       TerminalStep, ReleaseStep DEF TaskStep
  <1>4. ASSUME NEW x \in Rows,
               \/ ProviderEnds(x) \/ ProviderStopped(x) \/ ThreadChecked(x) \/ AbortMark(x)
               \/ RecoverNot(x) \/ RecoverRow(x)
        PROVE  IInv'
    BY <1>4, ProviderStep, ThreadStep, AbortMarkStep, RecoverNotStep, RecoverRowStep
  <1>5. ASSUME NEW c \in Calls,
               CompactManually(c) \/ \E t \in Turns : CompactAndRetry(c, t)
        PROVE  IInv'
    BY <1>5, CompactManuallyStep, CompactAndRetryStep
  <1>6. ASSUME NEW c \in Calls, CallStep(c) \/ StageCandidate(c) \/ ManualEnds(c)
        PROVE  IInv'
    BY <1>6, ReplaceStep, PrepareStep, LaunchStep, FinishCompactStep, StageStep, ManualStep
    DEF CallStep
  <1>7. CASE Abort \/ Die \/ Restart \/ Recovered
    BY <1>7, AbortStep, DieStep, BootStep
  <1> QED BY <1>1, <1>2, <1>3, <1>4, <1>5, <1>6, <1>7 DEF RollNext

\* The inductive invariant holds in every reachable state.
LEMMA Invariance == RollSpec => []IInv
  <1>1. RollInit => IInv
    BY InitInv
  <1>2. IInv /\ [RollNext]_rollVars => IInv'
    BY NextInv
  <1> QED BY <1>1, <1>2, PTL DEF RollSpec

-----------------------------------------------------------------------------
(* What follows.                                                             *)

\* The tables keep their types, and no row is listed twice.
THEOREM TypeCorrect == RollSpec => []RollTypeOK
  <1>1. IInv => RollTypeOK
    BY DEF IInv
  <1> QED BY <1>1, Invariance, PTL

\* A failed prompt is answered once: of the runs of one user message, across
\* retries, repeated requests, aborts and recoveries, at most one completes.
THEOREM AnsweredOnce == RollSpec => []PromptAnsweredOnce
  <1>1. ASSUME IInv, NEW t \in Turns
        PROVE  Cardinality({x \in {Turn(t)} \cup {Again(c) : c \in
                                     {d \in Calls : call[d].turn = t}} :
                              row[x].status = "completed"}) <= 1
    <2> DEFINE S == {x \in {Turn(t)} \cup {Again(c) : c \in
                                     {d \in Calls : call[d].turn = t}} :
                              row[x].status = "completed"}
    <2>1. ASSUME NEW x \in S
          PROVE  x \in Rows /\ Owns(t, x) /\ Carries(x)
      <3>1. CASE x = Turn(t)
        BY <3>1, RowMembers, OwnsKinds DEF Carries
      <3>2. ASSUME NEW c \in Calls, x = Again(c), call[c].turn = t
            PROVE  x \in Rows /\ Owns(t, x) /\ Carries(x)
        <4>0. row[Again(c)].status # "none"
          BY <2>1, <3>2
        <4>1. Kind[c] = "retry" /\ call[c].at # "none"
          BY <1>1, <4>0 DEF IInv, CallsAreSound, CallShape
        <4> QED BY <3>2, <4>1, RowMembers, OwnsKinds DEF Carries
      <3> QED BY <3>1, <3>2
    <2>2. \A x, y \in S : x = y
      BY <1>1, <2>1 DEF IInv, OneCarrier
    <2>3. ASSUME S = {} PROVE Cardinality(S) <= 1
      <3>1. Cardinality({}) = 0
        BY FS_EmptySet
      <3> HIDE DEF S
      <3> QED BY <2>3, <3>1
    <2>4. ASSUME NEW x \in S PROVE Cardinality(S) <= 1
      <3>1. S = {x}
        BY <2>2
      <3>2. Cardinality({x}) = 1
        BY FS_Singleton
      <3> HIDE DEF S
      <3> QED BY <3>1, <3>2
    <2> QED BY <2>3, <2>4
  <1>2. IInv => PromptAnsweredOnce
    BY <1>1 DEF PromptAnsweredOnce
  <1> QED BY <1>2, Invariance, PTL

\* The compaction run of an active rollover is neither reopened nor resumed,
\* and the chat was switched to a thread that the rollover staged.
THEOREM ActivatedWhole == RollSpec => []ActivationIsWhole
  <1>1. IInv => ActivationIsWhole
    BY DEF IInv, CallsAreSound, CallShape, ActivationIsWhole
  <1> QED BY <1>1, Invariance, PTL

\* No user message disappears, and the one a pending rollover wants to run
\* again keeps its id, unless a turn began while a request was being checked.
THEOREM MessagesStay == RollSpec => []TranscriptKept
  <1>1. ASSUME IInv, "turn" \notin raced, NEW c \in Calls, roll[c].state = "starting",
               \A d \in Calls : Kind[d] = "manual" => call[d].at = "none"
        PROVE  said[call[c].turn] # "renamed"
    <2>1. Calm /\ Engaged(c)
      BY <1>1 DEF Calm, Engaged
    <2> QED BY <1>1, <2>1 DEF IInv, NewestIsRetried, Retried
  <1>2. IInv => TranscriptKept
    BY <1>1 DEF IInv, SeenIsAll, TranscriptKept
  <1> QED BY <1>2, Invariance, PTL

\* After a rollover in a clean thread the chat only moves to the thread of a
\* later rollover, unless a report that was checked before is written after
\* the activation.
THEOREM ThreadsStay == RollSpec => ThreadNeverGoesBack
  <1> DEFINE Switched == \E d \in Calls :
                 /\ roll[d].state = "starting" /\ roll'[d].state = "active"
                 /\ chat'.thread = roll'[d].candidate
  <1>1. ASSUME IInv, [RollNext]_rollVars, NEW c \in Calls, roll[c].state = "active",
               "report" \notin raced, chat'.thread # chat.thread
        PROVE  Switched
    <2>0. RollTypeOK /\ BornOnce /\ RowsAreSound
      BY <1>1 DEF IInv
    <2>1. CASE UNCHANGED rollVars
      BY <1>1, <2>1 DEF rollVars
    <2>2. ASSUME NEW t \in Turns, BeginTurn(t) PROVE FALSE
      BY <1>1, <2>0, <2>2, BeginTurnEffect
    <2>3. ASSUME NEW x \in Rows, ThreadWritten(x) PROVE FALSE
      BY <1>1, <2>3 DEF ThreadWritten, IInv, ReportsAreKnown
    <2>4. ASSUME NEW x \in Rows,
                 \/ Register(x) \/ StartFails(x) \/ StartFailed(x)
                 \/ FinishAnswer(x) \/ FinishInactive(x) \/ FinishTerminal(x)
                 \/ FinishRelease(x) \/ ThreadChecked(x) \/ RecoverNot(x)
                 \/ ProviderEnds(x) \/ ProviderStopped(x) \/ AbortMark(x) \/ RecoverRow(x)
          PROVE  FALSE
      <3>1. CASE Register(x) \/ StartFails(x) \/ FinishTerminal(x) \/ ThreadChecked(x)
                   \/ RecoverNot(x) \/ ProviderEnds(x) \/ ProviderStopped(x)
        BY <1>1, <3>1 DEF Register, StartFails, FinishTerminal, ThreadChecked, RecoverNot,
                          ProviderEnds, ProviderStopped
      <3>2. CASE \/ StartFailed(x) \/ FinishAnswer(x) \/ FinishInactive(x) \/ FinishRelease(x)
                 \/ AbortMark(x) \/ RecoverRow(x)
        BY <1>1, <2>0, <3>2, StartFailedEffect, FinishEffect, ReleaseEffect, AbortMarkEffect,
           RecoverRowEffect
      <3> QED BY <2>4, <3>1, <3>2
    <2>5. ASSUME NEW d \in Calls, NEW t \in Turns, CompactManually(d) \/ CompactAndRetry(d, t)
          PROVE  FALSE
      BY <1>1, <2>5 DEF CompactManually, CompactAndRetry, ReadChat
    <2>6. ASSUME NEW d \in Calls, CompactManually(d) PROVE FALSE
      BY <1>1, <2>6 DEF CompactManually, ReadChat
    <2>7. ASSUME NEW d \in Calls,
                 ReplaceMessages(d) \/ Prepare(d) \/ Launch(d) \/ StageCandidate(d)
          PROVE  FALSE
      BY <1>1, <2>0, <2>7, LaunchEffect DEF ReplaceMessages, Prepare, StageCandidate
    <2>8. ASSUME NEW d \in Calls, FinishCompact(d) \/ ManualEnds(d) PROVE Switched
      <3>1. CanComplete(d) /\ Activate(d)
        BY <1>1, <2>0, <2>8, FinishCompactEffect, ManualEffect
      <3> QED BY <2>0, <3>1, ActivateEffect DEF CanComplete
    <2>9. CASE Abort \/ Die \/ Restart \/ Recovered
      <3>1. chat'.thread = chat.thread
        BY <2>0, <2>9, AbortEffect, BootEffect DEF Die
      <3> QED BY <1>1, <3>1
    <2> QED BY <1>1, <2>1, <2>2, <2>3, <2>4, <2>5, <2>6, <2>7, <2>8, <2>9
        DEF RollNext, TaskStep, CallStep
  <1>2. ASSUME IInv, [RollNext]_rollVars PROVE [ThreadMove]_rollVars
    BY <1>1, <1>2 DEF ThreadMove
  <1> QED BY <1>2, Invariance, PTL DEF RollSpec, ThreadNeverGoesBack
=============================================================================
