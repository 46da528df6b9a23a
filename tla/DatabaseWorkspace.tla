--------------------------- MODULE DatabaseWorkspace ---------------------------
(***************************************************************************)
(* The database workspace: connection profiles in the server's own table,  *)
(* pools to live databases in two process-wide caches, and the requests    *)
(* that read and write tables of the user's databases: table transfers     *)
(* (a task that outlives its request), exports and imports of files,       *)
(* portable copies, row edits and queries.                                 *)
(*                                                                         *)
(* A request captures the profiles it needs when it starts.  For a live    *)
(* connection it asks the cache for a pool at its first remote call (later *)
(* calls find that pool or open it again); a SQLite file is opened by each *)
(* call.  Nothing locks a table between two calls, so other requests write *)
(* it between a check and the write that relies on it.                     *)
(* A table is its columns and its rows, a row a value for each column: a   *)
(* number, a text, a span (a date, a time or an interval) or an infinite   *)
(* number.                                                                 *)
(***************************************************************************)
EXTENDS Naturals, FiniteSets, Sequences, SequencesExt, TLC

CONSTANTS Conns,     \* ids of connection profiles
          Sqlite,    \* those of SQLite files; the others are live servers
          Tables,    \* table names, each of one connection
          Home,      \* [Tables -> Conns]
          Handlers,  \* requests (a bound)
          Rows,      \* rows that users write
          Batch,     \* TRANSFER_ROW_BATCH_SIZE
          MaxPools,  \* LIVE_POOL_CACHE_MAX_ENTRIES
          MaxEdits,  \* bound on edits of a profile
          MaxRows,   \* bound on rows of a table
          Shift      \* what a span gains when it is read and written again:
                     \* the time zone of the server

ASSUME DatabaseAssumption ==
    /\ Sqlite \subseteq Conns /\ Home \in [Tables -> Conns]
    /\ {Batch, MaxPools} \subseteq Nat \ {0}
    /\ {MaxEdits, MaxRows, Shift} \subseteq Nat

VARIABLES
    profiles, \* database_connections: where each connection leads
    pools,    \* LIVE_POOL_CACHE and TYPED_LIVE_POOL_CACHE
    tables,   \* the tables in the users' databases
    file,     \* the export file
    clip,     \* a portable copy of a table, in the hands of the client
    jobs,     \* database_transfer_jobs
    serve     \* where each request stands

databaseVars == <<profiles, pools, tables, file, clip, jobs, serve>>

Null == [kind |-> "null", n |-> 9]
Nowhere == [host |-> 9, pw |-> 9]          \* not made yet; no pool
Deleted == [host |-> 8, pw |-> 8]          \* ids are not given twice
NoName == "none"
NoTable == [there |-> FALSE, cols |-> {}, rows |-> <<>>]
NoRows == <<>>
NoJob == [status |-> "none", copied |-> 0, failed |-> 0, made |-> FALSE]
Ops == {"none", "create", "update", "delete", "test", "transfer", "export",
        "import", "copy", "new", "paste", "edit", "add", "remove", "query"}
Modes == {"copy", "schema", "data"}
Idle == [op |-> "none", at |-> "none", mode |-> "copy", from |-> NoName, to |-> NoName,
         url |-> [c \in Conns |-> Nowhere], pool |-> [c \in Conns |-> Nowhere],
         dial |-> {}, opening |-> {}, cols |-> {}, todo |-> NoRows, read |-> NoRows, offset |-> 0,
         more |-> FALSE, copied |-> 0, failed |-> 0, made |-> FALSE, map |-> <<>>,
         seen |-> <<>>, clean |-> TRUE, before |-> NoTable]

DatabaseTypeOK ==
    /\ \A h \in Handlers :
          /\ serve[h].op \in Ops /\ serve[h].mode \in Modes
          /\ serve[h].dial \cup serve[h].opening \subseteq Conns \ Sqlite
          /\ serve[h].copied + serve[h].failed + Len(serve[h].todo) =< 2 * MaxRows
    /\ \A t \in Tables : tables[t].there \in BOOLEAN /\ Len(tables[t].rows) =< MaxRows
    /\ \A k \in {"any", "typed"} : Cardinality({p \in pools : p.kind = k}) =< MaxPools
    /\ \A h \in Handlers : jobs[h].status \in {"none", "running", "done", "failed"}

-----------------------------------------------------------------------------
(* Columns and rows *)

\* build_column_mappings: each target column takes the source column of its
\* name, or else one whose name reads the same without case and punctuation.
Mapping(from, to) ==
    LET Named(t) == {s \in from : s.name = t.name}
        Alike(t) == IF Named(t) # {} THEN Named(t) ELSE {s \in from : s.key = t.key}
        found == {t \in to : Alike(t) # {}}
    IN [n \in {t.name : t \in found} |->
            (CHOOSE s \in Alike(CHOOSE t \in to : t.name = n) : TRUE).name]

\* Target columns that must be given and are not.
Missing(from, to) == {t \in to : t.required /\ ~t.pk /\ t.name \notin DOMAIN Mapping(from, to)}

MappedRow(map, row) == [n \in DOMAIN map |-> IF map[n] \in DOMAIN row THEN row[map[n]] ELSE Null]

\* A row as JSON: spans become text (dates in UTC, cut to milliseconds),
\* numbers that are not finite null.
AsJson(v) == CASE v.kind = "span" -> [v EXCEPT !.kind = "text"]
               [] v.kind = "infinite" -> Null
               [] OTHER -> v
JsonRow(row) == [n \in DOMAIN row |-> AsJson(row[n])]

\* The row a database stores, and whether it accepts it.  A live database
\* reads text for a column of spans, and refuses it in a column of another
\* type; SQLite stores it.
TakenAs(t, c, v) ==
    IF Home[t] \notin Sqlite /\ c.type \in {"interval", "date"} /\ v.kind = "text"
    THEN [kind |-> "span", n |-> v.n + Shift] ELSE v
Stored(t, cols, row) ==
    [n \in {c.name : c \in cols} |->
        IF n \in DOMAIN row THEN TakenAs(t, CHOOSE c \in cols : c.name = n, row[n]) ELSE Null]
SameKey(cols, a, b) == \A c \in cols : c.pk => a[c.name] = b[c.name]
HasKey(cols) == \E c \in cols : c.pk
Accepts(t, row) ==
    LET new == Stored(t, tables[t].cols, row)
    IN /\ tables[t].there
       /\ \A n \in DOMAIN row : n \in DOMAIN new
       /\ \A c \in tables[t].cols :
             /\ c.required \/ c.pk => new[c.name] # Null
             /\ new[c.name].kind = "text" /\ Home[t] \notin Sqlite => c.type = "text"
       /\ HasKey(tables[t].cols) =>
             \A i \in 1..Len(tables[t].rows) :
                ~SameKey(tables[t].cols, tables[t].rows[i], new)
Inserted(t, row) ==
    [tables[t] EXCEPT !.rows = Append(@, Stored(t, tables[t].cols, row))]

\* transfer_column_type asks whether the type's name contains "int" before it
\* asks anything else, so an interval becomes an integer.
ColumnType(c, type) ==
    CASE type = "interval" -> "int"
      [] type = "bool" /\ c \in Sqlite -> "int"
      [] OTHER -> type
\* The table that CREATE TABLE makes from source columns: it is left as it is
\* when it exists, and keeps the key and the required columns.
Created(t, cols) ==
    IF tables[t].there THEN tables[t]
    ELSE [there |-> TRUE, rows |-> NoRows,
          cols |-> {[c EXCEPT !.type = ColumnType(Home[t], c.type)] : c \in cols}]

\* What SELECT * may give of a table when it gives n rows: nothing orders
\* them, and the next page is another statement, on another connection.
Pages(t, n) == {[i \in 1..n |-> JsonRow(tables[t].rows[place[i]])] :
                    place \in Injection(1..n, 1..Len(tables[t].rows))}
\* A page is read with LIMIT Batch + 1 OFFSET offset.
PageSize(t, offset) ==
    LET rest == Len(tables[t].rows) - offset
    IN IF rest <= 0 THEN 0 ELSE IF rest <= Batch THEN rest ELSE Batch

\* Faulty variant: the page is read with LIMIT Batch.
HasMoreOfFullPage(t, offset) == FALSE
HasMore(t, offset) == Len(tables[t].rows) > offset + Batch

-----------------------------------------------------------------------------
DatabaseInit(made, stored) ==
    /\ profiles = [c \in Conns |-> IF c \in made THEN [host |-> 0, pw |-> 0] ELSE Nowhere]
    /\ pools = {}
    /\ tables = stored
    /\ file = [by |-> NoName, whole |-> TRUE, cols |-> {}, rows |-> NoRows]
    /\ clip = [cols |-> {}, rows |-> NoRows]
    /\ jobs = [h \in Handlers |-> NoJob]
    /\ serve = [h \in Handlers |-> Idle]

Known(c) == profiles[c] \notin {Nowhere, Deleted}
\* A request with some of its fields changed.
With(request, change) ==
    [f \in DOMAIN request |-> IF f \in DOMAIN change THEN change[f] ELSE request[f]]
Go(h, change) == serve' = [serve EXCEPT ![h] = With(@, change)]

\* h writes table t; whoever works with that table is not alone any more.
Writes(h, t, table, change) ==
    /\ tables' = [tables EXCEPT ![t] = table]
    /\ serve' = [g \in Handlers |->
                    IF g = h THEN With(serve[h], change)
                    ELSE IF t \in {serve[g].from, serve[g].to}
                         THEN [serve[g] EXCEPT !.clean = FALSE] ELSE serve[g]]

-----------------------------------------------------------------------------
(* Connection profiles *)

CreateConnection(h, c) ==
    /\ serve[h] = Idle /\ profiles[c] = Nowhere
    /\ profiles' = [profiles EXCEPT ![c] = [host |-> MaxEdits, pw |-> MaxEdits]]
    /\ Go(h, [op |-> "create", at |-> "over"])
    /\ UNCHANGED <<pools, tables, file, clip, jobs>>

\* update_connection reads the profile, because a blank password means the
\* stored one.
LoadForUpdate(h, c) ==
    /\ serve[h] = Idle /\ Known(c)
    /\ Go(h, [op |-> "update", at |-> "loaded", url |-> [serve[h].url EXCEPT ![c] = profiles[c]],
              seen |-> c])
    /\ UNCHANGED <<profiles, pools, tables, file, clip, jobs>>

SaveConnection(h) ==
    /\ serve[h].op = "update" /\ serve[h].at = "loaded"
    /\ LET c == serve[h].seen
           old == serve[h].url[c]
       IN IF ~Known(c)
          THEN Go(h, [at |-> "over"]) /\ UNCHANGED profiles
          ELSE /\ \E blank \in BOOLEAN, host \in old.host..MaxEdits :
                     /\ old.pw < MaxEdits \/ blank
                     /\ profiles' = [profiles EXCEPT ![c] =
                            [host |-> host, pw |-> IF blank THEN old.pw ELSE old.pw + 1]]
               /\ Go(h, [at |-> "changed"])
    /\ UNCHANGED <<pools, tables, file, clip, jobs>>

DeleteConnection(h, c) ==
    /\ serve[h] = Idle /\ Known(c)
    /\ profiles' = [profiles EXCEPT ![c] = Deleted]
    /\ Go(h, [op |-> "delete", at |-> "changed", seen |-> c])
    /\ UNCHANGED <<pools, tables, file, clip, jobs>>

EvictPools(h) ==
    /\ serve[h].op \in {"update", "delete"} /\ serve[h].at = "changed"
    /\ pools' = {p \in pools : p.conn # serve[h].seen}
    /\ Go(h, [at |-> "over"])
    /\ UNCHANGED <<profiles, tables, file, clip, jobs>>

-----------------------------------------------------------------------------
(* Pools *)

CacheOf(op) == IF op = "query" THEN "typed" ELSE "any"

\* Faulty variant: a pool is looked for by the id of the profile alone.
FindPoolById(h, c) ==
    {p \in pools : p.kind = CacheOf(serve[h].op) /\ p.conn = c}

\* The pool an entry of the cache gives to a request for connection c.
FindPool(h, c) ==
    {p \in pools : p.kind = CacheOf(serve[h].op) /\ p.conn = c /\ p.url = serve[h].url[c]}

\* The lock of the cache is released while the connection is opened.
LookUpPool(h, c) ==
    /\ c \in serve[h].dial
    /\ IF FindPool(h, c) = {}
       THEN Go(h, [dial |-> serve[h].dial \ {c}, opening |-> serve[h].opening \cup {c}])
       ELSE \E p \in FindPool(h, c) :
               Go(h, [dial |-> serve[h].dial \ {c},
                      pool |-> [serve[h].pool EXCEPT ![c] = p.url]])
    /\ UNCHANGED <<profiles, pools, tables, file, clip, jobs>>

\* Faulty variant: nothing is given up for a new pool.
OpenPoolAnyway(h, c) ==
    /\ c \in serve[h].opening
    /\ pools' = pools \cup {[kind |-> CacheOf(serve[h].op), conn |-> c, url |-> serve[h].url[c]]}
    /\ Go(h, [opening |-> serve[h].opening \ {c},
              pool |-> [serve[h].pool EXCEPT ![c] = serve[h].url[c]]])
    /\ UNCHANGED <<profiles, tables, file, clip, jobs>>

\* Another request may have opened the same one; a full cache gives up its
\* least recently used entry.
OpenPool(h, c) ==
    /\ c \in serve[h].opening
    /\ LET new == [kind |-> CacheOf(serve[h].op), conn |-> c, url |-> serve[h].url[c]]
           same == {p \in pools : p.kind = new.kind}
       IN \/ FindPool(h, c) # {} /\ UNCHANGED pools
          \/ /\ FindPool(h, c) = {} /\ Cardinality(same) < MaxPools
             /\ pools' = pools \cup {new}
          \/ /\ FindPool(h, c) = {} /\ Cardinality(same) = MaxPools
             /\ \E old \in same : pools' = (pools \ {old}) \cup {new}
    /\ Go(h, [opening |-> serve[h].opening \ {c},
              pool |-> [serve[h].pool EXCEPT ![c] =
                  IF FindPool(h, c) = {} THEN serve[h].url[c]
                  ELSE (CHOOSE p \in FindPool(h, c) : TRUE).url]])
    /\ UNCHANGED <<profiles, tables, file, clip, jobs>>

\* Pools that nobody used for LIVE_POOL_CACHE_TTL are dropped.
ExpirePool == \E p \in pools :
    pools' = pools \ {p} /\ UNCHANGED <<profiles, tables, file, clip, jobs, serve>>

-----------------------------------------------------------------------------
(* Requests about tables *)

\* load_connection for the tables named; a profile that is gone refuses.
Request(h, op, from, to, mode, job) ==
    LET needs == {Home[t] : t \in {from, to}}
    IN /\ serve[h] = Idle
       /\ \A c \in needs : Known(c)
       /\ Go(h, [op |-> op, at |-> "asked", from |-> from, to |-> to, mode |-> mode,
                 url |-> [c \in Conns |-> IF c \in needs THEN profiles[c] ELSE Nowhere],
                 dial |-> needs \ Sqlite, before |-> tables[to]])
       /\ jobs' = [jobs EXCEPT ![h] = job]
       /\ UNCHANGED <<profiles, pools, tables, file, clip>>

At(h, ops, at) == /\ serve[h].op \in ops /\ serve[h].at = at
                  /\ serve[h].dial = {} /\ serve[h].opening = {}

\* A request that only moves on; one that ends without a job.
Continue(h, change) ==
    Go(h, change) /\ UNCHANGED <<profiles, pools, tables, file, clip, jobs>>
Store(h, t, table, change) ==
    Writes(h, t, table, change) /\ UNCHANGED <<profiles, pools, file, clip, jobs>>

\* fail_database_job: what was written stays, the job has no result.
HasJob == {"transfer", "export", "import"}
Fail(h) ==
    /\ Go(h, [at |-> "over"])
    /\ jobs' = IF serve[h].op \in HasJob THEN [jobs EXCEPT ![h].status = "failed"] ELSE jobs
    /\ UNCHANGED <<profiles, pools, tables, file, clip>>
Succeed(h) ==
    /\ Go(h, [at |-> "over"])
    /\ jobs' = [jobs EXCEPT ![h] = [status |-> "done", copied |-> serve[h].copied,
                                    failed |-> serve[h].failed, made |-> serve[h].made]]
    /\ UNCHANGED <<profiles, pools, tables, file, clip>>

\* The answer of a live database is lost, or it could not be reached; rows
\* that fail are counted by their step.
StoreUnheard(h, t, table) ==
    /\ Home[t] \notin Sqlite
    /\ Writes(h, t, table, [at |-> "over"])
    /\ jobs' = IF serve[h].op \in HasJob THEN [jobs EXCEPT ![h].status = "failed"] ELSE jobs
    /\ UNCHANGED <<profiles, pools, file, clip>>
LoseDatabase(h) ==
    /\ serve[h].at \in {"asked", "inspected", "creating", "mapping", "read", "insert", "apply"}
    /\ serve[h].op \notin {"create", "update", "delete", "test"}
    /\ \E t \in {serve[h].from, serve[h].to} : Home[t] \notin Sqlite
    /\ Fail(h)

-----------------------------------------------------------------------------
(* Transfers: create_transfer stores the job and leaves a task behind *)

CreateTransfer(h, from, to, mode) ==
    /\ from # to
    /\ Request(h, "transfer", from, to, mode, [NoJob EXCEPT !.status = "running"])

InspectSource(h) ==
    /\ At(h, {"transfer"}, "asked")
    /\ IF tables[serve[h].from].there
       THEN Continue(h, [at |-> "inspected", cols |-> tables[serve[h].from].cols])
       ELSE Fail(h)

PrepareTarget(h) ==
    /\ At(h, {"transfer"}, "inspected")
    /\ IF tables[serve[h].to].there = (serve[h].mode = "copy")
       THEN Continue(h, [at |-> IF serve[h].mode = "copy" THEN "mapping" ELSE "creating"])
       ELSE Fail(h)

\* CREATE TABLE IF NOT EXISTS
CreateTarget(h) ==
    /\ At(h, {"transfer", "import", "new"}, "creating")
    /\ LET new == Created(serve[h].to, serve[h].cols)
       IN \/ Store(h, serve[h].to, new,
                   [made |-> TRUE,
                    at |-> IF serve[h].op # "transfer" THEN "insert"
                           ELSE IF serve[h].mode = "schema" THEN "finish" ELSE "mapping"])
          \/ StoreUnheard(h, serve[h].to, new)

MapColumns(h) ==
    /\ At(h, {"transfer"}, "mapping")
    /\ LET to == tables[serve[h].to].cols
       IN IF Mapping(serve[h].cols, to) = <<>> \/ Missing(serve[h].cols, to) # {}
          THEN Fail(h)
          ELSE Continue(h, [at |-> "read", map |-> Mapping(serve[h].cols, to)])

ReadPage(h) ==
    /\ At(h, {"transfer"}, "read")
    /\ LET n == PageSize(serve[h].from, serve[h].offset)
       IN IF n = 0 THEN Continue(h, [at |-> "finish"])
          ELSE \E page \in Pages(serve[h].from, n) :
                  Continue(h, [at |-> "insert", todo |-> page,
                               more |-> HasMore(serve[h].from, serve[h].offset)])

\* A row goes in and is counted, or fails and is counted; when the answer of a
\* live database is lost, the row is in and counted as failed.
InsertMapped(h, next) ==
    LET t == serve[h].to
        row == MappedRow(serve[h].map, Head(serve[h].todo))
        copied == [next EXCEPT !.copied = @ + 1]
        failed == [next EXCEPT !.failed = @ + 1]
    IN \/ /\ Accepts(t, row) /\ Len(tables[t].rows) < MaxRows
          /\ \/ Store(h, t, Inserted(t, row), copied)
             \/ Home[t] \notin Sqlite /\ Store(h, t, Inserted(t, row), failed)
       \/ Continue(h, failed)

\* Each row is a statement of its own; one that fails is counted and left.
CopyRow(h) ==
    /\ At(h, {"transfer"}, "insert") /\ serve[h].todo # NoRows
    /\ InsertMapped(h, [todo |-> Tail(serve[h].todo), offset |-> serve[h].offset + 1,
                        copied |-> serve[h].copied, failed |-> serve[h].failed])

NextPage(h) ==
    /\ At(h, {"transfer"}, "insert") /\ serve[h].todo = NoRows
    /\ Continue(h, [at |-> IF serve[h].more THEN "read" ELSE "finish"])

FinishTransfer(h) ==
    /\ At(h, {"transfer"}, "finish")
    /\ Succeed(h)

-----------------------------------------------------------------------------
(* Files *)

ExportTable(h, t) == Request(h, "export", t, t, "copy", NoJob)

\* read_transfer_source: one statement for SQLite, pages for a live database.
ReadSource(h) ==
    /\ At(h, {"export", "copy"}, "asked")
    /\ LET t == serve[h].from
           n == IF serve[h].mode = "schema" THEN 0
                ELSE IF Home[t] \in Sqlite THEN Len(tables[t].rows)
                ELSE PageSize(t, serve[h].offset)
           done == Home[t] \in Sqlite \/ serve[h].mode = "schema"
                       \/ ~HasMore(t, serve[h].offset)
       IN IF ~tables[t].there THEN Fail(h)
          ELSE \E page \in Pages(t, n) :
                  Continue(h, [read |-> serve[h].read \o page, cols |-> tables[t].cols,
                               offset |-> serve[h].offset + n,
                               at |-> IF done THEN "write" ELSE "asked"])

\* tokio::fs::write empties the file before it writes.
OpenExport(h) ==
    /\ At(h, {"export"}, "write")
    /\ file' = [by |-> h, whole |-> FALSE, cols |-> {}, rows |-> NoRows]
    /\ Go(h, [at |-> "writing"])
    /\ UNCHANGED <<profiles, pools, tables, clip, jobs>>
WriteExport(h) ==
    /\ At(h, {"export"}, "writing")
    /\ file' = [by |-> h, whole |-> TRUE, cols |-> serve[h].cols, rows |-> serve[h].read]
    /\ Go(h, [at |-> "over", copied |-> Len(serve[h].read)])
    /\ jobs' = [jobs EXCEPT ![h] = [NoJob EXCEPT !.status = "done", !.copied = Len(serve[h].read)]]
    /\ UNCHANGED <<profiles, pools, tables, clip>>

ImportTable(h, t) == file.by # NoName /\ Request(h, "import", t, t, "copy", NoJob)

\* infer_import_columns: nullable text, no key.
Inferred(cols) == {[c EXCEPT !.type = "text", !.pk = FALSE, !.required = FALSE] : c \in cols}
ReadImport(h) ==
    /\ At(h, {"import"}, "asked")
    /\ IF ~file.whole \/ file.rows = NoRows THEN Fail(h)
       ELSE Continue(h, [at |-> "inspected", todo |-> file.rows, cols |-> Inferred(file.cols)])
FindImportTarget(h) ==
    /\ At(h, {"import"}, "inspected")
    /\ Continue(h, [at |-> IF tables[serve[h].to].there THEN "insert" ELSE "creating"])

AllAccepted(t, rows) ==
    /\ \A i \in 1..Len(rows) : Accepts(t, rows[i])
    /\ HasKey(tables[t].cols) => \A i, j \in 1..Len(rows) :
          i # j => ~SameKey(tables[t].cols, Stored(t, tables[t].cols, rows[i]),
                            Stored(t, tables[t].cols, rows[j]))
\* SQLite takes the rows in one transaction, a live database one by one.
ImportByRow(h) ==
    /\ At(h, {"import"}, "insert") /\ serve[h].todo # NoRows
    /\ LET t == serve[h].to
       IN IF Accepts(t, Head(serve[h].todo))
          THEN /\ Len(tables[t].rows) < MaxRows
               /\ \/ Store(h, t, Inserted(t, Head(serve[h].todo)),
                           [todo |-> Tail(serve[h].todo), copied |-> serve[h].copied + 1])
                  \/ StoreUnheard(h, t, Inserted(t, Head(serve[h].todo)))
          ELSE Fail(h)
ImportRows(h) ==
    /\ At(h, {"import"}, "insert") /\ serve[h].todo # NoRows
    /\ LET t == serve[h].to
       IN IF Home[t] \notin Sqlite THEN ImportByRow(h)
          ELSE IF AllAccepted(t, serve[h].todo)
          THEN /\ Len(tables[t].rows) + Len(serve[h].todo) =< MaxRows
               /\ Store(h, t, [tables[t] EXCEPT !.rows = @ \o
                            [i \in 1..Len(serve[h].todo) |->
                                Stored(t, tables[t].cols, serve[h].todo[i])]],
                        [todo |-> NoRows, copied |-> Len(serve[h].todo)])
          ELSE Fail(h)
FinishImport(h) ==
    /\ At(h, {"import"}, "insert") /\ serve[h].todo = NoRows
    /\ Succeed(h)

-----------------------------------------------------------------------------
(* Portable copies and pasted rows: the client holds them meanwhile *)

ExportPortable(h, t, mode) == Request(h, "copy", t, t, mode, NoJob)
GiveCopy(h) ==
    /\ At(h, {"copy"}, "write")
    /\ clip' = [cols |-> serve[h].cols, rows |-> serve[h].read]
    /\ Go(h, [at |-> "over"])
    /\ UNCHANGED <<profiles, pools, tables, file, jobs>>

ImportPortable(h, t) == clip.cols # {} /\ Request(h, "new", t, t, "copy", NoJob)
PreparePortable(h) ==
    /\ At(h, {"new"}, "asked")
    /\ IF tables[serve[h].to].there THEN Fail(h)
       ELSE Continue(h, [at |-> "creating", cols |-> clip.cols, todo |-> clip.rows,
                         map |-> [n \in {c.name : c \in clip.cols} |-> n]])

PasteRows(h, t) == clip.rows # NoRows /\ Request(h, "paste", t, t, "copy", NoJob)
PreparePaste(h) ==
    /\ At(h, {"paste"}, "asked")
    /\ LET to == tables[serve[h].to].cols
       IN IF Mapping(clip.cols, to) = <<>> \/ Missing(clip.cols, to) # {}
          THEN Fail(h)
          ELSE Continue(h, [at |-> "insert", todo |-> clip.rows, map |-> Mapping(clip.cols, to)])

\* Both insert row by row, and count the rows that fail.
InsertClipRow(h) ==
    /\ At(h, {"new", "paste"}, "insert") /\ serve[h].todo # NoRows
    /\ InsertMapped(h, [todo |-> Tail(serve[h].todo),
                        copied |-> serve[h].copied, failed |-> serve[h].failed])
FinishClip(h) ==
    /\ At(h, {"new", "paste"}, "insert") /\ serve[h].todo = NoRows
    /\ Continue(h, [at |-> "over"])

-----------------------------------------------------------------------------
(* Rows *)

\* The client edits or removes a row of the page it was shown (table_data).
ShowRows(h, t, op) ==
    /\ HasKey(tables[t].cols) /\ serve[h] = Idle
    /\ \E i \in 1..Len(tables[t].rows) :
          Go(h, [op |-> op, at |-> "shown", from |-> t, to |-> t,
                 seen |-> JsonRow(tables[t].rows[i])])
    /\ UNCHANGED <<profiles, pools, tables, file, clip, jobs>>
SubmitRow(h) ==
    /\ At(h, {"edit", "remove"}, "shown")
    /\ LET c == Home[serve[h].to]
       IN /\ Known(c)
          /\ Continue(h, [at |-> "asked", dial |-> {c} \ Sqlite,
                          url |-> [serve[h].url EXCEPT ![c] = profiles[c]]])

\* The rows a key names, one at most.
Matching(t, row) ==
    {i \in 1..Len(tables[t].rows) : SameKey(tables[t].cols, tables[t].rows[i], row)}
\* The row must still be what the client saw; the change is another statement.
CheckRow(h) ==
    /\ At(h, {"edit", "remove"}, "asked")
    /\ LET t == serve[h].to
       IN IF \E i \in Matching(t, serve[h].seen) : JsonRow(tables[t].rows[i]) = serve[h].seen
          THEN Continue(h, [at |-> "apply"]) ELSE Fail(h)

\* The row as it is when the change comes; the key stays.
Edited(t, old, row) ==
    [n \in DOMAIN old |->
        LET cols == {c \in tables[t].cols : c.name = n /\ ~c.pk}
        IN IF cols # {} /\ n \in DOMAIN row THEN TakenAs(t, CHOOSE c \in cols : TRUE, row[n])
           ELSE old[n]]
UpdateRow(h, row) ==
    /\ At(h, {"edit"}, "apply")
    /\ LET t == serve[h].to
           hit == Matching(t, serve[h].seen)
       IN Store(h, t, [tables[t] EXCEPT !.rows =
                          [i \in DOMAIN @ |-> IF i \in hit THEN Edited(t, @[i], row) ELSE @[i]]],
                [at |-> "over"])
RemoveRow(h) ==
    /\ At(h, {"remove"}, "apply")
    /\ LET t == serve[h].to
           hit == Matching(t, serve[h].seen)
       IN Store(h, t, IF hit = {} THEN tables[t]
                      ELSE [tables[t] EXCEPT !.rows = RemoveAt(@, CHOOSE i \in hit : TRUE)],
                [at |-> "over"])

AddRow(h, t) == Request(h, "add", t, t, "copy", NoJob)
InsertRow(h, row) ==
    /\ At(h, {"add"}, "asked")
    /\ LET t == serve[h].to
       IN IF Accepts(t, row)
          THEN Len(tables[t].rows) < MaxRows /\ Store(h, t, Inserted(t, row), [at |-> "over"])
          ELSE Fail(h)

-----------------------------------------------------------------------------
(* Queries: a statement inserts a row or deletes the first one *)

Statements == {"insert", "delete"}
Effect(t, statement, row) ==
    IF statement = "insert" /\ Accepts(t, row) /\ Len(tables[t].rows) < MaxRows
    THEN Inserted(t, row)
    ELSE IF statement = "delete" /\ tables[t].rows # NoRows
         THEN [tables[t] EXCEPT !.rows = Tail(@)] ELSE tables[t]

ExecuteQuery(h, t) == Request(h, "query", t, t, "copy", NoJob)
\* ensure_sqlite_single_statement refuses a script before it changes anything,
\* PostgreSQL runs one as a transaction, MySQL statement by statement.
RunSqlite(h, script, row) ==
    /\ At(h, {"query"}, "asked") /\ Home[serve[h].to] \in Sqlite
    /\ IF Len(script) > 1 THEN Fail(h)
       ELSE Store(h, serve[h].to, Effect(serve[h].to, Head(script), row), [at |-> "over"])
RunLive(h, script, row) ==
    /\ At(h, {"query"}, "asked") /\ Home[serve[h].to] \notin Sqlite
    /\ Store(h, serve[h].to, Effect(serve[h].to, Head(script), row),
             [at |-> IF Len(script) > 1 THEN "asked" ELSE "over"])
RunPostgres(h, row) ==
    /\ At(h, {"query"}, "asked") /\ Home[serve[h].to] \notin Sqlite
    /\ LET t == serve[h].to
       IN IF Accepts(t, row)
          THEN /\ Len(tables[t].rows) < MaxRows
               /\ Store(h, t, [Inserted(t, row) EXCEPT !.rows = Tail(@)], [at |-> "over"])
          ELSE Fail(h)

\* test_saved_connection opens a pool and records how it went.
TestConnection(h, t) == Request(h, "test", t, t, "copy", NoJob)
RecordTest(h) == At(h, {"test"}, "asked") /\ Continue(h, [at |-> "over"])

-----------------------------------------------------------------------------
\* Requests, tasks and pools die with the server; nothing looks at the stored
\* jobs when it starts again.
RestartWorkspace ==
    /\ serve' = [h \in Handlers |->
                    IF serve[h].at \in {"none", "over", "shown"} THEN serve[h]
                    ELSE [serve[h] EXCEPT !.at = "dead", !.dial = {}, !.opening = {}]]
    /\ serve' # serve
    /\ pools' = {}
    /\ UNCHANGED <<profiles, tables, file, clip, jobs>>

Scripts == {<<s>> : s \in Statements} \cup {<<"insert", "delete">>}

DatabaseNext ==
    \/ \E h \in Handlers, c \in Conns :
          \/ CreateConnection(h, c) \/ LoadForUpdate(h, c) \/ DeleteConnection(h, c)
          \/ LookUpPool(h, c) \/ OpenPool(h, c)
    \/ \E h \in Handlers, from, to \in Tables, mode \in Modes :
          CreateTransfer(h, from, to, mode)
    \/ \E h \in Handlers, t \in Tables :
          \/ ExportTable(h, t) \/ ImportTable(h, t)
          \/ \E mode \in {"schema", "data"} : ExportPortable(h, t, mode)
          \/ ImportPortable(h, t) \/ PasteRows(h, t) \/ AddRow(h, t)
          \/ \E op \in {"edit", "remove"} : ShowRows(h, t, op)
          \/ ExecuteQuery(h, t) \/ TestConnection(h, t)
    \/ \E h \in Handlers :
          \/ SaveConnection(h) \/ EvictPools(h) \/ LoseDatabase(h)
          \/ InspectSource(h) \/ PrepareTarget(h) \/ CreateTarget(h) \/ MapColumns(h)
          \/ ReadPage(h) \/ CopyRow(h) \/ NextPage(h) \/ FinishTransfer(h)
          \/ ReadSource(h) \/ OpenExport(h) \/ WriteExport(h)
          \/ ReadImport(h) \/ FindImportTarget(h) \/ ImportRows(h) \/ FinishImport(h)
          \/ GiveCopy(h) \/ PreparePortable(h) \/ PreparePaste(h) \/ InsertClipRow(h)
          \/ FinishClip(h) \/ SubmitRow(h) \/ CheckRow(h) \/ RemoveRow(h) \/ RecordTest(h)
          \/ \E row \in Rows : UpdateRow(h, row) \/ InsertRow(h, row) \/ RunPostgres(h, row)
          \/ \E script \in Scripts, row \in Rows :
                RunSqlite(h, script, row) \/ RunLive(h, script, row)
    \/ ExpirePool
    \/ RestartWorkspace

-----------------------------------------------------------------------------
\* The row that a row of one table becomes in another.
Carried(t, cols, map, row) == Stored(t, cols, MappedRow(map, JsonRow(row)))

\* A transfer that ended well between two tables that nobody else wrote has
\* counted as many rows as its source has; the rows it added come from there,
\* no less than it counted as copied and no more than it counted at all.  Pages
\* that nothing orders can repeat a row and miss another, but not for a target
\* with a key: there a row that comes again fails, so if no row failed, the
\* target holds every row of the source.
TransferIsComplete == \A h \in Handlers :
    jobs[h].status = "done" /\ serve[h].op = "transfer" /\ serve[h].clean =>
       LET source == tables[serve[h].from].rows
           target == tables[serve[h].to]
           old == Len(serve[h].before.rows)
           Arrived(i, j) == target.rows[j] = Carried(serve[h].to, target.cols, serve[h].map, source[i])
       IN IF serve[h].mode = "schema"
          THEN target.rows = NoRows /\ jobs[h].copied = 0
          ELSE /\ jobs[h].copied + jobs[h].failed = Len(source)
               /\ Len(target.rows) >= old + jobs[h].copied
               /\ Len(target.rows) <= old + jobs[h].copied
                        + IF Home[serve[h].to] \in Sqlite THEN 0 ELSE jobs[h].failed
               /\ \A j \in 1..Len(target.rows) : j > old => \E i \in 1..Len(source) : Arrived(i, j)
               /\ jobs[h].failed = 0 /\ HasKey(target.cols) =>
                     \A i \in 1..Len(source) : \E j \in 1..Len(target.rows) : Arrived(i, j)

\* An import into SQLite that failed left the table's rows as they were, and
\* one that ended well has put as many rows into it as it says.  An export
\* that ended well has as many rows as its table, each of them a row of the
\* table, and no row is missing if one statement read them.
ImportIsWhole == \A h \in Handlers :
    /\ serve[h].op = "import" /\ serve[h].clean =>
       LET added == Len(tables[serve[h].to].rows) - Len(serve[h].before.rows)
       IN /\ jobs[h].status = "failed" /\ Home[serve[h].to] \in Sqlite => added = 0
          /\ jobs[h].status = "done" => added = jobs[h].copied
    /\ serve[h].op = "export" /\ serve[h].clean /\ file.by = h /\ jobs[h].status = "done" =>
       LET source == tables[serve[h].from].rows
           Written(i, j) == file.rows[j] = JsonRow(source[i])
       IN /\ file.whole /\ Len(file.rows) = Len(source)
          /\ \A j \in 1..Len(file.rows) : \E i \in 1..Len(source) : Written(i, j)
          /\ Home[serve[h].from] \in Sqlite \/ Len(source) <= Batch =>
                \A i \in 1..Len(source) : \E j \in 1..Len(file.rows) : Written(i, j)

\* A request works on the server that its profile named when it was read,
\* whatever pools the cache holds of earlier or later profiles.
PoolFollowsProfile == \A h \in Handlers, c \in Conns :
    serve[h].pool[c] \in {Nowhere, serve[h].url[c]}

DatabaseServed == TransferIsComplete /\ ImportIsWhole /\ PoolFollowsProfile
=============================================================================
