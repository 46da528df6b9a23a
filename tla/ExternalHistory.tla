---------------------------- MODULE ExternalHistory ----------------------------
(***************************************************************************)
(* Transcripts that provider CLIs write, as the workbench reads them while *)
(* they grow: the index of conversations (external_history_sources), which *)
(* resumes an append-only file where it stopped; the parsed messages, kept *)
(* in a table under the file's fingerprint and in a bounded memory cache   *)
(* under its modification time; and the page of a merged transcript, built *)
(* in two looks at the table.                                              *)
(*                                                                         *)
(* A file is its number of complete lines, whether half a line follows,    *)
(* its identity, and a stamp that every write changes.  A fingerprint is   *)
(* identity, size (in half lines) and stamp.                               *)
(***************************************************************************)
EXTENDS Naturals, FiniteSets

CONSTANTS Files,        \* transcripts
          Readers,      \* requests that read one (a bound)
          MaxWrites,    \* bound on the writes of the CLIs
          CacheLines    \* EXTERNAL_MESSAGE_CACHE_MAX_BYTES, in lines

ASSUME ExternalHistoryAssumption ==
    {MaxWrites, CacheLines} \subseteq Nat /\ IsFiniteSet(Files)

VARIABLES
    file,     \* the transcripts
    index,    \* external_history_sources: fingerprint, offset, and the lines
              \* its records count
    syncing,  \* the synchronization (external_sync): its file and what it read
    saved,    \* external_history_messages and their state, per file
    memo,     \* ExternalSessionCache.messages, per file
    memoSize, \* ExternalSessionCache.message_bytes
    lastRead, \* last_access of the entries, for the eviction
    now,      \* how often the cache was accessed
    reader,   \* where each request stands, and what it holds
    answer    \* what each request returned

historyVars == <<file, index, syncing, saved, memo, memoSize, lastRead, now, reader,
                 answer>>

Fingerprint(f) == [id |-> file[f].id, stamp |-> file[f].stamp,
                   size |-> 2 * file[f].lines + (IF file[f].half THEN 1 ELSE 0)]
Content(f) == [id |-> file[f].id, lines |-> file[f].lines]
NoPrint == [id |-> 0, stamp |-> 0, size |-> 0]
Nothing == [id |-> 0, lines |-> 0]
NoEntry == [stamp |-> 0, lines |-> Nothing, whole |-> FALSE, weight |-> 0]
NoFile == "no file"

Stamps == 0..(MaxWrites + 1)
Prints == [id : Stamps, stamp : Stamps, size : 0..(2 * MaxWrites + 2)]
Contents == [id : Stamps, lines : 0..(MaxWrites + 1)]

LineIds == Stamps \X (1..(MaxWrites + 1))
NoSource == [print |-> NoPrint, offset |-> 0, count |-> 0, lines |-> {}]

HistoryTypeOK ==
    /\ file \in [Files -> [lines : 0..(MaxWrites + 1), half : BOOLEAN,
                           id : Stamps, stamp : Stamps]]
    /\ index \in [Files -> [print : Prints, offset : 0..(2 * MaxWrites + 2),
                            count : Nat, lines : SUBSET LineIds]]
    /\ syncing \in [of : Files \cup {NoFile}, print : Prints]
    /\ saved \in [Files -> [print : Prints, lines : Contents]]
    /\ memo \in [Files -> [stamp : Stamps, lines : Contents, whole : BOOLEAN,
                           weight : 0..CacheLines]]
    /\ lastRead \in [Files -> Nat] /\ now \in Nat
    /\ \A r \in Readers :
          /\ reader[r].at \in {"idle", "missed", "parsing", "parsed", "got",
                               "listed", "over"}
          /\ reader[r].op \in {"full", "tail", "page"}

\* The table outlives the server: it may hold what an earlier one parsed.
HistoryInit ==
    /\ file = [f \in Files |-> [lines |-> 1, half |-> FALSE, id |-> 1, stamp |-> 1]]
    /\ index = [f \in Files |-> NoSource]
    /\ syncing = [of |-> NoFile, print |-> NoPrint]
    /\ saved \in [Files -> {[print |-> NoPrint, lines |-> Nothing],
                            [print |-> [id |-> 1, stamp |-> 1, size |-> 2],
                             lines |-> [id |-> 1, lines |-> 1]]}]
    /\ memo = [f \in Files |-> NoEntry] /\ memoSize = 0
    /\ lastRead = [f \in Files |-> 0] /\ now = 0
    /\ reader \in [Readers -> {[at |-> "idle", op |-> op, of |-> f, stamp |-> 0,
                                print |-> NoPrint, got |-> Nothing, tries |-> 0,
                                since |-> Nothing] :
                                  op \in {"full", "tail", "page"}, f \in Files}]
    /\ answer = [r \in Readers |-> [total |-> Nothing, page |-> Nothing]]

-----------------------------------------------------------------------------
(* The CLIs.                                                                *)

\* A line is written in one or two steps.  A file may be replaced by another.
Writes(f, lines, half, id) ==
    /\ file[f].stamp <= MaxWrites
    /\ file' = [file EXCEPT ![f] = [lines |-> lines, half |-> half, id |-> id,
                                    stamp |-> file[f].stamp + 1]]
    /\ UNCHANGED <<index, syncing, saved, memo, memoSize, lastRead, now, reader, answer>>
WriteHalfLine(f) == ~file[f].half /\ Writes(f, file[f].lines, TRUE, file[f].id)
WriteLine(f) == Writes(f, file[f].lines + 1, FALSE, file[f].id)
ReplaceFile(f) == \E n \in 1..file[f].lines : Writes(f, n, FALSE, file[f].stamp + 1)

-----------------------------------------------------------------------------
(* sync_external_sessions, one file after the other.                        *)

\* Its fingerprint is taken.  A source that matches is served as it is.
SyncLooks(f) ==
    /\ syncing.of = NoFile
    /\ index[f].print # Fingerprint(f)
    /\ syncing' = [of |-> f, print |-> Fingerprint(f)]
    /\ UNCHANGED <<file, index, saved, memo, memoSize, lastRead, now, reader, answer>>

\* The file was only appended to, and the last scan read no more than what its
\* fingerprint covered.
Resumes(f) ==
    /\ index[f].count > 0
    /\ index[f].print.id = syncing.print.id
    /\ index[f].print.size <= syncing.print.size
    /\ index[f].offset <= index[f].print.size

\* The complete lines from the offset on are counted and the source is stored
\* under the fingerprint taken before.
SyncScans(f) ==
    /\ syncing.of = f
    /\ LET from == IF Resumes(f) THEN index[f] ELSE NoSource
           read == {<<file[f].id, n>> : n \in {m \in 1..file[f].lines :
                                                2 * m > from.offset}}
       IN index' = [index EXCEPT ![f] =
                      [print |-> syncing.print, offset |-> 2 * file[f].lines,
                       count |-> from.count + Cardinality(read),
                       lines |-> from.lines \cup read]]
    /\ syncing' = [of |-> NoFile, print |-> NoPrint]
    /\ UNCHANGED <<file, saved, memo, memoSize, lastRead, now, reader, answer>>

\* prune_external_history_sources: a file that was not found loses its source
\* and its saved messages.
Prune(f) ==
    /\ syncing.of = NoFile
    /\ index[f].print # NoPrint
    /\ index' = [index EXCEPT ![f] = NoSource]
    /\ saved' = [saved EXCEPT ![f] = [print |-> NoPrint, lines |-> Nothing]]
    /\ UNCHANGED <<file, syncing, memo, memoSize, lastRead, now, reader, answer>>

-----------------------------------------------------------------------------
(* external_messages and external_messages_tail.                            *)

Returns(r, content) ==
    /\ answer' = [answer EXCEPT ![r] = [total |-> content, page |-> content]]
    /\ reader' = [reader EXCEPT ![r].at = "over"]

\* The modification time is read, then the cache; a stale entry is dropped.
LookInCache(r) ==
    LET f == reader[r].of  hit == memo[f] # NoEntry /\ memo[f].stamp = file[f].stamp
                                  /\ (memo[f].whole \/ reader[r].op = "tail")
    IN /\ reader[r].at = "idle" /\ reader[r].op # "page"
       /\ IF hit
          THEN /\ Returns(r, memo[f].lines)
               /\ lastRead' = [lastRead EXCEPT ![f] = now + 1]
               /\ now' = now + 1
               /\ UNCHANGED <<memo, memoSize>>
          ELSE /\ reader' = [reader EXCEPT ![r].at = "missed",
                                ![r].stamp = file[f].stamp, ![r].since = Content(f)]
               /\ memo' = [memo EXCEPT ![f] = NoEntry]
               /\ memoSize' = memoSize - memo[f].weight
               /\ UNCHANGED <<lastRead, now, answer>>
       /\ UNCHANGED <<file, index, syncing, saved>>

\* The fingerprint is taken; what was saved under it serves.
LookInTable(r) ==
    LET f == reader[r].of  print == Fingerprint(f) IN
    /\ reader[r].at = "missed"
    /\ IF saved[f].print = print
       THEN IF reader[r].op = "tail"
            THEN Returns(r, saved[f].lines)
            ELSE /\ reader' = [reader EXCEPT ![r].at = "got",
                                             ![r].got = saved[f].lines]
                 /\ UNCHANGED answer
       ELSE /\ reader' = [reader EXCEPT ![r].at = "parsing", ![r].print = print]
            /\ UNCHANGED answer
    /\ UNCHANGED <<file, index, syncing, saved, memo, memoSize, lastRead, now>>

\* load_external_messages
ParseFile(r) ==
    /\ reader[r].at = "parsing"
    /\ reader' = [reader EXCEPT ![r].at = "parsed", ![r].got = Content(reader[r].of)]
    /\ UNCHANGED <<file, index, syncing, saved, memo, memoSize, lastRead, now, answer>>

\* Faulty variant: saved under the fingerprint of now.
SaveParsedAnyway(r) ==
    LET f == reader[r].of IN
    /\ reader[r].at = "parsed"
    /\ saved' = [saved EXCEPT ![f] = [print |-> Fingerprint(f), lines |-> reader[r].got]]
    /\ reader' = [reader EXCEPT ![r].at = "got"]
    /\ UNCHANGED <<file, index, syncing, memo, memoSize, lastRead, now, answer>>
\* replace_external_messages, if the file did not change meanwhile.
SaveParsed(r) ==
    LET f == reader[r].of IN
    /\ reader[r].at = "parsed"
    /\ saved' = IF reader[r].print = Fingerprint(f)
                THEN [saved EXCEPT ![f] = [print |-> reader[r].print,
                                           lines |-> reader[r].got]]
                ELSE saved
    /\ reader' = [reader EXCEPT ![r].at = "got"]
    /\ UNCHANGED <<file, index, syncing, memo, memoSize, lastRead, now, answer>>

\* The lines that the entries of S hold.
Weight(m, S) == Cardinality({u \in S \X (1..CacheLines) : u[2] <= m[u[1]].weight})

\* The messages enter the cache under the time read first, all or a tail of
\* them; the entries read longest ago leave while it is too large.
RememberParsed(r) ==
    LET f == reader[r].of
        lines == reader[r].got
        fits == lines.lines <= CacheLines
        entry == [stamp |-> reader[r].stamp, lines |-> lines, whole |-> fits,
                  weight |-> IF fits THEN lines.lines ELSE CacheLines]
        inserted == [memo EXCEPT ![f] = entry]
        newer(g) == {h \in Files : h = f \/ lastRead[h] >= lastRead[g]}
        stay == {g \in Files : g = f \/ Weight(inserted, newer(g)) <= CacheLines}
    IN /\ reader[r].at = "got"
       /\ memo' = [g \in Files |-> IF g \in stay THEN inserted[g] ELSE NoEntry]
       /\ memoSize' = memoSize - memo[f].weight + entry.weight
                         - Weight(inserted, Files \ stay)
       /\ lastRead' = [lastRead EXCEPT ![f] = now + 1] /\ now' = now + 1
       /\ Returns(r, lines)
       /\ UNCHANGED <<file, index, syncing, saved>>

-----------------------------------------------------------------------------
(* active_context_messages_window_once: two looks, two tries, and then the  *)
(* whole transcript.                                                        *)

\* The order of the page is made from what is saved for the fingerprint (or
\* parsed, when the page needs no second look).
ListPage(r) ==
    LET f == reader[r].of  print == Fingerprint(f) IN
    /\ reader[r].op = "page"
    /\ reader[r].at = "idle"
    /\ IF saved[f].print = print
       THEN reader' = [reader EXCEPT ![r].at = "listed", ![r].print = print,
                                     ![r].got = saved[f].lines]
       ELSE reader' = [reader EXCEPT ![r].at = "missed", ![r].op = "full",
                          ![r].stamp = file[f].stamp, ![r].since = Content(f)]
    /\ UNCHANGED <<file, index, syncing, saved, memo, memoSize, lastRead, now, answer>>

\* The messages of the page are fetched if file and table are still those.
FetchPage(r) ==
    LET f == reader[r].of IN
    /\ reader[r].at = "listed"
    /\ IF Fingerprint(f) = reader[r].print /\ saved[f].print = reader[r].print
       THEN /\ answer' = [answer EXCEPT ![r] = [total |-> reader[r].got,
                                                page |-> saved[f].lines]]
            /\ reader' = [reader EXCEPT ![r].at = "over"]
       ELSE /\ reader' = [reader EXCEPT ![r].at = "idle", ![r].tries = @ + 1,
                             ![r].op = IF reader[r].tries = 1 THEN "full" ELSE @]
            /\ UNCHANGED answer
    /\ UNCHANGED <<file, index, syncing, saved, memo, memoSize, lastRead, now>>

-----------------------------------------------------------------------------
HistoryNext ==
    \/ \E f \in Files : \/ WriteHalfLine(f) \/ WriteLine(f) \/ ReplaceFile(f)
                        \/ SyncLooks(f) \/ SyncScans(f) \/ Prune(f)
    \/ \E r \in Readers : \/ LookInCache(r) \/ LookInTable(r) \/ ParseFile(r)
                          \/ SaveParsed(r) \/ RememberParsed(r)
                          \/ ListPage(r) \/ FetchPage(r)

HistorySpec == HistoryInit /\ [][HistoryNext]_historyVars

-----------------------------------------------------------------------------
(* Properties.                                                              *)

\* A source that is served without a scan counts every line of its file once,
\* although scans resume and the file grows between fingerprint and scan.
IndexCountsEveryLine ==
    \A f \in Files : index[f].print = Fingerprint(f) =>
        /\ index[f].count = file[f].lines
        /\ index[f].lines = {file[f].id} \X (1..file[f].lines)

\* Messages that are served without a parse, from memory or from the table,
\* are those the file has.
ServedAsWritten ==
    \A f \in Files :
        /\ saved[f].print = Fingerprint(f) => saved[f].lines = Content(f)
        /\ memo[f] # NoEntry /\ memo[f].stamp = file[f].stamp
              => memo[f].lines = Content(f)

\* message_bytes is the sum of what is cached, and within the limit.
CacheIsAccounted ==
    memoSize = Weight(memo, Files) /\ memoSize <= CacheLines

\* A page shows messages of the transcript its total counts.
PageIsWhole ==
    \A r \in Readers : reader[r].at = "over" => answer[r].total = answer[r].page

\* What a reader of a conversation may rely on, however the files change under
\* it: counts, messages and pages that belong together, from bounded caches.
HistoryServed ==
    IndexCountsEveryLine /\ ServedAsWritten /\ CacheIsAccounted /\ PageIsWhole
=============================================================================
