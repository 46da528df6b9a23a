--------------------------- MODULE SessionProofs ---------------------------
(***************************************************************************)
(* What is kept of sessions is what was stored or written: the registry    *)
(* answers with its rows and forks are whole, for any sessions, requests   *)
(* to fork, deletions and deaths of the server; and the history of the     *)
(* agents' own transcripts is that of the transcript it is served for, for *)
(* any files, requests, writes and any size of the cache.                  *)
(***************************************************************************)
EXTENDS SessionRegistry, ExternalHistory, FiniteSetTheorems, TLAPS

(***************************************************************************)
(* SessionRegistry.                                                        *)
(*                                                                         *)
(* Every conjunct of the inductive invariant but one is about one id, so   *)
(* the proof of a step has two parts: the step says what it changes        *)
(* (Elsewhere for the other ids, the action itself for its own), and each  *)
(* conjunct is shown to survive at the id that changes.                    *)
(***************************************************************************)

Row == SessionRow \cup {Absent}
\* The rows a session or a fork can have: their native thread is their own.
OwnRow(s) == {row \in Row : row.native \in {s, Unmapped, Absent.native}}

Footers == [at : {"no", "due", "read"}, row : Row]

\* The types, but for the order of activity, which no promise depends on.
RegistryTyped ==
    /\ stored \in [Ids -> Row] /\ cache \in [Ids -> Row]
    /\ boardIds \subseteq Ids
    /\ drives \in [Ids -> [at : DriveStates, read : Row]]
    /\ usage \in [Ids -> Row] /\ footer \in [Ids -> Footers]
    /\ deletion \in [Ids -> {"no", "found", "gone"}]
    /\ forks \subseteq Forks
    /\ fork \in [Forks -> [at : {"none", "checked", "forked", "stored", "undo",
                                "over", "lost"}, row : Row]]
    /\ thread \in [Forks -> {"none", "there", "deleted", "leaked"}]
    /\ tombs \subseteq Ids /\ torn \subseteq Ids

\* What is known of an id comes from one session: its rows map its own thread,
\* and what a request, a footer or an activation has read was a row.
RowsAreOwn(s) ==
    /\ \A row \in {stored[s], cache[s], drives[s].read, usage[s], footer[s].row} :
          row \in OwnRow(s)
    /\ drives[s].at \in {"activating", "reread"} <=> drives[s].read # Absent
    /\ footer[s].at = "read" <=> footer[s].row # Absent

\* What is cached is stored, and the event filter knows the boards that run:
\* also the row that an activation will write.
Current(s) == s \notin torn =>
    /\ cache[s] \in {Absent, stored[s]} \/ deletion[s] = "gone" \/ Activated(s)
    /\ drives[s].at # "no" /\ (cache[s].board \/ stored[s].board) => s \in boardIds
    /\ drives[s].read.board /\ stored[s] # Absent => s \in boardIds
    /\ deletion[s] = "gone" => stored[s] = Absent
    /\ stored[s] = Absent => cache[s] = Absent \/ deletion[s] = "gone"

\* A fork whose row was not created is known to nobody.
UnbornIsUnknown(h) == fork[h].at \in {"none", "checked", "forked", "undo"} =>
    /\ stored[h] = Absent /\ cache[h] = Absent
    /\ drives[h] = [at |-> "no", read |-> Absent] /\ deletion[h] = "no"
    /\ usage[h] = Absent /\ footer[h] = NoFooter

\* The row a handler has made belongs to the source until its thread is
\* forked, and names the thread from then on.
HandlerRow(h) ==
    /\ fork[h].at \in {"none", "checked"} =>
          /\ fork[h].row \in OwnRow(Source(h)) /\ thread[h] = "none"
    /\ fork[h].at \in {"checked", "forked", "stored"} => fork[h].row # Absent
    /\ fork[h].at \in {"forked", "stored"} => fork[h].row \in OwnRow(h)
    /\ fork[h].at \in {"forked", "stored", "undo"} =>
          (thread[h] = "there" <=> fork[h].row.native = h)
    /\ fork[h].at = "over" /\ thread[h] = "there" => fork[h].row.native = h

\* The rows of a fork that got a thread map it, and it is a destination, or
\* its thread is hidden, or gone.
ThreadIsMapped(h) == fork[h].at \in {"stored", "over"} /\ fork[h].row.native = h =>
    /\ \A row \in {stored[h], cache[h], drives[h].read, usage[h], footer[h].row} :
          row = Absent \/ row.native = h
    /\ h \in forks \/ h \in tombs \/ thread[h] \in {"deleted", "leaked"}

\* A destination that is on record has its row.
HeirHasRow(h) == h \in forks => stored[h] # Absent

OneHeir == \A g, h \in forks : Same(g, h) => g = h

SessionInv(s) == RowsAreOwn(s) /\ Current(s)
ForkInv(h) == UnbornIsUnknown(h) /\ HandlerRow(h) /\ ThreadIsMapped(h) /\ HeirHasRow(h)

RegistryInv ==
    /\ RegistryTyped
    /\ \A s \in Ids : SessionInv(s)
    /\ \A h \in Forks : ForkInv(h)
    /\ OneHeir

-----------------------------------------------------------------------------
(* What the conjuncts of the invariant need of a step.                      *)

\* No row is the row of a board.
LEMMA AbsentIsNoBoard == ~Absent.board
  BY DEF Absent

\* A missing row is told from every row by its native thread.
LEMMA AbsentIsNoRow ==
    /\ Absent \notin SessionRow /\ Absent \in Row /\ \A s : Absent \in OwnRow(s)
    /\ Absent.native \notin Ids /\ Absent.native # Unmapped
  <1>1. Absent.native = "no row"
    BY DEF Absent
  <1>2. Absent.native # Unmapped
    BY <1>1, Zenon DEF Unmapped
  <1>4. Absent.native \notin Ids
    BY NamesAreApart
  <1>3. \A row \in SessionRow : row.native \in Ids \cup {Unmapped}
    BY DEF SessionRow
  <1> QED BY <1>2, <1>3, <1>4 DEF OwnRow, Row

\* Eviction drops rows and changes none.
LEMMA EvictedIs ==
    ASSUME NEW c \in [Ids -> Row], NEW order
    PROVE  /\ Evicted(c, order) \in [Ids -> Row]
           /\ \A s \in Ids : Evicted(c, order)[s] \in {c[s], Absent}
  BY DEF Evicted, Row

\* The initial state satisfies the invariant.
LEMMA RegistryInitHolds == RegistryInit => RegistryInv
  <1> SUFFICES ASSUME RegistryInit PROVE RegistryInv
    OBVIOUS
  <1> USE DEF RegistryInit
  <1>1. Absent \in Row /\ \A s : Absent \in OwnRow(s)
    BY DEF Row, OwnRow
  <1>2. RegistryTyped
    BY <1>1 DEF RegistryTyped, DriveStates, Footers, NoFooter
  <1>3. ASSUME NEW s \in Ids PROVE SessionInv(s)
    BY <1>1, AbsentIsNoBoard DEF SessionInv, RowsAreOwn, Current, NoFooter
  <1>4. ASSUME NEW h \in Forks PROVE ForkInv(h)
    <2>1. h \in Ids
      BY DEF Ids
    <2> QED BY <1>1, <2>1
          DEF ForkInv, UnbornIsUnknown, HandlerRow, ThreadIsMapped, HeirHasRow
  <1> QED BY <1>2, <1>3, <1>4 DEF RegistryInv, OneHeir

\* What a step about one id leaves of another: all of it, but for the eviction
\* of its row and for a tombstone.
Elsewhere(s) == \A t \in Ids \ {s} :
    /\ stored'[t] = stored[t] /\ cache'[t] \in {cache[t], Absent}
    /\ drives'[t] = drives[t] /\ deletion'[t] = deletion[t]
    /\ usage'[t] = usage[t] /\ footer'[t] = footer[t]
    /\ t \in torn' <=> t \in torn
    /\ t \in boardIds' <=> t \in boardIds
    /\ t \in Forks => /\ fork'[t] = fork[t] /\ thread'[t] = thread[t]
                      /\ t \in forks' <=> t \in forks
                      /\ t \in tombs => t \in tombs'

\* What is known of an id survives a step about another one.
LEMMA SessionElsewhere ==
    ASSUME NEW s, NEW t \in Ids, t # s, Elsewhere(s), SessionInv(t)
    PROVE  SessionInv(t)'
  <1>1. Absent \in OwnRow(t)
    BY DEF OwnRow, Row
  <1>2. RowsAreOwn(t)'
    BY <1>1 DEF Elsewhere, SessionInv, RowsAreOwn
  <1>3. /\ stored'[t] = stored[t] /\ cache'[t] \in {cache[t], Absent}
        /\ drives'[t] = drives[t] /\ deletion'[t] = deletion[t]
        /\ t \in torn' <=> t \in torn
        /\ t \in boardIds' <=> t \in boardIds
    BY DEF Elsewhere
  <1>4. Current(t)
    BY DEF SessionInv
  <1>5. Current(t)'
    BY <1>3, <1>4, AbsentIsNoBoard DEF Current, Activated
  <1> QED BY <1>2, <1>5 DEF SessionInv

\* And so does what is known of a fork.
LEMMA ForkElsewhere ==
    ASSUME NEW s, NEW t \in Forks, t # s, Elsewhere(s), ForkInv(t)
    PROVE  ForkInv(t)'
  <1>1. t \in Ids
    BY DEF Ids
  <1>2. /\ stored'[t] = stored[t] /\ cache'[t] \in {cache[t], Absent}
        /\ drives'[t] = drives[t] /\ deletion'[t] = deletion[t]
        /\ usage'[t] = usage[t] /\ footer'[t] = footer[t]
        /\ fork'[t] = fork[t] /\ thread'[t] = thread[t]
        /\ t \in forks' <=> t \in forks
        /\ t \in tombs => t \in tombs'
    BY <1>1 DEF Elsewhere
  <1>3. UnbornIsUnknown(t)' /\ HeirHasRow(t)'
    BY <1>2 DEF ForkInv, UnbornIsUnknown, HeirHasRow
  <1>4. HandlerRow(t)'
    BY <1>2 DEF ForkInv, HandlerRow
  <1>5. ThreadIsMapped(t)'
    BY <1>2 DEF ForkInv, ThreadIsMapped
  <1> QED BY <1>3, <1>4, <1>5 DEF ForkInv

\* A step about s keeps the invariant if it keeps the types, the other ids,
\* what is known of s, and that requests have one destination.
LEMMA StepAbout ==
    ASSUME RegistryInv, NEW s \in Ids, RegistryTyped', Elsewhere(s), SessionInv(s)',
           s \in Forks => ForkInv(s)', OneHeir'
    PROVE  RegistryInv'
  <1>1. ASSUME NEW t \in Ids PROVE SessionInv(t)'
    BY SessionElsewhere DEF RegistryInv
  <1>2. ASSUME NEW t \in Forks PROVE ForkInv(t)'
    BY ForkElsewhere DEF RegistryInv
  <1> QED BY <1>1, <1>2 DEF RegistryInv
-----------------------------------------------------------------------------
(* Writers that hold the lock of the cache.                                 *)

\* What Put and PutEvicting have in common.
Written(s, entry) ==
    /\ stored' = [stored EXCEPT ![s] = entry]
    /\ cache' \in [Ids -> Row] /\ cache'[s] \in {entry, Absent}
    /\ \A t \in Ids \ {s} : cache'[t] \in {cache[t], Absent}
    /\ torn' = TornBy(s)

\* Both writers store the row and cache it, or evict it at once.
LEMMA PutWrites ==
    ASSUME RegistryTyped, NEW s \in Ids, NEW entry \in Row,
           Put(s, entry) \/ PutEvicting(s, entry)
    PROVE  Written(s, entry)
  <1>1. cache \in [Ids -> Row] /\ [cache EXCEPT ![s] = entry] \in [Ids -> Row]
    BY DEF RegistryTyped
  <1>2. CASE Put(s, entry)
    BY <1>1, <1>2 DEF Put, Written
  <1>3. CASE PutEvicting(s, entry)
    <2>1. /\ cache' \in [Ids -> Row]
          /\ \A t \in Ids : cache'[t] \in {[cache EXCEPT ![s] = entry][t], Absent}
      BY <1>1, <1>3, EvictedIs DEF PutEvicting
    <2>2. cache'[s] \in {entry, Absent}
      BY <1>1, <2>1
    <2>3. \A t \in Ids \ {s} : cache'[t] \in {cache[t], Absent}
      BY <1>1, <2>1
    <2> QED BY <1>3, <2>1, <2>2, <2>3 DEF PutEvicting, Written
  <1> QED BY <1>2, <1>3

\* A session's row is what the cache has, or else the table.
LEMMA SeededIs ==
    ASSUME NEW s \in Ids, RegistryInv
    PROVE  /\ Seeded(s) \in OwnRow(s) /\ Seeded(s) \in Row
           /\ Seeded(s) = Absent <=> cache[s] = Absent /\ stored[s] = Absent
           /\ Seeded(s) \in {cache[s], stored[s]}
  <1>1. cache[s] \in OwnRow(s) /\ stored[s] \in OwnRow(s)
    BY DEF RegistryInv, SessionInv, RowsAreOwn
  <1>2. OwnRow(s) \subseteq Row
    BY DEF OwnRow
  <1> QED BY <1>1, <1>2 DEF Seeded

\* A writer may change the flags of a row, and map a row that maps nothing to
\* the session's own thread; a fork's row is never written where there is none.
Successor(s, entry) ==
    /\ entry \in OwnRow(s) /\ entry # Absent
    /\ s \in Forks => /\ Seeded(s) # Absent
                      /\ \/ entry.native = Seeded(s).native
                         \/ entry.native = s

\* What a step leaves of the footers: all of them, but for one that is due now.
FooterMayBeDue(s) ==
    footer' \in {footer} \cup
        (IF footer[s].at = "no" THEN {[footer EXCEPT ![s].at = "due"]} ELSE {})

LEMMA FooterDue ==
    ASSUME RegistryInv, NEW s \in Ids, FooterMayBeDue(s)
    PROVE  /\ footer' \in [Ids -> Footers]
           /\ \A t \in Ids \ {s} : footer'[t] = footer[t]
           /\ footer'[s].row = footer[s].row
           /\ footer'[s].at = "read" <=> footer[s].at = "read"
  <1>1. footer \in [Ids -> Footers]
    BY DEF RegistryInv, RegistryTyped
  <1> QED BY <1>1 DEF FooterMayBeDue, Footers

\* A write under the lock keeps the invariant.
LEMMA WriterKeeps ==
    ASSUME RegistryInv, NEW s \in Ids, NEW entry, Successor(s, entry), Written(s, entry),
           drives' \in [Ids -> [at : DriveStates, read : Row]],
           \A t \in Ids \ {s} : drives'[t] = drives[t],
           \/ drives'[s] = drives[s] /\ Seeded(s) # Absent
           \/ /\ {drives[s].at, drives'[s].at} \subseteq {"no", "run"}
              /\ drives'[s].read = drives[s].read,
           FooterMayBeDue(s),
           boardIds' \subseteq Ids, s \in boardIds => s \in boardIds',
           \A t \in Ids \ {s} : t \in boardIds' <=> t \in boardIds,
           s \in torn' \/ (drives'[s].at # "no" /\ entry.board => s \in boardIds'),
           UNCHANGED <<usage, deletion, forks, fork, thread, tombs>>
    PROVE  RegistryInv'
  <1>1. RegistryTyped /\ SessionInv(s)
    BY DEF RegistryInv
  <1>2. s \in Forks => ForkInv(s)
    BY DEF RegistryInv
  <1>3. entry \in Row
    BY DEF Successor, OwnRow
  <1>4. stored' \in [Ids -> Row] /\ stored'[s] = entry
        /\ \A t \in Ids \ {s} : stored'[t] = stored[t]
    BY <1>1, <1>3 DEF RegistryTyped, Written
  <1>5. torn' \in {torn, torn \cup {s}} /\ (deletion[s] = "gone" => s \in torn')
    BY DEF Written, TornBy
  <1>6. RegistryTyped'
    BY <1>1, <1>4, <1>5, FooterDue DEF RegistryTyped, Written
  <1>7. Elsewhere(s)
    BY <1>4, <1>5, FooterDue DEF Elsewhere, Written
  <1>8. cache'[s] \in {entry, Absent}
    BY DEF Written
  <1>9. Absent \in OwnRow(s)
    BY DEF OwnRow, Row
  <1>10. RowsAreOwn(s)'
    <2>1. drives'[s].read = drives[s].read
          /\ (drives'[s].at \in {"activating", "reread"}
                 <=> drives[s].at \in {"activating", "reread"})
      OBVIOUS
    <2>2. RowsAreOwn(s) /\ entry \in OwnRow(s)
      BY <1>1 DEF SessionInv, Successor
    <2> QED BY <1>4, <1>8, <1>9, <2>1, <2>2, FooterDue DEF RowsAreOwn
  <1>12. Current(s)'
    <2> SUFFICES ASSUME s \notin torn' PROVE Current(s)'
      BY DEF Current
    <2>1. s \notin torn /\ deletion'[s] # "gone"
      BY <1>5
    <2>2. drives'[s].read.board => s \in boardIds'
      <3>1. CASE drives'[s] = drives[s] /\ Seeded(s) # Absent
        BY <1>1, <2>1, <3>1, SeededIs DEF SessionInv, Current
      <3>2. CASE {drives[s].at, drives'[s].at} \subseteq {"no", "run"}
        <4>1. drives'[s].read = Absent
          BY <1>1, <3>2 DEF SessionInv, RowsAreOwn
        <4> QED BY <4>1, AbsentIsNoBoard
      <3> QED BY <3>1, <3>2
    <2>3. entry # Absent
      BY DEF Successor
    <2> QED BY <1>4, <1>8, <2>1, <2>2, <2>3, AbsentIsNoBoard DEF Current
  <1>13. ASSUME s \in Forks PROVE ForkInv(s)'
    <2>1. UnbornIsUnknown(s)'
      BY <1>2, <1>13, SeededIs DEF ForkInv, UnbornIsUnknown, Successor
    <2>2. HandlerRow(s)'
      BY <1>2, <1>13 DEF ForkInv, HandlerRow
    <2>3. ASSUME fork[s].at \in {"stored", "over"}, fork[s].row.native = s
          PROVE  entry.native = s
      <3>1. Seeded(s).native = s
        BY <1>2, <1>13, <2>3, SeededIs DEF ForkInv, ThreadIsMapped, Successor
      <3> QED BY <1>13, <3>1 DEF Successor
    <2>4. ThreadIsMapped(s)'
      BY <1>2, <1>4, <1>8, <1>13, <2>3, FooterDue DEF ForkInv, ThreadIsMapped
    <2>5. HeirHasRow(s)'
      BY <1>4 DEF HeirHasRow, Successor
    <2> QED BY <2>1, <2>2, <2>4, <2>5 DEF ForkInv
  <1>14. OneHeir'
    BY DEF RegistryInv, OneHeir
  <1> QED BY <1>6, <1>7, <1>10, <1>12, <1>13, <1>14, StepAbout DEF SessionInv
-----------------------------------------------------------------------------
(* Runs and users.                                                          *)

\* The changes that writers make to a row, one flag or the thread at a time.
LEMMA FlaggedRow ==
    ASSUME NEW s, NEW row \in OwnRow(s), row # Absent, NEW b \in BOOLEAN
    PROVE  /\ [row EXCEPT !.active = b] \in OwnRow(s)
           /\ [row EXCEPT !.active = b] # Absent
           /\ [row EXCEPT !.active = b].native = row.native
           /\ [row EXCEPT !.active = b].board = row.board
  <1>1. row \in SessionRow
    BY DEF OwnRow, Row
  <1>2. [row EXCEPT !.active = b] \in SessionRow
    BY <1>1 DEF SessionRow
  <1>3. /\ [row EXCEPT !.active = b].native = row.native
        /\ [row EXCEPT !.active = b].board = row.board
    BY <1>1 DEF SessionRow
  <1> QED BY <1>2, <1>3, AbsentIsNoRow DEF OwnRow, Row

\* The row of a board.
LEMMA MarkedRow ==
    ASSUME NEW s, NEW row \in OwnRow(s), row # Absent
    PROVE  /\ [row EXCEPT !.board = TRUE] \in OwnRow(s)
           /\ [row EXCEPT !.board = TRUE] # Absent
           /\ [row EXCEPT !.board = TRUE].native = row.native
  <1>1. row \in SessionRow
    BY DEF OwnRow, Row
  <1>2. [row EXCEPT !.board = TRUE] \in SessionRow
    BY <1>1 DEF SessionRow
  <1>3. [row EXCEPT !.board = TRUE].native = row.native
    BY <1>1 DEF SessionRow
  <1> QED BY <1>2, <1>3, AbsentIsNoRow DEF OwnRow, Row

\* The row that maps a thread.
LEMMA MappedRow ==
    ASSUME NEW s \in Ids, NEW t, NEW row \in OwnRow(t), row # Absent
    PROVE  /\ [row EXCEPT !.native = s] \in OwnRow(s)
           /\ [row EXCEPT !.native = s] # Absent
           /\ [row EXCEPT !.native = s].native = s
           /\ [row EXCEPT !.native = s].board = row.board
  <1>1. row \in SessionRow
    BY DEF OwnRow, Row
  <1>2. [row EXCEPT !.native = s] \in SessionRow
    BY <1>1 DEF SessionRow
  <1>3. /\ [row EXCEPT !.native = s].native = s
        /\ [row EXCEPT !.native = s].board = row.board
    BY <1>1 DEF SessionRow
  <1> QED BY <1>2, <1>3, AbsentIsNoRow DEF OwnRow, Row

\* The row that a new session gets.
LEMMA FreshRow ==
    ASSUME NEW s \in Ids
    PROVE  LET fresh == [active |-> TRUE, board |-> FALSE, native |-> Unmapped] IN
           fresh \in OwnRow(s) /\ fresh # Absent
  <1>1. [active |-> TRUE, board |-> FALSE, native |-> Unmapped] \in SessionRow
    BY DEF SessionRow
  <1>2. [active |-> TRUE, board |-> FALSE, native |-> Unmapped].active # Absent.active
    BY DEF Absent
  <1> QED BY <1>1, <1>2 DEF OwnRow, Row

\* A run that begins knows the board of its session.
LEMMA CreateKeeps ==
    ASSUME RegistryInv, NEW s \in Ids, NEW board \in BOOLEAN, CreateOrUpdate(s, board)
    PROVE  RegistryInv'
  <1> DEFINE fresh == [active |-> TRUE, board |-> FALSE, native |-> Unmapped]
             old == IF Seeded(s) # Absent THEN Seeded(s) ELSE fresh
             entry == [old EXCEPT !.active = TRUE, !.board = @ \/ board]
  <1>1. RegistryTyped
    BY DEF RegistryInv
  <1>2. old \in OwnRow(s) /\ old # Absent
    BY SeededIs, FreshRow
  <1>3. /\ PutEvicting(s, entry)
        /\ boardIds' = IF old.board \/ board THEN boardIds \cup {s} ELSE boardIds
        /\ s \in Forks => stored[s] # Absent
        /\ drives[s].at = "no" /\ drives' = [drives EXCEPT ![s].at = "run"]
        /\ UNCHANGED <<usage, footer, deletion, forks, fork, thread, tombs>>
    BY DEF CreateOrUpdate
  <1>4. s \in Forks => old = Seeded(s) /\ Seeded(s) # Absent
    BY <1>3, SeededIs
  <1> HIDE DEF old
  <1>5. old \in SessionRow
    BY <1>2 DEF OwnRow, Row
  <1>6. entry \in SessionRow /\ entry.native = old.native
        /\ entry.board = (old.board \/ board) /\ entry.active
    BY <1>5 DEF SessionRow
  <1> HIDE DEF entry
  <1>7. entry \in OwnRow(s) /\ entry # Absent
    BY <1>2, <1>6, AbsentIsNoRow DEF OwnRow, Row
  <1>8. Successor(s, entry)
    BY <1>4, <1>6, <1>7 DEF Successor
  <1>9. Written(s, entry)
    BY <1>1, <1>3, <1>6, PutWrites DEF Row
  <1>10. /\ drives' \in [Ids -> [at : DriveStates, read : Row]]
         /\ \A t \in Ids \ {s} : drives'[t] = drives[t]
         /\ drives'[s].read = drives[s].read
         /\ drives'[s].at = "run"
    BY <1>1, <1>3 DEF RegistryTyped, DriveStates
  <1>12. FooterMayBeDue(s)
    BY <1>3 DEF FooterMayBeDue
  <1>11. /\ boardIds' \subseteq Ids
         /\ \A t \in Ids \ {s} : t \in boardIds' <=> t \in boardIds
         /\ entry.board => s \in boardIds'
    BY <1>1, <1>3, <1>6 DEF RegistryTyped
  <1> QED BY <1>3, <1>8, <1>9, <1>10, <1>11, <1>12, WriterKeeps


\* A writer that leaves the runs and the event filter alone.
LEMMA PlainWriterKeeps ==
    ASSUME RegistryInv, NEW s \in Ids, NEW entry,
           Put(s, entry) \/ PutEvicting(s, entry),
           entry \in OwnRow(s), entry # Absent, Seeded(s) # Absent,
           entry.native \in {Seeded(s).native, s},
           entry.board = Seeded(s).board,
           UNCHANGED <<boardIds, usage, deletion, forks, fork, thread, tombs>>,
           FooterMayBeDue(s),
           \/ drives' = drives
           \/ drives[s].at = "run" /\ drives' = [drives EXCEPT ![s].at = "no"]
    PROVE  RegistryInv'
  <1>1. RegistryTyped /\ SessionInv(s)
    BY DEF RegistryInv
  <1>2. Successor(s, entry)
    BY DEF Successor
  <1>3. Written(s, entry)
    BY <1>1, PutWrites DEF OwnRow
  <1>4. /\ drives' \in [Ids -> [at : DriveStates, read : Row]]
        /\ \A t \in Ids \ {s} : drives'[t] = drives[t]
        /\ drives'[s].read = drives[s].read
        /\ \/ drives' = drives
           \/ drives[s].at = "run" /\ drives'[s].at = "no"
    BY <1>1 DEF RegistryTyped, DriveStates
  <1>5. s \in torn' \/ (drives'[s].at # "no" /\ entry.board => s \in boardIds')
    BY <1>1, <1>3, <1>4, SeededIs DEF SessionInv, Current, Written, TornBy
  <1>6. boardIds' \subseteq Ids /\ \A t : t \in boardIds' <=> t \in boardIds
    BY <1>1 DEF RegistryTyped
  <1> QED BY <1>2, <1>3, <1>4, <1>5, <1>6, WriterKeeps

\* A step that writes no row.
LEMMA RunEnds ==
    ASSUME RegistryInv, NEW s \in Ids,
           drives[s].at = "run", drives' = [drives EXCEPT ![s].at = "no"],
           FooterMayBeDue(s),
           UNCHANGED <<stored, cache, torn, boardIds, usage, deletion, forks, fork,
                       thread, tombs>>
    PROVE  RegistryInv'
  <1>1. RegistryTyped /\ SessionInv(s)
    BY DEF RegistryInv
  <1>2. s \in Forks => ForkInv(s)
    BY DEF RegistryInv
  <1>3. /\ drives' \in [Ids -> [at : DriveStates, read : Row]]
        /\ \A t \in Ids \ {s} : drives'[t] = drives[t]
        /\ drives'[s].read = drives[s].read /\ drives'[s].at = "no"
    BY <1>1 DEF RegistryTyped, DriveStates
  <1>4. RegistryTyped'
    BY <1>1, <1>3, FooterDue DEF RegistryTyped
  <1>5. Elsewhere(s)
    BY <1>3, FooterDue DEF Elsewhere
  <1>6. SessionInv(s)'
    BY <1>1, <1>3, FooterDue DEF SessionInv, RowsAreOwn, Current, Activated
  <1>7. ASSUME s \in Forks PROVE ForkInv(s)'
    <2>1. UnbornIsUnknown(s)'
      BY <1>2, <1>7 DEF ForkInv, UnbornIsUnknown
    <2> QED BY <1>2, <1>3, <1>7, <2>1, FooterDue
          DEF ForkInv, HandlerRow, ThreadIsMapped, HeirHasRow
  <1>8. OneHeir'
    BY DEF RegistryInv, OneHeir
  <1> QED BY <1>4, <1>5, <1>6, <1>7, <1>8, StepAbout

\* Writers that work on the row they find.
LEMMA RowWritersKeep ==
    ASSUME RegistryInv, NEW s \in Ids,
           AppendMessage(s) \/ SetNativeSessionId(s) \/ SetInactive(s) \/ Rename(s)
    PROVE  RegistryInv'
  <1>1. Seeded(s) \in OwnRow(s)
    BY SeededIs
  <1>2. CASE AppendMessage(s)
    <2>1. Seeded(s) = cache[s] /\ Seeded(s) # Absent
      BY <1>2 DEF AppendMessage, Seeded
    <2> QED BY <1>1, <1>2, <2>1, PlainWriterKeeps DEF AppendMessage, FooterMayBeDue
  <1>3. CASE SetNativeSessionId(s)
    <2> DEFINE entry == [Seeded(s) EXCEPT !.native = s]
    <2>1. Seeded(s) # Absent
      BY <1>3 DEF SetNativeSessionId
    <2>2. entry \in OwnRow(s) /\ entry # Absent /\ entry.native = s
          /\ entry.board = Seeded(s).board
      BY <1>1, <2>1, MappedRow
    <2> HIDE DEF entry
    <2>3. /\ Put(s, entry)
          /\ UNCHANGED <<boardIds, drives, usage, deletion, forks, fork, thread,
                         tombs>>
          /\ FooterMayBeDue(s)
      BY <1>3 DEF SetNativeSessionId, entry, FooterMayBeDue
    <2> QED BY <2>1, <2>2, <2>3, PlainWriterKeeps
  <1>4. CASE SetInactive(s)
    <2> DEFINE entry == [Seeded(s) EXCEPT !.active = FALSE]
    <2>1. /\ drives[s].at = "run" /\ drives' = [drives EXCEPT ![s].at = "no"]
          /\ UNCHANGED <<boardIds, usage, deletion, forks, fork, thread, tombs>>
          /\ FooterMayBeDue(s)
      BY <1>4 DEF SetInactive, FooterMayBeDue
    <2>2. CASE Seeded(s) # Absent
      <3>1. Put(s, entry)
        BY <1>4, <2>2 DEF SetInactive
      <3>2. entry \in OwnRow(s) /\ entry # Absent /\ entry.native = Seeded(s).native
            /\ entry.board = Seeded(s).board
        BY <1>1, <2>2, FlaggedRow, Zenon
      <3> HIDE DEF entry
      <3> QED BY <2>1, <2>2, <3>1, <3>2, PlainWriterKeeps
    <2>3. CASE Seeded(s) = Absent
      <3>1. UNCHANGED <<stored, cache, torn>>
        BY <1>4, <2>3 DEF SetInactive
      <3> QED BY <2>1, <3>1, RunEnds
    <2> QED BY <2>2, <2>3
  <1>5. CASE Rename(s)
    BY <1>1, <1>5, PlainWriterKeeps DEF Rename, FooterMayBeDue
  <1> QED BY <1>2, <1>3, <1>4, <1>5

\* mark_board_session: the event filter learns of the board with the row.
LEMMA MarkKeeps ==
    ASSUME RegistryInv, NEW s \in Ids, MarkBoardSession(s)
    PROVE  RegistryInv'
  <1> DEFINE entry == [Seeded(s) EXCEPT !.board = TRUE]
  <1>1. RegistryTyped /\ Seeded(s) \in OwnRow(s) /\ Seeded(s) # Absent
    BY SeededIs DEF RegistryInv, MarkBoardSession
  <1>2. entry \in OwnRow(s) /\ entry # Absent /\ entry.native = Seeded(s).native
    BY <1>1, MarkedRow
  <1>3. /\ Put(s, entry) /\ boardIds' = boardIds \cup {s}
        /\ UNCHANGED <<drives, usage, deletion, forks, fork, thread, tombs>>
        /\ FooterMayBeDue(s)
    BY DEF MarkBoardSession, FooterMayBeDue
  <1> HIDE DEF entry
  <1>4. Successor(s, entry)
    BY <1>1, <1>2 DEF Successor
  <1>5. Written(s, entry)
    BY <1>1, <1>2, <1>3, PutWrites DEF OwnRow
  <1>6. /\ drives' \in [Ids -> [at : DriveStates, read : Row]]
        /\ boardIds' \subseteq Ids /\ s \in boardIds'
        /\ \A t \in Ids \ {s} : t \in boardIds' <=> t \in boardIds
    BY <1>1, <1>3 DEF RegistryTyped
  <1> QED BY <1>1, <1>3, <1>4, <1>5, <1>6, WriterKeeps

\* The footer of a turn: it writes the row it has read, and that is torn unless
\* the table holds the same.
LEMMA FooterKeeps ==
    ASSUME RegistryInv, NEW s \in Ids, ReadForFooter(s) \/ WriteFooter(s)
    PROVE  RegistryInv'
  <1>1. RegistryTyped /\ SessionInv(s)
    BY DEF RegistryInv
  <1>2. s \in Forks => ForkInv(s)
    BY DEF RegistryInv
  <1>3. OneHeir'
    BY DEF RegistryInv, OneHeir, ReadForFooter, WriteFooter
  <1>4. UNCHANGED <<cache, boardIds, drives, usage, deletion, forks, fork, thread, tombs>>
    BY DEF ReadForFooter, WriteFooter
  <1>5. footer[s].at # "no" /\ ~(footer[s] = NoFooter)
    BY DEF ReadForFooter, WriteFooter, NoFooter
  <1>6. ASSUME NEW note \in Footers,
               footer' = [footer EXCEPT ![s] = note]
        PROVE  /\ footer' \in [Ids -> Footers] /\ footer'[s] = note
               /\ \A t \in Ids \ {s} : footer'[t] = footer[t]
    BY <1>1, <1>6 DEF RegistryTyped
  <1>7. NoFooter \in Footers /\ NoFooter.at = "no" /\ NoFooter.row = Absent
    BY AbsentIsNoRow DEF NoFooter, Footers
  <1>8. CASE ReadForFooter(s)
    <2> DEFINE note == IF stored[s] = Absent THEN NoFooter
                       ELSE [at |-> "read", row |-> stored[s]]
    <2>1. footer' = [footer EXCEPT ![s] = note] /\ UNCHANGED <<stored, torn>>
      BY <1>8 DEF ReadForFooter
    <2>2. note \in Footers /\ note.row = stored[s]
          /\ (note.at = "read" <=> stored[s] # Absent)
      BY <1>1, <1>7 DEF RegistryTyped, Footers
    <2> HIDE DEF note
    <2>3. /\ footer' \in [Ids -> Footers] /\ footer'[s] = note
          /\ \A t \in Ids \ {s} : footer'[t] = footer[t]
      BY <1>6, <2>1, <2>2
    <2>4. RegistryTyped' /\ Elsewhere(s)
      BY <1>1, <1>4, <2>1, <2>3 DEF RegistryTyped, Elsewhere
    <2>5. RowsAreOwn(s)'
      BY <1>1, <1>4, <2>1, <2>2, <2>3 DEF SessionInv, RowsAreOwn
    <2>6. Current(s)'
      BY <1>1, <1>4, <2>1 DEF SessionInv, Current, Activated
    <2>7. ASSUME s \in Forks PROVE ForkInv(s)'
      <3>1. UnbornIsUnknown(s)' /\ ThreadIsMapped(s)'
        BY <1>2, <1>4, <1>5, <2>1, <2>2, <2>3, <2>7
           DEF ForkInv, UnbornIsUnknown, ThreadIsMapped
      <3> QED BY <1>2, <1>4, <2>1, <2>7, <3>1 DEF ForkInv, HandlerRow, HeirHasRow
    <2> QED BY <1>3, <2>4, <2>5, <2>6, <2>7, StepAbout DEF SessionInv
  <1>9. CASE WriteFooter(s)
    <2>1. /\ stored' = [stored EXCEPT ![s] = footer[s].row]
          /\ torn' = IF stored[s] = footer[s].row THEN torn ELSE torn \cup {s}
          /\ footer' = [footer EXCEPT ![s] = NoFooter]
      BY <1>9 DEF WriteFooter
    <2>2. footer[s].row \in OwnRow(s) /\ footer[s].row # Absent /\ footer[s].row \in Row
      BY <1>1, <1>9 DEF WriteFooter, SessionInv, RowsAreOwn, OwnRow
    <2>3. /\ stored' \in [Ids -> Row] /\ stored'[s] = footer[s].row
          /\ \A t \in Ids \ {s} : stored'[t] = stored[t]
      BY <1>1, <2>1, <2>2 DEF RegistryTyped
    <2>4. /\ footer' \in [Ids -> Footers] /\ footer'[s] = NoFooter
          /\ \A t \in Ids \ {s} : footer'[t] = footer[t]
      BY <1>6, <1>7, <2>1
    <2>5. torn' \in {torn, torn \cup {s}} /\ (s \in torn' \/ stored'[s] = stored[s])
      BY <2>1, <2>3
    <2>6. RegistryTyped' /\ Elsewhere(s)
      BY <1>1, <1>4, <2>3, <2>4, <2>5 DEF RegistryTyped, Elsewhere
    <2>7. RowsAreOwn(s)'
      BY <1>1, <1>4, <1>7, <2>2, <2>3, <2>4, AbsentIsNoRow DEF SessionInv, RowsAreOwn
    <2>8. Current(s)'
      BY <1>1, <1>4, <2>5 DEF SessionInv, Current, Activated
    <2>9. ASSUME s \in Forks PROVE ForkInv(s)'
      <3>1. UnbornIsUnknown(s)' /\ ThreadIsMapped(s)'
        BY <1>2, <1>4, <1>5, <1>7, <2>2, <2>3, <2>4, <2>9
           DEF ForkInv, UnbornIsUnknown, ThreadIsMapped
      <3> QED BY <1>2, <1>4, <2>2, <2>3, <2>9, <3>1 DEF ForkInv, HandlerRow, HeirHasRow
    <2> QED BY <1>3, <2>6, <2>7, <2>8, <2>9, StepAbout DEF SessionInv
  <1> QED BY <1>8, <1>9

\* The row that an activation writes.
LEMMA ActivatedRow ==
    ASSUME NEW s \in Ids, NEW row \in OwnRow(s), row # Absent
    PROVE  LET entry == [row EXCEPT !.active = FALSE, !.native = s] IN
           /\ entry \in OwnRow(s) /\ entry # Absent
           /\ entry.native = s /\ entry.board = row.board
  <1> DEFINE entry == [row EXCEPT !.active = FALSE, !.native = s]
  <1>1. row \in SessionRow
    BY DEF OwnRow, Row
  <1>2. entry \in SessionRow /\ entry.native = s /\ entry.board = row.board
    BY <1>1 DEF SessionRow
  <1> QED BY <1>2, AbsentIsNoRow DEF OwnRow, Row

\* What a step of an activation keeps, whatever it reads or writes: it is about
\* a row of its own session, and only the last step writes the cache.
LEMMA ActivationStep ==
    ASSUME RegistryInv, NEW s \in Ids, NEW at \in DriveStates, NEW read, Drive(s, at, read),
           drives[s].at # "no",
           read \in OwnRow(s), at \in {"activating", "reread"} <=> read # Absent,
           read # Absent => read = stored[s],
           stored' \in [Ids -> Row], \A t \in Ids \ {s} : stored'[t] = stored[t],
           stored'[s] \in OwnRow(s), stored'[s] = Absent <=> stored[s] = Absent,
           stored'[s] = stored[s] \/ stored'[s].native = s,
           at \in {"activated", "reread"} \/ cache[s] \in {Absent, stored'[s]}
              \/ deletion[s] = "gone" \/ s \in torn,
           s \in torn \/ (stored'[s].board => stored[s].board \/ drives[s].read.board),
           UNCHANGED <<cache, boardIds, usage, footer, deletion, forks, fork, thread,
                       tombs, torn>>
    PROVE  RegistryInv'
  <1>1. RegistryTyped /\ SessionInv(s)
    BY DEF RegistryInv
  <1>2. s \in Forks => ForkInv(s)
    BY DEF RegistryInv
  <1>3. read \in Row
    BY DEF OwnRow
  <1>4. /\ drives' \in [Ids -> [at : DriveStates, read : Row]]
        /\ drives'[s].at = at /\ drives'[s].read = read
        /\ \A t \in Ids \ {s} : drives'[t] = drives[t]
    BY <1>1, <1>3 DEF RegistryTyped, Drive
  <1>5. RegistryTyped' /\ Elsewhere(s)
    BY <1>1, <1>4 DEF RegistryTyped, Elsewhere
  <1>6. RowsAreOwn(s)'
    BY <1>1, <1>4 DEF SessionInv, RowsAreOwn
  <1>7. Current(s)'
    BY <1>1, <1>4, AbsentIsNoBoard DEF SessionInv, Current, Activated
  <1>8. ASSUME s \in Forks PROVE ForkInv(s)'
    <2>1. UnbornIsUnknown(s)' /\ HeirHasRow(s)' /\ HandlerRow(s)'
      BY <1>2, <1>8 DEF ForkInv, UnbornIsUnknown, HeirHasRow, HandlerRow
    <2>2. ThreadIsMapped(s)'
      BY <1>2, <1>4, <1>8 DEF ForkInv, ThreadIsMapped
    <2> QED BY <2>1, <2>2 DEF ForkInv
  <1>9. OneHeir'
    BY DEF RegistryInv, OneHeir
  <1> QED BY <1>5, <1>6, <1>7, <1>8, <1>9, StepAbout DEF SessionInv

\* The activation of a clean thread writes the table alone: until the row is
\* remembered the cache may be behind.
LEMMA ActivationKeeps ==
    ASSUME RegistryInv, NEW s \in Ids,
           ReadForActivation(s) \/ ActivateRollover(s) \/ RereadActivated(s)
    PROVE  RegistryInv'
  <1>1. RegistryTyped /\ SessionInv(s)
    BY DEF RegistryInv
  <1>2. stored \in [Ids -> Row] /\ stored[s] \in OwnRow(s) /\ Absent \in OwnRow(s)
    BY <1>1, AbsentIsNoRow DEF RegistryTyped, SessionInv, RowsAreOwn
  <1>3. UNCHANGED <<cache, boardIds, usage, footer, deletion, forks, fork, thread, tombs,
                    torn>>
    BY DEF ReadForActivation, ActivateRollover, RereadActivated
  <1>4. drives[s].at \in {"run", "activating", "activated"}
    BY DEF ReadForActivation, ActivateRollover, RereadActivated
  <1>5. {"run", "activating", "activated", "reread"} \subseteq DriveStates
    BY DEF DriveStates
  <1>6. /\ drives[s].at \in {"run", "activating"} =>
              cache[s] \in {Absent, stored[s]} \/ deletion[s] = "gone" \/ s \in torn
        /\ stored[s] = Absent => cache[s] = Absent \/ deletion[s] = "gone" \/ s \in torn
    BY <1>1 DEF SessionInv, Current, Activated
  <1>7. CASE ReadForActivation(s)
    <2>1. /\ stored[s] # Absent /\ Drive(s, "activating", stored[s])
          /\ UNCHANGED stored /\ drives[s].at = "run"
      BY <1>7 DEF ReadForActivation
    <2> QED BY <1>2, <1>3, <1>5, <1>6, <2>1, ActivationStep
  <1>8. CASE ActivateRollover(s)
    <2> DEFINE entry == [drives[s].read EXCEPT !.active = FALSE, !.native = s]
    <2>1. drives[s].at = "activating"
      BY <1>8 DEF ActivateRollover
    <2>2. CASE stored[s] = Absent
      <3>1. Drive(s, "run", Absent) /\ UNCHANGED stored
        BY <1>8, <2>2 DEF ActivateRollover
      <3> QED BY <1>2, <1>3, <1>4, <1>5, <1>6, <2>1, <3>1, ActivationStep
    <2>3. CASE stored[s] # Absent
      <3>1. Drive(s, "activated", Absent) /\ stored' = [stored EXCEPT ![s] = entry]
        BY <1>8, <2>3 DEF ActivateRollover
      <3>2. drives[s].read \in OwnRow(s) /\ drives[s].read # Absent
        BY <1>1, <2>1 DEF SessionInv, RowsAreOwn
      <3>3. /\ entry \in OwnRow(s) /\ entry # Absent
            /\ entry.native = s /\ entry.board = drives[s].read.board
        BY <3>2, ActivatedRow, Zenon
      <3> HIDE DEF entry
      <3>4. entry \in Row
        BY <3>3 DEF OwnRow
      <3>5. /\ stored' \in [Ids -> Row] /\ stored'[s] = entry
            /\ \A t \in Ids \ {s} : stored'[t] = stored[t]
        BY <1>2, <3>1, <3>4
      <3> QED BY <1>2, <1>3, <1>4, <1>5, <2>1, <2>3, <3>1, <3>3, <3>5, ActivationStep
    <2> QED BY <2>2, <2>3
  <1>9. CASE RereadActivated(s)
    <2>1. UNCHANGED stored /\ drives[s].at = "activated"
      BY <1>9 DEF RereadActivated
    <2>2. CASE stored[s] = Absent
      <3>1. Drive(s, "run", Absent)
        BY <1>9, <2>2 DEF RereadActivated
      <3> QED BY <1>2, <1>3, <1>5, <1>6, <2>1, <2>2, <3>1, ActivationStep
    <2>3. CASE stored[s] # Absent
      <3>1. Drive(s, "reread", stored[s])
        BY <1>9, <2>3 DEF RereadActivated
      <3> QED BY <1>2, <1>3, <1>5, <2>1, <2>3, <3>1, ActivationStep
    <2> QED BY <2>2, <2>3
  <1> QED BY <1>7, <1>8, <1>9

\* remember_persisted_session at the end of an activation: the row that was read
\* again is cached, and that is torn unless the table still holds it.
LEMMA RememberActivatedKeeps ==
    ASSUME RegistryInv, NEW s \in Ids, RememberActivated(s)
    PROVE  RegistryInv'
  <1> DEFINE row == drives[s].read
  <1>1. RegistryTyped /\ SessionInv(s)
    BY DEF RegistryInv
  <1>2. s \in Forks => ForkInv(s)
    BY DEF RegistryInv
  <1>3. /\ drives[s].at = "reread" /\ Drive(s, "run", Absent)
        /\ cache' = Evicted([cache EXCEPT ![s] = row], recent')
        /\ boardIds' = IF row.board THEN boardIds \cup {s} ELSE boardIds
        /\ torn' = IF stored[s] = row THEN torn ELSE torn \cup {s}
        /\ UNCHANGED <<stored, usage, footer, deletion, forks, fork, thread, tombs>>
    BY DEF RememberActivated
  <1>4. row \in OwnRow(s) /\ row # Absent /\ row \in Row
    BY <1>1, <1>3 DEF SessionInv, RowsAreOwn, OwnRow
  <1>5. [cache EXCEPT ![s] = row] \in [Ids -> Row]
    BY <1>1, <1>4 DEF RegistryTyped
  <1>6. /\ cache' \in [Ids -> Row]
        /\ \A t \in Ids : cache'[t] \in {[cache EXCEPT ![s] = row][t], Absent}
    BY <1>3, <1>5, EvictedIs
  <1>7. /\ cache'[s] \in {row, Absent}
        /\ \A t \in Ids \ {s} : cache'[t] \in {cache[t], Absent}
    BY <1>1, <1>6 DEF RegistryTyped
  <1>8. /\ drives' \in [Ids -> [at : DriveStates, read : Row]]
        /\ drives'[s].at = "run" /\ drives'[s].read = Absent
        /\ \A t \in Ids \ {s} : drives'[t] = drives[t]
    BY <1>1, <1>3, AbsentIsNoRow DEF RegistryTyped, Drive, DriveStates
  <1>9. /\ torn' \in {torn, torn \cup {s}} /\ (s \in torn' \/ stored[s] = row)
        /\ boardIds' \in {boardIds, boardIds \cup {s}} /\ (row.board => s \in boardIds')
    BY <1>3
  <1> HIDE DEF row
  <1>10. RegistryTyped' /\ Elsewhere(s)
    BY <1>1, <1>3, <1>6, <1>7, <1>8, <1>9 DEF RegistryTyped, Elsewhere
  <1>11. RowsAreOwn(s)'
    BY <1>1, <1>3, <1>4, <1>7, <1>8, AbsentIsNoRow DEF SessionInv, RowsAreOwn
  <1>12. Current(s)'
    BY <1>1, <1>3, <1>4, <1>7, <1>8, <1>9, AbsentIsNoBoard DEF SessionInv, Current
  <1>13. ASSUME s \in Forks PROVE ForkInv(s)'
    <2>1. fork[s].at \notin {"none", "checked", "forked", "undo"}
      BY <1>2, <1>3, <1>13 DEF ForkInv, UnbornIsUnknown
    <2>2. UnbornIsUnknown(s)' /\ HeirHasRow(s)' /\ HandlerRow(s)'
      BY <1>2, <1>3, <1>13, <2>1 DEF ForkInv, UnbornIsUnknown, HeirHasRow, HandlerRow
    <2>3. ThreadIsMapped(s)'
      BY <1>2, <1>3, <1>7, <1>8, <1>13 DEF ForkInv, ThreadIsMapped, row
    <2> QED BY <2>2, <2>3 DEF ForkInv
  <1>14. OneHeir'
    BY <1>3 DEF RegistryInv, OneHeir
  <1> QED BY <1>10, <1>11, <1>12, <1>13, <1>14, StepAbout DEF SessionInv

\* set_token_usage: the row that was read is written only where the cache has
\* lost it, and that is torn unless the table holds the same.
LEMMA UsageKeeps ==
    ASSUME RegistryInv, NEW s \in Ids, ReadForUsage(s) \/ SetTokenUsage(s)
    PROVE  RegistryInv'
  <1>1. RegistryTyped /\ SessionInv(s) /\ Seeded(s) \in OwnRow(s) /\ Seeded(s) \in Row
    BY SeededIs DEF RegistryInv
  <1>2. s \in Forks => ForkInv(s)
    BY DEF RegistryInv
  <1>3. OneHeir'
    BY DEF RegistryInv, OneHeir, ReadForUsage, SetTokenUsage
  <1>4. CASE ReadForUsage(s)
    <2>1. /\ Seeded(s) # Absent
          /\ usage' = [usage EXCEPT ![s] = Seeded(s)]
          /\ UNCHANGED <<stored, cache, boardIds, drives, footer, deletion, forks, fork,
                         thread, tombs, torn>>
      BY <1>4 DEF ReadForUsage
    <2>2. /\ usage' \in [Ids -> Row] /\ usage'[s] = Seeded(s)
          /\ \A t \in Ids \ {s} : usage'[t] = usage[t]
      BY <1>1, <2>1 DEF RegistryTyped
    <2>3. RegistryTyped' /\ Elsewhere(s)
      BY <1>1, <2>1, <2>2 DEF RegistryTyped, Elsewhere
    <2>4. RowsAreOwn(s)'
      BY <1>1, <2>1, <2>2 DEF SessionInv, RowsAreOwn
    <2>5. Current(s)'
      BY <1>1, <2>1 DEF SessionInv, Current, Activated
    <2>6. ASSUME s \in Forks PROVE ForkInv(s)'
      <3>1. UnbornIsUnknown(s)'
        BY <1>2, <2>1, <2>6, SeededIs DEF ForkInv, UnbornIsUnknown
      <3>2. ThreadIsMapped(s)'
        BY <1>2, <2>1, <2>2, <2>6, SeededIs DEF ForkInv, ThreadIsMapped
      <3> QED BY <1>2, <2>1, <2>6, <3>1, <3>2 DEF ForkInv, HandlerRow, HeirHasRow
    <2> QED BY <1>3, <2>3, <2>4, <2>5, <2>6, StepAbout DEF SessionInv
  <1>5. CASE SetTokenUsage(s)
    <2> DEFINE entry == IF cache[s] # Absent THEN cache[s] ELSE usage[s]
    <2>1. /\ usage[s] # Absent
          /\ stored' = [stored EXCEPT ![s] = entry]
          /\ cache' = [cache EXCEPT ![s] = entry]
          /\ torn' = IF entry = stored[s] THEN TornBy(s) ELSE torn \cup {s}
          /\ usage' = [usage EXCEPT ![s] = Absent]
          /\ UNCHANGED <<boardIds, drives, footer, deletion, forks, fork, thread, tombs>>
      BY <1>5 DEF SetTokenUsage
    <2>2. entry \in OwnRow(s) /\ entry # Absent /\ entry \in {cache[s], usage[s]}
      BY <1>1, <2>1 DEF SessionInv, RowsAreOwn
    <2> HIDE DEF entry
    <2>5. entry \in Row
      BY <2>2 DEF OwnRow
    <2>6. /\ stored' \in [Ids -> Row] /\ cache' \in [Ids -> Row] /\ usage' \in [Ids -> Row]
          /\ stored'[s] = entry /\ cache'[s] = entry /\ usage'[s] = Absent
          /\ \A t \in Ids \ {s} : /\ stored'[t] = stored[t] /\ cache'[t] = cache[t]
                                  /\ usage'[t] = usage[t]
      BY <1>1, <2>1, <2>5, AbsentIsNoRow DEF RegistryTyped
    <2>7. /\ torn' \in {torn, torn \cup {s}}
          /\ s \in torn' \/ (entry = stored[s] /\ deletion[s] # "gone")
      BY <2>1 DEF TornBy
    <2>8. RegistryTyped'
      BY <1>1, <2>1, <2>6, <2>7 DEF RegistryTyped
    <2>9. Elsewhere(s)
      BY <2>1, <2>6, <2>7 DEF Elsewhere
    <2>10. RowsAreOwn(s)'
      BY <1>1, <2>1, <2>2, <2>6, AbsentIsNoRow DEF SessionInv, RowsAreOwn
    <2>11. Current(s)'
      <3> SUFFICES ASSUME s \notin torn' PROVE Current(s)'
        BY DEF Current
      <3>1. s \notin torn /\ entry = stored[s] /\ deletion'[s] # "gone"
        BY <2>1, <2>7
      <3> QED BY <1>1, <2>1, <2>2, <2>6, <3>1 DEF SessionInv, Current
    <2>12. ASSUME s \in Forks PROVE ForkInv(s)'
      <3>1. UnbornIsUnknown(s)' /\ HeirHasRow(s)'
        BY <1>2, <2>1, <2>2, <2>6, <2>12 DEF ForkInv, UnbornIsUnknown, HeirHasRow
      <3>2. ThreadIsMapped(s)'
        BY <1>2, <2>1, <2>2, <2>6, <2>12 DEF ForkInv, ThreadIsMapped
      <3> QED BY <1>2, <2>1, <2>12, <3>1, <3>2 DEF ForkInv, HandlerRow
    <2> QED BY <1>3, <2>8, <2>9, <2>10, <2>11, <2>12, StepAbout DEF SessionInv
  <1> QED BY <1>4, <1>5

\* delete: between the row and the cached row the id is "gone".
LEMMA DeletionKeeps ==
    ASSUME RegistryInv, NEW s \in Ids, DeleteBegins(s) \/ DeleteRow(s) \/ DeleteForgets(s)
    PROVE  RegistryInv'
  <1>1. RegistryTyped /\ SessionInv(s)
    BY DEF RegistryInv
  <1>2. s \in Forks => ForkInv(s)
    BY DEF RegistryInv
  <1>3. CASE DeleteBegins(s)
    <2>1. /\ deletion[s] = "no" /\ Seeded(s) # Absent
          /\ deletion' = [deletion EXCEPT ![s] = "found"]
          /\ UNCHANGED <<stored, cache, boardIds, drives, usage, footer, forks, fork,
                         thread, tombs, torn>>
      BY <1>3 DEF DeleteBegins
    <2>2. /\ deletion' \in [Ids -> {"no", "found", "gone"}] /\ deletion'[s] = "found"
          /\ \A t \in Ids \ {s} : deletion'[t] = deletion[t]
      BY <1>1, <2>1 DEF RegistryTyped
    <2>3. RegistryTyped' /\ Elsewhere(s)
      BY <1>1, <2>1, <2>2 DEF RegistryTyped, Elsewhere
    <2>4. SessionInv(s)'
      BY <1>1, <2>1, <2>2 DEF SessionInv, RowsAreOwn, Current, Activated
    <2>5. ASSUME s \in Forks PROVE ForkInv(s)'
      <3>1. UnbornIsUnknown(s)'
        BY <1>2, <2>1, <2>5, SeededIs DEF ForkInv, UnbornIsUnknown
      <3> QED BY <1>2, <2>1, <2>5, <3>1
            DEF ForkInv, HandlerRow, ThreadIsMapped, HeirHasRow
    <2>6. OneHeir'
      BY <2>1 DEF RegistryInv, OneHeir
    <2> QED BY <2>3, <2>4, <2>5, <2>6, StepAbout
  <1>4. CASE DeleteRow(s)
    <2>1. /\ deletion[s] = "found"
          /\ tombs' = IF s \in forks /\ Seeded(s).native \in Ids
                      THEN tombs \cup {Seeded(s).native} ELSE tombs
          /\ forks' = forks \ {s}
          /\ stored' = [stored EXCEPT ![s] = Absent]
          /\ deletion' = [deletion EXCEPT ![s] = IF stored[s] = Absent THEN "no"
                                                 ELSE "gone"]
          /\ UNCHANGED <<cache, boardIds, drives, usage, footer, fork, thread, torn>>
      BY <1>4 DEF DeleteRow
    <2>2. /\ deletion' \in [Ids -> {"no", "found", "gone"}]
          /\ deletion'[s] = IF stored[s] = Absent THEN "no" ELSE "gone"
          /\ \A t \in Ids \ {s} : deletion'[t] = deletion[t]
      BY <1>1, <2>1 DEF RegistryTyped
    <2>3. /\ stored' \in [Ids -> Row] /\ stored'[s] = Absent
          /\ \A t \in Ids \ {s} : stored'[t] = stored[t]
      BY <1>1, <2>1, AbsentIsNoRow DEF RegistryTyped
    <2>4. tombs \subseteq tombs' /\ tombs' \subseteq Ids
      BY <1>1, <2>1 DEF RegistryTyped
    <2>5. RegistryTyped'
      BY <1>1, <2>1, <2>2, <2>3, <2>4 DEF RegistryTyped
    <2>6. Elsewhere(s)
      BY <2>1, <2>2, <2>3, <2>4 DEF Elsewhere
    <2>7. RowsAreOwn(s)'
      BY <1>1, <2>1, <2>3, AbsentIsNoRow DEF SessionInv, RowsAreOwn
    <2>8. Current(s)'
      BY <1>1, <2>1, <2>2, <2>3, AbsentIsNoBoard DEF SessionInv, Current, Activated
    <2>9. ASSUME s \in Forks PROVE ForkInv(s)'
      <3>1. UnbornIsUnknown(s)' /\ HandlerRow(s)' /\ HeirHasRow(s)'
        BY <1>2, <2>1, <2>2, <2>3, <2>9
           DEF ForkInv, UnbornIsUnknown, HandlerRow, HeirHasRow
      <3>2. ASSUME fork[s].at \in {"stored", "over"}, fork[s].row.native = s,
                   s \in forks
            PROVE  s \in tombs'
        <4>1. Seeded(s) # Absent
          BY <1>2, <2>9, <3>2, SeededIs DEF ForkInv, HeirHasRow
        <4>2. Seeded(s).native = s
          BY <1>2, <2>9, <3>2, <4>1, SeededIs DEF ForkInv, ThreadIsMapped
        <4> QED BY <2>1, <3>2, <4>2
      <3>3. ThreadIsMapped(s)'
        BY <1>2, <2>1, <2>3, <2>4, <2>9, <3>2 DEF ForkInv, ThreadIsMapped
      <3> QED BY <3>1, <3>3 DEF ForkInv
    <2>10. OneHeir'
      BY <2>1 DEF RegistryInv, OneHeir, Same
    <2> QED BY <2>5, <2>6, <2>7, <2>8, <2>9, <2>10, StepAbout DEF SessionInv
  <1>5. CASE DeleteForgets(s)
    <2>1. /\ deletion[s] = "gone"
          /\ cache' = [cache EXCEPT ![s] = Absent]
          /\ boardIds' = boardIds \ {s}
          /\ deletion' = [deletion EXCEPT ![s] = "no"]
          /\ UNCHANGED <<stored, drives, usage, footer, forks, fork, thread, tombs,
                         torn>>
      BY <1>5 DEF DeleteForgets
    <2>2. /\ deletion' \in [Ids -> {"no", "found", "gone"}] /\ deletion'[s] = "no"
          /\ cache' \in [Ids -> Row] /\ cache'[s] = Absent
          /\ \A t \in Ids \ {s} : deletion'[t] = deletion[t] /\ cache'[t] = cache[t]
      BY <1>1, <2>1, AbsentIsNoRow DEF RegistryTyped
    <2>3. RegistryTyped' /\ Elsewhere(s)
      BY <1>1, <2>1, <2>2 DEF RegistryTyped, Elsewhere
    <2>4. SessionInv(s)'
      BY <1>1, <2>1, <2>2, AbsentIsNoRow, AbsentIsNoBoard
         DEF SessionInv, RowsAreOwn, Current
    <2>5. ASSUME s \in Forks PROVE ForkInv(s)'
      BY <1>2, <2>1, <2>2, <2>5
         DEF ForkInv, UnbornIsUnknown, HandlerRow, ThreadIsMapped, HeirHasRow
    <2>6. OneHeir'
      BY <2>1 DEF RegistryInv, OneHeir
    <2> QED BY <2>3, <2>4, <2>5, <2>6, StepAbout
  <1> QED BY <1>3, <1>4, <1>5
-----------------------------------------------------------------------------
(* Forks and restarts.                                                      *)

\* A handler looks at its source, and forks the thread.
LEMMA ForkPreparationKeeps ==
    ASSUME RegistryInv, NEW h \in Forks, ForkBegins(h) \/ ForkThread(h)
    PROVE  RegistryInv'
  <1>1. RegistryTyped /\ SessionInv(h) /\ ForkInv(h) /\ h \in Ids
    BY DEF RegistryInv, Ids
  <1>2. Source(h) \in Sessions /\ Source(h) \in Ids /\ Source(h) # h
    BY SessionRegistryAssumption, NamesAreApart DEF Source, Ids
  <1>3. OneHeir'
    BY DEF RegistryInv, OneHeir, ForkBegins, ForkThread
  <1>4. UNCHANGED <<stored, cache, boardIds, drives, usage, footer, deletion, forks,
                    tombs, torn>>
    BY DEF ForkBegins, ForkThread
  <1>5. SessionInv(h)'
    BY <1>1, <1>4 DEF SessionInv, RowsAreOwn, Current, Activated
  <1>6. fork[h].at \in {"none", "checked"}
    BY DEF ForkBegins, ForkThread
  <1>7. fork[h].row \in OwnRow(Source(h)) /\ thread[h] = "none"
    BY <1>1, <1>6 DEF ForkInv, HandlerRow
  <1>8. fork[h].row.native # h
    BY <1>1, <1>2, <1>7, NamesAreApart DEF OwnRow
  <1>9. ASSUME \A g \in Forks \ {h} : fork'[g] = fork[g] /\ thread'[g] = thread[g],
               fork' \in [Forks -> [at : {"none", "checked", "forked", "stored",
                                          "undo", "over", "lost"}, row : Row]],
               thread' \in [Forks -> {"none", "there", "deleted", "leaked"}],
               fork'[h].at \in {"checked", "forked", "over"},
               fork'[h].at = "over" => fork'[h].row.native # h,
               HandlerRow(h)'
        PROVE  RegistryInv'
    <2>1. RegistryTyped'
      BY <1>1, <1>4, <1>9 DEF RegistryTyped
    <2>2. Elsewhere(h)
      BY <1>4, <1>9 DEF Elsewhere
    <2>3. UnbornIsUnknown(h)' /\ HeirHasRow(h)'
      BY <1>1, <1>4, <1>6 DEF ForkInv, UnbornIsUnknown, HeirHasRow
    <2>4. ThreadIsMapped(h)'
      BY <1>9 DEF ThreadIsMapped
    <2> QED BY <1>1, <1>3, <1>5, <1>9, <2>1, <2>2, <2>3, <2>4, StepAbout DEF ForkInv
  <1>10. CASE ForkBegins(h)
    <2> DEFINE row == [Seeded(Source(h)) EXCEPT !.active = FALSE]
               start == [at |-> "checked", row |-> row]
    <2>1. UNCHANGED thread /\ fork[h].at = "none"
      BY <1>10 DEF ForkBegins
    <2>2. CASE \E g \in forks : Same(h, g)
      <3>1. fork' = [fork EXCEPT ![h].at = "over"]
        BY <1>10, <2>2 DEF ForkBegins
      <3>2. /\ fork' \in [Forks -> [at : {"none", "checked", "forked", "stored",
                                          "undo", "over", "lost"}, row : Row]]
            /\ fork'[h].at = "over" /\ fork'[h].row = fork[h].row
            /\ \A g \in Forks \ {h} : fork'[g] = fork[g]
        BY <1>1, <3>1 DEF RegistryTyped
      <3>3. HandlerRow(h)'
        BY <1>7, <2>1, <3>2 DEF HandlerRow
      <3> QED BY <1>1, <1>8, <1>9, <2>1, <3>2, <3>3 DEF RegistryTyped
    <2>3. CASE ~\E g \in forks : Same(h, g)
      <3>1. Seeded(Source(h)) # Absent /\ fork' = [fork EXCEPT ![h] = start]
        BY <1>10, <2>3 DEF ForkBegins
      <3>2. row \in OwnRow(Source(h)) /\ row # Absent
        BY <1>2, <3>1, SeededIs, FlaggedRow, Zenon
      <3> HIDE DEF row
      <3>3. row \in Row
        BY <3>2 DEF OwnRow
      <3>4. /\ fork' \in [Forks -> [at : {"none", "checked", "forked", "stored",
                                          "undo", "over", "lost"}, row : Row]]
            /\ fork'[h].at = "checked" /\ fork'[h].row = row
            /\ \A g \in Forks \ {h} : fork'[g] = fork[g]
        BY <1>1, <3>1, <3>3 DEF RegistryTyped
      <3>5. HandlerRow(h)'
        BY <1>7, <2>1, <3>2, <3>4 DEF HandlerRow
      <3> QED BY <1>1, <1>9, <2>1, <3>4, <3>5 DEF RegistryTyped
    <2> QED BY <2>2, <2>3
  <1>11. CASE ForkThread(h)
    <2>1. fork[h].at = "checked" /\ fork[h].row # Absent
      BY <1>1, <1>11 DEF ForkThread, ForkInv, HandlerRow
    <2>2. fork[h].row \in SessionRow
      BY <1>7, <2>1 DEF OwnRow, Row
    <2>3. ASSUME NEW native \in Ids \cup {Unmapped},
                 fork' = [fork EXCEPT ![h] = ForkedRow(h, native)]
          PROVE  /\ fork' \in [Forks -> [at : {"none", "checked", "forked", "stored",
                                          "undo", "over", "lost"}, row : Row]]
                 /\ fork'[h].at = "forked" /\ fork'[h].row.native = native
                 /\ fork'[h].row # Absent /\ fork'[h].row \in SessionRow
                 /\ \A g \in Forks \ {h} : fork'[g] = fork[g]
      <3> DEFINE row == [fork[h].row EXCEPT !.native = native]
      <3>1. row \in SessionRow /\ row.native = native
        BY <1>1, <2>2 DEF SessionRow
      <3>2. ForkedRow(h, native) = [at |-> "forked", row |-> row]
        BY DEF ForkedRow
      <3> HIDE DEF row
      <3>3. row \in Row /\ row # Absent
        BY <3>1, AbsentIsNoRow DEF Row
      <3> QED BY <1>1, <2>3, <3>1, <3>2, <3>3 DEF RegistryTyped
    <2>4. CASE /\ thread' = [thread EXCEPT ![h] = "there"]
               /\ fork' = [fork EXCEPT ![h] = ForkedRow(h, h)]
      <3>1. /\ thread' \in [Forks -> {"none", "there", "deleted", "leaked"}]
            /\ thread'[h] = "there"
            /\ \A g \in Forks \ {h} : thread'[g] = thread[g]
        BY <1>1, <2>4 DEF RegistryTyped
      <3>2. /\ fork' \in [Forks -> [at : {"none", "checked", "forked", "stored",
                                          "undo", "over", "lost"}, row : Row]]
            /\ fork'[h].at = "forked" /\ fork'[h].row.native = h
            /\ fork'[h].row # Absent /\ fork'[h].row \in SessionRow
            /\ \A g \in Forks \ {h} : fork'[g] = fork[g]
        BY <1>1, <2>3, <2>4, Zenon
      <3>3. HandlerRow(h)'
        BY <3>1, <3>2 DEF HandlerRow, OwnRow, Row
      <3> QED BY <1>9, <3>1, <3>2, <3>3
    <2>5. CASE /\ fork' = [fork EXCEPT ![h] = ForkedRow(h, Unmapped)]
               /\ UNCHANGED thread
      <3>1. /\ fork' \in [Forks -> [at : {"none", "checked", "forked", "stored",
                                          "undo", "over", "lost"}, row : Row]]
            /\ fork'[h].at = "forked" /\ fork'[h].row.native = Unmapped
            /\ fork'[h].row # Absent /\ fork'[h].row \in SessionRow
            /\ \A g \in Forks \ {h} : fork'[g] = fork[g]
        BY <2>3, <2>5, Zenon
      <3>2. Unmapped # h
        BY <1>1, NamesAreApart
      <3>3. HandlerRow(h)'
        BY <1>7, <2>5, <3>1, <3>2 DEF HandlerRow, OwnRow, Row
      <3> QED BY <1>1, <1>9, <2>5, <3>1, <3>3 DEF RegistryTyped
    <2>6. CASE fork' = [fork EXCEPT ![h].at = "over"] /\ UNCHANGED thread
      <3>1. /\ fork' \in [Forks -> [at : {"none", "checked", "forked", "stored",
                                          "undo", "over", "lost"}, row : Row]]
            /\ fork'[h].at = "over" /\ fork'[h].row = fork[h].row
            /\ \A g \in Forks \ {h} : fork'[g] = fork[g]
        BY <1>1, <2>6 DEF RegistryTyped
      <3>2. HandlerRow(h)'
        BY <1>7, <2>6, <3>1 DEF HandlerRow
      <3> QED BY <1>1, <1>8, <1>9, <2>6, <3>1, <3>2 DEF RegistryTyped
    <2> QED BY <1>11, <2>4, <2>5, <2>6 DEF ForkThread
  <1> QED BY <1>10, <1>11

\* The transaction that makes a destination, and the cache that learns of it.
LEMMA ForkCreationKeeps ==
    ASSUME RegistryInv, NEW h \in Forks, CreateSessionFork(h) \/ CompensateFork(h)
    PROVE  RegistryInv'
  <1>1. RegistryTyped /\ SessionInv(h) /\ ForkInv(h) /\ h \in Ids
    BY DEF RegistryInv, Ids
  <1>2. UNCHANGED <<cache, boardIds, drives, usage, footer, deletion, tombs, torn>>
    BY DEF CreateSessionFork, CompensateFork
  <1>3. fork[h].at \in {"forked", "undo"}
    BY DEF CreateSessionFork, CompensateFork
  <1>4. /\ stored[h] = Absent /\ cache[h] = Absent /\ deletion[h] = "no"
        /\ drives[h] = [at |-> "no", read |-> Absent] /\ h \notin forks
        /\ usage[h] = Absent /\ footer[h] = NoFooter
    BY <1>1, <1>3 DEF ForkInv, UnbornIsUnknown, HeirHasRow
  <1>5. thread[h] = "there" <=> fork[h].row.native = h
    BY <1>1, <1>3 DEF ForkInv, HandlerRow
  <1>6. ASSUME NEW at \in {"undo", "over", "stored"},
               fork' = [fork EXCEPT ![h].at = at]
        PROVE  /\ fork' \in [Forks -> [at : {"none", "checked", "forked", "stored",
                                          "undo", "over", "lost"}, row : Row]]
               /\ fork'[h].at = at /\ fork'[h].row = fork[h].row
               /\ \A g \in Forks \ {h} : fork'[g] = fork[g]
    BY <1>1, <1>6 DEF RegistryTyped
  <1>7. CASE /\ fork[h].at = "forked"
             /\ fork' = [fork EXCEPT ![h].at = "undo"]
             /\ UNCHANGED <<stored, forks, thread>>
    <2>1. /\ fork' \in [Forks -> [at : {"none", "checked", "forked", "stored",
                                       "undo", "over", "lost"}, row : Row]]
          /\ fork'[h].at = "undo" /\ fork'[h].row = fork[h].row
          /\ \A g \in Forks \ {h} : fork'[g] = fork[g]
      BY <1>6, <1>7
    <2>2. RegistryTyped' /\ Elsewhere(h)
      BY <1>1, <1>2, <1>7, <2>1 DEF RegistryTyped, Elsewhere
    <2>3. SessionInv(h)'
      BY <1>1, <1>2, <1>7 DEF SessionInv, RowsAreOwn, Current, Activated
    <2>4. ForkInv(h)'
      BY <1>2, <1>4, <1>5, <1>7, <2>1
         DEF ForkInv, UnbornIsUnknown, HandlerRow, ThreadIsMapped, HeirHasRow
    <2>5. OneHeir'
      BY <1>7 DEF RegistryInv, OneHeir
    <2> QED BY <1>1, <2>2, <2>3, <2>4, <2>5, StepAbout
  <1>8. CASE /\ fork[h].at = "forked" /\ ~\E g \in forks : Same(h, g)
             /\ stored' = [stored EXCEPT ![h] = fork[h].row]
             /\ forks' = forks \cup {h}
             /\ fork' = [fork EXCEPT ![h].at = "stored"]
             /\ UNCHANGED thread
    <2>1. /\ fork' \in [Forks -> [at : {"none", "checked", "forked", "stored",
                                       "undo", "over", "lost"}, row : Row]]
          /\ fork'[h].at = "stored" /\ fork'[h].row = fork[h].row
          /\ \A g \in Forks \ {h} : fork'[g] = fork[g]
      BY <1>6, <1>8
    <2>2. fork[h].row \in OwnRow(h) /\ fork[h].row \in Row /\ fork[h].row # Absent
      BY <1>1, <1>8 DEF ForkInv, HandlerRow, OwnRow
    <2>3. /\ stored' \in [Ids -> Row] /\ stored'[h] = fork[h].row
          /\ \A t \in Ids \ {h} : stored'[t] = stored[t]
      BY <1>1, <1>8, <2>2 DEF RegistryTyped
    <2>4. RegistryTyped'
      BY <1>1, <1>2, <1>8, <2>1, <2>3 DEF RegistryTyped
    <2>5. Elsewhere(h)
      BY <1>2, <1>8, <2>1, <2>3 DEF Elsewhere
    <2>6. SessionInv(h)'
      BY <1>1, <1>2, <1>4, <2>2, <2>3, AbsentIsNoBoard
         DEF SessionInv, RowsAreOwn, Current
    <2>7. UnbornIsUnknown(h)' /\ HeirHasRow(h)'
      BY <2>1, <2>2, <2>3 DEF UnbornIsUnknown, HeirHasRow
    <2>8. HandlerRow(h)'
      BY <1>1, <1>5, <1>8, <2>1, <2>2 DEF HandlerRow
    <2>9. ThreadIsMapped(h)'
      BY <1>2, <1>4, <1>8, <2>1, <2>3 DEF ThreadIsMapped, NoFooter
    <2>10. OneHeir'
      BY <1>8 DEF RegistryInv, OneHeir, Same
    <2> QED BY <1>1, <2>4, <2>5, <2>6, <2>7, <2>8, <2>9, <2>10, StepAbout DEF ForkInv
  <1>9. CASE /\ fork[h].at = "undo"
             /\ \E left \in {"deleted", "leaked"} :
                   thread' = [thread EXCEPT ![h] = IF @ = "there" THEN left ELSE @]
             /\ fork' = [fork EXCEPT ![h].at = "over"]
             /\ UNCHANGED <<stored, forks>>
    <2>1. /\ fork' \in [Forks -> [at : {"none", "checked", "forked", "stored",
                                       "undo", "over", "lost"}, row : Row]]
          /\ fork'[h].at = "over" /\ fork'[h].row = fork[h].row
          /\ \A g \in Forks \ {h} : fork'[g] = fork[g]
      BY <1>6, <1>9
    <2>2. /\ thread' \in [Forks -> {"none", "there", "deleted", "leaked"}]
          /\ thread'[h] # "there"
          /\ thread[h] = "there" => thread'[h] \in {"deleted", "leaked"}
          /\ \A g \in Forks \ {h} : thread'[g] = thread[g]
      BY <1>1, <1>9 DEF RegistryTyped
    <2>3. RegistryTyped' /\ Elsewhere(h)
      BY <1>1, <1>2, <1>9, <2>1, <2>2 DEF RegistryTyped, Elsewhere
    <2>4. SessionInv(h)'
      BY <1>1, <1>2, <1>9 DEF SessionInv, RowsAreOwn, Current, Activated
    <2>5. ForkInv(h)'
      <3>1. UnbornIsUnknown(h)' /\ HandlerRow(h)' /\ HeirHasRow(h)'
        BY <1>4, <1>9, <2>1, <2>2 DEF UnbornIsUnknown, HandlerRow, HeirHasRow
      <3>2. ThreadIsMapped(h)'
        BY <1>2, <1>4, <1>5, <1>9, <2>1, <2>2 DEF ThreadIsMapped, NoFooter
      <3> QED BY <3>1, <3>2 DEF ForkInv
    <2>6. OneHeir'
      BY <1>9 DEF RegistryInv, OneHeir
    <2> QED BY <1>1, <2>3, <2>4, <2>5, <2>6, StepAbout
  <1> QED BY <1>7, <1>8, <1>9 DEF CreateSessionFork, CompensateFork

\* remember_persisted_session: the row that was made is cached, and if somebody
\* else wrote the stored one meanwhile the id is torn.
LEMMA RememberKeeps ==
    ASSUME RegistryInv, NEW h \in Forks, Remember(h)
    PROVE  RegistryInv'
  <1>1. RegistryTyped /\ SessionInv(h) /\ ForkInv(h) /\ h \in Ids
    BY DEF RegistryInv, Ids
  <1>2. fork[h].row \in OwnRow(h) /\ fork[h].row \in Row /\ fork[h].row # Absent
    BY <1>1 DEF Remember, ForkInv, HandlerRow, OwnRow
  <1>3. /\ fork[h].at = "stored"
        /\ cache' = Evicted([cache EXCEPT ![h] = fork[h].row], recent)
        /\ boardIds' = IF fork[h].row.board THEN boardIds \cup {h} ELSE boardIds
        /\ torn' = IF stored[h] = fork[h].row THEN torn ELSE torn \cup {h}
        /\ fork' = [fork EXCEPT ![h].at = "over"]
        /\ UNCHANGED <<stored, drives, usage, footer, deletion, forks, thread, tombs>>
    BY DEF Remember
  <1>4. [cache EXCEPT ![h] = fork[h].row] \in [Ids -> Row]
    BY <1>1, <1>2 DEF RegistryTyped
  <1>5. /\ cache' \in [Ids -> Row]
        /\ \A t \in Ids : cache'[t] \in {[cache EXCEPT ![h] = fork[h].row][t], Absent}
    BY <1>3, <1>4, EvictedIs
  <1>6. /\ cache'[h] \in {fork[h].row, Absent}
        /\ \A t \in Ids \ {h} : cache'[t] \in {cache[t], Absent}
    BY <1>1, <1>5 DEF RegistryTyped
  <1>7. /\ fork' \in [Forks -> [at : {"none", "checked", "forked", "stored", "undo",
                                      "over", "lost"}, row : Row]]
        /\ fork'[h].at = "over" /\ fork'[h].row = fork[h].row
        /\ \A g \in Forks \ {h} : fork'[g] = fork[g]
    BY <1>1, <1>3 DEF RegistryTyped
  <1>8. torn' \in {torn, torn \cup {h}} /\ boardIds' \in {boardIds, boardIds \cup {h}}
    BY <1>3
  <1>9. RegistryTyped'
    BY <1>1, <1>3, <1>5, <1>7, <1>8 DEF RegistryTyped
  <1>10. Elsewhere(h)
    BY <1>3, <1>6, <1>7, <1>8 DEF Elsewhere
  <1>11. RowsAreOwn(h)'
    BY <1>1, <1>2, <1>3, <1>6, AbsentIsNoRow DEF SessionInv, RowsAreOwn
  <1>12. Current(h)'
    <2> SUFFICES ASSUME h \notin torn' PROVE Current(h)'
      BY DEF Current
    <2>1. h \notin torn /\ stored[h] = fork[h].row /\ stored'[h] = fork[h].row
      BY <1>3
    <2>2. deletion'[h] # "gone"
      BY <1>1, <1>2, <1>3, <2>1 DEF SessionInv, Current
    <2> QED BY <1>1, <1>2, <1>3, <1>6, <2>1, <2>2, AbsentIsNoBoard
            DEF SessionInv, Current
  <1>13. UnbornIsUnknown(h)' /\ HeirHasRow(h)'
    BY <1>1, <1>3, <1>7 DEF ForkInv, UnbornIsUnknown, HeirHasRow
  <1>14. HandlerRow(h)'
    BY <1>1, <1>3, <1>7 DEF ForkInv, HandlerRow
  <1>15. ThreadIsMapped(h)'
    BY <1>1, <1>3, <1>6, <1>7 DEF ForkInv, ThreadIsMapped
  <1>16. OneHeir'
    BY <1>3 DEF RegistryInv, OneHeir
  <1> QED BY <1>1, <1>9, <1>10, <1>11, <1>12, <1>13, <1>14, <1>15, <1>16, StepAbout
          DEF SessionInv, ForkInv

\* A restart caches what is stored, and the handlers that were at work are
\* lost; what they left stored or forked stays as it was.
LEMMA RestartKeeps ==
    ASSUME RegistryInv, NEW resumed \in SUBSET Known, NEW stale \in SUBSET Known,
           RestartServer(resumed, stale)
    PROVE  RegistryInv'
  <1> DEFINE idle(s) == s \in stale \/ (LoadedCache[s] # Absent /\ s \notin resumed)
             kept(s) == IF idle(s) THEN [stored[s] EXCEPT !.active = FALSE]
                        ELSE LoadedCache[s]
             load == [s \in Ids |-> IF s \in Loadable THEN stored[s] ELSE Absent]
  <1>1. RegistryTyped /\ OneHeir /\ \A s \in Ids : SessionInv(s)
    BY DEF RegistryInv
  <1>2. load \in [Ids -> Row]
    BY <1>1, AbsentIsNoRow DEF RegistryTyped
  <1>3. /\ LoadedCache \in [Ids -> Row]
        /\ \A s \in Ids : LoadedCache[s] \in {load[s], Absent}
    BY <1>2, EvictedIs DEF LoadedCache
  <1>4. /\ resumed \subseteq Known /\ stale \subseteq Known \ resumed
        /\ cache' = [s \in Ids |-> kept(s)]
        /\ stored' = [s \in Ids |-> IF idle(s) THEN kept(s) ELSE stored[s]]
        /\ boardIds' = LoadedBoardIds
        /\ drives' = [s \in Ids |-> [at |-> IF s \in resumed THEN "run" ELSE "no",
                                     read |-> Absent]]
        /\ usage' = [s \in Ids |-> Absent] /\ footer' = [s \in Ids |-> NoFooter]
        /\ deletion' = [s \in Ids |-> "no"]
        /\ fork' = [h \in Forks |-> IF fork[h].at \in {"none", "over"} THEN fork[h]
                                    ELSE [fork[h] EXCEPT !.at = "lost"]]
        /\ torn' = Replaced
        /\ UNCHANGED <<forks, thread, tombs>>
    BY DEF RestartServer
  <1>5. ASSUME NEW s \in Ids
        PROVE  /\ stored[s] \in OwnRow(s)
               /\ stored'[s] \in OwnRow(s) /\ cache'[s] \in OwnRow(s)
               /\ stored'[s] = Absent <=> stored[s] = Absent
               /\ stored'[s].native = stored[s].native
               /\ stored'[s].board = stored[s].board
               /\ cache'[s] \in {Absent, stored'[s]}
    <2>1. stored[s] \in OwnRow(s)
      BY <1>1 DEF SessionInv, RowsAreOwn
    <2>2. LoadedCache[s] = Absent \/ (s \in Loadable /\ LoadedCache[s] = stored[s])
      BY <1>3
    <2> HIDE DEF load
    <2>3. CASE idle(s)
      <3>1. stored'[s] = kept(s) /\ cache'[s] = kept(s)
        BY <1>4, <2>3
      <3>2. kept(s) = [stored[s] EXCEPT !.active = FALSE] /\ stored[s] # Absent
        BY <1>4, <2>2, <2>3 DEF Known
      <3>4. LET row == [stored[s] EXCEPT !.active = FALSE] IN
            /\ row \in OwnRow(s) /\ row # Absent
            /\ row.native = stored[s].native /\ row.board = stored[s].board
        BY <2>1, <3>2, FlaggedRow, Zenon
      <3> HIDE DEF kept
      <3>3. /\ kept(s) \in OwnRow(s) /\ kept(s) # Absent
            /\ kept(s).native = stored[s].native /\ kept(s).board = stored[s].board
        BY <3>2, <3>4
      <3> QED BY <2>1, <3>1, <3>2, <3>3
    <2>4. CASE ~idle(s)
      <3>1. stored'[s] = stored[s] /\ cache'[s] = LoadedCache[s]
        BY <1>4, <2>4
      <3> QED BY <2>1, <2>2, <3>1, AbsentIsNoRow
    <2> QED BY <2>3, <2>4
  <1>6. cache' \in [Ids -> Row] /\ stored' \in [Ids -> Row]
    <2>1. \A s \in Ids : cache'[s] \in Row /\ stored'[s] \in Row
      BY <1>5 DEF OwnRow
    <2> QED BY <1>4, <2>1
  <1> HIDE DEF idle, kept, load
  <1>7. ASSUME NEW h \in Forks
        PROVE  /\ fork'[h] \in [at : {"none", "over", "lost"}, row : Row]
               /\ fork'[h].at # "lost" => fork'[h] = fork[h]
    <2>1. fork[h] \in [at : {"none", "checked", "forked", "stored", "undo", "over",
                             "lost"}, row : Row]
      BY <1>1 DEF RegistryTyped
    <2>2. fork'[h] = IF fork[h].at \in {"none", "over"} THEN fork[h]
                     ELSE [fork[h] EXCEPT !.at = "lost"]
      BY <1>4
    <2>3. fork[h].at \notin {"none", "over"} => fork'[h].at = "lost"
      BY <2>1, <2>2
    <2>4. fork'[h] \in [at : {"none", "over", "lost"}, row : Row]
      BY <2>1, <2>2
    <2> QED BY <2>2, <2>3, <2>4
  <1>8. RegistryTyped'
    <2>1. fork' \in [Forks -> [at : {"none", "checked", "forked", "stored", "undo",
                                     "over", "lost"}, row : Row]]
      <3>1. \A h \in Forks : fork'[h] \in [at : {"none", "checked", "forked",
                                "stored", "undo", "over", "lost"}, row : Row]
        BY <1>7
      <3> QED BY <1>4, <3>1
    <2>2. /\ drives' \in [Ids -> [at : DriveStates, read : Row]]
          /\ usage' \in [Ids -> Row] /\ footer' \in [Ids -> Footers]
      BY <1>4, AbsentIsNoRow DEF DriveStates, Footers, NoFooter
    <2>3. LoadedBoardIds \subseteq Ids /\ Replaced \subseteq Ids
      BY <1>1, SessionRegistryAssumption
         DEF LoadedBoardIds, Loadable, Known, Replaced, Source, Ids, RegistryTyped
    <2> QED BY <1>1, <1>4, <1>6, <2>1, <2>2, <2>3 DEF RegistryTyped
  <1>9. ASSUME NEW s \in Ids PROVE SessionInv(s)'
    <2>1. drives'[s].read = Absent
          /\ drives'[s].at = (IF s \in resumed THEN "run" ELSE "no")
          /\ usage'[s] = Absent /\ footer'[s] = [at |-> "no", row |-> Absent]
      BY <1>4 DEF NoFooter
    <2>2. RowsAreOwn(s)'
      BY <1>5, <2>1, AbsentIsNoRow DEF RowsAreOwn
    <2>3. Current(s)'
      <3>1. cache'[s].board \/ stored'[s].board => stored[s].board
        BY <1>5, AbsentIsNoBoard
      <3>2. s \notin torn' /\ drives'[s].at # "no" => s \in Loadable
        BY <1>4, <2>1 DEF Loadable
      <3>3. deletion'[s] = "no"
        BY <1>4
      <3> QED BY <1>4, <1>5, <2>1, <3>1, <3>2, <3>3, AbsentIsNoBoard
              DEF Current, LoadedBoardIds
    <2> QED BY <2>2, <2>3 DEF SessionInv
  <1>10. ASSUME NEW h \in Forks PROVE ForkInv(h)'
    <2>1. ForkInv(h) /\ h \in Ids
      BY DEF RegistryInv, Ids
    <2>2. drives'[h] = [at |-> IF h \in resumed THEN "run" ELSE "no", read |-> Absent]
          /\ deletion'[h] = "no" /\ usage'[h] = Absent /\ footer'[h] = NoFooter
      BY <1>4, <2>1
    <2>3. UnbornIsUnknown(h)'
      <3>1. SUFFICES ASSUME fork[h].at = "none", fork'[h] = fork[h]
                     PROVE  UnbornIsUnknown(h)'
        BY <1>7 DEF UnbornIsUnknown
      <3>2. stored[h] = Absent /\ h \notin resumed
        BY <1>4, <2>1, <3>1 DEF ForkInv, UnbornIsUnknown, Known
      <3>3. stored'[h] = Absent /\ cache'[h] = Absent
        BY <1>5, <2>1, <3>2
      <3> QED BY <2>2, <3>2, <3>3 DEF UnbornIsUnknown
    <2>4. HandlerRow(h)'
      BY <1>4, <1>7, <2>1 DEF ForkInv, HandlerRow
    <2>5. ThreadIsMapped(h)'
      <3>1. SUFFICES ASSUME fork[h].at = "over", fork'[h] = fork[h],
                            fork[h].row.native = h
                     PROVE  ThreadIsMapped(h)'
        BY <1>7 DEF ThreadIsMapped
      <3>2. /\ stored[h] = Absent \/ stored[h].native = h
            /\ h \in forks \/ h \in tombs \/ thread[h] \in {"deleted", "leaked"}
        BY <2>1, <3>1 DEF ForkInv, ThreadIsMapped
      <3>3. /\ stored'[h] = Absent \/ stored'[h].native = h
            /\ cache'[h] = Absent \/ cache'[h].native = h
            /\ drives'[h].read = Absent /\ usage'[h] = Absent /\ footer'[h].row = Absent
        BY <1>5, <2>1, <2>2, <3>2 DEF NoFooter
      <3> QED BY <1>4, <3>2, <3>3 DEF ThreadIsMapped
    <2>6. HeirHasRow(h)'
      BY <1>4, <1>5, <2>1 DEF ForkInv, HeirHasRow
    <2> QED BY <2>3, <2>4, <2>5, <2>6 DEF ForkInv
  <1>11. OneHeir'
    BY <1>1, <1>4 DEF OneHeir
  <1> QED BY <1>8, <1>9, <1>10, <1>11 DEF RegistryInv

\* Nothing that the invariant reads changes.
LEMMA StutterKeeps ==
    ASSUME RegistryInv, UNCHANGED registryVars
    PROVE  RegistryInv'
  <1>1. ASSUME NEW s \in Ids, SessionInv(s) PROVE SessionInv(s)'
    BY <1>1 DEF registryVars, SessionInv, RowsAreOwn, Current, Activated
  <1>2. ASSUME NEW h \in Forks, ForkInv(h) PROVE ForkInv(h)'
    BY <1>2 DEF registryVars, ForkInv, UnbornIsUnknown, HandlerRow, ThreadIsMapped,
               HeirHasRow
  <1>3. RegistryTyped' /\ OneHeir'
    BY DEF RegistryInv, RegistryTyped, OneHeir, registryVars
  <1> QED BY <1>1, <1>2, <1>3 DEF RegistryInv

-----------------------------------------------------------------------------
\* The inductive invariant: cached rows are stored ones, runs of boards are
\* known, and the thread of a fork has a row, a tombstone or an end.
LEMMA RegistryInvariance == RegistrySpec => []RegistryInv
  <1>1. RegistryInit => RegistryInv
    BY RegistryInitHolds
  <1>2. RegistryInv /\ [RegistryNext]_registryVars => RegistryInv'
    <2> SUFFICES ASSUME RegistryInv, [RegistryNext]_registryVars PROVE RegistryInv'
      OBVIOUS
    <2>1. ASSUME NEW s \in Ids,
                 \/ \E board \in BOOLEAN : CreateOrUpdate(s, board)
                 \/ MarkBoardSession(s) \/ AppendMessage(s) \/ SetNativeSessionId(s)
                 \/ SetInactive(s) \/ ReadForFooter(s) \/ WriteFooter(s)
                 \/ ReadForActivation(s) \/ ActivateRollover(s)
                 \/ RereadActivated(s) \/ RememberActivated(s)
                 \/ Rename(s) \/ ReadForUsage(s) \/ SetTokenUsage(s)
                 \/ DeleteBegins(s) \/ DeleteRow(s) \/ DeleteForgets(s)
          PROVE  RegistryInv'
      BY <2>1, CreateKeeps, MarkKeeps, RowWritersKeep, FooterKeeps, ActivationKeeps,
         RememberActivatedKeeps, UsageKeeps, DeletionKeeps
    <2>2. ASSUME NEW h \in Forks,
                 \/ ForkBegins(h) \/ ForkThread(h) \/ CreateSessionFork(h)
                 \/ Remember(h) \/ CompensateFork(h)
          PROVE  RegistryInv'
      BY <2>2, ForkPreparationKeeps, ForkCreationKeeps, RememberKeeps
    <2>3. ASSUME NEW resumed \in SUBSET Known, NEW stale \in SUBSET Known,
                 RestartServer(resumed, stale)
          PROVE  RegistryInv'
      BY <2>3, RestartKeeps
    <2>4. CASE UNCHANGED registryVars
      BY <2>4, StutterKeeps
    <2> QED BY <2>1, <2>2, <2>3, <2>4 DEF RegistryNext
  <1> QED BY <1>1, <1>2, PTL DEF RegistrySpec

\* For any sessions, requests to fork, deletions, restarts and cache limit: the
\* cache answers what the table holds, the event filter knows every board that
\* runs, requests for a fork have one destination, and what a fork hides stays
\* hidden only on its behalf (manager.rs, forks.rs).
THEOREM RegistryIsServed == RegistrySpec => []RegistryServed
  <1>1. RegistryInv => RegistryServed
    <2> SUFFICES ASSUME RegistryInv PROVE RegistryServed
      OBVIOUS
    <2>1. CacheIsCurrent
      BY SeededIs DEF CacheIsCurrent, RegistryInv, SessionInv, Current
    <2>2. ForkOnce
      <3>1. ASSUME NEW h \in Forks, fork[h].at = "over", fork[h].row.native = h,
                   h \notin forks, stored[h] = Absent
            PROVE  thread[h] \in {"deleted", "leaked"} \/ h \in tombs
        BY <3>1 DEF RegistryInv, ForkInv, ThreadIsMapped
      <3> QED BY <3>1 DEF ForkOnce, RegistryInv, OneHeir
    <2>3. HiddenSourceHasHeir
      <3>1. forks \subseteq Forks
        BY DEF RegistryInv, RegistryTyped
      <3> QED BY <3>1 DEF HiddenSourceHasHeir, Replaced, RegistryInv, ForkInv, HeirHasRow
    <2>4. ForkStaysHidden
      <3> SUFFICES ASSUME NEW h \in Forks, thread[h] = "there", fork[h].at = "over",
                          h \notin tombs
                   PROVE  \E s \in Ids : h \in {stored[s].native, cache[s].native}
        BY DEF ForkStaysHidden
      <3>1. ForkInv(h) /\ h \in Ids
        BY DEF RegistryInv, Ids
      <3>2. fork[h].row.native = h
        BY <3>1 DEF ForkInv, HandlerRow
      <3>3. h \in forks /\ stored[h] # Absent
        BY <3>1, <3>2 DEF ForkInv, ThreadIsMapped, HeirHasRow
      <3>4. stored[h].native = h
        BY <3>1, <3>2, <3>3 DEF ForkInv, ThreadIsMapped
      <3> QED BY <3>1, <3>4
    <2> QED BY <2>1, <2>2, <2>3, <2>4 DEF RegistryServed, ForksAreWhole
  <1> QED BY <1>1, RegistryInvariance, PTL

(***************************************************************************)
(* ExternalHistory.                                                        *)
(*                                                                         *)
(* The invariant says of everything that was read when it was read: what   *)
(* carries the stamp or the fingerprint a file has now is what the file    *)
(* has now.  A write makes a new stamp, so it leaves nothing to show; what *)
(* is left are the steps that combine two reads of different times.        *)
(***************************************************************************)

Places == {"idle", "missed", "parsing", "parsed", "got", "listed", "over"}
Ops == {"full", "tail", "page"}

HistoryTyped ==
    /\ HistoryTypeOK
    /\ memoSize \in Nat
    /\ reader \in [Readers -> [at : Places, op : Ops, of : Files, stamp : Stamps,
                               print : Prints, got : Contents, tries : Nat,
                               since : Contents]]
    /\ answer \in [Readers -> [total : Contents, page : Contents]]

\* Every write makes a stamp, and a replacement takes it as its identity.
FileIsStamped(f) ==
    /\ 1 <= file[f].id /\ file[f].id <= file[f].stamp
    /\ file[f].lines + (IF file[f].half THEN 1 ELSE 0) <= file[f].stamp

\* The fingerprint of the scan under way is of now, or older.
ScanIsOlder(f) == syncing.of = f =>
    /\ syncing.print.id <= file[f].id /\ syncing.print.stamp <= file[f].stamp
    /\ syncing.print.stamp = file[f].stamp => syncing.print = Fingerprint(f)

\* The source of a file that was not replaced holds its first lines, all of
\* them if nothing was written since its fingerprint.
SourceIsPrefix(f) ==
    /\ index[f].print.id <= file[f].id /\ index[f].print.stamp <= file[f].stamp
    /\ index[f].print.id = file[f].id =>
          /\ index[f].count <= file[f].lines
          /\ index[f].offset = 2 * index[f].count
          /\ index[f].lines = {file[f].id} \X (1..index[f].count)
    /\ index[f].print.stamp = file[f].stamp => index[f].offset = 2 * file[f].lines

\* What is saved or remembered for the file as it is, is its content.
KeptIsWritten(f) ==
    /\ saved[f].print.stamp <= file[f].stamp /\ memo[f].stamp <= file[f].stamp
    /\ saved[f].print = Fingerprint(f) => saved[f].lines = Content(f)
    /\ memo[f].stamp = file[f].stamp => memo[f].lines = Content(f)

\* What a request holds of the file as it is, is its content.
HeldIsWritten(r) ==
    LET f == reader[r].of IN
    /\ reader[r].stamp <= file[f].stamp /\ reader[r].print.stamp <= file[f].stamp
    /\ reader[r].at \in {"parsed", "listed"} /\ reader[r].print = Fingerprint(f)
          => reader[r].got = Content(f)
    /\ reader[r].at \in {"parsed", "got"} /\ reader[r].stamp = file[f].stamp
          => reader[r].got = Content(f)

HistoryInv ==
    /\ HistoryTyped
    /\ \A f \in Files : /\ FileIsStamped(f) /\ ScanIsOlder(f)
                        /\ SourceIsPrefix(f) /\ KeptIsWritten(f)
    /\ \A r \in Readers : HeldIsWritten(r)
    /\ PageIsWhole
    /\ CacheIsAccounted

-----------------------------------------------------------------------------
(* The lines that entries hold.                                             *)

Units(m, S) == {u \in S \X (1..CacheLines) : u[2] <= m[u[1]].weight}

\* Lines are counted once each: the weight of a set of entries is a number,
\* that of two sets apart the sum, and what does not change weighs the same.
LEMMA WeightIsSum ==
    ASSUME NEW m, NEW S \in SUBSET Files, NEW T \in SUBSET Files, S \cap T = {}
    PROVE  /\ Weight(m, S) \in Nat /\ Weight(m, T) \in Nat
           /\ Weight(m, S \cup T) = Weight(m, S) + Weight(m, T)
  <1>1. IsFiniteSet(1..CacheLines)
    BY FS_Interval, ExternalHistoryAssumption
  <1>2. ASSUME NEW U \in SUBSET Files
        PROVE  /\ IsFiniteSet(Units(m, U)) /\ Weight(m, U) = Cardinality(Units(m, U))
               /\ Weight(m, U) \in Nat
    <2>1. IsFiniteSet(U)
      BY FS_Subset, ExternalHistoryAssumption
    <2>2. IsFiniteSet(U \X (1..CacheLines))
      BY <1>1, <2>1, FS_Product
    <2>3. IsFiniteSet(Units(m, U))
      BY <2>2, FS_Subset DEF Units
    <2> QED BY <2>3, FS_CardinalityType DEF Weight, Units
  <1>3. Units(m, S \cup T) = Units(m, S) \cup Units(m, T)
    BY DEF Units
  <1>4. Units(m, S) \cap Units(m, T) = {}
    BY DEF Units
  <1>5. Cardinality(Units(m, S) \cap Units(m, T)) = 0
    BY <1>4, FS_EmptySet
  <1>6. Cardinality(Units(m, S \cup T))
            = Cardinality(Units(m, S)) + Cardinality(Units(m, T)) - 0
    BY <1>2, <1>3, <1>5, FS_Union
  <1> QED BY <1>2, <1>6

\* One entry weighs its weight.
LEMMA WeightOfOne ==
    ASSUME NEW m, NEW f \in Files, m[f].weight \in 0..CacheLines
    PROVE  Weight(m, {f}) = m[f].weight
  <1> DEFINE w == m[f].weight
  <1>1. {u \in {f} \X (1..CacheLines) : u[2] <= m[u[1]].weight} = {f} \X (1..w)
    BY ExternalHistoryAssumption
  <1>5. w \in Nat /\ 1 \in Int /\ w \in Int
    BY ExternalHistoryAssumption
  <1>6. /\ IsFiniteSet(1..w)
        /\ Cardinality(1..w) = IF 1 > w THEN 0 ELSE w - 1 + 1
    BY <1>5, FS_Interval
  <1>2. IsFiniteSet(1..w) /\ Cardinality(1..w) = w
    BY <1>5, <1>6
  <1>3. IsFiniteSet({f}) /\ Cardinality({f}) = 1
    BY FS_Singleton
  <1>4. Cardinality({f} \X (1..w)) = 1 * w
    BY <1>2, <1>3, FS_Product
  <1>7. Weight(m, {f}) = Cardinality({f} \X (1..w))
    BY <1>1 DEF Weight
  <1> QED BY <1>4, <1>5, <1>7

\* Only weights count.
LEMMA SameWeight ==
    ASSUME NEW m, NEW n, NEW S, \A f \in S : m[f].weight = n[f].weight
    PROVE  Weight(m, S) = Weight(n, S)
  <1>1. {u \in S \X (1..CacheLines) : u[2] <= m[u[1]].weight}
            = {u \in S \X (1..CacheLines) : u[2] <= n[u[1]].weight}
    OBVIOUS
  <1> QED BY <1>1 DEF Weight

\* Entries without weight weigh nothing.
LEMMA NoWeight ==
    ASSUME NEW m, NEW S, \A f \in S : m[f].weight = 0
    PROVE  Weight(m, S) = 0
  <1>1. {u \in S \X (1..CacheLines) : u[2] <= m[u[1]].weight} = {}
    BY ExternalHistoryAssumption
  <1> QED BY <1>1, FS_EmptySet DEF Weight

\* An entry that changes changes the sum by the difference.
LEMMA WeightOfChange ==
    ASSUME NEW m, NEW n, NEW f \in Files,
           m[f].weight \in 0..CacheLines, n[f].weight \in 0..CacheLines,
           \A g \in Files \ {f} : n[g].weight = m[g].weight
    PROVE  Weight(n, Files) = Weight(m, Files) - m[f].weight + n[f].weight
  <1> DEFINE R == Files \ {f}
  <1>1. Files = {f} \cup R /\ {f} \cap R = {} /\ {f} \in SUBSET Files
        /\ R \in SUBSET Files
    OBVIOUS
  <1>2. Weight(n, R) = Weight(m, R)
    BY SameWeight
  <1>3. Weight(m, {f}) = m[f].weight /\ Weight(n, {f}) = n[f].weight
    BY WeightOfOne
  <1> HIDE DEF R
  <1>4. /\ Weight(m, R) \in Nat
        /\ Weight(m, Files) = m[f].weight + Weight(m, R)
    BY <1>1, <1>3, WeightIsSum
  <1>5. Weight(n, Files) = n[f].weight + Weight(n, R)
    BY <1>1, <1>3, WeightIsSum
  <1> QED BY <1>2, <1>4, <1>5, ExternalHistoryAssumption

\* Fewer entries weigh no more.
LEMMA LessWeighsLess ==
    ASSUME NEW m, NEW S \in SUBSET Files, NEW T \in SUBSET S
    PROVE  Weight(m, T) <= Weight(m, S) /\ Weight(m, T) \in Nat /\ Weight(m, S) \in Nat
  <1> DEFINE R == S \ T
  <1>1. S = T \cup R /\ T \cap R = {} /\ T \in SUBSET Files /\ R \in SUBSET Files
    OBVIOUS
  <1> HIDE DEF R
  <1>2. /\ Weight(m, T) \in Nat /\ Weight(m, R) \in Nat
        /\ Weight(m, S) = Weight(m, T) + Weight(m, R)
    BY <1>1, WeightIsSum
  <1> QED BY <1>2

\* The entries read no longer ago than g, and those that an eviction leaves.
Newer(last, f, g) == {h \in Files : h = f \/ last[h] >= last[g]}
Staying(m, last, f) ==
    {g \in Files : g = f \/ Weight(m, Newer(last, f, g)) <= CacheLines}

\* What the eviction leaves fits: those that stay were all read after the
\* oldest of them, and that one fits with all that were read after it.
LEMMA NewestFit ==
    ASSUME NEW m, NEW last \in [Files -> Nat], NEW f \in Files,
           m[f].weight \in 0..CacheLines
    PROVE  Weight(m, Staying(m, last, f)) <= CacheLines
  <1> DEFINE newer(g) == {h \in Files : h = f \/ last[h] >= last[g]}
             Fit == {g \in Files \ {f} : Weight(m, newer(g)) <= CacheLines}
             stay == {g \in Files : g = f \/ Weight(m, newer(g)) <= CacheLines}
             Older == {Files \ newer(g) : g \in Fit}
  <1>1. stay = {f} \cup Fit
    OBVIOUS
  <1>2. ASSUME Fit = {} PROVE Weight(m, stay) <= CacheLines
    <2>1. Weight(m, stay) = m[f].weight
      BY <1>1, <1>2, WeightOfOne
    <2> QED BY <2>1, ExternalHistoryAssumption
  <1>3. ASSUME Fit # {} PROVE Weight(m, stay) <= CacheLines
    <2> DEFINE R == StrictSubsetOrdering(Files)
    <2>1. IsWellFoundedOn(R, SUBSET Files)
      BY FS_StrictSubsetOrderingWellFounded, FS_FiniteSubsetsOfFinite,
         ExternalHistoryAssumption
    <2>2. Older \subseteq SUBSET Files /\ Older # {}
      <3>1. PICK g \in Fit : TRUE
        BY <1>3
      <3>2. Files \ newer(g) \in Older
        BY <3>1
      <3> QED BY <3>2
    <2> HIDE DEF R
    <2>3. \E x \in Older : \A y \in Older : ~ (<<y, x>> \in R)
      <3> HIDE DEF Older
      <3> QED BY <2>1, <2>2, WFMin
    <2>4. PICK g \in Fit : \A h \in Fit : <<Files \ newer(h), Files \ newer(g)>> \notin R
      BY <2>3
    <2>5. \A h \in Fit : newer(h) \subseteq newer(g)
      <3> SUFFICES ASSUME NEW h \in Fit, last[h] < last[g] PROVE newer(h) \subseteq newer(g)
        OBVIOUS
      <3>1. newer(g) \subseteq newer(h)
        OBVIOUS
      <3>2. ~ (Files \ newer(h) # Files \ newer(g))
        BY <2>4, <3>1 DEF R, StrictSubsetOrdering
      <3> QED BY <3>2
    <2>6. stay \subseteq newer(g)
      BY <1>1, <2>5
    <2>7. Weight(m, stay) <= Weight(m, newer(g))
      <3>1. newer(g) \in SUBSET Files
        OBVIOUS
      <3> HIDE DEF newer, stay
      <3> QED BY <2>6, <3>1, LessWeighsLess
    <2>8. /\ Weight(m, newer(g)) <= CacheLines
          /\ Weight(m, stay) \in Nat /\ Weight(m, newer(g)) \in Nat
      <3>1. newer(g) \in SUBSET Files /\ stay \in SUBSET Files
        OBVIOUS
      <3>2. Weight(m, newer(g)) <= CacheLines
        OBVIOUS
      <3> HIDE DEF newer, stay
      <3> QED BY <3>1, <3>2, LessWeighsLess
    <2> HIDE DEF newer, stay
    <2> QED BY <2>7, <2>8, ExternalHistoryAssumption
  <1> QED BY <1>2, <1>3 DEF Staying, Newer

-----------------------------------------------------------------------------
(* Writes.                                                                  *)

\* A write makes a new stamp, and adds lines or makes another file.
FileIsWritten(f) ==
    /\ \A g \in Files \ {f} : file'[g] = file[g]
    /\ file'[f].stamp = file[f].stamp + 1
    /\ \/ file'[f].id = file[f].id /\ file'[f].lines >= file[f].lines
       \/ file'[f].id = file'[f].stamp
    /\ FileIsStamped(f)'
    /\ UNCHANGED <<index, syncing, saved, memo, memoSize, lastRead, now, reader, answer>>

\* The writes of the CLIs are such.
LEMMA WriteStep ==
    ASSUME HistoryTyped, NEW f \in Files, FileIsStamped(f),
           WriteHalfLine(f) \/ WriteLine(f) \/ ReplaceFile(f)
    PROVE  FileIsWritten(f) /\ HistoryTyped'
  <1> DEFINE T == [lines : 0..(MaxWrites + 1), half : BOOLEAN, id : Stamps, stamp : Stamps]
             Fresh(n) == /\ file' = [file EXCEPT ![f] = n]
                         /\ n.stamp = file[f].stamp + 1
                         /\ \/ n.id = file[f].id /\ n.lines >= file[f].lines
                            \/ n.id = n.stamp
                         /\ n.lines + (IF n.half THEN 1 ELSE 0) <= n.stamp
                         /\ UNCHANGED <<index, syncing, saved, memo, memoSize, lastRead,
                                        now, reader, answer>>
  <1>1. PICK n \in T : Fresh(n)
    <2>1. /\ file[f].lines \in 0..(MaxWrites + 1) /\ file[f].half \in BOOLEAN
          /\ file[f].id \in Stamps /\ file[f].stamp \in Stamps
          /\ file[f].lines + (IF file[f].half THEN 1 ELSE 0) <= file[f].stamp
      BY DEF HistoryTyped, HistoryTypeOK, FileIsStamped
    <2> DEFINE New(l, b, i) == [lines |-> l, half |-> b, id |-> i, stamp |-> file[f].stamp + 1]
    <2>2. ASSUME NEW l \in 0..(MaxWrites + 1), NEW b \in BOOLEAN, NEW i \in Stamps,
                 Writes(f, l, b, i),
                 (i = file[f].id /\ l >= file[f].lines) \/ i = file[f].stamp + 1,
                 l + (IF b THEN 1 ELSE 0) <= file[f].stamp + 1
          PROVE  \E n \in T : Fresh(n)
      <3>1. file[f].stamp + 1 \in Stamps
        BY <2>1, <2>2, ExternalHistoryAssumption DEF Writes, Stamps
      <3>2. /\ New(l, b, i) \in T /\ New(l, b, i).stamp = file[f].stamp + 1
            /\ New(l, b, i).id = i /\ New(l, b, i).lines = l /\ New(l, b, i).half = b
        BY <3>1
      <3>3. Fresh(New(l, b, i))
        BY <2>2, <3>2 DEF Writes
      <3> QED BY <3>2, <3>3
    <2> HIDE DEF T, Fresh
    <2>3. CASE WriteHalfLine(f)
      <3>1. Writes(f, file[f].lines, TRUE, file[f].id) /\ file[f].half = FALSE
        BY <2>1, <2>3, Zenon DEF WriteHalfLine
      <3>2. /\ TRUE \in BOOLEAN /\ file[f].lines >= file[f].lines
            /\ file[f].lines + (IF TRUE THEN 1 ELSE 0) <= file[f].stamp + 1
        BY <2>1, <3>1, ExternalHistoryAssumption DEF Stamps
      <3> QED BY <2>1, <2>2, <3>1, <3>2, Zenon
    <2>4. CASE WriteLine(f)
      <3>1. Writes(f, file[f].lines + 1, FALSE, file[f].id)
        BY <2>4, Zenon DEF WriteLine
      <3>2. file[f].lines + 1 <= file[f].stamp + 1 /\ file[f].stamp <= MaxWrites
        BY <2>1, <3>1, ExternalHistoryAssumption DEF Writes, Stamps
      <3>3. file[f].lines + 1 \in 0..(MaxWrites + 1)
        BY <2>1, <3>2, ExternalHistoryAssumption DEF Stamps
      <3>4. /\ FALSE \in BOOLEAN /\ file[f].lines + 1 >= file[f].lines
            /\ file[f].lines + 1 + (IF FALSE THEN 1 ELSE 0) <= file[f].stamp + 1
        BY <2>1, <3>2, ExternalHistoryAssumption DEF Stamps
      <3> QED BY <2>1, <2>2, <3>1, <3>3, <3>4, Zenon
    <2>5. CASE ReplaceFile(f)
      <3>1. PICK n \in 1..file[f].lines : Writes(f, n, FALSE, file[f].stamp + 1)
        BY <2>5, Zenon DEF ReplaceFile
      <3>2. /\ file[f].stamp + 1 \in Stamps /\ n \in 0..(MaxWrites + 1)
            /\ n <= file[f].stamp + 1
        BY <2>1, <3>1, ExternalHistoryAssumption DEF Writes, Stamps
      <3>3. FALSE \in BOOLEAN /\ n + (IF FALSE THEN 1 ELSE 0) <= file[f].stamp + 1
        BY <3>2
      <3> QED BY <2>2, <3>1, <3>2, <3>3, Zenon
    <2> QED BY <2>3, <2>4, <2>5
  <1>2. file \in [Files -> T]
    BY DEF HistoryTyped, HistoryTypeOK
  <1> HIDE DEF T
  <1>3. file' \in [Files -> T] /\ file'[f] = n
    BY <1>1, <1>2
  <1>4. 1 <= file'[f].id
    <2>1. file[f].id \in Nat /\ file[f].stamp \in Nat
      BY DEF HistoryTyped, HistoryTypeOK, Stamps
    <2> QED BY <1>1, <1>3, <2>1 DEF FileIsStamped
  <1>5. file'[f].id <= file'[f].stamp
    <2>1. file[f].id \in Nat /\ file[f].stamp \in Nat
      BY DEF HistoryTyped, HistoryTypeOK, Stamps
    <2> QED BY <1>1, <1>3, <2>1 DEF FileIsStamped
  <1>6. FileIsStamped(f)'
    BY <1>1, <1>3, <1>4, <1>5 DEF FileIsStamped
  <1>7. FileIsWritten(f)
    BY <1>1, <1>2, <1>3, <1>6 DEF FileIsWritten
  <1>8. HistoryTyped'
    <2>1. /\ file' \in [Files -> [lines : 0..(MaxWrites + 1), half : BOOLEAN,
                                  id : Stamps, stamp : Stamps]]
      BY <1>3 DEF T
    <2> QED BY <2>1, <1>1 DEF HistoryTyped, HistoryTypeOK
  <1> QED BY <1>7, <1>8

\* A write leaves nothing that is of now.
LEMMA WriteKeeps ==
    ASSUME HistoryInv, NEW f \in Files, FileIsWritten(f), HistoryTyped'
    PROVE  HistoryInv'
  <1> USE DEF FileIsWritten
  <1>1. /\ file[f].stamp \in Nat /\ file[f].id \in Nat /\ file[f].lines \in Nat
        /\ file'[f].lines \in Nat /\ file'[f].id \in Nat
        /\ syncing.print.id \in Nat /\ syncing.print.stamp \in Nat
        /\ index[f].print.id \in Nat /\ index[f].print.stamp \in Nat
        /\ index[f].count \in Nat
        /\ saved[f].print.stamp \in Nat /\ memo[f].stamp \in Nat
    BY DEF HistoryInv, HistoryTyped, HistoryTypeOK, Stamps, Prints
  <1>2. Fingerprint(f)'.stamp = file[f].stamp + 1
    BY DEF Fingerprint
  <1>3. ASSUME NEW g \in Files \ {f}
        PROVE  /\ FileIsStamped(g)' /\ ScanIsOlder(g)' /\ SourceIsPrefix(g)' /\ KeptIsWritten(g)'
    <2>1. file'[g] = file[g] /\ Fingerprint(g)' = Fingerprint(g) /\ Content(g)' = Content(g)
      BY DEF Fingerprint, Content
    <2> QED BY <2>1 DEF HistoryInv, FileIsStamped, ScanIsOlder, SourceIsPrefix, KeptIsWritten
  <1>4. ScanIsOlder(f)'
    BY <1>1, <1>2 DEF HistoryInv, ScanIsOlder, FileIsStamped
  <1>5. SourceIsPrefix(f)'
    BY <1>1, <1>2 DEF HistoryInv, SourceIsPrefix, FileIsStamped
  <1>6. KeptIsWritten(f)'
    BY <1>1, <1>2 DEF HistoryInv, KeptIsWritten
  <1>7. ASSUME NEW r \in Readers PROVE HeldIsWritten(r)'
    <2>1. /\ HeldIsWritten(r) /\ reader[r].of \in Files
          /\ reader[r].stamp \in Nat /\ reader[r].print.stamp \in Nat
      BY DEF HistoryInv, HistoryTyped, Stamps, Prints
    <2>2. CASE reader[r].of = f
      <3>1. /\ reader[r].stamp <= file[f].stamp /\ reader[r].print.stamp <= file[f].stamp
        BY <2>1, <2>2 DEF HeldIsWritten
      <3>2. reader[r].stamp # file'[f].stamp /\ reader[r].print # Fingerprint(f)'
        BY <1>1, <1>2, <2>1, <3>1
      <3>3. reader[r].stamp <= file'[f].stamp /\ reader[r].print.stamp <= file'[f].stamp
        BY <1>1, <2>1, <3>1
      <3> QED BY <2>2, <3>2, <3>3 DEF HeldIsWritten
    <2>3. CASE reader[r].of # f
      <3>1. /\ file'[reader[r].of] = file[reader[r].of]
            /\ Fingerprint(reader[r].of)' = Fingerprint(reader[r].of)
            /\ Content(reader[r].of)' = Content(reader[r].of)
        BY <2>1, <2>3 DEF Fingerprint, Content
      <3> QED BY <2>1, <3>1 DEF HeldIsWritten
    <2> QED BY <2>2, <2>3
  <1>8. PageIsWhole' /\ CacheIsAccounted'
    BY DEF HistoryInv, PageIsWhole, CacheIsAccounted, Weight
  <1> QED BY <1>3, <1>4, <1>5, <1>6, <1>7, <1>8 DEF HistoryInv

-----------------------------------------------------------------------------
(* The index.                                                               *)

\* A step that leaves the files keeps what it does not touch.
LEMMA SameFiles ==
    ASSUME file' = file, NEW f \in Files
    PROVE  /\ Fingerprint(f)' = Fingerprint(f) /\ Content(f)' = Content(f)
           /\ FileIsStamped(f) => FileIsStamped(f)'
           /\ syncing' = syncing /\ ScanIsOlder(f) => ScanIsOlder(f)'
           /\ index'[f] = index[f] /\ SourceIsPrefix(f) => SourceIsPrefix(f)'
           /\ saved'[f] = saved[f] /\ memo'[f] = memo[f] /\ KeptIsWritten(f)
                 => KeptIsWritten(f)'
  BY DEF Fingerprint, Content, FileIsStamped, ScanIsOlder, SourceIsPrefix, KeptIsWritten

\* A request that is left alone keeps what it holds.
LEMMA SameReader ==
    ASSUME file' = file, NEW r \in Readers, reader'[r] = reader[r], HeldIsWritten(r)
    PROVE  HeldIsWritten(r)'
  BY DEF Fingerprint, Content, HeldIsWritten

\* A fingerprint is of its type, and sizes count half lines.
LEMMA PrintIs ==
    ASSUME HistoryTyped, NEW f \in Files, FileIsStamped(f)
    PROVE  /\ Fingerprint(f) \in Prints /\ Content(f) \in Contents
           /\ Fingerprint(f).id = file[f].id /\ Fingerprint(f).stamp = file[f].stamp
  <1>1. /\ file[f].lines \in 0..(MaxWrites + 1) /\ file[f].half \in BOOLEAN
        /\ file[f].id \in Stamps /\ file[f].stamp \in 0..(MaxWrites + 1)
        /\ file[f].lines + (IF file[f].half THEN 1 ELSE 0) <= file[f].stamp
    BY DEF HistoryTyped, HistoryTypeOK, FileIsStamped, Stamps
  <1>2. 2 * file[f].lines + (IF file[f].half THEN 1 ELSE 0) \in 0..(2 * MaxWrites + 2)
    BY <1>1, ExternalHistoryAssumption
  <1> QED BY <1>1, <1>2 DEF Fingerprint, Content, Prints, Contents, Stamps

\* The scan under way is of the file as it is when it begins.
LEMMA SyncLooksKeeps ==
    ASSUME HistoryInv, NEW f \in Files, SyncLooks(f)
    PROVE  HistoryInv'
  <1>1. /\ file' = file /\ index' = index /\ saved' = saved /\ memo' = memo
        /\ memoSize' = memoSize /\ lastRead' = lastRead /\ now' = now
        /\ reader' = reader /\ answer' = answer
        /\ syncing' = [of |-> f, print |-> Fingerprint(f)]
    BY DEF SyncLooks
  <1>2. Fingerprint(f) \in Prints
    BY PrintIs DEF HistoryInv
  <1>3. HistoryTyped'
    BY <1>1, <1>2 DEF HistoryInv, HistoryTyped, HistoryTypeOK
  <1>4. ASSUME NEW g \in Files
        PROVE  /\ FileIsStamped(g)' /\ ScanIsOlder(g)' /\ SourceIsPrefix(g)' /\ KeptIsWritten(g)'
    <2>1. ScanIsOlder(g)'
      <3>1. CASE g = f
        <4>1. file[f].id \in Nat /\ file[f].stamp \in Nat
          BY DEF HistoryInv, HistoryTyped, HistoryTypeOK, Stamps
        <4> QED BY <1>1, <3>1, <4>1, PrintIs, SameFiles DEF HistoryInv, ScanIsOlder
      <3>2. CASE g # f
        BY <1>1, <3>2 DEF ScanIsOlder
      <3> QED BY <3>1, <3>2
    <2> QED BY <1>1, <2>1, SameFiles DEF HistoryInv
  <1>5. \A r \in Readers : HeldIsWritten(r)'
    BY <1>1, SameReader DEF HistoryInv
  <1>6. PageIsWhole' /\ CacheIsAccounted'
    BY <1>1 DEF HistoryInv, PageIsWhole, CacheIsAccounted, Weight
  <1> QED BY <1>3, <1>4, <1>5, <1>6 DEF HistoryInv

\* The lines after the first n.
LEMMA LinesFrom ==
    ASSUME NEW id, NEW len \in Nat, NEW n \in Nat, n <= len
    PROVE  /\ Cardinality({id} \X ((n + 1)..len)) = len - n
           /\ ({id} \X (1..n)) \cup ({id} \X ((n + 1)..len)) = {id} \X (1..len)
  <1> DEFINE tail == (n + 1)..len
  <1>1. IsFiniteSet(tail) /\ Cardinality(tail) = len - n
    <2>1. n + 1 \in Int /\ len \in Int
      OBVIOUS
    <2>2. /\ IsFiniteSet((n + 1)..len)
          /\ Cardinality((n + 1)..len) = IF n + 1 > len THEN 0 ELSE len - (n + 1) + 1
      BY <2>1, FS_Interval
    <2> QED BY <2>2
  <1>2. IsFiniteSet({id}) /\ Cardinality({id}) = 1
    BY FS_Singleton
  <1>3. ({id} \X (1..n)) \cup ({id} \X tail) = {id} \X (1..len)
    OBVIOUS
  <1>4. Cardinality({id} \X tail) = 1 * (len - n)
    <2> HIDE DEF tail
    <2>1. Cardinality({id} \X tail) = Cardinality({id}) * Cardinality(tail)
      BY <1>1, <1>2, FS_Product
    <2> QED BY <1>1, <1>2, <2>1
  <1> QED BY <1>3, <1>4

\* Lines that are read are finitely many.
LEMMA LinesAreFinite ==
    ASSUME NEW id, NEW len \in Nat, NEW o,
           NEW read, read = {<<id, i>> : i \in {m \in 1..len : 2 * m > o}}
    PROVE  Cardinality(read) \in Nat
  <1>1. IsFiniteSet(1..len)
    BY FS_Interval
  <1>2. IsFiniteSet({id})
    BY FS_Singleton
  <1>3. IsFiniteSet({id} \X (1..len))
    BY <1>1, <1>2, FS_Product
  <1>4. read \subseteq {id} \X (1..len)
    OBVIOUS
  <1>5. IsFiniteSet(read)
    BY <1>3, <1>4, FS_Subset
  <1> QED BY <1>5, FS_CardinalityType

\* A scan that resumes finds the lines in front of its offset in the source;
\* one that was overtaken by a new file leaves a source that no look resumes.
LEMMA SyncScansKeeps ==
    ASSUME HistoryInv, NEW f \in Files, SyncScans(f)
    PROVE  HistoryInv'
  <1> DEFINE from == IF Resumes(f) THEN index[f] ELSE NoSource
             read == {<<file[f].id, n>> : n \in {m \in 1..file[f].lines : 2 * m > from.offset}}
             source == [print |-> syncing.print, offset |-> 2 * file[f].lines,
                        count |-> from.count + Cardinality(read),
                        lines |-> from.lines \cup read]
             IndexEntry == [print : Prints, offset : 0..(2 * MaxWrites + 2),
                        count : Nat, lines : SUBSET LineIds]
  <1>1. /\ syncing.of = f
        /\ index' = [index EXCEPT ![f] = source]
        /\ syncing' = [of |-> NoFile, print |-> NoPrint]
        /\ file' = file /\ saved' = saved /\ memo' = memo /\ memoSize' = memoSize
        /\ lastRead' = lastRead /\ now' = now /\ reader' = reader /\ answer' = answer
    BY DEF SyncScans
  <1>2. /\ file[f].lines \in 0..(MaxWrites + 1) /\ file[f].id \in Stamps
        /\ index[f] \in IndexEntry /\ syncing.print \in Prints
        /\ syncing.print.id \in Nat /\ index[f].print.id \in Nat
    BY DEF HistoryInv, HistoryTyped, HistoryTypeOK, Prints, Stamps
  <1>3. NoPrint \in Prints /\ NoSource \in IndexEntry
    BY ExternalHistoryAssumption DEF NoPrint, NoSource, Prints, Stamps
  <1>4. from \in IndexEntry
    BY <1>2, <1>3
  <1>5. source \in IndexEntry
    <2>4. file[f].lines \in Nat
      BY <1>2
    <2>1. Cardinality(read) \in Nat
      <3> DEFINE o == from.offset
      <3>1. read = {<<file[f].id, i>> : i \in {m \in 1..file[f].lines : 2 * m > o}}
        OBVIOUS
      <3> HIDE DEF read, o
      <3> QED BY <2>4, <3>1, LinesAreFinite
    <2>2. read \in SUBSET LineIds
      <3> HIDE DEF from
      <3> QED BY <1>2, ExternalHistoryAssumption DEF LineIds
    <2>3. 2 * file[f].lines \in 0..(2 * MaxWrites + 2)
      BY <1>2, ExternalHistoryAssumption
    <2> HIDE DEF read, from
    <2> QED BY <1>2, <1>4, <2>1, <2>2, <2>3
  <1>6. HistoryTyped'
    <2> HIDE DEF source
    <2>1. index' \in [Files -> IndexEntry]
      BY <1>1, <1>5 DEF HistoryInv, HistoryTyped, HistoryTypeOK
    <2>2. syncing' \in [of : Files \cup {NoFile}, print : Prints]
      BY <1>1, <1>3
    <2> QED BY <1>1, <2>1, <2>2 DEF HistoryInv, HistoryTyped, HistoryTypeOK
  <1>7. SourceIsPrefix(f)'
    <2>1. ScanIsOlder(f) /\ SourceIsPrefix(f)
      BY DEF HistoryInv
    <2>2. /\ syncing.print.id <= file[f].id /\ syncing.print.stamp <= file[f].stamp
      BY <1>1, <2>1 DEF ScanIsOlder
    <2>3. ASSUME syncing.print.id = file[f].id
          PROVE  /\ source.count = file[f].lines
                 /\ source.lines = {file[f].id} \X (1..file[f].lines)
      <3> DEFINE n == from.count
      <3>1. /\ n \in Nat /\ n <= file[f].lines /\ from.offset = 2 * n
            /\ from.lines = {file[f].id} \X (1..n)
        <4>1. CASE Resumes(f)
          BY <1>2, <2>1, <2>3, <4>1 DEF Resumes, SourceIsPrefix
        <4>2. CASE ~Resumes(f)
          <5>1. from = NoSource
            BY <4>2
          <5> QED BY <1>2, <5>1 DEF NoSource
        <4> QED BY <4>1, <4>2
      <3>2. read = {file[f].id} \X ((n + 1)..file[f].lines)
        <4>1. {m \in 1..file[f].lines : 2 * m > from.offset} = (n + 1)..file[f].lines
          <5> HIDE DEF n, from
          <5> QED BY <1>2, <3>1
        <4> QED BY <4>1
      <3>3. file[f].lines \in Nat
        BY <1>2
      <3>6. n \in Nat /\ n <= file[f].lines
        BY <3>1
      <3> HIDE DEF n, read
      <3>7. /\ Cardinality({file[f].id} \X ((n + 1)..file[f].lines)) = file[f].lines - n
            /\ ({file[f].id} \X (1..n)) \cup ({file[f].id} \X ((n + 1)..file[f].lines))
                  = {file[f].id} \X (1..file[f].lines)
        BY <3>3, <3>6, LinesFrom
      <3>4. /\ Cardinality(read) = file[f].lines - n
            /\ ({file[f].id} \X (1..n)) \cup read = {file[f].id} \X (1..file[f].lines)
        BY <3>2, <3>7
      <3>5. source.count = n + Cardinality(read) /\ source.lines = from.lines \cup read
        BY DEF n, read
      <3> HIDE DEF source, read, from
      <3> QED BY <3>1, <3>3, <3>4, <3>5
    <2>4. source.print = syncing.print /\ source.offset = 2 * file[f].lines
      OBVIOUS
    <2>5. index'[f] = source
      BY <1>1 DEF HistoryInv, HistoryTyped, HistoryTypeOK
    <2> HIDE DEF source
    <2> QED BY <1>1, <1>2, <2>2, <2>3, <2>4, <2>5 DEF SourceIsPrefix
  <1> HIDE DEF source
  <1>8. ASSUME NEW g \in Files
        PROVE  /\ FileIsStamped(g)' /\ ScanIsOlder(g)' /\ SourceIsPrefix(g)' /\ KeptIsWritten(g)'
    <2>1. SourceIsPrefix(g)'
      <3>1. CASE g = f
        BY <1>7, <3>1
      <3>2. CASE g # f
        <4>1. index'[g] = index[g]
          BY <1>1, <3>2 DEF HistoryInv, HistoryTyped, HistoryTypeOK
        <4> QED BY <1>1, <4>1, SameFiles DEF HistoryInv
      <3> QED BY <3>1, <3>2
    <2>2. ScanIsOlder(g)'
      <3>1. /\ syncing'.print.id = 0 /\ syncing'.print.stamp = 0
        BY <1>1 DEF NoPrint
      <3>2. /\ file[g].id \in Nat /\ file[g].stamp \in Nat /\ 1 <= file[g].stamp
        BY DEF HistoryInv, HistoryTyped, HistoryTypeOK, FileIsStamped, Stamps
      <3> QED BY <1>1, <3>1, <3>2 DEF ScanIsOlder
    <2> QED BY <1>1, <2>1, <2>2, SameFiles DEF HistoryInv
  <1>9. \A r \in Readers : HeldIsWritten(r)'
    BY <1>1, SameReader DEF HistoryInv
  <1>10. PageIsWhole' /\ CacheIsAccounted'
    BY <1>1 DEF HistoryInv, PageIsWhole, CacheIsAccounted, Weight
  <1> QED BY <1>6, <1>8, <1>9, <1>10 DEF HistoryInv

\* A source that was pruned is read from the start.
LEMMA PruneKeeps ==
    ASSUME HistoryInv, NEW f \in Files, Prune(f)
    PROVE  HistoryInv'
  <1> DEFINE none == [print |-> NoPrint, lines |-> Nothing]
  <1>1. /\ index' = [index EXCEPT ![f] = NoSource]
        /\ saved' = [saved EXCEPT ![f] = none]
        /\ file' = file /\ syncing' = syncing /\ memo' = memo /\ memoSize' = memoSize
        /\ lastRead' = lastRead /\ now' = now /\ reader' = reader /\ answer' = answer
    BY DEF Prune
  <1>2. /\ NoPrint \in Prints /\ none \in [print : Prints, lines : Contents]
        /\ NoSource \in [print : Prints, offset : 0..(2 * MaxWrites + 2),
                          count : Nat, lines : SUBSET LineIds]
        /\ NoSource.print = NoPrint /\ none.print = NoPrint
        /\ NoPrint.id = 0 /\ NoPrint.stamp = 0
    BY ExternalHistoryAssumption
       DEF NoPrint, NoSource, Nothing, Prints, Contents, Stamps
  <1> HIDE DEF none
  <1>3. HistoryTyped'
    BY <1>1, <1>2 DEF HistoryInv, HistoryTyped, HistoryTypeOK
  <1>4. ASSUME NEW g \in Files
        PROVE  /\ FileIsStamped(g)' /\ ScanIsOlder(g)' /\ SourceIsPrefix(g)' /\ KeptIsWritten(g)'
    <2>1. CASE g = f
      <3>1. /\ file[f].id \in Nat /\ file[f].stamp \in Nat /\ 1 <= file[f].stamp
            /\ 1 <= file[f].id
        BY DEF HistoryInv, HistoryTyped, HistoryTypeOK, FileIsStamped, Stamps
      <3>2. index'[f] = NoSource /\ saved'[f] = none /\ memo'[f] = memo[f]
        BY <1>1 DEF HistoryInv, HistoryTyped, HistoryTypeOK
      <3>3. Fingerprint(f).stamp = file[f].stamp /\ Fingerprint(f)' = Fingerprint(f)
            /\ Content(f)' = Content(f)
        BY <1>1, SameFiles, PrintIs DEF HistoryInv
      <3>4. SourceIsPrefix(f)'
        BY <1>1, <1>2, <3>1, <3>2 DEF SourceIsPrefix
      <3>5. KeptIsWritten(f)'
        BY <1>1, <1>2, <3>1, <3>2, <3>3 DEF KeptIsWritten, HistoryInv
      <3> QED BY <1>1, <2>1, <3>4, <3>5, SameFiles DEF HistoryInv
    <2>2. CASE g # f
      <3>1. index'[g] = index[g] /\ saved'[g] = saved[g] /\ memo'[g] = memo[g]
        BY <1>1, <2>2 DEF HistoryInv, HistoryTyped, HistoryTypeOK
      <3> QED BY <1>1, <3>1, SameFiles DEF HistoryInv
    <2> QED BY <2>1, <2>2
  <1>5. \A r \in Readers : HeldIsWritten(r)'
    BY <1>1, SameReader DEF HistoryInv
  <1>6. PageIsWhole' /\ CacheIsAccounted'
    BY <1>1 DEF HistoryInv, PageIsWhole, CacheIsAccounted, Weight
  <1> QED BY <1>3, <1>4, <1>5, <1>6 DEF HistoryInv

-----------------------------------------------------------------------------
(* Requests.                                                                *)

Request == [at : Places, op : Ops, of : Files, stamp : Stamps, print : Prints,
            got : Contents, tries : Nat, since : Contents]

\* What is to be shown of a step of one request.
LEMMA RequestKeeps ==
    ASSUME HistoryInv, NEW r \in Readers, file' = file, index' = index, syncing' = syncing,
           \A q \in Readers \ {r} : reader'[q] = reader[q] /\ answer'[q] = answer[q],
           HistoryTyped', \A f \in Files : KeptIsWritten(f)', HeldIsWritten(r)',
           reader'[r].at = "over" => answer'[r].total = answer'[r].page,
           CacheIsAccounted'
    PROVE  HistoryInv'
  <1>1. ASSUME NEW f \in Files
        PROVE  FileIsStamped(f)' /\ ScanIsOlder(f)' /\ SourceIsPrefix(f)'
    BY SameFiles DEF HistoryInv
  <1>2. ASSUME NEW q \in Readers PROVE HeldIsWritten(q)'
    BY SameReader DEF HistoryInv
  <1>3. PageIsWhole'
    BY DEF HistoryInv, PageIsWhole
  <1> QED BY <1>1, <1>2, <1>3 DEF HistoryInv

\* What a request knows of its file is not newer than the file.
LEMMA HeldIs ==
    ASSUME HistoryInv, NEW r \in Readers
    PROVE  LET f == reader[r].of IN
           /\ f \in Files /\ reader[r] \in Request
           /\ file[f].stamp \in Stamps /\ file[f].stamp \in Nat /\ 1 <= file[f].stamp
           /\ Fingerprint(f) \in Prints /\ Content(f) \in Contents
           /\ Fingerprint(f).stamp = file[f].stamp
           /\ saved[f] \in [print : Prints, lines : Contents]
           /\ saved[f].lines \in Contents
           /\ memo[f] \in [stamp : Stamps, lines : Contents, whole : BOOLEAN,
                            weight : 0..CacheLines]
           /\ memo[f].lines \in Contents /\ memo[f].weight \in Nat
           /\ FileIsStamped(f) /\ KeptIsWritten(f) /\ HeldIsWritten(r)
  <1>1. reader[r].of \in Files /\ reader[r] \in Request
    BY DEF HistoryInv, HistoryTyped, Request
  <1> QED BY <1>1, PrintIs DEF HistoryInv, HistoryTyped, HistoryTypeOK, FileIsStamped, Stamps

\* A request that returns has one content for its page and its total.
LEMMA ReturnKeeps ==
    ASSUME HistoryTyped, NEW r \in Readers, NEW c \in Contents, Returns(r, c)
    PROVE  /\ reader' \in [Readers -> Request]
           /\ answer' \in [Readers -> [total : Contents, page : Contents]]
           /\ answer'[r].total = answer'[r].page
           /\ \A q \in Readers \ {r} : reader'[q] = reader[q] /\ answer'[q] = answer[q]
           /\ reader'[r].at = "over" /\ reader'[r].of = reader[r].of
           /\ reader'[r].stamp = reader[r].stamp /\ reader'[r].print = reader[r].print
  <1>1. /\ reader \in [Readers -> Request]
        /\ answer \in [Readers -> [total : Contents, page : Contents]]
    BY DEF HistoryTyped, Request
  <1>2. "over" \in Places
    BY DEF Places
  <1>3. /\ reader' = [reader EXCEPT ![r].at = "over"]
        /\ answer' = [answer EXCEPT ![r] = [total |-> c, page |-> c]]
    BY DEF Returns
  <1>4. reader' \in [Readers -> Request] /\ reader'[r] = [reader[r] EXCEPT !.at = "over"]
    BY <1>1, <1>2, <1>3 DEF Request
  <1>5. reader[r] \in Request
    BY <1>1
  <1>6. /\ reader'[r].at = "over" /\ reader'[r].of = reader[r].of
        /\ reader'[r].stamp = reader[r].stamp /\ reader'[r].print = reader[r].print
    BY <1>4, <1>5 DEF Request
  <1>7. \A q \in Readers \ {r} : reader'[q] = reader[q]
    BY <1>1, <1>3
  <1>8. /\ answer' \in [Readers -> [total : Contents, page : Contents]]
        /\ answer'[r].total = answer'[r].page
        /\ \A q \in Readers \ {r} : answer'[q] = answer[q]
    BY <1>1, <1>3
  <1> QED BY <1>4, <1>6, <1>7, <1>8

\* A step that only a request notices keeps the types.
LEMMA RequestTypes ==
    ASSUME HistoryInv, UNCHANGED <<file, index, syncing, lastRead, now>>,
           saved' \in [Files -> [print : Prints, lines : Contents]],
           memo' \in [Files -> [stamp : Stamps, lines : Contents, whole : BOOLEAN,
                               weight : 0..CacheLines]],
           memoSize' \in Nat,
           reader' \in [Readers -> Request],
           answer' \in [Readers -> [total : Contents, page : Contents]]
    PROVE  HistoryTyped'
  <1>1. \A r \in Readers : reader'[r].at \in Places /\ reader'[r].op \in Ops
    BY DEF Request
  <1> QED BY <1>1 DEF HistoryInv, HistoryTyped, HistoryTypeOK, Request, Places, Ops

\* A step that leaves table and cache keeps what they say.
LEMMA TableKept ==
    ASSUME HistoryInv, file' = file, saved' = saved, memo' = memo, memoSize' = memoSize
    PROVE  /\ \A f \in Files : KeptIsWritten(f)'
           /\ CacheIsAccounted'
           /\ saved' \in [Files -> [print : Prints, lines : Contents]]
           /\ memo' \in [Files -> [stamp : Stamps, lines : Contents, whole : BOOLEAN,
                                   weight : 0..CacheLines]]
           /\ memoSize' \in Nat
  <1>1. \A f \in Files : KeptIsWritten(f)'
    BY SameFiles DEF HistoryInv
  <1>2. CacheIsAccounted'
    BY DEF HistoryInv, CacheIsAccounted, Weight
  <1> QED BY <1>1, <1>2 DEF HistoryInv, HistoryTyped, HistoryTypeOK

\* What is saved under the fingerprint of now is the content of now.
LEMMA LookInTableKeeps ==
    ASSUME HistoryInv, NEW r \in Readers, LookInTable(r)
    PROVE  HistoryInv'
  <1> DEFINE f == reader[r].of
             c == saved[f].lines
             print == Fingerprint(f)
  <1>1. /\ reader[r].at = "missed"
        /\ file' = file /\ index' = index /\ syncing' = syncing /\ saved' = saved
        /\ memo' = memo /\ memoSize' = memoSize /\ lastRead' = lastRead /\ now' = now
    BY DEF LookInTable
  <1>2. /\ reader[r] \in Request /\ print \in Prints /\ c \in Contents
        /\ print.stamp = file[f].stamp /\ file[f].stamp \in Nat
        /\ KeptIsWritten(f) /\ HeldIsWritten(r)
    BY HeldIs
  <1>3. /\ reader \in [Readers -> Request]
        /\ answer \in [Readers -> [total : Contents, page : Contents]]
    BY DEF HistoryInv, HistoryTyped, Request
  <1> DEFINE new == reader'[r]
  <1>5. /\ reader' \in [Readers -> Request]
        /\ answer' \in [Readers -> [total : Contents, page : Contents]]
        /\ \A q \in Readers \ {r} : reader'[q] = reader[q] /\ answer'[q] = answer[q]
        /\ new.of = f /\ new.stamp = reader[r].stamp
        /\ new.print \in {reader[r].print, print}
        /\ \/ new.at = "over" /\ answer'[r].total = answer'[r].page
           \/ new.at = "got" /\ new.got = c /\ saved[f].print = print
           \/ new.at = "parsing"
    <2>1. CASE saved[f].print = print /\ reader[r].op = "tail"
      <3>1. Returns(r, c)
        BY <2>1 DEF LookInTable
      <3> QED BY <1>2, <3>1, ReturnKeeps DEF HistoryInv
    <2>2. CASE saved[f].print = print /\ reader[r].op # "tail"
      <3>1. /\ reader' = [reader EXCEPT ![r].at = "got", ![r].got = c]
            /\ answer' = answer
        BY <2>2 DEF LookInTable
      <3>2. "got" \in Places
        BY DEF Places
      <3>3. /\ reader' \in [Readers -> Request]
            /\ new.at = "got" /\ new.got = c /\ new.of = f
            /\ new.stamp = reader[r].stamp /\ new.print = reader[r].print
        BY <1>2, <1>3, <3>1, <3>2 DEF Request
      <3>4. \A q \in Readers \ {r} : reader'[q] = reader[q]
        BY <1>3, <3>1
      <3> QED BY <1>3, <2>2, <3>1, <3>3, <3>4
    <2>3. CASE saved[f].print # print
      <3>1. /\ reader' = [reader EXCEPT ![r].at = "parsing", ![r].print = print]
            /\ answer' = answer
        BY <2>3 DEF LookInTable
      <3>2. "parsing" \in Places
        BY DEF Places
      <3>3. /\ reader' \in [Readers -> Request]
            /\ new.at = "parsing" /\ new.of = f
            /\ new.stamp = reader[r].stamp /\ new.print = print
        BY <1>2, <1>3, <3>1, <3>2 DEF Request
      <3>4. \A q \in Readers \ {r} : reader'[q] = reader[q]
        BY <1>3, <3>1
      <3> QED BY <1>3, <3>1, <3>3, <3>4
    <2> QED BY <2>1, <2>2, <2>3
  <1>4. Fingerprint(f)' = print /\ Content(f)' = Content(f)
    BY <1>1, <1>5 DEF Fingerprint, Content
  <1> HIDE DEF new
  <1>6. HistoryTyped'
    BY <1>1, <1>5, RequestTypes, TableKept
  <1>7. HeldIsWritten(r)'
    <2>1. /\ reader[r].stamp <= file[f].stamp /\ reader[r].print.stamp <= file[f].stamp
          /\ saved[f].print = print => c = Content(f)
      BY <1>2 DEF HeldIsWritten, KeptIsWritten
    <2>2. new.stamp <= file[f].stamp /\ new.print.stamp <= file[f].stamp
      BY <1>2, <1>5, <2>1
    <2> QED BY <1>1, <1>4, <1>5, <2>1, <2>2 DEF HeldIsWritten, new
  <1> QED BY <1>1, <1>5, <1>6, <1>7, RequestKeeps, TableKept DEF new

\* The content is read under the fingerprint taken before.
LEMMA ParseFileKeeps ==
    ASSUME HistoryInv, NEW r \in Readers, ParseFile(r)
    PROVE  HistoryInv'
  <1> DEFINE f == reader[r].of
             new == reader'[r]
  <1>1. /\ reader' = [reader EXCEPT ![r].at = "parsed", ![r].got = Content(f)]
        /\ file' = file /\ index' = index /\ syncing' = syncing /\ saved' = saved
        /\ memo' = memo /\ memoSize' = memoSize /\ lastRead' = lastRead /\ now' = now
        /\ answer' = answer
    BY DEF ParseFile
  <1>2. reader[r] \in Request /\ Content(f) \in Contents /\ HeldIsWritten(r)
    BY HeldIs
  <1>3. /\ reader \in [Readers -> Request]
        /\ answer \in [Readers -> [total : Contents, page : Contents]]
    BY DEF HistoryInv, HistoryTyped, Request
  <1>4. "parsed" \in Places
    BY DEF Places
  <1>5. /\ reader' \in [Readers -> Request]
        /\ new.at = "parsed" /\ new.got = Content(f) /\ new.of = f
        /\ new.stamp = reader[r].stamp /\ new.print = reader[r].print
    BY <1>1, <1>2, <1>3, <1>4 DEF Request
  <1>6. \A q \in Readers \ {r} : reader'[q] = reader[q] /\ answer'[q] = answer[q]
    BY <1>1, <1>3
  <1>9. file' = file /\ reader'[r].of = f
    BY <1>1, <1>5
  <1>10. Content(f)' = Content(f)
    BY <1>9 DEF Content
  <1> HIDE DEF new
  <1>7. HistoryTyped'
    BY <1>1, <1>3, <1>5, RequestTypes, TableKept
  <1>8. HeldIsWritten(r)'
    BY <1>1, <1>2, <1>5, <1>9, <1>10 DEF HeldIsWritten, new
  <1> QED BY <1>1, <1>5, <1>6, <1>7, <1>8, RequestKeeps, TableKept DEF new

\* What was parsed is saved only if the file is still the one looked at.
LEMMA SaveParsedKeeps ==
    ASSUME HistoryInv, NEW r \in Readers, SaveParsed(r)
    PROVE  HistoryInv'
  <1> DEFINE f == reader[r].of
             new == reader'[r]
             entry == [print |-> reader[r].print, lines |-> reader[r].got]
  <1>1. /\ reader[r].at = "parsed"
        /\ reader' = [reader EXCEPT ![r].at = "got"]
        /\ saved' = IF reader[r].print = Fingerprint(f) THEN [saved EXCEPT ![f] = entry] ELSE saved
        /\ file' = file /\ index' = index /\ syncing' = syncing
        /\ memo' = memo /\ memoSize' = memoSize /\ lastRead' = lastRead /\ now' = now
        /\ answer' = answer
    BY DEF SaveParsed
  <1>2. /\ f \in Files /\ reader[r] \in Request /\ HeldIsWritten(r) /\ KeptIsWritten(f)
        /\ Fingerprint(f).stamp = file[f].stamp /\ file[f].stamp \in Nat
    BY HeldIs
  <1>3. /\ reader \in [Readers -> Request]
        /\ answer \in [Readers -> [total : Contents, page : Contents]]
        /\ saved \in [Files -> [print : Prints, lines : Contents]]
    BY DEF HistoryInv, HistoryTyped, HistoryTypeOK, Request
  <1>4. "got" \in Places
    BY DEF Places
  <1>5. /\ reader' \in [Readers -> Request]
        /\ new.at = "got" /\ new.got = reader[r].got /\ new.of = f
        /\ new.stamp = reader[r].stamp /\ new.print = reader[r].print
    BY <1>1, <1>2, <1>3, <1>4 DEF Request
  <1>6. \A q \in Readers \ {r} : reader'[q] = reader[q] /\ answer'[q] = answer[q]
    BY <1>1, <1>3
  <1>7. /\ entry \in [print : Prints, lines : Contents]
        /\ entry.print = reader[r].print /\ entry.lines = reader[r].got
    BY <1>2 DEF Request
  <1>8. saved' \in [Files -> [print : Prints, lines : Contents]]
    <2> HIDE DEF entry
    <2> QED BY <1>1, <1>3, <1>7
  <1>14. file' = file /\ reader'[r].of = f
    BY <1>1, <1>5
  <1>15. Fingerprint(f)' = Fingerprint(f) /\ Content(f)' = Content(f)
    BY <1>14 DEF Fingerprint, Content
  <1> HIDE DEF new, entry
  <1>9. /\ memo' \in [Files -> [stamp : Stamps, lines : Contents, whole : BOOLEAN,
                                weight : 0..CacheLines]]
        /\ memoSize' \in Nat
    BY <1>1 DEF HistoryInv, HistoryTyped, HistoryTypeOK
  <1>10. HistoryTyped'
    BY <1>1, <1>3, <1>5, <1>8, <1>9, RequestTypes
  <1>11. HeldIsWritten(r)'
    BY <1>1, <1>2, <1>5, <1>14, <1>15 DEF HeldIsWritten, new
  <1>12. ASSUME NEW g \in Files PROVE KeptIsWritten(g)'
    <2>1. Fingerprint(g)' = Fingerprint(g) /\ Content(g)' = Content(g)
      BY <1>1 DEF Fingerprint, Content
    <2>2. KeptIsWritten(g)
      BY DEF HistoryInv
    <2>3. CASE saved'[g] = saved[g]
      BY <1>1, <2>1, <2>2, <2>3 DEF KeptIsWritten
    <2>4. CASE saved'[g] # saved[g]
      <3>1. g = f /\ saved'[f] = entry /\ reader[r].print = Fingerprint(f)
        BY <1>1, <1>3, <2>4
      <3>2. reader[r].got = Content(f)
        BY <1>1, <1>2, <3>1 DEF HeldIsWritten
      <3>3. saved'[f].lines = Content(f) /\ saved'[f].print.stamp = file[f].stamp
        BY <1>2, <1>7, <3>1, <3>2
      <3> QED BY <1>1, <1>2, <2>1, <2>2, <3>1, <3>3 DEF KeptIsWritten
    <2> QED BY <2>3, <2>4
  <1>13. CacheIsAccounted'
    BY <1>1 DEF HistoryInv, CacheIsAccounted, Weight
  <1> QED BY <1>1, <1>5, <1>6, <1>10, <1>11, <1>12, <1>13, RequestKeeps DEF new

\* The order of a page is that of the content of now, or the page starts anew.
LEMMA ListPageKeeps ==
    ASSUME HistoryInv, NEW r \in Readers, ListPage(r)
    PROVE  HistoryInv'
  <1> DEFINE f == reader[r].of
             print == Fingerprint(f)
             new == reader'[r]
  <1>1. /\ file' = file /\ index' = index /\ syncing' = syncing /\ saved' = saved
        /\ memo' = memo /\ memoSize' = memoSize /\ lastRead' = lastRead /\ now' = now
        /\ answer' = answer
    BY DEF ListPage
  <1>2. /\ reader[r] \in Request /\ print \in Prints /\ saved[f].lines \in Contents
        /\ print.stamp = file[f].stamp /\ file[f].stamp \in Nat /\ file[f].stamp \in Stamps
        /\ Content(f) \in Contents /\ KeptIsWritten(f) /\ HeldIsWritten(r)
    BY HeldIs
  <1>3. /\ reader \in [Readers -> Request]
        /\ answer \in [Readers -> [total : Contents, page : Contents]]
    BY DEF HistoryInv, HistoryTyped, Request
  <1>4. "listed" \in Places /\ "missed" \in Places /\ "full" \in Ops
    BY DEF Places, Ops
  <1>5. /\ reader' \in [Readers -> Request]
        /\ \A q \in Readers \ {r} : reader'[q] = reader[q]
        /\ new.of = f
        /\ \/ /\ new.at = "listed" /\ new.got = saved[f].lines /\ saved[f].print = print
              /\ new.stamp = reader[r].stamp /\ new.print = print
           \/ /\ new.at = "missed" /\ new.stamp = file[f].stamp
              /\ new.print = reader[r].print
    <2>1. CASE saved[f].print = print
      <3>1. reader' = [reader EXCEPT ![r].at = "listed", ![r].print = print,
                                     ![r].got = saved[f].lines]
        BY <2>1 DEF ListPage
      <3>2. \A q \in Readers \ {r} : reader'[q] = reader[q]
        BY <1>3, <3>1
      <3>3. /\ reader' \in [Readers -> Request]
            /\ new.at = "listed" /\ new.got = saved[f].lines /\ new.of = f
            /\ new.stamp = reader[r].stamp /\ new.print = print
        BY <1>2, <1>3, <1>4, <3>1 DEF Request
      <3> QED BY <2>1, <3>2, <3>3
    <2>2. CASE saved[f].print # print
      <3>1. reader' = [reader EXCEPT ![r].at = "missed", ![r].op = "full",
                          ![r].stamp = file[f].stamp, ![r].since = Content(f)]
        BY <2>2 DEF ListPage
      <3>2. \A q \in Readers \ {r} : reader'[q] = reader[q]
        BY <1>3, <3>1
      <3>3. /\ reader' \in [Readers -> Request]
            /\ new.at = "missed" /\ new.of = f
            /\ new.stamp = file[f].stamp /\ new.print = reader[r].print
        BY <1>2, <1>3, <1>4, <3>1 DEF Request
      <3> QED BY <3>2, <3>3
    <2> QED BY <2>1, <2>2
  <1>6. HistoryTyped'
    BY <1>1, <1>3, <1>5, RequestTypes, TableKept
  <1>7. file' = file /\ reader'[r].of = f
    BY <1>1, <1>5
  <1>8. Fingerprint(f)' = print /\ Content(f)' = Content(f)
    BY <1>7 DEF Fingerprint, Content
  <1> HIDE DEF new
  <1>9. HeldIsWritten(r)'
    <2>1. /\ reader[r].stamp <= file[f].stamp /\ reader[r].print.stamp <= file[f].stamp
          /\ saved[f].print = print => saved[f].lines = Content(f)
      BY <1>2 DEF HeldIsWritten, KeptIsWritten
    <2>2. new.stamp <= file[f].stamp /\ new.print.stamp <= file[f].stamp
      BY <1>2, <1>5, <2>1
    <2> QED BY <1>5, <1>7, <1>8, <2>1, <2>2 DEF HeldIsWritten, new
  <1>10. answer'[r] = answer[r] /\ \A q \in Readers \ {r} : answer'[q] = answer[q]
    BY <1>1
  <1>11. new.at # "over"
    BY <1>5
  <1> QED BY <1>1, <1>5, <1>6, <1>9, <1>10, <1>11, RequestKeeps, TableKept DEF new

\* A page is fetched if file and table are those it was listed from.
LEMMA FetchPageKeeps ==
    ASSUME HistoryInv, NEW r \in Readers, FetchPage(r)
    PROVE  HistoryInv'
  <1> DEFINE f == reader[r].of
             new == reader'[r]
             pair == [total |-> reader[r].got, page |-> saved[f].lines]
  <1>1. /\ file' = file /\ index' = index /\ syncing' = syncing /\ saved' = saved
        /\ memo' = memo /\ memoSize' = memoSize /\ lastRead' = lastRead /\ now' = now
        /\ reader[r].at = "listed"
    BY DEF FetchPage
  <1>2. /\ reader[r] \in Request /\ saved[f].lines \in Contents
        /\ KeptIsWritten(f) /\ HeldIsWritten(r)
    BY HeldIs
  <1>3. /\ reader \in [Readers -> Request]
        /\ answer \in [Readers -> [total : Contents, page : Contents]]
        /\ reader[r].tries \in Nat /\ reader[r].got \in Contents /\ reader[r].op \in Ops
    BY <1>2 DEF HistoryInv, HistoryTyped, Request
  <1>4. "over" \in Places /\ "idle" \in Places /\ "full" \in Ops
    BY DEF Places, Ops
  <1>5. /\ reader' \in [Readers -> Request]
        /\ answer' \in [Readers -> [total : Contents, page : Contents]]
        /\ \A q \in Readers \ {r} : reader'[q] = reader[q] /\ answer'[q] = answer[q]
        /\ new.of = f /\ new.stamp = reader[r].stamp /\ new.print = reader[r].print
        /\ \/ new.at = "over" /\ answer'[r].total = answer'[r].page
           \/ new.at = "idle"
    <2>1. CASE Fingerprint(f) = reader[r].print /\ saved[f].print = reader[r].print
      <3>1. reader' = [reader EXCEPT ![r].at = "over"] /\ answer' = [answer EXCEPT ![r] = pair]
        BY <2>1 DEF FetchPage
      <3>2. \A q \in Readers \ {r} : reader'[q] = reader[q]
        BY <1>3, <3>1
      <3>3. /\ reader' \in [Readers -> Request]
            /\ new.at = "over" /\ new.of = f
            /\ new.stamp = reader[r].stamp /\ new.print = reader[r].print
        BY <1>2, <1>3, <1>4, <3>1 DEF Request
      <3>4. reader[r].got = Content(f) /\ saved[f].lines = Content(f)
        BY <1>1, <1>2, <2>1 DEF HeldIsWritten, KeptIsWritten
      <3>5. /\ answer' \in [Readers -> [total : Contents, page : Contents]]
            /\ answer'[r].total = answer'[r].page
            /\ \A q \in Readers \ {r} : answer'[q] = answer[q]
        BY <1>2, <1>3, <3>1, <3>4
      <3> QED BY <3>2, <3>3, <3>5
    <2>2. CASE ~ (Fingerprint(f) = reader[r].print /\ saved[f].print = reader[r].print)
      <3> DEFINE op == IF reader[r].tries = 1 THEN "full" ELSE reader[r].op
                 tries == reader[r].tries + 1
      <3>1. /\ reader' = [reader EXCEPT ![r].at = "idle", ![r].tries = tries, ![r].op = op]
            /\ answer' = answer
        BY <1>3, <2>2 DEF FetchPage
      <3>2. op \in Ops /\ tries \in Nat
        BY <1>3, <1>4
      <3> HIDE DEF op, tries
      <3>3. \A q \in Readers \ {r} : reader'[q] = reader[q]
        BY <1>3, <3>1
      <3>4. /\ reader' \in [Readers -> Request]
            /\ new.at = "idle" /\ new.of = f
            /\ new.stamp = reader[r].stamp /\ new.print = reader[r].print
        BY <1>2, <1>3, <1>4, <3>1, <3>2 DEF Request
      <3> QED BY <1>3, <3>1, <3>3, <3>4
    <2> QED BY <2>1, <2>2
  <1>6. HistoryTyped'
    BY <1>1, <1>5, RequestTypes, TableKept
  <1>7. file' = file /\ reader'[r].of = f
    BY <1>1, <1>5
  <1> HIDE DEF new
  <1>8. HeldIsWritten(r)'
    BY <1>2, <1>5, <1>7 DEF HeldIsWritten, new
  <1> QED BY <1>1, <1>5, <1>6, <1>8, RequestKeeps, TableKept DEF new

\* An access of the cache counts.
LEMMA CacheTypes ==
    ASSUME HistoryInv, UNCHANGED <<file, index, syncing, saved>>,
           memo' \in [Files -> [stamp : Stamps, lines : Contents, whole : BOOLEAN,
                               weight : 0..CacheLines]],
           memoSize' \in Nat,
           NEW f \in Files,
           \/ UNCHANGED <<lastRead, now>>
           \/ lastRead' = [lastRead EXCEPT ![f] = now + 1] /\ now' = now + 1,
           reader' \in [Readers -> Request],
           answer' \in [Readers -> [total : Contents, page : Contents]]
    PROVE  HistoryTyped'
  <1>1. \A r \in Readers : reader'[r].at \in Places /\ reader'[r].op \in Ops
    BY DEF Request
  <1>2. lastRead' \in [Files -> Nat] /\ now' \in Nat
    <2>1. lastRead \in [Files -> Nat] /\ now \in Nat
      BY DEF HistoryInv, HistoryTyped, HistoryTypeOK
    <2> QED BY <2>1
  <1> QED BY <1>1, <1>2 DEF HistoryInv, HistoryTyped, HistoryTypeOK, Request, Places, Ops

\* An entry that is gone says nothing of the file.
LEMMA NoEntryIs ==
    /\ NoEntry \in [stamp : Stamps, lines : Contents, whole : BOOLEAN,
                    weight : 0..CacheLines]
    /\ NoEntry.stamp = 0 /\ NoEntry.weight = 0
  BY ExternalHistoryAssumption DEF NoEntry, Nothing, Stamps, Contents

\* What is cached under the modification time of now is the content of now;
\* an entry that does not serve leaves, with its weight.
LEMMA LookInCacheKeeps ==
    ASSUME HistoryInv, NEW r \in Readers, LookInCache(r)
    PROVE  HistoryInv'
  <1> DEFINE f == reader[r].of
             new == reader'[r]
             hit == memo[f] # NoEntry /\ memo[f].stamp = file[f].stamp
                       /\ (memo[f].whole \/ reader[r].op = "tail")
             Entry == [stamp : Stamps, lines : Contents, whole : BOOLEAN,
                       weight : 0..CacheLines]
  <1>1. /\ file' = file /\ index' = index /\ syncing' = syncing /\ saved' = saved
        /\ reader[r].at = "idle"
    BY DEF LookInCache
  <1>2. /\ f \in Files /\ reader[r] \in Request /\ memo[f] \in Entry
        /\ memo[f].lines \in Contents /\ memo[f].weight \in Nat
        /\ file[f].stamp \in Stamps /\ file[f].stamp \in Nat /\ 1 <= file[f].stamp
        /\ Content(f) \in Contents /\ KeptIsWritten(f) /\ HeldIsWritten(r)
    BY HeldIs
  <1>3. /\ reader \in [Readers -> Request]
        /\ answer \in [Readers -> [total : Contents, page : Contents]]
        /\ memo \in [Files -> Entry] /\ memoSize \in Nat
        /\ CacheIsAccounted
    BY DEF HistoryInv, HistoryTyped, HistoryTypeOK, Request
  <1>4. CASE hit
    <2>1. /\ Returns(r, memo[f].lines)
          /\ lastRead' = [lastRead EXCEPT ![f] = now + 1] /\ now' = now + 1
          /\ memo' = memo /\ memoSize' = memoSize
      BY <1>4 DEF LookInCache
    <2>2. /\ reader' \in [Readers -> Request]
          /\ answer' \in [Readers -> [total : Contents, page : Contents]]
          /\ answer'[r].total = answer'[r].page
          /\ \A q \in Readers \ {r} : reader'[q] = reader[q] /\ answer'[q] = answer[q]
          /\ new.at = "over" /\ new.of = f
          /\ new.stamp = reader[r].stamp /\ new.print = reader[r].print
      BY <1>2, <2>1, ReturnKeeps DEF HistoryInv
    <2>3. HistoryTyped'
      BY <1>1, <1>2, <1>3, <2>1, <2>2, CacheTypes
    <2>4. file' = file /\ reader'[r].of = f
      BY <1>1, <2>2
    <2> HIDE DEF new
    <2>5. HeldIsWritten(r)'
      BY <1>2, <2>2, <2>4 DEF HeldIsWritten, new
    <2> QED BY <1>1, <2>1, <2>2, <2>3, <2>5, RequestKeeps, TableKept
  <1>5. CASE ~hit
    <2>1. /\ reader' = [reader EXCEPT ![r].at = "missed", ![r].stamp = file[f].stamp,
                                      ![r].since = Content(f)]
          /\ memo' = [memo EXCEPT ![f] = NoEntry]
          /\ memoSize' = memoSize - memo[f].weight
          /\ lastRead' = lastRead /\ now' = now /\ answer' = answer
      BY <1>5 DEF LookInCache
    <2>2. "missed" \in Places
      BY DEF Places
    <2>3. /\ reader' \in [Readers -> Request]
          /\ new.at = "missed" /\ new.of = f
          /\ new.stamp = file[f].stamp /\ new.print = reader[r].print
      BY <1>2, <1>3, <2>1, <2>2 DEF Request
    <2>4. \A q \in Readers \ {r} : reader'[q] = reader[q] /\ answer'[q] = answer[q]
      BY <1>3, <2>1
    <2>5. /\ memo' \in [Files -> Entry] /\ memo'[f] = NoEntry
          /\ \A g \in Files \ {f} : memo'[g] = memo[g]
      BY <1>2, <1>3, <2>1, NoEntryIs
    <2>6. /\ Weight(memo', Files) = memoSize - memo[f].weight + 0
          /\ Weight(memo', Files) \in Nat
      <3>1. memo[f].weight \in 0..CacheLines /\ memo'[f].weight \in 0..CacheLines
            /\ memo'[f].weight = 0
        BY <1>2, <2>5, NoEntryIs, ExternalHistoryAssumption
      <3>2. \A g \in Files \ {f} : memo'[g].weight = memo[g].weight
        BY <2>5
      <3>3. Weight(memo', Files) = Weight(memo, Files) - memo[f].weight + memo'[f].weight
        BY <1>2, <3>1, <3>2, WeightOfChange
      <3>4. Weight(memo', Files) \in Nat
        BY LessWeighsLess
      <3> QED BY <1>3, <3>1, <3>3, <3>4 DEF CacheIsAccounted
    <2>7. /\ CacheIsAccounted' /\ memoSize' \in Nat
      <3>1. memoSize' = Weight(memo', Files) /\ memoSize' \in Nat
        BY <1>2, <1>3, <2>1, <2>6
      <3>2. memoSize' <= CacheLines
        BY <1>2, <1>3, <2>1, ExternalHistoryAssumption DEF CacheIsAccounted
      <3> QED BY <3>1, <3>2 DEF CacheIsAccounted, Weight
    <2>8. HistoryTyped'
      BY <1>1, <1>2, <1>3, <2>1, <2>3, <2>5, <2>7, CacheTypes
    <2>9. file' = file /\ reader'[r].of = f
      BY <1>1, <2>3
    <2> HIDE DEF new
    <2>10. HeldIsWritten(r)'
      <3>1. new.print.stamp <= file[f].stamp /\ new.stamp <= file[f].stamp
        BY <1>2, <2>3 DEF HeldIsWritten
      <3> QED BY <2>3, <2>9, <3>1 DEF HeldIsWritten, new
    <2>11. ASSUME NEW g \in Files PROVE KeptIsWritten(g)'
      <3>1. Fingerprint(g)' = Fingerprint(g) /\ Content(g)' = Content(g)
        BY <1>1 DEF Fingerprint, Content
      <3>2. KeptIsWritten(g)
        BY DEF HistoryInv
      <3>3. CASE g # f
        BY <1>1, <2>5, <3>1, <3>2, <3>3 DEF KeptIsWritten
      <3>4. CASE g = f
        <4>1. memo'[f].stamp = 0
          BY <2>5, NoEntryIs
        <4> QED BY <1>1, <1>2, <3>1, <3>2, <3>4, <4>1 DEF KeptIsWritten
      <3> QED BY <3>3, <3>4
    <2>12. answer'[r] = answer[r] /\ new.at # "over"
      BY <2>1, <2>3
    <2> QED BY <1>1, <2>3, <2>4, <2>7, <2>8, <2>10, <2>11, <2>12, RequestKeeps DEF new
  <1> QED BY <1>4, <1>5

\* What stays after an eviction weighs what was inserted, less what left.
LEMMA EvictionWeighs ==
    ASSUME NEW m, NEW n, NEW stay \in SUBSET Files,
           \A g \in stay : n[g].weight = m[g].weight,
           \A g \in Files \ stay : n[g].weight = 0
    PROVE  /\ Weight(n, Files) = Weight(m, stay) /\ Weight(m, stay) \in Nat
           /\ Weight(m, Files) = Weight(m, stay) + Weight(m, Files \ stay)
           /\ Weight(m, Files \ stay) \in Nat
  <1> DEFINE gone == Files \ stay
  <1>1. Files = stay \cup gone /\ stay \cap gone = {} /\ gone \in SUBSET Files
    OBVIOUS
  <1>2. Weight(n, stay) = Weight(m, stay)
    BY SameWeight
  <1>3. Weight(n, gone) = 0
    BY NoWeight
  <1> HIDE DEF gone
  <1>4. /\ Weight(m, stay) \in Nat /\ Weight(m, gone) \in Nat
        /\ Weight(m, Files) = Weight(m, stay) + Weight(m, gone)
    BY <1>1, WeightIsSum
  <1>5. Weight(n, Files) = Weight(n, stay) + Weight(n, gone)
    BY <1>1, WeightIsSum
  <1> QED BY <1>2, <1>3, <1>4, <1>5 DEF gone

\* The messages enter under the time read first, and what no longer fits leaves.
LEMMA RememberParsedKeeps ==
    ASSUME HistoryInv, NEW r \in Readers, RememberParsed(r)
    PROVE  HistoryInv'
  <1> DEFINE f == reader[r].of
             lines == reader[r].got
             new == reader'[r]
             fits == lines.lines <= CacheLines
             weight == IF fits THEN lines.lines ELSE CacheLines
             entry == [stamp |-> reader[r].stamp, lines |-> lines, whole |-> fits,
                       weight |-> weight]
             inserted == [memo EXCEPT ![f] = entry]
             newer(g) == {h \in Files : h = f \/ lastRead[h] >= lastRead[g]}
             stay == {g \in Files : g = f \/ Weight(inserted, newer(g)) <= CacheLines}
             Entry == [stamp : Stamps, lines : Contents, whole : BOOLEAN,
                       weight : 0..CacheLines]
  <1>1. /\ reader[r].at = "got"
        /\ memo' = [g \in Files |-> IF g \in stay THEN inserted[g] ELSE NoEntry]
        /\ memoSize' = memoSize - memo[f].weight + entry.weight
                           - Weight(inserted, Files \ stay)
        /\ lastRead' = [lastRead EXCEPT ![f] = now + 1] /\ now' = now + 1
        /\ Returns(r, lines)
        /\ file' = file /\ index' = index /\ syncing' = syncing /\ saved' = saved
    BY DEF RememberParsed
  <1>2. /\ f \in Files /\ reader[r] \in Request /\ memo[f].weight \in Nat
        /\ memo[f] \in Entry
        /\ file[f].stamp \in Nat /\ 1 <= file[f].stamp
        /\ KeptIsWritten(f) /\ HeldIsWritten(r)
    BY HeldIs
  <1>3. /\ memo \in [Files -> Entry] /\ memoSize \in Nat /\ CacheIsAccounted
        /\ lastRead \in [Files -> Nat]
    BY DEF HistoryInv, HistoryTyped, HistoryTypeOK
  <1>4. lines \in Contents /\ lines.lines \in Nat /\ reader[r].stamp \in Stamps
    BY <1>2 DEF Request, Contents
  <1>5. weight \in 0..CacheLines /\ fits \in BOOLEAN
    BY <1>4, ExternalHistoryAssumption
  <1>6. /\ entry \in Entry /\ entry.stamp = reader[r].stamp /\ entry.lines = lines
        /\ entry.weight = weight
    <2> HIDE DEF weight, fits, lines
    <2> QED BY <1>4, <1>5
  <1>7. /\ inserted \in [Files -> Entry] /\ inserted[f] = entry
        /\ \A g \in Files \ {f} : inserted[g] = memo[g]
    <2> HIDE DEF entry
    <2> QED BY <1>2, <1>3, <1>6
  <1>8. stay \in SUBSET Files /\ f \in stay
    BY <1>2
  <1>9. Weight(inserted, stay) <= CacheLines
    <2>1. inserted[f].weight \in 0..CacheLines
      BY <1>5, <1>6, <1>7
    <2>2. lastRead \in [Files -> Nat] /\ f \in Files
      BY <1>2, <1>3
    <2>3. stay = Staying(inserted, lastRead, f)
      BY DEF Staying, Newer
    <2> HIDE DEF inserted, f, stay
    <2> QED BY <2>1, <2>2, <2>3, NewestFit
  <1>10. Weight(inserted, Files) = memoSize - memo[f].weight + weight
    <2>1. /\ memo[f].weight \in 0..CacheLines /\ inserted[f].weight \in 0..CacheLines
          /\ inserted[f].weight = weight
      BY <1>2, <1>5, <1>6, <1>7
    <2>2. \A g \in Files \ {f} : inserted[g].weight = memo[g].weight
      BY <1>7
    <2>3. f \in Files
      BY <1>2
    <2> HIDE DEF inserted, weight, f
    <2>4. Weight(inserted, Files)
              = Weight(memo, Files) - memo[f].weight + inserted[f].weight
      BY <2>1, <2>2, <2>3, WeightOfChange
    <2> QED BY <1>3, <2>1, <2>4 DEF CacheIsAccounted
  <1>11. /\ \A g \in stay : memo'[g] = inserted[g]
         /\ \A g \in Files \ stay : memo'[g] = NoEntry
    <2> HIDE DEF stay, inserted
    <2> QED BY <1>1, <1>8
  <1> HIDE DEF stay, inserted, entry, weight, fits, lines
  <1>12. memo' \in [Files -> Entry]
    BY <1>1, <1>7, NoEntryIs
  <1>13. /\ Weight(memo', Files) = Weight(inserted, stay) /\ Weight(inserted, stay) \in Nat
         /\ Weight(inserted, Files) = Weight(inserted, stay) + Weight(inserted, Files \ stay)
         /\ Weight(inserted, Files \ stay) \in Nat
    <2>1. \A g \in stay : memo'[g].weight = inserted[g].weight
      BY <1>11
    <2>2. \A g \in Files \ stay : memo'[g].weight = 0
      BY <1>11, NoEntryIs
    <2> QED BY <1>8, <2>1, <2>2, EvictionWeighs
  <1>14. CacheIsAccounted' /\ memoSize' \in Nat
    <2>1. weight \in Nat
      BY <1>5, ExternalHistoryAssumption
    <2> DEFINE kept == Weight(inserted, stay)
               left == Weight(inserted, Files \ stay)
               all == Weight(inserted, Files)
               old == memo[f].weight
    <2>3. /\ memoSize' = memoSize - old + weight - left /\ all = memoSize - old + weight
          /\ all = kept + left /\ kept \in Nat /\ left \in Nat
          /\ memoSize \in Nat /\ old \in Nat
      BY <1>1, <1>2, <1>3, <1>6, <1>10, <1>13, Zenon
    <2>2. memoSize' = Weight(inserted, stay)
      <3>1. memoSize' = kept
        <4> HIDE DEF kept, left, all, old
        <4> QED BY <2>1, <2>3
      <3> QED BY <3>1
    <2> QED BY <1>9, <1>13, <2>2 DEF CacheIsAccounted, Weight
  <1>15. /\ reader' \in [Readers -> Request]
         /\ answer' \in [Readers -> [total : Contents, page : Contents]]
         /\ answer'[r].total = answer'[r].page
         /\ \A q \in Readers \ {r} : reader'[q] = reader[q] /\ answer'[q] = answer[q]
         /\ new.at = "over" /\ new.of = f
         /\ new.stamp = reader[r].stamp /\ new.print = reader[r].print
    BY <1>1, <1>4, ReturnKeeps DEF HistoryInv
  <1>16. HistoryTyped'
    BY <1>1, <1>2, <1>12, <1>14, <1>15, CacheTypes
  <1>17. file' = file /\ reader'[r].of = f
    BY <1>1, <1>15
  <1> HIDE DEF new
  <1>18. HeldIsWritten(r)'
    BY <1>2, <1>15, <1>17 DEF HeldIsWritten, new
  <1>19. ASSUME NEW g \in Files PROVE KeptIsWritten(g)'
    <2>1. Fingerprint(g)' = Fingerprint(g) /\ Content(g)' = Content(g)
      BY <1>1 DEF Fingerprint, Content
    <2>2. KeptIsWritten(g) /\ file[g].stamp \in Nat /\ 1 <= file[g].stamp
      BY DEF HistoryInv, HistoryTyped, HistoryTypeOK, FileIsStamped, Stamps
    <2>3. CASE memo'[g] = memo[g]
      BY <1>1, <2>1, <2>2, <2>3 DEF KeptIsWritten
    <2>4. CASE memo'[g] = NoEntry
      BY <1>1, <2>1, <2>2, <2>4, NoEntryIs DEF KeptIsWritten
    <2>5. CASE g = f
      <3>1. memo'[f].stamp = reader[r].stamp /\ memo'[f].lines = lines
        BY <1>6, <1>7, <1>8, <1>11
      <3>2. /\ reader[r].stamp <= file[f].stamp
            /\ reader[r].stamp = file[f].stamp => lines = Content(f)
        BY <1>1, <1>2 DEF HeldIsWritten, lines
      <3> QED BY <1>1, <2>1, <2>2, <2>5, <3>1, <3>2 DEF KeptIsWritten
    <2> QED BY <1>7, <1>11, <2>3, <2>4, <2>5
  <1> QED BY <1>1, <1>14, <1>15, <1>16, <1>18, <1>19, RequestKeeps DEF new

-----------------------------------------------------------------------------
(* The theorems.                                                            *)

\* What the table outlived a restart with is what the first files have.
LEMMA HistoryInitHolds == HistoryInit => HistoryInv
  <1> SUFFICES ASSUME HistoryInit PROVE HistoryInv
    OBVIOUS
  <1>1. /\ \A n \in {0, 1} : n \in Stamps /\ n \in 0..(MaxWrites + 1)
        /\ \A n \in {0, 1, 2} : n \in 0..(2 * MaxWrites + 2)
    BY ExternalHistoryAssumption DEF Stamps
  <1> DEFINE first == [id |-> 1, stamp |-> 1, size |-> 2]
             one == [id |-> 1, lines |-> 1]
  <1>2. /\ NoPrint \in Prints /\ Nothing \in Contents /\ first \in Prints
        /\ one \in Contents
        /\ NoSource \in [print : Prints, offset : 0..(2 * MaxWrites + 2),
                          count : Nat, lines : SUBSET LineIds]
    BY <1>1 DEF NoPrint, Nothing, NoSource, Prints, Contents
  <1>3. ASSUME NEW f \in Files
        PROVE  /\ file[f] = [lines |-> 1, half |-> FALSE, id |-> 1, stamp |-> 1]
               /\ index[f] = NoSource /\ memo[f] = NoEntry
               /\ saved[f] \in {[print |-> NoPrint, lines |-> Nothing],
                                 [print |-> first, lines |-> one]}
               /\ Fingerprint(f) = first /\ Content(f) = one
    BY DEF HistoryInit, Fingerprint, Content
  <1>4. ASSUME NEW r \in Readers
        PROVE  /\ reader[r] \in Request /\ reader[r].at = "idle"
               /\ reader[r].stamp = 0 /\ reader[r].print = NoPrint
               /\ reader[r].at \in Places /\ reader[r].op \in Ops
    <2>1. PICK op \in {"full", "tail", "page"}, f \in Files :
             reader[r] = [at |-> "idle", op |-> op, of |-> f, stamp |-> 0,
                          print |-> NoPrint, got |-> Nothing, tries |-> 0,
                          since |-> Nothing]
      BY DEF HistoryInit
    <2> QED BY <1>1, <1>2, <2>1 DEF Request, Places, Ops
  <1>5. HistoryTyped
    <2>1. HistoryTypeOK
      <3>1. file \in [Files -> [lines : 0..(MaxWrites + 1), half : BOOLEAN,
                               id : Stamps, stamp : Stamps]]
        BY <1>1 DEF HistoryInit
      <3>2. index \in [Files -> [print : Prints, offset : 0..(2 * MaxWrites + 2),
                                count : Nat, lines : SUBSET LineIds]]
        BY <1>2 DEF HistoryInit
      <3>3. syncing \in [of : Files \cup {NoFile}, print : Prints]
        BY <1>2 DEF HistoryInit
      <3>4. saved \in [Files -> [print : Prints, lines : Contents]]
        BY <1>2 DEF HistoryInit
      <3>5. memo \in [Files -> [stamp : Stamps, lines : Contents, whole : BOOLEAN,
                               weight : 0..CacheLines]]
        BY NoEntryIs DEF HistoryInit
      <3>6. lastRead \in [Files -> Nat] /\ now \in Nat
        BY DEF HistoryInit
      <3> QED BY <1>4, <3>1, <3>2, <3>3, <3>4, <3>5, <3>6 DEF HistoryTypeOK, Places, Ops
    <2>2. memoSize \in Nat
      BY DEF HistoryInit
    <2>3. reader \in [Readers -> Request]
      <3>1. reader \in [Readers -> {[at |-> "idle", op |-> op, of |-> f, stamp |-> 0,
                                    print |-> NoPrint, got |-> Nothing, tries |-> 0,
                                    since |-> Nothing] :
                                      op \in {"full", "tail", "page"}, f \in Files}]
        BY DEF HistoryInit
      <3> QED BY <1>4, <3>1
    <2>4. answer \in [Readers -> [total : Contents, page : Contents]]
      BY <1>2 DEF HistoryInit
    <2> QED BY <2>1, <2>2, <2>3, <2>4 DEF HistoryTyped, Request
  <1>6. NoPrint.id = 0 /\ NoPrint.stamp = 0 /\ first # NoPrint
    BY DEF NoPrint
  <1>7. ASSUME NEW f \in Files
        PROVE  FileIsStamped(f) /\ ScanIsOlder(f) /\ SourceIsPrefix(f) /\ KeptIsWritten(f)
    <2>1. FileIsStamped(f)
      BY <1>3 DEF FileIsStamped
    <2>2. ScanIsOlder(f)
      BY <1>3, <1>6 DEF ScanIsOlder, HistoryInit
    <2>3. SourceIsPrefix(f)
      BY <1>3, <1>6 DEF SourceIsPrefix, NoSource
    <2>4. KeptIsWritten(f)
      BY <1>3, <1>6, NoEntryIs DEF KeptIsWritten
    <2> QED BY <2>1, <2>2, <2>3, <2>4
  <1>8. ASSUME NEW r \in Readers PROVE HeldIsWritten(r)
    <2>1. file[reader[r].of].stamp = 1
      BY <1>3, <1>4 DEF Request
    <2> QED BY <1>4, <1>6, <2>1 DEF HeldIsWritten
  <1>9. PageIsWhole
    BY <1>4 DEF PageIsWhole
  <1>10. CacheIsAccounted
    <2>1. \A f \in Files : memo[f].weight = 0
      BY <1>3, NoEntryIs
    <2>2. Weight(memo, Files) = 0
      BY <2>1, NoWeight
    <2> QED BY <2>2, ExternalHistoryAssumption DEF CacheIsAccounted, HistoryInit
  <1> QED BY <1>5, <1>7, <1>8, <1>9, <1>10 DEF HistoryInv

\* Every step of the CLIs, the synchronization and the requests keeps the
\* invariant.
LEMMA HistoryNextKeeps == HistoryInv /\ [HistoryNext]_historyVars => HistoryInv'
  <1> SUFFICES ASSUME HistoryInv, [HistoryNext]_historyVars PROVE HistoryInv'
    OBVIOUS
  <1>1. CASE UNCHANGED historyVars
    <2>1. /\ file' = file /\ index' = index /\ syncing' = syncing /\ saved' = saved
          /\ memo' = memo /\ memoSize' = memoSize /\ lastRead' = lastRead /\ now' = now
          /\ reader' = reader /\ answer' = answer
      BY <1>1 DEF historyVars
    <2>2. HistoryTyped'
      BY <2>1 DEF HistoryInv, HistoryTyped, HistoryTypeOK
    <2>3. \A f \in Files : /\ FileIsStamped(f)' /\ ScanIsOlder(f)'
                           /\ SourceIsPrefix(f)' /\ KeptIsWritten(f)'
      BY <2>1, SameFiles DEF HistoryInv
    <2>4. \A r \in Readers : HeldIsWritten(r)'
      BY <2>1, SameReader DEF HistoryInv
    <2>5. PageIsWhole' /\ CacheIsAccounted'
      BY <2>1 DEF HistoryInv, PageIsWhole, CacheIsAccounted, Weight
    <2> QED BY <2>2, <2>3, <2>4, <2>5 DEF HistoryInv
  <1>2. ASSUME NEW f \in Files, WriteHalfLine(f) \/ WriteLine(f) \/ ReplaceFile(f)
        PROVE  HistoryInv'
    BY <1>2, WriteStep, WriteKeeps DEF HistoryInv
  <1>3. ASSUME NEW f \in Files, SyncLooks(f) PROVE HistoryInv'
    BY <1>3, SyncLooksKeeps
  <1>4. ASSUME NEW f \in Files, SyncScans(f) PROVE HistoryInv'
    BY <1>4, SyncScansKeeps
  <1>5. ASSUME NEW f \in Files, Prune(f) PROVE HistoryInv'
    BY <1>5, PruneKeeps
  <1>6. ASSUME NEW r \in Readers, LookInCache(r) PROVE HistoryInv'
    BY <1>6, LookInCacheKeeps
  <1>7. ASSUME NEW r \in Readers, LookInTable(r) PROVE HistoryInv'
    BY <1>7, LookInTableKeeps
  <1>8. ASSUME NEW r \in Readers, ParseFile(r) PROVE HistoryInv'
    BY <1>8, ParseFileKeeps
  <1>9. ASSUME NEW r \in Readers, SaveParsed(r) PROVE HistoryInv'
    BY <1>9, SaveParsedKeeps
  <1>10. ASSUME NEW r \in Readers, RememberParsed(r) PROVE HistoryInv'
    BY <1>10, RememberParsedKeeps
  <1>11. ASSUME NEW r \in Readers, ListPage(r) PROVE HistoryInv'
    BY <1>11, ListPageKeeps
  <1>12. ASSUME NEW r \in Readers, FetchPage(r) PROVE HistoryInv'
    BY <1>12, FetchPageKeeps
  <1> QED BY <1>1, <1>2, <1>3, <1>4, <1>5, <1>6, <1>7, <1>8, <1>9, <1>10, <1>11, <1>12
          DEF HistoryNext

\* The inductive invariant holds always.
LEMMA HistoryInvariance == HistorySpec => []HistoryInv
  <1> QED BY HistoryInitHolds, HistoryNextKeeps, PTL DEF HistorySpec

\* Files, sources, saved messages, cache entries and requests are of their
\* types.
THEOREM HistoryIsTyped == HistorySpec => []HistoryTypeOK
  <1>1. HistoryInv => HistoryTypeOK
    BY DEF HistoryInv, HistoryTyped
  <1> QED BY <1>1, HistoryInvariance, PTL

\* A source that is served without a scan counts every line once, messages
\* served without a parse are those of the file, the cache keeps its books and
\* its limit, and a page belongs to its total: for every number of files,
\* requests, writes and every size of the cache.
THEOREM HistoryIsServed == HistorySpec => []HistoryServed
  <1>1. HistoryInv => HistoryServed
    <2> SUFFICES ASSUME HistoryInv PROVE HistoryServed
      OBVIOUS
    <2>1. ASSUME NEW f \in Files, index[f].print = Fingerprint(f)
          PROVE  /\ index[f].count = file[f].lines
                 /\ index[f].lines = {file[f].id} \X (1..file[f].lines)
      <3>1. /\ index[f].print.id = file[f].id /\ index[f].print.stamp = file[f].stamp
        BY <2>1, PrintIs DEF HistoryInv
      <3>2. /\ index[f].offset = 2 * index[f].count
            /\ index[f].lines = {file[f].id} \X (1..index[f].count)
            /\ index[f].offset = 2 * file[f].lines
        BY <3>1 DEF HistoryInv, SourceIsPrefix
      <3>3. index[f].count \in Nat /\ file[f].lines \in Nat
        BY DEF HistoryInv, HistoryTyped, HistoryTypeOK
      <3>4. index[f].count = file[f].lines
        BY <3>2, <3>3
      <3> QED BY <3>2, <3>4
    <2>2. IndexCountsEveryLine
      BY <2>1 DEF IndexCountsEveryLine
    <2>3. ServedAsWritten
      BY DEF HistoryInv, KeptIsWritten, ServedAsWritten
    <2> QED BY <2>2, <2>3 DEF HistoryInv, HistoryServed
  <1> QED BY <1>1, HistoryInvariance, PTL
=============================================================================
