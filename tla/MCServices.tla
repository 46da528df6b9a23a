------------------------------ MODULE MCServices ------------------------------
(***************************************************************************)
(* Instances of the session services for TLC: the session registry and the *)
(* history that providers write.  They share no state, so a behaviour is   *)
(* about one of them: focus says which, and bounds what may happen in it.  *)
(***************************************************************************)
EXTENDS SessionRegistry, ExternalHistory, TLC

CONSTANTS s1, s2, h1, h2, f1, f2, r1, r2

\* h1 and h2 are two handlers of one request that replaces its source.
MCForkOf == [h \in Forks |-> [source |-> s1, request |-> "q", replace |-> TRUE]]

VARIABLE focus

-----------------------------------------------------------------------------
\* Two sessions, one of them cached; the same with footers and activations of
\* a clean thread; one session that is forked, and deleted after that; two
\* requests to fork it at once.
Plain == [on |-> "registry", use |-> {s1}, gone |-> {}, usage |-> {}, boards |-> {},
          behind |-> {}, restarts |-> 1]
RegistryInstances ==
    {[Plain EXCEPT !.use = {s1, s2}, !.gone = {s1}, !.usage = {s1}, !.boards = {s1}],
     [Plain EXCEPT !.use = {s1, s2}, !.gone = {s1}, !.boards = {s1}, !.behind = {s1},
                   !.restarts = 0],
     [Plain EXCEPT !.use = {s1, h1}, !.gone = {h1}],
     [Plain EXCEPT !.use = {s1, h1}, !.gone = {h1}, !.behind = {h1}, !.restarts = 0],
     [Plain EXCEPT !.use = {s1, h1, h2}, !.gone = {h1}, !.restarts = 0]}

RegistryBounded ==
    /\ \A s \in Ids :
          /\ stored'[s] # Absent => s \in focus.use
          /\ stored'[s].board => s \in focus.boards
          /\ usage'[s] # Absent => s \in focus.usage
          /\ deletion'[s] # "no" => s \in focus.gone
          /\ footer'[s].at # "no" => s \in focus.behind
          /\ drives'[s].at = "activating" => s \in focus.behind
    /\ \A h \in Forks : fork'[h].at # "none" => h \in focus.use

-----------------------------------------------------------------------------
\* Two readers of one file that grows; readers of two files and a small cache;
\* the index of one file that grows and is replaced.
HistoryInstances ==
    {[on |-> "history", files |-> {f1}, readers |-> Readers, writes |-> 1,
      index |-> FALSE],
     [on |-> "history", files |-> {f1, f2}, readers |-> Readers, writes |-> 0,
      index |-> FALSE],
     [on |-> "history", files |-> {f1}, readers |-> {}, writes |-> 3,
      index |-> TRUE]}

HistoryBounded ==
    /\ \A f \in Files : /\ file'[f] # file[f] => f \in focus.files
                        /\ file'[f].stamp <= focus.writes + 1
                        /\ index'[f].print # NoPrint => focus.index
                        /\ syncing'.of = f => focus.index /\ f \in focus.files
    /\ \A r \in Readers : reader'[r].at # "idle" =>
          r \in focus.readers

HistoryIdle == /\ HistoryInit
               /\ \A f \in Files : saved[f].print = NoPrint
               /\ \A r \in Readers : reader[r].op = "full" /\ reader[r].of = f1
\* Only the file and the readers of an instance vary.
HistoryStart == /\ HistoryInit
                /\ \A f \in Files \ focus.files : saved[f].print = NoPrint
                /\ \A r \in Readers : IF r \in focus.readers
                                       THEN reader[r].of \in focus.files
                                       ELSE reader[r].op = "full" /\ reader[r].of = f1
-----------------------------------------------------------------------------
MCInit ==
    \/ focus \in RegistryInstances /\ RegistryInit /\ HistoryIdle
    \/ focus \in HistoryInstances /\ HistoryStart /\ RegistryInit

MCNext ==
    \/ /\ focus.on = "registry" /\ restarts' \in restarts..focus.restarts
       /\ RegistryNext /\ RegistryBounded
       /\ UNCHANGED <<historyVars, focus>>
    \/ /\ focus.on = "history" /\ HistoryNext /\ HistoryBounded
       /\ UNCHANGED <<registryVars, focus>>

\* The types of both parts.
TypeOK == RegistryTypeOK /\ HistoryTypeOK

MCSpec == MCInit /\ [][MCNext]_<<registryVars, historyVars, focus>>
=============================================================================
