------------------------------ MODULE MCRollover ------------------------------
(***************************************************************************)
(* Instances of ContextRollover for TLC.  The chat starts with a turn that *)
(* is over, in the thread that turn made.  Each value of focus is a small  *)
(* instance: the calls and turns that may come, and the deaths.            *)
(***************************************************************************)
EXTENDS ContextRollover, TLC

CONSTANTS t1, t2, c1, c2, c3, c4

\* c1 and c2 repeat one request to retry, c3 is another, c4 compacts.
MCKind == [c \in Calls |-> IF c = c4 THEN "manual" ELSE "retry"]
MCRequest == [c \in Calls |-> IF c = c2 THEN c1 ELSE c]

VARIABLE focus

Instances == {[calls |-> {c1, c2}, turns |-> {}, deaths |-> 0],
              [calls |-> {c1, c3}, turns |-> {}, deaths |-> 0],
              [calls |-> {c1, c4}, turns |-> {}, deaths |-> 0],
              [calls |-> {c1}, turns |-> {t2}, deaths |-> 0],
              [calls |-> {c1}, turns |-> {}, deaths |-> 1]}

\* A chat whose newest turn is in its thread; late is a turn before it whose
\* provider was told to stop and still runs.
Chat(newest, status, late) ==
    /\ mode = [at |-> "up", deaths |-> MaxDeaths - focus.deaths, rows |-> {}]
    /\ row = [x \in Rows |->
                 [status |-> IF x = Turn(newest) THEN status
                             ELSE IF x \in late THEN "interrupted" ELSE "none",
                  thread |-> IF x = Turn(newest) THEN x ELSE NoThread,
                  tries |-> 0]]
    /\ born = SetToSeq(late) \o <<Turn(newest)>>
    /\ roll = [c \in Calls |-> [state |-> "none", candidate |-> NoThread,
                                from |-> NoThread]]
    /\ chat = [active |-> FALSE, thread |-> Turn(newest)]
    /\ said = [t \in Turns |-> IF Turn(t) \in late \cup {Turn(newest)}
                              THEN "kept" ELSE "none"]
    /\ call = [c \in Calls |-> [at |-> "none", turn |-> NoTurn, source |-> NoRow,
                                seen |-> {}, from |-> NoThread]]
    /\ task = [x \in Rows |-> [at |-> IF x \in late THEN "live" ELSE "none",
                               how |-> "none"]]
    /\ attached = NoRow
    /\ report = {} /\ aborting = {}
    /\ answered = IF status = "completed" THEN {Turn(newest)} ELSE {}
    /\ raced = {}

\* A failed turn, alone or after one that was superseded, and an idle chat.
MCInit ==
    \/ focus \in Instances /\ Chat(t1, "failed", {})
    \/ /\ focus = [calls |-> {c1}, turns |-> {}, deaths |-> 0]
       /\ Chat(t2, "failed", {Turn(t1)})
    \/ /\ focus = [calls |-> {c4}, turns |-> {t2}, deaths |-> 1]
       /\ Chat(t1, "completed", {})

MCNext ==
    /\ RollNext
    /\ \A c \in Calls : call'[c].at # "none" => c \in focus.calls
    /\ \A t \in Turns : said'[t] = said[t] \/ said[t] # "none" \/ t \in focus.turns
    /\ UNCHANGED focus
MCSpec == MCInit /\ [][MCNext]_<<rollVars, focus>>
MCFairSpec == MCSpec /\ RollFairness
=============================================================================
