------------------------------ MODULE MCTerminal ------------------------------
(***************************************************************************)
(* Instances of Terminal for TLC.  Processes, control and sessions are each *)
(* explored with the bounds of the others used up, so that the sizes of     *)
(* the instances add up instead of multiplying.                             *)
(***************************************************************************)
EXTENDS Terminal

CONSTANTS p1, p2, s1

Used(conns, cmds, evs) ==
    [connects |-> conns, commands |-> cmds, events |-> evs,
     spoken |-> {}, owned |-> {}]

\* The processes of ps are running and have closed their stderr; the stdout
\* reader of p is in state r(p) and its input writer in state c(p).  The others
\* are not started.
Running(k, ps, r(_), c(_)) ==
    /\ kind = [p \in Procs |-> IF p \in ps THEN k ELSE "none"]
    /\ child = [p \in Procs |-> IF p \in ps THEN "alive" ELSE "none"]
    /\ listed = ps
    /\ reader = [p \in Procs |->
                    [s \in Streams |-> IF p \notin ps THEN Off
                                     ELSE IF s = "stdout" THEN r(p)
                                     ELSE IF s \in StreamsOf(k) THEN Done
                                     ELSE Off]]
    /\ control = [p \in Procs |-> IF p \in ps THEN c(p) ELSE "off"]
    /\ stage = [p \in Procs |-> IF p \in ps THEN "waiting" ELSE "none"]

Reading(p) == Idle
Silent(p) == Done
Ended(p) == "ended"
Served(p) == "on"
NotStarted == Running("pipe", {}, Silent, Ended)

\* A process that nobody watches, and all its controls.
Unwatched == NotStarted /\ counts = Used(MaxConnects, 0, MaxSessionEvents)
\* A process whose input is no longer served, and a client that subscribes.
Watched == /\ \E k \in Kinds : Running(k, {p1}, Reading, Ended)
           /\ counts = Used(0, MaxCommands - 1, MaxSessionEvents)
\* A process that has closed its output, and a client that types.
Typed == /\ \E k \in Kinds : Running(k, {p1}, Silent, Served)
         /\ counts = Used(0, MaxCommands - 1, MaxSessionEvents)
\* Two processes that have closed their output; a client types to p2, which has
\* not read what it was sent.
Stalled == /\ Running("pipe", {p1, p2}, Silent,
                      LAMBDA p : IF p = p1 THEN "ended" ELSE "on")
           /\ counts = Used(0, MaxCommands - 1, MaxSessionEvents)
\* Sessions, boards and two subscriptions.
Filtered == NotStarted /\ counts = Used(0, 0, 0)

VARIABLE focus

\* What the client does in each instance.
FocusedClient ==
    /\ conn' = "deaf" => focus = "filtered"
    /\ boards' # boards => focus = "filtered"
    /\ killed' # killed => focus \in {"unwatched", "typed"}
    /\ kind'[p2] = kind[p2]
    /\ focus = "stalled" => /\ holder'[p1] = holder[p1]
                            /\ \A p \in Procs : ending'[p] # "failed"
                            /\ Len(inbox'[p2]) > Len(inbox[p2]) => stalled # {}
    /\ focus \in {"filtered", "stalled"} => kind' = kind
    /\ focus = "typed" => /\ holder' = holder
                          /\ \A p \in Procs : ending'[p] # "failed"
    /\ focus = "watched" => ~\E i \in DOMAIN events' : events'[i].type = "failed"
    /\ \A c \in ToSet(commands') \ ToSet(commands) :
          /\ focus = "watched" => /\ c.op = "subscribe" /\ c.procs \subseteq {p1}
                                 /\ c.boards = {} /\ c.chats = EveryChat
          /\ focus = "typed" => c.op # "subscribe"
          /\ focus \notin {"watched", "typed"} /\ c.op = "subscribe" => c.procs = {}
          /\ c.op = "control" => c.proc = IF focus = "stalled" THEN p2 ELSE p1
          /\ focus = "stalled" => c.op = "control"

MCInit ==
    /\ \/ focus = "unwatched" /\ Unwatched
       \/ focus = "watched" /\ Watched
       \/ focus = "typed" /\ Typed
       \/ focus = "stalled" /\ Stalled
       \/ focus = "filtered" /\ Filtered
    /\ boards = IF focus = "filtered" THEN {} ELSE Sessions
    /\ holder = [p \in Procs |-> FALSE]
    /\ gate = [p \in Procs |-> TRUE]
    /\ inbox = [p \in Procs |-> IF focus = "stalled" /\ p = p2 THEN <<"input">>
                                ELSE <<>>]
    /\ stalled = {}
    /\ killed = [p \in Procs |-> FALSE]
    /\ ending = [p \in Procs |-> "none"]
    /\ made = [p \in Procs |-> 0]
    /\ buffer = [p \in Procs |-> <<>>]
    /\ kept = [p \in Procs |-> {}]
    /\ events = <<>> /\ lagged = FALSE
    /\ conn = "closed"
    /\ hubq = <<>> /\ missed = FALSE
    /\ direct = <<>> /\ commands = <<>>
    /\ boardSubs = {} /\ chatSubs = EveryChat
    /\ got = {} /\ gap = FALSE
    /\ old = [p \in Procs |-> {}]

MCNext == Next /\ FocusedClient /\ UNCHANGED focus
MCSpec == MCInit /\ [][MCNext]_<<vars, focus>>
MCFairSpec == MCSpec /\ Fairness
=============================================================================
