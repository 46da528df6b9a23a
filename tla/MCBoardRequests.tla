-------------------------- MODULE MCBoardRequests --------------------------
(* Two instances of BoardControl in one run: a fresh board of two chained   *)
(* cards that is paused, started and retried; and two boards of one project *)
(* whose first card is done, with every other request, the poller and a     *)
(* restart.                                                                 *)
EXTENDS MCBoardControl

\* The cards that an earlier worker has completed tell the instances apart.
Fresh == {}
HalfDone == {t1}

RequestsInit ==
    /\ \E completed \in {Fresh, HalfDone} :
          /\ disk = [b \in Boards |-> MoveAll(Blank, completed, "done")]
          /\ finished = [b \in Boards |-> completed]
    /\ owner = NoBoard /\ lock = Unlocked /\ starts = {}
    /\ poll = NoPoll /\ recovering = {} /\ crashes = 0
    /\ wboard = [w \in Workers |-> NoBoard]
    /\ pc = [w \in Workers |-> "idle"]
    /\ snap = [w \in Workers |-> Blank]
    /\ wtask = [w \in Workers |-> NoTask]

Work == \E w \in Workers : \/ Execute(w) \/ ProviderAnswers(w)
                           \/ RetryBlocker(w) \/ SaveStart(w)

PauseNext ==
    \/ PauseBoard(b1) \/ StartBoard(b1) \/ RetryAttentionTasks(b1)
    \/ ServeRequest(b1) \/ SaveEdit \/ Work

\* At most one control request per board.
ProjectNext ==
    \/ \E b \in Boards :
          \/ /\ disk[b].rev < 1
             /\ \/ StartBoard(b) \/ ScheduleBoard(b) \/ ClearBoardSchedule(b)
                \/ ScheduleNow(b) \/ RetryAttentionTasks(b)
                \/ StartBoardExecution(b)
                \/ \E t \in Tasks : PromoteTask(b, t) \/ DemoteTask(b, t)
          \/ RefuseStart(b)
          \/ PollArmsRetry(b) \/ PollRetries(b) \/ PollSchedule(b)
          \/ \E w \in Workers : RecoverBoard(b, w)
    \/ SaveEdit \/ PollSaves \/ Crash \/ Work

\* The steps of each instance.  Nobody works on b2 in the first one.
Focused == IF finished[b2] = Fresh THEN PauseNext ELSE ProjectNext

RequestsSpec == RequestsInit /\ [][Next]_vars
=============================================================================
