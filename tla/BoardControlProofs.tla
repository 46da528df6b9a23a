-------------------------- MODULE BoardControlProofs --------------------------
(***************************************************************************)
(* Proofs about BoardControl, for any number of boards, cards, workers,    *)
(* requests and restarts.  The operators that change a copy of a board are *)
(* shown to be sound one by one; then the ways a step uses a copy (an edit *)
(* under the lock, a poll, a worker's load, a worker's save) are shown to  *)
(* keep the invariant, once each; then every action is one of these.       *)
(***************************************************************************)
EXTENDS BoardControl, TLAPS

\* e is a board, and shows no card as done that d does not.
Sound(d, e) == e \in Board /\ In(e, "done") \subseteq In(d, "done")

\* Sound changes of a copy compose.
LEMMA SoundTransitive ==
    ASSUME NEW d, NEW e, NEW f, Sound(d, e), Sound(e, f)
    PROVE  Sound(d, f)
BY DEF Sound

\* Moving cards anywhere but to done is sound.
LEMMA SoundMoveAll ==
    ASSUME NEW d \in Board, NEW T, NEW value \in TaskStatuses \ {"done"}
    PROVE  Sound(d, MoveAll(d, T, value))
BY DEF Sound, MoveAll, In, Board, TaskStatuses

\* What changes control fields only is sound.
LEMMA SoundControl ==
    ASSUME NEW d \in Board, NEW e \in Board, e.task = d.task
    PROVE  Sound(d, e)
BY DEF Sound, In

\* Halting a board changes no card.
LEMMA HaltType ==
    ASSUME NEW d \in Board, NEW value \in BoardStatuses
    PROVE  Halt(d, value) \in Board /\ Halt(d, value).task = d.task
BY DEF Halt, Board

\* Halting a board is sound.
LEMMA SoundHalt ==
    ASSUME NEW d \in Board, NEW value \in BoardStatuses
    PROVE  Sound(d, Halt(d, value))
BY HaltType, SoundControl

\* A new revision is sound, and one higher.
LEMMA SoundBump ==
    ASSUME NEW d \in Board
    PROVE  Sound(d, Bump(d)) /\ Bump(d).rev = d.rev + 1
BY DEF Sound, In, Bump, Board

\* Reconciling a loaded board completes no card and starts none out of order.
LEMMA SoundReconcile ==
    ASSUME NEW d \in Board
    PROVE  Sound(d, Reconcile(d))
BY SoundMoveAll DEF Reconcile, TaskStatuses

\* Settling a pause completes no card and starts none out of order.
LEMMA SoundSettlePause ==
    ASSUME NEW d \in Board
    PROVE  Sound(d, SettlePause(d))
<1> DEFINE e == MoveAll(d, In(d, "in_progress") \cap {d.cur}, "todo")
           f == Halt(e, "paused")
<1>1. Sound(d, e)
  BY SoundMoveAll DEF TaskStatuses
<1>2. Sound(e, f)
  BY <1>1, SoundHalt DEF Sound, BoardStatuses
<1>3. Sound(f, [f EXCEPT !.pause = FALSE, !.cur = NoTask])
  <2> SUFFICES ASSUME NEW g \in Board
               PROVE  Sound(g, [g EXCEPT !.pause = FALSE, !.cur = NoTask])
    BY <1>2 DEF Sound
  <2> QED BY DEF Sound, In, Board
<1> QED BY <1>1, <1>2, <1>3, SoundTransitive DEF SettlePause

\* Requesting a pause completes no card and starts none out of order.
LEMMA SoundRequestPause ==
    ASSUME NEW d \in Board
    PROVE  Sound(d, RequestPause(d))
<1>1. Sound(d, Bump(d)) /\ Bump(d) \in Board
  BY SoundBump DEF Sound
<1>2. ASSUME NEW g \in Board
      PROVE  Sound(g, [g EXCEPT !.status = "pausing", !.active = TRUE,
                                !.pause = TRUE])
  BY DEF Sound, In, Board, BoardStatuses
<1>3. Sound(Bump(d), SettlePause(Bump(d)))
  BY <1>1, SoundSettlePause
<1> QED BY <1>1, <1>2, <1>3, SoundTransitive DEF RequestPause

\* Preparing a resume completes no card and starts none out of order.
LEMMA SoundPrepareResume ==
    ASSUME NEW d \in Board
    PROVE  Sound(d, PrepareResume(d))
<1>1. Sound(d, Bump(d)) /\ Bump(d) \in Board
  BY SoundBump DEF Sound
<1>2. ASSUME NEW g \in Board
      PROVE  Sound(g, [g EXCEPT !.status = "running", !.active = TRUE,
                                !.pause = FALSE, !.sched = FALSE])
  BY DEF Sound, In, Board, BoardStatuses
<1> QED BY <1>1, <1>2, SoundTransitive DEF PrepareResume

\* Marking a board started completes no card and starts none out of order.
LEMMA SoundMarkStarted ==
    ASSUME NEW d \in Board
    PROVE  Sound(d, MarkStarted(d))
<1>1. Sound(d, PrepareResume(d)) /\ PrepareResume(d) \in Board
  BY SoundPrepareResume DEF Sound
<1>2. ASSUME NEW g \in Board
      PROVE  Sound(g, [g EXCEPT !.loop = TRUE])
  BY DEF Sound, In, Board
<1> QED BY <1>1, <1>2, SoundTransitive DEF MarkStarted

\* Cancelling a board completes no card and starts none out of order.
LEMMA SoundCancel ==
    ASSUME NEW d \in Board
    PROVE  Sound(d, Cancel(d))
<1> DEFINE e == MoveAll(Bump(d), In(d, "in_progress"), "todo")
           f == Halt(e, "cancelled")
<1>1. Sound(d, Bump(d)) /\ Bump(d) \in Board
  BY SoundBump DEF Sound
<1>2. Sound(Bump(d), e) /\ e \in Board
  BY <1>1, SoundMoveAll DEF TaskStatuses, Sound
<1>3. Sound(e, f) /\ f \in Board
  BY <1>2, SoundHalt DEF Sound, BoardStatuses
<1>4. ASSUME NEW g \in Board
      PROVE  Sound(g, [g EXCEPT !.cur = NoTask, !.call = FALSE])
  BY DEF Sound, In, Board
<1> QED BY <1>1, <1>2, <1>3, <1>4, SoundTransitive DEF Cancel

\* Marking a board scheduled completes no card and starts none out of order.
LEMMA SoundMarkScheduled ==
    ASSUME NEW d \in Board
    PROVE  Sound(d, MarkScheduled(d))
<1>1. Sound(d, Bump(d)) /\ Bump(d) \in Board
  BY SoundBump DEF Sound
<1>2. ASSUME NEW g \in Board
      PROVE  Sound(g, [g EXCEPT !.status = "scheduled", !.sched = TRUE,
                                !.pause = FALSE, !.call = FALSE])
  BY DEF Sound, In, Board, BoardStatuses
<1> QED BY <1>1, <1>2, SoundTransitive DEF MarkScheduled

\* Dropping a schedule completes no card and starts none out of order.
LEMMA SoundDropSchedule ==
    ASSUME NEW d \in Board
    PROVE  Sound(d, DropSchedule(d))
<1>1. Sound(d, Bump(d)) /\ Bump(d) \in Board
  BY SoundBump DEF Sound
<1>2. Sound(Bump(d), Halt(Bump(d), "paused")) /\ Halt(Bump(d), "paused") \in Board
  BY <1>1, SoundHalt DEF Sound, BoardStatuses
<1>3. ASSUME NEW g \in Board
      PROVE  /\ Sound(g, [g EXCEPT !.sched = FALSE, !.pause = FALSE])
             /\ Sound(g, [g EXCEPT !.sched = FALSE])
  BY DEF Sound, In, Board
<1> QED BY <1>1, <1>2, <1>3, SoundTransitive DEF DropSchedule

\* Requesting a retry completes no card and starts none out of order.
LEMMA SoundRequestRetry ==
    ASSUME NEW d \in Board, NEW T
    PROVE  Sound(d, RequestRetry(d, T))
<1>1. Sound(d, MoveAll(d, T, "todo")) /\ MoveAll(d, T, "todo") \in Board
  BY SoundMoveAll DEF Sound, TaskStatuses
<1>2. ASSUME NEW g \in Board
      PROVE  Sound(g, [g EXCEPT !.status = "running", !.active = TRUE,
                                !.loop = FALSE])
  BY DEF Sound, In, Board, BoardStatuses
<1> QED BY <1>1, <1>2, SoundTransitive DEF RequestRetry

\* Arming a retry completes no card and starts none out of order.
LEMMA SoundArmRetry ==
    ASSUME NEW d \in Board, NEW b
    PROVE  Sound(d, ArmRetry(b, d))
<1>1. ASSUME NEW v \in BOOLEAN
      PROVE  Sound(d, [d EXCEPT !.retry = v])
  BY DEF Sound, In, Board
<1>2. Sound(d, d)
  BY DEF Sound
<1>3. (d.tries < MaxRetries) \in BOOLEAN
  BY BoardControlAssumption DEF Board
<1> QED BY <1>1, <1>2, <1>3 DEF ArmRetry

\* Concluding a board completes no card and starts none out of order.
LEMMA SoundConclude ==
    ASSUME NEW d \in Board
    PROVE  Sound(d, Conclude(d))
<1> DEFINE e == MoveAll(d, In(d, "todo"), "waiting")
<1>1. Sound(d, e) /\ e \in Board
  BY SoundMoveAll DEF Sound, TaskStatuses
<1>2. /\ Sound(e, Halt(e, "blocked"))
      /\ Sound(d, Halt(d, "blocked"))
      /\ Sound(d, Halt(d, "completed")) /\ Halt(d, "completed") \in Board
      /\ Sound(d, Halt(d, "paused"))
  BY <1>1, SoundHalt, HaltType DEF BoardStatuses
<1>3. ASSUME NEW g \in Board
      PROVE  Sound(g, [g EXCEPT !.cur = NoTask])
  BY DEF Sound, In, Board
<1>4. Sound(d, [Halt(d, "completed") EXCEPT !.cur = NoTask])
  BY <1>2, <1>3, SoundTransitive
<1> QED BY <1>1, <1>2, <1>4, SoundTransitive DEF Conclude

\* save_board merges two boards into a board whose revision is not older than
\* the file's and whose done cards are done in one of the two.
LEMMA PreserveMerges ==
    ASSUME NEW run \in Board, NEW current \in Board,
           NEW m, m = PreserveNewerControlState(run, current)
    PROVE  /\ m \in Board
           /\ m.rev >= current.rev
           /\ In(m, "done") \subseteq In(run, "done") \cup In(current, "done")
<1> DEFINE control == [run EXCEPT
                      !.rev = current.rev, !.status = current.status,
                      !.active = current.active, !.loop = current.loop,
                      !.pause = current.pause, !.sched = current.sched]
           stopped == In(run, "in_progress") \ In(current, "in_progress")
           tasks == [t \in Tasks |-> IF t \in stopped THEN current.task[t]
                                     ELSE control.task[t]]
           halted == [control EXCEPT !.cur = current.cur,
                                     !.call = current.call, !.task = tasks]
<1>1. CASE current.rev <= run.rev
  BY <1>1 DEF PreserveNewerControlState, Board
<1>2. control \in Board /\ control.rev = current.rev /\ control.task = run.task
  BY DEF Board
<1>3. CASE ~(current.rev <= run.rev)
             /\ current.status \notin {"paused", "pausing", "cancelled"}
  <2>1. m = control
    BY <1>3 DEF PreserveNewerControlState
  <2> HIDE DEF control
  <2> QED BY <2>1, <1>2 DEF Board, In
<1>4. CASE ~(current.rev <= run.rev)
             /\ current.status \in {"paused", "pausing", "cancelled"}
  <2>1. m = [control EXCEPT
                 !.cur = current.cur, !.call = current.call,
                 !.task = [t \in Tasks |-> IF t \in stopped
                                           THEN current.task[t] ELSE @[t]]]
    BY <1>4 DEF PreserveNewerControlState
  <2> HIDE DEF control, stopped
  <2>2. tasks \in [Tasks -> TaskStatuses]
    BY <1>2 DEF Board
  <2>3. m = halted
    BY <2>1
  <2>4. halted \in Board /\ halted.rev = current.rev /\ halted.task = tasks
    BY <1>2, <2>2 DEF Board
  <2> HIDE DEF halted
  <2>5. In(halted, "done") \subseteq In(run, "done") \cup In(current, "done")
    BY <1>2, <2>4 DEF In
  <2> QED BY <2>3, <2>4, <2>5 DEF Board
<1> QED BY <1>1, <1>3, <1>4

-----------------------------------------------------------------------------
(* The ways a step uses a copy of a board.                                  *)

\* A board before it exists, with nothing done.
LEMMA BlankType == Blank \in Board /\ In(Blank, "done") = {}
BY DEF Blank, Board, BoardStatuses, TaskStatuses, In

\* The editor that holds no lock.
LEMMA UnlockedType ==
    /\ Unlocked \in [board : Boards \cup {NoBoard}, image : Board,
                     next : {"none", "start", "spawn"},
                     by : Workers \cup {NoWorker}]
    /\ Unlocked.board = NoBoard /\ Unlocked.by = NoWorker
    /\ Unlocked.next = "none"
BY BlankType DEF Unlocked

\* The poller that holds no copy.
LEMMA NoPollType ==
    /\ NoPoll \in [board : Boards \cup {NoBoard}, image : Board,
                   start : BOOLEAN]
    /\ NoPoll.board = NoBoard
BY BlankType DEF NoPoll

\* A handler holds the lock with a sound copy of the file.
LEMMA EditStep ==
    ASSUME IInv, NEW b \in Boards, NEW image, Sound(disk[b], image),
           NEW next \in {"none", "start"}, Edit(b, image, next),
           UNCHANGED owner
    PROVE  IInv'
<1> USE DEF IInv, Edit, workerVars
<1>1. lock' = [board |-> b, image |-> image, next |-> next, by |-> NoWorker]
      /\ image \in Board /\ lock = Unlocked
  BY DEF Sound
<1>2. TypeOK'
  BY <1>1 DEF TypeOK
<1>3. SlotsMatch' /\ WorkReady'
  BY DEF SlotsMatch, WorkReady
<1>4. LockShape'
  BY <1>1, BoardControlAssumption DEF LockShape
<1>5. ClaimHasWorker'
  <2>1. owner # NoBoard => Drivers(owner) # {}
    BY <1>1, UnlockedType DEF ClaimHasWorker
  <2> QED BY <2>1 DEF ClaimHasWorker, Drivers, WorkersOf
<1>6. DoneIsFinished'
  BY <1>1 DEF DoneIsFinished, Genuine, Sound
<1> QED BY <1>2, <1>3, <1>4, <1>5, <1>6

\* The poller holds a sound copy of the file.
LEMMA PollStep ==
    ASSUME IInv, NEW b \in Boards, NEW image, Sound(disk[b], image),
           NEW start \in BOOLEAN, Poll(b, image, start)
    PROVE  IInv'
<1> USE DEF IInv, Poll, workerVars
<1>1. poll' = [board |-> b, image |-> image, start |-> start]
      /\ image \in Board
  BY DEF Sound
<1>2. TypeOK'
  BY <1>1 DEF TypeOK
<1>3. SlotsMatch' /\ WorkReady' /\ ClaimHasWorker'
  BY DEF SlotsMatch, WorkReady, ClaimHasWorker, Drivers, WorkersOf
<1>4. LockShape'
  BY <1>1 DEF LockShape
<1>5. DoneIsFinished'
  BY <1>1 DEF DoneIsFinished, Genuine, Sound
<1> QED BY <1>2, <1>3, <1>4, <1>5

\* Where a worker is in its loop and does not hold the lock.
Looping == PCs \ {"idle", "surrender", "linking", "relinking"}

\* A worker in its loop holds a copy with nothing wrong in it.
LEMMA HoldStep ==
    ASSUME IInv, NEW w \in Workers, pc[w] \in Looping,
           NEW d \in Board, Genuine(d, wboard[w]),
           NEW label \in PCs \ {"idle", "surrender"},
           label \in WorkPCs => pc[w] \in WorkPCs, Hold(w, d, label)
    PROVE  IInv'
<1> USE DEF IInv, Hold, Goto, requestVars, Looping
<1>1. TypeOK'
  BY DEF TypeOK
<1>2. SlotsMatch' /\ LockShape'
  BY DEF SlotsMatch, LockShape, TypeOK
<1>3. WorkReady'
  BY DEF WorkReady, TypeOK
<1>4. ClaimHasWorker'
  <2>1. \A b \in Boards : Drivers(b)' = Drivers(b)
    BY DEF Drivers, WorkersOf, TypeOK
  <2> QED BY <2>1 DEF ClaimHasWorker, TypeOK
<1>5. DoneIsFinished'
  BY DEF DoneIsFinished, Genuine, TypeOK
<1> QED BY <1>1, <1>2, <1>3, <1>4, <1>5

\* What a worker saves, and what it believes to have finished, is right.
LEMMA PublishStep ==
    ASSUME IInv, NEW w \in Workers, pc[w] \in Looping,
           NEW d \in Board, NEW label \in PCs \ {"idle", "surrender"},
           NEW t \in Tasks \cup {NoTask}, NEW F \in SUBSET Tasks,
           finished[wboard[w]] \subseteq F, In(d, "done") \subseteq F,
           label \in WorkPCs => /\ t \in Tasks
                                /\ DependsOn[t] \ {t} \subseteq F,
           Publish(w, d, label), wtask' = [wtask EXCEPT ![w] = t],
           finished' = [finished EXCEPT ![wboard[w]] = F]
    PROVE  IInv'
<1> USE DEF IInv, Publish, Goto, requestVars, Looping
<1> DEFINE b0 == wboard[w]
           m == PreserveNewerControlState(d, disk[b0])
<1>1. b0 \in Boards /\ disk[b0] \in Board
  BY DEF SlotsMatch, TypeOK
<1>2. m \in Board /\ In(m, "done") \subseteq F
  BY <1>1, PreserveMerges DEF DoneIsFinished, Genuine
<1>3. disk' = [disk EXCEPT ![b0] = m]
  BY DEF SaveBoard
<1>4. \A b \in Boards : finished[b] \subseteq finished'[b]
  BY DEF TypeOK
<1> HIDE DEF m
<1>5. TypeOK'
  BY <1>1, <1>2, <1>3 DEF TypeOK
<1>6. SlotsMatch' /\ LockShape'
  BY DEF SlotsMatch, LockShape, TypeOK
<1>7. WorkReady'
  <2> SUFFICES ASSUME NEW v \in Workers, pc'[v] \in WorkPCs
               PROVE  /\ wtask'[v] \in Tasks
                      /\ DependsOn[wtask'[v]] \ {wtask'[v]}
                             \subseteq finished'[wboard'[v]]
    BY DEF WorkReady
  <2>1. CASE v = w
    BY <2>1, <1>1 DEF TypeOK
  <2>2. CASE v # w
    <3>1. wboard[v] \in Boards /\ pc[v] \in WorkPCs
      BY <2>2 DEF SlotsMatch, TypeOK, WorkPCs, ProviderPCs
    <3> QED BY <2>2, <3>1, <1>4 DEF WorkReady, TypeOK
  <2> QED BY <2>1, <2>2
<1>8. ClaimHasWorker'
  <2>1. \A b \in Boards : Drivers(b)' = Drivers(b)
    BY DEF Drivers, WorkersOf, TypeOK
  <2> QED BY <2>1 DEF ClaimHasWorker, TypeOK
<1>9. DoneIsFinished'
  <2>1. \A b \in Boards : Genuine(disk[b], b)'
    BY <1>1, <1>2, <1>3, <1>4 DEF DoneIsFinished, Genuine, TypeOK
  <2>2. (lock # Unlocked => Genuine(lock.image, lock.board))'
    BY <1>4 DEF DoneIsFinished, Genuine, LockShape
  <2>3. (poll # NoPoll => Genuine(poll.image, poll.board))'
    BY <1>4 DEF DoneIsFinished, Genuine, LockShape
  <2>4. ASSUME NEW v \in Workers, pc'[v] # "idle"
        PROVE  Genuine(snap[v], wboard[v])'
    <3>1. CASE v = w
      BY <3>1, <1>1 DEF Genuine, TypeOK
    <3>2. CASE v # w
      <4>1. wboard[v] \in Boards /\ pc[v] # "idle"
        BY <3>2, <2>4 DEF SlotsMatch, TypeOK
      <4> QED BY <3>2, <4>1, <1>4 DEF DoneIsFinished, Genuine, TypeOK
    <3> QED BY <3>1, <3>2
  <2> QED BY <2>1, <2>2, <2>3, <2>4 DEF DoneIsFinished
<1> QED BY <1>5, <1>6, <1>7, <1>8, <1>9

\* The usual save: the task and the history stay.
LEMMA PublishSame ==
    ASSUME IInv, NEW w \in Workers, pc[w] \in Looping,
           NEW d, Sound(snap[w], d), NEW label \in PCs \ {"idle", "surrender"},
           label \in WorkPCs => pc[w] \in WorkPCs, Publish(w, d, label),
           UNCHANGED <<wtask, finished>>
    PROVE  IInv'
<1>1. TypeOK /\ wboard[w] \in Boards
  BY DEF IInv, SlotsMatch, TypeOK, Looping
<1>2. In(d, "done") \subseteq finished[wboard[w]] /\ d \in Board
  BY DEF IInv, DoneIsFinished, Genuine, Sound, Looping
<1>3. wtask' = [wtask EXCEPT ![w] = wtask[w]]
  BY <1>1 DEF TypeOK
<1>4. finished' = [finished EXCEPT ![wboard[w]] = finished[wboard[w]]]
  BY <1>1 DEF TypeOK
<1>5. wtask[w] \in Tasks \cup {NoTask} /\ finished[wboard[w]] \in SUBSET Tasks
  BY <1>1 DEF TypeOK
<1>6. label \in WorkPCs =>
          /\ wtask[w] \in Tasks
          /\ DependsOn[wtask[w]] \ {wtask[w]} \subseteq finished[wboard[w]]
  BY DEF IInv, WorkReady
<1> QED BY <1>2, <1>3, <1>4, <1>5, <1>6, PublishStep

\* A load: the worker holds the file, soundly changed.
LEMMA ReadStep ==
    ASSUME IInv, NEW w \in Workers, pc[w] \in Looping,
           NEW d, Sound(File(w), d), NEW label \in PCs \ {"idle", "surrender"},
           label \in WorkPCs => pc[w] \in WorkPCs, Hold(w, d, label)
    PROVE  IInv'
<1>1. wboard[w] \in Boards
  BY DEF IInv, SlotsMatch, TypeOK, Looping
<1>2. d \in Board /\ Genuine(d, wboard[w])
  BY <1>1 DEF IInv, DoneIsFinished, Genuine, Sound, File
<1> QED BY <1>2, HoldStep

-----------------------------------------------------------------------------
(* Every action keeps the invariant.                                        *)

\* A request that takes the lock.
LEMMA RequestStep ==
    ASSUME IInv, NEW b \in Boards, Request(b)
    PROVE  IInv'
<1> DEFINE d == disk[b]
<1>1. d \in Board
  BY DEF IInv, TypeOK
<1>2. CASE PauseBoard(b)
  BY <1>1, <1>2, SoundRequestPause, EditStep DEF PauseBoard
<1>3. CASE StartBoard(b)
  BY <1>1, <1>3, SoundPrepareResume, EditStep DEF StartBoard
<1>4. CASE AbortBoard(b)
  BY <1>1, <1>4, SoundCancel, EditStep DEF AbortBoard
<1>5. CASE ScheduleBoard(b)
  BY <1>1, <1>5, SoundMarkScheduled, EditStep DEF ScheduleBoard
<1>6. CASE ClearBoardSchedule(b)
  BY <1>1, <1>6, SoundDropSchedule, EditStep DEF ClearBoardSchedule
<1>7. CASE ScheduleNow(b)
  BY <1>7 DEF ScheduleNow, IInv, TypeOK, SlotsMatch, LockShape, ClaimHasWorker,
     Drivers, WorkersOf, DoneIsFinished, Genuine, WorkReady, workerVars
<1>8. CASE RetryAttentionTasks(b)
  <2>1. PICK T \in SUBSET In(d, "blocked") \ {{}} :
            Edit(b, RequestRetry(Reconcile(d), T), "start")
    BY <1>8 DEF RetryAttentionTasks
  <2>2. Sound(d, Reconcile(d)) /\ Reconcile(d) \in Board
    BY <1>1, SoundReconcile DEF Sound
  <2>3. Sound(d, RequestRetry(Reconcile(d), T))
    BY <2>2, SoundRequestRetry, SoundTransitive
  <2> QED BY <1>8, <2>1, <2>3, EditStep DEF RetryAttentionTasks
<1>9. ASSUME NEW t \in Tasks, PromoteTask(b, t) \/ DemoteTask(b, t)
      PROVE  IInv'
  <2>1. Sound(d, Move(d, t, "todo")) /\ Sound(d, Move(d, t, "backlog"))
    BY <1>1, SoundMoveAll DEF Move, TaskStatuses
  <2> QED BY <1>9, <2>1, EditStep DEF PromoteTask, DemoteTask
<1>10. ASSUME NEW e, Sound(d, e), NEW v \in BOOLEAN
       PROVE  Sound(d, [e EXCEPT !.retry = v])
  <2>1. Sound(e, [e EXCEPT !.retry = v])
    BY <1>10 DEF Sound, In, Board
  <2> QED BY <1>10, <2>1, SoundTransitive
<1>11. Sound(d, d)
  BY <1>1 DEF Sound
<1>12. CASE PollArmsRetry(b)
  BY <1>1, <1>10, <1>11, <1>12, SoundArmRetry, PollStep DEF PollArmsRetry
<1>13. CASE PollRetries(b)
  <2> DEFINE due == In(d, "blocked")
             e == RequestRetry(d, due)
  <2>1. Sound(d, e) /\ e \in Board
    BY <1>1, SoundRequestRetry DEF Sound
  <2>2. ASSUME NEW g \in Board
        PROVE  Sound(g, [g EXCEPT !.retry = FALSE, !.tries = @ + 1])
    <3>1. ASSUME NEW n \in Nat
          PROVE  Sound(g, [g EXCEPT !.retry = FALSE, !.tries = n])
      BY DEF Sound, In, Board
    <3>2. g.tries + 1 \in Nat
      BY DEF Board
    <3> QED BY <3>1, <3>2
  <2>3. Sound(d, [e EXCEPT !.retry = FALSE, !.tries = @ + 1])
    BY <2>1, <2>2, SoundTransitive
  <2>4. Sound(d, [d EXCEPT !.retry = FALSE])
    BY <1>10, <1>11
  <2> QED BY <1>13, <2>3, <2>4, PollStep DEF PollRetries
<1>14. CASE PollSchedule(b)
  <2>1. Sound(d, [d EXCEPT !.sched = FALSE])
        /\ Sound(d, [d EXCEPT !.status = "paused"])
    BY <1>1 DEF Sound, In, Board, BoardStatuses
  <2> QED BY <1>14, <2>1, PollStep DEF PollSchedule
<1> QED BY <1>2, <1>3, <1>4, <1>5, <1>6, <1>7, <1>8, <1>9, <1>12, <1>13, <1>14
        DEF Request

\* A request served in one piece.
LEMMA ServeStep ==
    ASSUME IInv, NEW b \in Boards, ServeRequest(b)
    PROVE  IInv'
<1> USE DEF IInv, workerVars
<1>1. CASE StartBoardExecution(b)
  <2> DEFINE image == MarkStarted(disk[b])
             next == IF ~disk[b].loop \/ owner = NoBoard THEN "spawn"
                     ELSE "none"
  <2>1. Sound(disk[b], image) /\ image \in Board
    BY SoundMarkStarted DEF TypeOK, Sound
  <2>2. lock' = [board |-> b, image |-> image, next |-> next, by |-> NoWorker]
        /\ owner' = b /\ owner \in {NoBoard, b} /\ lock = Unlocked
    BY <1>1 DEF StartBoardExecution
  <2> HIDE DEF image
  <2>3. TypeOK'
    BY <1>1, <2>1, <2>2 DEF StartBoardExecution, TypeOK
  <2>4. SlotsMatch' /\ WorkReady'
    BY <1>1 DEF StartBoardExecution, SlotsMatch, WorkReady
  <2>5. LockShape'
    BY <1>1, <2>2, BoardControlAssumption DEF StartBoardExecution, LockShape
  <2>6. ClaimHasWorker'
    <3>1. CASE owner = NoBoard
      BY <3>1, <2>2 DEF ClaimHasWorker
    <3>2. CASE owner = b /\ b # NoBoard
      BY <1>1, <3>2, <2>2, UnlockedType
         DEF ClaimHasWorker, StartBoardExecution, Drivers, WorkersOf
    <3> QED BY <3>1, <3>2, <2>2
  <2>7. DoneIsFinished'
    BY <1>1, <2>1, <2>2
       DEF StartBoardExecution, DoneIsFinished, Genuine, Sound
  <2> QED BY <2>3, <2>4, <2>5, <2>6, <2>7
<1>2. CASE RefuseStart(b)
  BY <1>2 DEF RefuseStart, TypeOK, SlotsMatch, LockShape, ClaimHasWorker,
     Drivers, WorkersOf, DoneIsFinished, Genuine, WorkReady
<1> QED BY <1>1, <1>2 DEF ServeRequest

\* Saves made for a request or a poll: someone who holds the lock or the
\* poller writes a genuine copy; the project's claim and the workers stay.
LEMMA StoreKeepsDisk ==
    ASSUME IInv, NEW b \in Boards, NEW d \in Board, Genuine(d, b),
           SaveBoard(b, d), UNCHANGED finished
    PROVE  disk' \in [Boards -> Board] /\ \A c \in Boards : Genuine(disk[c], c)'
<1> DEFINE m == PreserveNewerControlState(d, disk[b])
<1>1. disk[b] \in Board /\ Genuine(disk[b], b)
  BY DEF IInv, TypeOK, DoneIsFinished
<1>2. m \in Board /\ In(m, "done") \subseteq finished[b]
  BY <1>1, PreserveMerges DEF Genuine
<1>3. disk' = [disk EXCEPT ![b] = m]
  BY DEF SaveBoard
<1> HIDE DEF m
<1> QED BY <1>2, <1>3 DEF IInv, TypeOK, DoneIsFinished, Genuine

\* The saves of the editor and of the poller.
LEMMA SaveStep ==
    ASSUME IInv, SaveEdit \/ PollSaves
    PROVE  IInv'
<1> USE DEF IInv, workerVars
<1>1. CASE SaveEdit
  <2>1. lock.board \in Boards /\ lock.image \in Board /\ lock # Unlocked
        /\ Genuine(lock.image, lock.board)
    BY <1>1, UnlockedType DEF SaveEdit, LockShape, TypeOK, DoneIsFinished
  <2>2. disk' \in [Boards -> Board] /\ \A c \in Boards : Genuine(disk[c], c)'
    BY <1>1, <2>1, StoreKeepsDisk DEF SaveEdit
  <2>3. TypeOK'
    BY <1>1, <2>1, <2>2, UnlockedType DEF SaveEdit, TypeOK
  <2>4. SlotsMatch' /\ WorkReady'
    BY <1>1 DEF SaveEdit, SlotsMatch, WorkReady
  <2>5. LockShape'
    BY <1>1, UnlockedType DEF SaveEdit, LockShape
  <2>6. ClaimHasWorker'
    BY <1>1 DEF SaveEdit, ClaimHasWorker, Drivers, WorkersOf
  <2>7. DoneIsFinished'
    BY <1>1, <2>2 DEF SaveEdit, DoneIsFinished, Genuine
  <2> QED BY <2>3, <2>4, <2>5, <2>6, <2>7
<1>2. CASE PollSaves
  <2>1. poll.board \in Boards /\ poll.image \in Board
        /\ Genuine(poll.image, poll.board)
    BY <1>2 DEF PollSaves, LockShape, TypeOK, DoneIsFinished
  <2>2. disk' \in [Boards -> Board] /\ \A c \in Boards : Genuine(disk[c], c)'
    BY <1>2, <2>1, StoreKeepsDisk DEF PollSaves
  <2>3. TypeOK'
    BY <1>2, <2>1, <2>2, NoPollType DEF PollSaves, TypeOK
  <2>4. SlotsMatch' /\ WorkReady' /\ LockShape'
    BY <1>2 DEF PollSaves, SlotsMatch, WorkReady, LockShape
  <2>5. ClaimHasWorker'
    BY <1>2 DEF PollSaves, ClaimHasWorker, Drivers, WorkersOf
  <2>6. DoneIsFinished'
    BY <1>2, <2>2 DEF PollSaves, DoneIsFinished, Genuine
  <2> QED BY <2>3, <2>4, <2>5, <2>6
<1> QED BY <1>1, <1>2

\* A started worker drives the board its start claimed.
LEMMA SpawnStep ==
    ASSUME IInv, NEW w \in Workers, SaveStart(w)
    PROVE  IInv'
<1> USE DEF IInv, SaveStart
<1>1. lock.board \in Boards /\ lock.image \in Board /\ lock # Unlocked
      /\ Genuine(lock.image, lock.board) /\ pc[w] = "idle"
  BY UnlockedType DEF LockShape, TypeOK, DoneIsFinished, IdleWorkers
<1>2. disk' \in [Boards -> Board] /\ \A c \in Boards : Genuine(disk[c], c)'
  BY <1>1, StoreKeepsDisk
<1>3. TypeOK'
  BY <1>1, <1>2, UnlockedType DEF TypeOK, PCs
<1>4. SlotsMatch' /\ LockShape'
  BY <1>1, BoardControlAssumption, UnlockedType DEF SlotsMatch, LockShape, TypeOK
<1>5. WorkReady'
  BY <1>1 DEF WorkReady, TypeOK, WorkPCs, ProviderPCs
<1>6. ClaimHasWorker'
  <2>1. ASSUME NEW b \in Boards
        PROVE  /\ Drivers(b) \subseteq Drivers(b)'
               /\ b = lock.board => w \in Drivers(b)'
    BY <1>1, BoardControlAssumption
       DEF Drivers, WorkersOf, TypeOK, SlotsMatch
  <2> QED BY <2>1 DEF ClaimHasWorker, TypeOK
<1>7. DoneIsFinished'
  <2>1. ASSUME NEW v \in Workers, pc'[v] # "idle"
        PROVE  Genuine(snap[v], wboard[v])'
    <3>1. CASE v = w
      <4>1. snap[w] = Blank
        BY <1>1 DEF SlotsMatch
      <4> QED BY <4>1, <3>1, BlankType DEF Genuine
    <3>2. CASE v # w
      BY <2>1, <3>2 DEF DoneIsFinished, Genuine, TypeOK
    <3> QED BY <3>1, <3>2
  <2> QED BY <1>2, <2>1 DEF DoneIsFinished, Genuine
<1> QED BY <1>3, <1>4, <1>5, <1>6, <1>7

\* link_board_task_session takes the lock for the worker.
LEMMA LinkStep ==
    ASSUME IInv, NEW w \in Workers, LinkTaskSession(w)
    PROVE  IInv'
<1> USE DEF IInv
<1> DEFINE b == wboard[w]
           label == IF pc[w] = "started" THEN "linking" ELSE "relinking"
<1>1. b \in Boards /\ File(w) \in Board /\ lock = Unlocked
      /\ pc[w] \in {"started", "redial"}
  BY DEF LinkTaskSession, SlotsMatch, TypeOK, File
<1>2. PICK image \in Board :
          /\ Genuine(image, b)
          /\ lock' = [board |-> b, image |-> image, next |-> "none", by |-> w]
  <2>1. ASSUME NEW g \in Board
        PROVE  /\ [g EXCEPT !.call = TRUE] \in Board
               /\ In([g EXCEPT !.call = TRUE], "done") = In(g, "done")
    BY DEF In, Board
  <2>2. [File(w) EXCEPT !.call = TRUE] \in Board
        /\ Genuine([File(w) EXCEPT !.call = TRUE], b)
    BY <1>1, <2>1 DEF DoneIsFinished, Genuine, File
  <2> QED BY <2>2 DEF LinkTaskSession
<1>3. /\ pc' = [pc EXCEPT ![w] = label]
      /\ UNCHANGED <<disk, owner, starts, poll, wboard, snap, wtask, recovering,
                     finished, crashes>>
  BY DEF LinkTaskSession, Goto, At
<1>4. TypeOK'
  BY <1>1, <1>2, <1>3 DEF TypeOK, PCs
<1>5. SlotsMatch' /\ WorkReady'
  BY <1>1, <1>3 DEF SlotsMatch, WorkReady, TypeOK, WorkPCs, ProviderPCs
<1>6. LockShape'
  BY <1>1, <1>2, <1>3 DEF LockShape, TypeOK
<1>7. ClaimHasWorker'
  <2>1. \A c \in Boards : Drivers(c)' = Drivers(c)
    BY <1>1, <1>3 DEF Drivers, WorkersOf, TypeOK
  <2> QED BY <1>1, <1>3, <2>1, UnlockedType DEF ClaimHasWorker, TypeOK
<1>8. DoneIsFinished'
  BY <1>1, <1>2, <1>3 DEF DoneIsFinished, Genuine, TypeOK
<1> QED BY <1>4, <1>5, <1>6, <1>7, <1>8

\* The save of a worker's session link.
LEMMA SaveLinkStep ==
    ASSUME IInv, NEW w \in Workers, SaveLink(w)
    PROVE  IInv'
<1> USE DEF IInv, SaveLink, Goto, At
<1> DEFINE label == IF pc[w] = "linking" THEN "call" ELSE "recall"
<1>1. lock.board \in Boards /\ lock.image \in Board /\ lock # Unlocked
      /\ Genuine(lock.image, lock.board)
  BY UnlockedType, BoardControlAssumption DEF LockShape, TypeOK, DoneIsFinished
<1>2. lock.next = "none" /\ pc[w] \in {"linking", "relinking"}
  BY DEF LockShape
<1>3. disk' \in [Boards -> Board] /\ \A c \in Boards : Genuine(disk[c], c)'
  BY <1>1, StoreKeepsDisk
<1>4. TypeOK'
  BY <1>3, UnlockedType DEF TypeOK, PCs
<1>5. SlotsMatch' /\ WorkReady'
  BY <1>2 DEF SlotsMatch, WorkReady, TypeOK, WorkPCs, ProviderPCs
<1>6. LockShape'
  BY UnlockedType, BoardControlAssumption DEF LockShape
<1>7. ClaimHasWorker'
  <2>1. \A c \in Boards : Drivers(c)' = Drivers(c)
    BY <1>2 DEF Drivers, WorkersOf, TypeOK
  <2> QED BY <1>2, <2>1 DEF ClaimHasWorker, TypeOK
<1>8. DoneIsFinished'
  BY <1>2, <1>3 DEF DoneIsFinished, Genuine, TypeOK
<1> QED BY <1>4, <1>5, <1>6, <1>7, <1>8

\* A worker leaves: at the end of its loop it gives up the claim, and a
\* recovery that found the project taken had none.
LEMMA LeaveStep ==
    ASSUME IInv, NEW w \in Workers, ReleaseProject(w) \/ SaveSurrender(w)
    PROVE  IInv'
<1> USE DEF IInv, ReleaseProject, SaveSurrender, Leave, Goto, At, requestVars
<1>1. /\ pc[w] \in {"release", "surrender"} /\ wboard[w] \in Boards
      /\ snap[w] \in Board /\ Genuine(snap[w], wboard[w])
      /\ UNCHANGED <<lock, starts, poll, recovering, finished, crashes>>
      /\ wboard' = [wboard EXCEPT ![w] = NoBoard]
      /\ snap' = [snap EXCEPT ![w] = Blank]
      /\ wtask' = [wtask EXCEPT ![w] = NoTask]
      /\ pc' = [pc EXCEPT ![w] = "idle"]
  BY DEF SlotsMatch, TypeOK, DoneIsFinished
<1>2. disk' \in [Boards -> Board] /\ \A c \in Boards : Genuine(disk[c], c)'
  BY <1>1, StoreKeepsDisk DEF TypeOK, DoneIsFinished, Genuine
<1>3. TypeOK'
  BY <1>1, <1>2, BlankType DEF TypeOK, PCs
<1>4. SlotsMatch' /\ WorkReady'
  BY <1>1, BoardControlAssumption
     DEF SlotsMatch, WorkReady, TypeOK, WorkPCs, ProviderPCs
<1>5. LockShape'
  BY <1>1 DEF LockShape, TypeOK
<1>6. ClaimHasWorker'
  <2>1. \A c \in Boards : Drivers(c) \ {w} \subseteq Drivers(c)'
    BY <1>1 DEF Drivers, WorkersOf, TypeOK
  <2>2. CASE ReleaseProject(w)
    BY <1>1, <2>1, <2>2 DEF ClaimHasWorker, TypeOK, Drivers, WorkersOf
  <2>3. CASE SaveSurrender(w)
    <3>1. \A c \in Boards : w \notin Drivers(c)
      BY <2>3 DEF Drivers
    <3> QED BY <1>1, <2>1, <2>3, <3>1 DEF ClaimHasWorker, TypeOK
  <2> QED BY <2>2, <2>3
<1>7. DoneIsFinished'
  BY <1>1, <1>2, BlankType DEF DoneIsFinished, Genuine, TypeOK
<1> QED BY <1>3, <1>4, <1>5, <1>6, <1>7

\* A worker executes a card.
LEMMA ExecuteStep ==
    ASSUME IInv, NEW w \in Workers, Execute(w)
    PROVE  IInv'
<1> DEFINE b == wboard[w]
           d == snap[w]
<1>0. TypeOK /\ d \in Board /\ disk \in [Boards -> Board]
  BY DEF IInv, TypeOK
<1>1. Sound(d, d)
  BY <1>0 DEF Sound
<1>2. pc[w] # "idle" => b \in Boards /\ File(w) \in Board
                        /\ Genuine(File(w), b) /\ Genuine(d, b)
  BY DEF IInv, TypeOK, SlotsMatch, DoneIsFinished, File
<1> USE DEF PCs, WorkPCs, ProviderPCs, Looping, At
<1>3. CASE LoadBoard(w)
  <2> DEFINE f == File(w)
             armed == IF f.status = "blocked" THEN ArmRetry(b, f) ELSE f
  <2>1. pc[w] = "top" /\ f \in Board
    BY <1>2, <1>3 DEF LoadBoard
  <2>2. Sound(f, armed) /\ armed \in Board
    BY <2>1, SoundArmRetry DEF Sound
  <2>3. Sound(f, Halt(armed, f.status))
    BY <2>1, <2>2, SoundHalt, SoundTransitive DEF Board
  <2>4. Sound(f, SettlePause(f)) /\ Sound(f, Reconcile(f))
    BY <2>1, SoundSettlePause, SoundReconcile
  <2>5. \/ Hold(w, Halt(armed, f.status), "exit")
        \/ Hold(w, SettlePause(f), "exit")
        \/ Hold(w, Reconcile(f), "plan")
    BY <1>3 DEF LoadBoard
  <2> HIDE DEF armed
  <2> QED BY <2>1, <2>3, <2>4, <2>5, ReadStep
<1>4. CASE SavePlan(w) \/ SaveContext(w) \/ SaveCall(w) \/ SaveExit(w)
           \/ SaveRecovered(w)
  BY <1>1, <1>4, PublishSame
     DEF SavePlan, SaveContext, SaveCall, SaveExit, SaveRecovered
<1>5. CASE PickTask(w)
  <2>1. PICK t \in Runnable(d) :
            /\ wtask' = [wtask EXCEPT ![w] = t]
            /\ Publish(w, [Move(d, t, "in_progress") EXCEPT
                              !.status = "running", !.cur = t], "prepare")
    BY <1>5 DEF PickTask
  <2>2. pc[w] = "choose" /\ b \in Boards /\ Genuine(d, b) /\ t \in Tasks
    BY <1>2, <1>5, <2>1 DEF PickTask, Runnable, In
  <2> DEFINE e == Move(d, t, "in_progress")
             f == [e EXCEPT !.status = "running", !.cur = t]
  <2>3. Sound(d, e) /\ e \in Board
    BY <1>0, SoundMoveAll DEF Move, TaskStatuses, Sound
  <2>4. ASSUME NEW g \in Board
        PROVE  Sound(g, [g EXCEPT !.status = "running", !.cur = t])
    BY <2>2 DEF Sound, In, Board, BoardStatuses
  <2>5. Sound(d, f) /\ f \in Board
    BY <2>3, <2>4, SoundTransitive DEF Sound
  <2>6. DependsOn[t] \ {t} \subseteq finished[b]
    <3>1. DependsOn[t] \ {t} \subseteq In(d, "done")
      BY <2>1, <2>2, BoardControlAssumption DEF Runnable, Unmet, In
    <3> QED BY <3>1, <2>2 DEF Genuine
  <2>7. finished[b] \in SUBSET Tasks
        /\ finished' = [finished EXCEPT ![b] = finished[b]]
    BY <1>0, <1>5, <2>2 DEF PickTask, TypeOK
  <2>8. In(f, "done") \subseteq finished[b]
    BY <2>2, <2>5 DEF Sound, Genuine
  <2> HIDE DEF f
  <2>9. Publish(w, f, "prepare")
    BY <2>1 DEF f
  <2> QED BY <2>1, <2>2, <2>5, <2>6, <2>7, <2>8, <2>9, PublishStep
<1>6. CASE NothingToRun(w)
  BY <1>0, <1>6, SoundConclude, PublishSame DEF NothingToRun
<1>7. ASSUME NEW t, NEW value \in TaskStatuses \ {"done"}
      PROVE  Sound(d, Halt(Move(d, t, value), "blocked"))
  <2>1. Sound(d, Move(d, t, value)) /\ Move(d, t, value) \in Board
    BY <1>0, SoundMoveAll DEF Move, Sound
  <2> QED BY <2>1, SoundHalt, SoundTransitive DEF BoardStatuses
<1>8. CASE PrepareGit(w) \/ FinalizeGitFails(w)
  BY <1>1, <1>7, <1>8, PublishSame DEF PrepareGit, FinalizeGitFails, TaskStatuses
<1>9. ASSUME NEW f \in Board
      PROVE  Sound(f, [f EXCEPT !.call = TRUE])
  BY DEF Sound, In, Board
<1>10. CASE ReloadBoard(w) \/ BeginCall(w)
  <2> DEFINE f == File(w)
  <2>1. pc[w] \in {"reload", "recheck"} /\ f \in Board
    BY <1>2, <1>10 DEF ReloadBoard, BeginCall, Recheck
  <2>2. Sound(f, SettlePause(f)) /\ Sound(f, f)
        /\ Sound(f, [f EXCEPT !.call = TRUE])
    BY <2>1, <1>9, SoundSettlePause DEF Sound
  <2>3. \/ Hold(w, SettlePause(f), "exit")
        \/ Hold(w, f, "attach")
        \/ Hold(w, [f EXCEPT !.call = TRUE], "dial")
    BY <1>10 DEF ReloadBoard, BeginCall, Recheck
  <2> HIDE DEF f
  <2> QED BY <2>1, <2>2, <2>3, ReadStep DEF f
<1>11. CASE ProviderInterrupted(w)
  <2>1. PICK v \in {"call", "recall"} :
            pc[w] = v /\ Hold(w, IF v = "call" THEN File(w) ELSE d, "interrupted")
    BY <1>11 DEF ProviderInterrupted
  <2> QED BY <1>0, <1>2, <1>11, <2>1, HoldStep
<1>12. ASSUME NEW outcome \in {"done", "blocked", "failed"},
              ApplyResult(w, outcome)
       PROVE  IInv'
  <2> DEFINE t == wtask[w]
             e == Move(d, t, outcome)
             f == [e EXCEPT !.cur = NoTask, !.call = FALSE]
             F == IF outcome = "done" THEN finished[b] \cup {t}
                  ELSE finished[b]
  <2>1. /\ pc[w] \in {"result", "answered", "interrupted"}
        /\ b \in Boards /\ Genuine(d, b) /\ t \in Tasks
    BY <1>2, <1>12 DEF ApplyResult, IInv, WorkReady
  <2>2. e \in Board /\ In(e, "done") \subseteq F
    BY <1>0, <2>1 DEF Move, MoveAll, In, Board, TaskStatuses, Genuine
  <2>3. ASSUME NEW g \in Board
        PROVE  Sound(g, [g EXCEPT !.cur = NoTask, !.call = FALSE])
    BY DEF Sound, In, Board
  <2>4. f \in Board /\ In(f, "done") \subseteq F
    BY <2>2, <2>3 DEF Sound
  <2>5. F \in SUBSET Tasks /\ finished[b] \subseteq F
    BY <1>0, <2>1 DEF TypeOK
  <2>6. finished' = [finished EXCEPT ![b] = F]
        /\ wtask' = [wtask EXCEPT ![w] = NoTask]
    BY <1>12 DEF ApplyResult
  <2> HIDE DEF f, F
  <2>7. Publish(w, f, "top")
    BY <1>12 DEF ApplyResult, f
  <2> QED BY <2>1, <2>4, <2>5, <2>6, <2>7, PublishStep
<1> QED BY <1>3, <1>4, <1>5, <1>6, <1>8, <1>10, <1>11, <1>12, LinkStep,
        SaveLinkStep, LeaveStep DEF Execute

\* A worker hears its provider, or picks a retry.
LEMMA AnswerStep ==
    ASSUME IInv, NEW w \in Workers, ProviderAnswers(w) \/ RetryBlocker(w)
    PROVE  IInv'
<1> USE DEF PCs, WorkPCs, ProviderPCs, Looping, At
<1>1. snap[w] \in Board /\ Sound(snap[w], snap[w])
  BY DEF IInv, TypeOK, Sound
<1>2. pc[w] # "idle" => /\ File(w) \in Board /\ Genuine(File(w), wboard[w])
                        /\ Genuine(snap[w], wboard[w])
  BY DEF IInv, TypeOK, SlotsMatch, DoneIsFinished, File
<1>3. CASE ProviderAnswers(w)
  <2>1. CASE pc[w] \in {"started", "call"} /\ Hold(w, File(w), "result")
    BY <1>2, <2>1, HoldStep
  <2>2. CASE pc[w] \in {"redial", "recall"} /\ Hold(w, snap[w], "answered")
    BY <1>1, <1>2, <2>2, HoldStep
  <2> QED BY <1>3, <2>1, <2>2 DEF ProviderAnswers
<1>4. CASE RetryBlocker(w)
  BY <1>1, <1>4, PublishSame DEF RetryBlocker
<1> QED BY <1>3, <1>4

\* A restart keeps the files and nothing else.
LEMMA CrashStep ==
    ASSUME IInv, Crash
    PROVE  IInv'
<1> USE DEF IInv, Crash
<1>1. TypeOK'
  BY BlankType, UnlockedType, NoPollType DEF TypeOK, PCs
<1>2. SlotsMatch' /\ LockShape' /\ WorkReady'
  BY BoardControlAssumption, UnlockedType
     DEF SlotsMatch, LockShape, WorkReady, WorkPCs, ProviderPCs
<1>3. ClaimHasWorker' /\ DoneIsFinished'
  BY DEF ClaimHasWorker, DoneIsFinished, Genuine
<1> QED BY <1>1, <1>2, <1>3

\* Startup recovers a board.
LEMMA RecoverStep ==
    ASSUME IInv, NEW b \in Boards, NEW w \in Workers, RecoverBoard(b, w)
    PROVE  IInv'
<1> USE DEF IInv, requestVars
<1>1. /\ pc[w] = "idle" /\ disk[b] \in Board /\ Genuine(disk[b], b)
      /\ wboard' = [wboard EXCEPT ![w] = b]
      /\ recovering' = recovering \ {b}
      /\ UNCHANGED <<disk, lock, starts, poll, wtask, finished, crashes>>
  BY DEF RecoverBoard, IdleWorkers, TypeOK, DoneIsFinished
<1>2. PICK d \in Board, label \in {"recover", "surrender"} :
          /\ Genuine(d, b)
          /\ snap' = [snap EXCEPT ![w] = d] /\ pc' = [pc EXCEPT ![w] = label]
          /\ \/ label = "recover" /\ owner \in {NoBoard, b} /\ owner' = b
             \/ label = "surrender" /\ owner' = owner
  <2>1. ASSUME NEW g \in Board
        PROVE  Sound(g, [g EXCEPT !.status = "running", !.active = TRUE,
                                  !.loop = TRUE, !.pause = FALSE,
                                  !.cur = NoTask])
    BY DEF Sound, In, Board, BoardStatuses
  <2>2. Sound(disk[b], Halt(disk[b], "blocked"))
    BY <1>1, SoundHalt DEF BoardStatuses
  <2>3. \A e : Sound(disk[b], e) => e \in Board /\ Genuine(e, b)
    BY <1>1 DEF Sound, Genuine
  <2>4. CASE /\ owner \in {NoBoard, b}
             /\ owner' = b
             /\ snap' = [snap EXCEPT ![w] =
                           [disk[b] EXCEPT !.status = "running",
                                           !.active = TRUE, !.loop = TRUE,
                                           !.pause = FALSE, !.cur = NoTask]]
             /\ Goto(w, "recover")
    BY <1>1, <2>1, <2>3, <2>4 DEF Goto
  <2>5. CASE /\ UNCHANGED owner
             /\ snap' = [snap EXCEPT ![w] = Halt(disk[b], "blocked")]
             /\ Goto(w, "surrender")
    BY <2>2, <2>3, <2>5 DEF Goto
  <2> QED BY <2>4, <2>5 DEF RecoverBoard
<1>3. TypeOK'
  BY <1>1, <1>2 DEF TypeOK, PCs
<1>4. SlotsMatch' /\ WorkReady'
  BY <1>1, <1>2, BoardControlAssumption
     DEF SlotsMatch, WorkReady, TypeOK, WorkPCs, ProviderPCs
<1>5. LockShape'
  BY <1>1, <1>2 DEF LockShape, TypeOK
<1>6. ClaimHasWorker'
  <2>1. \A c \in Boards : Drivers(c) \subseteq Drivers(c)'
    BY <1>1, <1>2, BoardControlAssumption DEF Drivers, WorkersOf, TypeOK, SlotsMatch
  <2>2. label = "recover" => w \in Drivers(b)'
    BY <1>1, <1>2 DEF Drivers, WorkersOf, TypeOK
  <2> QED BY <1>1, <1>2, <2>1, <2>2 DEF ClaimHasWorker, TypeOK
<1>7. DoneIsFinished'
  BY <1>1, <1>2 DEF DoneIsFinished, Genuine, TypeOK
<1> QED BY <1>3, <1>4, <1>5, <1>6, <1>7

\* The invariant holds at first.
LEMMA Initial == Init => IInv
BY BlankType, UnlockedType, NoPollType, BoardControlAssumption
   DEF Init, IInv, TypeOK, PCs, SlotsMatch, LockShape, ClaimHasWorker,
       DoneIsFinished, Genuine, WorkReady, WorkPCs, ProviderPCs

\* Every step keeps it.
LEMMA Inductive == IInv /\ [Next]_vars => IInv'
<1> SUFFICES ASSUME IInv, [Next]_vars PROVE IInv'
  OBVIOUS
<1>1. CASE UNCHANGED vars
  BY <1>1 DEF vars, requestVars, workerVars, IInv, TypeOK, SlotsMatch, LockShape,
     ClaimHasWorker, Drivers, WorkersOf, DoneIsFinished, Genuine, WorkReady
<1>2. ASSUME NEW b \in Boards, Request(b) \/ ServeRequest(b)
      PROVE  IInv'
  BY <1>2, RequestStep, ServeStep
<1>3. CASE SaveEdit \/ PollSaves \/ Crash
  BY <1>3, SaveStep, CrashStep
<1>4. ASSUME NEW w \in Workers,
             \/ Execute(w) \/ ProviderAnswers(w) \/ RetryBlocker(w)
             \/ SaveStart(w)
      PROVE  IInv'
  BY <1>4, ExecuteStep, AnswerStep, SpawnStep
<1>5. ASSUME NEW w \in Workers, NEW b \in Boards, RecoverBoard(b, w)
      PROVE  IInv'
  BY <1>5, RecoverStep
<1> QED BY <1>1, <1>2, <1>3, <1>4, <1>5 DEF Next

\* Every behaviour keeps the inductive invariant: types, the shape of the
\* lock and the workers' slots, the claim, and what is known to be done.
THEOREM Invariance == Spec => []IInv
BY Initial, Inductive, PTL DEF Spec

\* Every variable keeps its type, whatever copies are saved over each other.
THEOREM TypeCorrect == Spec => []TypeOK
<1>1. IInv => TypeOK
  BY DEF IInv
<1> QED BY <1>1, Invariance, PTL

\* The claim on a project is never leaked: the board that holds it has a
\* worker in its loop, or a start about to spawn one.
THEOREM ClaimIsHeld == Spec => []ClaimHasWorker
<1>1. IInv => ClaimHasWorker
  BY DEF IInv
<1> QED BY <1>1, Invariance, PTL

\* However many workers run a board, and however stale the copies they save,
\* a provider is given a card only after the cards it depends on.
THEOREM DependenciesFirst == Spec => []WorkFollowsDependencies
<1>1. IInv => WorkFollowsDependencies
  BY DEF IInv, WorkReady, WorkFollowsDependencies, Executing, WorkPCs
<1> QED BY <1>1, Invariance, PTL

-----------------------------------------------------------------------------
\* One save does not take the revision of a board back.
LEMMA SaveGrows ==
    ASSUME TypeOK, NEW b \in Boards, NEW d \in Board, SaveBoard(b, d)
    PROVE  \A c \in Boards : disk'[c].rev >= disk[c].rev
<1>1. disk[b] \in Board /\ disk' = [disk EXCEPT ![b] =
          PreserveNewerControlState(d, disk[b])]
  BY DEF TypeOK, SaveBoard
<1>2. PreserveNewerControlState(d, disk[b]).rev >= disk[b].rev
  BY <1>1, PreserveMerges
<1>3. \A c \in Boards : disk[c].rev >= disk[c].rev
  BY DEF TypeOK, Board
<1> QED BY <1>1, <1>2, <1>3 DEF TypeOK

\* A worker that saves its copy does not lower a revision.
LEMMA PublishGrows ==
    ASSUME TypeOK, TypeOK', NEW w \in Workers, wboard[w] \in Boards,
           NEW d, NEW label, Publish(w, d, label)
    PROVE  \A c \in Boards : disk'[c].rev >= disk[c].rev
<1>1. d = snap'[w] /\ snap'[w] \in Board /\ SaveBoard(wboard[w], d)
  BY DEF Publish, TypeOK
<1> QED BY <1>1, SaveGrows

\* No step takes the revision of a board back.
LEMMA StepGrows ==
    ASSUME IInv, IInv', [Next]_vars
    PROVE  \A b \in Boards : disk'[b].rev >= disk[b].rev
<1> USE DEF IInv
<1>1. ASSUME UNCHANGED disk
      PROVE  \A b \in Boards : disk'[b].rev >= disk[b].rev
  BY <1>1 DEF TypeOK, Board
<1>2. ASSUME NEW b \in Boards, Request(b) \/ ServeRequest(b)
      PROVE  UNCHANGED disk
  BY <1>2 DEF Request, ServeRequest, PauseBoard, StartBoard, AbortBoard,
     ScheduleBoard, ClearBoardSchedule, ScheduleNow, RetryAttentionTasks,
     PromoteTask, DemoteTask, Edit, PollArmsRetry, PollRetries, PollSchedule,
     Poll, StartBoardExecution, RefuseStart
<1>3. CASE SaveEdit \/ \E w \in Workers : SaveStart(w) \/ SaveLink(w)
  <2>1. lock.board \in Boards /\ lock.image \in Board
    BY <1>3, UnlockedType, BoardControlAssumption
       DEF SaveEdit, SaveStart, SaveLink, LockShape, TypeOK
  <2> QED BY <1>3, <2>1, SaveGrows DEF SaveEdit, SaveStart, SaveLink
<1>4. CASE PollSaves
  <2>1. poll.board \in Boards /\ poll.image \in Board
    BY <1>4 DEF PollSaves, LockShape, TypeOK
  <2> QED BY <1>4, <2>1, SaveGrows DEF PollSaves
<1>5. ASSUME NEW w \in Workers, NEW d, NEW label, Publish(w, d, label),
             pc[w] # "idle"
      PROVE  \A b \in Boards : disk'[b].rev >= disk[b].rev
  BY <1>5, PublishGrows DEF SlotsMatch, TypeOK
<1>6. ASSUME NEW w \in Workers, SaveSurrender(w)
      PROVE  \A b \in Boards : disk'[b].rev >= disk[b].rev
  <2>1. wboard[w] \in Boards /\ snap[w] \in Board
    BY <1>6 DEF SaveSurrender, At, SlotsMatch, TypeOK
  <2> QED BY <1>6, <2>1, SaveGrows DEF SaveSurrender
<1>7. ASSUME NEW w \in Workers, Execute(w)
      PROVE  \A b \in Boards : disk'[b].rev >= disk[b].rev
  <2>1. CASE LoadBoard(w) \/ ReloadBoard(w) \/ BeginCall(w) \/ LinkTaskSession(w)
             \/ ProviderInterrupted(w) \/ ReleaseProject(w)
    BY <2>1, <1>1 DEF LoadBoard, ReloadBoard, BeginCall, Recheck, Hold,
       LinkTaskSession, ProviderInterrupted, ReleaseProject
  <2>2. CASE SavePlan(w) \/ PickTask(w) \/ NothingToRun(w) \/ PrepareGit(w)
             \/ SaveContext(w) \/ SaveCall(w) \/ FinalizeGitFails(w)
             \/ SaveExit(w) \/ SaveRecovered(w)
    BY <2>2, <1>5 DEF SavePlan, PickTask, NothingToRun, PrepareGit, SaveContext,
       SaveCall, FinalizeGitFails, SaveExit, SaveRecovered, At
  <2>3. ASSUME NEW outcome, ApplyResult(w, outcome)
        PROVE  \A b \in Boards : disk'[b].rev >= disk[b].rev
    BY <2>3, <1>5 DEF ApplyResult
  <2> QED BY <1>3, <1>6, <1>7, <2>1, <2>2, <2>3 DEF Execute
<1>8. ASSUME NEW w \in Workers, ProviderAnswers(w) \/ RetryBlocker(w)
      PROVE  \A b \in Boards : disk'[b].rev >= disk[b].rev
  BY <1>1, <1>5, <1>8 DEF ProviderAnswers, RetryBlocker, Hold, At
<1>9. CASE Crash \/ UNCHANGED vars
           \/ \E w \in Workers, b \in Boards : RecoverBoard(b, w)
  BY <1>1, <1>9 DEF Crash, RecoverBoard, vars
<1> QED BY <1>1, <1>2, <1>3, <1>4, <1>7, <1>8, <1>9 DEF Next

\* The revision of a board, by which a save tells a stale copy from a fresh
\* one, never decreases, whoever saves and however late.
THEOREM RevisionsNeverGoBack == Spec => RevisionsGrow
<1>1. IInv /\ IInv' /\ [Next]_vars => [\A b \in Boards : disk'[b].rev >= disk[b].rev]_vars
  BY StepGrows
<1> QED BY <1>1, Invariance, PTL DEF Spec, RevisionsGrow

-----------------------------------------------------------------------------
(* An abort holds.  Every copy of a board has a revision and a status; each  *)
(* step hands the pair of some copy on, with a status that follows from it,  *)
(* or raises the revision under the lock.                                    *)

\* The copies of b: in the file, and held by workers, the editor, the poller.
Copies(b) == {disk[b]} \cup {snap[w] : w \in WorkersOf(b)}
             \cup (IF lock.board = b THEN {lock.image} ELSE {})
             \cup (IF poll.board = b THEN {poll.image} ELSE {})

\* What an abort leaves of a board, and what workers make of that; none of it
\* lets a worker go on.
Stopped == {"cancelled", "blocked", "paused", "completed"}

\* Only the copy a request is about to save may be newer than the file.
CopiesAreOld ==
    \A b \in Boards :
        /\ \A w \in WorkersOf(b) : snap[w].rev <= disk[b].rev
        /\ poll.board = b => poll.image.rev <= disk[b].rev
        /\ lock.board = b => /\ lock.image.rev <= disk[b].rev + 1
                             /\ \/ lock.by = NoWorker
                                \/ lock.image.rev <= disk[b].rev

\* All copies of the revision of an abort are stopped.
Known(b) == \A d, e \in Copies(b) :
                d.rev = e.rev /\ d.status = "cancelled" => e.status \in Stopped

\* Workers that go on hold a board that goes on, and nothing was recovered.
GoingOn == /\ recovering = {}
           /\ \A w \in Workers :
                 /\ pc[w] \notin {"recover", "surrender"}
                 /\ pc[w] \in {"plan", "choose"} => snap[w].status \notin Stopped

AbortInv ==
    /\ CopiesAreOld
    /\ Revised => GoingOn /\ \A b \in Boards \ AutoRetry : Known(b)

\* f has the revision of e, and a status that e allows.
Follows(e, f) == /\ f.rev = e.rev
                 /\ f.status = "cancelled" => e.status = "cancelled"
                 /\ e.status \in Stopped => f.status \in Stopped
Handed(b, f) == \/ f.status \in Stopped \ {"cancelled"}
                \/ \E e \in Copies(b) : Follows(e, f)
Inherits(b) == \A f \in Copies(b)' : Handed(b, f)

\* What changes neither the revision nor the status.
Same(d, e) == e.rev = d.rev /\ e.status = d.status

\* The copies, one by one.
LEMMA CopiesAre ==
    ASSUME NEW b
    PROVE  /\ disk[b] \in Copies(b)
           /\ \A w \in Workers : wboard[w] = b => snap[w] \in Copies(b)
           /\ lock.board = b => lock.image \in Copies(b)
           /\ poll.board = b => poll.image \in Copies(b)
           /\ \A f \in Copies(b) :
                 \/ f = disk[b]
                 \/ \E w \in Workers : wboard[w] = b /\ f = snap[w]
                 \/ lock.board = b /\ f = lock.image
                 \/ poll.board = b /\ f = poll.image
BY DEF Copies, WorkersOf

\* The same of the copies after a step.
LEMMA CopiesAfter ==
    ASSUME NEW b
    PROVE  /\ disk'[b] \in Copies(b)'
           /\ \A f \in Copies(b)' :
                 \/ f = disk'[b]
                 \/ \E w \in Workers : wboard'[w] = b /\ f = snap'[w]
                 \/ lock'.board = b /\ f = lock'.image
                 \/ poll'.board = b /\ f = poll'.image
BY DEF Copies, WorkersOf

\* A copy is handed on by a step that leaves it alone.
LEMMA KeptIsHanded ==
    ASSUME NEW b, NEW f \in Copies(b)
    PROVE  Handed(b, f)
BY DEF Handed, Follows

\* Copies that are handed on leave an abort known.
LEMMA InheritsKnown ==
    ASSUME NEW b \in Boards, Known(b), Inherits(b)
    PROVE  Known(b)'
<1> SUFFICES ASSUME NEW d \in Copies(b)', NEW e \in Copies(b)',
                    d.rev = e.rev, d.status = "cancelled"
             PROVE  e.status \in Stopped
  BY DEF Known
<1>1. PICK d0 \in Copies(b) : Follows(d0, d)
  BY DEF Inherits, Handed
<1>2. CASE e.status \in Stopped \ {"cancelled"}
  BY <1>2
<1>3. ASSUME NEW e0 \in Copies(b), Follows(e0, e)
      PROVE  e.status \in Stopped
  BY <1>1, <1>3 DEF Follows, Known
<1> QED BY <1>2, <1>3 DEF Inherits, Handed

\* A request that raises the revision leaves an abort known: no other copy
\* has the new one.
LEMMA RaisedKnown ==
    ASSUME IInv, CopiesAreOld, lock = Unlocked, NEW b \in Boards, Known(b),
           NEW image \in Board, image.rev = disk[b].rev + 1,
           lock'.image = image,
           UNCHANGED <<disk, poll, wboard, snap>>
    PROVE  Known(b)'
<1>1. \A f \in Copies(b)' : f \in Copies(b) \/ f = image
  BY CopiesAre, CopiesAfter
<1>2. \A f \in Copies(b) : f.rev \in Nat /\ f.rev <= disk[b].rev
  <2>1. disk[b].rev \in Nat /\ lock.board # b
    BY UnlockedType, BoardControlAssumption DEF IInv, TypeOK, Board
  <2>2. \A w \in Workers : wboard[w] = b => snap[w].rev \in Nat /\ snap[w].rev <= disk[b].rev
    BY DEF IInv, TypeOK, Board, CopiesAreOld, WorkersOf
  <2>3. poll.board = b => poll.image.rev \in Nat /\ poll.image.rev <= disk[b].rev
    BY DEF IInv, TypeOK, Board, CopiesAreOld
  <2> QED BY <2>1, <2>2, <2>3, CopiesAre
<1>3. disk[b].rev \in Nat
  BY DEF IInv, TypeOK, Board
<1> SUFFICES ASSUME NEW d \in Copies(b)', NEW e \in Copies(b)',
                    d.rev = e.rev, d.status = "cancelled"
             PROVE  e.status \in Stopped
  BY DEF Known
<1>4. CASE d = image
  BY <1>1, <1>2, <1>3, <1>4 DEF Stopped
<1>5. CASE e = image /\ d # image
  BY <1>1, <1>2, <1>3, <1>5
<1> QED BY <1>1, <1>4, <1>5 DEF Known

\* What save_board writes has the revision and the status of what it is given
\* or of what it replaces.
LEMMA SavedPair ==
    ASSUME NEW run \in Board, NEW current \in Board,
           NEW m, m = PreserveNewerControlState(run, current)
    PROVE  /\ m \in Board
           /\ current.rev <= run.rev => Same(run, m)
           /\ ~(current.rev <= run.rev) => Same(current, m)
<1>1. m \in Board
  BY PreserveMerges
<1>2. CASE current.rev <= run.rev
  BY <1>1, <1>2 DEF PreserveNewerControlState, Same
<1>3. CASE ~(current.rev <= run.rev)
  <2> DEFINE control == [run EXCEPT
                      !.rev = current.rev, !.status = current.status,
                      !.active = current.active, !.loop = current.loop,
                      !.pause = current.pause, !.sched = current.sched]
  <2>1. control \in Board /\ control.rev = current.rev
        /\ control.status = current.status
    BY DEF Board
  <2> DEFINE kept(T) == [control EXCEPT !.cur = current.cur, !.call = current.call,
                                        !.task = T]
  <2>2. m = control \/ \E T : m = kept(T)
    BY <1>3, Zenon DEF PreserveNewerControlState
  <2>3. \A T : Same(control, kept(T))
    <3> HIDE DEF control
    <3> QED BY <2>1 DEF Same, Board
  <2>4. Same(control, m)
    <3> HIDE DEF control, kept
    <3> QED BY <2>2, <2>3 DEF Same
  <2> QED BY <1>1, <1>3, <2>1, <2>4 DEF Same
<1> QED BY <1>1, <1>2, <1>3

\* What changes of a board leave its revision and status.
LEMMA PairMoveAll ==
    ASSUME NEW d \in Board, NEW T, NEW value
    PROVE  Same(d, MoveAll(d, T, value))
BY DEF Same, MoveAll, Board

\* Halting sets the status.
LEMMA PairHalt ==
    ASSUME NEW d \in Board, NEW value
    PROVE  Halt(d, value).rev = d.rev /\ Halt(d, value).status = value
BY DEF Halt, Board

\* Other fields do not count.
LEMMA PairFields ==
    ASSUME NEW d \in Board, NEW u, NEW v
    PROVE  /\ Same(d, [d EXCEPT !.cur = u]) /\ Same(d, [d EXCEPT !.call = u])
           /\ Same(d, [d EXCEPT !.cur = u, !.call = v])
           /\ Same(d, [d EXCEPT !.pause = u, !.cur = v])
           /\ Same(d, [d EXCEPT !.sched = u, !.pause = v])
           /\ Same(d, [d EXCEPT !.sched = u]) /\ Same(d, [d EXCEPT !.loop = u])
           /\ Same(d, [d EXCEPT !.retry = u])
BY DEF Same, Board

\* Reconciling and arming a retry leave the pair.
LEMMA PairLoaded ==
    ASSUME NEW d \in Board, NEW b
    PROVE  Same(d, Reconcile(d)) /\ Same(d, ArmRetry(b, d))
BY PairMoveAll, PairFields DEF Reconcile, ArmRetry, Same

\* Retrying cards leaves the revision.
LEMMA PairRetry ==
    ASSUME NEW d \in Board, NEW T
    PROVE  RequestRetry(d, T) \in Board /\ RequestRetry(d, T).rev = d.rev
<1> DEFINE e == MoveAll(d, T, "todo")
<1>1. e \in Board /\ Same(d, e)
  BY SoundMoveAll, PairMoveAll DEF Sound, TaskStatuses
<1> HIDE DEF e
<1>2. [e EXCEPT !.status = "running", !.active = TRUE, !.loop = FALSE].rev = e.rev
  BY <1>1 DEF Board
<1>3. RequestRetry(d, T).rev = e.rev
  BY <1>2 DEF RequestRetry, e
<1>4. RequestRetry(d, T) \in Board
  BY SoundRequestRetry DEF Sound
<1> QED BY <1>1, <1>3, <1>4 DEF Same

\* Counting an automatic retry leaves the revision.
LEMMA PairCounted ==
    ASSUME NEW d \in Board
    PROVE  /\ [d EXCEPT !.retry = FALSE, !.tries = @ + 1] \in Board
           /\ [d EXCEPT !.retry = FALSE, !.tries = @ + 1].rev = d.rev
           /\ [d EXCEPT !.retry = FALSE] \in Board
           /\ Same(d, [d EXCEPT !.retry = FALSE])
<1>1. d.tries + 1 \in Nat
  BY DEF Board
<1>2. ASSUME NEW n \in Nat
      PROVE  /\ [d EXCEPT !.retry = FALSE, !.tries = n] \in Board
             /\ [d EXCEPT !.retry = FALSE, !.tries = n].rev = d.rev
  BY DEF Board
<1>3. [d EXCEPT !.retry = FALSE] \in Board /\ Same(d, [d EXCEPT !.retry = FALSE])
  BY DEF Board, Same
<1> QED BY <1>1, <1>2, <1>3, Zenon

\* Settling a pause leaves a paused board of the same revision.
LEMMA PairSettlePause ==
    ASSUME NEW d \in Board
    PROVE  SettlePause(d).rev = d.rev /\ SettlePause(d).status = "paused"
<1> DEFINE e == MoveAll(d, In(d, "in_progress") \cap {d.cur}, "todo")
           f == Halt(e, "paused")
<1>1. Same(d, e) /\ e \in Board
  BY PairMoveAll, SoundMoveAll DEF Sound, TaskStatuses
<1> HIDE DEF e
<1>2. f.rev = e.rev /\ f.status = "paused" /\ f \in Board
  BY <1>1, PairHalt, HaltType DEF BoardStatuses
<1> HIDE DEF f
<1>3. Same(f, [f EXCEPT !.pause = FALSE, !.cur = NoTask])
  BY <1>2 DEF Same, Board
<1>4. SettlePause(d) = [f EXCEPT !.pause = FALSE, !.cur = NoTask]
  BY DEF SettlePause, e, f
<1> QED BY <1>1, <1>2, <1>3, <1>4 DEF Same

\* Concluding a board halts it, never as cancelled.
LEMMA PairConclude ==
    ASSUME NEW d \in Board
    PROVE  /\ Conclude(d).rev = d.rev
           /\ Conclude(d).status \in {"blocked", "completed", "paused"}
<1> DEFINE e == MoveAll(d, In(d, "todo"), "waiting")
<1>1. Same(d, e) /\ e \in Board
  BY PairMoveAll, SoundMoveAll DEF Sound, TaskStatuses
<1>2. Halt(e, "blocked").rev = d.rev /\ Halt(e, "blocked").status = "blocked"
  BY <1>1, PairHalt DEF Same
<1>3. ASSUME NEW value \in BoardStatuses
      PROVE  Halt(d, value).rev = d.rev /\ Halt(d, value).status = value
             /\ Halt(d, value) \in Board
  BY PairHalt, HaltType
<1>4. Same(Halt(d, "completed"), [Halt(d, "completed") EXCEPT !.cur = NoTask])
  BY <1>3 DEF Same, Board, BoardStatuses
<1> QED BY <1>2, <1>3, <1>4 DEF Conclude, Same, BoardStatuses

\* Control requests raise the revision by one.
LEMMA PairRaised ==
    ASSUME NEW d \in Board
    PROVE  /\ RequestPause(d).rev = d.rev + 1 /\ PrepareResume(d).rev = d.rev + 1
           /\ MarkStarted(d).rev = d.rev + 1 /\ Cancel(d).rev = d.rev + 1
           /\ MarkScheduled(d).rev = d.rev + 1 /\ DropSchedule(d).rev = d.rev + 1
<1> DEFINE g == Bump(d)
<1>1. g \in Board /\ g.rev = d.rev + 1
  BY SoundBump DEF Sound
<1> HIDE DEF g
<1>2. RequestPause(d).rev = d.rev + 1
  <2>1. [g EXCEPT !.status = "pausing", !.active = TRUE, !.pause = TRUE].rev = g.rev
    BY <1>1 DEF Board
  <2> QED BY <1>1, <2>1, PairSettlePause DEF RequestPause, g
<1>3. PrepareResume(d).rev = d.rev + 1
  <2>1. [g EXCEPT !.status = "running", !.active = TRUE, !.pause = FALSE,
                  !.sched = FALSE].rev = g.rev
    BY <1>1 DEF Board
  <2> QED BY <1>1, <2>1 DEF PrepareResume, g
<1>4. MarkStarted(d).rev = d.rev + 1
  BY <1>3, SoundPrepareResume, PairFields DEF MarkStarted, Sound, Same
<1>5. Cancel(d).rev = d.rev + 1
  <2> DEFINE e == MoveAll(g, In(d, "in_progress"), "todo")
             f == Halt(e, "cancelled")
  <2>1. e \in Board /\ e.rev = g.rev
    BY <1>1, PairMoveAll, SoundMoveAll DEF Sound, Same, TaskStatuses
  <2> HIDE DEF e
  <2>2. f \in Board /\ f.rev = g.rev
    BY <2>1, PairHalt, HaltType DEF BoardStatuses
  <2> HIDE DEF f
  <2>3. Cancel(d) = [f EXCEPT !.cur = NoTask, !.call = FALSE]
    BY DEF Cancel, e, f, g
  <2> QED BY <1>1, <2>2, <2>3, PairFields DEF Same
<1>6. MarkScheduled(d).rev = d.rev + 1
  <2>1. [g EXCEPT !.status = "scheduled", !.sched = TRUE, !.pause = FALSE,
                  !.call = FALSE].rev = g.rev
    BY <1>1 DEF Board
  <2> QED BY <1>1, <2>1 DEF MarkScheduled, g
<1>7. DropSchedule(d).rev = d.rev + 1
  <2> DEFINE f == Halt(g, "paused")
  <2>1. f \in Board /\ f.rev = g.rev
    BY <1>1, PairHalt, HaltType DEF BoardStatuses
  <2> HIDE DEF f
  <2>2. /\ [f EXCEPT !.sched = FALSE, !.pause = FALSE].rev = f.rev
        /\ [g EXCEPT !.sched = FALSE].rev = g.rev
    BY <1>1, <2>1, PairFields DEF Same
  <2> QED BY <1>1, <2>1, <2>2 DEF DropSchedule, f, g
<1> QED BY <1>2, <1>3, <1>4, <1>5, <1>6, <1>7

-----------------------------------------------------------------------------
(* The ways a step hands copies on.                                         *)

\* A request under the lock, that raises the revision or hands the file on.
LEMMA EditAbort ==
    ASSUME IInv, AbortInv, NEW b \in Boards, NEW image \in Board,
           lock = Unlocked, lock'.board = b, lock'.image = image,
           UNCHANGED <<disk, poll, wboard, snap, recovering, crashes>>,
           \A v \in Workers :
              \/ pc'[v] = pc[v]
              \/ pc'[v] \notin {"recover", "surrender", "plan", "choose"},
           \/ image.rev = disk[b].rev + 1 /\ lock'.by = NoWorker
           \/ /\ image.rev = disk[b].rev
              /\ Requests \cap Unrevised = {} => Follows(disk[b], image)
    PROVE  AbortInv'
<1>1. CopiesAreOld'
  <2>1. disk[b].rev \in Nat
    BY DEF IInv, TypeOK, Board
  <2> QED BY <2>1 DEF AbortInv, CopiesAreOld, WorkersOf
<1>2. ASSUME Revised
      PROVE  GoingOn' /\ \A c \in Boards \ AutoRetry : Known(c)'
  <2>1. GoingOn'
    BY <1>2 DEF AbortInv, GoingOn
  <2>2. ASSUME NEW c \in Boards \ AutoRetry
        PROVE  Known(c)'
    <3>0. Known(c)
      BY <1>2 DEF AbortInv
    <3>1. CASE c # b
      <4>1. Copies(c)' \subseteq Copies(c)
        BY <3>1, CopiesAre, CopiesAfter
      <4> QED BY <3>0, <4>1 DEF Known
    <3>2. CASE c = b /\ image.rev = disk[b].rev + 1
      BY <3>0, <3>2, RaisedKnown DEF AbortInv
    <3>3. CASE c = b /\ Follows(disk[b], image)
      <4>1. Inherits(b)
        BY <3>3, CopiesAre, CopiesAfter, KeptIsHanded DEF Inherits, Handed
      <4> QED BY <3>0, <3>3, <4>1, InheritsKnown
    <3> QED BY <1>2, <3>1, <3>2, <3>3 DEF Revised
  <2> QED BY <2>1, <2>2
<1> QED BY <1>1, <1>2 DEF AbortInv, Revised

\* The poller holds what it read.
LEMMA PollAbort ==
    ASSUME IInv, AbortInv, NEW b \in Boards, NEW image \in Board,
           poll'.board = b, poll'.image = image,
           UNCHANGED <<disk, lock, wboard, pc, snap, recovering, crashes>>,
           image.rev = disk[b].rev, b \notin AutoRetry => Follows(disk[b], image)
    PROVE  AbortInv'
<1>1. CopiesAreOld'
  <2>1. disk[b].rev \in Nat
    BY DEF IInv, TypeOK, Board
  <2> QED BY <2>1 DEF AbortInv, CopiesAreOld, WorkersOf
<1>2. ASSUME Revised
      PROVE  GoingOn' /\ \A c \in Boards \ AutoRetry : Known(c)'
  <2>1. GoingOn'
    BY <1>2 DEF AbortInv, GoingOn
  <2>2. ASSUME NEW c \in Boards \ AutoRetry
        PROVE  Known(c)'
    <3>1. Known(c)
      BY <1>2 DEF AbortInv
    <3>2. Inherits(c)
      BY CopiesAre, CopiesAfter, KeptIsHanded DEF Inherits, Handed
    <3> QED BY <3>1, <3>2, InheritsKnown
  <2> QED BY <2>1, <2>2
<1> QED BY <1>1, <1>2 DEF AbortInv, Revised

\* A worker changes the copy it holds, or reads the file.
LEMMA HoldAbort ==
    ASSUME IInv, AbortInv, NEW w \in Workers, wboard[w] \in Boards,
           NEW d \in Board, NEW label \in PCs \ {"recover", "surrender"},
           Hold(w, d, label),
           \/ Follows(snap[w], d) \/ Follows(File(w), d)
           \/ d.rev = File(w).rev /\ d.status \in Stopped \ {"cancelled"},
           label \in {"plan", "choose"} => d.status \notin Stopped
    PROVE  AbortInv'
<1> USE DEF Hold, Goto, requestVars
<1>0. TypeOK /\ snap[w] \in Copies(wboard[w]) /\ disk[wboard[w]] \in Copies(wboard[w])
  BY CopiesAre DEF IInv
<1>1. CopiesAreOld'
  <2>1. d.rev = snap[w].rev \/ d.rev = disk[wboard[w]].rev
    BY DEF Follows, File
  <2>2. snap[w].rev <= disk[wboard[w]].rev /\ disk[wboard[w]].rev \in Nat
    BY <1>0 DEF AbortInv, CopiesAreOld, WorkersOf, TypeOK, Board
  <2>3. d.rev <= disk[wboard[w]].rev
    BY <2>1, <2>2
  <2>4. \A v \in Workers : snap'[v] = IF v = w THEN d ELSE snap[v]
    BY <1>0 DEF TypeOK
  <2> QED BY <2>3, <2>4 DEF AbortInv, CopiesAreOld, WorkersOf
<1>2. ASSUME Revised
      PROVE  GoingOn' /\ \A c \in Boards \ AutoRetry : Known(c)'
  <2>1. GoingOn'
    BY <1>0, <1>2 DEF AbortInv, GoingOn, TypeOK
  <2>2. ASSUME NEW c \in Boards \ AutoRetry
        PROVE  Known(c)'
    <3>1. Known(c)
      BY <1>2 DEF AbortInv
    <3>2. \A v \in Workers : snap'[v] = IF v = w THEN d ELSE snap[v]
      BY <1>0 DEF TypeOK
    <3>3. Handed(wboard[w], d)
      BY <1>0 DEF Handed, File
    <3>4. Inherits(c)
      BY <3>2, <3>3, CopiesAre, CopiesAfter, KeptIsHanded DEF Inherits
    <3> QED BY <3>1, <3>4, InheritsKnown
  <2> QED BY <2>1, <2>2
<1> QED BY <1>1, <1>2 DEF AbortInv, Revised

\* What a save writes is one of two copies as far as an abort is concerned.
LEMMA SavedIsHanded ==
    ASSUME IInv, NEW b \in Boards, NEW d \in Board, SaveBoard(b, d), Handed(b, d)
    PROVE  \A c \in Boards : Handed(c, disk'[c])
<1> DEFINE m == PreserveNewerControlState(d, disk[b])
<1>1. disk[b] \in Board /\ disk' = [disk EXCEPT ![b] = m]
  BY DEF IInv, TypeOK, SaveBoard
<1>2. Same(d, m) \/ Same(disk[b], m)
  BY <1>1, SavedPair
<1> HIDE DEF m
<1>3. \A c \in Boards : disk'[c] = IF c = b THEN m ELSE disk[c]
  BY <1>1 DEF IInv, TypeOK
<1>4. \A c \in Boards : Handed(c, disk[c])
  BY CopiesAre, KeptIsHanded
<1>5. ASSUME NEW e, Handed(b, e), Same(e, m) PROVE Handed(b, m)
  BY <1>5 DEF Handed, Follows, Same
<1> QED BY <1>2, <1>3, <1>4, <1>5

\* A save raises the revision of the file to that of the copy at most.
LEMMA SavedRevision ==
    ASSUME TypeOK, NEW b \in Boards, NEW d \in Board, SaveBoard(b, d)
    PROVE  /\ \A c \in Boards : c # b => disk'[c] = disk[c]
           /\ disk'[b].rev \in Nat /\ disk'[b].rev >= disk[b].rev
           /\ disk'[b].rev >= d.rev
           /\ d.rev <= disk[b].rev => disk'[b].rev = disk[b].rev
<1> DEFINE m == PreserveNewerControlState(d, disk[b])
<1>1. disk[b] \in Board /\ disk' = [disk EXCEPT ![b] = m]
  BY DEF TypeOK, SaveBoard
<1>2. /\ m \in Board
      /\ disk[b].rev <= d.rev => Same(d, m)
      /\ ~(disk[b].rev <= d.rev) => Same(disk[b], m)
  BY <1>1, SavedPair
<1> HIDE DEF m
<1>3. disk[b].rev \in Nat /\ d.rev \in Nat /\ m.rev \in Nat
  BY <1>1, <1>2 DEF Board
<1> QED BY <1>1, <1>2, <1>3 DEF TypeOK, Same

\* A worker saves the copy it holds, changed.
LEMMA PublishAbort ==
    ASSUME IInv, AbortInv, NEW w \in Workers, wboard[w] \in Boards,
           NEW d \in Board, NEW label \in PCs \ {"recover", "surrender"},
           Publish(w, d, label), d.rev = snap[w].rev,
           Revised => /\ Follows(snap[w], d)
                      /\ label \in {"plan", "choose"} => d.status \notin Stopped
    PROVE  AbortInv'
<1> USE DEF Publish, Goto, requestVars
<1> DEFINE b == wboard[w]
<1>0. TypeOK /\ snap[w] \in Copies(b) /\ \A v \in Workers :
                    snap'[v] = IF v = w THEN d ELSE snap[v]
  BY CopiesAre DEF IInv, TypeOK
<1>1. CopiesAreOld'
  <2>1. snap[w].rev <= disk[b].rev /\ d.rev <= disk[b].rev
    BY DEF AbortInv, CopiesAreOld, WorkersOf
  <2>2. \A c \in Boards : disk'[c].rev = disk[c].rev
    BY <1>0, <2>1, SavedRevision
  <2> QED BY <1>0, <2>1, <2>2 DEF AbortInv, CopiesAreOld, WorkersOf
<1>2. ASSUME Revised
      PROVE  GoingOn' /\ \A c \in Boards \ AutoRetry : Known(c)'
  <2>1. GoingOn'
    BY <1>0, <1>2 DEF AbortInv, GoingOn, TypeOK
  <2>2. ASSUME NEW c \in Boards \ AutoRetry
        PROVE  Known(c)'
    <3>1. Known(c)
      BY <1>2 DEF AbortInv
    <3>2. Handed(b, d)
      BY <1>0, <1>2 DEF Handed
    <3>3. Handed(c, disk'[c])
      BY <3>2, SavedIsHanded
    <3>4. Inherits(c)
      BY <1>0, <3>2, <3>3, CopiesAre, CopiesAfter, KeptIsHanded DEF Inherits
    <3> QED BY <3>1, <3>4, InheritsKnown
  <2> QED BY <2>1, <2>2
<1> QED BY <1>1, <1>2 DEF AbortInv, Revised

\* An editor saves its copy and releases the lock; a worker may start with it.
LEMMA UnlockAbort ==
    ASSUME IInv, AbortInv, lock.board \in Boards, SaveBoard(lock.board, lock.image),
           lock' = Unlocked, UNCHANGED <<poll, snap, recovering, crashes>>,
           \A v \in Workers :
              /\ \/ pc'[v] = pc[v]
                 \/ pc'[v] \notin {"recover", "surrender", "plan", "choose"}
              /\ \/ wboard'[v] = wboard[v]
                 \/ snap[v] = Blank
    PROVE  AbortInv'
<1> DEFINE b == lock.board
<1>0. TypeOK /\ lock.image \in Board /\ lock.image \in Copies(b)
  BY CopiesAre DEF IInv, TypeOK
<1>1. \A c \in Boards : disk'[c].rev \in Nat /\ disk'[c].rev >= disk[c].rev
                        /\ disk[c].rev \in Nat
  <2>1. \A c \in Boards : disk[c].rev \in Nat
    BY <1>0 DEF TypeOK, Board
  <2>2. /\ \A c \in Boards : c # b => disk'[c] = disk[c]
        /\ disk'[b].rev \in Nat /\ disk'[b].rev >= disk[b].rev
    BY <1>0, SavedRevision
  <2> QED BY <2>1, <2>2
<1>2. \A v \in Workers : wboard'[v] = wboard[v] \/ snap[v] = Blank
  OBVIOUS
<1>3. Blank.rev = 0 /\ Blank.status = "paused"
  BY DEF Blank
<1>4. CopiesAreOld'
  <2>1. ASSUME NEW c \in Boards, NEW v \in Workers, wboard'[v] = c
        PROVE  snap[v].rev <= disk'[c].rev
    <3>1. CASE wboard[v] = c
      <4>1. snap[v].rev <= disk[c].rev /\ snap[v].rev \in Nat
        BY <1>0, <3>1 DEF AbortInv, CopiesAreOld, WorkersOf, TypeOK, Board
      <4> QED BY <1>1, <4>1
    <3>2. CASE snap[v] = Blank
      BY <1>1, <1>3, <3>2
    <3> QED BY <1>2, <2>1, <3>1, <3>2
  <2>2. ASSUME NEW c \in Boards, poll.board = c
        PROVE  poll.image.rev <= disk'[c].rev
    <3>1. poll.image.rev <= disk[c].rev /\ poll.image.rev \in Nat
      BY <1>0, <2>2 DEF AbortInv, CopiesAreOld, TypeOK, Board
    <3> QED BY <1>1, <3>1
  <2>3. Unlocked.board \notin Boards
    BY UnlockedType, BoardControlAssumption
  <2> QED BY <2>1, <2>2, <2>3 DEF CopiesAreOld, WorkersOf
<1>5. ASSUME Revised
      PROVE  GoingOn' /\ \A c \in Boards \ AutoRetry : Known(c)'
  <2>1. GoingOn'
    BY <1>0, <1>5 DEF AbortInv, GoingOn, TypeOK
  <2>2. ASSUME NEW c \in Boards \ AutoRetry
        PROVE  Known(c)'
    <3>1. Known(c)
      BY <1>5 DEF AbortInv
    <3>2. Handed(c, disk'[c])
      BY <1>0, KeptIsHanded, SavedIsHanded
    <3>3. \A v \in Workers : wboard'[v] = c => Handed(c, snap[v])
      BY <1>2, <1>3, CopiesAre, KeptIsHanded DEF Handed, Stopped
    <3>4. Unlocked.board # c
      BY UnlockedType, BoardControlAssumption
    <3>5. Inherits(c)
      BY <3>2, <3>3, <3>4, CopiesAre, CopiesAfter, KeptIsHanded DEF Inherits
    <3> QED BY <3>1, <3>5, InheritsKnown
  <2> QED BY <2>1, <2>2
<1> QED BY <1>4, <1>5 DEF AbortInv, Revised

\* The poller saves its copy, or a worker that leaves does.
LEMMA StoreAbort ==
    ASSUME IInv, AbortInv, NEW b \in Boards, NEW d \in Copies(b), d \in Board,
           d.rev <= disk[b].rev,
           SaveBoard(b, d) \/ UNCHANGED disk,
           UNCHANGED <<lock, recovering, crashes>>,
           poll' = poll \/ poll' = NoPoll,
           \A v \in Workers : \/ /\ wboard'[v] = wboard[v] /\ snap'[v] = snap[v]
                                 /\ pc'[v] = pc[v]
                              \/ wboard'[v] = NoBoard /\ pc'[v] = "idle"
    PROVE  AbortInv'
<1>0. TypeOK
  BY DEF IInv
<1>1. \A c \in Boards : disk'[c].rev = disk[c].rev
  BY <1>0, SavedRevision
<1>2. NoPoll.board \notin Boards
  BY NoPollType, BoardControlAssumption
<1>3. CopiesAreOld'
  BY <1>1, <1>2, BoardControlAssumption DEF AbortInv, CopiesAreOld, WorkersOf
<1>4. ASSUME Revised
      PROVE  GoingOn' /\ \A c \in Boards \ AutoRetry : Known(c)'
  <2>1. GoingOn'
    BY <1>4 DEF AbortInv, GoingOn
  <2>2. ASSUME NEW c \in Boards \ AutoRetry
        PROVE  Known(c)'
    <3>1. Known(c)
      BY <1>4 DEF AbortInv
    <3>2. Handed(c, disk'[c])
      BY CopiesAre, KeptIsHanded, SavedIsHanded
    <3>3. Inherits(c)
      BY <1>2, <3>2, CopiesAre, CopiesAfter, KeptIsHanded, BoardControlAssumption
         DEF Inherits
    <3> QED BY <3>1, <3>3, InheritsKnown
  <2> QED BY <2>1, <2>2
<1> QED BY <1>3, <1>4 DEF AbortInv, Revised

-----------------------------------------------------------------------------
(* Every action keeps what is known of aborts.                              *)

\* Requests and the poller.
LEMMA RequestAbort ==
    ASSUME IInv, AbortInv, NEW b \in Boards, Request(b)
    PROVE  AbortInv'
<1> DEFINE d == disk[b]
<1>1. d \in Board /\ d.rev \in Nat
  BY DEF IInv, TypeOK, Board
<1>2. ASSUME NEW image, NEW next, Edit(b, image, next), UNCHANGED owner,
             image \in Board,
             \/ image.rev = d.rev + 1
             \/ /\ image.rev = d.rev
                /\ Requests \cap Unrevised = {} => Follows(d, image)
      PROVE  AbortInv'
  BY <1>2, EditAbort DEF Edit, workerVars
<1>3. \A e : Sound(d, e) => e \in Board
  BY DEF Sound
<1>4. CASE PauseBoard(b) \/ StartBoard(b) \/ AbortBoard(b) \/ ScheduleBoard(b)
           \/ ClearBoardSchedule(b)
  <2>1. /\ RequestPause(d) \in Board /\ PrepareResume(d) \in Board
        /\ Cancel(d) \in Board /\ MarkScheduled(d) \in Board
        /\ DropSchedule(d) \in Board
    BY <1>1, <1>3, SoundRequestPause, SoundPrepareResume, SoundCancel,
       SoundMarkScheduled, SoundDropSchedule
  <2> QED BY <1>1, <1>2, <1>4, <2>1, PairRaised
          DEF PauseBoard, StartBoard, AbortBoard, ScheduleBoard, ClearBoardSchedule
<1>5. CASE ScheduleNow(b)
  BY <1>5 DEF ScheduleNow, workerVars, AbortInv, CopiesAreOld, WorkersOf, Revised,
              GoingOn, Known, Copies
<1>6. CASE RetryAttentionTasks(b)
  <2>1. PICK T : Edit(b, RequestRetry(Reconcile(d), T), "start")
    BY <1>6 DEF RetryAttentionTasks
  <2>2. Reconcile(d) \in Board /\ Same(d, Reconcile(d))
    BY <1>1, <1>3, SoundReconcile, PairLoaded
  <2>3. RequestRetry(Reconcile(d), T) \in Board
        /\ RequestRetry(Reconcile(d), T).rev = d.rev
    BY <2>2, PairRetry DEF Same
  <2>4. "retry" \in Requests
    BY <1>6 DEF RetryAttentionTasks, May
  <2> QED BY <1>2, <1>6, <2>1, <2>3, <2>4 DEF RetryAttentionTasks, Unrevised
<1>7. ASSUME NEW t \in Tasks, PromoteTask(b, t) \/ DemoteTask(b, t)
      PROVE  AbortInv'
  <2>1. ASSUME NEW value \in {"todo", "backlog"}
        PROVE  Move(d, t, value) \in Board /\ Same(d, Move(d, t, value))
    BY <1>1, SoundMoveAll, PairMoveAll DEF Move, Sound, TaskStatuses
  <2> QED BY <1>2, <1>7, <2>1 DEF PromoteTask, DemoteTask, May, Unrevised, Same, Follows
<1>8. ASSUME NEW image, NEW start, Poll(b, image, start), image \in Board,
             image.rev = d.rev, b \notin AutoRetry => Follows(d, image)
      PROVE  AbortInv'
  BY <1>8, PollAbort DEF Poll, workerVars
<1>9. CASE PollArmsRetry(b)
  <2>1. /\ ArmRetry(b, d) \in Board /\ Same(d, ArmRetry(b, d))
        /\ [d EXCEPT !.retry = FALSE] \in Board /\ Same(d, [d EXCEPT !.retry = FALSE])
    <3>1. ArmRetry(b, d) \in Board /\ Same(d, ArmRetry(b, d))
      BY <1>1, <1>3, SoundArmRetry, PairLoaded
    <3>2. [d EXCEPT !.retry = FALSE] \in Board /\ Same(d, [d EXCEPT !.retry = FALSE])
      BY <1>1, PairCounted, Zenon
    <3> QED BY <3>1, <3>2
  <2> QED BY <1>8, <1>9, <2>1 DEF PollArmsRetry, MayRetry, Same
<1>10. CASE PollRetries(b)
  <2> DEFINE due == In(d, "blocked")
             e == RequestRetry(d, due)
  <2>1. b \in AutoRetry
    BY <1>10 DEF PollRetries, MayRetry
  <2>2. e \in Board /\ e.rev = d.rev
    BY <1>1, PairRetry
  <2> HIDE DEF e
  <2>3. [e EXCEPT !.retry = FALSE, !.tries = @ + 1] \in Board
        /\ [e EXCEPT !.retry = FALSE, !.tries = @ + 1].rev = d.rev
    BY <2>2, PairCounted, Zenon
  <2>4. [d EXCEPT !.retry = FALSE] \in Board /\ [d EXCEPT !.retry = FALSE].rev = d.rev
    BY <1>1, PairCounted, Zenon DEF Same
  <2>5. \/ Poll(b, [d EXCEPT !.retry = FALSE], FALSE)
        \/ Poll(b, [e EXCEPT !.retry = FALSE, !.tries = @ + 1], TRUE)
    BY <1>10 DEF PollRetries, e
  <2> QED BY <1>8, <2>1, <2>3, <2>4, <2>5
<1>11. CASE PollSchedule(b)
  <2>1. /\ [d EXCEPT !.sched = FALSE] \in Board /\ Same(d, [d EXCEPT !.sched = FALSE])
        /\ [d EXCEPT !.status = "paused"] \in Board
        /\ [d EXCEPT !.status = "paused"].rev = d.rev
        /\ [d EXCEPT !.status = "paused"].status = "paused"
    BY <1>1 DEF Board, BoardStatuses, Same
  <2> QED BY <1>8, <1>11, <2>1 DEF PollSchedule, Same, Follows, Stopped
<1> QED BY <1>4, <1>5, <1>6, <1>7, <1>9, <1>10, <1>11 DEF Request

\* Starts.
LEMMA ServeAbort ==
    ASSUME IInv, AbortInv, NEW b \in Boards, ServeRequest(b)
    PROVE  AbortInv'
<1>1. CASE StartBoardExecution(b)
  <2>1. MarkStarted(disk[b]) \in Board /\ MarkStarted(disk[b]).rev = disk[b].rev + 1
    BY SoundMarkStarted, PairRaised DEF IInv, TypeOK, Sound
  <2>2. /\ lock = Unlocked /\ lock'.board = b /\ lock'.image = MarkStarted(disk[b])
        /\ lock'.by = NoWorker
        /\ UNCHANGED <<disk, poll, wboard, pc, snap, recovering, crashes>>
    BY <1>1 DEF StartBoardExecution, workerVars
  <2> QED BY <2>1, <2>2, EditAbort
<1>2. CASE RefuseStart(b)
  BY <1>2 DEF RefuseStart, workerVars, AbortInv, CopiesAreOld, WorkersOf, Revised,
              GoingOn, Known, Copies
<1> QED BY <1>1, <1>2 DEF ServeRequest

\* Saves under the lock and of the poller.
LEMMA SaveAbort ==
    ASSUME IInv, AbortInv,
           \/ SaveEdit \/ PollSaves
           \/ \E w \in Workers : SaveStart(w) \/ SaveLink(w)
    PROVE  AbortInv'
<1>0. TypeOK /\ SlotsMatch /\ LockShape
  BY DEF IInv
<1>1. ASSUME lock # Unlocked PROVE lock.board \in Boards
  BY <1>0, <1>1 DEF LockShape
<1>2. ASSUME NEW w \in Workers, SaveStart(w)
      PROVE  AbortInv'
  <2>1. lock.board \in Boards /\ snap[w] = Blank
    BY <1>0, <1>1, <1>2, UnlockedType DEF SaveStart, IdleWorkers, SlotsMatch
  <2>2. \A v \in Workers :
              /\ pc'[v] = pc[v] \/ pc'[v] = "top"
              /\ wboard'[v] = wboard[v] \/ v = w
    BY <1>0, <1>2 DEF SaveStart, TypeOK
  <2> QED BY <1>2, <2>1, <2>2, UnlockAbort DEF SaveStart
<1>3. ASSUME NEW w \in Workers, SaveLink(w)
      PROVE  AbortInv'
  <2>1. lock.board \in Boards
    BY <1>1, <1>3, UnlockedType, BoardControlAssumption DEF SaveLink
  <2>2. \A v \in Workers : pc'[v] = pc[v] \/ pc'[v] \in {"call", "recall"}
    BY <1>0, <1>3 DEF SaveLink, Goto, TypeOK
  <2> QED BY <1>3, <2>1, <2>2, UnlockAbort DEF SaveLink
<1>4. CASE SaveEdit
  BY <1>1, <1>4, UnlockedType, UnlockAbort DEF SaveEdit, workerVars
<1>5. CASE PollSaves
  <2>1. poll.board \in Boards /\ poll.image \in Board
    BY <1>0, <1>5 DEF PollSaves, LockShape, TypeOK
  <2>2. poll.image \in Copies(poll.board) /\ poll.image.rev <= disk[poll.board].rev
    BY <2>1, CopiesAre DEF AbortInv, CopiesAreOld
  <2> QED BY <1>5, <2>1, <2>2, StoreAbort DEF PollSaves, workerVars
<1> QED BY <1>2, <1>3, <1>4, <1>5

\* The worker.
LEMMA ExecuteAbort ==
    ASSUME IInv, AbortInv, NEW w \in Workers, Execute(w)
    PROVE  AbortInv'
<1> DEFINE b == wboard[w]
           d == snap[w]
           f == File(w)
<1>0. TypeOK /\ d \in Board /\ LockShape
  BY DEF IInv, TypeOK
<1>1. pc[w] # "idle" => b \in Boards /\ f \in Board
  BY DEF IInv, TypeOK, SlotsMatch, File
<1> USE DEF PCs, At
<1>2. ASSUME NEW e \in Board, NEW label \in PCs \ {"recover", "surrender"},
             pc[w] # "idle", Hold(w, e, label),
             \/ Follows(d, e) \/ Follows(f, e)
             \/ e.rev = f.rev /\ e.status \in Stopped \ {"cancelled"},
             label \in {"plan", "choose"} => e.status \notin Stopped
      PROVE  AbortInv'
  BY <1>1, <1>2, HoldAbort
<1>3. ASSUME NEW e \in Board, NEW label \in PCs \ {"recover", "surrender"},
             pc[w] # "idle", Publish(w, e, label), e.rev = d.rev,
             Revised => /\ Follows(d, e)
                        /\ label \in {"plan", "choose"} => e.status \notin Stopped
      PROVE  AbortInv'
  BY <1>1, <1>3, PublishAbort
<1>4. Revised /\ pc[w] \in {"plan", "choose"} => d.status \notin Stopped
  BY DEF AbortInv, GoingOn
<1>5. /\ \A e : Sound(d, e) \/ Sound(f, e) => e \in Board
      /\ \A e, g : Same(e, g) => Follows(e, g)
      /\ \A e, g : g.rev = e.rev /\ g.status \in Stopped \ {"cancelled"} => Follows(e, g)
  BY DEF Sound, Same, Follows
<1>6. CASE LoadBoard(w)
  <2> DEFINE armed == IF f.status = "blocked" THEN ArmRetry(b, f) ELSE f
  <2>1. pc[w] = "top" /\ f \in Board
    BY <1>1, <1>6 DEF LoadBoard
  <2>2. armed \in Board /\ Same(f, armed)
    BY <1>5, <2>1, SoundArmRetry, PairLoaded DEF Same
  <2> HIDE DEF armed
  <2>3. /\ Halt(armed, f.status) \in Board
        /\ Halt(armed, f.status).rev = f.rev /\ Halt(armed, f.status).status = f.status
    BY <2>1, <2>2, PairHalt, HaltType DEF Same, Board
  <2>4. SettlePause(f) \in Board /\ SettlePause(f).rev = f.rev
        /\ SettlePause(f).status = "paused"
    BY <1>5, <2>1, SoundSettlePause, PairSettlePause
  <2>5. Reconcile(f) \in Board /\ Same(f, Reconcile(f))
    BY <1>5, <2>1, SoundReconcile, PairLoaded
  <2>6. CASE Hold(w, Halt(armed, f.status), "exit")
    BY <1>2, <2>1, <2>3, <2>6 DEF Follows
  <2>7. CASE Hold(w, SettlePause(f), "exit")
    BY <1>2, <2>1, <2>4, <2>7 DEF Stopped
  <2>8. CASE /\ f.status \notin {"cancelled", "blocked", "completed", "paused"}
             /\ Hold(w, Reconcile(f), "plan")
    BY <1>2, <1>5, <2>1, <2>5, <2>8 DEF Stopped, Same
  <2> QED BY <1>6, <2>6, <2>7, <2>8 DEF LoadBoard, armed
<1>7. CASE SavePlan(w) \/ SaveContext(w) \/ SaveCall(w) \/ SaveExit(w)
  BY <1>0, <1>3, <1>4, <1>7 DEF SavePlan, SaveContext, SaveCall, SaveExit, Follows
<1>8. CASE SaveRecovered(w)
  <2>1. ~Revised
    BY <1>8 DEF SaveRecovered, AbortInv, GoingOn
  <2> QED BY <1>0, <1>3, <1>8, <2>1 DEF SaveRecovered
<1>9. CASE PickTask(w)
  <2>1. PICK t \in Runnable(d) :
            /\ wtask' = [wtask EXCEPT ![w] = t]
            /\ Publish(w, [Move(d, t, "in_progress") EXCEPT
                              !.status = "running", !.cur = t], "prepare")
    BY <1>9, Zenon DEF PickTask
  <2>2. pc[w] = "choose" /\ t \in Tasks
    BY <1>9, <2>1 DEF PickTask, Runnable, In
  <2> DEFINE e == Move(d, t, "in_progress")
             g == [e EXCEPT !.status = "running", !.cur = t]
  <2>3. e \in Board /\ e.rev = d.rev
    BY <1>0, SoundMoveAll, PairMoveAll DEF Move, TaskStatuses, Sound, Same
  <2> HIDE DEF e
  <2>4. g \in Board /\ g.rev = d.rev /\ g.status = "running"
    BY <2>2, <2>3 DEF Board, BoardStatuses
  <2> HIDE DEF g
  <2>5. Publish(w, g, "prepare")
    BY <2>1 DEF g, e
  <2>6. Revised => Follows(d, g)
    BY <1>4, <2>2, <2>4 DEF Follows
  <2> QED BY <1>3, <2>2, <2>4, <2>5, <2>6
<1>10. CASE NothingToRun(w)
  <2>1. Conclude(d) \in Board /\ Follows(d, Conclude(d)) /\ Conclude(d).rev = d.rev
    BY <1>0, <1>5, SoundConclude, PairConclude DEF Stopped
  <2> QED BY <1>3, <1>10, <2>1 DEF NothingToRun
<1>11. ASSUME NEW t
       PROVE  /\ Halt(Move(d, t, "blocked"), "blocked") \in Board
              /\ Halt(Move(d, t, "blocked"), "blocked").rev = d.rev
              /\ Follows(d, Halt(Move(d, t, "blocked"), "blocked"))
  <2>1. Move(d, t, "blocked") \in Board /\ Move(d, t, "blocked").rev = d.rev
    BY <1>0, SoundMoveAll, PairMoveAll DEF Move, TaskStatuses, Sound, Same
  <2> QED BY <1>5, <2>1, PairHalt, HaltType DEF BoardStatuses, Stopped
<1>12. CASE PrepareGit(w) \/ FinalizeGitFails(w)
  BY <1>0, <1>3, <1>11, <1>12 DEF PrepareGit, FinalizeGitFails, Follows
<1>13. CASE ReloadBoard(w) \/ BeginCall(w)
  <2>1. pc[w] \in {"reload", "recheck"} /\ f \in Board
    BY <1>1, <1>13 DEF ReloadBoard, BeginCall, Recheck
  <2>2. /\ SettlePause(f) \in Board /\ SettlePause(f).rev = f.rev
        /\ SettlePause(f).status = "paused"
    BY <1>5, <2>1, SoundSettlePause, PairSettlePause
  <2>3. [f EXCEPT !.call = TRUE] \in Board /\ Same(f, [f EXCEPT !.call = TRUE])
    BY <2>1 DEF Board, Same
  <2>4. \/ Hold(w, SettlePause(f), "exit")
        \/ Hold(w, f, "attach")
        \/ Hold(w, [f EXCEPT !.call = TRUE], "dial")
    BY <1>13 DEF ReloadBoard, BeginCall, Recheck
  <2> HIDE DEF f
  <2> QED BY <1>2, <1>5, <2>1, <2>2, <2>3, <2>4 DEF Stopped, Follows
<1>14. CASE ProviderInterrupted(w)
  <2>1. /\ pc[w] \in {"call", "recall"}
        /\ Hold(w, f, "interrupted") \/ Hold(w, d, "interrupted")
    BY <1>14 DEF ProviderInterrupted
  <2> QED BY <1>0, <1>1, <1>2, <2>1 DEF Follows
<1>15. ASSUME NEW outcome \in {"done", "blocked", "failed"}, ApplyResult(w, outcome)
       PROVE  AbortInv'
  <2> DEFINE e == Move(d, wtask[w], outcome)
             g == [e EXCEPT !.cur = NoTask, !.call = FALSE]
  <2>1. pc[w] # "idle" /\ Publish(w, g, "top")
    BY <1>15 DEF ApplyResult
  <2>2. e \in Board /\ Same(d, e)
    <3>1. Same(d, e)
      BY <1>0, PairMoveAll DEF Move
    <3>2. e \in Board
      BY <1>0 DEF Move, MoveAll, Board, TaskStatuses
    <3> QED BY <3>1, <3>2
  <2> HIDE DEF e
  <2>3. g \in Board /\ Same(e, g)
    BY <2>2 DEF Board, Same
  <2> HIDE DEF g
  <2>4. g.rev = d.rev /\ Follows(d, g)
    BY <2>2, <2>3 DEF Same, Follows
  <2> QED BY <1>3, <2>1, <2>3, <2>4
<1>16. CASE LinkTaskSession(w)
  <2>1. /\ lock = Unlocked /\ pc[w] \in {"started", "redial"}
        /\ lock'.board = b /\ lock'.image = [f EXCEPT !.call = TRUE]
        /\ \A v \in Workers : pc'[v] = pc[v] \/ pc'[v] \in {"linking", "relinking"}
        /\ UNCHANGED <<disk, poll, wboard, snap, recovering, crashes>>
    BY <1>0, <1>16 DEF LinkTaskSession, Goto, TypeOK
  <2>2. [f EXCEPT !.call = TRUE] \in Board /\ Same(f, [f EXCEPT !.call = TRUE])
    BY <1>1, <2>1 DEF Board, Same
  <2>3. b \in Boards /\ f = disk[b]
    BY <1>1, <2>1 DEF File
  <2>4. lock'.image \in Board /\ lock'.image.rev = disk[b].rev
        /\ Follows(disk[b], lock'.image)
    BY <2>1, <2>2, <2>3 DEF Same, Follows
  <2> HIDE DEF b, f
  <2> QED BY <2>1, <2>3, <2>4, EditAbort
<1>17. CASE ReleaseProject(w) \/ SaveSurrender(w)
  <2>1. /\ b \in Boards /\ d \in Copies(b) /\ d.rev <= disk[b].rev
    BY <1>1, <1>17, CopiesAre
       DEF ReleaseProject, SaveSurrender, AbortInv, CopiesAreOld, WorkersOf
  <2>2. /\ SaveBoard(b, d) \/ UNCHANGED disk
        /\ UNCHANGED <<lock, poll, recovering, crashes>>
        /\ \A v \in Workers : \/ /\ wboard'[v] = wboard[v] /\ snap'[v] = snap[v]
                                 /\ pc'[v] = pc[v]
                              \/ wboard'[v] = NoBoard /\ pc'[v] = "idle"
    BY <1>0, <1>17 DEF ReleaseProject, SaveSurrender, Leave, Goto, requestVars, TypeOK
  <2> QED BY <1>0, <2>1, <2>2, StoreAbort
<1>18. CASE SaveLink(w)
  BY <1>18, SaveAbort
<1> QED BY <1>6, <1>7, <1>8, <1>9, <1>10, <1>12, <1>13, <1>14, <1>15, <1>16, <1>17,
        <1>18 DEF Execute

\* What a worker hears from its provider.
LEMMA AnswerAbort ==
    ASSUME IInv, AbortInv, NEW w \in Workers, ProviderAnswers(w) \/ RetryBlocker(w)
    PROVE  AbortInv'
<1>1. snap[w] \in Board
  BY DEF IInv, TypeOK
<1>2. pc[w] # "idle" => wboard[w] \in Boards /\ File(w) \in Board
  BY DEF IInv, TypeOK, SlotsMatch, File
<1> USE DEF PCs, At
<1>3. CASE ProviderAnswers(w)
  BY <1>1, <1>2, <1>3, HoldAbort DEF ProviderAnswers, Follows
<1>4. CASE RetryBlocker(w)
  BY <1>1, <1>2, <1>4, PublishAbort DEF RetryBlocker, Follows
<1> QED BY <1>3, <1>4

\* A death and what startup recovers are not spoken of any more.
LEMMA BootAbort ==
    ASSUME IInv, AbortInv,
           Crash \/ \E b \in Boards, w \in Workers : RecoverBoard(b, w)
    PROVE  AbortInv'
<1>0. TypeOK
  BY DEF IInv
<1>1. CASE Crash
  <2>1. ~Revised'
    BY <1>0, <1>1 DEF Crash, Revised, TypeOK
  <2>2. Unlocked.board \notin Boards /\ NoPoll.board \notin Boards /\ NoBoard \notin Boards
    BY UnlockedType, NoPollType, BoardControlAssumption
  <2> QED BY <1>1, <2>1, <2>2 DEF Crash, AbortInv, CopiesAreOld, WorkersOf
<1>2. ASSUME NEW b \in Boards, NEW w \in Workers, RecoverBoard(b, w)
      PROVE  AbortInv'
  <2>0. /\ recovering # {}
        /\ wboard' = [wboard EXCEPT ![w] = b]
        /\ UNCHANGED <<disk, lock, poll, crashes>>
    BY <1>2, Zenon DEF RecoverBoard, requestVars
  <2>1. ~Revised'
    BY <2>0 DEF AbortInv, GoingOn, Revised
  <2>2. PICK e : e.rev = disk[b].rev /\ snap' = [snap EXCEPT ![w] = e]
    <3>1. disk[b] \in Board
      BY <1>0 DEF TypeOK
    <3>2. [disk[b] EXCEPT !.status = "running", !.active = TRUE, !.loop = TRUE,
                          !.pause = FALSE, !.cur = NoTask].rev = disk[b].rev
      BY <3>1 DEF Board
    <3>3. Halt(disk[b], "blocked").rev = disk[b].rev
      BY <3>1, PairHalt
    <3>4. CASE snap' = [snap EXCEPT ![w] =
                          [disk[b] EXCEPT !.status = "running", !.active = TRUE,
                                          !.loop = TRUE, !.pause = FALSE,
                                          !.cur = NoTask]]
      BY <3>2, <3>4
    <3>5. CASE snap' = [snap EXCEPT ![w] = Halt(disk[b], "blocked")]
      BY <3>3, <3>5
    <3> QED BY <1>2, <3>4, <3>5, Zenon DEF RecoverBoard
  <2>3. \A c \in Boards : disk[c].rev <= disk[c].rev
    BY <1>0 DEF TypeOK, Board
  <2>4. CopiesAreOld'
    BY <1>0, <2>0, <2>2, <2>3 DEF AbortInv, CopiesAreOld, WorkersOf, TypeOK
  <2> QED BY <2>1, <2>4 DEF AbortInv
<1> QED BY <1>1, <1>2

\* What is known of aborts holds at first, and every step keeps it.
LEMMA AbortKnown ==
    /\ Init => AbortInv
    /\ IInv /\ AbortInv /\ [Next]_vars => AbortInv'
<1>1. ASSUME Init PROVE AbortInv
  <2>1. /\ Blank.rev = 0 /\ Blank.status = "paused"
        /\ Unlocked.board \notin Boards /\ NoPoll.board \notin Boards
        /\ NoBoard \notin Boards
    BY UnlockedType, NoPollType, BoardControlAssumption DEF Blank
  <2>2. CopiesAreOld
    BY <1>1, <2>1 DEF Init, CopiesAreOld, WorkersOf
  <2>3. \A b \in Boards : \A e \in Copies(b) : e = Blank
    BY <1>1, <2>1, CopiesAre DEF Init
  <2>4. GoingOn /\ \A b \in Boards : Known(b)
    BY <1>1, <2>1, <2>3 DEF Init, GoingOn, Known
  <2> QED BY <2>2, <2>4 DEF AbortInv
<1>2. ASSUME IInv, AbortInv, [Next]_vars PROVE AbortInv'
  <2>1. CASE UNCHANGED vars
    BY <1>2, <2>1 DEF vars, requestVars, workerVars, AbortInv, CopiesAreOld,
       WorkersOf, Revised, GoingOn, Known, Copies
  <2>2. ASSUME NEW b \in Boards, Request(b) \/ ServeRequest(b) PROVE AbortInv'
    BY <1>2, <2>2, RequestAbort, ServeAbort
  <2>3. CASE SaveEdit \/ PollSaves \/ \E w \in Workers : SaveStart(w)
    BY <1>2, <2>3, SaveAbort
  <2>4. ASSUME NEW w \in Workers, Execute(w) \/ ProviderAnswers(w) \/ RetryBlocker(w)
        PROVE  AbortInv'
    BY <1>2, <2>4, ExecuteAbort, AnswerAbort
  <2>5. CASE Crash \/ \E b \in Boards, w \in Workers : RecoverBoard(b, w)
    BY <1>2, <2>5, BootAbort
  <2> QED BY <1>2, <2>1, <2>2, <2>3, <2>4, <2>5 DEF Next
<1> QED BY <1>1, <1>2

\* A worker that executes a board never saves it as running over an abort.
LEMMA ExecuteHolds ==
    ASSUME IInv, AbortInv, Revised, NEW b \in Boards \ AutoRetry, NEW w \in Workers,
           Execute(w), disk[b].status = "cancelled"
    PROVE  disk'[b].status # "running"
<1> DEFINE d == snap[w]
           c == wboard[w]
<1>0. TypeOK /\ d \in Board /\ disk[b] \in Copies(b) /\ Known(b)
  BY CopiesAre DEF IInv, AbortInv, TypeOK
<1>1. pc[w] # "idle" => c \in Boards /\ d \in Copies(c) /\ d.rev <= disk[c].rev
  BY CopiesAre DEF IInv, TypeOK, SlotsMatch, AbortInv, CopiesAreOld, WorkersOf
<1> USE DEF At
<1>2. CASE UNCHANGED disk
  BY <1>2
<1>3. ASSUME NEW a \in Boards, NEW e \in Board, SaveBoard(a, e), Handed(a, e),
             e.rev <= disk[a].rev
      PROVE  disk'[b].status # "running"
  <2>1. Handed(b, disk'[b])
    BY <1>3, SavedIsHanded
  <2>2. CASE a # b
    BY <1>0, <1>3, <2>2, SavedRevision
  <2>3. CASE a = b
    <3>1. disk'[b].rev = disk[b].rev
      BY <1>0, <1>3, <2>3, SavedRevision
    <3>2. CASE \E g \in Copies(b) : Follows(g, disk'[b])
      BY <1>0, <3>1, <3>2 DEF Known, Follows, Stopped
    <3> QED BY <2>1, <3>2 DEF Handed, Stopped
  <2> QED BY <2>2, <2>3
<1>4. ASSUME NEW e \in Board, NEW label, pc[w] # "idle", Publish(w, e, label),
             e.rev = d.rev, Follows(d, e)
      PROVE  disk'[b].status # "running"
  <2>1. Handed(c, e)
    BY <1>1, <1>4 DEF Handed
  <2> QED BY <1>1, <1>3, <1>4, <2>1 DEF Publish
<1>5. pc[w] \in {"plan", "choose"} => d.status \notin Stopped
  BY DEF AbortInv, GoingOn
<1>6. /\ Follows(d, d)
      /\ \A e : Sound(d, e) => e \in Board
  BY DEF Sound, Follows
<1>7. CASE SavePlan(w) \/ SaveContext(w) \/ SaveCall(w) \/ SaveExit(w) \/ SaveRecovered(w)
  BY <1>0, <1>4, <1>6, <1>7 DEF SavePlan, SaveContext, SaveCall, SaveExit, SaveRecovered
<1>8. CASE PickTask(w)
  <2>1. PICK t \in Runnable(d) :
            /\ wtask' = [wtask EXCEPT ![w] = t]
            /\ Publish(w, [Move(d, t, "in_progress") EXCEPT
                              !.status = "running", !.cur = t], "prepare")
    BY <1>8, Zenon DEF PickTask
  <2>2. pc[w] = "choose" /\ t \in Tasks
    BY <1>8, <2>1 DEF PickTask, Runnable, In
  <2> DEFINE e == Move(d, t, "in_progress")
             g == [e EXCEPT !.status = "running", !.cur = t]
  <2>3. e \in Board /\ e.rev = d.rev
    BY <1>0, SoundMoveAll, PairMoveAll DEF Move, TaskStatuses, Sound, Same
  <2> HIDE DEF e
  <2>4. g \in Board /\ g.rev = d.rev /\ g.status = "running"
    BY <2>2, <2>3 DEF Board, BoardStatuses
  <2> HIDE DEF g
  <2>5. Publish(w, g, "prepare")
    BY <2>1 DEF g, e
  <2>6. Follows(d, g)
    BY <1>5, <2>2, <2>4 DEF Follows
  <2> QED BY <1>4, <2>2, <2>4, <2>5, <2>6
<1>9. CASE NothingToRun(w)
  <2>1. Conclude(d) \in Board /\ Follows(d, Conclude(d)) /\ Conclude(d).rev = d.rev
    BY <1>0, <1>6, SoundConclude, PairConclude DEF Stopped, Follows
  <2> QED BY <1>4, <1>9, <2>1 DEF NothingToRun
<1>10. CASE PrepareGit(w) \/ FinalizeGitFails(w)
  <2> DEFINE e == Halt(Move(d, wtask[w], "blocked"), "blocked")
  <2>1. Move(d, wtask[w], "blocked") \in Board
        /\ Move(d, wtask[w], "blocked").rev = d.rev
    BY <1>0, SoundMoveAll, PairMoveAll DEF Move, TaskStatuses, Sound, Same
  <2>2. e \in Board /\ e.rev = d.rev /\ Follows(d, e)
    BY <2>1, PairHalt, HaltType DEF BoardStatuses, Stopped, Follows
  <2> HIDE DEF e
  <2>3. \E label : pc[w] # "idle" /\ (Publish(w, d, label) \/ Publish(w, e, label))
    BY <1>10 DEF PrepareGit, FinalizeGitFails, e
  <2> QED BY <1>0, <1>4, <1>6, <2>2, <2>3
<1>11. ASSUME NEW outcome \in {"done", "blocked", "failed"}, ApplyResult(w, outcome)
       PROVE  disk'[b].status # "running"
  <2> DEFINE e == Move(d, wtask[w], outcome)
             g == [e EXCEPT !.cur = NoTask, !.call = FALSE]
  <2>1. pc[w] # "idle" /\ Publish(w, g, "top")
    BY <1>11 DEF ApplyResult
  <2>2. e \in Board /\ Same(d, e)
    <3>1. Same(d, e)
      BY <1>0, PairMoveAll DEF Move
    <3>2. e \in Board
      BY <1>0 DEF Move, MoveAll, Board, TaskStatuses
    <3> QED BY <3>1, <3>2
  <2> HIDE DEF e
  <2>3. g \in Board /\ Same(e, g)
    BY <2>2 DEF Board, Same
  <2> HIDE DEF g
  <2> QED BY <1>4, <2>1, <2>2, <2>3 DEF Same, Follows
<1>12. CASE SaveLink(w)
  <2>1. lock.board \in Boards /\ lock.image \in Board
    BY <1>0, <1>12, UnlockedType, BoardControlAssumption DEF SaveLink, IInv, LockShape, TypeOK
  <2>2. lock.image.rev <= disk[lock.board].rev
    BY <1>12, <2>1, BoardControlAssumption DEF SaveLink, AbortInv, CopiesAreOld
  <2>3. Handed(lock.board, lock.image)
    BY <2>1, CopiesAre, KeptIsHanded
  <2> QED BY <1>3, <1>12, <2>1, <2>2, <2>3 DEF SaveLink
<1>13. CASE SaveSurrender(w)
  <2>1. Handed(c, d)
    BY <1>1, <1>13, KeptIsHanded DEF SaveSurrender
  <2> QED BY <1>0, <1>1, <1>3, <1>13, <2>1 DEF SaveSurrender
<1>14. CASE LoadBoard(w) \/ ReloadBoard(w) \/ BeginCall(w) \/ LinkTaskSession(w)
             \/ ProviderInterrupted(w) \/ ReleaseProject(w)
  BY <1>2, <1>14 DEF LoadBoard, ReloadBoard, BeginCall, Recheck, Hold,
     LinkTaskSession, ProviderInterrupted, ReleaseProject
<1> QED BY <1>7, <1>8, <1>9, <1>10, <1>11, <1>12, <1>13, <1>14 DEF Execute

\* An abort holds against every worker that loaded the board before it, unless
\* the board is retried without a new revision or the server was restarted.
THEOREM AbortsHold == Spec => AbortHolds
<1> DEFINE Step == Revised => \A b \in Boards \ AutoRetry, w \in Workers :
                       Execute(w) /\ disk[b].status = "cancelled"
                           => disk'[b].status # "running"
<1>1. Spec => [](IInv /\ AbortInv)
  <2>1. Init => IInv /\ AbortInv
    BY Initial, AbortKnown
  <2>2. (IInv /\ AbortInv) /\ [Next]_vars => (IInv /\ AbortInv)'
    BY Inductive, AbortKnown
  <2> QED BY <2>1, <2>2, PTL DEF Spec
<1>2. IInv /\ AbortInv => Step
  BY ExecuteHolds
<1> QED BY <1>1, <1>2, PTL DEF AbortHolds
=============================================================================
