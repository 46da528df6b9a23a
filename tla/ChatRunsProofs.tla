---------------------------- MODULE ChatRunsProofs ----------------------------
(***************************************************************************)
(* Proofs about ChatRuns for every number of sessions, runs, attempts,     *)
(* records and crashes: IInv is inductive, the invariants follow from it,  *)
(* answered prompts are not run again, and every step of ChatRuns is a     *)
(* step of TurnLedger or leaves it alone.                                  *)
(***************************************************************************)
EXTENDS ChatRunsLedger, TLAPS

(* No run exists, no task is started.                                        *)
LEMMA InitInv == Init => IInv
  BY ChatRunsAssumption
  DEF Init, IInv, TypeOK, BoundToSession, FreshIsBlank, BootIsAlone,
      AttemptIsUnspent, AnswerIsUnsaved, ListedRowsExist, OpenRowIsHeld, PCs,
      Driving, Active, Terminal, Outcomes, BeforeSpawn, BeforeAnswer,
      PromptOfSession, PromptHasOneRun, ShortLived, FlagFollowsTask, FlagOf, Alive,
      Lone, Shown, Cleared

(* Types.  A task or a row is bound to a session before anything is indexed  *)
(* by that session, so the two facts are inductive only together.            *)
LEMMA TypeStep ==
    ASSUME TypeOK, BoundToSession, ListedRowsExist, [Next]_vars
    PROVE  TypeOK' /\ BoundToSession'
  <1> USE ChatRunsAssumption
      DEF TypeOK, BoundToSession, ListedRowsExist, PCs, Driving, Active, Terminal,
          Outcomes, rowVars, chatVars, flagVars, recordVars, finishVars,
          abortVars, bootVars
  <1>1. ASSUME NEW r \in Runs, NEW s \in Sessions, BeginTurn(r, s)
        PROVE  TypeOK' /\ BoundToSession'
    BY <1>1 DEF BeginTurn, SetActive, FreshRuns, Goto
  <1>2. ASSUME NEW r \in Runs, ListStale(r) PROVE TypeOK' /\ BoundToSession'
    BY <1>2 DEF ListStale, ActiveRunsOf, Goto
  <1>3. ASSUME NEW r \in Runs, NEW q \in Runs, InterruptStale(r, q)
        PROVE  TypeOK' /\ BoundToSession'
    BY <1>3 DEF InterruptStale, SetStatus
  <1>4. ASSUME NEW r \in Runs, PersistTurn(r) PROVE TypeOK' /\ BoundToSession'
    BY <1>4 DEF PersistTurn, SetStatus, Goto
  <1>5. ASSUME NEW r \in Runs, PersistFails(r) PROVE TypeOK' /\ BoundToSession'
    BY <1>5 DEF PersistFails, Goto
  <1>6. ASSUME NEW r \in Runs, RejectTurn(r) PROVE TypeOK' /\ BoundToSession'
    BY <1>6 DEF RejectTurn, SetStatus, Goto
  <1>7. ASSUME NEW r \in Runs, Settle(r) PROVE TypeOK' /\ BoundToSession'
    BY <1>7 DEF Settle, SetActive, Goto
  <1>8. ASSUME NEW r \in Runs, PrepareFails(r) PROVE TypeOK' /\ BoundToSession'
    BY <1>8 DEF PrepareFails, Goto
  <1>9. ASSUME NEW r \in Runs, RegisterRun(r)
        PROVE  TypeOK' /\ BoundToSession'
    <2>1. sess[r] \in Sessions
      BY <1>9 DEF RegisterRun
    <2>2. records' \subseteq Sessions
      BY <1>9, <2>1 DEF RegisterRun
    <2>3. handle' \in [Sessions -> Runs \cup {NoRun}]
      BY <1>9, <2>1 DEF RegisterRun
    <2>4. pc' \in [Runs -> PCs] /\ BoundToSession'
      BY <1>9, <2>1 DEF RegisterRun, Goto
    <2>5. QED
      BY <1>9, <2>2, <2>3, <2>4 DEF RegisterRun
  <1>10. ASSUME NEW r \in Runs, SpawnProvider(r)
         PROVE  TypeOK' /\ BoundToSession'
    BY <1>10 DEF SpawnProvider, Goto
  <1>11. ASSUME NEW r \in Runs, SpawnFails(r) PROVE TypeOK' /\ BoundToSession'
    BY <1>11 DEF SpawnFails, Goto
  <1>12. ASSUME NEW r \in Runs, ProviderExits(r)
         PROVE  TypeOK' /\ BoundToSession'
    BY <1>12 DEF ProviderExits, Goto
  <1>13. ASSUME NEW r \in Runs, StopProvider(r)
         PROVE  TypeOK' /\ BoundToSession'
    BY <1>13 DEF StopProvider, Goto
  <1>14. ASSUME NEW r \in Runs, ProviderStopped(r)
         PROVE  TypeOK' /\ BoundToSession'
    BY <1>14 DEF ProviderStopped, Goto
  <1>15. ASSUME NEW r \in Runs, FinishMessage(r)
         PROVE  TypeOK' /\ BoundToSession'
    BY <1>15 DEF FinishMessage, Goto
  <1>16. ASSUME NEW r \in Runs, FinishInactive(r)
         PROVE  TypeOK' /\ BoundToSession'
    BY <1>16 DEF FinishInactive, SetActive, Goto
  <1>17. ASSUME NEW r \in Runs, FinishTerminal(r)
         PROVE  TypeOK' /\ BoundToSession'
    BY <1>17 DEF FinishTerminal, SetStatus, Goto
  <1>18. ASSUME NEW r \in Runs, FinishReadSummary(r)
         PROVE  TypeOK' /\ BoundToSession'
    BY <1>18 DEF FinishReadSummary, Goto
  <1>19. ASSUME NEW r \in Runs, FinishWriteSummary(r)
         PROVE  TypeOK' /\ BoundToSession'
    BY <1>19 DEF FinishWriteSummary, Goto
  <1>20. ASSUME NEW r \in Runs, FinishRelease(r)
         PROVE  TypeOK' /\ BoundToSession'
    BY <1>20 DEF FinishRelease, Goto
  <1>21. ASSUME NEW s \in Sessions, AbortAttached(s)
         PROVE  TypeOK' /\ BoundToSession'
    BY <1>21 DEF AbortAttached
  <1>22. ASSUME NEW s \in Sessions, AbortDetached(s)
         PROVE  TypeOK' /\ BoundToSession'
    BY <1>22 DEF AbortDetached, ActiveRunsOf
  <1>23. ASSUME NEW s \in Sessions, NEW r \in Runs, AbortMark(s, r)
         PROVE  TypeOK' /\ BoundToSession'
    BY <1>23 DEF AbortMark, SetStatus
  <1>24. ASSUME NEW s \in Sessions, AbortSettle(s)
         PROVE  TypeOK' /\ BoundToSession'
    BY <1>24 DEF AbortSettle, SetActive
  <1>25. ASSUME Crash PROVE TypeOK' /\ BoundToSession'
    BY <1>25 DEF Crash
  <1>26. ASSUME Restart PROVE TypeOK' /\ BoundToSession'
    BY <1>26 DEF Restart
  <1>27. ASSUME NEW s \in Sessions, NEW r \in Runs, SynthesizeRun(s, r)
         PROVE  TypeOK' /\ BoundToSession'
    BY <1>27 DEF SynthesizeRun, SetStatus, FreshRuns
  <1>28. ASSUME NEW s \in Sessions, ClearOrphan(s)
         PROVE  TypeOK' /\ BoundToSession'
    BY <1>28 DEF ClearOrphan, SetActive
  <1>29. ASSUME BeginRecovery PROVE TypeOK' /\ BoundToSession'
    BY <1>29 DEF BeginRecovery
  <1>30. ASSUME NEW r \in Runs, RecoverInterrupt(r)
         PROVE  TypeOK' /\ BoundToSession'
    BY <1>30 DEF RecoverInterrupt, SetStatus, NextRecovery
  <1>31. ASSUME NEW r \in Runs, RecoverClaim(r)
         PROVE  TypeOK' /\ BoundToSession'
    BY <1>31 DEF RecoverClaim, SetStatus, NextRecovery, Goto
  <1>32. ASSUME NEW r \in Runs, RecoverAnswered(r)
         PROVE  TypeOK' /\ BoundToSession'
    BY <1>32 DEF RecoverAnswered, SetStatus, Goto
  <1>33. ASSUME NEW r \in Runs, RecoverFails(r)
         PROVE  TypeOK' /\ BoundToSession'
    BY <1>33 DEF RecoverFails, SetStatus, Goto
  <1>34. ASSUME NEW r \in Runs, RecoverResume(r)
         PROVE  TypeOK' /\ BoundToSession'
    BY <1>34 DEF RecoverResume, SetActive, Goto
  <1>35. ASSUME EndRecovery PROVE TypeOK' /\ BoundToSession'
    BY <1>35 DEF EndRecovery
  <1>36. CASE UNCHANGED vars
    BY <1>36 DEF vars
  <1>37. QED
    BY <1>1, <1>2, <1>3, <1>4, <1>5, <1>6, <1>7, <1>8, <1>9, <1>10, <1>11,
       <1>12, <1>13, <1>14, <1>15, <1>16, <1>17, <1>18, <1>19, <1>20, <1>21,
       <1>22, <1>23, <1>24, <1>25, <1>26, <1>27, <1>28, <1>29, <1>30, <1>31,
       <1>32, <1>33, <1>34, <1>35, <1>36
       DEF Next, Request, Stop, Finish, AbortStep, Boot, Recover

(* Attempts, invocations and answers.  The task of a run says which of them  *)
(* it may still spend; a row that is not written yet has spent nothing.      *)
LEMMA BudgetStep ==
    ASSUME TypeOK, BoundToSession, FreshIsBlank, AttemptIsUnspent,
           AnswerIsUnsaved, ListedRowsExist, [Next]_vars
    PROVE  FreshIsBlank' /\ AttemptIsUnspent' /\ AnswerIsUnsaved'
  <1> USE ChatRunsAssumption
      DEF TypeOK, BoundToSession, FreshIsBlank, AttemptIsUnspent,
          AnswerIsUnsaved, ListedRowsExist, Outcomes, BeforeSpawn, BeforeAnswer, PCs, Driving,
          Active, Terminal, rowVars, chatVars, flagVars, recordVars, finishVars,
          abortVars, bootVars
  <1>1. ASSUME NEW r \in Runs, NEW s \in Sessions, BeginTurn(r, s)
        PROVE  FreshIsBlank' /\ AttemptIsUnspent' /\ AnswerIsUnsaved'
    BY <1>1 DEF BeginTurn, SetActive, FreshRuns, Goto
  <1>2. ASSUME NEW r \in Runs, ListStale(r)
        PROVE  FreshIsBlank' /\ AttemptIsUnspent' /\ AnswerIsUnsaved'
    BY <1>2 DEF ListStale, ActiveRunsOf, Goto
  <1>3. ASSUME NEW r \in Runs, NEW q \in Runs, InterruptStale(r, q)
        PROVE  FreshIsBlank' /\ AttemptIsUnspent' /\ AnswerIsUnsaved'
    BY <1>3 DEF InterruptStale, SetStatus
  <1>4. ASSUME NEW r \in Runs, PersistTurn(r)
        PROVE  FreshIsBlank' /\ AttemptIsUnspent' /\ AnswerIsUnsaved'
    BY <1>4 DEF PersistTurn, SetStatus, Goto
  <1>5. ASSUME NEW r \in Runs, PersistFails(r)
        PROVE  FreshIsBlank' /\ AttemptIsUnspent' /\ AnswerIsUnsaved'
    BY <1>5 DEF PersistFails, Goto
  <1>6. ASSUME NEW r \in Runs, RejectTurn(r)
        PROVE  FreshIsBlank' /\ AttemptIsUnspent' /\ AnswerIsUnsaved'
    BY <1>6 DEF RejectTurn, SetStatus, Goto
  <1>7. ASSUME NEW r \in Runs, Settle(r)
        PROVE  FreshIsBlank' /\ AttemptIsUnspent' /\ AnswerIsUnsaved'
    BY <1>7 DEF Settle, SetActive, Goto
  <1>8. ASSUME NEW r \in Runs, PrepareFails(r)
        PROVE  FreshIsBlank' /\ AttemptIsUnspent' /\ AnswerIsUnsaved'
    BY <1>8 DEF PrepareFails, Goto
  <1>9. ASSUME NEW r \in Runs, RegisterRun(r)
        PROVE  FreshIsBlank' /\ AttemptIsUnspent' /\ AnswerIsUnsaved'
    BY <1>9 DEF RegisterRun, Goto
  <1>10. ASSUME NEW r \in Runs, SpawnProvider(r)
         PROVE  FreshIsBlank' /\ AttemptIsUnspent' /\ AnswerIsUnsaved'
    BY <1>10 DEF SpawnProvider, Goto
  <1>11. ASSUME NEW r \in Runs, SpawnFails(r)
         PROVE  FreshIsBlank' /\ AttemptIsUnspent' /\ AnswerIsUnsaved'
    BY <1>11 DEF SpawnFails, Goto
  <1>12. ASSUME NEW r \in Runs, ProviderExits(r)
         PROVE  FreshIsBlank' /\ AttemptIsUnspent' /\ AnswerIsUnsaved'
    BY <1>12 DEF ProviderExits, Goto
  <1>13. ASSUME NEW r \in Runs, StopProvider(r)
         PROVE  FreshIsBlank' /\ AttemptIsUnspent' /\ AnswerIsUnsaved'
    BY <1>13 DEF StopProvider, Goto
  <1>14. ASSUME NEW r \in Runs, ProviderStopped(r)
         PROVE  FreshIsBlank' /\ AttemptIsUnspent' /\ AnswerIsUnsaved'
    BY <1>14 DEF ProviderStopped, Goto
  <1>15. ASSUME NEW r \in Runs, FinishMessage(r)
         PROVE  FreshIsBlank' /\ AttemptIsUnspent' /\ AnswerIsUnsaved'
    BY <1>15 DEF FinishMessage, Goto
  <1>16. ASSUME NEW r \in Runs, FinishInactive(r)
         PROVE  FreshIsBlank' /\ AttemptIsUnspent' /\ AnswerIsUnsaved'
    BY <1>16 DEF FinishInactive, SetActive, Goto
  <1>17. ASSUME NEW r \in Runs, FinishTerminal(r)
         PROVE  FreshIsBlank' /\ AttemptIsUnspent' /\ AnswerIsUnsaved'
    BY <1>17 DEF FinishTerminal, SetStatus, Goto
  <1>18. ASSUME NEW r \in Runs, FinishReadSummary(r)
         PROVE  FreshIsBlank' /\ AttemptIsUnspent' /\ AnswerIsUnsaved'
    BY <1>18 DEF FinishReadSummary, Goto
  <1>19. ASSUME NEW r \in Runs, FinishWriteSummary(r)
         PROVE  FreshIsBlank' /\ AttemptIsUnspent' /\ AnswerIsUnsaved'
    BY <1>19 DEF FinishWriteSummary, Goto
  <1>20. ASSUME NEW r \in Runs, FinishRelease(r)
         PROVE  FreshIsBlank' /\ AttemptIsUnspent' /\ AnswerIsUnsaved'
    BY <1>20 DEF FinishRelease, Goto
  <1>21. ASSUME NEW s \in Sessions, AbortAttached(s)
         PROVE  FreshIsBlank' /\ AttemptIsUnspent' /\ AnswerIsUnsaved'
    BY <1>21 DEF AbortAttached
  <1>22. ASSUME NEW s \in Sessions, AbortDetached(s)
         PROVE  FreshIsBlank' /\ AttemptIsUnspent' /\ AnswerIsUnsaved'
    BY <1>22 DEF AbortDetached, ActiveRunsOf
  <1>23. ASSUME NEW s \in Sessions, NEW r \in Runs, AbortMark(s, r)
         PROVE  FreshIsBlank' /\ AttemptIsUnspent' /\ AnswerIsUnsaved'
    BY <1>23 DEF AbortMark, SetStatus
  <1>24. ASSUME NEW s \in Sessions, AbortSettle(s)
         PROVE  FreshIsBlank' /\ AttemptIsUnspent' /\ AnswerIsUnsaved'
    BY <1>24 DEF AbortSettle, SetActive
  <1>25. ASSUME Crash
         PROVE  FreshIsBlank' /\ AttemptIsUnspent' /\ AnswerIsUnsaved'
    BY <1>25 DEF Crash
  <1>26. ASSUME Restart
         PROVE  FreshIsBlank' /\ AttemptIsUnspent' /\ AnswerIsUnsaved'
    BY <1>26 DEF Restart
  <1>27. ASSUME NEW s \in Sessions, NEW r \in Runs, SynthesizeRun(s, r)
         PROVE  FreshIsBlank' /\ AttemptIsUnspent' /\ AnswerIsUnsaved'
    BY <1>27 DEF SynthesizeRun, SetStatus, FreshRuns
  <1>28. ASSUME NEW s \in Sessions, ClearOrphan(s)
         PROVE  FreshIsBlank' /\ AttemptIsUnspent' /\ AnswerIsUnsaved'
    BY <1>28 DEF ClearOrphan, SetActive
  <1>29. ASSUME BeginRecovery
         PROVE  FreshIsBlank' /\ AttemptIsUnspent' /\ AnswerIsUnsaved'
    BY <1>29 DEF BeginRecovery
  <1>30. ASSUME NEW r \in Runs, RecoverInterrupt(r)
         PROVE  FreshIsBlank' /\ AttemptIsUnspent' /\ AnswerIsUnsaved'
    BY <1>30 DEF RecoverInterrupt, SetStatus, NextRecovery
  <1>31. ASSUME NEW r \in Runs, RecoverClaim(r)
         PROVE  FreshIsBlank' /\ AttemptIsUnspent' /\ AnswerIsUnsaved'
    BY <1>31 DEF RecoverClaim, SetStatus, NextRecovery, Goto
  <1>32. ASSUME NEW r \in Runs, RecoverAnswered(r)
         PROVE  FreshIsBlank' /\ AttemptIsUnspent' /\ AnswerIsUnsaved'
    BY <1>32 DEF RecoverAnswered, SetStatus, Goto
  <1>33. ASSUME NEW r \in Runs, RecoverFails(r)
         PROVE  FreshIsBlank' /\ AttemptIsUnspent' /\ AnswerIsUnsaved'
    BY <1>33 DEF RecoverFails, SetStatus, Goto
  <1>34. ASSUME NEW r \in Runs, RecoverResume(r)
         PROVE  FreshIsBlank' /\ AttemptIsUnspent' /\ AnswerIsUnsaved'
    BY <1>34 DEF RecoverResume, SetActive, Goto
  <1>35. ASSUME EndRecovery
         PROVE  FreshIsBlank' /\ AttemptIsUnspent' /\ AnswerIsUnsaved'
    BY <1>35 DEF EndRecovery
  <1>36. CASE UNCHANGED vars
    BY <1>36 DEF vars
  <1>37. QED
    BY <1>1, <1>2, <1>3, <1>4, <1>5, <1>6, <1>7, <1>8, <1>9, <1>10, <1>11,
       <1>12, <1>13, <1>14, <1>15, <1>16, <1>17, <1>18, <1>19, <1>20, <1>21,
       <1>22, <1>23, <1>24, <1>25, <1>26, <1>27, <1>28, <1>29, <1>30, <1>31,
       <1>32, <1>33, <1>34, <1>35, <1>36
       DEF Next, Request, Stop, Finish, AbortStep, Boot, Recover

(* Who holds the open rows.  The row of a run is settled by its own task, or *)
(* by the part of startup that has not reached it yet.                       *)
LEMMA RowsStep ==
    ASSUME TypeOK, BoundToSession, FreshIsBlank, BootIsAlone, ListedRowsExist,
           OpenRowIsHeld, [Next]_vars
    PROVE  BootIsAlone' /\ ListedRowsExist' /\ OpenRowIsHeld'
  <1> USE ChatRunsAssumption
      DEF TypeOK, BoundToSession, FreshIsBlank, BootIsAlone, ListedRowsExist,
          OpenRowIsHeld, Outcomes, PCs, Driving, Launching, Active, Terminal,
          rowVars, chatVars, flagVars, recordVars, finishVars, abortVars, bootVars
  <1>1. ASSUME NEW r \in Runs, NEW s \in Sessions, BeginTurn(r, s)
        PROVE  BootIsAlone' /\ ListedRowsExist' /\ OpenRowIsHeld'
    BY <1>1 DEF BeginTurn, SetActive, FreshRuns, Goto
  <1>2. ASSUME NEW r \in Runs, ListStale(r)
        PROVE  BootIsAlone' /\ ListedRowsExist' /\ OpenRowIsHeld'
    BY <1>2 DEF ListStale, ActiveRunsOf, Goto
  <1>3. ASSUME NEW r \in Runs, NEW q \in Runs, InterruptStale(r, q)
        PROVE  BootIsAlone' /\ ListedRowsExist' /\ OpenRowIsHeld'
    BY <1>3 DEF InterruptStale, SetStatus
  <1>4. ASSUME NEW r \in Runs, PersistTurn(r)
        PROVE  BootIsAlone' /\ ListedRowsExist' /\ OpenRowIsHeld'
    BY <1>4 DEF PersistTurn, SetStatus, Goto
  <1>5. ASSUME NEW r \in Runs, PersistFails(r)
        PROVE  BootIsAlone' /\ ListedRowsExist' /\ OpenRowIsHeld'
    BY <1>5 DEF PersistFails, Goto
  <1>6. ASSUME NEW r \in Runs, RejectTurn(r)
        PROVE  BootIsAlone' /\ ListedRowsExist' /\ OpenRowIsHeld'
    BY <1>6 DEF RejectTurn, SetStatus, Goto
  <1>7. ASSUME NEW r \in Runs, Settle(r)
        PROVE  BootIsAlone' /\ ListedRowsExist' /\ OpenRowIsHeld'
    BY <1>7 DEF Settle, SetActive, Goto
  <1>8. ASSUME NEW r \in Runs, PrepareFails(r)
        PROVE  BootIsAlone' /\ ListedRowsExist' /\ OpenRowIsHeld'
    BY <1>8 DEF PrepareFails, Goto
  <1>9. ASSUME NEW r \in Runs, RegisterRun(r)
        PROVE  BootIsAlone' /\ ListedRowsExist' /\ OpenRowIsHeld'
    BY <1>9 DEF RegisterRun, Goto
  <1>10. ASSUME NEW r \in Runs, SpawnProvider(r)
         PROVE  BootIsAlone' /\ ListedRowsExist' /\ OpenRowIsHeld'
    BY <1>10 DEF SpawnProvider, Goto
  <1>11. ASSUME NEW r \in Runs, SpawnFails(r)
         PROVE  BootIsAlone' /\ ListedRowsExist' /\ OpenRowIsHeld'
    BY <1>11 DEF SpawnFails, Goto
  <1>12. ASSUME NEW r \in Runs, ProviderExits(r)
         PROVE  BootIsAlone' /\ ListedRowsExist' /\ OpenRowIsHeld'
    BY <1>12 DEF ProviderExits, Goto
  <1>13. ASSUME NEW r \in Runs, StopProvider(r)
         PROVE  BootIsAlone' /\ ListedRowsExist' /\ OpenRowIsHeld'
    BY <1>13 DEF StopProvider, Goto
  <1>14. ASSUME NEW r \in Runs, ProviderStopped(r)
         PROVE  BootIsAlone' /\ ListedRowsExist' /\ OpenRowIsHeld'
    BY <1>14 DEF ProviderStopped, Goto
  <1>15. ASSUME NEW r \in Runs, FinishMessage(r)
         PROVE  BootIsAlone' /\ ListedRowsExist' /\ OpenRowIsHeld'
    BY <1>15 DEF FinishMessage, Goto
  <1>16. ASSUME NEW r \in Runs, FinishInactive(r)
         PROVE  BootIsAlone' /\ ListedRowsExist' /\ OpenRowIsHeld'
    BY <1>16 DEF FinishInactive, SetActive, Goto
  <1>17. ASSUME NEW r \in Runs, FinishTerminal(r)
         PROVE  BootIsAlone' /\ ListedRowsExist' /\ OpenRowIsHeld'
    BY <1>17 DEF FinishTerminal, SetStatus, Goto
  <1>18. ASSUME NEW r \in Runs, FinishReadSummary(r)
         PROVE  BootIsAlone' /\ ListedRowsExist' /\ OpenRowIsHeld'
    BY <1>18 DEF FinishReadSummary, Goto
  <1>19. ASSUME NEW r \in Runs, FinishWriteSummary(r)
         PROVE  BootIsAlone' /\ ListedRowsExist' /\ OpenRowIsHeld'
    BY <1>19 DEF FinishWriteSummary, Goto
  <1>20. ASSUME NEW r \in Runs, FinishRelease(r)
         PROVE  BootIsAlone' /\ ListedRowsExist' /\ OpenRowIsHeld'
    BY <1>20 DEF FinishRelease, Goto
  <1>21. ASSUME NEW s \in Sessions, AbortAttached(s)
         PROVE  BootIsAlone' /\ ListedRowsExist' /\ OpenRowIsHeld'
    BY <1>21 DEF AbortAttached
  <1>22. ASSUME NEW s \in Sessions, AbortDetached(s)
         PROVE  BootIsAlone' /\ ListedRowsExist' /\ OpenRowIsHeld'
    BY <1>22 DEF AbortDetached, ActiveRunsOf
  <1>23. ASSUME NEW s \in Sessions, NEW r \in Runs, AbortMark(s, r)
         PROVE  BootIsAlone' /\ ListedRowsExist' /\ OpenRowIsHeld'
    BY <1>23 DEF AbortMark, SetStatus
  <1>24. ASSUME NEW s \in Sessions, AbortSettle(s)
         PROVE  BootIsAlone' /\ ListedRowsExist' /\ OpenRowIsHeld'
    BY <1>24 DEF AbortSettle, SetActive
  <1>25. ASSUME Crash PROVE BootIsAlone' /\ ListedRowsExist' /\ OpenRowIsHeld'
    BY <1>25 DEF Crash
  <1>26. ASSUME Restart
         PROVE  BootIsAlone' /\ ListedRowsExist' /\ OpenRowIsHeld'
    BY <1>26 DEF Restart
  <1>27. ASSUME NEW s \in Sessions, NEW r \in Runs, SynthesizeRun(s, r)
         PROVE  BootIsAlone' /\ ListedRowsExist' /\ OpenRowIsHeld'
    BY <1>27 DEF SynthesizeRun, SetStatus, FreshRuns
  <1>28. ASSUME NEW s \in Sessions, ClearOrphan(s)
         PROVE  BootIsAlone' /\ ListedRowsExist' /\ OpenRowIsHeld'
    BY <1>28 DEF ClearOrphan, SetActive
  <1>29. ASSUME BeginRecovery
         PROVE  BootIsAlone' /\ ListedRowsExist' /\ OpenRowIsHeld'
    BY <1>29 DEF BeginRecovery
  <1>30. ASSUME NEW r \in Runs, RecoverInterrupt(r)
         PROVE  BootIsAlone' /\ ListedRowsExist' /\ OpenRowIsHeld'
    BY <1>30 DEF RecoverInterrupt, SetStatus, NextRecovery
  <1>31. ASSUME NEW r \in Runs, RecoverClaim(r)
         PROVE  BootIsAlone' /\ ListedRowsExist' /\ OpenRowIsHeld'
    BY <1>31 DEF RecoverClaim, SetStatus, NextRecovery, Goto
  <1>32. ASSUME NEW r \in Runs, RecoverAnswered(r)
         PROVE  BootIsAlone' /\ ListedRowsExist' /\ OpenRowIsHeld'
    BY <1>32 DEF RecoverAnswered, SetStatus, Goto
  <1>33. ASSUME NEW r \in Runs, RecoverFails(r)
         PROVE  BootIsAlone' /\ ListedRowsExist' /\ OpenRowIsHeld'
    BY <1>33 DEF RecoverFails, SetStatus, Goto
  <1>34. ASSUME NEW r \in Runs, RecoverResume(r)
         PROVE  BootIsAlone' /\ ListedRowsExist' /\ OpenRowIsHeld'
    BY <1>34 DEF RecoverResume, SetActive, Goto
  <1>35. ASSUME EndRecovery
         PROVE  BootIsAlone' /\ ListedRowsExist' /\ OpenRowIsHeld'
    BY <1>35 DEF EndRecovery
  <1>36. CASE UNCHANGED vars
    BY <1>36 DEF vars
  <1>37. QED
    BY <1>1, <1>2, <1>3, <1>4, <1>5, <1>6, <1>7, <1>8, <1>9, <1>10, <1>11,
       <1>12, <1>13, <1>14, <1>15, <1>16, <1>17, <1>18, <1>19, <1>20, <1>21,
       <1>22, <1>23, <1>24, <1>25, <1>26, <1>27, <1>28, <1>29, <1>30, <1>31,
       <1>32, <1>33, <1>34, <1>35, <1>36
       DEF Next, Request, Stop, Finish, AbortStep, Boot, Recover

(* The phase of a turn changes with the status of its row, and only then.    *)
LEMMA PhaseUpdate ==
    ASSUME TypeOK, NEW r \in Runs, NEW value, SetStatus(r, value)
    PROVE  /\ value \in Active => phaseOf' = [phaseOf EXCEPT ![r] = "open"]
           /\ value \in Terminal => phaseOf' = [phaseOf EXCEPT ![r] = "closed"]
           /\ status[r] \in Active => phaseOf[r] = "open"
           /\ status[r] \in Terminal => phaseOf[r] = "closed"
           /\ status[r] = "none" => phaseOf[r] = "absent"
  <1>1. \A q \in Runs : q # r => status'[q] = status[q]
    BY DEF TypeOK, SetStatus
  <1>2. status'[r] = value
    BY DEF TypeOK, SetStatus
  <1>3. ASSUME value \in Active
        PROVE  phaseOf' = [phaseOf EXCEPT ![r] = "open"]
    BY <1>1, <1>2, <1>3 DEF phaseOf, Active
  <1>4. ASSUME value \in Terminal
        PROVE  phaseOf' = [phaseOf EXCEPT ![r] = "closed"]
    BY <1>1, <1>2, <1>4 DEF phaseOf, Active, Terminal
  <1>5. QED
    BY <1>3, <1>4 DEF phaseOf, Active, Terminal

(* Settling a row that exists closes its turn, or leaves a closed one so.     *)
LEMMA SettleRow ==
    ASSUME TypeOK, NEW r \in Runs, NEW value \in Terminal, status[r] # "none",
           SetStatus(r, value), UNCHANGED <<attempts, invoked, answers>>
    PROVE  [Ledger!Next]_(Ledger!ledger)
  <1>1. CASE status[r] \in Active
    <2>1. Ledger!Close(r)
      BY <1>1, PhaseUpdate DEF Ledger!Close
    <2>2. QED
      BY <2>1 DEF Ledger!Next
  <1>2. CASE status[r] \in Terminal
    <2>1. phaseOf' = phaseOf
      BY <1>2, PhaseUpdate DEF phaseOf
    <2>2. QED
      BY <2>1 DEF Ledger!ledger
  <1>3. QED
    BY <1>1, <1>2 DEF TypeOK

(* Writing a new row opens its turn.                                         *)
LEMMA OpenRow ==
    ASSUME TypeOK, NEW r \in Runs, NEW value \in Active, status[r] = "none",
           SetStatus(r, value), UNCHANGED <<attempts, invoked, answers>>
    PROVE  [Ledger!Next]_(Ledger!ledger)
  <1>1. Ledger!Open(r)
    BY PhaseUpdate DEF Ledger!Open
  <1>2. QED
    BY <1>1 DEF Ledger!Next

(* Every step of the runtime opens, retries, invokes, answers or closes one  *)
(* turn of the ledger, or leaves it as it is.                                *)
LEMMA LedgerStep ==
    ASSUME TypeOK, BoundToSession, FreshIsBlank, AttemptIsUnspent,
           AnswerIsUnsaved, ListedRowsExist, [Next]_vars
    PROVE  [Ledger!Next]_(Ledger!ledger)
  <1> USE ChatRunsAssumption
      DEF TypeOK, BoundToSession, FreshIsBlank, ListedRowsExist, rowVars,
          chatVars, flagVars, recordVars,
          finishVars, abortVars, bootVars
  <1>1. ASSUME NEW r \in Runs, NEW s \in Sessions, BeginTurn(r, s)
        PROVE  [Ledger!Next]_(Ledger!ledger)
    BY <1>1 DEF BeginTurn, SetActive, FreshRuns, Goto, phaseOf, Ledger!ledger
  <1>2. ASSUME NEW r \in Runs, ListStale(r) PROVE [Ledger!Next]_(Ledger!ledger)
    BY <1>2 DEF ListStale, ActiveRunsOf, Goto, phaseOf, Ledger!ledger
  <1>3. ASSUME NEW r \in Runs, NEW q \in Runs, InterruptStale(r, q)
        PROVE  [Ledger!Next]_(Ledger!ledger)
    <2>1. status[q] # "none" /\ "interrupted" \in Terminal
      BY <1>3 DEF InterruptStale, Terminal, Outcomes, Active
    <2>2. SetStatus(q, "interrupted") /\ UNCHANGED <<attempts, invoked, answers>>
      BY <1>3 DEF InterruptStale
    <2>3. QED
      BY <2>1, <2>2, SettleRow
  <1>4. ASSUME NEW r \in Runs, PersistTurn(r)
        PROVE  [Ledger!Next]_(Ledger!ledger)
    <2>1. status[r] = "none" /\ "running" \in Active
      BY <1>4 DEF PersistTurn, Goto, Active
    <2>2. SetStatus(r, "running") /\ UNCHANGED <<attempts, invoked, answers>>
      BY <1>4 DEF PersistTurn, Goto
    <2>3. QED
      BY <2>1, <2>2, OpenRow
  <1>5. ASSUME NEW r \in Runs, PersistFails(r)
        PROVE  [Ledger!Next]_(Ledger!ledger)
    BY <1>5 DEF PersistFails, Goto, phaseOf, Ledger!ledger
  <1>6. ASSUME NEW r \in Runs, RejectTurn(r)
        PROVE  [Ledger!Next]_(Ledger!ledger)
    <2>1. status[r] # "none" /\ "failed" \in Terminal
      BY <1>6 DEF RejectTurn, Goto, Terminal, Outcomes, Active
    <2>2. SetStatus(r, "failed") /\ UNCHANGED <<attempts, invoked, answers>>
      BY <1>6 DEF RejectTurn, Goto
    <2>3. QED
      BY <2>1, <2>2, SettleRow
  <1>7. ASSUME NEW r \in Runs, Settle(r) PROVE [Ledger!Next]_(Ledger!ledger)
    BY <1>7 DEF Settle, SetActive, Goto, phaseOf, Ledger!ledger
  <1>8. ASSUME NEW r \in Runs, PrepareFails(r)
        PROVE  [Ledger!Next]_(Ledger!ledger)
    BY <1>8 DEF PrepareFails, Goto, phaseOf, Ledger!ledger
  <1>9. ASSUME NEW r \in Runs, RegisterRun(r)
        PROVE  [Ledger!Next]_(Ledger!ledger)
    BY <1>9 DEF RegisterRun, Goto, phaseOf, Ledger!ledger
  <1>10. ASSUME NEW r \in Runs, SpawnProvider(r)
         PROVE  [Ledger!Next]_(Ledger!ledger)
    <2>1. Ledger!Invoke(r)
      BY <1>10 DEF SpawnProvider, Goto, AttemptIsUnspent, AnswerIsUnsaved,
         BeforeSpawn, BeforeAnswer, phaseOf, Ledger!Invoke, Active
    <2>2. QED
      BY <2>1 DEF Ledger!Next
  <1>11. ASSUME NEW r \in Runs, SpawnFails(r)
         PROVE  [Ledger!Next]_(Ledger!ledger)
    BY <1>11 DEF SpawnFails, Goto, phaseOf, Ledger!ledger
  <1>12. ASSUME NEW r \in Runs, ProviderExits(r)
         PROVE  [Ledger!Next]_(Ledger!ledger)
    BY <1>12 DEF ProviderExits, Goto, phaseOf, Ledger!ledger
  <1>13. ASSUME NEW r \in Runs, StopProvider(r)
         PROVE  [Ledger!Next]_(Ledger!ledger)
    BY <1>13 DEF StopProvider, Goto, phaseOf, Ledger!ledger
  <1>14. ASSUME NEW r \in Runs, ProviderStopped(r)
         PROVE  [Ledger!Next]_(Ledger!ledger)
    BY <1>14 DEF ProviderStopped, Goto, phaseOf, Ledger!ledger
  <1>15. ASSUME NEW r \in Runs, FinishMessage(r)
         PROVE  [Ledger!Next]_(Ledger!ledger)
    <2>1. phaseOf' = phaseOf /\ phaseOf[r] # "absent" /\ answers[r] = 0
      BY <1>15
         DEF FinishMessage, AnswerIsUnsaved, BeforeAnswer, phaseOf, Active
    <2>2. CASE answers' = [answers EXCEPT ![r] = @ + 1]
      <3>1. Ledger!Answer(r)
        BY <1>15, <2>1, <2>2 DEF FinishMessage, Ledger!Answer
      <3>2. QED
        BY <3>1 DEF Ledger!Next
    <2>3. CASE UNCHANGED answers
      BY <1>15, <2>1, <2>3 DEF FinishMessage, Ledger!ledger
    <2>4. QED
      BY <1>15, <2>2, <2>3 DEF FinishMessage
  <1>16. ASSUME NEW r \in Runs, FinishInactive(r)
         PROVE  [Ledger!Next]_(Ledger!ledger)
    BY <1>16 DEF FinishInactive, SetActive, Goto, phaseOf, Ledger!ledger
  <1>17. ASSUME NEW r \in Runs, FinishTerminal(r)
         PROVE  [Ledger!Next]_(Ledger!ledger)
    <2>1. status[r] # "none" /\ outcome[r] \in Terminal
      BY <1>17 DEF FinishTerminal, Goto, Terminal, Outcomes, Active
    <2>2. SetStatus(r, outcome[r]) /\ UNCHANGED <<attempts, invoked, answers>>
      BY <1>17 DEF FinishTerminal, Goto
    <2>3. QED
      BY <2>1, <2>2, SettleRow
  <1>18. ASSUME NEW r \in Runs, FinishReadSummary(r)
         PROVE  [Ledger!Next]_(Ledger!ledger)
    BY <1>18 DEF FinishReadSummary, Goto, phaseOf, Ledger!ledger
  <1>19. ASSUME NEW r \in Runs, FinishWriteSummary(r)
         PROVE  [Ledger!Next]_(Ledger!ledger)
    BY <1>19 DEF FinishWriteSummary, Goto, phaseOf, Ledger!ledger
  <1>20. ASSUME NEW r \in Runs, FinishRelease(r)
         PROVE  [Ledger!Next]_(Ledger!ledger)
    BY <1>20 DEF FinishRelease, Goto, phaseOf, Ledger!ledger
  <1>21. ASSUME NEW s \in Sessions, AbortAttached(s)
         PROVE  [Ledger!Next]_(Ledger!ledger)
    BY <1>21 DEF AbortAttached, phaseOf, Ledger!ledger
  <1>22. ASSUME NEW s \in Sessions, AbortDetached(s)
         PROVE  [Ledger!Next]_(Ledger!ledger)
    BY <1>22 DEF AbortDetached, ActiveRunsOf, phaseOf, Ledger!ledger
  <1>23. ASSUME NEW s \in Sessions, NEW r \in Runs, AbortMark(s, r)
         PROVE  [Ledger!Next]_(Ledger!ledger)
    <2>1. status[r] # "none" /\ "aborted" \in Terminal
      BY <1>23 DEF AbortMark, Terminal, Outcomes, Active
    <2>2. SetStatus(r, "aborted") /\ UNCHANGED <<attempts, invoked, answers>>
      BY <1>23 DEF AbortMark
    <2>3. QED
      BY <2>1, <2>2, SettleRow
  <1>24. ASSUME NEW s \in Sessions, AbortSettle(s)
         PROVE  [Ledger!Next]_(Ledger!ledger)
    BY <1>24 DEF AbortSettle, SetActive, phaseOf, Ledger!ledger
  <1>25. ASSUME Crash PROVE [Ledger!Next]_(Ledger!ledger)
    BY <1>25 DEF Crash, phaseOf, Ledger!ledger
  <1>26. ASSUME Restart PROVE [Ledger!Next]_(Ledger!ledger)
    BY <1>26 DEF Restart, phaseOf, Ledger!ledger
  <1>27. ASSUME NEW s \in Sessions, NEW r \in Runs, SynthesizeRun(s, r)
         PROVE  [Ledger!Next]_(Ledger!ledger)
    <2>1. status[r] = "none" /\ "running" \in Active
      BY <1>27 DEF SynthesizeRun, FreshRuns, Active
    <2>2. SetStatus(r, "running") /\ UNCHANGED <<attempts, invoked, answers>>
      BY <1>27 DEF SynthesizeRun, FreshRuns
    <2>3. QED
      BY <2>1, <2>2, OpenRow
  <1>28. ASSUME NEW s \in Sessions, ClearOrphan(s)
         PROVE  [Ledger!Next]_(Ledger!ledger)
    BY <1>28 DEF ClearOrphan, SetActive, phaseOf, Ledger!ledger
  <1>29. ASSUME BeginRecovery PROVE [Ledger!Next]_(Ledger!ledger)
    BY <1>29 DEF BeginRecovery, phaseOf, Ledger!ledger
  <1>30. ASSUME NEW r \in Runs, RecoverInterrupt(r)
         PROVE  [Ledger!Next]_(Ledger!ledger)
    <2>1. status[r] # "none" /\ "interrupted" \in Terminal
      BY <1>30 DEF RecoverInterrupt, NextRecovery, Terminal, Outcomes, Active
    <2>2. SetStatus(r, "interrupted") /\ UNCHANGED <<attempts, invoked, answers>>
      BY <1>30 DEF RecoverInterrupt, NextRecovery
    <2>3. QED
      BY <2>1, <2>2, SettleRow
  <1>31. ASSUME NEW r \in Runs, RecoverClaim(r)
         PROVE  [Ledger!Next]_(Ledger!ledger)
    <2>1. status[r] \in Active /\ "recovering" \in Active
      BY <1>31 DEF RecoverClaim, Active
    <2>2. SetStatus(r, "recovering")
      BY <1>31 DEF RecoverClaim
    <2>3. phaseOf' = [phaseOf EXCEPT ![r] = "open"] /\ phaseOf[r] = "open"
      BY <2>1, <2>2, PhaseUpdate
    <2>4. phaseOf' = phaseOf
      BY <2>3 DEF phaseOf
    <2>5. Ledger!Retry(r)
      BY <1>31, <2>3, <2>4 DEF RecoverClaim, Ledger!Retry
    <2>6. QED
      BY <2>5 DEF Ledger!Next
  <1>32. ASSUME NEW r \in Runs, RecoverAnswered(r)
         PROVE  [Ledger!Next]_(Ledger!ledger)
    <2>1. status[r] # "none" /\ "completed" \in Terminal
      BY <1>32 DEF RecoverAnswered, Goto, Terminal, Outcomes, Active
    <2>2. SetStatus(r, "completed") /\ UNCHANGED <<attempts, invoked, answers>>
      BY <1>32 DEF RecoverAnswered, Goto
    <2>3. QED
      BY <2>1, <2>2, SettleRow
  <1>33. ASSUME NEW r \in Runs, RecoverFails(r)
         PROVE  [Ledger!Next]_(Ledger!ledger)
    <2>1. status[r] # "none" /\ "failed" \in Terminal
      BY <1>33 DEF RecoverFails, Goto, Terminal, Outcomes, Active
    <2>2. SetStatus(r, "failed") /\ UNCHANGED <<attempts, invoked, answers>>
      BY <1>33 DEF RecoverFails, Goto
    <2>3. QED
      BY <2>1, <2>2, SettleRow
  <1>34. ASSUME NEW r \in Runs, RecoverResume(r)
         PROVE  [Ledger!Next]_(Ledger!ledger)
    BY <1>34 DEF RecoverResume, SetActive, Goto, phaseOf, Ledger!ledger
  <1>35. ASSUME EndRecovery PROVE [Ledger!Next]_(Ledger!ledger)
    BY <1>35 DEF EndRecovery, phaseOf, Ledger!ledger
  <1>36. CASE UNCHANGED vars
    BY <1>36 DEF vars, phaseOf, Ledger!ledger
  <1>37. QED
    BY <1>1, <1>2, <1>3, <1>4, <1>5, <1>6, <1>7, <1>8, <1>9, <1>10, <1>11,
       <1>12, <1>13, <1>14, <1>15, <1>16, <1>17, <1>18, <1>19, <1>20, <1>21,
       <1>22, <1>23, <1>24, <1>25, <1>26, <1>27, <1>28, <1>29, <1>30, <1>31,
       <1>32, <1>33, <1>34, <1>35, <1>36
       DEF Next, Request, Stop, Finish, AbortStep, Boot, Recover

-----------------------------------------------------------------------------
(* Prompts.  A step that neither writes a row or a message nor brings a row  *)
(* back to life leaves what is said of them as it is.                        *)
PromptQuiet ==
    /\ UNCHANGED <<sess, origin, answers, lastUser>>
    /\ \A q \in Runs : /\ Alive(q)' => Alive(q)
                       /\ status'[q] = "none" <=> status[q] = "none"

\* A step that leaves prompts, answers and run names alone keeps both.
LEMMA PromptQuietStep ==
    ASSUME TypeOK, PromptOfSession, PromptHasOneRun, PromptQuiet
    PROVE  PromptOfSession' /\ PromptHasOneRun'
  <1>1. PromptOfSession'
    BY DEF PromptOfSession, PromptQuiet, TypeOK
  <1>2. ASSUME NEW p \in Runs, NEW q \in Runs, p # q, origin'[p] = origin'[q],
               origin'[p] # NoRun, Alive(p)'
        PROVE  ~Alive(q)' /\ answers'[q] = 0
    BY <1>2 DEF PromptHasOneRun, PromptQuiet
  <1>3. ASSUME NEW s \in Sessions, NEW q \in Runs, origin'[q] # NoRun,
               origin'[q] = lastUser'[s]
        PROVE  answers'[q] = 0
    BY <1>3 DEF PromptHasOneRun, PromptQuiet
  <1> QED BY <1>1, <1>2, <1>3 DEF PromptHasOneRun

\* A task that moves on, and rows that are settled.
LEMMA TaskQuiet ==
    ASSUME TypeOK, NEW r \in Runs, NEW label, pc[r] # "idle", Goto(r, label),
           UNCHANGED <<sess, origin, status, answers, lastUser>>
    PROVE  PromptQuiet
  BY DEF Goto, TypeOK, PromptQuiet, Alive

\* Settling a row is such a step.
LEMMA SettleQuiet ==
    ASSUME TypeOK, NEW r \in Runs, NEW value \in Terminal, status[r] # "none",
           SetStatus(r, value), UNCHANGED <<sess, origin, answers, lastUser>>,
           \A q \in Runs : pc[q] = "idle" => pc'[q] = "idle"
    PROVE  PromptQuiet
  <1>1. \A q \in Runs : status'[q] = IF q = r THEN value ELSE status[q]
    BY DEF SetStatus, TypeOK
  <1>2. value # "none" /\ value \notin Active
    BY DEF Terminal, Outcomes, Active
  <1> QED BY <1>1, <1>2 DEF PromptQuiet, Alive

\* Every step keeps a prompt with its session and with one run.
LEMMA PromptStep ==
    ASSUME TypeOK, BoundToSession, FreshIsBlank, BootIsAlone, ListedRowsExist,
           PromptOfSession, PromptHasOneRun, AnswerIsUnsaved, [Next]_vars
    PROVE  PromptOfSession' /\ PromptHasOneRun'
  <1> USE DEF rowVars, chatVars
  <1>1. ASSUME NEW r \in Runs, NEW s \in Sessions, BeginTurn(r, s)
        PROVE  PromptOfSession' /\ PromptHasOneRun'
    <2>1. /\ sess[r] = NoSession /\ sess' = [sess EXCEPT ![r] = s]
          /\ pc' = [pc EXCEPT ![r] = "begun"]
          /\ UNCHANGED <<origin, status, answers, lastUser>>
      BY <1>1 DEF BeginTurn, FreshRuns, Goto
    <2>2. status[r] = "none" /\ origin[r] = NoRun
      BY <2>1, ChatRunsAssumption DEF BoundToSession, PromptOfSession
    <2>3. PromptOfSession'
      BY <2>1, <2>2, ChatRunsAssumption DEF PromptOfSession, TypeOK
    <2>4. \A q \in Runs : q # r => (Alive(q)' <=> Alive(q))
      BY <2>1 DEF Alive, TypeOK
    <2>5. PromptHasOneRun'
      BY <2>1, <2>2, <2>4 DEF PromptHasOneRun
    <2> QED BY <2>3, <2>5
  <1>2. ASSUME NEW r \in Runs, PersistTurn(r)
        PROVE  PromptOfSession' /\ PromptHasOneRun'
    <2>1. /\ pc[r] = "listed" /\ status' = [status EXCEPT ![r] = "running"]
          /\ origin' = [origin EXCEPT ![r] = r]
          /\ lastUser' = [lastUser EXCEPT ![sess[r]] = r]
          /\ pc' = [pc EXCEPT ![r] = "persisted"]
          /\ UNCHANGED <<sess, answers>>
      BY <1>2 DEF PersistTurn, SetStatus, Goto
    <2>2. status[r] = "none" /\ answers[r] = 0 /\ sess[r] \in Sessions
      BY <2>1 DEF FreshIsBlank, BoundToSession
    <2>3. \A q \in Runs : origin[q] # r
      BY <2>2, ChatRunsAssumption DEF PromptOfSession
    <2>4. r # NoRun
      BY ChatRunsAssumption
    <2>5. \A q \in Runs : q # r => /\ status'[q] = status[q] /\ origin'[q] = origin[q]
                                   /\ pc'[q] = pc[q]
      BY <2>1 DEF TypeOK
    <2>6. status'[r] = "running" /\ origin'[r] = r
      BY <2>1 DEF TypeOK
    <2>7. \A t \in Sessions : lastUser'[t] = IF t = sess[r] THEN r ELSE lastUser[t]
      BY <2>1, <2>2 DEF TypeOK
    <2>8. PromptOfSession'
      BY <2>1, <2>2, <2>4, <2>5, <2>6, <2>7 DEF PromptOfSession, TypeOK
    <2>9. \A q \in Runs : q # r => (Alive(q)' <=> Alive(q)) /\ origin'[q] # origin'[r]
      BY <2>3, <2>5, <2>6 DEF Alive
    <2>10. ASSUME NEW p \in Runs, NEW q \in Runs, p # q, origin'[p] = origin'[q],
                  origin'[p] # NoRun, Alive(p)'
           PROVE  ~Alive(q)' /\ answers'[q] = 0
      <3>1. p # r /\ q # r
        BY <2>9, <2>10
      <3> QED BY <2>1, <2>5, <2>9, <2>10, <3>1 DEF PromptHasOneRun
    <2>11. ASSUME NEW t \in Sessions, NEW q \in Runs, origin'[q] # NoRun,
                  origin'[q] = lastUser'[t]
           PROVE  answers'[q] = 0
      <3>1. CASE q = r
        BY <2>1, <2>2, <3>1
      <3>2. CASE q # r
        <4>1. lastUser'[t] # r
          BY <2>3, <2>5, <2>11, <3>2
        <4> QED BY <2>1, <2>5, <2>7, <2>11, <3>2, <4>1 DEF PromptHasOneRun
      <3> QED BY <3>1, <3>2
    <2> QED BY <2>8, <2>10, <2>11 DEF PromptHasOneRun
  <1>3. ASSUME NEW r \in Runs, FinishMessage(r)
        PROVE  PromptOfSession' /\ PromptHasOneRun'
    <2>1. pc[r] = "message" /\ Goto(r, "inactive") /\ UNCHANGED <<sess, origin, status>>
      BY <1>3 DEF FinishMessage
    <2>2. CASE UNCHANGED <<answers, lastUser>>
      BY <2>1, <2>2, TaskQuiet, PromptQuietStep
    <2>3. CASE /\ answers' = [answers EXCEPT ![r] = @ + 1]
               /\ lastUser' = [lastUser EXCEPT ![sess[r]] = NoRun]
      <3>1. Alive(r) /\ sess[r] \in Sessions /\ status[r] # "none"
        BY <2>1 DEF Alive, BoundToSession, FreshIsBlank
      <3>2. \A q \in Runs : Alive(q)' => Alive(q)
        BY <2>1 DEF Goto, Alive, TypeOK
      <3>3. \A t \in Sessions : lastUser'[t] = IF t = sess[r] THEN NoRun ELSE lastUser[t]
        BY <2>3, <3>1 DEF TypeOK
      <3>4. \A q \in Runs : q # r => answers'[q] = answers[q]
        BY <2>3 DEF TypeOK
      <3>5. PromptOfSession'
        BY <2>1, <3>3 DEF PromptOfSession
      <3>6. ASSUME NEW p \in Runs, NEW q \in Runs, p # q, origin'[p] = origin'[q],
                   origin'[p] # NoRun, Alive(p)'
            PROVE  ~Alive(q)' /\ answers'[q] = 0
        <4>1. Alive(p) /\ ~Alive(q) /\ answers[q] = 0
          BY <2>1, <3>2, <3>6 DEF PromptHasOneRun
        <4>2. q # r
          BY <3>1, <4>1
        <4> QED BY <3>2, <3>4, <4>1, <4>2
      <3>7. ASSUME NEW t \in Sessions, NEW q \in Runs, origin'[q] # NoRun,
                   origin'[q] = lastUser'[t]
            PROVE  answers'[q] = 0
        <4>1. t # sess[r] /\ origin[q] = lastUser[t] /\ lastUser[t] # NoRun
          BY <2>1, <3>3, <3>7
        <4>2. sess[q] = t /\ answers[q] = 0
          BY <2>1, <3>7, <4>1 DEF PromptOfSession, PromptHasOneRun, TypeOK
        <4> QED BY <3>4, <4>1, <4>2
      <3> QED BY <3>5, <3>6, <3>7 DEF PromptHasOneRun
    <2> QED BY <1>3, <2>2, <2>3 DEF FinishMessage
  <1>4. ASSUME NEW s \in Sessions, NEW r \in Runs, SynthesizeRun(s, r)
        PROVE  PromptOfSession' /\ PromptHasOneRun'
    <2>1. /\ server = "synthesizing" /\ ActiveRunsOf(s) = {} /\ lastUser[s] # NoRun
          /\ sess[r] = NoSession
          /\ status' = [status EXCEPT ![r] = "running"]
          /\ sess' = [sess EXCEPT ![r] = s]
          /\ origin' = [origin EXCEPT ![r] = lastUser[s]]
          /\ UNCHANGED <<answers, lastUser, pc>>
      BY <1>4 DEF SynthesizeRun, Orphaned, FreshRuns, SetStatus
    <2>2. /\ status[r] = "none" /\ origin[r] = NoRun /\ answers[r] = 0
          /\ \A q \in Runs : pc[q] = "idle"
      BY <2>1, ChatRunsAssumption
      DEF BoundToSession, PromptOfSession, FreshIsBlank, BootIsAlone
    <2>3. \A q \in Runs : q # r => /\ status'[q] = status[q] /\ origin'[q] = origin[q]
                                   /\ sess'[q] = sess[q]
      BY <2>1 DEF TypeOK
    <2>4. status'[r] = "running" /\ origin'[r] = lastUser[s] /\ sess'[r] = s
      BY <2>1 DEF TypeOK
    <2>5. /\ lastUser[s] \in Runs /\ lastUser[s] # r /\ sess[lastUser[s]] = s
          /\ status[lastUser[s]] # "none"
      BY <2>1, <2>2 DEF PromptOfSession, TypeOK
    <2>6. PromptOfSession'
      <3>1. ASSUME NEW q \in Runs
            PROVE  /\ status'[q] = "none" <=> origin'[q] = NoRun
                   /\ origin'[q] # NoRun => /\ sess'[origin'[q]] = sess'[q]
                                            /\ status'[origin'[q]] # "none"
        <4>1. CASE q = r
          BY <2>1, <2>3, <2>4, <2>5, <4>1
        <4>2. CASE q # r
          <5>1. origin[q] # r
            BY <2>2, ChatRunsAssumption DEF PromptOfSession
          <5> QED BY <2>3, <4>2, <5>1 DEF PromptOfSession, TypeOK
        <4> QED BY <4>1, <4>2
      <3>2. \A t \in Sessions : lastUser'[t] # NoRun =>
                sess'[lastUser'[t]] = t /\ status'[lastUser'[t]] # "none"
        BY <2>1, <2>2, <2>3 DEF PromptOfSession, TypeOK
      <3> QED BY <3>1, <3>2 DEF PromptOfSession
    <2>7. \A q \in Runs : q # r => (Alive(q)' <=> Alive(q))
      BY <2>1, <2>3 DEF Alive
    <2>8. ASSUME NEW q \in Runs, q # r, origin[q] = lastUser[s]
          PROVE  ~Alive(q) /\ answers[q] = 0
      <3>1. sess[q] = s
        BY <2>1, <2>5, <2>8 DEF PromptOfSession
      <3>2. status[q] \notin Active
        BY <2>1, <3>1 DEF ActiveRunsOf
      <3>3. answers[q] = 0
        BY <2>1, <2>8 DEF PromptHasOneRun
      <3> QED BY <2>2, <3>2, <3>3 DEF Alive
    <2>9. ASSUME NEW p \in Runs, NEW q \in Runs, p # q, origin'[p] = origin'[q],
                 origin'[p] # NoRun, Alive(p)'
          PROVE  ~Alive(q)' /\ answers'[q] = 0
      <3>1. CASE p = r
        BY <2>1, <2>3, <2>4, <2>7, <2>8, <2>9, <3>1
      <3>2. CASE q = r
        <4>1. ~Alive(p)
          BY <2>3, <2>4, <2>8, <2>9, <3>2
        <4> QED BY <2>7, <2>9, <3>2, <4>1
      <3>3. CASE p # r /\ q # r
        BY <2>1, <2>3, <2>7, <2>9, <3>3 DEF PromptHasOneRun
      <3> QED BY <3>1, <3>2, <3>3
    <2>10. ASSUME NEW t \in Sessions, NEW q \in Runs, origin'[q] # NoRun,
                  origin'[q] = lastUser'[t]
           PROVE  answers'[q] = 0
      <3>1. CASE q = r
        BY <2>1, <2>2, <3>1
      <3>2. CASE q # r
        BY <2>1, <2>3, <2>10, <3>2 DEF PromptHasOneRun
      <3> QED BY <3>1, <3>2
    <2> QED BY <2>6, <2>9, <2>10 DEF PromptHasOneRun
  <1> SUFFICES ASSUME \A r \in Runs, s \in Sessions :
                         ~BeginTurn(r, s) /\ ~SynthesizeRun(s, r),
                      \A r \in Runs : ~PersistTurn(r) /\ ~FinishMessage(r)
               PROVE  PromptQuiet
    BY <1>1, <1>2, <1>3, <1>4, PromptQuietStep
  <1>5. ASSUME NEW r \in Runs, Request(r) PROVE PromptQuiet
    <2>1. ASSUME NEW q \in Runs, InterruptStale(r, q) PROVE PromptQuiet
      <3>1. status[q] # "none" /\ "interrupted" \in Terminal
        BY <2>1 DEF InterruptStale, ListedRowsExist, Terminal
      <3> QED BY <2>1, <3>1, SettleQuiet DEF InterruptStale
    <2>2. CASE RejectTurn(r)
      <3>1. status[r] # "none" /\ "failed" \in Terminal
        BY <2>2 DEF RejectTurn, FreshIsBlank, Terminal
      <3>2. \A q \in Runs : pc[q] = "idle" => pc'[q] = "idle"
        BY <2>2 DEF RejectTurn, Goto, TypeOK
      <3> QED BY <2>2, <3>1, <3>2, SettleQuiet DEF RejectTurn
    <2>3. CASE \/ ListStale(r) \/ PersistFails(r) \/ Settle(r) \/ PrepareFails(r)
               \/ RegisterRun(r) \/ SpawnProvider(r) \/ SpawnFails(r)
      <3>1. /\ pc[r] # "idle" /\ \E label : Goto(r, label)
            /\ UNCHANGED <<sess, origin, status, answers, lastUser>>
        BY <2>3 DEF ListStale, PersistFails, Settle, PrepareFails, RegisterRun,
                    SpawnProvider, SpawnFails
      <3> QED BY <3>1, TaskQuiet
    <2> QED BY <1>5, <2>1, <2>2, <2>3 DEF Request
  <1>6. ASSUME NEW r \in Runs, ProviderExits(r) \/ Stop(r) PROVE PromptQuiet
    <2>1. /\ pc[r] # "idle" /\ \E label : Goto(r, label)
          /\ UNCHANGED <<sess, origin, status, answers, lastUser>>
      BY <1>6 DEF ProviderExits, Stop, StopProvider, ProviderStopped
    <2> QED BY <2>1, TaskQuiet
  <1>7. ASSUME NEW r \in Runs, Finish(r) PROVE PromptQuiet
    <2>1. CASE FinishTerminal(r)
      <3>1. status[r] # "none" /\ outcome[r] \in Terminal
        BY <2>1 DEF FinishTerminal, FreshIsBlank, Terminal, Outcomes, TypeOK
      <3>2. \A q \in Runs : pc[q] = "idle" => pc'[q] = "idle"
        BY <2>1 DEF FinishTerminal, Goto, TypeOK
      <3> QED BY <2>1, <3>1, <3>2, SettleQuiet DEF FinishTerminal
    <2>2. CASE \/ FinishInactive(r) \/ FinishReadSummary(r)
               \/ FinishWriteSummary(r) \/ FinishRelease(r)
      <3>1. /\ pc[r] # "idle" /\ \E label : Goto(r, label)
            /\ UNCHANGED <<sess, origin, status, answers, lastUser>>
        BY <2>2 DEF FinishInactive, FinishReadSummary, FinishWriteSummary,
                    FinishRelease
      <3> QED BY <3>1, TaskQuiet
    <2> QED BY <1>7, <2>1, <2>2 DEF Finish
  <1>8. ASSUME NEW s \in Sessions, AbortAttached(s) \/ AbortDetached(s) \/ AbortStep(s)
        PROVE  PromptQuiet
    <2>1. ASSUME NEW r \in Runs, AbortMark(s, r) PROVE PromptQuiet
      <3>1. status[r] # "none" /\ "aborted" \in Terminal
        BY <2>1 DEF AbortMark, ListedRowsExist, Terminal, Outcomes
      <3> QED BY <2>1, <3>1, SettleQuiet DEF AbortMark
    <2>2. CASE AbortAttached(s) \/ AbortDetached(s) \/ AbortSettle(s)
      BY <2>2 DEF AbortAttached, AbortDetached, AbortSettle, PromptQuiet, Alive
    <2> QED BY <1>8, <2>1, <2>2 DEF AbortStep
  <1>9. CASE Crash
    BY <1>9 DEF Crash, PromptQuiet, Alive
  <1>10. CASE Restart \/ BeginRecovery \/ EndRecovery
              \/ \E s \in Sessions : ClearOrphan(s)
    BY <1>10 DEF Restart, BeginRecovery, EndRecovery, ClearOrphan, PromptQuiet,
                 Alive
  <1>11. ASSUME NEW r \in Runs, Recover(r) PROVE PromptQuiet
    <2>1. CASE RecoverInterrupt(r)
      <3>1. status[r] # "none" /\ "interrupted" \in Terminal
        BY <2>1 DEF RecoverInterrupt, NextRecovery, ListedRowsExist, Terminal, Active
      <3> QED BY <2>1, <3>1, SettleQuiet DEF RecoverInterrupt
    <2>2. CASE RecoverClaim(r)
      <3>1. /\ status[r] \in Active /\ status' = [status EXCEPT ![r] = "recovering"]
            /\ pc' = [pc EXCEPT ![r] = "claimed"]
            /\ UNCHANGED <<sess, origin, answers, lastUser>>
        BY <2>2 DEF RecoverClaim, SetStatus, Goto
      <3> QED BY <3>1 DEF PromptQuiet, Alive, Active, TypeOK
    <2>3. CASE RecoverAnswered(r) \/ RecoverFails(r)
      <3>1. PICK value \in {"completed", "failed"} : SetStatus(r, value)
        BY <2>3 DEF RecoverAnswered, RecoverFails
      <3>2. pc[r] = "claimed" /\ Goto(r, "settle")
            /\ UNCHANGED <<sess, origin, answers, lastUser>>
        BY <2>3 DEF RecoverAnswered, RecoverFails
      <3>3. status[r] # "none" /\ value \in Terminal
        BY <3>2 DEF FreshIsBlank, Terminal, Outcomes
      <3>4. \A q \in Runs : pc[q] = "idle" => pc'[q] = "idle"
        BY <3>2 DEF Goto, TypeOK
      <3> QED BY <3>1, <3>2, <3>3, <3>4, SettleQuiet
    <2>4. CASE RecoverResume(r)
      <3>1. /\ pc[r] # "idle" /\ Goto(r, "persisted")
            /\ UNCHANGED <<sess, origin, status, answers, lastUser>>
        BY <2>4 DEF RecoverResume
      <3> QED BY <3>1, TaskQuiet
    <2> QED BY <1>11, <2>1, <2>2, <2>3, <2>4 DEF Recover
  <1>12. CASE UNCHANGED vars
    BY <1>12 DEF vars, PromptQuiet, Alive
  <1> QED BY <1>5, <1>6, <1>7, <1>8, <1>9, <1>10, <1>11, <1>12 DEF Next, Boot


-----------------------------------------------------------------------------
(* The flag of a session with one turn.  A step of one run leaves what is    *)
(* said of the other runs as it is.                                          *)
LEMMA FlagByRun ==
    ASSUME TypeOK, ShortLived, FlagFollowsTask, NEW r \in Runs,
           server' = server,
           \A q \in Runs \ {r} : /\ pc'[q] = pc[q]
                                 /\ snap'[q] = snap[q]
                                 /\ sess'[q] = sess[q],
           sess[r] # NoSession => sess'[r] = sess[r],
           \A s \in Sessions \ {sess'[r]} :
               /\ cached'[s] = cached[s]
               /\ stored'[s] = stored[s]
               /\ s \in recovered' => s \in recovered,
           snap'[r] => pc'[r] = "upsert",
           server # "recovering" => recovered' = {} /\ pc'[r] # "claimed",
           Lone(r)' => FlagOf(r)'
    PROVE  ShortLived' /\ FlagFollowsTask'
  <1>1. ShortLived'
    BY DEF ShortLived
  <1>2. ASSUME NEW q \in Runs, Lone(q)' PROVE FlagOf(q)'
    <2>1. CASE q = r
      BY <1>2, <2>1
    <2>2. CASE q # r
      <3>1. sess'[q] = sess[q] /\ sess'[r] # sess'[q] /\ sess[q] \in Sessions
        BY <1>2, <2>2 DEF Lone, TypeOK
      <3>2. Lone(q)
        BY <1>2, <2>2, <3>1 DEF Lone
      <3>3. FlagOf(q)
        BY <3>2 DEF FlagFollowsTask
      <3> QED BY <2>2, <3>1, <3>3 DEF FlagOf, Shown
    <2> QED BY <2>1, <2>2
  <1> QED BY <1>1, <1>2 DEF FlagFollowsTask

\* A task that moves on and writes no flag.
LEMMA FlagTask ==
    ASSUME TypeOK, ShortLived, FlagFollowsTask, NEW r \in Runs, NEW label \in PCs,
           pc[r] \notin {"idle", "upsert"}, label # "claimed",
           label \in Cleared \cup {"idle"} => pc[r] \in Cleared,
           Goto(r, label),
           UNCHANGED <<sess, cached, stored, snap, server, recovered>>
    PROVE  ShortLived' /\ FlagFollowsTask'
  <1>1. pc'[r] = label /\ \A q \in Runs \ {r} : pc'[q] = pc[q]
    BY DEF Goto, TypeOK
  <1>2. ~snap'[r]
    BY DEF ShortLived
  <1>3. Lone(r)' => FlagOf(r)'
    BY <1>1, <1>2 DEF FlagFollowsTask, FlagOf, Lone, Shown, Cleared
  <1> QED BY <1>1, <1>2, <1>3, FlagByRun DEF ShortLived

\* Flags are only taken down.
LEMMA FlagLowered ==
    ASSUME TypeOK, TypeOK', ShortLived, FlagFollowsTask,
           UNCHANGED <<sess, pc, snap, server, recovered>>,
           \A s \in Sessions :
               \/ ~cached'[s] /\ ~stored'[s]
               \/ cached'[s] = cached[s] /\ stored'[s] = stored[s]
    PROVE  ShortLived' /\ FlagFollowsTask'
  <1>1. ASSUME NEW r \in Runs, Lone(r)' PROVE FlagOf(r)'
    <2>1. sess[r] \in Sessions /\ FlagOf(r)
      BY <1>1 DEF Lone, FlagFollowsTask, TypeOK
    <2>2. CASE cached'[sess[r]] = cached[sess[r]] /\ stored'[sess[r]] = stored[sess[r]]
      BY <2>1, <2>2 DEF FlagOf, Shown
    <2>3. CASE ~cached'[sess[r]] /\ ~stored'[sess[r]]
      <3>1. cached'[sess[r]] = FALSE /\ stored'[sess[r]] = FALSE
        BY <2>1, <2>3 DEF TypeOK
      <3>2. pc[r] \in Cleared => ~snap[r]
        BY <2>1 DEF FlagOf
      <3> QED BY <3>1, <3>2 DEF FlagOf, Shown
    <2> QED BY <2>1, <2>2, <2>3
  <1> QED BY <1>1 DEF ShortLived, FlagFollowsTask

\* Every step keeps the session flag with the task that set it.
LEMMA FlagStep ==
    ASSUME TypeOK, TypeOK', BoundToSession, BootIsAlone, ListedRowsExist,
           PromptOfSession, ShortLived, FlagFollowsTask, [Next]_vars
    PROVE  ShortLived' /\ FlagFollowsTask'
  <1> USE DEF rowVars, flagVars, finishVars, bootVars
  <1>1. ASSUME NEW r \in Runs, NEW s \in Sessions, BeginTurn(r, s)
        PROVE  ShortLived' /\ FlagFollowsTask'
    <2>1. /\ server = "up" /\ sess[r] = NoSession
          /\ sess' = [sess EXCEPT ![r] = s]
          /\ cached' = [cached EXCEPT ![s] = TRUE]
          /\ stored' = [stored EXCEPT ![s] = TRUE]
          /\ pc' = [pc EXCEPT ![r] = "begun"]
          /\ UNCHANGED <<snap, server, recovered>>
      BY <1>1 DEF BeginTurn, FreshRuns, Goto, SetActive
    <2>2. pc[r] = "idle" /\ ~snap[r]
      BY <2>1, ChatRunsAssumption DEF BoundToSession, ShortLived
    <2>3. sess'[r] = s /\ cached'[s] /\ stored'[s] /\ pc'[r] = "begun"
      BY <2>1 DEF TypeOK
    <2>4. FlagOf(r)'
      BY <2>1, <2>3 DEF FlagOf, Cleared, TypeOK
    <2> QED BY <2>1, <2>2, <2>3, <2>4, FlagByRun DEF TypeOK, ShortLived
  <1>2. ASSUME NEW r \in Runs, RejectTurn(r)
        PROVE  ShortLived' /\ FlagFollowsTask'
    <2>1. /\ pc[r] = "persisted" /\ pc' = [pc EXCEPT ![r] = "settle"]
          /\ recovered' = recovered \ {sess[r]}
          /\ UNCHANGED <<sess, cached, stored, snap, server>>
      BY <1>2 DEF RejectTurn, Goto
    <2>2. pc'[r] = "settle" /\ ~snap[r]
      BY <2>1 DEF TypeOK, ShortLived
    <2>3. Lone(r)' => FlagOf(r)'
      BY <2>1, <2>2 DEF FlagFollowsTask, FlagOf, Lone, Shown, Cleared
    <2> QED BY <2>1, <2>2, <2>3, FlagByRun DEF TypeOK, ShortLived
  <1>3. ASSUME NEW r \in Runs, Settle(r) \/ FinishInactive(r)
        PROVE  ShortLived' /\ FlagFollowsTask'
    <2>1. PICK label \in {"idle", "terminal"} :
              pc' = [pc EXCEPT ![r] = label]
      BY <1>3 DEF Settle, FinishInactive, Goto
    <2>2. /\ pc[r] \in {"settle", "inactive"}
          /\ cached' = [cached EXCEPT ![sess[r]] = FALSE]
          /\ stored' = [stored EXCEPT ![sess[r]] = FALSE]
          /\ UNCHANGED <<sess, snap, server, recovered>>
      BY <1>3 DEF Settle, FinishInactive, SetActive
    <2>3. sess[r] \in Sessions /\ pc'[r] = label /\ ~snap[r]
      BY <2>1, <2>2 DEF BoundToSession, TypeOK, ShortLived
    <2>4. cached'[sess[r]] = FALSE /\ stored'[sess[r]] = FALSE
      BY <2>2, <2>3 DEF TypeOK
    <2>5. FlagOf(r)'
      BY <2>2, <2>3, <2>4 DEF FlagOf, Shown
    <2> QED BY <2>1, <2>2, <2>3, <2>5, FlagByRun DEF TypeOK, ShortLived
  <1>4. ASSUME NEW r \in Runs, FinishReadSummary(r)
        PROVE  ShortLived' /\ FlagFollowsTask'
    <2>1. /\ pc[r] = "snapshot" /\ pc' = [pc EXCEPT ![r] = "upsert"]
          /\ snap' = [snap EXCEPT ![r] = stored[sess[r]]]
          /\ UNCHANGED <<sess, cached, stored, server, recovered>>
      BY <1>4 DEF FinishReadSummary, Goto
    <2>2. pc'[r] = "upsert" /\ snap'[r] = stored[sess[r]]
      BY <2>1 DEF TypeOK
    <2>3. Lone(r)' => FlagOf(r)'
      BY <2>1, <2>2 DEF FlagFollowsTask, FlagOf, Lone, Shown, Cleared
    <2> QED BY <2>1, <2>2, <2>3, FlagByRun DEF TypeOK, ShortLived
  <1>5. ASSUME NEW r \in Runs, FinishWriteSummary(r)
        PROVE  ShortLived' /\ FlagFollowsTask'
    <2>1. /\ pc[r] = "upsert" /\ pc' = [pc EXCEPT ![r] = "release"]
          /\ stored' = [stored EXCEPT ![sess[r]] = snap[r]]
          /\ snap' = [snap EXCEPT ![r] = FALSE]
          /\ UNCHANGED <<sess, cached, server, recovered>>
      BY <1>5 DEF FinishWriteSummary, Goto
    <2>2. pc'[r] = "release" /\ ~snap'[r] /\ sess[r] \in Sessions
          /\ stored'[sess[r]] = snap[r]
      BY <2>1 DEF TypeOK, BoundToSession
    <2>3. ASSUME Lone(r)' PROVE FlagOf(r)'
      <3>1. ~cached[sess[r]] /\ ~stored[sess[r]] /\ ~snap[r]
        BY <2>1, <2>3 DEF FlagFollowsTask, FlagOf, Lone, Shown, Cleared
      <3>2. stored'[sess[r]] = FALSE /\ cached'[sess[r]] = FALSE
        BY <2>1, <2>2, <3>1 DEF TypeOK
      <3> QED BY <2>1, <2>2, <3>2 DEF FlagOf, Shown
    <2> QED BY <2>1, <2>2, <2>3, FlagByRun DEF TypeOK, ShortLived
  <1>6. CASE Crash
    <2>1. /\ server' = "down" /\ recovered' = {}
          /\ pc' = [r \in Runs |-> "idle"] /\ snap' = [r \in Runs |-> FALSE]
      BY <1>6 DEF Crash
    <2> QED BY <2>1 DEF ShortLived, FlagFollowsTask, FlagOf, Cleared
  <1>7. CASE Restart
    <2>1. /\ server = "down" /\ server' = "synthesizing" /\ cached' = stored
          /\ UNCHANGED <<stored, recovered, snap, pc>>
          /\ \A r \in Runs : pc[r] = "idle"
      BY <1>7 DEF Restart, BootIsAlone
    <2> QED BY <2>1 DEF ShortLived, FlagFollowsTask, FlagOf, Cleared
  <1>8. ASSUME NEW s \in Sessions, NEW r \in Runs, SynthesizeRun(s, r)
        PROVE  ShortLived' /\ FlagFollowsTask'
    <2>1. /\ lastUser[s] # NoRun /\ sess[r] = NoSession
          /\ sess' = [sess EXCEPT ![r] = s]
          /\ UNCHANGED <<cached, stored, snap, pc, server, recovered>>
      BY <1>8 DEF SynthesizeRun, FreshRuns
    <2>2. lastUser[s] \in Runs \ {r} /\ sess'[lastUser[s]] = s /\ sess'[r] = s
      BY <2>1, ChatRunsAssumption DEF PromptOfSession, TypeOK
    <2>3. ~Lone(r)'
      BY <2>2 DEF Lone
    <2> QED BY <2>1, <2>2, <2>3, FlagByRun DEF TypeOK, ShortLived
  <1>9. CASE BeginRecovery
    <2>1. /\ server = "synthesizing" /\ server' = "recovering"
          /\ UNCHANGED <<sess, cached, stored, snap, pc, recovered>>
      BY <1>9 DEF BeginRecovery
    <2>2. recovered = {}
      BY <2>1 DEF ShortLived
    <2> QED BY <2>1, <2>2 DEF ShortLived, FlagFollowsTask, FlagOf, Shown, Lone
  <1>10. ASSUME NEW r \in Runs, RecoverClaim(r)
         PROVE  ShortLived' /\ FlagFollowsTask'
    <2>1. /\ server = "recovering" /\ pc' = [pc EXCEPT ![r] = "claimed"]
          /\ UNCHANGED <<sess, cached, stored, snap, server, recovered>>
      BY <1>10 DEF RecoverClaim, NextRecovery, Goto
    <2>2. pc'[r] = "claimed"
      BY <2>1 DEF TypeOK
    <2>3. Lone(r)' => FlagOf(r)'
      BY <2>1, <2>2 DEF FlagFollowsTask, FlagOf, Lone, Shown, Cleared
    <2>4. ~snap[r]
      BY <1>10 DEF RecoverClaim, NextRecovery, ListedRowsExist, ShortLived
    <2> QED BY <2>1, <2>2, <2>3, <2>4, FlagByRun DEF TypeOK, ShortLived
  <1>11. ASSUME NEW r \in Runs, RecoverResume(r)
         PROVE  ShortLived' /\ FlagFollowsTask'
    <2>1. /\ pc[r] = "claimed" /\ pc' = [pc EXCEPT ![r] = "persisted"]
          /\ cached' = [cached EXCEPT ![sess[r]] = TRUE]
          /\ stored' = [stored EXCEPT ![sess[r]] = TRUE]
          /\ recovered' = recovered \cup {sess[r]}
          /\ UNCHANGED <<sess, snap, server>>
      BY <1>11 DEF RecoverResume, SetActive, Goto
    <2>2. /\ sess[r] \in Sessions /\ pc'[r] = "persisted" /\ ~snap[r]
          /\ server = "recovering"
      BY <2>1 DEF BoundToSession, TypeOK, ShortLived
    <2>3. cached'[sess[r]] /\ stored'[sess[r]]
      BY <2>1, <2>2 DEF TypeOK
    <2>4. FlagOf(r)'
      BY <2>1, <2>2, <2>3 DEF FlagOf, Cleared, TypeOK
    <2> QED BY <2>1, <2>2, <2>4, FlagByRun DEF TypeOK, ShortLived
  <1>12. CASE EndRecovery
    <2>1. /\ server = "recovering" /\ server' = "up" /\ recovered' = {}
          /\ cached' = [s \in Sessions |-> cached[s] /\ ~(cached[s] /\ s \notin recovered)]
          /\ stored' = [s \in Sessions |-> stored[s] /\ ~(cached[s] /\ s \notin recovered)]
          /\ \A q \in Runs : pc[q] \notin Launching
          /\ UNCHANGED <<sess, snap, pc>>
      BY <1>12 DEF EndRecovery
    <2>2. ASSUME NEW r \in Runs, Lone(r)' PROVE FlagOf(r)'
      <3>1. sess[r] \in Sessions /\ FlagOf(r)
        BY <2>1, <2>2 DEF Lone, FlagFollowsTask, TypeOK
      <3>2. cached[sess[r]] = stored[sess[r]]
        BY <2>1, <3>1 DEF FlagOf
      <3>3. /\ cached'[sess[r]] = (cached[sess[r]] /\ sess[r] \in recovered)
            /\ stored'[sess[r]] = (cached[sess[r]] /\ sess[r] \in recovered)
        BY <2>1, <3>1, <3>2 DEF TypeOK
      <3>4. pc[r] \in Cleared \cup {"idle"} =>
                ~(cached[sess[r]] /\ sess[r] \in recovered)
        BY <2>1, <3>1 DEF FlagOf, Shown
      <3>5. pc[r] \in Cleared => ~snap[r]
        BY <3>1 DEF FlagOf
      <3> QED BY <2>1, <3>3, <3>4, <3>5 DEF FlagOf, Shown
    <2> QED BY <2>1, <2>2 DEF FlagFollowsTask, ShortLived, Launching
  <1>13. ASSUME NEW r \in Runs,
                \/ ListStale(r) \/ PersistTurn(r) \/ PersistFails(r)
                \/ PrepareFails(r) \/ RegisterRun(r) \/ SpawnProvider(r)
                \/ SpawnFails(r) \/ ProviderExits(r) \/ Stop(r)
                \/ FinishMessage(r) \/ FinishTerminal(r) \/ FinishRelease(r)
                \/ RecoverAnswered(r) \/ RecoverFails(r)
         PROVE  ShortLived' /\ FlagFollowsTask'
    <2>1. /\ pc[r] \notin {"idle", "upsert"}
          /\ UNCHANGED <<sess, cached, stored, snap, server, recovered>>
          /\ \E label \in PCs : /\ label # "claimed"
                                /\ label \in Cleared \cup {"idle"} => pc[r] \in Cleared
                                /\ Goto(r, label)
      BY <1>13 DEF ListStale, PersistTurn, PersistFails, PrepareFails, RegisterRun,
                   SpawnProvider, SpawnFails, ProviderExits, Stop, StopProvider,
                   ProviderStopped, FinishMessage, FinishTerminal, FinishRelease,
                   RecoverAnswered, RecoverFails, PCs, Driving, Cleared
    <2> QED BY <2>1, FlagTask
  <1>14. CASE \/ UNCHANGED vars
              \/ \E r, q \in Runs : InterruptStale(r, q)
              \/ \E r \in Runs : RecoverInterrupt(r)
              \/ \E s \in Sessions : \/ AbortAttached(s) \/ AbortDetached(s)
                                     \/ \E r \in Runs : AbortMark(s, r)
    <2>1. UNCHANGED <<sess, pc, snap, server, recovered, cached, stored>>
      BY <1>14 DEF vars, InterruptStale, RecoverInterrupt, NextRecovery,
                   AbortAttached, AbortDetached, AbortMark
    <2> QED BY <2>1, FlagLowered
  <1>15. ASSUME NEW s \in Sessions, AbortSettle(s) \/ ClearOrphan(s)
         PROVE  ShortLived' /\ FlagFollowsTask'
    <2>1. /\ cached' = [cached EXCEPT ![s] = FALSE]
          /\ stored' = [stored EXCEPT ![s] = FALSE]
          /\ UNCHANGED <<sess, pc, snap, server, recovered>>
      BY <1>15 DEF AbortSettle, ClearOrphan, SetActive
    <2> QED BY <2>1, FlagLowered DEF TypeOK
  <1> QED
    BY <1>1, <1>2, <1>3, <1>4, <1>5, <1>6, <1>7, <1>8, <1>9, <1>10, <1>11,
       <1>12, <1>13, <1>14, <1>15
       DEF Next, Request, Finish, AbortStep, Boot, Recover

-----------------------------------------------------------------------------
(* The inductive invariant, put together.                                    *)
LEMMA InvStep == IInv /\ [Next]_vars => IInv'
  <1> SUFFICES ASSUME IInv, [Next]_vars
               PROVE  IInv'
    OBVIOUS
  <1>1. TypeOK' /\ BoundToSession'
    BY TypeStep DEF IInv
  <1>2. FreshIsBlank' /\ AttemptIsUnspent' /\ AnswerIsUnsaved'
    BY BudgetStep DEF IInv
  <1>3. BootIsAlone' /\ ListedRowsExist' /\ OpenRowIsHeld'
    BY RowsStep DEF IInv
  <1>4. PromptOfSession' /\ PromptHasOneRun'
    BY PromptStep DEF IInv
  <1>5. ShortLived' /\ FlagFollowsTask'
    BY <1>1, FlagStep DEF IInv
  <1>6. QED
    BY <1>1, <1>2, <1>3, <1>4, <1>5 DEF IInv

\* The inductive invariant holds in every reachable state.
LEMMA Invariance == Spec => []IInv
  BY InitInv, InvStep, PTL DEF Spec

(* Every variable keeps its type: in particular no task indexes a table by a *)
(* session it was never given, whichever step it resumes from.               *)
THEOREM TypeCorrect == Spec => []TypeOK
  <1>1. IInv => TypeOK
    BY DEF IInv
  <1>2. QED
    BY <1>1, Invariance, PTL

(* The provider is invoked at most once per counted attempt of a row, and no *)
(* row gets more than MaxAttempts of them, over any number of crashes.       *)
THEOREM BudgetHolds == Spec => []InvocationBudget
  <1>1. IInv => InvocationBudget
    BY DEF IInv, AttemptIsUnspent, InvocationBudget
  <1>2. QED
    BY <1>1, Invariance, PTL

(* While the server is up, no durable row stays open without a task that     *)
(* will settle it.                                                           *)
THEOREM OpenRowsAreDriven == Spec => []OpenRowHasTask
  <1>1. IInv => OpenRowHasTask
    BY DEF IInv, OpenRowIsHeld, OpenRowHasTask
  <1>2. QED
    BY <1>1, Invariance, PTL

(* A settled row is never opened again, by a request, an abort, the end of a *)
(* run or a restart.                                                         *)
THEOREM SettledForGood == Spec => TerminalIsFinal
  <1>1. ASSUME IInv, IInv', [Ledger!Next]_(Ledger!ledger), NEW r \in Runs,
               status[r] \in Terminal
        PROVE  status'[r] \in Terminal
    <2>1. phaseOf[r] = "closed"
      BY <1>1 DEF phaseOf, Terminal, Active
    <2>2. phaseOf'[r] = "closed"
      BY <1>1, <2>1 DEF Ledger!Next, Ledger!ledger, Ledger!Open, Ledger!Retry,
         Ledger!Invoke, Ledger!Answer, Ledger!Close, phaseOf
    <2>3. QED
      BY <1>1, <2>2 DEF phaseOf, IInv, TypeOK, Terminal, Active
  <1>2. ASSUME IInv, [Next]_vars
        PROVE  [\A r \in Runs : status[r] \in Terminal
                                   => status'[r] \in Terminal]_vars
    BY <1>1, <1>2, InvStep, LedgerStep DEF IInv
  <1>3. QED
    BY <1>2, Invariance, PTL DEF Spec, TerminalIsFinal

(* Whatever the interleaving of requests, aborts, provider exits, crashes    *)
(* and recoveries, the rows behave like a ledger of turns.                   *)
THEOREM RunsImplementLedger == Spec => ImplementsLedger
  <1>1. Init => Ledger!Init
    BY DEF Init, Ledger!Init, phaseOf
  <1>2. ASSUME IInv, [Next]_vars
        PROVE  [Ledger!Next]_(Ledger!ledger)
    BY <1>2, LedgerStep DEF IInv
  <1>3. QED
    BY <1>1, <1>2, Invariance, PTL DEF Spec, ImplementsLedger, Ledger!Spec

(* The sessions that had one turn only: once that turn is over and the abort *)
(* of the session too, neither the session list kept in memory nor the one   *)
(* in storage shows it as running, whatever crashed in between.              *)
THEOREM LoneSessionsSettle == Spec => []LoneSessionSettles
  <1>1. ASSUME IInv PROVE LoneSessionSettles
    <2>1. ASSUME NEW r \in Runs, server = "up", status[r] \in Terminal,
                 pc[r] = "idle", \A q \in Runs \ {r} : sess[q] # sess[r]
          PROVE  ~cached[sess[r]] /\ ~stored[sess[r]]
      <3>1. sess[r] \in Sessions
        BY <1>1, <2>1 DEF IInv, BoundToSession, Terminal
      <3>2. Lone(r)
        BY <2>1, <3>1, ChatRunsAssumption DEF Lone
      <3> QED BY <1>1, <2>1, <3>2 DEF IInv, FlagFollowsTask, FlagOf, Shown
    <2> QED BY <2>1 DEF LoneSessionSettles
  <1>2. QED
    BY <1>1, Invariance, PTL

(* Only the start of a provider process adds to its count.                   *)
LEMMA OnlySpawnsInvoke ==
    ASSUME TypeOK, [Next]_vars, \A r \in Runs : ~SpawnProvider(r)
    PROVE  invoked' = invoked
  <1>1. ASSUME NEW r \in Runs, Request(r) PROVE invoked' = invoked
    BY <1>1 DEF Request, ListStale, InterruptStale, PersistTurn, PersistFails,
                RejectTurn, Settle, PrepareFails, RegisterRun, SpawnFails
  <1>2. ASSUME NEW r \in Runs, ProviderExits(r) \/ Stop(r) \/ Finish(r)
        PROVE  invoked' = invoked
    BY <1>2 DEF ProviderExits, Stop, StopProvider, ProviderStopped, Finish,
                FinishMessage, FinishInactive, FinishTerminal, FinishReadSummary,
                FinishWriteSummary, FinishRelease
  <1>3. ASSUME NEW s \in Sessions, AbortAttached(s) \/ AbortDetached(s) \/ AbortStep(s)
        PROVE  invoked' = invoked
    BY <1>3 DEF AbortAttached, AbortDetached, AbortStep, AbortSettle, AbortMark
  <1>4. CASE Boot
    BY <1>4 DEF Boot, Restart, SynthesizeRun, ClearOrphan, BeginRecovery, Recover,
                RecoverInterrupt, RecoverClaim, RecoverAnswered, RecoverFails,
                RecoverResume, EndRecovery
  <1>5. CASE Crash \/ UNCHANGED vars \/ \E r \in Runs, s \in Sessions : BeginTurn(r, s)
    BY <1>5 DEF Crash, vars, BeginTurn
  <1> QED BY <1>1, <1>2, <1>3, <1>4, <1>5 DEF Next

(* A prompt whose answer is saved never reaches a provider again: not from   *)
(* its own row, and not from a row a restart made for the same prompt.       *)
THEOREM AnsweredPromptsRest == Spec => NoInvocationAfterAnswer
  <1>1. ASSUME IInv, [Next]_vars, NEW r \in Runs, invoked'[r] > invoked[r],
               NEW q \in Runs, origin[q] = origin[r]
        PROVE  answers[q] = 0
    <2>1. PICK p \in Runs : SpawnProvider(p)
      BY <1>1, OnlySpawnsInvoke DEF IInv, TypeOK
    <2>2. p = r
      BY <1>1, <2>1 DEF SpawnProvider, IInv, TypeOK
    <2>3. pc[r] = "registered"
      BY <2>1, <2>2 DEF SpawnProvider
    <2>4. Alive(r) /\ answers[r] = 0 /\ origin[r] # NoRun
      BY <1>1, <2>3 DEF Alive, IInv, AnswerIsUnsaved, BeforeAnswer, FreshIsBlank,
                        PromptOfSession
    <2> QED BY <1>1, <2>4 DEF IInv, PromptHasOneRun
  <1>2. ASSUME IInv, [Next]_vars
        PROVE  [\A r \in Runs : invoked'[r] > invoked[r] =>
                   \A q \in Runs : origin[q] = origin[r] => answers[q] = 0]_vars
    BY <1>1, <1>2
  <1>3. QED
    BY <1>2, Invariance, PTL DEF Spec, NoInvocationAfterAnswer
=============================================================================
