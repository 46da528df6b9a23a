SPECIFICATION MCSpec
CONSTANTS
    s1 = s1  t1 = t1  a1 = a1  b1 = b1  f1 = f1  f2 = f2  f3 = f3
    Ids <- MCIds
    NoCard = NoCard
    InitialCards <- MCCards1
    Requests <- MCRequests
    MaxRequests = 1
    MaxPrompts = 2
    Answers <- MCAnswers
    MaxTries = 2
    MaxFollowups = 1
    TaskQa = "high_risk"
    Groups = {"g", "h"}
    Jobs <- MCJobs
INVARIANTS TypeOK WorkInProgressIsSound GroupDelivered
PROPERTIES ChangesStayOnRecord DoneIsEarned BoardComesToRest
