------------------------------- MODULE MCCards ------------------------------
(* Small boards, each with one thing that makes it hard. *)
EXTENDS BoardCards, CardAttempt, TLC

CONSTANTS s1, t1, a1, b1, f1, f2, f3
MCIds == {s1, t1, a1, b1, f1, f2, f3}

Story(status) == NewCard("story", NoCard, status)
Task(status) == NewCard("task", s1, status)
Sub(status) == NewCard("subtask", t1, status)

\* One subtask waits for another, whose external effects are not approved.
Chained == s1 :> Story("todo") @@ t1 :> Task("todo") @@ a1 :> Sub("todo") @@
           b1 :> [Sub("todo") EXCEPT !.deps = {a1}, !.effects = "asked"]

\* An approved story that nobody has planned yet.
Bare == s1 :> Story("todo")

\* Work that was done and then checked.
Verified == s1 :> Story("todo") @@ t1 :> Task("todo") @@
            a1 :> [Sub("done") EXCEPT !.touched = {"files"}] @@
            b1 :> [Sub("todo") EXCEPT !.kind = "qa", !.deps = {a1}, !.source = a1]

\* Research that other work follows.
Studied == s1 :> Story("todo") @@ t1 :> Task("todo") @@
           a1 :> [Sub("todo") EXCEPT !.kind = "research"] @@
           b1 :> [Sub("todo") EXCEPT !.kind = "review"]

\* A finished attempt in a story that went back to the backlog.
Shelved == s1 :> Story("backlog") @@ t1 :> [Task("backlog") EXCEPT !.manual = TRUE] @@
           a1 :> [Sub("failed") EXCEPT !.touched = Marks, !.effects = "asked",
                                    !.why = "defect"] @@
           b1 :> [Sub("backlog") EXCEPT !.manual = TRUE]

\* Research that set something up outside, back in the backlog.
Provisioned == s1 :> Story("backlog") @@ t1 :> Task("backlog") @@
               a1 :> [Sub("backlog") EXCEPT !.kind = "research", !.effects = "asked",
                                            !.touched = {"effects"}]

\* An attempt whose provider failed after it had set something up.
Cut == s1 :> Story("todo") @@ t1 :> Task("todo") @@
       a1 :> [Sub("blocked") EXCEPT !.kind = "research", !.effects = "approved",
                                    !.touched = {"effects"}, !.why = "provider"]

MCCards1 == {Chained, Bare, Verified, Studied, Shelved, Provisioned,
             Cut}
MCAnswers == {"done", "bare", "followup", "no_json", "blocked", "failed", "provider", "error"}
MCRequests == {"add", "move", "edit", "delete", "resolve", "reshape", "approve",
               "start", "retry", "breakdown"}

-----------------------------------------------------------------------------
(* Attempts at the cards of a board.                                        *)

Made(kind, group) == [kind |-> kind, group |-> group, root |-> TRUE]
Check(kind, group) == [kind |-> kind, group |-> group, root |-> FALSE]
Plain(hier, managed, cards) ==
    [hier |-> hier, managed |-> managed, tdd |-> FALSE, strict |-> FALSE,
     lenient |-> FALSE, scripts |-> TRUE, repairs |-> 0, fallback |-> FALSE,
     tries |-> 2, fixes |-> 2, cards |-> cards,
     bounds |-> [edits |-> 2, others |-> 0, again |-> 0]]

MCJobs ==
    \* Tests come first.
    {[Plain(FALSE, FALSE, <<Made("implementation", "g")>>) EXCEPT
         !.tdd = TRUE, !.strict = strict, !.lenient = lenient, !.fixes = 1,
         !.bounds.again = 1] :
        strict \in BOOLEAN, lenient \in BOOLEAN}
    \* One card of each kind.
    \cup {Plain(TRUE, FALSE, <<Made(kind, "g")>>) : kind \in Making \cup Checking}
    \* Malformed calls and another provider.
    \cup {[Plain(TRUE, FALSE, <<Made("implementation", "g")>>) EXCEPT
              !.repairs = 1, !.fallback = TRUE]}
    \* A group of two cards, and two groups, in a managed repository.
    \cup {[Plain(FALSE, TRUE, <<Made("implementation", "g"), Check("qa", "g")>>) EXCEPT
              !.bounds = [edits |-> 1, others |-> 1, again |-> 1]],
          [Plain(TRUE, TRUE, <<Made("implementation", "g"),
                               Made("implementation", "h")>>) EXCEPT !.bounds =
              [edits |-> 2, others |-> 1, again |-> 0]]}
    \* A group within a group.
    \cup {[Plain(FALSE, TRUE, <<Made("implementation", "g"), Made("implementation", "h"),
                               Check("qa", "g")>>) EXCEPT !.bounds.edits = 1]}

VARIABLE focus

NoBoardAtWork == /\ board = [status |-> "completed", planning |-> "none",
                             current |-> NoCard, cards |-> Bare,
                             prompt |-> NoPrompt]
                 /\ worker = Idle /\ planner = NotPlanning /\ left = 0
                 /\ prompts = [left |-> 0, last |-> 0, calls |-> {}]
NoAttempt == /\ job = CHOOSE j \in Jobs : TRUE
             /\ state = <<>> /\ ledger = <<>> /\ hand = Resting
             /\ git = [branch |-> 0, tips |-> <<>>, work |-> NoShot, origin |-> <<>>]
             /\ noise = Quiet

\* Prompts come alone: two for a board nobody planned yet, or one for a board at
\* work.
Asked == \/ prompts.left = 0 /\ left = MaxRequests
         \/ prompts.left = MaxPrompts /\ left = 0 /\ board.cards = Bare
         \/ prompts.left = 1 /\ left = 0 /\ board.cards = Studied

MCInit == \/ focus = "cards" /\ Init /\ Asked /\ NoAttempt
          \/ focus = "attempt" /\ AttemptInit /\ NoBoardAtWork

AtRest == hand.at = "off" /\ UNCHANGED attemptVars
MCNext == \/ focus = "cards" /\ Next /\ UNCHANGED <<attemptVars, focus>>
          \/ focus = "attempt" /\ AttemptNext /\ UNCHANGED <<vars, focus>>
          \/ focus = "attempt" /\ AtRest /\ UNCHANGED <<vars, focus>>

MCSpec == MCInit /\ [][MCNext]_<<vars, attemptVars, focus>> /\ Fairness

\* The types of both parts.
TypeOK == CardsTypeOK /\ (focus = "attempt" => AttemptTypeOK)
=============================================================================
