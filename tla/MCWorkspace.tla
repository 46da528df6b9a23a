------------------------------ MODULE MCWorkspace ------------------------------
EXTENDS DatabaseWorkspace, AgentOutput, CodexTurn, GitWorkspace, GatewayReply
CONSTANTS c1, c2, t1, t2, t3, x1, x2, x3, g1, g2
VARIABLE focus

MCHome == t1 :> c1 @@ t2 :> c2 @@ t3 :> c2
Col(name, key, type, pk, required) ==
    [name |-> name, key |-> key, type |-> type, pk |-> pk, required |-> required]
Val(n) == [kind |-> "number", n |-> n]
Span(n) == [kind |-> "span", n |-> n]
Txt(n) == [kind |-> "text", n |-> n]
Plain == {Col("id", "id", "int", TRUE, TRUE), Col("wait", "wait", "interval", FALSE, FALSE)}
Upper == {Col("Id", "id", "int", FALSE, FALSE), Col("wait", "wait", "text", FALSE, FALSE)}
Strict == {Col("id", "id", "int", TRUE, TRUE), Col("due", "due", "int", FALSE, TRUE)}
Real == {Col("id", "id", "int", TRUE, TRUE), Col("wait", "wait", "real", FALSE, FALSE)}
Row(n) == "id" :> Val(n) @@ "wait" :> Val(0)
Day(n) == "id" :> Val(n) @@ "wait" :> Span(0)
Endless(n) == "id" :> Val(n) @@ "wait" :> [kind |-> "infinite", n |-> 0]
MCRows == {Row(1), "id" :> Val(3) @@ "wait" :> Txt(0)}
Two == [there |-> TRUE, cols |-> Plain, rows |-> <<Row(0), Row(1)>>]
Odd == [there |-> TRUE, cols |-> Real, rows |-> <<Row(0), Endless(1)>>]
One(cols) == [there |-> TRUE, cols |-> cols,
              rows |-> <<[n \in {c.name : c \in cols} |-> IF n \in {"id", "wait"} THEN Row(1)[n] ELSE Null]>>]
Three == [there |-> TRUE, cols |-> Plain, rows |-> <<Row(0), Row(2), Day(3)>>]

Empty == t1 :> NoTable @@ t2 :> NoTable @@ t3 :> NoTable
Mixed == t1 :> Two @@ t2 :> Three @@ t3 :> NoTable
Renamed == t1 :> NoTable @@ t2 :> Odd @@ t3 :> One(Upper)
Refused == t1 :> Three @@ t2 :> One(Plain) @@ t3 :> One(Strict)
Overlap == t1 :> One(Plain) @@ t2 :> Two @@ t3 :> NoTable
Copied == t1 :> One(Upper) @@ t2 :> Two @@ t3 :> NoTable
Databases == {Mixed, Renamed, Refused}
Does(a, b, c) == x1 :> a @@ x2 :> b @@ x3 :> c

\* A transfer next to a query or another transfer; a file written and read; a
\* copy pasted; rows changed by two users; profiles that change while they
\* are used.
DatabaseInstances ==
    {[does |-> Does({"transfer"}, {"query"}, {}), on |-> p[1], made |-> Conns, start |-> p[2]] :
        p \in {<<{t1, t2}, Copied>>, <<{t2, t3}, Renamed>>}}
    \cup {[does |-> Does({"transfer"}, {}, {}), on |-> p[1], made |-> Conns, start |-> p[2]] :
        p \in {<<{t1, t2}, Refused>>, <<{t2, t3}, Refused>>, <<{t2, t3}, Mixed>>}}
    \cup {[does |-> Does({"transfer"}, {"transfer"}, {}), on |-> {t2, t3}, made |-> Conns,
           start |-> t1 :> NoTable @@ t2 :> One(Plain) @@ t3 :> NoTable]}
    \cup {[does |-> Does({"export"}, {"import"}, {}), on |-> {t1, t2}, made |-> Conns,
           start |-> s] : s \in {Overlap, Refused, Renamed, Mixed}}
    \cup {[does |-> Does({"copy"}, {"new", "paste"}, {}), on |-> p, made |-> Conns, start |-> s] :
        p \in {{t1, t3}, {t2, t3}}, s \in Databases}
    \cup {[does |-> Does({"edit"}, {"remove", "add"}, {}), on |-> {t2}, made |-> Conns,
           start |-> s] : s \in Databases}
    \cup {[does |-> Does({"test"}, {"update", "delete"}, {"test", "create", "delete"}), on |-> {t3},
           made |-> m, start |-> Empty] :
        m \in {{c1, c2}, {c1}}}
Bounded == \A h \in Handlers : serve'[h].op # "none" =>
    /\ serve'[h].op \in focus.does[h]
    /\ {serve'[h].from, serve'[h].to} \subseteq focus.on \cup {NoName}

\* Command line runs of each provider, by the kinds of line they print.
By(provider, rollover, lines) ==
    [provider |-> provider, rollover |-> rollover, lines |-> lines, wide |-> {}, long |-> {}]
OutputRuns == {[By("codex", FALSE, <<"message", "tool", "message", "turn">>) EXCEPT !.wide = {1, 3}],
         By("codex", FALSE, <<"message", "final", "tool", "tool">>),
         [By("codex", FALSE, <<"commentary", "started", "message", "failed">>) EXCEPT !.long = {3}],
         [By("codex", FALSE, <<"tool", "message", "commentary">>) EXCEPT !.long = {1}],
         By("codex", FALSE, <<"plain", "unknown">>),
         [By("codex", FALSE, <<"thinking", "plain", "codex">>) EXCEPT !.wide = {2}],
         [By("codex", FALSE, <<"codex", "plain", "plain">>) EXCEPT !.long = {2}],
         By("codex", TRUE, <<"tool", "final">>),
         [By("claude", FALSE, <<"delta", "delta", "message", "turn">>) EXCEPT !.wide = {1, 2, 4}],
         [By("claude", FALSE, <<"message", "tool", "message">>) EXCEPT !.wide = {1}, !.long = {1, 2}],
         By("claude", FALSE, <<"plain", "turn">>),
         [By("gemini", FALSE, <<"message", "failed", "plain", "turn">>)
             EXCEPT !.wide = {1, 3}, !.long = {1}]}

\* Calls of the app-server: turns next to an old turn of the thread and to
\* another thread, a turn without an id, a plain request, a compaction.
Mine(method, item, phase) == Note("own", "mine", method, item, phase)
Old(method, item, phase) == Note("old", "mine", method, item, phase)
Alien(method, item, phase) == Note("alien", "other", method, item, phase)
Live == [kind |-> "live", own |-> <<>>, other |-> <<>>, status |-> "completed", gives |-> TRUE, early |-> FALSE,
         refuses |-> {}, asks |-> {}, dies |-> FALSE, aborts |-> FALSE, repeats |-> FALSE, rollover |-> FALSE]
Plans == {
  [Live EXCEPT !.own = <<Mine("delta", 1, "none"), Mine("message", 1, "final"), Mine("usage", 0, "none")>>,
               !.other = <<Old("delta", 7, "none"), Old("message", 8, "none"), Ended("old", "interrupted", <<>>)>>, !.early = TRUE],
  [Live EXCEPT !.own = <<Mine("message", 1, "none"), Mine("message", 2, "final")>>, !.repeats = TRUE,
               !.other = <<Old("usage", 0, "none"), Alien("message", 9, "final")>>, !.aborts = TRUE],
  [Live EXCEPT !.own = <<Mine("message", 1, "commentary"), Mine("tool", 2, "none"), Mine("review", 3, "none")>>, !.asks = {2, 9}, !.refuses = {3}],
  [Live EXCEPT !.own = <<Mine("diff", 0, "none"), Mine("error", 0, "none")>>, !.status = "failed", !.dies = TRUE, !.aborts = TRUE],
  [Live EXCEPT !.own = <<Mine("user", 4, "none"), Mine("message", 1, "none")>>, !.gives = FALSE, !.aborts = TRUE, !.other = <<Old("message", 8, "final")>>],
  [Live EXCEPT !.own = <<Mine("usage", 0, "none")>>, !.rollover = TRUE],
  [Live EXCEPT !.kind = "request", !.asks = {2}, !.other = <<Old("message", 8, "final")>>, !.refuses = {2}],
  [Live EXCEPT !.kind = "compact", !.own = <<Mine("compaction", 5, "failed")>>],
  [Live EXCEPT !.kind = "compact", !.own = <<Mine("compaction", 5, "none")>>, !.other = <<Old("message", 8, "final"), Ended("old", "failed", <<>>)>>, !.dies = TRUE]}

\* Turns through a gateway: chats that do not fit or do not alternate, a turn after
\* a restart, addresses that coincide, answers cut anywhere.
Tiny == <<Message("user", 1)>>
Chats == {Tiny,
          <<Message("assistant", 1), Message("other", 1), Message("user", 1), Message("user", 1),
            Message("assistant", 1), Message("user", 1)>>,
          <<Message("user", MaxBytes), Message("assistant", 1), Message("user", 1)>>,
          <<Message("assistant", MaxBytes - 1), Message("user", 0), Message("user", 1)>>,
          <<Message("user", 1), Message("user", MaxBytes + 1)>>}
Turn(c, prefix, base, lines) ==
    [chat |-> c, prompt |-> Len(c), recovered |-> FALSE, configured |-> TRUE,
     prefix |-> prefix, base |-> base, lines |-> lines, document |-> FALSE]
GatewayTurns ==
    {[Turn(c, "shared", "root", <<"text">>) EXCEPT !.recovered = r] : c \in Chats, r \in BOOLEAN}
    \cup {[Turn(Tiny, "shared", "root", <<"text">>) EXCEPT !.configured = FALSE]}
    \cup {Turn(Tiny, "none", b, <<"text", "usage">>) : b \in {"root", "claude", "path"}}
    \cup {[Turn(Tiny, "cld", "root", l) EXCEPT !.document = d] : d \in BOOLEAN,
              l \in {<<"wide", "usage", "text", "wide", "trouble", "usage">>,
                     <<"blank", "trouble">>, <<"trouble">>}}

\* Repositories and the requests two users make of them at the same time.
InTree(f, g, link) == [f |-> f, g |-> g, link |-> link]
Repository(main, topic, index, f, g) ==
    [made |-> TRUE, at |-> "main", tips |-> "main" :> main @@ "topic" :> topic,
     upstream |-> [b \in Branches |-> NoBranch], index |-> index, work |-> [f |-> f, g |-> g],
     conflict |-> [x \in Names |-> <<>>], stashes |-> <<>>]
NoSub == [there |-> FALSE, linked |-> FALSE, hidden |-> FALSE, head |-> 0]
Sub(head) == [NoSub EXCEPT !.there = TRUE, !.head = head]
Passed(head) == [Sub(head) EXCEPT !.hidden = TRUE]
Offline == [set |-> FALSE, tips |-> [b \in Branches |-> <<>>]]
Online == [Offline EXCEPT !.set = TRUE]
Base == InTree({}, Absent, 0)
Changed == InTree({1}, Absent, 0)
Linked == InTree({}, Absent, 1)
Born == Repository(<<Base>>, <<>>, Base, {1, 2}, {1})
Thinner == Repository(<<InTree({1, 2}, Absent, 0)>>, <<>>, InTree({2}, Absent, 0), {1}, Absent)
Unborn == [Repository(<<>>, <<>>, NoTree, {1}, {1}) EXCEPT !.made = FALSE]
Bare == [Unborn EXCEPT !.made = TRUE]
Older == [Born EXCEPT !.tips["main"] = <<InTree({}, {}, 0), Base>>]
Module == Repository(<<Linked>>, <<>>, [Linked EXCEPT !.f = {1}], {1}, Absent)
Grown == Repository(<<Base, Base>>, <<>>, Changed, {1}, Absent)
Apart == Repository(<<Base>>, <<Base, Changed>>, Base, {2}, Absent)
Clean == [Apart EXCEPT !.work.f = {}]
Asks(r, sub, far, a, b, most, edits) ==
    [start |-> [repo |-> r, nested |-> sub, remote |-> far], does |-> g1 :> a @@ g2 :> b,
     most |-> most, edits |-> edits]
GitInstances == {
    Asks(Unborn, NoSub, Offline, {"init", "initial"}, {}, 2, 1),
    Asks(Unborn, Sub(1), Offline, {"init"}, {"initial", "unstage", "stage"}, 3, 0),
    Asks(Unborn, NoSub, Offline, {"init", "submodule", "push"}, {"remote"}, 2, 0),
    Asks(Bare, NoSub, Offline, {"initial"}, {"discard", "commit"}, 2, 1),
    Asks(Older, NoSub, Offline, {"stage", "discard"}, {"delete", "commit"}, 2, 0),
    Asks(Born, Sub(0), Offline, {"stage", "discard", "unstage"}, {"delete", "commit"}, 2, 1),
    Asks(Born, [Sub(1) EXCEPT !.linked = TRUE], Offline, {"stage", "delete"}, {"commit"}, 2, 0),
    Asks(Born, NoSub, Offline, {"hunks", "reverse"}, {"hunks", "reverse", "discard"}, 2, 1),
    Asks(Thinner, NoSub, Offline, {"hunks", "reverse"}, {"stage", "hunks"}, 3, 0),
    Asks(Born, Passed(1), Offline, {"discard", "stage", "initial"}, {"delete", "commit", "unstage"}, 2, 0),
    Asks(Unborn, Passed(1), Offline, {"init"}, {"initial"}, 2, 0),
    Asks(Module, Passed(2), Offline, {"submodule", "discard"}, {"commit", "stage"}, 2, 0),
    Asks(Born, NoSub, Online, {"create", "commit"}, {"create", "remove", "push"}, 3, 0),
    Asks(Module, Sub(2), Offline, {"discard", "commit"}, {"unstage", "stage"}, 3, 0),
    Asks(Module, NoSub, Offline, {"submodule"}, {"commit", "discard"}, 2, 1),
    Asks(Grown, NoSub, Offline, {"revert"}, {"revert", "commit", "initial"}, 3, 0),
    Asks(Apart, NoSub, Offline, {"stash", "checkout", "pop"}, {"pop", "apply", "drop", "commit", "resolve"}, 4, 0),
    Asks(Clean, NoSub, [Online EXCEPT !.tips["topic"] = <<InTree({2}, Absent, 0)>>],
         {"checkout", "remove", "push", "pull"}, {"publish", "pull"}, 2, 1),
    Asks([Clean EXCEPT !.upstream["main"] = "topic"], NoSub, [Offline EXCEPT !.tips["topic"] = <<Base>>],
         {"remote", "push"}, {"remote", "pull"}, 4, 0)}
GitBounded ==
    /\ \A h \in Calls : calls'[h].op # "none" => calls'[h].op \in focus.does[h]
    /\ spent'.calls <= focus.most /\ spent'.edits <= focus.edits

\* One part of the workspace runs at a time; they share nothing.
IdleGateway == GatewayInit({Turn(Tiny, "none", "root", <<>>)})
IdleGit == GitInit([repo |-> Unborn, nested |-> NoSub, remote |-> Offline])
IdleRest == DatabaseInit({}, Empty) /\ IdleGit /\ IdleGateway
MCInit ==
    \/ /\ focus \in {[part |-> "database"] @@ i : i \in DatabaseInstances}
       /\ DatabaseInit(focus.made, focus.start) /\ IdleGit /\ IdleGateway
       /\ OutputInit({By("codex", FALSE, <<>>)}) /\ CodexInit({Live})
    \/ focus = [part |-> "output"] /\ OutputInit(OutputRuns) /\ CodexInit({Live}) /\ IdleRest
    \/ /\ focus = [part |-> "codex"] /\ CodexInit(Plans) /\ OutputInit({By("codex", FALSE, <<>>)})
       /\ IdleRest
    \/ /\ focus \in {[part |-> "git"] @@ i : i \in GitInstances} /\ GitInit(focus.start)
       /\ OutputInit({By("codex", FALSE, <<>>)}) /\ CodexInit({Live}) /\ DatabaseInit({}, Empty)
       /\ IdleGateway
    \/ /\ focus = [part |-> "gateway"] /\ GatewayInit(GatewayTurns) /\ DatabaseInit({}, Empty)
       /\ OutputInit({By("codex", FALSE, <<>>)}) /\ CodexInit({Live}) /\ IdleGit
MCNext ==
    /\ UNCHANGED focus
    /\ \/ /\ focus.part = "database" /\ DatabaseNext /\ Bounded
          /\ UNCHANGED <<outputVars, codexVars, gitVars, gatewayVars>>
       \/ focus.part = "output" /\ OutputNext /\ UNCHANGED <<databaseVars, codexVars, gitVars, gatewayVars>>
       \/ focus.part = "codex" /\ CodexNext /\ UNCHANGED <<databaseVars, outputVars, gitVars, gatewayVars>>
       \/ /\ focus.part = "git" /\ GitNext /\ GitBounded
          /\ UNCHANGED <<databaseVars, outputVars, codexVars, gatewayVars>>
       \/ /\ focus.part = "gateway" /\ GatewayNext
          /\ UNCHANGED <<databaseVars, outputVars, codexVars, gitVars>>
MCSpec == MCInit /\ 
    [][MCNext]_<<databaseVars, outputVars, codexVars, gitVars, gatewayVars, focus>>

TypeOK == DatabaseTypeOK /\ OutputTypeOK /\ CodexTypeOK /\ GitTypeOK /\ GatewayTypeOK

\* The reply of a command line run is what its whole output says, that of a
\* gateway what its whole answer says, but for the characters two reads share,
\* and that of a turn of the app-server what the turn said.
RepliesServed == OutputIsWhole /\ GatewayServed /\ ReplyIsOwn
=============================================================================
