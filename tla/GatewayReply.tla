------------------------------ MODULE GatewayReply ------------------------------
(***************************************************************************)
(* A turn that needs no command line: the server sends the conversation of *)
(* the chat to a model gateway and streams what it answers.  The messages  *)
(* are chosen from the end of the chat, while a turn that was superseded   *)
(* may still save its answer; the addresses of the gateway are tried one   *)
(* by one; the answer comes in chunks that end anywhere.                   *)
(*                                                                         *)
(* Messages are numbered by their place in the chat, 0 being the prompt    *)
(* that tells the model to go on after a restart.  The lines of an answer  *)
(* are numbered too, and come in halves, the second with its newline.      *)
(***************************************************************************)
EXTENDS Naturals, Sequences, SequencesExt, FiniteSets, Functions

CONSTANTS MaxHistory,  \* DIRECT_AI_HISTORY_MAX_MESSAGES
          MaxBytes,    \* DIRECT_AI_HISTORY_MAX_BYTES
          MaxReply,    \* max_output_bytes, in pieces of text
          MaxLate      \* bound on messages that others save

ASSUME GatewayAssumption ==
    /\ {MaxHistory, MaxBytes, MaxReply} \subseteq Nat \ {0}
    /\ MaxLate \in Nat

VARIABLES
    chat,   \* the stored messages of the session
    ask,    \* what is asked for, and the lines the gateway has as an answer
    body,   \* what was read of the answer
    turn    \* where the turn is, the conversation it sends, what it leaves

gatewayVars == <<chat, ask, body, turn>>

Nothing == <<>>
Message(role, size) == [role |-> role, size |-> size]

-----------------------------------------------------------------------------
(* The conversation *)

Said == {i \in DOMAIN chat : chat[i].role \in {"user", "assistant"} /\ chat[i].size > 0}
Since(k) == {i \in Said : i >= k}
Bytes(S) == SumFunctionOnSet([i \in DOMAIN chat |-> chat[i].size], S)

\* The newest message is taken whatever its size.
Fits(S) == Cardinality(S) <= MaxHistory /\ (Cardinality(S) = 1 \/ Bytes(S) <= MaxBytes)
Newest == UNION {Since(k) : k \in {k \in Said : Fits(Since(k))}}
FromUser(S) == {i \in S : \E j \in S : j <= i /\ chat[j].role = "user"}

\* Messages of one role in a row become one.
Join(said, role, i) ==
    IF said # Nothing /\ Last(said).role = role
    THEN Append(Front(said), [role |-> role, parts |-> Append(Last(said).parts, i)])
    ELSE Append(said, [role |-> role, parts |-> <<i>>])

Conversation ==
    FoldLeft(LAMBDA said, i : Join(said, chat[i].role, i), Nothing,
             SetToSortSeq(FromUser(Newest), LAMBDA i, j : i < j))

\* A recovered turn sends its prompt once more; another one falls back to it.
DirectAiMessages ==
    IF ask.recovered THEN Join(Conversation, "user", 0)
    ELSE IF Conversation = Nothing THEN Join(Nothing, "user", ask.prompt)
    ELSE Conversation

-----------------------------------------------------------------------------
(* The addresses of a gateway, by the prefix of the model and the path of   *)
(* the configured address; one address is tried once.                       *)

Messages(place) == <<IF place = "base" THEN ask.base ELSE place, "messages">>
Completions(place) == <<IF place = "base" THEN ask.base ELSE place, "chat/completions">>
PushCandidate(all, url) == IF Contains(all, url) THEN all ELSE Append(all, url)

Candidates ==
    FoldLeft(PushCandidate, Nothing,
        CASE ask.prefix = "cld" -> <<Messages("claude"), Completions("root")>>
          [] ask.prefix = "shared" -> <<Completions("root"), Messages("claude")>>
          [] OTHER -> <<Messages("base"), Completions("base"),
                        Completions("root"), Messages("claude")>>)

\* Refusals: an unknown path, another reason to try the next address, any other.
Refusals == {"not_found", "bad_request", "refused"}
TriesNext == {"not_found", "bad_request"}
Better(best, error) ==
    IF best \in {"none", "not_found"} \/ error # "not_found" THEN error ELSE best

-----------------------------------------------------------------------------
(* The lines of an answer *)

HalfLines == 2 * Len(ask.lines)
Streams == {"text", "wide", "blank"}

\* The cut of a chunk inside a character damages the text around it.
Piece(i, cuts) == [line |-> i, damaged |-> ask.lines[i] = "wide" /\ i \in cuts]

ProcessLine(b, i) ==
    CASE ask.lines[i] = "usage" -> [b EXCEPT !.usage = i]
      [] ask.lines[i] \in Streams -> [b EXCEPT !.text = Append(@, Piece(i, b.cuts))]
      [] OTHER -> b

\* The lines whose newline lies in a chunk.
Ending(from, to) == SelectSeq([i \in 1..Len(ask.lines) |-> i],
                              LAMBDA i : 2 * i > from /\ 2 * i <= to)
Drained(b, to) ==
    LET cut == IF to % 2 = 1 THEN {(to + 1) \div 2} ELSE {}
    IN [FoldLeft(ProcessLine, b, Ending(b.read, to))
            EXCEPT !.read = to, !.cuts = @ \cup cut]

\* What is left without a newline.
Rest(b) == IF b.read % 2 = 1 THEN ProcessLine(b, (b.read + 1) \div 2) ELSE b

AppendBounded(text) ==
    SubSeq(text, IF Len(text) > MaxReply THEN Len(text) - MaxReply + 1 ELSE 1, Len(text))
IsBlank(text) == \A k \in DOMAIN text : ask.lines[text[k].line] = "blank"

-----------------------------------------------------------------------------
Unread == [read |-> 0, cuts |-> {}, text |-> Nothing, usage |-> 0]
Unasked == [at |-> "asked", sent |-> Nothing, tried |-> Nothing, error |-> "none",
            reply |-> Nothing, shown |-> Nothing, usage |-> 0]

GatewayInit(asked) ==
    /\ \E a \in asked : /\ chat = a.chat
                        /\ ask = [f \in DOMAIN a \ {"chat"} |-> a[f]]
    /\ body = Unread
    /\ turn = Unasked

\* A superseded turn saves its answer, or a new one its prompt; later it no longer
\* matters to this turn.
OtherSaves(m) ==
    /\ turn.at = "asked" /\ Len(chat) < ask.prompt + MaxLate
    /\ chat' = Append(chat, m)
    /\ UNCHANGED <<ask, body, turn>>

ReadHistory ==
    /\ turn.at = "asked"
    /\ turn' = [turn EXCEPT !.at = "ready", !.sent = DirectAiMessages]
    /\ UNCHANGED <<chat, ask, body>>

Fails(error) == turn' = [turn EXCEPT !.at = "failed", !.error = error]

StartDirectAi ==
    /\ turn.at = "ready"
    /\ IF ask.configured THEN turn' = [turn EXCEPT !.at = "posting"]
       ELSE Fails("configuration")
    /\ UNCHANGED <<chat, ask, body>>

Tries(answer) == Append(turn.tried, [url |-> Candidates[Len(turn.tried) + 1],
                                     answer |-> answer])

AnswerRequest ==
    /\ turn.at = "posting"
    /\ turn' = [turn EXCEPT !.at = "reading", !.tried = Tries("ok")]
    /\ UNCHANGED <<chat, ask, body>>

\* Faulty variant: every refusal leads to the next address.
RefuseAnyRequest(error) ==
    /\ turn.at = "posting"
    /\ LET more == Len(turn.tried) + 1 < Len(Candidates)
       IN turn' = [turn EXCEPT !.tried = Tries(error), !.error = Better(@, error),
                               !.at = IF more THEN @ ELSE "failed"]
    /\ UNCHANGED <<chat, ask, body>>

RefuseRequest(error) ==
    /\ turn.at = "posting"
    /\ LET more == error \in TriesNext /\ Len(turn.tried) + 1 < Len(Candidates)
       IN turn' = [turn EXCEPT !.tried = Tries(error), !.error = Better(@, error),
                               !.at = IF more THEN @ ELSE "failed"]
    /\ UNCHANGED <<chat, ask, body>>

\* No connection, a broken one, or two minutes are over.
LoseGateway ==
    /\ turn.at \in {"posting", "reading"}
    /\ Fails("transport")
    /\ UNCHANGED <<chat, ask, body>>

\* What a chunk streams is shown at once.
ReadChunk ==
    /\ turn.at = "reading" /\ ~ask.document
    /\ \E to \in body.read + 1..HalfLines :
          /\ body' = Drained(body, to)
          /\ turn' = [turn EXCEPT !.shown = body'.text]
    /\ UNCHANGED <<chat, ask>>

\* The stream may end without its last newline, or is no stream but one document.
EndOfStream ==
    /\ turn.at = "reading" /\ ~ask.document /\ body.read >= HalfLines - 1
    /\ body' = Rest(body)
    /\ turn' = IF body'.text = Nothing THEN [turn EXCEPT !.at = "failed", !.error = "json"]
               ELSE IF IsBlank(body'.text)
               THEN [turn EXCEPT !.at = "failed", !.error = "empty", !.shown = body'.text]
               ELSE [turn EXCEPT !.at = "completed", !.shown = body'.text,
                                 !.reply = AppendBounded(body'.text), !.usage = body'.usage]
    /\ UNCHANGED <<chat, ask>>

EndOfDocument ==
    /\ turn.at = "reading" /\ ask.document
    /\ body' = FoldLeft(ProcessLine, body, [i \in DOMAIN ask.lines |-> i])
    /\ turn' = IF IsBlank(body'.text) THEN [turn EXCEPT !.at = "failed", !.error = "empty"]
               ELSE LET bounded == AppendBounded(body'.text)
                    IN [turn EXCEPT !.at = "completed", !.reply = bounded,
                                    !.shown = bounded, !.usage = body'.usage]
    /\ UNCHANGED <<chat, ask>>

\* What was streamed before an abort is not stored.
AbortRequest ==
    /\ turn.at \in {"posting", "reading"}
    /\ turn' = [turn EXCEPT !.at = "aborted"]
    /\ UNCHANGED <<chat, ask, body>>

GatewayNext ==
    \/ \E m \in {Message("assistant", 1), Message("assistant", MaxBytes),
                 Message("user", 1)} : OtherSaves(m)
    \/ ReadHistory \/ StartDirectAi \/ AnswerRequest
    \/ \E error \in Refusals : RefuseRequest(error)
    \/ LoseGateway \/ ReadChunk \/ EndOfStream \/ EndOfDocument \/ AbortRequest

-----------------------------------------------------------------------------
GatewayTypeOK ==
    /\ ask.prompt \in DOMAIN chat /\ body.read \in 0..HalfLines
    /\ Len(turn.reply) <= MaxReply
    /\ turn.at \in {"asked", "ready", "posting", "reading", "completed", "failed", "aborted"}

\* What the lines of the answer say, read one by one.
TextLines == SetToSortSeq({i \in DOMAIN ask.lines : ask.lines[i] \in Streams},
                          LAMBDA i, j : i < j)
WholeText == [k \in DOMAIN TextLines |-> Piece(TextLines[k], body.cuts)]

\* A conversation begins with the user, changes its speaker with each message,
\* keeps their order, and holds the prompt, at its end unless others wrote
\* meanwhile; only a later prompt may take its place.
ConversationIsSound(messages) ==
    LET parts == FoldLeft(LAMBDA all, m : all \o m.parts, Nothing, messages)
        later == {i \in DOMAIN chat : i > ask.prompt}
    IN /\ \A k \in DOMAIN messages :
             messages[k].role = IF k % 2 = 1 THEN "user" ELSE "assistant"
       /\ \A k \in 2..Len(parts) : parts[k - 1] < parts[k] \/ parts[k] = 0
       /\ {0, ask.prompt} \cap ToSet(parts) = {} =>
             \E i \in later : chat[i].role = "user"
       /\ later = {} => Last(parts) \in {0, ask.prompt}

\* No address is asked twice, nor any after a refusal that another address
\* cannot mend, and the refusal reported is one that says something if any does.
GatewayIsAskedOnce ==
    LET answers == [k \in DOMAIN turn.tried |-> turn.tried[k].answer]
    IN /\ IsInjective([k \in DOMAIN turn.tried |-> turn.tried[k].url])
       /\ \A k \in DOMAIN answers : answers[k] \in TriesNext \/ k = Len(answers)
       /\ turn.at = "failed" /\ turn.error = "not_found" =>
             ToSet(answers) = {"not_found"}

\* A completed turn stores the end of the whole answer, however it was cut on the
\* way, and has shown all that it stores.
AnswerIsWhole ==
    turn.at = "completed" =>
        /\ turn.reply = AppendBounded(WholeText)
        /\ turn.reply = AppendBounded(turn.shown)
        /\ \A i \in DOMAIN ask.lines : ask.lines[i] = "usage" => turn.usage >= i

GatewayServed ==
    /\ turn.at # "asked" => ConversationIsSound(turn.sent)
    /\ GatewayIsAskedOnce
    /\ AnswerIsWhole
=============================================================================
