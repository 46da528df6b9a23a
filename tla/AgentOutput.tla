------------------------------ MODULE AgentOutput ------------------------------
(***************************************************************************)
(* What a run of a command line agent leaves of its output: two readers    *)
(* cut the process's streams into chunks and queue them, a task puts the   *)
(* lines together again, translates each for its provider, and chooses the *)
(* reply when the process exits or the run is aborted.                     *)
(*                                                                         *)
(* The lines are numbered; a text is the sequence of the lines it was made *)
(* of, 0 standing for what came from stderr.  A line is printed and read   *)
(* in halves, the second with its newline; the halves of a wide line meet  *)
(* inside a character, and a long line alone fills a published event.      *)
(***************************************************************************)
EXTENDS Naturals, Sequences, SequencesExt, FiniteSets, TLC

CONSTANTS Room,       \* capacity of the channel between readers and task
          MaxTools,   \* AGENT_TOOL_MESSAGES_MAX_COUNT
          MaxOutput,  \* max_output_bytes
          MaxErrors   \* bound on writes to stderr

ASSUME AgentOutputAssumption ==
    /\ {Room, MaxTools, MaxOutput} \subseteq Nat \ {0}
    /\ MaxErrors \in Nat

VARIABLES
    agent,   \* what runs: its provider, the lines it will print, the wide, the long
    child,   \* the process: halves printed, exit, writes to stderr
    read,    \* halves each reader has read, and whether it has ended
    queue,   \* chunks on the way to the task
    norm,    \* the normalizer and the transcript
    run      \* how the run ended, and its stored reply

outputVars == <<agent, child, read, queue, norm, run>>

Providers == {"codex", "claude", "gemini"}
NoText == <<>>
Halves == 2 * Len(agent.lines)
LineOf(half) == (half + 1) \div 2

\* Kinds of line: a message in a phase or streamed, a tool, the result of the
\* turn, its failure, an event nobody knows, one that only announces another,
\* and text that is no event, two of them the headings of a transcript.
Headings == {"thinking", "codex"}
NoEvent == Headings \cup {"plain"}
Kinds == NoEvent \cup {"commentary", "final", "message", "delta", "tool", "turn", "failed",
                      "unknown", "started"}

\* torn: wide lines of which a read took one half and a later one the other.
Fresh == [part |-> NoText, torn |-> {}, final |-> NoText, waiting |-> NoText,
          streamed |-> NoText, tools |-> {}, usage |-> 0, saw |-> FALSE, error |-> 0,
          visible |-> NoText, output |-> NoText]

-----------------------------------------------------------------------------
(* The normalizers: what one line does *)

\* Each read is decoded by itself: what a torn line says at the tear is damaged.
LineText(i, torn) == [line |-> i, damaged |-> i \in torn, clipped |-> FALSE]
FromStderr == <<LineText(0, {})>>
Text(n, i) == <<LineText(i, n.torn)>>

Show(n, text) == [n EXCEPT !.visible = @ \o text]

\* bound_agent_text: of what is published at once only the beginning and the end
\* are kept when it is too much.
BoundAgentText(text) ==
    IF Len(text) < 2 THEN text
    ELSE [k \in DOMAIN text |-> [text[k] EXCEPT !.clipped = @ \/ text[k].line \in agent.long]]
KeepEnd(text) ==
    SubSeq(text, IF Len(text) > MaxOutput THEN Len(text) - MaxOutput + 1 ELSE 1, Len(text))
Publish(n) ==
    [n EXCEPT !.visible = NoText, !.output = KeepEnd(@ \o BoundAgentText(n.visible))]

RecordTool(n, i) ==
    IF Cardinality(n.tools) >= MaxTools THEN n ELSE [n EXCEPT !.tools = @ \cup {i}]

\* A message that waits is thinking when more follows, and the reply when not.
TakePending(n, thinking) ==
    IF n.waiting = NoText THEN n
    ELSE [Show(n, n.waiting) EXCEPT !.waiting = NoText,
                                    !.final = IF thinking THEN @ ELSE n.waiting]

CodexLine(n, i, kind) ==
    LET seen == IF kind \in NoEvent THEN n ELSE [n EXCEPT !.saw = TRUE]
        past == TakePending(seen, TRUE)
        text == Text(n, i)
    IN CASE kind = "commentary" -> Show(past, text)
         [] kind = "final" -> [Show(past, text) EXCEPT !.final = text]
         [] kind = "message" -> [past EXCEPT !.waiting = text]
         [] kind = "tool" -> Show(RecordTool(seen, i), text)
         [] kind = "turn" -> [Show(TakePending(seen, FALSE), text) EXCEPT !.usage = i]
         [] kind = "failed" -> [Show(past, text) EXCEPT !.error = i]
         [] kind \in NoEvent \cup {"unknown"} -> Show(seen, text)
         [] OTHER -> seen

\* Once text has been streamed, whole messages only repeat it; the result
\* carries the text that counts.  Each line is published by itself.
ClaudeLine(n, i, kind) ==
    LET text == Text(n, i)
    IN CASE kind = "delta" ->
               [Show(n, text) EXCEPT !.saw = TRUE, !.streamed = @ \o text,
                                     !.final = n.streamed \o text]
         [] kind = "message" /\ ~n.saw ->
               [Show(n, text) EXCEPT !.final = IF @ = NoText THEN text ELSE @]
         [] kind = "turn" -> [Show(n, text) EXCEPT !.final = text, !.usage = i]
         [] kind \in NoEvent \cup {"tool"} -> Show(n, text)
         [] OTHER -> n

GeminiLine(n, i, kind) ==
    CASE kind \in NoEvent \cup {"message", "delta", "failed"} -> Show(n, Text(n, i))
      [] kind = "turn" -> [n EXCEPT !.usage = i]
      [] OTHER -> n

NormalizeLine(n, i) ==
    LET kind == agent.lines[i]
    IN CASE agent.provider = "codex" -> CodexLine(n, i, kind)
         [] agent.provider = "claude" -> Publish(ClaudeLine(n, i, kind))
         [] agent.provider = "gemini" -> GeminiLine(n, i, kind)

\* A line is normalized when its newline comes; text in front of it waits.
PushHalf(n, half) ==
    IF half % 2 = 1 THEN [n EXCEPT !.part = <<half>>]
    ELSE NormalizeLine([n EXCEPT !.part = NoText], LineOf(half))

Torn(chunk) == IF Head(chunk) % 2 = 1 THEN {} ELSE {LineOf(Head(chunk))} \cap agent.wide

\* The lines a chunk completes are published together.
Push(n, chunk) == Publish(FoldLeft(PushHalf, [n EXCEPT !.torn = @ \cup Torn(chunk)], chunk))

\* finish: a last line without its newline, and the message that waits.
Flush(n) ==
    LET line == IF n.part = NoText THEN n
                ELSE NormalizeLine([n EXCEPT !.part = NoText], LineOf(Head(n.part)))
    IN Publish(IF agent.provider = "codex" THEN TakePending(line, FALSE) ELSE line)

\* select_completed_agent_output: a transcript is no reply.
LooksLikeTranscript(text) ==
    Headings \subseteq {agent.lines[i] : i \in {p.line : p \in ToSet(text)} \ {0}}
MissesReply(n) ==
    agent.provider = "codex" /\ n.final = NoText /\ (n.saw \/ LooksLikeTranscript(n.output))
Fallback(n) == IF n.final # NoText THEN n.final ELSE n.output

-----------------------------------------------------------------------------
OutputInit(runs) ==
    /\ agent \in runs
    /\ child = [printed |-> 0, exit |-> "no", errors |-> 0]
    /\ read = [out |-> 0, err |-> 0, outEnd |-> FALSE, errEnd |-> FALSE]
    /\ queue = <<>>
    /\ norm = Fresh
    /\ run = [at |-> "running", reply |-> NoText, error |-> 0, usage |-> 0, tools |-> {}]

PrintHalf ==
    /\ child.exit = "no" /\ child.printed < Halves
    /\ child' = [child EXCEPT !.printed = @ + 1]
    /\ UNCHANGED <<agent, read, queue, norm, run>>
PrintError ==
    /\ child.exit = "no" /\ child.errors < MaxErrors
    /\ child' = [child EXCEPT !.errors = @ + 1]
    /\ UNCHANGED <<agent, read, queue, norm, run>>

\* A process that ends well has printed everything; the last newline may lack.
Exit(status) ==
    /\ child.exit = "no"
    /\ status = "success" => child.printed >= Halves - 1
    /\ child' = [child EXCEPT !.exit = status]
    /\ UNCHANGED <<agent, read, queue, norm, run>>

\* spawn_agent_output_reader
ReadStdout ==
    /\ Len(queue) < Room /\ ~read.outEnd
    /\ \E to \in read.out + 1..child.printed :
          /\ queue' = Append(queue, [from |-> "out", halves |-> [k \in 1..(to - read.out) |->
                                                                   read.out + k]])
          /\ read' = [read EXCEPT !.out = to]
    /\ UNCHANGED <<agent, child, norm, run>>
ReadStderr ==
    /\ Len(queue) < Room /\ ~read.errEnd /\ read.err < child.errors
    /\ queue' = Append(queue, [from |-> "err", halves |-> NoText])
    /\ read' = [read EXCEPT !.err = child.errors]
    /\ UNCHANGED <<agent, child, norm, run>>
ReadEnd ==
    /\ child.exit # "no"
    /\ \/ /\ ~read.outEnd /\ read.out = child.printed
          /\ read' = [read EXCEPT !.outEnd = TRUE]
       \/ /\ ~read.errEnd /\ read.err = child.errors
          /\ read' = [read EXCEPT !.errEnd = TRUE]
    /\ UNCHANGED <<agent, child, queue, norm, run>>

ProcessAgentEvent ==
    /\ run.at \in {"running", "draining"} /\ queue # <<>>
    /\ LET event == Head(queue)
       IN norm' = IF event.from = "err" THEN Publish(Show(norm, FromStderr)) ELSE Push(norm, event.halves)
    /\ queue' = Tail(queue)
    /\ UNCHANGED <<agent, child, read, run>>

\* The task saw the exit: it goes on until both readers have ended.
SeeExit ==
    /\ run.at = "running" /\ child.exit # "no"
    /\ run' = [run EXCEPT !.at = "draining"]
    /\ UNCHANGED <<agent, child, read, queue, norm>>

ToolRows(n) == IF agent.rollover THEN {} ELSE n.tools

\* What the task makes of the transcript of a process that has exited.
Outcome(n) ==
    IF child.exit # "success"
    THEN [at |-> "failed", reply |-> Fallback(n), error |-> n.error]
    ELSE IF agent.rollover THEN [at |-> "completed", reply |-> NoText, error |-> 0]
    ELSE IF MissesReply(n) THEN [at |-> "failed", reply |-> NoText, error |-> 0]
    ELSE [at |-> "completed", reply |-> Fallback(n), error |-> 0]
Conclude(n) == Outcome(n) @@ [usage |-> n.usage, tools |-> ToolRows(n)]

\* Faulty variant: what is still queued or unread is left.
FinishAtExit ==
    /\ run.at = "draining"
    /\ run' = Conclude(Flush(norm))
    /\ UNCHANGED <<agent, child, read, queue, norm>>

FinishRun ==
    /\ run.at = "draining" /\ queue = <<>> /\ read.outEnd /\ read.errEnd
    /\ run' = Conclude(Flush(norm))
    /\ UNCHANGED <<agent, child, read, queue, norm>>

\* An abort stops the process tree and drops what is queued.
AbortRun ==
    /\ run.at = "running"
    /\ child' = [child EXCEPT !.exit = IF @ = "no" THEN "killed" ELSE @]
    /\ queue' = <<>>
    /\ run' = [at |-> "aborted", reply |-> Fallback(norm), error |-> 0, usage |-> 0,
               tools |-> ToolRows(norm)]
    /\ UNCHANGED <<agent, read, norm>>

OutputNext ==
    \/ PrintHalf \/ PrintError \/ \E s \in {"success", "failure"} : Exit(s)
    \/ ReadStdout \/ ReadStderr \/ ReadEnd
    \/ ProcessAgentEvent \/ SeeExit \/ FinishRun \/ AbortRun

-----------------------------------------------------------------------------
OutputTypeOK ==
    /\ agent.provider \in Providers /\ ToSet(agent.lines) \subseteq Kinds
    /\ agent.wide \cup agent.long \subseteq DOMAIN agent.lines
    /\ child.printed \in 0..Halves /\ read.out =< child.printed
    /\ Len(queue) =< Room
    /\ Len(norm.output) =< MaxOutput /\ Cardinality(norm.tools) =< MaxTools
    /\ run.at \in {"running", "draining", "completed", "failed", "aborted"}

\* The lines the process printed, the last one whole or without its newline.
Printed == [i \in 1..LineOf(child.printed) |-> i]
Whole == Flush(FoldLeft(LAMBDA n, i : Publish(NormalizeLine(n, i)),
                        [Fresh EXCEPT !.torn = norm.torn], Printed))

\* A text without regard to what was left out of long lines.
Unclipped(text) == [k \in DOMAIN text |-> [text[k] EXCEPT !.clipped = FALSE]]

\* However the readers cut and interleave the output, and whenever the exit is
\* seen, a run that ended by itself has the usage, the error and the tools the
\* whole output, read line by line, says, and a reply the provider names is the one
\* it says, damaged in those lines only of which two reads took a part.  Where no
\* reply is named the lines shown take its place: none lacks and all are in order,
\* but what comes from stderr stands among them, the oldest go when there are too
\* many, and text may be left out of a long line shown together with others.
OutputIsWhole ==
    run.at \in {"completed", "failed"} =>
        LET whole == Conclude(Whole)
            named == Whole.final # NoText
            kept == SelectSeq(run.reply, LAMBDA p : p.line # 0)
        IN /\ \A f \in {"error", "usage", "tools"} : run[f] = whole[f]
           /\ named => run = whole
           /\ ~named => IsSuffix(Unclipped(kept), Unclipped(Whole.output))
           /\ child.errors = 0 =>
                 run.at = whole.at /\ Unclipped(run.reply) = Unclipped(whole.reply)
=============================================================================
