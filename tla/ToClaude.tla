------------------------------- MODULE ToClaude -------------------------------
(* The translators whose client speaks the Claude format: a state record per *)
(* stream, one operator per kind of input, and the converters of complete    *)
(* answers.  Block indexes are counted as the code counts them; -1 is none.  *)
EXTENDS Protocols

(****************************************************************************)
(* From chat completions.  up: the map of tool calls is ranged over in      *)
(* ascending order when the stream ends (Go chooses any order).             *)
(****************************************************************************)
ChatToClaude0(up) ==
    [out |-> <<>>, up |-> up, started |-> FALSE, thought |-> -1, text |-> -1, next |-> 0, calls |-> <<>>,
     reason |-> "none", stopped |-> FALSE, told |-> FALSE, ended |-> FALSE]

StopThinking(t) == IF t.thought = -1 THEN t ELSE [Emit(t, <<Close(t.thought)>>) EXCEPT !.thought = -1]
StopText(t) == IF t.text = -1 THEN t ELSE [Emit(t, <<Close(t.text)>>) EXCEPT !.text = -1]
StopMessage(t) == IF t.ended THEN t ELSE [Emit(t, <<Stop>>) EXCEPT !.ended = TRUE]

ChatThought(t, d) ==
    LET s == StopText(t)
        o == IF s.thought # -1 THEN s
             ELSE [Emit(s, <<Open(s.next, "thought", NoName)>>) EXCEPT !.thought = s.next, !.next = @ + 1]
    IN  IF d = <<>> THEN t ELSE Emit(o, <<Delta(o.thought, "thought", d)>>)

MutChatText(t, d) ==
    LET o == IF t.text # -1 THEN t
             ELSE [Emit(t, <<Open(t.next, "text", NoName)>>) EXCEPT !.text = t.next, !.next = @ + 1, !.thought = -1]
    IN  IF d = <<>> THEN t ELSE Emit(o, <<Delta(o.text, "text", d)>>)

ChatText(t, d) ==
    LET s == StopThinking(t)
        o == IF t.text # -1 THEN t
             ELSE [Emit(s, <<Open(s.next, "text", NoName)>>) EXCEPT !.text = s.next, !.next = @ + 1]
    IN  IF d = <<>> THEN t ELSE Emit(o, <<Delta(o.text, "text", d)>>)

(* A tool call gets its block's index when its own index is first seen. *)
ChatToolCall(t, c) ==
    LET n == c.at + 1
        s == IF n \in DOMAIN t.calls THEN t
             ELSE [t EXCEPT !.calls = Append(@, [at |-> t.next, args |-> <<>>]), !.next = @ + 1]
        o == IF c.name = NoName THEN s
             ELSE Emit(StopText(StopThinking(s)), <<Open(s.calls[n].at, "call", c.name)>>)
    IN  [o EXCEPT !.calls[n].args = @ \o c.args]

StopCall(t, c) ==
    Emit(t, (IF c.args = <<>> THEN <<>> ELSE <<Delta(c.at, "call", c.args)>>) \o <<Close(c.at)>>)
StopCalls(t) ==
    IF t.stopped THEN t
    ELSE [FoldLeft(StopCall, t, IF t.up THEN t.calls ELSE Reverse(t.calls)) EXCEPT !.stopped = TRUE]
StopBlocks(t) == StopCalls(StopText(StopThinking(t)))

(* While the reason is known every chunk tells it again, a usage chunk too. *)
TellReason(t) == [Emit(t, <<Reason(t.reason)>>) EXCEPT !.told = TRUE]
ChatChunkToClaude(t, c) ==
    LET started == IF c.choice /\ c.role /\ ~t.started THEN [Emit(t, <<Start>>) EXCEPT !.started = TRUE] ELSE t
        said == FoldLeft(ChatToolCall, ChatText(ChatThought(started, c.thought), c.text), c.calls)
        closed == IF c.finish \in {"null", "absent"} THEN said ELSE [StopBlocks(said) EXCEPT !.reason = c.finish]
    IN  IF closed.reason = "none" THEN closed ELSE StopMessage(TellReason(closed))

ChatDoneToClaude(t) ==
    LET closed == StopBlocks(t)
    IN  StopMessage(IF closed.reason # "none" /\ ~closed.told THEN TellReason(closed) ELSE closed)

ChatToClaude(t, c) == IF c.done THEN ChatDoneToClaude(t) ELSE ChatChunkToClaude(t, c)

(* Complete answers: m is a chat message. *)
ChatToClaudeUnary(m) ==
    Unary(TextBlock("text", m.text) \o TextBlock("thought", m.thought) \o CallBlocks(m.calls), m.reason)

(****************************************************************************)
(* From Gemini, Gemini CLI and Antigravity: one block is open at a time.    *)
(****************************************************************************)
GeminiToClaude0 ==
    [out |-> <<>>, started |-> FALSE, kind |-> "none", at |-> 0, finish |-> "none", usage |-> FALSE,
     final |-> FALSE, tool |-> FALSE]

BlockStart(t) == IF t.started THEN t ELSE [Emit(t, <<Start>>) EXCEPT !.started = TRUE]
CloseBlock(t) == IF t.kind = "none" THEN t ELSE [Emit(t, <<Close(t.at)>>) EXCEPT !.at = @ + 1]
Continue(t, p) ==
    IF t.kind = p.kind THEN Emit(t, <<Delta(t.at, p.kind, p.data)>>)
    ELSE LET s == CloseBlock(t)
         IN  [Emit(s, <<Open(s.at, p.kind, NoName), Delta(s.at, p.kind, p.data)>>) EXCEPT !.kind = p.kind]
OpenCall(t, p) ==
    LET s == CloseBlock(t)
    IN  [Emit(s, <<Open(s.at, "call", p.name), Delta(s.at, "call", p.data)>>) EXCEPT !.kind = "call", !.tool = TRUE]

GeminiPartToClaude(t, p) == IF p.kind = "call" THEN OpenCall(t, p) ELSE Continue(t, p)
(* The reason is told only with counted tokens, and knows only the calls of its own chunk. *)
GeminiToClaude(t, c) ==
    IF c.done THEN Emit(t, <<Stop>>)
    ELSE LET said == FoldLeft(GeminiPartToClaude, BlockStart(t), c.parts)
             calls == \E i \in DOMAIN c.parts : c.parts[i].kind = "call"
         IN  IF c.finish = "none" \/ ~c.counted THEN said
             ELSE Emit(said, <<Close(said.at), Reason(IF calls THEN "tool" ELSE "stop")>>)
GeminiCLIToClaude(t, c) == GeminiToClaude(t, c)

(* Antigravity: a signed thought only signs the open block, and an empty text
   outside the last chunk closes the block but leaves its kind. *)
AntigravityPartToClaude(last, t, p) ==
    IF p.kind = "call" THEN OpenCall(t, p)
    ELSE IF p.kind = "thought" /\ p.signed THEN Emit(t, <<Delta(t.at, "thought", <<>>)>>)
    ELSE IF p.kind = "thought" \/ p.data # <<>> \/ (t.kind = "text" /\ ~last) THEN Continue(t, p)
    ELSE IF last THEN t ELSE CloseBlock(t)
MutMapStop(t) == IF t.finish = "length" THEN "length" ELSE "stop"
MapStop(t) == IF t.tool THEN "tool" ELSE IF t.finish = "length" THEN "length" ELSE "stop"
FinalEvents(t, force) ==
    IF t.final \/ (~t.usage /\ ~force) THEN t
    ELSE [Emit(IF t.kind = "none" THEN t ELSE Emit(t, <<Close(t.at)>>), <<Reason(MapStop(t))>>)
              EXCEPT !.kind = "none", !.final = TRUE]
AntigravityToClaude(t, c) ==
    IF c.done THEN Emit(FinalEvents(t, TRUE), <<Stop>>)
    ELSE LET Part(s, p) == AntigravityPartToClaude(c.finish # "none", s, p)
             said == FoldLeft(Part, BlockStart(t), c.parts)
             seen == [said EXCEPT !.finish = IF c.finish = "none" THEN @ ELSE c.finish, !.usage = @ \/ c.usage]
         IN  IF seen.usage /\ seen.finish # "none" THEN FinalEvents(seen, FALSE) ELSE seen

(* The parts of a complete answer: text and thought are gathered until the other comes. *)
MutGather(blocks, p) ==
    IF blocks # <<>> /\ Last(blocks).kind = p.kind
    THEN [blocks EXCEPT ![Len(blocks)].data = @ \o p.data]
    ELSE Append(blocks, Block(p.kind, p.name, p.data))
Gather(blocks, p) ==
    IF blocks # <<>> /\ p.kind # "call" /\ Last(blocks).kind = p.kind
    THEN [blocks EXCEPT ![Len(blocks)].data = @ \o p.data]
    ELSE Append(blocks, Block(p.kind, p.name, p.data))
GeminiToClaudeUnary(parts, finish) ==
    Unary(FoldLeft(Gather, <<>>, parts), IF HasCall(parts) THEN "tool" ELSE finish)
GeminiCLIToClaudeUnary(parts, finish) == GeminiToClaudeUnary(parts, finish)
AntigravityToClaudeUnary(parts, finish) == GeminiToClaudeUnary(parts, finish)

(****************************************************************************)
(* From Codex (the Responses format): events are renamed one by one.        *)
(****************************************************************************)
CodexToClaude0 == [out |-> <<>>, tool |-> FALSE]
CodexToClaude(t, e) ==
    CASE e.ev = "open" /\ e.kind = "call" ->
           [Emit(t, <<Open(e.at, "call", e.name), Delta(e.at, "call", <<>>)>>) EXCEPT !.tool = TRUE]
      [] e.ev = "item" -> Emit(t, <<Close(e.at)>>)
      [] e.ev = "completed" -> Emit(t, <<Reason(IF t.tool THEN "tool" ELSE "stop"), Stop>>)
      [] OTHER -> Emit(t, <<e>>)
CodexToClaudeUnary(items) == Unary(items, IF HasCall(items) THEN "tool" ELSE "stop")
=============================================================================
