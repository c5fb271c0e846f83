----------------------------- MODULE ToResponses -----------------------------
(* The translators whose client speaks the Responses format.  An item has an *)
(* id (a string in the code) and a slot, its output_index.                   *)
EXTENDS Protocols

MessageId == 0
ReasoningId(i) == 2 * i + 1
CallId(i) == 2 * i + 2
Ordered(calls) == SortSeq(calls, LAMBDA a, b : a.at < b.at)
Output(thought, text, calls) ==
    Completed([thought |-> thought, text |-> text,
               calls |-> [n \in DOMAIN calls |-> [name |-> Ordered(calls)[n].name, args |-> Ordered(calls)[n].args]]])

(****************************************************************************)
(* From Claude: every text block is the same item in slot 0; a thought      *)
(* closes its part but not its item.                                        *)
(****************************************************************************)
ClaudeToResponses0 ==
    [out |-> <<>>, inText |-> FALSE, inCall |-> FALSE, thinking |-> FALSE, rs |-> 0, thought |-> <<>>, text |-> <<>>,
     calls |-> <<>>]

ClaudeOpens(t, e) ==
    CASE e.kind = "text" -> [Emit(t, <<Added(MessageId, 0, "text", NoName)>>) EXCEPT !.inText = TRUE]
      [] e.kind = "call" -> [Emit(t, <<Added(CallId(e.at), e.at, "call", e.name)>>)
                               EXCEPT !.inCall = TRUE, !.calls = Append(@, [at |-> e.at, name |-> e.name, args |-> <<>>])]
      [] e.kind = "thought" -> [Emit(t, <<Added(ReasoningId(e.at), e.at, "thought", NoName)>>)
                                  EXCEPT !.thinking = TRUE, !.rs = e.at, !.thought = <<>>]
ClaudeDelta(t, e) ==
    CASE e.kind = "text" -> [Emit(t, <<Delta(MessageId, "text", e.data)>>) EXCEPT !.text = @ \o e.data]
      [] e.kind = "call" -> [Emit(t, <<Delta(CallId(e.at), "call", e.data)>>)
                               EXCEPT !.calls = [n \in DOMAIN @ |-> IF @[n].at = e.at
                                                                    THEN [@[n] EXCEPT !.args = @ \o e.data] ELSE @[n]]]
      [] e.kind = "thought" -> IF ~t.thinking THEN t
                               ELSE [Emit(t, <<Delta(ReasoningId(t.rs), "thought", e.data)>>) EXCEPT !.thought = @ \o e.data]
ClaudeCloses(t, e) ==
    IF t.inText THEN [Emit(t, <<Item(MessageId, "text", NoName, <<>>)>>) EXCEPT !.inText = FALSE]
    ELSE IF t.inCall
         THEN LET c == CHOOSE n \in DOMAIN t.calls : t.calls[n].at = e.at
              IN  [Emit(t, <<Item(CallId(e.at), "call", NoName, t.calls[c].args)>>) EXCEPT !.inCall = FALSE]
    ELSE [t EXCEPT !.thinking = FALSE]
ClaudeToResponses(t, e) ==
    CASE e.ev = "start" -> Emit(t, <<Start>>)
      [] e.ev = "open" -> ClaudeOpens(t, e)
      [] e.ev = "delta" -> ClaudeDelta(t, e)
      [] e.ev = "close" -> ClaudeCloses(t, e)
      [] e.ev = "stop" -> Emit(t, <<Output(t.thought, t.text, t.calls)>>)
      [] OTHER -> t

(****************************************************************************)
(* From Gemini, Gemini CLI and Antigravity: one reasoning item, closed when *)
(* text, a call or the end comes, and never opened again; one message; the  *)
(* calls are done at the end.  The message's done events have no text.      *)
(****************************************************************************)
GeminiToResponses0 ==
    [out |-> <<>>, started |-> FALSE, next |-> 0, rs |-> -1, closed |-> FALSE, msg |-> -1, thought |-> <<>>,
     text |-> <<>>, calls |-> <<>>]

FinalizeReasoning(t) ==
    IF t.rs = -1 \/ t.closed THEN t
    ELSE [Emit(t, <<Item(ReasoningId(t.rs), "thought", NoName, t.thought)>>) EXCEPT !.closed = TRUE]
GeminiThought(t, p) ==
    LET o == IF t.rs # -1 THEN t
             ELSE [Emit(t, <<Added(ReasoningId(t.next), t.next, "thought", NoName)>>) EXCEPT !.rs = t.next, !.next = @ + 1]
    IN  IF t.closed THEN t
        ELSE IF p.data = <<>> THEN o
        ELSE [Emit(o, <<Delta(ReasoningId(o.rs), "thought", p.data)>>) EXCEPT !.thought = @ \o p.data]
GeminiText(t, p) ==
    LET f == FinalizeReasoning(t)
        o == IF f.msg # -1 THEN f
             ELSE [Emit(f, <<Added(MessageId, f.next, "text", NoName)>>) EXCEPT !.msg = f.next, !.next = @ + 1]
    IN  [Emit(o, <<Delta(MessageId, "text", p.data)>>) EXCEPT !.text = @ \o p.data]
GeminiCall(t, p) ==
    LET f == FinalizeReasoning(t)
    IN  [Emit(f, <<Added(CallId(f.next), f.next, "call", p.name), Delta(CallId(f.next), "call", p.data)>>)
           EXCEPT !.calls = Append(@, [at |-> f.next, name |-> p.name, args |-> p.data]), !.next = @ + 1]
GeminiPart(t, p) ==
    CASE p.kind = "thought" -> GeminiThought(t, p)
      [] p.kind = "text" -> IF p.data = <<>> THEN t ELSE GeminiText(t, p)
      [] p.kind = "call" -> GeminiCall(t, p)
GeminiFinish(t) ==
    LET f == FinalizeReasoning(t)
        m == IF f.msg = -1 THEN f ELSE Emit(f, <<Item(MessageId, "text", NoName, <<>>)>>)
        c == FoldLeft(LAMBDA s, d : Emit(s, <<Item(CallId(d.at), "call", d.name, d.args)>>), m, m.calls)
    IN  Emit(c, <<Output(c.thought, c.text, c.calls)>>)
GeminiToResponses(t, c) ==
    LET begun == IF t.started THEN t ELSE [Emit(t, <<Start>>) EXCEPT !.started = TRUE]
        said == FoldLeft(GeminiPart, begun, c.parts)
    IN  IF c.finish = "none" THEN said ELSE GeminiFinish(said)
GeminiCLIToResponses(t, c) == GeminiToResponses(t, c)
AntigravityToResponses(t, c) == GeminiToResponses(t, c)

(****************************************************************************)
(* From chat completions: message, reasoning and call of a choice share its *)
(* slot; only the first call of a chunk is looked at, and only one call is  *)
(* ever opened.  msg: "none", "open" or "done".                             *)
(****************************************************************************)
ChatToResponses0 ==
    [out |-> <<>>, started |-> FALSE, msg |-> "none", rs |-> FALSE, call |-> FALSE, thought |-> <<>>, text |-> <<>>,
     name |-> NoName, args |-> <<>>]

ChatMessageText(t, d) ==
    LET o == IF t.msg # "none" THEN t ELSE [Emit(t, <<Added(MessageId, 0, "text", NoName)>>) EXCEPT !.msg = "open"]
    IN  IF d = <<>> THEN t ELSE [Emit(o, <<Delta(MessageId, "text", d)>>) EXCEPT !.text = @ \o d]
ChatReasoning(t, d) ==
    LET o == IF t.rs THEN t ELSE [Emit(t, <<Added(ReasoningId(0), 0, "thought", NoName)>>) EXCEPT !.rs = TRUE]
    IN  IF d = <<>> THEN t ELSE [Emit(o, <<Delta(ReasoningId(0), "thought", d)>>) EXCEPT !.thought = @ \o d]
MessageDone(t) ==
    IF t.msg # "open" THEN t ELSE [Emit(t, <<Item(MessageId, "text", NoName, t.text)>>) EXCEPT !.msg = "done"]
ChatToolCalls(t, calls) ==
    LET c == Head(calls)
        m == [MessageDone(t) EXCEPT !.name = IF c.name = NoName THEN @ ELSE c.name]
        o == IF m.call \/ c.name = NoName THEN m
             ELSE [Emit(m, <<Added(CallId(0), 0, "call", c.name)>>) EXCEPT !.call = TRUE]
        d == [o EXCEPT !.args = @ \o c.args]
    IN  IF calls = <<>> THEN t
        ELSE IF c.args = <<>> THEN d ELSE Emit(d, <<Delta(CallId(0), "call", c.args)>>)
ChatFinish(t) ==
    LET m == MessageDone(t)
        c == IF m.call THEN Emit(m, <<Item(CallId(0), "call", m.name, m.args)>>) ELSE m
    IN  Emit(c, <<Output(c.thought, c.text, IF c.call THEN <<[at |-> 0, name |-> c.name, args |-> c.args]>> ELSE <<>>)>>)
ChatToResponses(t, c) ==
    LET begun == IF t.started THEN t ELSE [Emit(t, <<Start>>) EXCEPT !.started = TRUE]
        said == ChatToolCalls(ChatReasoning(ChatMessageText(begun, c.text), c.thought), c.calls)
    IN  IF c.done THEN t
        ELSE IF ~c.choice THEN begun
        ELSE IF c.finish \in {"null", "absent"} THEN said ELSE ChatFinish(said)

(* Complete answers. *)
ClaudeToResponsesUnary(blocks) ==
    LET c == Content(blocks)
    IN  Unary(TextBlock("thought", c.thought) \o TextBlock("text", c.text) \o CallBlocks(c.calls), "stop")
GeminiToResponsesUnary(parts) ==
    LET c == Content(parts)
    IN  Unary(CallBlocks(c.calls) \o TextBlock("thought", c.thought) \o TextBlock("text", c.text), "stop")
ChatToResponsesUnary(m) ==
    Unary(TextBlock("thought", m.thought) \o TextBlock("text", m.text) \o CallBlocks(m.calls), "stop")
=============================================================================
