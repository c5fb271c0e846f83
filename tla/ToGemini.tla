------------------------------- MODULE ToGemini -------------------------------
(* The translators whose client speaks the Gemini format: text, thought and  *)
(* whole calls in the order they are written, and a reason that knows stop   *)
(* and length only.                                                          *)
EXTENDS Protocols

GeminiStop(reason) == IF reason = "length" THEN "length" ELSE "stop"

(****************************************************************************)
(* From chat completions: a chunk with text or thought is nothing else, one *)
(* with calls only gathers them, and any other that has a finish_reason, be *)
(* it null, ends the answer.  up: the order of ranging over the map.        *)
(****************************************************************************)
ChatToGemini0(up) == [out |-> <<>>, up |-> up, calls |-> <<>>]
GatherCall(t, c) ==
    LET n == c.at + 1
        s == IF n \in DOMAIN t.calls THEN t ELSE [t EXCEPT !.calls = Append(@, [name |-> c.name, args |-> <<>>])]
    IN  [s EXCEPT !.calls[n].args = @ \o c.args]
GeminiCalls(calls) == [n \in DOMAIN calls |-> Call(Message, calls[n].name, calls[n].args)]
ChatToGemini(t, c) ==
    LET said == (IF c.thought = <<>> THEN <<>> ELSE <<Delta(Message, "thought", c.thought)>>)
                \o (IF c.text = <<>> THEN <<>> ELSE <<Delta(Message, "text", c.text)>>)
    IN  IF c.done \/ ~c.choice THEN t
        ELSE IF said # <<>> THEN Emit(t, said)
        ELSE IF c.calls # <<>> THEN FoldLeft(GatherCall, t, c.calls)
        ELSE IF c.finish = "absent" THEN t
        ELSE [Emit(t, GeminiCalls(IF t.up THEN t.calls ELSE Reverse(t.calls)) \o <<Reason(GeminiStop(c.finish))>>)
                EXCEPT !.calls = <<>>]
ChatToGeminiUnary(m) ==
    Unary(TextBlock("thought", m.thought) \o TextBlock("text", m.text) \o CallBlocks(m.calls), GeminiStop(m.reason))

(****************************************************************************)
(* From Claude: a call is written, with a reason, when its block stops; the *)
(* reason of message_delta is always STOP, a later line sees to that.       *)
(****************************************************************************)
ClaudeToGemini0 == [out |-> <<>>, calls |-> <<>>]
ClaudeToGemini(t, e) ==
    LET Running(i) == \E n \in DOMAIN t.calls : t.calls[n].at = i
        At(i) == CHOOSE n \in DOMAIN t.calls : t.calls[n].at = i
    IN  CASE e.ev = "open" /\ e.kind = "call" ->
               [t EXCEPT !.calls = Append(@, [at |-> e.at, name |-> e.name, args |-> <<>>])]
          [] e.ev = "delta" /\ e.kind = "call" -> [t EXCEPT !.calls[At(e.at)].args = @ \o e.data]
          [] e.ev = "delta" /\ e.kind # "call" -> Emit(t, <<Delta(Message, e.kind, e.data)>>)
          [] e.ev = "close" /\ Running(e.at) ->
               [Emit(t, GeminiCalls(<<t.calls[At(e.at)]>>) \o <<Reason("stop")>>) EXCEPT !.calls = RemoveAt(@, At(e.at))]
          [] e.ev = "reason" -> Emit(t, <<Reason("stop")>>)
          [] OTHER -> t
(* consolidateParts joins neighbours of one kind. *)
Joined(blocks, b) ==
    IF blocks # <<>> /\ b.kind # "call" /\ Last(blocks).kind = b.kind
    THEN [blocks EXCEPT ![Len(blocks)].data = @ \o b.data] ELSE Append(blocks, b)
ClaudeToGeminiUnary(blocks) == Unary(FoldLeft(Joined, <<>>, blocks), "stop")

(****************************************************************************)
(* From Codex: the calls done so far are kept, written before whatever      *)
(* comes next, and kept.                                                    *)
(****************************************************************************)
CodexToGemini0 == [out |-> <<>>, calls |-> <<>>]
CodexToGemini(t, e) ==
    LET kept == GeminiCalls(t.calls) \o (IF t.calls = <<>> THEN <<>> ELSE <<Reason("stop")>>)
    IN  CASE e.ev = "item" -> [t EXCEPT !.calls = Append(@, [name |-> e.name, args |-> e.data])]
          [] e.ev = "delta" /\ e.kind # "call" -> Emit(t, kept \o <<Delta(Message, e.kind, e.data)>>)
          [] e.ev \in {"start", "completed"} -> Emit(t, kept)
          [] OTHER -> t
(* Codex leaves a reasoning item's content empty: its thoughts are in the summary, which is not read. *)
CodexToGeminiUnary(items) == [content |-> [Content(items) EXCEPT !.thought = <<>>], reason |-> "stop"]
=============================================================================
