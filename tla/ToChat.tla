-------------------------------- MODULE ToChat --------------------------------
(* The translators whose client speaks the chat completions format: text and *)
(* thought belong to the message, calls have an index.                       *)
EXTENDS Protocols

(****************************************************************************)
(* From Claude: a call is gathered and written whole when its block stops,  *)
(* under the index of its block.                                            *)
(****************************************************************************)
ClaudeToChat0 == [out |-> <<>>, calls |-> <<>>]
Gathering(t, i) == \E n \in DOMAIN t.calls : t.calls[n].at = i
GatheredAt(t, i) == CHOOSE n \in DOMAIN t.calls : t.calls[n].at = i

ClaudeToChat(t, e) ==
    CASE e.ev = "open" /\ e.kind = "call" ->
           [t EXCEPT !.calls = Append(@, [at |-> e.at, name |-> e.name, args |-> <<>>])]
      [] e.ev = "delta" /\ e.kind = "call" /\ Gathering(t, e.at) ->
           [t EXCEPT !.calls[GatheredAt(t, e.at)].args = @ \o e.data]
      [] e.ev = "delta" /\ e.kind # "call" -> Emit(t, <<Delta(Message, e.kind, e.data)>>)
      [] e.ev = "close" /\ Gathering(t, e.at) ->
           LET c == t.calls[GatheredAt(t, e.at)]
           IN  [Emit(t, <<Call(c.at, c.name, c.args)>>) EXCEPT !.calls = RemoveAt(@, GatheredAt(t, e.at))]
      [] e.ev = "reason" -> Emit(t, <<e>>)
      [] OTHER -> t
(* The thought goes into "reasoning", where a client of the stream's "reasoning_content" does not look. *)
ClaudeToChatUnary(blocks, reason) ==
    [content |-> [Content(blocks) EXCEPT !.thought = <<>>], reason |-> IF HasCall(blocks) THEN "tool" ELSE reason]

(****************************************************************************)
(* From Gemini, Gemini CLI and Antigravity: a chunk for a chunk.  A second  *)
(* text in a chunk takes the place of the first; a second call has its      *)
(* place in the chunk for an index; a call overrides the reason.            *)
(****************************************************************************)
GeminiToChat0 == [out |-> <<>>, next |-> 0]
GeminiReason(finish) == IF finish = "length" THEN "max_tokens" ELSE finish
GeminiPartToChat(c, p) ==
    CASE p.kind = "thought" -> [c EXCEPT !.thought = p.data]
      [] p.kind = "text" -> [c EXCEPT !.text = p.data]
      [] p.kind = "call" ->
           [c EXCEPT !.calls = Append(@, Call(IF @ = <<>> THEN c.next ELSE Len(@), p.name, p.data)), !.next = @ + 1]
GeminiToChat(t, c) ==
    LET read == FoldLeft(GeminiPartToChat, [thought |-> <<>>, text |-> <<>>, calls |-> <<>>, next |-> t.next], c.parts)
        reason == IF read.calls # <<>> THEN "tool" ELSE GeminiReason(c.finish)
    IN  IF c.done THEN t
        ELSE [Emit(t, <<Delta(Message, "thought", read.thought), Delta(Message, "text", read.text)>>
                      \o read.calls \o (IF reason = "none" THEN <<>> ELSE <<Reason(reason)>>)) EXCEPT !.next = read.next]
GeminiCLIToChat(t, c) == GeminiToChat(t, c)
AntigravityToChat(t, c) == GeminiToChat(t, c)
GeminiToChatUnary(parts, finish) ==
    LET read == FoldLeft(GeminiPartToChat, [thought |-> <<>>, text |-> <<>>, calls |-> <<>>, next |-> 0], parts)
    IN  [content |-> [thought |-> read.thought, text |-> read.text,
                      calls |-> [n \in DOMAIN read.calls |-> [name |-> read.calls[n].name, args |-> read.calls[n].data]]],
         reason |-> IF read.calls # <<>> THEN "tool" ELSE GeminiReason(finish)]
GeminiCLIToChatUnary(parts, finish) == GeminiToChatUnary(parts, finish)
AntigravityToChatUnary(parts, finish) == GeminiToChatUnary(parts, finish)

(****************************************************************************)
(* From Codex: a call is written whole when its item is done.               *)
(****************************************************************************)
CodexToChat0 == [out |-> <<>>, last |-> -1]
CodexToChat(t, e) ==
    CASE e.ev = "delta" /\ e.kind # "call" -> Emit(t, <<Delta(Message, e.kind, e.data)>>)
      [] e.ev = "item" -> [Emit(t, <<Call(t.last + 1, e.name, e.data)>>) EXCEPT !.last = @ + 1]
      [] e.ev = "completed" -> Emit(t, <<Reason(IF t.last # -1 THEN "tool" ELSE "stop")>>)
      [] OTHER -> t
(* A later item's text, and a later item's first summary part, take the place of an earlier one's. *)
LastOf(items, k) ==
    LET first == SelectSeq(items, LAMBDA b : b.kind = k /\ ~b.more)
    IN  IF first = <<>> THEN <<>> ELSE Last(first).data
CodexToChatUnary(items) ==
    [content |-> [thought |-> LastOf(items, "thought"), text |-> LastOf(items, "text"), calls |-> Content(items).calls],
     reason |-> "stop"]
=============================================================================
