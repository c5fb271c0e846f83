---------------------------- MODULE MCTranslation ----------------------------
(* Every pair of formats with a translator between them, and what the       *)
(* translators are known to do: <<source, target, habit, <<what, about>>>>. *)
EXTENDS Translation

MCPairs ==
    (GeminiSources \X {"claude", "chat", "responses"})
    \cup ({"chat"} \X {"claude", "responses", "gemini"})
    \cup ({"claude"} \X {"chat", "responses", "gemini"})
    \cup ({"codex"} \X {"claude", "chat", "gemini"})
    \cup ({"kiro"} \X {"claude", "chat", "responses", "gemini"})

Deviate(sources, target, shown, deviations) ==
    {<<s, target, h, d>> : s \in sources, h \in shown, d \in deviations}
Late == {"late text", "late thought"}
FromClaude == {"claude", "kiro"}

ToClaudeKnown ==
    \* The reason is told again with counts that come after the end.
    Deviate({"chat"}, "claude", {"usage later"}, {<<"after the end", "reason">>})
    \* No counts, no reason; and then the last block stays open.
    \cup Deviate({"gemini", "gemini-cli"}, "claude", {"uncounted"},
                {<<"lost", "reason">>, <<"left open", "text">>, <<"left open", "thought">>, <<"left open", "call">>})
    \* The reason knows the calls of its own chunk, and never a limit.
    \cup Deviate({"gemini", "gemini-cli"}, "claude", {"call", "length"}, {<<"lost", "reason">>})
    \* An empty text closes a thought that goes on.
    \cup Deviate({"antigravity"}, "claude", {"empty"},
                {<<"lost", "thought">>, <<"stray", "thought">>, <<"stray", "close">>})
    \* A second summary part opens the block of the first again.
    \cup Deviate({"codex"}, "claude", {"summaries"},
                {<<"taken", "thought">>, <<"lost", "thought">>, <<"stray", "thought">>, <<"stray", "close">>})

ToChatKnown ==
    \* A chunk has room for one text and one thought, and numbers calls by their place in it.
    Deviate(GeminiSources, "chat", {"packed"},
           {<<"lost", "text">>, <<"lost", "thought">>, <<"lost", "calls">>, <<"taken", "call">>})
    \* A chunk with calls has the reason, others come after it, and the last says stop.
    \cup Deviate(GeminiSources, "chat", {"call"},
                {<<"after the reason", "delta">>, <<"after the reason", "call">>, <<"changed", "reason">>,
                 <<"lost", "reason">>})
    \* The reason for a limit is written as Gemini has it.
    \cup Deviate(GeminiSources, "chat", {"length"}, {<<"lost", "reason">>, <<"unary", "reason">>})
    \cup Deviate(GeminiSources, "chat", {"twice"}, {<<"unary", "text">>, <<"unary", "thought">>})
    \cup Deviate({"claude"}, "chat", {"any"}, {<<"unary", "thought">>})
    \cup Deviate({"codex"}, "chat", {"call"}, {<<"unary", "reason">>})
    \cup Deviate({"codex"}, "chat", {"twice"}, {<<"unary", "text">>, <<"unary", "thought">>})

ToResponsesKnown ==
    \* One slot for the message, the reasoning and the only call.
    Deviate({"chat"}, "responses", {"any"}, {<<"left open", "thought">>, <<"slot taken", "text">>})
    \cup Deviate({"chat"}, "responses", {"late thought"}, {<<"slot taken", "thought">>})
    \cup Deviate({"chat"}, "responses", {"call"}, {<<"slot taken", "call">>})
    \cup Deviate({"chat"}, "responses", {"two calls"}, {<<"lost", "calls">>, <<"differs", "output">>})
    \cup Deviate({"chat"}, "responses", {"late text"},
                {<<"lost", "text">>, <<"stray", "text">>, <<"differs", "output">>})
    \* Done events without their text; a message always in the first slot; reasoning never done.
    \cup Deviate(FromClaude, "responses", {"any"}, {<<"differs", "text">>, <<"left open", "thought">>})
    \cup Deviate({"claude"}, "responses", {"any"}, {<<"slot taken", "text">>})
    \cup Deviate({"kiro"}, "responses", {"late text"}, {<<"slot taken", "text">>})
    \cup Deviate(FromClaude, "responses", {"twice"},
                {<<"taken", "text">>, <<"lost", "text">>, <<"stray", "text">>, <<"stray", "close">>,
                 <<"differs", "output">>})
    \* Kiro's end of message is not seen, and its complete answers are not translated.
    \cup Deviate({"kiro"}, "responses", {"any"}, {<<"lost", "end">>, <<"unary", "text">>, <<"unary", "calls">>})
    \cup Deviate(GeminiSources, "responses", {"any"}, {<<"differs", "text">>})
    \* Reasoning is over with the first text or call.
    \cup Deviate(GeminiSources, "responses", {"late thought"}, {<<"lost", "thought">>})

ToGeminiKnown ==
    \* A finish_reason null ends the answer, again and again.
    Deviate({"chat"}, "gemini", {"null"},
           {<<"after the reason", "delta">>, <<"after the reason", "call">>, <<"changed", "reason">>,
            <<"lost", "reason">>})
    \* The calls come in the order of a map.
    \cup Deviate({"chat"}, "gemini", {"two calls"}, {<<"lost", "calls">>})
    \* Every call comes with the reason.
    \cup Deviate(FromClaude, "gemini", {"two calls"}, {<<"after the reason", "call">>})
    \cup Deviate(FromClaude, "gemini", Late, {<<"after the reason", "delta">>})
    \cup Deviate(FromClaude, "gemini", {"length"}, {<<"lost", "reason">>, <<"unary", "reason">>})
    \cup Deviate({"kiro"}, "gemini", {"any"}, {<<"unary", k>> : k \in {"text", "calls", "reason"}})
    \* Without calls no reason is told; with them each comes again before what follows.
    \cup Deviate({"codex"}, "gemini", {"any"}, {<<"lost", "reason">>, <<"unary", "thought">>})
    \cup Deviate({"codex"}, "gemini", Late,
                {<<"after the reason", "delta">>, <<"after the reason", "call">>, <<"lost", "calls">>})

MCKnown ==
    ToClaudeKnown \cup ToChatKnown \cup ToResponsesKnown \cup ToGeminiKnown
    \* Of two tool uses in pieces one is cut short, or dropped.
    \cup UNION {Deviate({"kiro"}, target, {"interleaved"}, {<<"lost", "calls">>, <<"unary", "calls">>})
                : target \in {"claude", "chat", "responses", "gemini"}}
=============================================================================
