----------------------------- MODULE Translation -----------------------------
(* One streamed answer on its way from a provider of one format to a client *)
(* of another, through the translator registered for the pair: the executor *)
(* hands every chunk of the provider to sdktranslator.TranslateStream with  *)
(* the state of this stream (param), and the client reads what comes out.   *)
(*                                                                          *)
(* The provider says its answer in any way its format allows; what is       *)
(* unusual about the way is a habit.  Known lists, for a pair of formats and*)
(* a habit, the deviations the translators have (each is described in the   *)
(* README); any other one violates a property.                              *)
EXTENDS KiroStream, ToClaude, ToChat, ToResponses, ToGemini, FiniteSets

CONSTANTS Pairs,     \* the pairs <<source, target>> to look at
          MaxPieces, \* bound: pieces in an answer
          MaxBlocks, \* bound: blocks in an answer
          Known      \* <<source, target, habit, <<what, about>>>>

ASSUME PairsAssumption ==
    Pairs \subseteq {"chat", "claude", "gemini", "gemini-cli", "antigravity", "codex", "kiro"}
                    \X {"claude", "chat", "responses", "gemini"}

VARIABLES
    pair,    \* <<source, target>>
    phase,   \* "start", "saying", "told" (the reason is out) or "done"
    said,    \* the blocks of the answer so far
    open,    \* the blocks the provider is in the middle of
    reason,  \* the reason the provider gave
    parsed,  \* what Kiro's parser of complete answers has gathered
    habits,  \* the provider's habits seen so far
    chunk,   \* what the provider sent last
    t,       \* the translator's state
    r        \* the client

vars == <<pair, phase, said, open, reason, parsed, habits, chunk, t, r>>

Source == pair[1]
Target == pair[2]
GeminiSources == {"gemini", "gemini-cli", "antigravity"}
(* A stream of the chat or the Gemini format ends when the handler says so. *)
Framed == Target \in {"claude", "responses"}

(****************************************************************************)
(* The registered translators.                                              *)
(****************************************************************************)
Nothing == [out |-> <<>>]
NewFor(p, up) ==
    CASE p = <<"chat", "claude">> -> ChatToClaude0(up)
      [] p \in GeminiSources \X {"claude"} -> GeminiToClaude0
      [] p = <<"codex", "claude">> -> CodexToClaude0
      [] p = <<"claude", "claude">> -> Nothing
      [] p = <<"claude", "chat">> -> ClaudeToChat0
      [] p \in GeminiSources \X {"chat"} -> GeminiToChat0
      [] p = <<"codex", "chat">> -> CodexToChat0
      [] p = <<"chat", "responses">> -> ChatToResponses0
      [] p = <<"claude", "responses">> -> ClaudeToResponses0
      [] p \in GeminiSources \X {"responses"} -> GeminiToResponses0
      [] p = <<"chat", "gemini">> -> ChatToGemini0(up)
      [] p = <<"claude", "gemini">> -> ClaudeToGemini0
      [] p = <<"codex", "gemini">> -> CodexToGemini0

(* TranslateStream: a pair without a translator gets the chunk as it is. *)
Translate(p, s, x) ==
    CASE p = <<"chat", "claude">> -> ChatToClaude(s, x)
      [] p = <<"gemini", "claude">> -> GeminiToClaude(s, x)
      [] p = <<"gemini-cli", "claude">> -> GeminiCLIToClaude(s, x)
      [] p = <<"antigravity", "claude">> -> AntigravityToClaude(s, x)
      [] p = <<"codex", "claude">> -> CodexToClaude(s, x)
      [] p = <<"claude", "claude">> -> Emit(s, <<x>>)
      [] p = <<"claude", "chat">> -> ClaudeToChat(s, x)
      [] p = <<"gemini", "chat">> -> GeminiToChat(s, x)
      [] p = <<"gemini-cli", "chat">> -> GeminiCLIToChat(s, x)
      [] p = <<"antigravity", "chat">> -> AntigravityToChat(s, x)
      [] p = <<"codex", "chat">> -> CodexToChat(s, x)
      [] p = <<"chat", "responses">> -> ChatToResponses(s, x)
      [] p = <<"claude", "responses">> -> ClaudeToResponses(s, x)
      [] p = <<"gemini", "responses">> -> GeminiToResponses(s, x)
      [] p = <<"gemini-cli", "responses">> -> GeminiCLIToResponses(s, x)
      [] p = <<"antigravity", "responses">> -> AntigravityToResponses(s, x)
      [] p = <<"chat", "gemini">> -> ChatToGemini(s, x)
      [] p = <<"claude", "gemini">> -> ClaudeToGemini(s, x)
      [] p = <<"codex", "gemini">> -> CodexToGemini(s, x)

(* Kiro's own Claude events go through the translators from Claude; of its last *)
(* chunk, message_delta and message_stop, these look at the first.              *)
KiroTranslate(s, x) ==
    LET k == KiroEvent([s.kiro EXCEPT !.out = <<>>], x)
        seen == IF Target = "claude" THEN k.out ELSE SelectSeq(k.out, LAMBDA e : e # Stop)
        to == FoldLeft(LAMBDA u, e : Translate(<<"claude", Target>>, u, e), [s.to EXCEPT !.out = <<>>], seen)
    IN  [kiro |-> [k EXCEPT !.out = <<>>], to |-> to, out |-> to.out]

New(p, up) ==
    IF p[1] = "kiro" THEN [kiro |-> Kiro0, to |-> NewFor(<<"claude", p[2]>>, up), out |-> <<>>] ELSE NewFor(p, up)
Step(s, x) == IF Source = "kiro" THEN KiroTranslate(s, x) ELSE Translate(pair, [s EXCEPT !.out = <<>>], x)

(* The converters of complete answers. *)
ChatMessage == [thought |-> Content(said).thought, text |-> Content(said).text, calls |-> Content(said).calls,
                reason |-> reason]
KiroUnary == Unary(KiroMessage(parsed), IF HasCall(KiroMessage(parsed)) THEN "tool" ELSE "stop")
(* No translator of complete answers is registered: the client gets Claude's JSON. *)
Unreadable == [content |-> NoContent, reason |-> "none"]
UnaryAnswer ==
    CASE pair = <<"chat", "claude">> -> ChatToClaudeUnary(ChatMessage)
      [] pair = <<"chat", "responses">> -> ChatToResponsesUnary(ChatMessage)
      [] pair = <<"chat", "gemini">> -> ChatToGeminiUnary(ChatMessage)
      [] pair = <<"claude", "chat">> -> ClaudeToChatUnary(said, reason)
      [] pair = <<"claude", "responses">> -> ClaudeToResponsesUnary(said)
      [] pair = <<"claude", "gemini">> -> ClaudeToGeminiUnary(said)
      [] pair = <<"gemini", "claude">> -> GeminiToClaudeUnary(said, reason)
      [] pair = <<"gemini-cli", "claude">> -> GeminiCLIToClaudeUnary(said, reason)
      [] pair = <<"antigravity", "claude">> -> AntigravityToClaudeUnary(said, reason)
      [] pair = <<"gemini", "chat">> -> GeminiToChatUnary(said, reason)
      [] pair = <<"gemini-cli", "chat">> -> GeminiCLIToChatUnary(said, reason)
      [] pair = <<"antigravity", "chat">> -> AntigravityToChatUnary(said, reason)
      [] pair \in GeminiSources \X {"responses"} -> GeminiToResponsesUnary(said)
      [] pair = <<"codex", "claude">> -> CodexToClaudeUnary(said)
      [] pair = <<"codex", "chat">> -> CodexToChatUnary(said)
      [] pair = <<"codex", "gemini">> -> CodexToGeminiUnary(said)
      [] pair \in {<<"kiro", "claude">>, <<"kiro", "chat">>} -> KiroUnary
      [] pair \in {<<"kiro", "responses">>, <<"kiro", "gemini">>} -> Unreadable

(****************************************************************************)
(* The provider.                                                            *)
(****************************************************************************)
Size(blocks) == FoldLeft(LAMBDA n, b : n + Len(b.data), 0, blocks)
NextPiece == <<Size(said) + 1>>
Calls(blocks) == Cardinality({n \in DOMAIN blocks : blocks[n].kind = "call"})
NextName == Calls(said) + 1
Kinds == {"thought", "text"}
MayBegin == Len(said) < MaxBlocks
MaySay == Size(said) < MaxPieces
NewBlock(k, d) == Block(k, IF k = "call" THEN NextName ELSE NoName, d)
(* In the formats without blocks text goes on where the kind is the same. *)
Say(blocks, k, d) ==
    IF blocks # <<>> /\ Last(blocks).kind = k THEN [blocks EXCEPT ![Len(blocks)].data = @ \o d]
    ELSE Append(blocks, Block(k, NoName, d))
MaySayOf(k) == MaySay /\ (MayBegin \/ (said # <<>> /\ Last(said).kind = k))

Send(x) == chunk' = x /\ UNCHANGED pair
Reasons == IF HasCall(said) THEN {"tool"} ELSE {"stop", "length"}
Saying == phase = "saying" /\ phase' = "saying" /\ UNCHANGED reason
Noting(hs) == habits' = habits \cup hs
Unparsed == UNCHANGED parsed

(* Claude and Codex: events with blocks. *)
Events == Source \in {"claude", "codex"} /\ Unparsed
Index(blocks) == Cardinality({n \in DOMAIN blocks : ~blocks[n].more}) - 1
EventStart == /\ Events /\ phase = "start" /\ phase' = "saying"
              /\ Send(Start) /\ UNCHANGED <<said, open, reason, habits>>
EventOpen(k) ==
    /\ Events /\ Saying /\ open = {} /\ MayBegin
    /\ said' = Append(said, NewBlock(k, <<>>)) /\ open' = {Len(said')}
    /\ Send(Open(Index(said'), k, Last(said').name)) /\ UNCHANGED habits
(* Codex: the next summary part of a reasoning item. *)
EventMore ==
    /\ Source = "codex" /\ Unparsed /\ Saying /\ open = {} /\ MayBegin /\ said # <<>> /\ Last(said).kind = "thought"
    /\ said' = Append(said, [NewBlock("thought", <<>>) EXCEPT !.more = TRUE]) /\ open' = {Len(said')}
    /\ Send(Open(Index(said'), "thought", NoName)) /\ UNCHANGED habits
EventSay ==
    /\ Events /\ Saying /\ open # {} /\ MaySay
    /\ said' = [said EXCEPT ![Len(said)].data = @ \o NextPiece]
    /\ Send(Delta(Index(said), Last(said).kind, NextPiece)) /\ UNCHANGED <<open, habits>>
EventClose ==
    /\ Events /\ Saying /\ open # {} /\ (Last(said).kind = "call" \/ Last(said).data # <<>>) /\ open' = {}
    /\ Send(IF Source = "codex" /\ Last(said).kind = "call"
            THEN Item(Index(said), "call", Last(said).name, Last(said).data) ELSE Close(Index(said)))
    /\ UNCHANGED <<said, habits>>
EventReason ==
    /\ Source = "claude" /\ Unparsed /\ phase = "saying" /\ open = {} /\ said # <<>> /\ phase' = "told"
    /\ reason' \in Reasons /\ Send(Reason(reason')) /\ UNCHANGED <<said, open, habits>>
EventStop ==
    /\ Source = "claude" /\ Unparsed /\ phase = "told" /\ phase' = "done"
    /\ Send(Stop) /\ UNCHANGED <<said, open, reason, habits>>
EventCompleted ==
    /\ Source = "codex" /\ Unparsed /\ phase = "saying" /\ open = {} /\ said # <<>> /\ phase' = "done"
    /\ reason' = (IF HasCall(said) THEN "tool" ELSE "stop")
    /\ Send(Completed(Content(said))) /\ UNCHANGED <<said, open, habits>>

(* Chat completions: chunks.  With the habit "null" every chunk has a finish_reason, null until the last. *)
Chatting == Source = "chat" /\ Unparsed /\ UNCHANGED open
ChatChunk == [Chunk EXCEPT !.finish = IF "null" \in habits THEN "null" ELSE "absent"]
ChatRole == /\ Chatting /\ phase = "start" /\ phase' = "saying"
            /\ Send([ChatChunk EXCEPT !.role = TRUE]) /\ UNCHANGED <<said, reason, habits>>
ChatSay(k) ==
    /\ Chatting /\ Saying /\ MaySayOf(k) /\ said' = Say(said, k, NextPiece)
    /\ Send(IF k = "text" THEN [ChatChunk EXCEPT !.text = NextPiece] ELSE [ChatChunk EXCEPT !.thought = NextPiece])
    /\ UNCHANGED habits
ChatCall(d) ==
    /\ Chatting /\ Saying /\ MayBegin /\ (d = <<>> \/ (MaySay /\ d = NextPiece))
    /\ said' = Append(said, NewBlock("call", d))
    /\ Send([ChatChunk EXCEPT !.calls = <<ToolDelta(Calls(said), NextName, d)>>]) /\ UNCHANGED habits
ChatArgs(b) ==
    /\ Chatting /\ Saying /\ MaySay /\ said[b].kind = "call"
    /\ said' = [said EXCEPT ![b].data = @ \o NextPiece]
    /\ Send([ChatChunk EXCEPT !.calls = <<ToolDelta(said[b].name - 1, NoName, NextPiece)>>])
    /\ Noting(IF said[b].name = Calls(said) THEN {} ELSE {"parallel"})
ChatFinishes(usage) ==
    /\ Chatting /\ phase = "saying" /\ said # <<>> /\ phase' = "told"
    /\ reason' \in Reasons /\ Send([ChatChunk EXCEPT !.finish = reason', !.usage = usage]) /\ UNCHANGED <<said, habits>>
(* The counts may come in a chunk of their own, with or without a choice. *)
ChatUsage(choice) ==
    /\ Chatting /\ phase = "told" /\ "usage later" \notin habits /\ phase' = "told"
    /\ Send([ChatChunk EXCEPT !.choice = choice, !.usage = TRUE])
    /\ Noting({"usage later"}) /\ UNCHANGED <<said, reason>>
ChatDone == /\ Chatting /\ phase = "told" /\ phase' = "done"
            /\ Send([Chunk EXCEPT !.choice = FALSE, !.done = TRUE]) /\ UNCHANGED <<said, reason, habits>>

(* Gemini, Gemini CLI and Antigravity: candidates of one part or two, the last *)
(* perhaps with the reason.                                                    *)
Candidates == Source \in GeminiSources /\ Unparsed /\ UNCHANGED open
Part(blocks, k, d) ==
    IF k = "call" THEN CallPart(Calls(blocks) + 1, d) ELSE [TextPart(d) EXCEPT !.kind = k]
Spoken(blocks, k, d) ==
    IF k = "call" THEN Append(blocks, Block(k, Calls(blocks) + 1, d)) ELSE Say(blocks, k, d)
GeminiSay(ks, ended) ==
    LET one == <<Size(said) + 1>>
        two == <<Size(said) + 2>>
        first == Spoken(said, ks[1], one)
        next == IF Len(ks) = 1 THEN first ELSE Spoken(first, ks[2], two)
        parts == IF Len(ks) = 1 THEN <<Part(said, ks[1], one)>> ELSE <<Part(said, ks[1], one), Part(first, ks[2], two)>>
    IN  /\ Candidates /\ phase \in {"start", "saying"}
        /\ Size(next) <= MaxPieces /\ Len(next) <= MaxBlocks /\ said' = next
        /\ Noting(IF Len(ks) = 1 THEN {} ELSE {"packed"})
        /\ IF ended
           THEN /\ phase' = "told" /\ reason' \in {"stop", "length"}
                /\ Send([Candidate EXCEPT !.parts = parts, !.finish = reason', !.usage = TRUE, !.counted = TRUE])
           ELSE /\ phase' = "saying" /\ UNCHANGED reason
                /\ Send([Candidate EXCEPT !.parts = parts])
(* An empty text, or Antigravity's signature of a thought. *)
GeminiEmpty == /\ Candidates /\ Saying /\ "empty" \notin habits
               /\ Send([Candidate EXCEPT !.parts = <<TextPart(<<>>)>>]) /\ Noting({"empty"}) /\ UNCHANGED said
GeminiSigned ==
    /\ Candidates /\ Saying /\ said # <<>> /\ Last(said).kind = "thought" /\ Source = "antigravity"
    /\ Send([Candidate EXCEPT !.parts = <<[ThoughtPart(<<>>) EXCEPT !.signed = TRUE]>>])
    /\ UNCHANGED <<said, habits>>
GeminiFinishes(parts, counted) ==
    /\ Candidates /\ phase = "saying" /\ phase' = "told" /\ reason' \in {"stop", "length"}
    /\ Send([Candidate EXCEPT !.parts = parts, !.finish = reason', !.usage = TRUE, !.counted = counted])
    /\ Noting(IF counted THEN {} ELSE {"uncounted"})
    /\ UNCHANGED said
GeminiDone == /\ Candidates /\ phase = "told" /\ phase' = "done"
              /\ Send([Candidate EXCEPT !.done = TRUE]) /\ UNCHANGED <<said, reason, habits>>

(* Kiro: an event stream, with uses whole or in fragments, perhaps repeated. *)
SendKiro(e) == Source = "kiro" /\ parsed' = ParseEvent(parsed, e) /\ Send(e)
KiroSaying == phase \in {"start", "saying"} /\ phase' = "saying" /\ UNCHANGED reason
KiroSay == /\ KiroSaying /\ MaySayOf("text") /\ said' = Say(said, "text", NextPiece)
           /\ SendKiro(Text(NextPiece)) /\ UNCHANGED open
           /\ Noting(IF open = {} THEN {} ELSE {"twice"}) \* the use comes out between this text and the next
KiroWhole == /\ KiroSaying /\ open = {} /\ MayBegin /\ MaySay /\ said' = Append(said, NewBlock("call", NextPiece))
             /\ SendKiro(WholeUse(NextName, NextPiece)) /\ UNCHANGED <<open, habits>>
KiroAgain(e) == /\ KiroSaying /\ open = {} /\ Calls(said) > 0 /\ "repeated" \notin habits /\ Noting({"repeated"})
                /\ SendKiro(e) /\ UNCHANGED <<said, open>>
(* The last fragment of a use completes its arguments and says stop. *)
KiroFragment(b, stop) ==
    LET begun == IF b \in open THEN said ELSE Append(said, NewBlock("call", <<>>))
    IN  /\ KiroSaying /\ MaySay /\ (b \in open \/ (MayBegin /\ b = Len(said) + 1))
        /\ said' = [begun EXCEPT ![b].data = @ \o NextPiece]
        /\ open' = IF stop THEN open \ {b} ELSE open \cup {b}
        /\ SendKiro(Fragment(begun[b].name, NextPiece, stop, stop))
        /\ Noting(IF open \subseteq {b} THEN {} ELSE {"interleaved"})
KiroEOF == /\ phase = "saying" /\ open = {} /\ phase' = "done"
           /\ reason' = (IF HasCall(said) THEN "tool" ELSE "stop")
           /\ SendKiro(EOF) /\ UNCHANGED <<said, open, habits>>

(****************************************************************************)
(* The whole.                                                               *)
(****************************************************************************)
Init ==
    /\ pair \in Pairs
    /\ phase = "start" /\ said = <<>> /\ open = {} /\ reason = "none" /\ parsed = Parsed0
    /\ habits \in (IF pair[1] = "chat" THEN {{}, {"null"}} ELSE {{}})
    /\ chunk = "none"
    /\ \E up \in BOOLEAN : t = New(pair, up)
    /\ r = Reader0

ClaudeStep == EventReason \/ EventStop
EventStep == EventStart \/ EventSay \/ EventClose \/ EventMore \/ EventCompleted
             \/ \E k \in Kinds \cup {"call"} : EventOpen(k)
ChatStep ==
    \/ ChatRole \/ ChatDone \/ \E k \in Kinds : ChatSay(k)
    \/ \E d \in {<<>>, NextPiece} : ChatCall(d)
    \/ \E b \in DOMAIN said : ChatArgs(b)
    \/ \E usage \in BOOLEAN : ChatFinishes(usage) \/ ChatUsage(usage)
GeminiStep ==
    \/ GeminiEmpty \/ GeminiSigned \/ GeminiDone
    \/ \E n \in 1..2, ended \in BOOLEAN : \E ks \in [1..n -> Kinds \cup {"call"}] : GeminiSay(ks, ended)
    \/ \E parts \in {<<>>, <<TextPart(<<>>)>>}, counted \in BOOLEAN : GeminiFinishes(parts, counted)
KiroStep ==
    \/ KiroSay \/ KiroWhole \/ KiroEOF
    \/ \E e \in {WholeUse(Calls(said), <<>>), Fragment(Calls(said), <<>>, TRUE, TRUE)} : KiroAgain(e)
    \/ \E b \in 1..MaxBlocks, stop \in BOOLEAN : KiroFragment(b, stop)
ProviderStep == ClaudeStep \/ EventStep \/ ChatStep \/ GeminiStep \/ KiroStep

(* The executor translates each chunk as it comes, and the client reads the outcome. *)
Deliver ==
    LET s == Step(t, chunk')
        read == FoldLeft(LAMBDA c, e : Read(Framed, c, e), r, s.out)
    IN  /\ t' = [s EXCEPT !.out = <<>>]
        /\ r' = IF phase' = "done" /\ ~Framed THEN ReadEnd(read) ELSE read

Next == ProviderStep /\ Deliver

Spec == Init /\ [][Next]_vars

(****************************************************************************)
(* Properties.                                                              *)
(****************************************************************************)
Shown ==
    LET Later(i, k) == \E j \in 1..(i - 1) : said[j].kind \in k
    IN  {"any"} \cup habits
        \cup (IF reason = "length" THEN {"length"} ELSE {})
        \cup (IF Calls(said) > 0 THEN {"call"} ELSE {})
        \cup (IF Calls(said) > 1 THEN {"two calls"} ELSE {})
        \cup (IF \E i \in DOMAIN said : said[i].kind = "thought" /\ Later(i, {"text", "call"}) THEN {"late thought"} ELSE {})
        \cup (IF \E i \in DOMAIN said : said[i].kind = "text" /\ Later(i, {"call"}) THEN {"late text"} ELSE {})
        \cup (IF \E i \in DOMAIN said : Later(i, {said[i].kind} \cap Kinds) THEN {"twice"} ELSE {})
        \cup (IF \E i \in DOMAIN said : said[i].more THEN {"summaries"} ELSE {})
Excused(what, about) == \E h \in Shown : <<Source, Target, h, <<what, about>>>> \in Known

(* The client can follow the stream: it begins with a start, no block is opened in    *)
(* the place of another, no delta or end is for a block that is not open, nothing     *)
(* comes after the reason or the end, the reason does not change, and what repeats    *)
(* an item or the whole answer agrees with what was streamed.                         *)
WellFormed == \A f \in r.faults : Excused(f[1], f[2])

(* Whatever the provider says the client has, once and in the order it was said: at   *)
(* every moment a prefix of each kind, and all of it when the stream is over.         *)
NothingLost ==
    \A k \in {"thought", "text", "calls"} :
        \/ /\ k # "calls" => IsPrefix(r.got[k], Content(said)[k])
           /\ phase = "done" => r.got[k] = Content(said)[k]
        \/ Excused("lost", k)

(* The reason a client of the target format should see.  Gemini sources have no word  *)
(* for a call, the Gemini format neither; Responses clients see a completion.         *)
Expected ==
    IF Target = "gemini" THEN GeminiStop(reason)
    ELSE IF HasCall(said) THEN "tool" ELSE reason
(* When the provider is done, the client has been told so, and why.                   *)
ReasonTold ==
    phase = "done" => /\ r.ended \/ Excused("lost", "end")
                      /\ Target = "responses" \/ r.reason = Expected \/ Excused("lost", "reason")

(* The translator of a complete answer and the stream's tell the same answer and reason. *)
UnaryAgrees ==
    phase = "done" =>
        /\ \A k \in {"thought", "text", "calls"} :
               UnaryAnswer.content[k] = Content(said)[k] \/ Excused("unary", k)
        /\ Target = "responses" \/ UnaryAnswer.reason = Expected \/ Excused("unary", "reason")
=============================================================================
