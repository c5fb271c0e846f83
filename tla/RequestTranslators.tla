-------------------------- MODULE RequestTranslators --------------------------
(* The request translators of internal/translator and the Kiro executor's   *)
(* payload: how a conversation with tool calls, written in the format of the*)
(* client, comes out in the format of the provider.                         *)
(*                                                                          *)
(* A conversation is a sequence of messages, each with a role and parts.  A *)
(* part has a number n, by which a reader recognises it in any format: of a *)
(* text, or of a call and of its result.  A call and a result have an id and*)
(* a name where the format has them.  A text is plain if the client writes  *)
(* it, where it is all of a content, as a string and not as an array.       *)
EXTENDS Integers, Sequences, SequencesExt, FiniteSets

NoId == <<"", 0>>
Fresh(k) == <<"call", k>> \* genToolCallID and genCallID
Part(k, n) == [kind |-> k, n |-> n, id |-> NoId, name |-> "", turn |-> 0, plain |-> FALSE]
Own == Part("own", 0)     \* a text the proxy adds
Blank == [Part("blank", 0) EXCEPT !.plain = TRUE] \* an empty string
Msg(role, parts) == [role |-> role, parts |-> parts]

(* The function as a sequence of values: TLC evaluates it once. *)
Mapped(F(_), s) == <<>> \o [i \in DOMAIN s |-> F(s[i])]
Each(F(_), s) == FlattenSeq(Mapped(F, s))
(* SelectSeq, as a case of Each. *)
Where(Test(_), s) == Each(LAMBDA x : IF Test(x) THEN <<x>> ELSE <<>>, s)
Of(ps, kinds) == Where(LAMBDA p : p.kind \in kinds, ps)
Only(m, kinds) == Of(m.parts, kinds)
Alone(role, parts) == Mapped(LAMBDA p : Msg(role, <<p>>), parts)
IfAny(role, parts) == IF parts = <<>> THEN <<>> ELSE <<Msg(role, parts)>>
(* The parts of contents that are arrays: a translator that reads these only finds *)
(* none in a string.                                                               *)
Listed(ps) == Where(LAMBDA p : ~p.plain, ps)
(* The system text, of a message of its own, or of a field instructions or          *)
(* systemInstruction.                                                               *)
IsSystem(m) == m.role \in {"system", "instructions", "systemInstruction"}
SystemParts(ms) == Each(LAMBDA m : IF IsSystem(m) THEN m.parts ELSE <<>>, ms)
Rest(ms) == Where(LAMBDA m : ~IsSystem(m), ms)

(****************************************************************************)
(* To the chat format.                                                      *)
(****************************************************************************)
(* Results come out first, each by itself; a message without visible text   *)
(* has none; calls have a message of their own.                             *)
MutClaudeToChat(ms) == \* the calls of a message with text are left out
    LET Messages(m) == Alone("tool", Only(m, {"result"}))
                       \o IF Only(m, {"text"}) # <<>> THEN IfAny(m.role, Only(m, {"text"})) ELSE IfAny("model", Only(m, {"use"}))
    IN  <<Msg("system", <<Own>> \o SystemParts(ms))>> \o Each(Messages, Rest(ms))
ClaudeToChat(ms) ==
    LET Messages(m) == Alone("tool", Only(m, {"result"})) \o IfAny(m.role, Only(m, {"text"}))
                       \o IF m.role = "model" THEN IfAny("model", Only(m, {"use"})) ELSE <<>>
    IN  <<Msg("system", <<Own>> \o SystemParts(ms))>> \o Each(Messages, Rest(ms))

(* An input that is a string is the user's message; of a content that is one *)
(* only the empty message is left.                                          *)
ResponsesToChat(ms) ==
    LET Message(m) == CASE m.role = "item" /\ m.parts[1].kind = "use" -> Msg("model", m.parts)
                        [] m.role = "item" /\ m.parts[1].kind = "result" -> Msg("tool", m.parts)
                        [] m.role = "instructions" -> Msg("system", m.parts)
                        [] m.role = "input" -> Msg("user", m.parts)
                        [] OTHER -> Msg(m.role, Listed(m.parts))
    IN  Mapped(Message, ms)

(* Calls of the Gemini format have no id: each gets a new one, and a result *)
(* takes one of them.                                                       *)
Gave(s, p, id) == [s EXCEPT !.k = @ + 1, !.parts = Append(@, [p EXCEPT !.id = id])]
MutGiveOldest(s, p) == \* the newest id goes to the first result
    IF p.kind = "use" THEN [Gave(s, p, Fresh(s.k)) EXCEPT !.ids = <<Fresh(s.k)>> \o @]
    ELSE IF p.kind # "result" THEN [s EXCEPT !.parts = Append(@, p)]
    ELSE IF s.ids = <<>> THEN Gave(s, p, Fresh(s.k))
    ELSE [Gave(s, p, Head(s.ids)) EXCEPT !.ids = Tail(@)]
GiveOldest(s, p) ==
    IF p.kind = "use" THEN [Gave(s, p, Fresh(s.k)) EXCEPT !.ids = Append(@, Fresh(s.k))]
    ELSE IF p.kind # "result" THEN [s EXCEPT !.parts = Append(@, p)]
    ELSE IF s.ids = <<>> THEN Gave(s, p, Fresh(s.k))
    ELSE [Gave(s, p, Head(s.ids)) EXCEPT !.ids = Tail(@)]
GiveLast(s, p) ==
    IF p.kind = "use" THEN [Gave(s, p, Fresh(s.k)) EXCEPT !.ids = Append(@, Fresh(s.k))]
    ELSE IF p.kind # "result" THEN [s EXCEPT !.parts = Append(@, p)]
    ELSE Gave(s, p, IF s.ids = <<>> THEN Fresh(s.k) ELSE Last(s.ids))
WithIds(Give(_, _), ms) ==
    LET Message(s, m) ==
            LET given == FoldLeft(Give, [s EXCEPT !.parts = <<>>], m.parts)
            IN  [given EXCEPT !.out = Append(@, Msg(m.role, given.parts))]
    IN  FoldLeft(Message, [k |-> 1, ids |-> <<>>, parts |-> <<>>, out |-> <<>>], ms).out

(* The tool messages come before the message they were in, which follows    *)
(* even when nothing is left of it.                                         *)
GeminiToChat(ms) ==
    LET Messages(m) == IF IsSystem(m) THEN <<Msg("system", m.parts)>>
                       ELSE Alone("tool", Only(m, {"result"})) \o <<Msg(m.role, Only(m, {"text", "use"}))>>
    IN  Each(Messages, WithIds(GiveLast, ms))

(****************************************************************************)
(* To the Claude format.                                                    *)
(****************************************************************************)
(* A role it does not know is left out. *)
ChatToClaude(ms) ==
    LET Messages(m) == CASE m.role \in {"tool", "system"} -> <<Msg("user", m.parts)>>
                         [] m.role \in {"user", "model"} -> <<Msg(m.role, Only(m, {"text", "use"}))>>
                         [] OTHER -> <<>>
    IN  Each(Messages, ms)

(* The system text comes first.  Strings are not read, neither as the input nor as *)
(* a content, but a message of the system is passed on without it.                 *)
ResponsesToClaude(ms) ==
    LET Messages(m) ==
            CASE m.role = "item" -> <<Msg(IF m.parts[1].kind = "use" THEN "model" ELSE "user", m.parts)>>
              [] m.role = "input" -> <<>>
              [] IsSystem(m) -> IF Listed(m.parts) = <<>> THEN <<Msg("system", <<>>)>> ELSE <<>>
              [] OTHER -> IfAny(IF m.role = "developer" THEN "user" ELSE m.role, Listed(m.parts))
    IN  IfAny("user", Listed(SystemParts(ms))) \o Each(Messages, ms)

(* Only a model's calls are calls; a message without parts is left out, and so is  *)
(* the field systemInstruction.                                                    *)
GeminiToClaude(ms) ==
    LET Messages(m) == IF m.role = "systemInstruction" THEN <<>>
                       ELSE IfAny(IF m.role = "model" THEN "model" ELSE "user",
                                  Only(m, {"system", "text", "result"} \cup IF m.role = "model" THEN {"use"} ELSE {}))
    IN  Each(Messages, WithIds(GiveOldest, ms))

(****************************************************************************)
(* To Codex: items of the Responses format, with short names.               *)
(****************************************************************************)
(* Tools have long names here that agree in the first 64 characters. *)
ShortenNameIfNeeded(name) == <<"cut", 0>>
BuildShortNameMap(names) ==
    FoldLeft(LAMBDA m, n : [x \in DOMAIN m \cup {n} |-> IF x = n THEN <<"cut", Cardinality(DOMAIN m)>> ELSE m[x]],
             << >>, names)
ShortName(names, n) ==
    LET m == BuildShortNameMap(names) IN IF n \in DOMAIN m THEN m[n] ELSE ShortenNameIfNeeded(n)
Shortened(names, ms) ==
    LET Short(p) == IF p.kind = "use" THEN [p EXCEPT !.name = ShortName(names, @)] ELSE p
    IN  Mapped(LAMBDA m : Msg(m.role, Mapped(Short, m.parts)), ms)

(* The preamble comes in front of a request that begins with a text. *)
BeginsWithText(items) == items # <<>> /\ items[1].parts # <<>> /\ items[1].parts[1].kind \in {"text", "system"}

(* Texts that follow each other are one item. *)
Items(m) ==
    FoldLeft(LAMBDA out, p : IF p.kind # "text" THEN Append(out, Msg("item", <<p>>))
                             ELSE IF out = <<>> \/ Last(out).role = "item" THEN Append(out, Msg(m.role, <<p>>))
                             ELSE [out EXCEPT ![Len(out)].parts = Append(@, p)],
             <<>>, Only(m, {"text", "use", "result"}))
ClaudeToCodex(ms) ==
    LET items == IfAny("user", Listed(SystemParts(ms))) \o Each(Items, Rest(ms))
    IN  (IF BeginsWithText(items) THEN <<Msg("user", <<Own>>)>> ELSE <<>>) \o items

ChatToCodex(ms) ==
    LET Messages(m) == IF m.role = "tool" THEN <<Msg("item", m.parts)>>
                       ELSE <<Msg(IF m.role = "system" THEN "user" ELSE m.role, Only(m, {"system", "text"}))>>
                            \o Alone("item", Only(m, {"use"}))
    IN  Each(Messages, ms)

(* The system text goes with the preamble, and there is none in front of a content *)
(* that is a string.  (Codex's own instructions, with which a request is passed on *)
(* as it is, are not looked at.)                                                   *)
ResponsesToCodex(ms) ==
    LET items == Mapped(LAMBDA m : IF m.role = "input" THEN Msg("user", m.parts) ELSE m, Rest(ms))
    IN  (IF BeginsWithText(items) /\ ~items[1].parts[1].plain
         THEN <<Msg("user", <<Own>> \o Listed(SystemParts(ms)))>> ELSE <<>>) \o items

GeminiToCodex(ms) ==
    LET Message(m, p) == IF p.kind \in {"use", "result"} THEN Msg("item", <<p>>)
                         ELSE Msg(IF IsSystem(m) THEN "user" ELSE m.role, <<p>>)
        Messages(m) == IF m.role = "systemInstruction" THEN <<>> ELSE Mapped(LAMBDA p : Message(m, p), m.parts)
    IN  Each(Messages, WithIds(GiveOldest, ms))

(****************************************************************************)
(* To Gemini, Gemini CLI and Antigravity.                                   *)
(****************************************************************************)
(* The name of a result is the id of its call without what follows the last *)
(* dash: the Gemini translators give ids of this form.  Other providers' ids*)
(* have no dash.                                                            *)
NameInId(id) == id[1]
Named(p) == IF p.kind = "result" THEN [p EXCEPT !.name = NameInId(p.id)] ELSE p
Anonymous(p) == [p EXCEPT !.id = NoId]
ClaudeToGemini(ms) ==
    LET Parts(m) == Mapped(LAMBDA p : Anonymous(Named(p)), Only(m, {"text", "use", "result"}))
    IN  IfAny("system", Listed(SystemParts(ms))) \o Mapped(LAMBDA m : Msg(m.role, Parts(m)), Rest(ms))
ClaudeToGeminiCLI(ms) == ClaudeToGemini(ms)
(* Antigravity keeps ids and thoughts. *)
ClaudeToAntigravity(ms) ==
    IfAny("system", Listed(SystemParts(ms))) \o Mapped(LAMBDA m : Msg(m.role, Mapped(Named, m.parts)), Rest(ms))

(* Calls count in a message without a content only.  Their results follow   *)
(* at once, wherever they were and whether or not there were any.  The      *)
(* system's content is read if it is a string, and the model's if it is, or *)
(* reads says that an array is read as well.                                *)
ChatToParts(ms, toolRole, keepsIds, reads) ==
    LET Calls(m) == Mapped(LAMBDA p : IF keepsIds THEN p ELSE Anonymous(p), Only(m, {"use"}))
        Results(m) == Mapped(LAMBDA p : [p EXCEPT !.kind = "result"], Calls(m))
        Messages(m) ==
            CASE m.role = "system" -> IF Len(ms) = 1 THEN <<Msg("user", m.parts)>> ELSE IF Listed(m.parts) = <<>> THEN <<m>> ELSE <<>>
              [] m.role = "user" -> <<Msg("user", Only(m, {"text"}))>>
              [] m.role \in {"tool", "developer"} -> <<>>
              [] m.role = "model" ->
                    LET content == Only(m, {"text", "blank"})
                    IN  IF content = <<>> THEN IfAny("model", Calls(m)) \o IfAny(toolRole, Results(m))
                        ELSE IF reads \/ Listed(content) = <<>> THEN <<Msg("model", content)>> ELSE <<>>
    IN  Each(Messages, ms)
ChatToGemini(ms) == ChatToParts(ms, "tool", FALSE, TRUE)
ChatToGeminiCLI(ms) == ChatToParts(ms, "tool", FALSE, FALSE)
ChatToAntigravity(ms) == ChatToParts(ms, "user", TRUE, FALSE)

(* Calls in a row and the outputs after them: each output goes to its call. *)
Flushed(s) ==
    LET OutputsOf(c) == Where(LAMBDA o : o.parts[1].id = c.parts[1].id, s.outputs)
        others == Where(LAMBDA o : \A i \in DOMAIN s.calls : s.calls[i].parts[1].id # o.parts[1].id, s.outputs)
    IN  s.done \o Each(LAMBDA c : <<c>> \o OutputsOf(c), s.calls) \o others
Normalized(ms) ==
    LET Start == [done |-> <<>>, calls |-> <<>>, outputs |-> <<>>]
        Next(s, m) ==
            IF m.role # "item" THEN [Start EXCEPT !.done = Append(Flushed(s), m)]
            ELSE IF m.parts[1].kind = "result"
                 THEN IF s.calls = <<>> THEN [s EXCEPT !.done = Append(@, m)] ELSE [s EXCEPT !.outputs = Append(@, m)]
                 ELSE IF s.outputs = <<>> THEN [s EXCEPT !.calls = Append(@, m)]
                      ELSE [Start EXCEPT !.done = Flushed(s), !.calls = <<m>>]
    IN  Flushed(FoldLeft(Next, Start, ms))
ResponsesToGemini(ms) ==
    LET items == Normalized(Rest(ms))
        Called(p) == LET calls == Where(LAMBDA m : m.role = "item" /\ m.parts[1].kind = "use" /\ m.parts[1].id = p.id, ms)
                     IN  [p EXCEPT !.name = IF calls = <<>> THEN "unknown" ELSE calls[1].parts[1].name]
        Messages(m) ==
            CASE m.role = "item" -> <<IF m.parts[1].kind = "use" THEN Msg("model", m.parts)
                                      ELSE Msg("function", <<Called(m.parts[1])>>)>>
              [] m.role = "input" -> <<Msg("user", m.parts)>>
              [] OTHER -> IfAny(m.role, Listed(m.parts))
    IN  IfAny("system", Listed(SystemParts(ms))) \o Each(Messages, items)

(* A role Gemini does not know becomes the one whose turn it is. *)
Roles(ms) ==
    LET Next(out, m) ==
            LET previous == IF out = <<>> THEN "none" ELSE Last(out).role
                role == IF IsSystem(m) \/ m.role \in {"user", "model"} THEN m.role
                        ELSE IF previous = "user" THEN "model" ELSE "user"
            IN  Append(out, Msg(role, m.parts))
    IN  FoldLeft(Next, <<>>, ms)

(* fixCLIToolResponse: responses are gathered, and a group of calls, the    *)
(* latest that can be, gets as many as it has calls.                        *)
Answered(s, i) ==
    [s EXCEPT !.out = Append(@, Msg("function", SubSeq(s.got, 1, s.groups[i]))),
              !.got = SubSeq(@, s.groups[i] + 1, Len(@)),
              !.groups = RemoveAt(@, i)]
Enough(s) == {i \in DOMAIN s.groups : Len(s.got) >= s.groups[i]}
FixCLIToolResponse(ms) ==
    LET Next(s, m) ==
            LET gathered == [s EXCEPT !.got = @ \o Only(m, {"result"})]
                latest == CHOOSE i \in Enough(gathered) : \A j \in Enough(gathered) : j <= i
                uses == Only(m, {"use"})
            IN  IF Only(m, {"result"}) # <<>>
                THEN IF Enough(gathered) = {} THEN gathered ELSE Answered(gathered, latest)
                ELSE [s EXCEPT !.out = Append(@, m),
                               !.groups = IF m.role = "model" /\ uses # <<>> THEN Append(@, Len(uses)) ELSE @]
        End(s) == FoldLeft(LAMBDA t, g : IF Len(t.got) < g THEN t
                                         ELSE [t EXCEPT !.out = Append(@, Msg("function", SubSeq(t.got, 1, g))),
                                                        !.got = SubSeq(@, g + 1, Len(@))],
                           s, s.groups)
    IN  End(FoldLeft(Next, [out |-> <<>>, groups |-> <<>>, got |-> <<>>], ms)).out
GeminiToGeminiCLI(ms) == Roles(FixCLIToolResponse(ms))
GeminiToAntigravity(ms) == Roles(FixCLIToolResponse(ms))
ResponsesToGeminiCLI(ms) == GeminiToGeminiCLI(ResponsesToGemini(ms))
ResponsesToAntigravity(ms) == GeminiToAntigravity(ResponsesToGemini(ms))

(****************************************************************************)
(* To Kiro.                                                                 *)
(****************************************************************************)
(* Results wait for the next message of the user, or for the end.  Beside calls *)
(* an array is taken for a string: the text is given as the array's JSON.       *)
ChatToKiro(ms) ==
    LET Text(m) == IF Only(m, {"use"}) = <<>> THEN Only(m, {"text"})
                   ELSE Mapped(LAMBDA p : IF p.plain THEN p ELSE [p EXCEPT !.kind = "raw"], Only(m, {"text"}))
        Next(s, m) ==
            CASE m.role \in {"system", "developer"} -> s
              [] m.role = "tool" -> [s EXCEPT !.results = @ \o m.parts]
              [] m.role = "user" -> [out |-> Append(s.out, Msg("user", s.results \o Only(m, {"text"}))), results |-> <<>>]
              [] m.role = "model" -> [s EXCEPT !.out = Append(@, Msg("model", Text(m) \o Only(m, {"use"})))]
        s == FoldLeft(Next, [out |-> <<>>, results |-> <<>>], ms)
    IN  IfAny("system", SystemParts(ms)) \o s.out \o IfAny("user", s.results)

(* buildKiroPayload: texts are joined, apart from results and calls; the    *)
(* last message of the user is the current one and has the system text; if  *)
(* the conversation ends otherwise a message is made up.                    *)
KiroPayload(ms) ==
    LET Message(m) == Msg(m.role, IF m.role = "user" THEN Only(m, {"result"}) \o Only(m, {"text"})
                                  ELSE Only(m, {"text", "raw"}) \o Only(m, {"use"}))
        rest == Rest(ms)
        messages == Mapped(Message, rest)
        system == SystemParts(ms)
    IN  IF messages # <<>> /\ Last(messages).role = "user"
        THEN [messages EXCEPT ![Len(messages)].parts = system \o @]
        ELSE Append(messages, Msg("user", system))

(****************************************************************************)
(* TranslateRequest.                                                        *)
(****************************************************************************)
TranslateRequest(source, target, tools, ms) ==
    CASE source = "claude" /\ target = "chat" -> ClaudeToChat(ms)
      [] source = "claude" /\ target = "codex" -> Shortened(tools, ClaudeToCodex(ms))
      [] source = "claude" /\ target = "kiro" -> KiroPayload(ms)
      [] source = "claude" /\ target = "gemini" -> ClaudeToGemini(ms)
      [] source = "claude" /\ target = "gemini-cli" -> ClaudeToGeminiCLI(ms)
      [] source = "claude" /\ target = "antigravity" -> ClaudeToAntigravity(ms)
      [] source = "chat" /\ target = "claude" -> ChatToClaude(ms)
      [] source = "chat" /\ target = "codex" -> Shortened(tools, ChatToCodex(ms))
      [] source = "chat" /\ target = "kiro" -> KiroPayload(ChatToKiro(ms))
      [] source = "chat" /\ target = "gemini" -> ChatToGemini(ms)
      [] source = "chat" /\ target = "gemini-cli" -> ChatToGeminiCLI(ms)
      [] source = "chat" /\ target = "antigravity" -> ChatToAntigravity(ms)
      [] source = "responses" /\ target = "chat" -> ResponsesToChat(ms)
      [] source = "responses" /\ target = "claude" -> ResponsesToClaude(ms)
      [] source = "responses" /\ target = "codex" -> ResponsesToCodex(ms)
      [] source = "responses" /\ target = "gemini" -> ResponsesToGemini(ms)
      [] source = "responses" /\ target = "gemini-cli" -> ResponsesToGeminiCLI(ms)
      [] source = "responses" /\ target = "antigravity" -> ResponsesToAntigravity(ms)
      [] source = "gemini" /\ target = "chat" -> GeminiToChat(ms)
      [] source = "gemini" /\ target = "claude" -> GeminiToClaude(ms)
      [] source = "gemini" /\ target = "codex" -> Shortened(tools, GeminiToCodex(ms))
      [] source = "gemini" /\ target = "gemini" -> Roles(ms)
      [] source = "gemini" /\ target = "gemini-cli" -> GeminiToGeminiCLI(ms)
      [] source = "gemini" /\ target = "antigravity" -> GeminiToAntigravity(ms)
=============================================================================
