------------------------------- MODULE Requests -------------------------------
(* The conversation a client repeats with every request, and what a         *)
(* provider of another format is given of it: each turn the client adds is  *)
(* written in the client's format, and the whole goes through the request   *)
(* translator registered for the pair (sdktranslator.TranslateRequest).     *)
(*                                                                          *)
(* As in Translation, what is unusual about a conversation is a habit, and  *)
(* Known lists the deviations the translators have for a pair and a habit.  *)
EXTENDS RequestTranslators

CONSTANTS RequestPairs, \* the pairs <<source, target>> to look at
          MaxTurns,     \* bound: turns in a conversation
          MaxCalls,     \* bound: calls in a conversation
          KnownOfRequests \* <<source, target, habit, <<what, about>>>>

ASSUME RequestPairsAssumption ==
    RequestPairs \subseteq {"claude", "chat", "responses", "gemini"}
                           \X {"claude", "chat", "gemini", "gemini-cli", "antigravity", "codex", "kiro"}

VARIABLES
    pair,   \* <<source, target>>
    habits, \* the client's habits so far
    tools,  \* the names of the tools the request declares
    turns,  \* the conversation: turns of the user, the model and the tools
    asked   \* the calls that wait for their results

vars == <<pair, habits, tools, turns, asked>>

Source == pair[1]
Target == pair[2]

(****************************************************************************)
(* The client's formats.                                                    *)
(****************************************************************************)
Written(p) == [p EXCEPT !.plain = \/ Source = "chat" /\ "parts" \notin habits
                                  \/ Source \in {"claude", "responses"} /\ "plain" \in habits]
System == IF "instructions" \in habits THEN Part("system", 0) ELSE Written(Part("system", 0))
Text(n) == Written(Part("text", n))
Parts(kind, m) == Only(m, {kind})
(* A model's turn with calls and no text has content null or an empty one. *)
ChatTurn(m) ==
    CASE m.role = "user" -> <<m>>
      [] m.role = "model" ->
            LET text == Parts("text", m)
                blank == IF text = <<>> /\ "blank" \in habits THEN <<Blank>> ELSE <<>>
            IN  <<Msg("model", text \o blank \o Parts("use", m))>>
      [] m.role = "tools" -> Alone("tool", Parts("result", m)) \o IfAny("user", Parts("text", m))
ClaudeTurn(m) == <<Msg(IF m.role = "model" THEN "model" ELSE "user", m.parts)>>
ResponsesTurn(m) ==
    LET user == IF Len(turns) = 1 /\ "input" \in habits THEN "input" ELSE "user"
        texts == IfAny(IF m.role = "model" THEN "model" ELSE user, Parts("text", m))
        items == Alone("item", Only(m, {"use", "result"}))
    IN  IF m.role = "tools" THEN items \o texts ELSE texts \o items
GeminiTurn(m) ==
    IF m.role = "tools" /\ "function" \in habits
    THEN <<Msg("function", Parts("result", m))>> \o IfAny("user", Parts("text", m))
    ELSE <<Msg(IF m.role = "model" THEN "model" ELSE "user", m.parts)>>
SystemRole ==
    IF habits \cap {"instructions", "developer", "systemInstruction"} = {} THEN "system"
    ELSE CHOOSE role \in {"instructions", "developer", "systemInstruction"} : role \in habits
Request ==
    LET system == IF "system" \notin habits THEN <<>>
                  ELSE <<Msg(SystemRole, <<System>>)>>
    IN  system \o CASE Source = "claude" -> Each(ClaudeTurn, turns)
                    [] Source = "chat" -> Each(ChatTurn, turns)
                    [] Source = "responses" -> Each(ResponsesTurn, turns)
                    [] Source = "gemini" -> Each(GeminiTurn, turns)
Translated == TranslateRequest(Source, Target, tools, Request)

(****************************************************************************)
(* The client.                                                              *)
(****************************************************************************)
Flat(ms) == Each(LAMBDA m : m.parts, ms)
Said == Flat(turns)
New == Max({0} \cup {p.n : p \in ToSet(Said)}) + 1
CallsMade == Len(Of(Said, {"use"}))
(* An id says the name of the tool if a Gemini translator gave it. *)
IdOf(name, n) ==
    CASE Source = "gemini" -> NoId
      [] Source = "claude" -> <<IF "foreign" \in habits THEN "toolu" ELSE name, n>>
      [] OTHER -> <<"call", n>>
Use(name, n) == [Part("use", n) EXCEPT !.id = IdOf(name, n), !.name = name]
ResultOf(use) == [use EXCEPT !.kind = "result", !.name = IF Source = "gemini" THEN @ ELSE ""]
Noting(hs) == habits' = habits \cup hs
Turn(role, parts) ==
    /\ Len(turns) < MaxTurns /\ UNCHANGED <<pair, tools>>
    /\ turns' = Append(turns, Msg(role, Mapped(LAMBDA p : [p EXCEPT !.turn = Len(turns) + 1], parts)))

(* Calls nobody waits for any more stay without a result. *)
UserSays ==
    /\ turns # <<>> => Last(turns).role = "model"
    /\ Noting(IF asked = <<>> THEN {} ELSE {"interrupted"})
    /\ asked' = <<>> /\ Turn("user", <<Text(New)>>)

(* The first call is of f; a thought is signed and comes back to Claude. *)
ModelAnswers(thought, text, names) ==
    LET before == (IF thought THEN <<Part("thought", New)>> ELSE <<>>)
                  \o (IF text THEN <<Text(New + 1)>> ELSE <<>>)
        uses == Mapped(LAMBDA i : Use(names[i], New + 1 + i), [i \in DOMAIN names |-> i])
    IN  /\ turns # <<>> /\ Last(turns).role # "model" /\ asked = <<>>
        /\ thought => Source = "claude"
        /\ names # <<>> \/ text
        /\ CallsMade + Len(names) <= MaxCalls /\ (CallsMade = 0 /\ names # <<>> => names[1] = "f")
        /\ asked' = uses /\ UNCHANGED habits
        /\ Turn("model", before \o uses)

(* Results in any order that tells which is whose, all at once or not, and  *)
(* with a text of the user.                                                 *)
ToolsAnswer(answered, text) ==
    LET results == Mapped(ResultOf, answered)
        rest == Where(LAMBDA c : c \notin ToSet(answered), asked)
        inOrder == IsPrefix(answered, asked)
    IN  /\ answered # <<>>
        /\ Source = "gemini" /\ ~inOrder => \A i, j \in DOMAIN asked : i # j => asked[i].name # asked[j].name
        /\ text => rest = <<>>
        /\ asked' = rest
        /\ Noting((IF inOrder THEN {} ELSE {"swapped"}) \cup (IF rest = <<>> THEN {} ELSE {"piecemeal"}))
        /\ Turn("tools", results \o IF text THEN <<Text(New)>> ELSE <<>>)

(* Ways to write a request, and ways to write its system text. *)
Styles(source) ==
    CASE source = "claude" -> {{}, {"foreign"}, {"plain"}}
      [] source = "chat" -> {{}, {"blank"}, {"parts"}}
      [] source = "responses" -> {{}, {"plain"}}
      [] source = "gemini" -> {{}, {"function"}}
SystemStyles(source) ==
    CASE source = "claude" -> {{}}
      [] source = "chat" -> {{}, {"developer"}}
      [] source = "responses" -> {{}, {"instructions"}, {"developer"}}
      [] source = "gemini" -> {{}, {"systemInstruction"}}
Habits(source) ==
    LET none == Styles(source) \cup (IF source = "responses" THEN {{"input"}, {"input", "system", "instructions"}} ELSE {})
    IN  none \cup {style \cup {"system"} \cup system : style \in Styles(source), system \in SystemStyles(source)}
Init ==
    /\ pair \in RequestPairs
    /\ habits \in Habits(pair[1])
    /\ tools \in (IF pair[2] = "codex" THEN {<<"f", "g">>, <<"g">>} ELSE {<<"f", "g">>})
    /\ turns = <<>> /\ asked = <<>>

Next ==
    \/ UserSays
    \/ \E thought, text \in BOOLEAN, k \in 0..2 : \E names \in [1..k -> {"f", "g"}] : ModelAnswers(thought, text, names)
    \/ \E k \in 1..Len(asked), text \in BOOLEAN : \E order \in [1..k -> DOMAIN asked] :
           IsInjective(order) /\ ToolsAnswer(Mapped(LAMBDA i : asked[i], order), text)

Spec == Init /\ [][Next]_vars

(****************************************************************************)
(* Properties.                                                              *)
(****************************************************************************)
Shown ==
    {"any"} \cup {h \in habits : h = "input" => Len(turns) = 1}
    \cup (IF CallsMade > 0 THEN {"call"} ELSE {})
    \cup (IF \E i \in DOMAIN turns : Len(Parts("use", turns[i])) > 1 THEN {"two calls"} ELSE {})
    \cup (IF \E i \in DOMAIN turns : Parts("use", turns[i]) # <<>> /\ Parts("text", turns[i]) # <<>>
          THEN {"text and call"} ELSE {})
    \cup (IF \E i \in DOMAIN turns : Parts("result", turns[i]) # <<>> /\ Parts("text", turns[i]) # <<>>
          THEN {"text and result"} ELSE {})
    \cup (IF Len(tools) = 1 THEN {"undeclared"} ELSE {})
    \cup (IF Last(turns).role = "model" THEN {"prefill"} ELSE {})
Excused(what, about) == \E h \in Shown : <<Source, Target, h, <<what, about>>>> \in KnownOfRequests

(* A client sends a conversation in which no call is open. *)
Sendable == turns # <<>> /\ asked = <<>>

Asked == (IF "system" \in habits THEN <<System>> ELSE <<>>) \o Said
Wanted == {"system", "text", "use", "result"} \cup (IF Target = "antigravity" THEN {"thought"} ELSE {})
Places(p, ps) == {i \in DOMAIN ps : p.kind = ps[i].kind /\ p.n = ps[i].n}
RolesOf(p) ==
    CASE p.kind = "system" -> {"system", "systemInstruction", "user"} \cup (IF Target \in {"chat", "codex"} THEN {"developer"} ELSE {})
      [] p.kind = "text" -> {IF turns[p.turn].role = "model" THEN "model" ELSE "user"}
      [] p.kind = "thought" -> {"model"}
      [] p.kind = "use" -> {"model", "item"}
      [] p.kind = "result" -> {"user", "tool", "function", "item"}

(* What can have become of a conversation, with the kind of part it is about. *)
Given(ms) == Of(Flat(ms), {"system", "thought", "text", "use", "result"})
Due == Of(Asked, Wanted)
NameOf(n) == Said[CHOOSE i \in DOMAIN Said : Said[i].kind = "use" /\ Said[i].n = n].name
Lost(given) == {<<"lost", p.kind>> : p \in {p \in ToSet(Due) : Places(p, given) = {}}}
Again(given) == {<<"again", p.kind>> : p \in {p \in ToSet(given) : Cardinality(Places(p, given)) > 1}}
Invented(given) == {<<"invented", p.kind>> : p \in {p \in ToSet(given) : Places(p, Asked) = {}}}
Moved(given) ==
    {<<"moved", given[i].kind>> : i \in {i \in DOMAIN given :
        given[i].kind # "system" /\ \E j \in 1..(i - 1) : given[j].turn > given[i].turn}}
Misplaced(ms) ==
    LET placed == UNION {{<<ms[i].role, ms[i].parts[j]>> : j \in DOMAIN ms[i].parts} : i \in DOMAIN ms}
    IN  {<<"role", f[2].kind>> : f \in {f \in placed : f[2].kind \notin {"own", "blank", "raw"} /\ f[1] \notin RolesOf(f[2])}}
Empty(ms) == IF \E i \in DOMAIN ms : ms[i].parts = <<>> THEN {<<"empty", "message">>} ELSE {}
Merged(given) ==
    LET uses == {p \in ToSet(given) : p.kind = "use"}
    IN  IF \E p, q \in uses : p.name = q.name /\ NameOf(p.n) # NameOf(q.n) THEN {<<"merged", "names">>} ELSE {}
Misnamed(given) ==
    IF \E p \in ToSet(given) : p.kind = "result" /\ p.name \notin {"", NameOf(p.n)} THEN {<<"misnamed", "result">>} ELSE {}
Deviations(ms) ==
    LET given == Given(ms)
    IN  Lost(given) \cup Again(given) \cup Invented(given) \cup Moved(given)
        \cup Misplaced(ms) \cup Empty(ms) \cup Merged(given) \cup Misnamed(given)

(* The provider is given the conversation: every text, call and result once, from the *)
(* one who said it and turn after turn, nothing that nobody said, no empty messages,  *)
(* and different tools under different names.                                         *)
ConversationKept == Sendable => \A d \in Deviations(Translated) : Excused(d[1], d[2])

(* The calls a provider takes result i for: the one with its id or, in a format       *)
(* without ids, the next with its name of the turn of calls that came last.           *)
CallsFor(ps, i) ==
    LET uses == {j \in 1..(i - 1) : ps[j].kind = "use"}
        turn == Max({0} \cup {ps[j].turn : j \in uses})
        named == {j \in uses : ps[j].turn = turn /\ ps[j].name = ps[i].name}
        earlier == {j \in 1..(i - 1) : /\ ps[j].kind = "result" /\ ps[j].name = ps[i].name
                                       /\ \E k \in named : k < j}
    IN  IF ps[i].id # NoId THEN {j \in uses : ps[j].id = ps[i].id}
        ELSE {j \in named : Cardinality({k \in named : k < j}) = Cardinality(earlier)}

(* Each result reaches the provider as the answer to the call it answers.             *)
ResultsAnswer ==
    Sendable =>
        LET ps == Of(Flat(Translated), {"use", "result"})
        IN  \A i \in DOMAIN ps :
                \/ ps[i].kind = "use"
                \/ \E j \in 1..(i - 1) : CallsFor(ps, i) = {j} /\ ps[j].n = ps[i].n
                \/ Excused("mistaken", "result")
=============================================================================
