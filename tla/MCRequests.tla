------------------------------ MODULE MCRequests ------------------------------
(* Every pair of formats with a request translator, and what these are      *)
(* known to do: <<source, target, habit, <<what, about>>>>.                 *)
EXTENDS Requests

Geminis == {"gemini", "gemini-cli", "antigravity"}
MCRequestPairs ==
    ({"claude", "chat"} \X ({"codex", "kiro"} \cup Geminis))
    \cup ({"responses", "gemini"} \X ({"chat", "claude", "codex"} \cup Geminis))
    \cup {<<"claude", "chat">>, <<"chat", "claude">>}

Deviate(sources, targets, shown, deviations) ==
    {<<s, t, h, d>> : s \in sources, t \in targets, h \in shown, d \in deviations}
Mistaken == {<<"mistaken", "result">>}
MCKnownOfRequests ==
    \* The name of a result is cut out of an id that does not have it, and ids are dropped.
    Deviate({"claude"}, Geminis, {"foreign"}, {<<"misnamed", "result">>})
    \cup Deviate({"claude"}, {"gemini", "gemini-cli"}, {"foreign", "swapped"}, Mistaken)
    \* A system text is read from an array only, or from a string only.
    \cup Deviate({"claude"}, {"codex"} \cup Geminis, {"plain"}, {<<"lost", "system">>})
    \cup Deviate({"chat"}, Geminis, {"parts"}, {<<"lost", "system">>})
    \* The role developer and the field systemInstruction are not read, or not known to Gemini.
    \cup Deviate({"chat"}, {"claude", "kiro"} \cup Geminis, {"developer"}, {<<"lost", "system">>})
    \cup Deviate({"gemini"}, {"claude", "codex"}, {"systemInstruction"}, {<<"lost", "system">>})
    \cup Deviate({"responses"}, {"gemini"}, {"developer"}, {<<"role", "system">>})
    \* Contents, and to Claude an input, that are strings are not read.
    \cup Deviate({"responses"}, {"chat", "claude"}, {"plain"}, {<<"empty", "message">>})
    \cup Deviate({"responses"}, {"chat", "claude"} \cup Geminis, {"plain"}, {<<"lost", "system">>, <<"lost", "text">>})
    \cup Deviate({"responses"}, {"codex"}, {"plain"}, {<<"lost", "system">>})
    \cup Deviate({"responses"}, {"claude"}, {"input"}, {<<"lost", "text">>})
    \* Contents of the model that are arrays are not read, or taken for strings.
    \cup Deviate({"chat"}, {"gemini-cli", "antigravity", "kiro"}, {"parts"}, {<<"lost", "text">>})
    \* A tool that is not declared is shortened without regard to the others.
    \cup Deviate({"claude", "chat", "gemini"}, {"codex"}, {"undeclared"}, {<<"merged", "names">>})
    \* A message is made up for a content that is null, or after the model's own.
    \cup Deviate({"chat"}, {"codex"}, {"call"}, {<<"empty", "message">>})
    \cup Deviate({"claude", "chat"}, {"kiro"}, {"prefill"}, {<<"empty", "message">>})
    \* Results wait for the user's next message.
    \cup Deviate({"chat"}, {"kiro"}, {"call"}, {<<"moved", "result">>})
    \* Calls beside a text are dropped with their results; calls without results get some.
    \cup Deviate({"chat"}, Geminis, {"text and call", "blank"}, {<<"lost", "use">>, <<"lost", "result">>})
    \cup Deviate({"chat"}, Geminis, {"interrupted"}, {<<"invented", "result">>})
    \* Calls made together are told one after the other.
    \cup Deviate({"responses"}, Geminis, {"two calls"}, {<<"moved", "use">>, <<"moved", "result">>})
    \* Every result is given the id of the last call, or of the oldest without a result.
    \cup Deviate({"gemini"}, {"chat"}, {"two calls"}, Mistaken)
    \cup Deviate({"gemini"}, {"claude", "codex"}, {"swapped", "interrupted"}, Mistaken)
    \cup Deviate({"gemini"}, {"chat"}, {"call"}, {<<"empty", "message">>})
    \* Roles the format does not know alternate.
    \cup Deviate({"gemini"}, {"gemini"}, {"piecemeal"}, {<<"role", "result">>})
    \* Results are gathered by their number; a text among them is not.
    \cup Deviate({"gemini"}, {"gemini-cli", "antigravity"}, {"text and result"}, {<<"lost", "text">>})
    \cup Deviate({"gemini"}, {"gemini-cli", "antigravity"}, {"interrupted"}, {<<"lost", "result">>})
===============================================================================
