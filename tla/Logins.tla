-------------------------------- MODULE Logins --------------------------------
(***************************************************************************)
(* Logins of one provider, side by side: through the management API, with  *)
(* a forwarder of its own ("webui") or behind an application that sends    *)
(* the callback on ("app"), and on the command line ("cli").  They share   *)
(* the provider's callback port, the table of forwarders, the callback     *)
(* files, the table of statuses and the directory of records.              *)
(*                                                                         *)
(* Every management login has two processes, the request's handler and the *)
(* goroutine it starts; a command has one.  What the services answer is    *)
(* left open (LoginSteps says what becomes of it); browsers call back late,*)
(* twice or at another login's server, and files are seen half written.    *)
(***************************************************************************)
EXTENDS LoginSteps, FiniteSets

CONSTANTS
  Logins, Providers, None,
  MaxCallbacks,   \* how often browsers are sent to the callback address
  MaxPolls        \* polls of a device flow

\* The command line sends everyone to Google with the same state.
StateToken == "state-token"
\* What a file holds whose writing has failed half way.
Broken == "broken"

ASSUME LoginsAssumption ==
  /\ {None, NoCode, NoState, StateToken, Broken} \cap (Logins \union {Nameless}) = {}
  /\ Nameless \notin Logins /\ None # Broken
  /\ MaxCallbacks \in Nat /\ MaxPolls \in Nat

ByCallback == {"claude", "codex", "gemini", "antigravity", "iflow"}
ByDevice == {"qwen", "copilot", "kiro"}
Ways(p) ==
  CASE p \in ByCallback -> {"webui", "app", "cli"}
    [] p \in {"qwen", "iflow-cookie"} -> {"app", "cli"}
    [] OTHER -> {"cli"}
Ports(p) == IF p = "kiro-social" THEN {1, 2} ELSE {1}
Lowest(ports) == CHOOSE n \in ports : \A m \in ports : n <= m

VARIABLES
  provider, way,
  handler, run,       \* where the request's handler, and the goroutine or command, is
  forwarder, taken,   \* the table's entry; the forwarder a process took out to stop
  listener,           \* whose server has the port
  status,             \* oauthStatus of the login's state
  file, writing,      \* the callback file; what the server is writing to it
  result, blocked,    \* the command's channel; a callback waits to send on Gemini's
  code, name,         \* whose code is exchanged, what the record is called
  projects, left, ready, \* Gemini: what to set up, what is left of the phase, what is
  store, persisted,   \* the directory of records; what came of saving the login's
  told, calls, polls
vars == <<provider, way, handler, run, forwarder, taken, listener, status, file,
          writing, result, blocked, code, name, projects, left, ready, store,
          persisted, told, calls, polls>>
server == <<forwarder, taken, listener>>
browser == <<file, writing, result, blocked, calls>>
grant == <<code, name, projects, left, ready>>

Init ==
  /\ provider \in Providers
  /\ way \in [Logins -> Ways(provider)]
  /\ handler = [l \in Logins |-> "new"]
  /\ run = [l \in Logins |-> "none"]
  /\ forwarder = None
  /\ taken = [l \in Logins |-> None]
  /\ listener = [n \in Ports(provider) |-> None]
  /\ status = [l \in Logins |-> "absent"]
  /\ file = [l \in Logins |-> None]
  /\ writing = [l \in Logins |-> None]
  /\ result = [l \in Logins |-> None]
  /\ blocked = [l \in Logins |-> FALSE]
  /\ code = [l \in Logins |-> NoCode]
  /\ name = [l \in Logins |-> None]
  /\ projects = [l \in Logins |-> <<>>]
  /\ left = [l \in Logins |-> <<>>]
  /\ ready = [l \in Logins |-> {}]
  /\ store = [n \in Logins \union {Nameless} |-> None]
  /\ persisted = [l \in Logins |-> "no"]
  /\ told = [l \in Logins |-> "nothing"]
  /\ calls = 0
  /\ polls = [l \in Logins |-> 0]

\* The outcome is left in the status table for whoever asks, or told at once.
Asked(l) == way[l] # "cli" /\ provider # "iflow-cookie"

Handler(l, from, to) == handler[l] = from /\ handler' = [handler EXCEPT ![l] = to]
Tell(l, outcome) == told' = [told EXCEPT ![l] = outcome]
Free(l) == [n \in Ports(provider) |-> IF listener[n] = l THEN None ELSE listener[n]]
Over(l) == run' = [run EXCEPT ![l] = IF way[l] = "webui" THEN "ending" ELSE "over"]
Goes(l, to) == run' = [run EXCEPT ![l] = to]
Stays == UNCHANGED <<status, told, listener>>

\* The goroutine leaves its error in the table; the command prints it and ends.
Fail(l) ==
  /\ Over(l)
  /\ IF Asked(l)
     THEN status' = [status EXCEPT ![l] = "error"] /\ UNCHANGED <<told, listener>>
     ELSE Tell(l, "error") /\ listener' = Free(l) /\ UNCHANGED status
-----------------------------------------------------------------------------
(* The handler of a management login. *)

unchangedByHandler ==
  UNCHANGED <<provider, way, browser, grant, store, persisted, polls>>

\* startCallbackForwarder, until it returns.
TakePrevious(l) ==
  /\ way[l] = "webui" /\ Handler(l, "new", "closing")
  /\ taken' = [taken EXCEPT ![l] = forwarder]
  /\ forwarder' = None
  /\ unchangedByHandler /\ UNCHANGED <<run, listener, status, told>>
StopPrevious(l) ==
  /\ Handler(l, "closing", "listening")
  /\ listener' = Free(taken[l])
  /\ taken' = [taken EXCEPT ![l] = None]
  /\ unchangedByHandler /\ UNCHANGED <<run, forwarder, status, told>>
Listen(l) ==
  /\ IF listener[1] = None
     THEN /\ Handler(l, "listening", "putting")
          /\ listener' = [listener EXCEPT ![1] = l]
          /\ UNCHANGED told
     ELSE Handler(l, "listening", "refused") /\ Tell(l, "error") /\ UNCHANGED listener
  /\ unchangedByHandler /\ UNCHANGED <<run, forwarder, taken, status>>
PutForwarder(l) ==
  /\ Handler(l, "putting", "going")
  /\ forwarder' = l
  /\ unchangedByHandler /\ UNCHANGED <<run, taken, listener, status, told>>

Go(l) ==
  /\ provider \in ByCallback
  /\ Handler(l, IF way[l] = "webui" THEN "going" ELSE "new", "setting")
  /\ way[l] # "cli"
  /\ Goes(l, "waiting")
  /\ unchangedByHandler /\ UNCHANGED <<server, status, told>>
GoQwen(l) ==
  /\ provider = "qwen" /\ way[l] = "app"
  /\ \E answer \in Answer :
       IF QwenDeviceFlow(answer)
       THEN Handler(l, "new", "setting") /\ Goes(l, "polling") /\ UNCHANGED told
       ELSE Handler(l, "new", "refused") /\ Tell(l, "error") /\ UNCHANGED run
  /\ unchangedByHandler /\ UNCHANGED <<server, status>>
GoCookie(l) ==
  /\ provider = "iflow-cookie" /\ way[l] = "app"
  /\ Handler(l, "new", "replied")
  /\ Goes(l, "exchanging")
  /\ unchangedByHandler /\ UNCHANGED <<server, status, told>>

\* The status is set to "" and the answer carries the address to open.
Reply(l) ==
  /\ Handler(l, "setting", "replied")
  /\ status' = [status EXCEPT ![l] = ""]
  /\ unchangedByHandler /\ UNCHANGED <<run, server, told>>

HandlerStep(l) ==
  \/ TakePrevious(l) \/ StopPrevious(l) \/ Listen(l) \/ PutForwarder(l)
  \/ Go(l) \/ GoQwen(l) \/ GoCookie(l) \/ Reply(l)

\* GetAuthStatus, asked until it gives an outcome.
AskStatus(l) ==
  /\ Asked(l) /\ handler[l] = "replied" /\ told[l] = "nothing" /\ status[l] # ""
  /\ Tell(l, IF status[l] = "error" THEN "error" ELSE "ok")
  /\ status' = [status EXCEPT ![l] = "absent"]
  /\ unchangedByHandler /\ UNCHANGED <<handler, run, server>>
-----------------------------------------------------------------------------
(* The start of a command. *)

unchangedByCommand ==
  UNCHANGED <<provider, way, handler, forwarder, taken, browser, grant, store, persisted, polls,
            status>>

ServeOn(l, n) ==
  listener' = [listener EXCEPT ![n] = l] /\ Goes(l, "waiting") /\ UNCHANGED told
Refuse(l) == Goes(l, "refused") /\ Tell(l, "error") /\ UNCHANGED listener
Free1 == listener[1] = None

Serve(l) ==
  /\ way[l] = "cli" /\ provider \in ByCallback \ {"gemini"} /\ run[l] = "none"
  /\ IF Free1 THEN ServeOn(l, 1) ELSE Refuse(l)
  /\ unchangedByCommand
\* Gemini learns of a busy port only if it waits already.
ServeGemini(l) ==
  /\ way[l] = "cli" /\ provider = "gemini" /\ run[l] = "none"
  /\ \/ Free1 /\ ServeOn(l, 1)
     \/ ~Free1 /\ Refuse(l)
     \/ ~Free1 /\ Goes(l, "waiting") /\ UNCHANGED <<told, listener>>
  /\ unchangedByCommand
\* Kiro tries one port after the other.
ServeKiro(l) ==
  /\ way[l] = "cli" /\ provider = "kiro-social" /\ run[l] = "none"
  /\ LET free == {n \in Ports(provider) : listener[n] = None}
     IN  IF free # {} THEN ServeOn(l, Lowest(free)) ELSE Refuse(l)
  /\ unchangedByCommand

DeviceFlow(answer) ==
  CASE provider = "qwen" -> QwenDeviceFlow(answer)
    [] provider = "copilot" -> CopilotDeviceCode(answer)
    [] OTHER -> KiroDeviceFlow(answer)
OpenDevice(l) ==
  /\ way[l] = "cli" /\ provider \in ByDevice /\ run[l] = "none"
  /\ \E answer \in Answer :
       IF DeviceFlow(answer) THEN Goes(l, "polling") /\ UNCHANGED <<told, listener>>
       ELSE Refuse(l)
  /\ unchangedByCommand
OpenFile(l) ==
  /\ way[l] = "cli" /\ provider \in {"iflow-cookie", "kiro-import"} /\ run[l] = "none"
  /\ Goes(l, "exchanging")
  /\ unchangedByCommand /\ UNCHANGED <<told, listener>>
-----------------------------------------------------------------------------
(* The browser, and what its call meets. *)

Invited(l) ==
  IF way[l] = "cli" THEN run[l] \notin {"none", "refused"} ELSE handler[l] = "replied"
StateOf(l) == IF provider = "gemini" /\ way[l] = "cli" THEN StateToken ELSE l

Handed(got) ==
  CASE provider = "claude" -> ClaudeServer(got)
    [] provider = "codex" -> CodexServer(got)
    [] provider = "gemini" -> GeminiServer(got)
    [] provider = "antigravity" -> AntigravityServer(got)
    [] provider = "iflow" -> IFlowServer(got)
    [] OTHER -> KiroServer(got)

\* The endpoint of the server creates the callback file of that state ...
BeginWrite(got) ==
  IF got.state \in Logins
  THEN /\ writing[got.state] = None
       /\ writing' = [writing EXCEPT ![got.state] = got]
       /\ file' = [file EXCEPT ![got.state] = Unreadable]
  ELSE UNCHANGED <<writing, file>>
\* ... and fills it, unless it was removed meanwhile.
EndWrite(l) ==
  /\ writing[l] # None
  /\ file' = [file EXCEPT ![l] = IF @ = Unreadable THEN writing[l] ELSE @]
  /\ writing' = [writing EXCEPT ![l] = None]
  /\ UNCHANGED <<provider, way, handler, run, server, status, result, blocked, calls,
                 grant, store, persisted, told, polls>>

\* The servers a call reaches.  kiro:// addresses are tried on port after port:
\* a code until one server answers, an error on all, for its answer is a 400.
Reached(got) ==
  LET busy == {n \in Ports(provider) : listener[n] # None}
  IN  IF busy = {} \/ got.error THEN busy ELSE {Lowest(busy)}
\* A command's server never waits for room in the channel; Gemini's does.
ToCommands(got) ==
  LET owners == {listener[n] : n \in Reached(got)}
  IN  /\ result' = [m \in Logins |->
           IF m \in owners /\ result[m] = None THEN Handed(got) ELSE result[m]]
      /\ blocked' = [m \in Logins |-> blocked[m]
           \/ (provider = "gemini" /\ m \in owners
                 /\ (result[m] # None \/ run[m] # "waiting"))]
      /\ UNCHANGED <<file, writing>>

BrowserCalls(l) ==
  /\ provider \notin ByDevice \union {"iflow-cookie", "kiro-import"}
  /\ Invited(l) /\ calls < MaxCallbacks
  /\ calls' = calls + 1
  /\ \E got \in {Callback(l, StateOf(l), FALSE), Callback(NoCode, StateOf(l), TRUE)} :
       LET owners == {listener[n] : n \in Reached(got)}
       IN  CASE owners = {} /\ way[l] = "app" -> BeginWrite(got) /\ UNCHANGED <<result, blocked>>
             [] owners = {} /\ way[l] # "app" -> UNCHANGED <<file, writing, result, blocked>>
             [] \E m \in owners : way[m] = "webui" ->
                  BeginWrite(got) /\ UNCHANGED <<result, blocked>>
             [] OTHER -> ToCommands(got)
  /\ UNCHANGED <<provider, way, handler, run, server, status, grant, store, persisted,
                 told, polls>>
-----------------------------------------------------------------------------
(* The goroutine or command, until it has a grant. *)

unchangedByRun == UNCHANGED <<provider, way, handler, forwarder, taken, calls, store, persisted>>

MayExchange(got, l) ==
  IF way[l] # "cli"
  THEN CASE provider = "claude" -> RequestAnthropicToken(got, l)
         [] provider = "codex" -> RequestCodexToken(got, l)
         [] provider = "gemini" -> RequestGeminiCLIToken(got, l)
         [] provider = "antigravity" -> RequestAntigravityToken(got, l)
         [] OTHER -> RequestIFlowToken(got, l)
  ELSE CASE provider = "claude" -> ClaudeLogin(got, l)
         [] provider = "codex" -> CodexLogin(got, l)
         [] provider = "gemini" -> GeminiLogin(got)
         [] provider = "antigravity" -> AntigravityLogin(got, l)
         [] provider = "iflow" -> IFlowLogin(got, l)
         [] OTHER -> KiroSocialLogin(got, l)

\* The file is read, and removed whatever was in it.
ReadCallback(l) ==
  /\ way[l] # "cli" /\ run[l] = "waiting" /\ file[l] # None
  /\ IF MayExchange(file[l], l)
     THEN code' = [code EXCEPT ![l] = file[l].code] /\ Goes(l, "exchanging") /\ Stays
     ELSE Fail(l) /\ UNCHANGED code
  /\ file' = [file EXCEPT ![l] = None]
  /\ unchangedByRun /\ UNCHANGED <<writing, result, blocked, name, projects, left, ready, polls>>
ReadResult(l) ==
  /\ way[l] = "cli" /\ run[l] = "waiting" /\ result[l] # None
  /\ IF MayExchange(result[l], l)
     THEN /\ code' = [code EXCEPT ![l] = result[l].code]
          /\ Goes(l, IF provider = "gemini" THEN "shutting" ELSE "exchanging")
          /\ Stays
     ELSE Fail(l) /\ UNCHANGED code
  /\ result' = [result EXCEPT ![l] = None]
  /\ unchangedByRun /\ UNCHANGED <<file, writing, blocked, name, projects, left, ready, polls>>

\* Five minutes: the handler has long replied.
\* Mutant: the goroutine returns without a word.
MutTimeout(l) ==
  /\ run[l] = "waiting" /\ handler[l] # "setting"
  /\ Over(l) /\ Stays
  /\ unchangedByRun /\ UNCHANGED <<file, writing, result, blocked, grant, polls>>
Timeout(l) ==
  /\ run[l] = "waiting" /\ handler[l] # "setting"
  /\ Fail(l)
  /\ unchangedByRun /\ UNCHANGED <<file, writing, result, blocked, grant, polls>>

\* Shutdown waits for the callbacks under way, without a deadline.
ShutDown(l) ==
  /\ run[l] = "shutting"
  /\ Goes(l, IF blocked[l] THEN "hung" ELSE "exchanging")
  /\ listener' = Free(l)
  /\ unchangedByRun /\ UNCHANGED <<file, writing, result, blocked, status, told, grant, polls>>

PollOf(answer) ==
  CASE provider = "qwen" -> QwenPoll(answer)
    [] provider = "copilot" -> CopilotPoll(answer)
    [] OTHER -> KiroPoll(answer)
Poll(l) ==
  /\ run[l] = "polling"
  /\ \E answer \in PollAnswers :
       \/ polls[l] = MaxPolls /\ Fail(l) /\ UNCHANGED polls
       \/ polls[l] < MaxPolls /\ PollOf(answer) = "failed" /\ Fail(l) /\ UNCHANGED polls
       \/ /\ polls[l] < MaxPolls /\ PollOf(answer) = "again"
          /\ polls' = [polls EXCEPT ![l] = @ + 1]
          /\ UNCHANGED run /\ Stays
       \/ /\ polls[l] < MaxPolls /\ PollOf(answer) = "granted"
          /\ Goes(l, "exchanging") /\ Stays /\ UNCHANGED polls
  /\ unchangedByRun /\ UNCHANGED <<file, writing, result, blocked, grant>>
-----------------------------------------------------------------------------
(* From the grant to the record. *)

Exchanged(answer, l) ==
  IF way[l] # "cli"
  THEN CASE provider = "claude" -> AnthropicExchange(answer)
         [] provider = "codex" -> CodexExchange(answer)
         [] provider = "gemini" -> GeminiExchange(answer)
         [] provider = "antigravity" -> AntigravityExchange(answer)
         [] provider = "iflow" -> IFlowTokens(answer)
         [] provider = "qwen" -> QwenExchange
         [] OTHER -> IFlowCookie(answer)
  ELSE CASE provider = "claude" -> ClaudeLoginExchange(answer)
         [] provider = "codex" -> CodexLoginExchange(answer)
         [] provider = "gemini" -> GeminiLoginExchange(answer)
         [] provider = "antigravity" -> AntigravityLoginExchange(answer)
         [] provider = "iflow" -> IFlowTokens(answer)
         [] provider = "qwen" -> QwenLoginExchange(answer)
         [] provider = "copilot" -> CopilotLoginExchange(answer)
         [] provider = "kiro" -> KiroBuilderExchange(answer)
         [] provider = "kiro-social" -> KiroSocialExchange(answer)
         [] provider = "kiro-import" -> KiroImport(answer)
         [] OTHER -> IFlowCookie(answer)

\* The account is that of the browser the code was given to.
NameAfter(outcome, l) ==
  CASE outcome = Nameless -> Nameless
    [] outcome = Fresh -> l
    [] OTHER -> IF code[l] = NoCode THEN l ELSE code[l]
AfterExchange(l) ==
  CASE provider = "gemini" -> "choosing"
    [] /\ provider # "gemini" /\ way[l] = "cli"
       /\ \E n \in Ports(provider) : listener[n] = l -> "closing"
    [] OTHER -> "saving"
\* Gemini through the management API: without an e-mail the status says error,
\* and the login goes on.
Exchange(l) ==
  /\ run[l] = "exchanging"
  /\ \E answer \in Answer :
       /\ answer.token /\ provider \in ByCallback => code[l] # NoCode
       /\ IF Exchanged(answer, l) = Failed THEN Fail(l) /\ UNCHANGED name
          ELSE /\ name' = [name EXCEPT ![l] = NameAfter(Exchanged(answer, l), l)]
               /\ Goes(l, AfterExchange(l))
               /\ status' = IF provider = "gemini" /\ Asked(l) /\ Exchanged(answer, l) = Nameless
                            THEN [status EXCEPT ![l] = "error"] ELSE status
               /\ UNCHANGED <<told, listener>>
  /\ unchangedByRun
  /\ UNCHANGED <<file, writing, result, blocked, code, projects, left, ready, polls>>
CloseServer(l) ==
  /\ run[l] = "closing"
  /\ listener' = Free(l)
  /\ Goes(l, "saving")
  /\ unchangedByRun /\ UNCHANGED <<file, writing, result, blocked, status, told, grant, polls>>

\* Gemini: the list may not be read; the command line needs it always.
Lists == {<<>>, <<"project a", "project b">>}
Wishes == {NoWish, All, "project a"}
Choose(l) ==
  /\ run[l] = "choosing"
  /\ \E listed \in Lists, wish \in Wishes :
       LET chosen == IF way[l] = "cli" THEN ProjectsOfLogin(wish, listed)
                     ELSE ProjectsOfRequest(wish, listed)
       IN  \/ /\ chosen = {}
              /\ Fail(l) /\ UNCHANGED <<projects, left>>
           \/ \E some \in chosen :
                /\ projects' = [projects EXCEPT ![l] = some]
                /\ left' = [left EXCEPT ![l] = some]
                /\ Goes(l, "onboarding") /\ Stays
  /\ unchangedByRun /\ UNCHANGED <<file, writing, result, blocked, code, name, ready, polls>>
SetupOf(l, answer) ==
  IF way[l] = "cli" THEN performLoginSetup(answer) ELSE performGeminiCLISetup(answer)
ApiOf(l, state, enabling) ==
  IF way[l] = "cli" THEN checkLoginAPIIsEnabled(state, enabling)
  ELSE checkCloudAPIIsEnabled(state, enabling)
Onboard(l) ==
  /\ run[l] = "onboarding"
  /\ \E answer \in SetupAnswers :
       \/ /\ SetupOf(l, answer) = "granted"
          /\ ready' = [ready EXCEPT ![l] = @ \union {<<"onboarded", Head(left[l])>>}]
          /\ left' = [left EXCEPT ![l] = IF Tail(@) = <<>> THEN projects[l] ELSE Tail(@)]
          /\ Goes(l, IF Tail(left[l]) = <<>> THEN "enabling" ELSE "onboarding")
          /\ Stays
       \/ SetupOf(l, answer) = "again" /\ UNCHANGED <<run, ready, left>> /\ Stays
       \/ SetupOf(l, answer) = "failed" /\ Fail(l) /\ UNCHANGED <<ready, left>>
  /\ unchangedByRun /\ UNCHANGED <<file, writing, result, blocked, code, name, projects, polls>>
Enable(l) ==
  /\ run[l] = "enabling"
  /\ \E state \in ApiStates, enabling \in EnableAnswers :
       IF ApiOf(l, state, enabling)
       THEN /\ ready' = IF state = "enabled" \/ (state = "disabled" /\ enabling # "refused")
                        THEN [ready EXCEPT ![l] = @ \union {<<"enabled", Head(left[l])>>}]
                        ELSE ready
            /\ left' = [left EXCEPT ![l] = Tail(@)]
            /\ Goes(l, IF Tail(left[l]) = <<>> THEN "saving" ELSE "enabling")
            /\ Stays
       ELSE Fail(l) /\ UNCHANGED <<ready, left>>
  /\ unchangedByRun /\ UNCHANGED <<file, writing, result, blocked, code, name, projects, polls>>
-----------------------------------------------------------------------------
(* The record, and the end. *)

unchangedByEnd == UNCHANGED <<provider, way, handler, browser, grant, polls>>

\* Most records are token structures that SaveTokenToFile writes over the old
\* file; the others are written beside it and renamed.
Overwrites == provider \notin {"antigravity", "kiro", "kiro-social", "kiro-import"}
\* The logins of one process save under its store's lock, the mirror's call included.
StoreFree(l) ==
  way[l] # "cli" => \A m \in Logins : way[m] # "cli" => run[m] # "mirroring"

\* Mutant: a record that cannot be written is not noticed.
MutSave(l) ==
  /\ run[l] = "saving" /\ StoreFree(l)
  /\ \E written \in BOOLEAN : store' = IF written THEN [store EXCEPT ![name[l]] = l] ELSE store
  /\ Goes(l, "mirroring") /\ Stays /\ UNCHANGED persisted
  /\ unchangedByEnd /\ UNCHANGED <<forwarder, taken>>
\* The first half of a store's Save: the file in the directory of records.
Save(l) ==
  /\ run[l] = "saving" /\ StoreFree(l)
  /\ \/ /\ store' = [store EXCEPT ![name[l]] = l]
        /\ Goes(l, "mirroring") /\ Stays /\ UNCHANGED persisted
     \/ /\ Overwrites
        /\ store' = [store EXCEPT ![name[l]] = Broken]
        /\ persisted' = [persisted EXCEPT ![l] = "broken"]
        /\ Fail(l)
     \/ Fail(l) /\ UNCHANGED <<store, persisted>>
  /\ unchangedByEnd /\ UNCHANGED <<forwarder, taken>>
\* The second half: commit and push, upsert or upload.  The file stays when it
\* fails.  The plain file store has none, and iFlow's command uses no store.
Mirror(l) ==
  /\ run[l] = "mirroring"
  /\ \/ /\ persisted' = [persisted EXCEPT ![l] = "yes"]
        /\ IF Asked(l) THEN Goes(l, "deleting") /\ Stays
           ELSE Over(l) /\ Tell(l, "ok") /\ listener' = Free(l) /\ UNCHANGED status
     \/ /\ ~(provider = "iflow-cookie" /\ way[l] = "cli")
        /\ persisted' = [persisted EXCEPT ![l] = "unmirrored"]
        /\ Fail(l)
  /\ unchangedByEnd /\ UNCHANGED <<forwarder, taken, store>>
DeleteStatus(l) ==
  /\ run[l] = "deleting"
  /\ status' = [status EXCEPT ![l] = "absent"]
  /\ Over(l)
  /\ unchangedByEnd /\ UNCHANGED <<server, store, persisted, told>>

\* Mutant: the forwarder is forgotten and not stopped.
MutTakeForwarder(l) ==
  /\ run[l] = "ending"
  /\ forwarder' = None
  /\ Goes(l, "stopping")
  /\ unchangedByEnd /\ UNCHANGED <<taken, listener, status, store, persisted, told>>
\* stopCallbackForwarder: whoever's forwarder is on the port by now.
TakeForwarder(l) ==
  /\ run[l] = "ending"
  /\ taken' = [taken EXCEPT ![l] = forwarder]
  /\ forwarder' = None
  /\ Goes(l, "stopping")
  /\ unchangedByEnd /\ UNCHANGED <<listener, status, store, persisted, told>>
CloseTaken(l) ==
  /\ run[l] = "stopping"
  /\ listener' = Free(taken[l])
  /\ taken' = [taken EXCEPT ![l] = None]
  /\ Goes(l, "over")
  /\ unchangedByEnd /\ UNCHANGED <<forwarder, status, store, persisted, told>>

RunStep(l) ==
  \/ Serve(l) \/ ServeGemini(l) \/ ServeKiro(l) \/ OpenDevice(l) \/ OpenFile(l)
  \/ ReadCallback(l) \/ ReadResult(l) \/ Timeout(l) \/ ShutDown(l) \/ Poll(l)
  \/ Exchange(l) \/ CloseServer(l) \/ Choose(l) \/ Onboard(l) \/ Enable(l)
  \/ Save(l) \/ Mirror(l) \/ DeleteStatus(l) \/ TakeForwarder(l) \/ CloseTaken(l)

Next ==
  \E l \in Logins :
    HandlerStep(l) \/ RunStep(l) \/ AskStatus(l) \/ BrowserCalls(l) \/ EndWrite(l)

\* Handlers, goroutines and commands run; whoever opened the address asks for
\* the outcome.  Nobody need call back, but no onboarding is pending for ever.
Spec ==
  /\ Init /\ [][Next]_vars
  /\ \A l \in Logins :
       WF_vars(HandlerStep(l)) /\ WF_vars(RunStep(l)) /\ WF_vars(AskStatus(l))
-----------------------------------------------------------------------------
TypeOK ==
  /\ provider \in Providers
  /\ way \in [Logins -> {"webui", "app", "cli"}]
  /\ handler \in [Logins -> {"new", "closing", "listening", "putting", "going",
                              "setting", "replied", "refused"}]
  /\ run \in [Logins -> {"none", "refused", "waiting", "polling", "shutting", "hung",
                          "exchanging", "choosing", "onboarding", "enabling", "closing",
                          "saving", "mirroring", "deleting", "ending", "stopping", "over"}]
  /\ forwarder \in Logins \union {None}
  /\ taken \in [Logins -> Logins \union {None}]
  /\ listener \in [Ports(provider) -> Logins \union {None}]

Stored(l) == \E n \in DOMAIN store : store[n] = l

\* What is told of a login is what happened to it.  "ok" means that file and
\* mirror were written, and that the directory has the record, or what another
\* login has put under the same name since, which is half a record if that
\* one's save has failed.  "error" means that the record is not there, with two
\* exceptions: a store that has written the file and then fails to mirror it
\* leaves it where the watcher finds it, and the error is told all the same
\* (auth_files.go:899, gitstore.go:287, postgresstore.go:256); and Gemini
\* through the management API without an e-mail, of which error is told
\* (auth_files.go:1041) while the login goes on to save.
ToldTruly ==
  \A l \in Logins :
    /\ told[l] = "ok" =>
         /\ name[l] # None /\ persisted[l] = "yes"
         /\ \E m \in Logins :
              /\ name[m] = name[l]
              /\ \/ store[name[l]] = m
                 \/ store[name[l]] = Broken /\ persisted[m] = "broken"
    /\ told[l] = "error" /\ Stored(l) =>
         \/ persisted[l] = "unmirrored"
         \/ provider = "gemini" /\ Asked(l) /\ name[l] = Nameless

\* A login never exchanges the code of another's browser, though their
\* callbacks meet the same servers.  Except Gemini on the command line, which
\* compares no state (gemini_auth.go:251).
OwnCode ==
  \A l \in Logins :
    code[l] \in {NoCode, l} \/ (provider = "gemini" /\ way[l] = "cli")

\* A login that is over has given its port back, or another process has its
\* forwarder in hand and is about to close it: no server is left on the port
\* that the next login would not stop.
PortReleased ==
  \A l \in Logins :
    (handler[l] = "refused" \/ run[l] \in {"refused", "hung", "over"}) =>
      \A n \in Ports(provider) :
        listener[n] = l => \E m \in Logins : taken[m] = l

\* A Gemini record is stored only when every project it names has been
\* onboarded and has its API enabled.
ReadyWhenSaved ==
  provider = "gemini" =>
    \A l \in Logins : Stored(l) =>
      /\ projects[l] # <<>>
      /\ \A p \in ToSet(projects[l]) : {<<"onboarded", p>>, <<"enabled", p>>} \subseteq ready[l]

\* Qwen's goroutine was quicker than its handler: "wait" for ever
\* (auth_files.go:1614).
Forgotten(l) == provider = "qwen" /\ run[l] = "over" /\ status[l] = ""

\* Whoever starts a login learns how it ended, though nobody calls back: unless
\* Gemini's server waits for a second callback, or Qwen's status is forgotten.
OutcomeTold ==
  \A l \in Logins :
    (handler[l] # "new" \/ run[l] # "none") ~>
      (told[l] # "nothing" \/ run[l] = "hung" \/ Forgotten(l))
=============================================================================
