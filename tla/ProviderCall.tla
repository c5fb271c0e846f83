----------------------------- MODULE ProviderCall -----------------------------
(***************************************************************************)
(* One request at a provider, as the executors of                          *)
(* internal/runtime/executor perform it: credentials, the attempts with    *)
(* their fallbacks, the response body, the stream, and the usage record    *)
(* left behind.  Every method of an executor is described by what sets it  *)
(* apart from the others; one set of actions performs them all.            *)
(***************************************************************************)
EXTENDS UsageManager, FiniteSets

CONSTANTS
  Executors,   \* the executors of the run
  Fallbacks,   \* bound: models (gemini-cli) or base URLs (antigravity) to try
  MaxLines     \* bound: lines of a stream

Modes == {"unary", "stream", "count"}

\* How a call ends for its caller: a status, or an error without one.
Credentials == -1
Transport == -2
Unreadable == -3
OutOfAttempts == -4
Malformed == -5
Open == 0
NotImplemented == 501

VARIABLES
  provider, mode,
  pc,
  attempt,    \* attempts begun
  origin,     \* kiro's quota: "CLI" or "AI_EDITOR"
  answer,     \* the status of the newest response
  body,       \* its body: "none", "open" or "closed"
  record,     \* what the usage reporter published, once
  seen,       \* the call has seen how many tokens it took
  outcome,    \* how the call ended
  lines       \* lines of the stream read

callVars == <<provider, mode, pc, attempt, origin, answer, body, record, seen, outcome, lines>>
providerVars == <<usageVars, callVars>>

-----------------------------------------------------------------------------
(* The methods of the executors:                                            *)
(*   early     credentials may fail before the usage reporter exists,       *)
(*   late      what the caller is told when they fail afterwards,           *)
(*   attempts  how many models, base URLs or retries there are,             *)
(*   skips     what makes it go on to the next: "busy" is a 429,            *)
(*   strict    an error body that cannot be read takes the status's place,  *)
(*   partial   what a body is told as that was read but is not complete,    *)
(*   ensures   a call that saw no tokens leaves a record too,               *)
(*   local     the outcomes, when the provider is not asked.                *)

Plain == [early |-> FALSE, late |-> {}, attempts |-> 1, skips |-> {}, strict |-> FALSE,
          partial |-> {}, ensures |-> FALSE, local |-> {}]

ClaudeExecute == Plain
ClaudeStream == Plain
ClaudeCount == Plain

\* Without its last event a response is a timeout; a stream just ends.
CodexExecute == [Plain EXCEPT !.partial = {408}]
CodexStream == [Plain EXCEPT !.strict = TRUE]
CodexCount == [Plain EXCEPT !.local = {OK, Malformed}]

GeminiExecute == Plain
GeminiStream == Plain
GeminiCount == [Plain EXCEPT !.strict = TRUE]

\* A service account must be complete, and yield a token.
VertexExecute == [Plain EXCEPT !.early = TRUE, !.late = {ServerError}]
VertexStream == [Plain EXCEPT !.early = TRUE, !.late = {ServerError}]
VertexCount == [Plain EXCEPT !.early = TRUE, !.late = {ServerError}]
VertexKeyExecute == Plain
VertexKeyStream == Plain
VertexKeyCount == Plain

QwenExecute == Plain
QwenStream == Plain
QwenCount == [Plain EXCEPT !.local = {OK, Malformed}]

CompatExecute == [Plain EXCEPT !.late = {401}, !.ensures = TRUE]
CompatStream == [Plain EXCEPT !.late = {401}, !.ensures = TRUE]
CompatCount == [Plain EXCEPT !.local = {OK, Malformed}]

IFlowExecute == [Plain EXCEPT !.early = TRUE, !.ensures = TRUE]
IFlowStream == [Plain EXCEPT !.early = TRUE, !.ensures = TRUE]
IFlowCount == [Plain EXCEPT !.local = {OK, Malformed}]

CopilotExecute == [Plain EXCEPT !.early = TRUE, !.ensures = TRUE]
CopilotStream == [Plain EXCEPT !.early = TRUE, !.strict = TRUE, !.ensures = TRUE]
CopilotCount == [Plain EXCEPT !.local = {NotImplemented}]

\* Every model takes a token; after the last one its status is told.
GeminiCLIExecute == [Plain EXCEPT !.early = TRUE, !.late = {Credentials}, !.strict = TRUE,
                                  !.attempts = Fallbacks, !.skips = {"busy"}]
GeminiCLIStream == [Plain EXCEPT !.early = TRUE, !.late = {Credentials}, !.strict = TRUE,
                                 !.attempts = Fallbacks, !.skips = {"busy"}]
GeminiCLICount == [Plain EXCEPT !.early = TRUE, !.late = {Credentials}, !.strict = TRUE,
                                !.attempts = Fallbacks, !.skips = {"busy"}]

AntigravityExecute == [Plain EXCEPT !.early = TRUE, !.strict = TRUE, !.ensures = TRUE,
                                    !.attempts = Fallbacks, !.skips = {"busy", "unsent"}]
AntigravityStream == [Plain EXCEPT !.early = TRUE, !.strict = TRUE, !.ensures = TRUE,
                                   !.attempts = Fallbacks, !.skips = {"busy", "unsent", "unread"}]
AntigravityCount == [Plain EXCEPT !.local = {NotImplemented}]

\* Retries of its own (KiroRefused).
KiroExecute == [Plain EXCEPT !.early = TRUE, !.attempts = 3]
KiroStream == [Plain EXCEPT !.early = TRUE, !.attempts = 3, !.ensures = TRUE]
KiroCount == [Plain EXCEPT !.local = {NotImplemented}]

\* The request must be translatable; the relay brings the answer.
AIStudioExecute == [Plain EXCEPT !.late = {Malformed}]
AIStudioStream == [Plain EXCEPT !.late = {Malformed}]
AIStudioCount == [Plain EXCEPT !.late = {Malformed}, !.partial = {Malformed}]

Method ==
  [e \in {"claude", "codex", "gemini", "vertex", "vertex-key", "qwen", "openai-compat", "iflow",
          "github-copilot", "gemini-cli", "antigravity", "kiro", "aistudio"} |->
    CASE e = "claude" -> [unary |-> ClaudeExecute, stream |-> ClaudeStream, count |-> ClaudeCount]
      [] e = "codex" -> [unary |-> CodexExecute, stream |-> CodexStream, count |-> CodexCount]
      [] e = "gemini" -> [unary |-> GeminiExecute, stream |-> GeminiStream, count |-> GeminiCount]
      [] e = "vertex" -> [unary |-> VertexExecute, stream |-> VertexStream, count |-> VertexCount]
      [] e = "vertex-key" ->
           [unary |-> VertexKeyExecute, stream |-> VertexKeyStream, count |-> VertexKeyCount]
      [] e = "qwen" -> [unary |-> QwenExecute, stream |-> QwenStream, count |-> QwenCount]
      [] e = "openai-compat" ->
           [unary |-> CompatExecute, stream |-> CompatStream, count |-> CompatCount]
      [] e = "iflow" -> [unary |-> IFlowExecute, stream |-> IFlowStream, count |-> IFlowCount]
      [] e = "github-copilot" ->
           [unary |-> CopilotExecute, stream |-> CopilotStream, count |-> CopilotCount]
      [] e = "gemini-cli" ->
           [unary |-> GeminiCLIExecute, stream |-> GeminiCLIStream, count |-> GeminiCLICount]
      [] e = "antigravity" ->
           [unary |-> AntigravityExecute, stream |-> AntigravityStream, count |-> AntigravityCount]
      [] e = "kiro" -> [unary |-> KiroExecute, stream |-> KiroStream, count |-> KiroCount]
      [] e = "aistudio" ->
           [unary |-> AIStudioExecute, stream |-> AIStudioStream, count |-> AIStudioCount]]

ASSUME ProviderAssumption ==
  /\ Executors \subseteq DOMAIN Method
  /\ Fallbacks \in Nat \ {0} /\ MaxLines \in Nat

M(r) == Method[provider[r]][mode[r]]

ProviderInit ==
  /\ UsageInit
  /\ provider \in [Requests -> Executors]
  /\ mode \in [Requests -> Modes]
  /\ pc = [r \in Requests |-> "idle"]
  /\ attempt = [r \in Requests |-> 1]
  /\ origin \in [Requests -> {"CLI", "AI_EDITOR"}]
  /\ \A r \in Requests : provider[r] # "kiro" => origin[r] = "CLI"
  /\ answer = [r \in Requests |-> Open]
  /\ body = [r \in Requests |-> "none"]
  /\ record = [r \in Requests |-> "none"]
  /\ seen = [r \in Requests |-> FALSE]
  /\ outcome = [r \in Requests |-> Open]
  /\ lines = [r \in Requests |-> 0]

serverVars == <<usageClosed, worker, inHand, tally, enabled, context, free, written, exited>>

-----------------------------------------------------------------------------
(* The usage reporter, and the ways a method goes on or returns. *)

NoReport == UNCHANGED <<record, usageQueue>>

\* publishWithOutcome and ensurePublished: sync.Once; counting has no reporter.
Report(r, failure) ==
  IF record[r] # "none" \/ mode[r] = "count" THEN NoReport
  ELSE /\ record' = [record EXCEPT ![r] = IF failure THEN "failure" ELSE "success"]
       /\ usageQueue' = Published(<<[request |-> r, failed |-> failure]>>)

Return(r, o) ==
  /\ pc' = [pc EXCEPT ![r] = "returned"]
  /\ outcome' = [outcome EXCEPT ![r] = o]

\* With the deferred trackFailure.
Fail(r, o) == Return(r, o) /\ Report(r, TRUE)

\* The next model, base URL or try, if there is one and the method skips.
Skips(r, why) == why \in M(r).skips /\ attempt[r] < M(r).attempts

MutTryAgain(r) ==
  /\ attempt' = attempt
  /\ pc' = [pc EXCEPT ![r] = "ready"]
  /\ NoReport /\ UNCHANGED outcome

TryAgain(r) ==
  /\ attempt' = [attempt EXCEPT ![r] = @ + 1]
  /\ pc' = [pc EXCEPT ![r] = "ready"]
  /\ NoReport /\ UNCHANGED outcome

MutSkipOrFail(r, why, o) ==
  IF Skips(r, why) THEN TryAgain(r) ELSE Fail(r, OutOfAttempts) /\ UNCHANGED attempt

SkipOrFail(r, why, o) ==
  IF Skips(r, why) THEN TryAgain(r) ELSE Fail(r, o) /\ UNCHANGED attempt

-----------------------------------------------------------------------------
(* A handler serves a request, and answers when the executor is done. *)

Serve(r) ==
  /\ pc[r] = "idle"
  /\ \E x \in free :
       /\ context' = [context EXCEPT ![r] = x]
       /\ free' = free \ {x}
       /\ written' = [written EXCEPT ![x] = OK]
  /\ pc' = [pc EXCEPT ![r] = "preparing"]
  /\ UNCHANGED <<usageQueue, usageClosed, worker, inHand, tally, enabled, exited, provider, mode,
                 attempt, origin, answer, body, record, seen, outcome, lines>>

\* The status of a stream is sent with its first line.
Respond(r) ==
  /\ pc[r] = "returned"
  /\ pc' = [pc EXCEPT ![r] = "done"]
  /\ written' = [written EXCEPT ![context[r]] =
                   IF lines[r] > 0 THEN OK
                   ELSE IF outcome[r] < 0 THEN ServerError ELSE outcome[r]]
  /\ free' = free \union {context[r]}
  /\ UNCHANGED <<usageQueue, usageClosed, worker, inHand, tally, enabled, exited, context, provider,
                 mode, attempt, origin, answer, body, record, seen, outcome, lines>>

-----------------------------------------------------------------------------
(* Up to the response. *)

\* Credentials, and the methods that do not ask the provider.
Prepare(r) ==
  /\ pc[r] = "preparing"
  /\ \/ /\ M(r).local = {}
        /\ pc' = [pc EXCEPT ![r] = "ready"]
        /\ UNCHANGED outcome
     \/ M(r).early /\ Return(r, Credentials)
     \/ \E o \in M(r).local : Return(r, o)
  /\ UNCHANGED <<usageVars, provider, mode, attempt, origin, answer, body, record, seen, lines>>

\* kiro counts the tokens of the request itself before it streams.
Send(r) ==
  /\ pc[r] = "ready"
  /\ \/ /\ \E o \in M(r).late : Fail(r, o)
        /\ UNCHANGED <<attempt, answer, body, seen>>
     \/ SkipOrFail(r, "unsent", Transport) /\ UNCHANGED <<answer, body, seen>>
     \/ \E status \in {OK, 401, 429, ServerError} :
          /\ answer' = [answer EXCEPT ![r] = status]
          /\ body' = [body EXCEPT ![r] = "open"]
          /\ pc' = [pc EXCEPT ![r] = IF status # OK THEN "refused"
                                     ELSE IF mode[r] = "stream" THEN "streaming" ELSE "reading"]
          /\ seen' = [seen EXCEPT ![r] = status = OK /\ provider[r] = "kiro" /\ mode[r] = "stream"]
          /\ NoReport
          /\ UNCHANGED <<attempt, outcome>>
  /\ UNCHANGED <<serverVars, provider, mode, origin, lines>>

MutRefused(r) ==
  /\ pc[r] = "refused" /\ provider[r] # "kiro"
  /\ \/ /\ answer[r] = 429 /\ SkipOrFail(r, "busy", answer[r])
        /\ UNCHANGED body
     \/ /\ answer[r] # 429 /\ Fail(r, answer[r]) /\ UNCHANGED attempt
        /\ body' = [body EXCEPT ![r] = "closed"]
  /\ UNCHANGED <<serverVars, provider, mode, origin, answer, seen, lines>>

\* A status that is not a success: the body is read and closed.
Refused(r) ==
  /\ pc[r] = "refused" /\ provider[r] # "kiro"
  /\ body' = [body EXCEPT ![r] = "closed"]
  /\ \/ IF answer[r] = 429 THEN SkipOrFail(r, "busy", answer[r])
        ELSE Fail(r, answer[r]) /\ UNCHANGED attempt
     \/ M(r).strict /\ SkipOrFail(r, "unread", Unreadable)
  /\ UNCHANGED <<serverVars, provider, mode, origin, answer, seen, lines>>

\* kiro: a 429 on the first quota goes to the second whatever attempt it is,
\* and a 401 refreshes the token, which may fail.
KiroRefused(r) ==
  /\ pc[r] = "refused" /\ provider[r] = "kiro"
  /\ body' = [body EXCEPT ![r] = "closed"]
  /\ \/ /\ answer[r] = 429 /\ origin[r] = "CLI"
        /\ origin' = [origin EXCEPT ![r] = "AI_EDITOR"]
        /\ IF attempt[r] < M(r).attempts THEN TryAgain(r)
           ELSE Fail(r, OutOfAttempts) /\ UNCHANGED attempt
     \/ /\ answer[r] = 401 /\ attempt[r] < M(r).attempts
        /\ TryAgain(r)
        /\ UNCHANGED origin
     \/ /\ answer[r] # 429 \/ origin[r] # "CLI"
        /\ Fail(r, answer[r])
        /\ UNCHANGED <<attempt, origin>>
  /\ UNCHANGED <<serverVars, provider, mode, answer, seen, lines>>

-----------------------------------------------------------------------------
(* A response read as a whole. *)

\* The answer names its tokens or not; kiro estimates them.
Read(r) ==
  /\ pc[r] = "reading"
  /\ body' = [body EXCEPT ![r] = "closed"]
  /\ \/ provider[r] # "aistudio" /\ Fail(r, Unreadable) /\ UNCHANGED seen
     \/ (\E o \in M(r).partial : Fail(r, o)) /\ UNCHANGED seen
     \/ /\ Return(r, OK)
        /\ \E named \in {TRUE, provider[r] = "kiro"} :
             /\ seen' = [seen EXCEPT ![r] = named]
             /\ IF named \/ M(r).ensures THEN Report(r, FALSE) ELSE NoReport
  /\ UNCHANGED <<serverVars, provider, mode, attempt, origin, answer, lines>>

-----------------------------------------------------------------------------
(* A stream: ExecuteStream has returned, and its goroutine scans the body. *)

Line(r) ==
  /\ pc[r] = "streaming" /\ lines[r] < MaxLines
  /\ lines' = [lines EXCEPT ![r] = @ + 1]
  /\ \E named \in {FALSE, provider[r] # "kiro"} :
       /\ seen' = [seen EXCEPT ![r] = @ \/ named]
       /\ IF named THEN Report(r, FALSE) ELSE NoReport
  /\ UNCHANGED <<serverVars, provider, mode, pc, attempt, origin, answer, body, outcome>>

Eof(r) ==
  /\ pc[r] = "streaming"
  /\ body' = [body EXCEPT ![r] = "closed"]
  /\ Return(r, OK)
  /\ IF M(r).ensures THEN Report(r, FALSE) ELSE NoReport
  /\ UNCHANGED <<serverVars, provider, mode, attempt, origin, answer, seen, lines>>

\* kiro publishes its own count on every way out.
Break(r) ==
  /\ pc[r] = "streaming"
  /\ body' = [body EXCEPT ![r] = "closed"]
  /\ Return(r, Unreadable)
  /\ Report(r, provider[r] # "kiro")
  /\ UNCHANGED <<serverVars, provider, mode, attempt, origin, answer, seen, lines>>

Call(r) ==
  \/ Prepare(r) \/ Send(r) \/ Refused(r) \/ KiroRefused(r) \/ Read(r)
  \/ Line(r) \/ Eof(r) \/ Break(r) \/ Respond(r)

UsageActions == TakeRecord \/ CountRecord \/ StopUsage \/ Exit \/ SetEnabled

ProviderNext ==
  /\ ~exited
  /\ \/ \E r \in Requests : Serve(r) \/ Call(r)
     \/ UsageActions /\ UNCHANGED callVars

ProviderSpec == ProviderInit /\ [][ProviderNext]_providerVars

\* A call goes on (a body ends or breaks in the end), and so does the worker.
ProviderFairness ==
  /\ \A r \in Requests : WF_providerVars(~exited /\ Call(r))
  /\ WF_providerVars(UsageStep /\ UNCHANGED callVars)

ProviderFairSpec == ProviderSpec /\ ProviderFairness

-----------------------------------------------------------------------------
(* Properties *)

\* No path leaves a response open: success, refusal, another attempt or a
\* broken stream (the Close calls of every executor).
BodiesClosed ==
  \A r \in Requests : pc[r] \in {"ready", "returned", "done"} => body[r] # "open"

\* The manager's cooldowns depend on the status: when the newest answer was a
\* refusal the call tells it, unless it could not be read, another attempt
\* failed before its answer, or kiro ran out of attempts (statusErr,
\* newGeminiStatusErr).
RefusalTold ==
  \A r \in Requests :
    pc[r] \in {"returned", "done"} /\ answer[r] \notin {Open, OK}
      => \/ outcome[r] = answer[r]
         \/ outcome[r] = Unreadable /\ M(r).strict
         \/ outcome[r] \in M(r).late \union {Transport} /\ attempt[r] > 1
         \/ outcome[r] = OutOfAttempts /\ provider[r] = "kiro" /\ attempt[r] = 3

\* Every call ends, whatever is refused and however often (the loops over
\* models, base URLs and attempts).
CallsFinish == \A r \in Requests : pc[r] = "preparing" ~> pc[r] = "done" \/ exited

\* A record in the queue reaches the plugin, unless the process ends first
\* (Stop does not wait for the queue to drain).
RecordsHandled ==
  \A r \in Requests :
    (\E i \in 1..Len(usageQueue) : usageQueue[i].request = r)
      ~> exited \/ (worker = "busy" /\ inHand.request = r)
===============================================================================
