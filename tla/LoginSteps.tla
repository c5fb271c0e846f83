------------------------------ MODULE LoginSteps ------------------------------
(***************************************************************************)
(* What the logins of each provider make of what comes back: the callback  *)
(* of the browser, the answers of the token, profile and project services, *)
(* the polls of a device flow.  Logins runs these steps.  A code stands    *)
(* for the login whose browser was given it, as does a state.              *)
(***************************************************************************)
EXTENDS Naturals, Sequences, SequencesExt

NoCode == "no code"
NoState == "no state"
Callback(code, state, error) == [code |-> code, state |-> state, error |-> error]

\* What is read of a file that is only half written: json.Unmarshal fails.
Unreadable == Callback(NoCode, NoState, FALSE)

-----------------------------------------------------------------------------
(* The waiting goroutines of the management API: may login l exchange the  *)
(* code of this callback?                                                  *)

\* Mutant: whose state it is does not matter.
MutRequestAnthropicToken(got, l) == ~got.error

RequestAnthropicToken(got, l) == ~got.error /\ got.state = l
RequestCodexToken(got, l) == ~got.error /\ got.state = l
RequestGeminiCLIToken(got, l) == ~got.error /\ got.code # NoCode
RequestAntigravityToken(got, l) ==
  ~got.error /\ got.state \in {NoState, l} /\ got.code # NoCode
RequestIFlowToken(got, l) == ~got.error /\ got.state = l /\ got.code # NoCode

-----------------------------------------------------------------------------
(* The callback servers of the command line, and the logins behind them.   *)

Refusal == Callback(NoCode, NoState, TRUE)

\* handleCallback of each server: what it hands over.
ClaudeServer(got) ==
  IF got.error \/ got.code = NoCode \/ got.state = NoState THEN Refusal ELSE got
CodexServer(got) ==
  IF got.error \/ got.code = NoCode \/ got.state = NoState THEN Refusal ELSE got
IFlowServer(got) == IF got.error \/ got.code = NoCode THEN Refusal ELSE got
GeminiServer(got) == IF got.error \/ got.code = NoCode THEN Refusal ELSE got
AntigravityServer(got) == got
KiroServer(got) == got

\* Mutant: the state is not compared.
MutClaudeLogin(got, l) == ~got.error

ClaudeLogin(got, l) == ~got.error /\ got.state = l
CodexLogin(got, l) == ~got.error /\ got.state = l
IFlowLogin(got, l) == ~got.error /\ got.state = l
AntigravityLogin(got, l) == ~got.error /\ got.state = l /\ got.code # NoCode
GeminiLogin(got) == ~got.error
KiroSocialLogin(got, l) == ~got.error /\ got.state = l /\ got.code # NoCode

-----------------------------------------------------------------------------
(* The services.  An answer says whether a token is granted, whether the   *)
(* profile service answers and names the account, and whether the last     *)
(* service asked says yes.                                                 *)

Answer == [token : BOOLEAN, profile : BOOLEAN, named : BOOLEAN, last : BOOLEAN]

\* What the record is called: after the account, the same for everyone whose
\* account has no name, or new each time.
Failed == "failed"
Named == "named"
Nameless == "nameless"
Fresh == "fresh"
NameOr(answer, otherwise) == IF answer.named THEN Named ELSE otherwise

\* Claude and Codex tell the account with the token.
AnthropicExchange(answer) ==
  IF answer.token THEN NameOr(answer, Nameless) ELSE Failed
CodexExchange(answer) ==
  IF answer.token THEN NameOr(answer, Nameless) ELSE Failed
ClaudeTokens(answer) == answer.token
CodexTokens(answer) == answer.token
ClaudeLoginExchange(answer) ==
  IF ClaudeTokens(answer) THEN NameOr(answer, Failed) ELSE Failed
CodexLoginExchange(answer) ==
  IF CodexTokens(answer) THEN NameOr(answer, Failed) ELSE Failed

\* The Google profile is required for Gemini, its name is not.
GeminiExchange(answer) ==
  IF answer.token /\ answer.profile THEN NameOr(answer, Nameless) ELSE Failed
GeminiTokenStorage(answer) ==
  IF answer.profile THEN NameOr(answer, Nameless) ELSE Failed
GeminiLoginExchange(answer) ==
  IF answer.token THEN GeminiTokenStorage(answer) ELSE Failed

\* Antigravity: the management API requires the profile, the command line does
\* not; the project (the last service) is optional for both.
AntigravityExchange(answer) ==
  IF answer.token /\ answer.profile THEN NameOr(answer, Nameless) ELSE Failed
AntigravityCode(answer) == answer.token
AntigravityUser(answer) == answer.profile /\ answer.named
AntigravityLoginExchange(answer) ==
  IF ~AntigravityCode(answer) THEN Failed
  ELSE IF AntigravityUser(answer) THEN Named ELSE Nameless

\* iFlow: the profile must name the account and give an API key.
IFlowProfile(answer) == answer.profile /\ answer.last
IFlowTokens(answer) ==
  IF answer.token /\ IFlowProfile(answer) THEN NameOr(answer, Failed) ELSE Failed

\* With a cookie: the key's info, then a new key under the name it has.
IFlowKeyInfo(answer) == answer.profile
IFlowNewKey(answer) == answer.named /\ answer.last
IFlowCookie(answer) ==
  IF IFlowKeyInfo(answer) /\ IFlowNewKey(answer) THEN Named ELSE Failed

\* Qwen tells no name: the management API makes one up, the command line asks
\* for it and fails without.
QwenExchange == Fresh
QwenLoginExchange(answer) == NameOr(answer, Failed)

\* Copilot: a user without a name is "unknown", one without access is refused.
CopilotUser(answer) == IF answer.profile /\ answer.named THEN Named ELSE Nameless
CopilotAccess(answer) == answer.last
CopilotLoginExchange(answer) ==
  IF CopilotAccess(answer) THEN CopilotUser(answer) ELSE Failed

\* Kiro: the e-mail of the token, else the profile, else the time of day.
KiroProfileArn(answer) == answer.profile
extractKiroIdentifier(named, arn) == IF named \/ arn THEN Named ELSE Fresh
KiroBuilderExchange(answer) ==
  extractKiroIdentifier(answer.named, KiroProfileArn(answer))
KiroSocialToken(answer) == answer.token
KiroSocialExchange(answer) ==
  IF KiroSocialToken(answer)
  THEN extractKiroIdentifier(answer.named, answer.profile) ELSE Failed
KiroImport(answer) ==
  IF answer.token THEN extractKiroIdentifier(answer.named, answer.profile) ELSE Failed

-----------------------------------------------------------------------------
(* Device flows: what is made of one poll. *)

PollAnswers == {"granted", "pending", "slow_down", "denied", "expired", "unreachable"}

\* A transport error counts as "not yet" with Qwen only.
QwenPoll(answer) ==
  CASE answer = "granted" -> "granted"
    [] answer \in {"pending", "slow_down", "unreachable"} -> "again"
    [] OTHER -> "failed"
CopilotDeviceToken(answer) == answer
CopilotPoll(answer) ==
  CASE CopilotDeviceToken(answer) = "granted" -> "granted"
    [] CopilotDeviceToken(answer) \in {"pending", "slow_down"} -> "again"
    [] OTHER -> "failed"
KiroToken(answer) == IF answer \in {"denied", "expired"} THEN "refused" ELSE answer
KiroPoll(answer) ==
  CASE KiroToken(answer) = "granted" -> "granted"
    [] KiroToken(answer) \in {"pending", "slow_down"} -> "again"
    [] OTHER -> "failed"

\* Before the first poll: the device code, and Kiro's registration as a client.
QwenDeviceFlow(answer) == answer.token
CopilotDeviceCode(answer) == answer.token
KiroClient(answer) == answer.profile
KiroDeviceAuthorization(answer) == answer.token
KiroDeviceFlow(answer) == KiroClient(answer) /\ KiroDeviceAuthorization(answer)

-----------------------------------------------------------------------------
(* Gemini: which Google Cloud projects a login sets up.  The user wishes   *)
(* for one, for "ALL" or for none in particular; the account has listed.   *)

All == "ALL"
NoWish == "no wish"
NoneToSetUp == {}

\* The management API asks for the list only if it needs it.
onboardAllGeminiProjects(listed) == {listed} \ {<<>>}
ensureGeminiProjectAndOnboard(wish, listed) ==
  IF wish # NoWish THEN {<<wish>>}
  ELSE IF listed = <<>> THEN NoneToSetUp ELSE {<<Head(listed)>>}
ProjectsOfRequest(wish, listed) ==
  IF wish = All THEN onboardAllGeminiProjects(listed)
  ELSE ensureGeminiProjectAndOnboard(wish, listed)

\* The command line prompts for what is not decided by the wish.
promptForProjectSelection(wish, listed) ==
  IF listed = <<>> THEN {wish}
  ELSE IF wish = All \/ wish \in ToSet(listed) THEN {wish}
  ELSE ToSet(listed) \union {All}
resolveProjectSelections(selection, listed) ==
  CASE selection = NoWish -> <<>>
    [] selection = All -> listed
    [] OTHER -> <<selection>>
ProjectsOfLogin(wish, listed) ==
  {resolveProjectSelections(s, listed) : s \in promptForProjectSelection(wish, listed)} \ {<<>>}

\* Setting up one project: its code assist is loaded, then the user onboarded
\* until that is done.  The same code stands in both places.
SetupAnswers == {"refused", "pending", "done"}
performGeminiCLISetup(answer) ==
  CASE answer = "done" -> "granted" [] answer = "pending" -> "again" [] OTHER -> "failed"
performLoginSetup(answer) ==
  CASE answer = "done" -> "granted" [] answer = "pending" -> "again" [] OTHER -> "failed"

\* Mutant: an API that cannot be enabled counts as enabled.
MutCheckCloudAPIIsEnabled(state, enabling) == state # "unreachable"

\* The project's API is enabled already, or becomes so.
ApiStates == {"enabled", "disabled", "unreachable"}
EnableAnswers == {"ok", "already enabled", "refused"}
checkCloudAPIIsEnabled(state, enabling) ==
  state # "unreachable" /\ (state = "enabled" \/ enabling # "refused")
checkLoginAPIIsEnabled(state, enabling) ==
  state # "unreachable" /\ (state = "enabled" \/ enabling # "refused")
=============================================================================
