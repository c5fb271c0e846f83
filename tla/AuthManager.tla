----------------------------- MODULE AuthManager -----------------------------
(***************************************************************************)
(* sdk/cliproxy/auth/manager.go: concurrent requests against one Manager.  *)
(* A request walks the providers of its model, picks credentials with the  *)
(* round-robin selector, executes upstream, records the result and, when   *)
(* every provider failed, may wait for a cooldown and start over.          *)
(*                                                                         *)
(* One step per critical section: m.mu for a pick and for the state part   *)
(* of MarkResult, the registry's mutex for each of the calls MarkResult    *)
(* makes after it has released m.mu.                                       *)
(***************************************************************************)
EXTENDS Credential, Sequences, SequencesExt

CONSTANTS
  Auths,          \* credential IDs, naturals so that they can be sorted
  Providers,
  NoProvider,
  Provider,       \* Auth.Provider of each credential
  Reqs,           \* concurrent requests (goroutines)
  ProviderLists,  \* the provider lists a request may be given
  RequestModels,  \* the models requests name
  Kinds,          \* subset of {"unary", "stream"}: Execute and ExecuteStream
  Failures,       \* the failure kinds upstream may answer with
  RetryAfters,    \* the Retry-After values upstream may send
  Retry,          \* requestRetry
  MaxWait,        \* maxRetryInterval
  CursorMax,      \* bound: where the selector's cursor wraps (2147483640)
  MaxNow          \* bound: the last instant at which a request may begin

ASSUME AuthManagerAssumption ==
  /\ Auths \subseteq Nat /\ IsFiniteSet(Auths)
  /\ Provider \in [Auths -> Providers]
  /\ Kinds \subseteq {"unary", "stream"}
  /\ Failures \subseteq FailureKinds
  /\ RequestModels \subseteq AnyModel
  /\ RetryAfters \subseteq Nat \union {NoRetryAfter} /\ IsFiniteSet(RetryAfters)
  /\ Retry \in Nat /\ MaxWait \in Nat /\ CursorMax \in Nat \ {0} /\ MaxNow \in Nat

VARIABLES
  auths,     \* m.auths
  cursors,   \* RoundRobinSelector.cursors, by provider and model
  offsets,   \* m.providerOffsets, by model
  reqs,      \* the requests in flight
  now,       \* the clock
  models, clientModels, clientProviders   \* the global registry

Registry == INSTANCE ModelRegistry WITH Clients <- Auths, MaxDup <- 1

registryVars == <<models, clientModels, clientProviders>>
vars == <<auths, cursors, offsets, reqs, now, registryVars>>

-----------------------------------------------------------------------------
NoAuth == 0
ASSUME NoAuthAssumption == NoAuth \notin Auths

\* at is the provider being tried; ops are the registry calls MarkResult has
\* still to make and then the place the request goes on to after them.
Idle == [pc |-> "idle", kind |-> "unary", model |-> NoModel, providers |-> <<>>,
         at |-> 1, attempt |-> 0, tried |-> {}, auth |-> NoAuth, until |-> 0,
         ops |-> <<>>, then |-> "idle"]

Init ==
  /\ auths = [a \in Auths |-> NewAuth]
  /\ cursors = [p \in Providers |-> [m \in AnyModel |-> 0]]
  /\ offsets = [m \in AnyModel |-> 0]
  /\ reqs = [r \in Reqs |-> Idle]
  /\ now = 1
  /\ clientModels = [a \in Auths |-> [m \in Models |-> 1]]
  /\ clientProviders = Provider
  /\ models = [m \in Models |-> [Registry!NoRegistration EXCEPT
       !.count = Cardinality(Auths),
       !.providers = [p \in Providers |-> Cardinality({a \in Auths : Provider[a] = p})]]]

\* Every credential of a provider the registry lists for the model.
Supports(a, m) == m = NoModel \/ Registry!Supports(a, m)

Rotate(s, n) == SubSeq(s, n + 1, Len(s)) \o SubSeq(s, 1, n)

\* rotateProviders reads the offset; it is advanced only when the call returns.
Begin(r) ==
  /\ reqs[r].pc = "idle"
  /\ now <= MaxNow
  /\ \E m \in RequestModels, k \in Kinds, ps \in ProviderLists :
       reqs' = [reqs EXCEPT ![r] = [Idle EXCEPT
         !.pc = "pick", !.kind = k, !.model = m,
         !.providers = Rotate(ps, offsets[m] % Len(ps))]]
  /\ UNCHANGED <<auths, cursors, offsets, now, registryVars>>

Candidates(q) ==
  {a \in Auths : /\ Provider[a] = q.providers[q.at]
                 /\ ~auths[a].disabled
                 /\ a \notin q.tried
                 /\ Supports(a, q.model)}

\* Mutant: the credentials this pass already tried are candidates again.
MutAvailableIgnoresTried(q) ==
  {a \in Auths : /\ Provider[a] = q.providers[q.at]
                 /\ Supports(a, q.model)
                 /\ ~Blocked(auths[a], q.model, now)}

Available(q) == {a \in Candidates(q) : ~Blocked(auths[a], q.model, now)}

\* The members of a set of IDs, sorted.
Sorted(S) ==
  CHOOSE ids \in [1..Cardinality(S) -> S] : \A i, j \in DOMAIN ids : i < j => ids[i] < ids[j]

\* pickNext and RoundRobinSelector.Pick: the available credentials in the
\* order of their IDs, at the cursor of the provider and model.
Pick(r) ==
  LET q == reqs[r]
      p == q.providers[q.at]
      ids == Sorted(Available(q))
      index == IF cursors[p][q.model] >= CursorMax THEN 0 ELSE cursors[p][q.model]
      chosen == ids[(index % Cardinality(Available(q))) + 1]
  IN  /\ q.pc = "pick"
      /\ Available(q) # {}
      /\ cursors' = [cursors EXCEPT ![p][q.model] = index + 1]
      /\ reqs' = [reqs EXCEPT ![r] =
           [q EXCEPT !.pc = "exec", !.auth = chosen, !.tried = @ \union {chosen}]]
      /\ UNCHANGED <<auths, offsets, now, registryVars>>

\* No credential left with this provider: on to the next, or to the retry
\* decision when it was the last.
PickFails(r) ==
  LET q == reqs[r]
  IN  /\ q.pc = "pick"
      /\ Available(q) = {}
      /\ reqs' = [reqs EXCEPT ![r] =
           IF q.at < Len(q.providers)
           THEN [q EXCEPT !.at = @ + 1, !.tried = {}]
           ELSE [q EXCEPT !.pc = "decide"]]
      /\ UNCHANGED <<auths, cursors, offsets, now, registryVars>>

-----------------------------------------------------------------------------
(* MarkResult. *)

\* Mutant: a success leaves the suspension to the next registration.
MutSuccessOpsForgets(m) == IF m = NoModel THEN <<>> ELSE <<"clear">>

\* The registry calls that follow, in the order MarkResult makes them.
SuccessOps(m) == IF m = NoModel THEN <<>> ELSE <<"clear", "resume">>
FailureOps(m, kind) ==
  IF m = NoModel THEN <<>>
  ELSE CASE kind = "quota"                  -> <<"set", "suspend_quota">>
         [] kind \in {"denied", "not_found"} -> <<"suspend_other">>
         [] OTHER                           -> <<>>

Marked(q, ops, next) ==
  [q EXCEPT !.pc = IF ops = <<>> THEN next ELSE "ops", !.ops = ops, !.then = next]

RecordSuccess(r, next) ==
  LET q == reqs[r]
  IN  /\ auths' = [auths EXCEPT ![q.auth] = MarkSuccess(@, q.model, now)]
      /\ reqs' = [reqs EXCEPT ![r] = Marked(q, SuccessOps(q.model), next)]

RecordFailure(r, kind, retryAfter, next) ==
  LET q == reqs[r]
  IN  /\ auths' = [auths EXCEPT ![q.auth] = MarkFailure(@, q.model, kind, retryAfter, now)]
      /\ reqs' = [reqs EXCEPT ![r] = Marked(q, FailureOps(q.model, kind), next)]

\* One registry call, under the registry's own lock.
RegistryOp(r) ==
  LET q == reqs[r]
      op == Head(q.ops)
      rest == Tail(q.ops)
  IN  /\ q.pc = "ops"
      /\ \/ op = "clear" /\ Registry!ClearModelQuotaExceeded(q.auth, q.model)
         \/ op = "set" /\ Registry!SetModelQuotaExceeded(q.auth, q.model)
         \/ op = "resume" /\ Registry!ResumeClientModel(q.auth, q.model)
         \/ op = "suspend_quota" /\ Registry!SuspendClientModel(q.auth, q.model, "quota")
         \/ op = "suspend_other" /\ Registry!SuspendClientModel(q.auth, q.model, "other")
      /\ reqs' = [reqs EXCEPT ![r] = Marked(q, rest, q.then)]
      /\ UNCHANGED <<auths, cursors, offsets, now>>

-----------------------------------------------------------------------------
(* Execution. *)

\* The executor answered: an error is recorded and the pass goes on to the
\* next credential.
ExecFails(r) ==
  /\ reqs[r].pc = "exec"
  /\ \E kind \in Failures, ra \in RetryAfters : RecordFailure(r, kind, ra, "pick")
  /\ UNCHANGED <<cursors, offsets, now, registryVars>>

ExecSucceeds(r) ==
  /\ reqs[r].pc = "exec" /\ reqs[r].kind = "unary"
  /\ RecordSuccess(r, "return")
  /\ UNCHANGED <<cursors, offsets, now, registryVars>>

Advanced(q) ==
  [offsets EXCEPT ![q.model] = (@ + 1) % Len(q.providers)]

\* ExecuteStream returns as soon as the stream is open; the goroutine that
\* relays the chunks records the result when the stream ends.
StreamOpens(r) ==
  /\ reqs[r].pc = "exec" /\ reqs[r].kind = "stream"
  /\ reqs' = [reqs EXCEPT ![r].pc = "stream"]
  /\ offsets' = Advanced(reqs[r])
  /\ UNCHANGED <<auths, cursors, now, registryVars>>

StreamEnds(r) ==
  /\ reqs[r].pc = "stream"
  /\ RecordSuccess(r, "idle")
  /\ UNCHANGED <<cursors, offsets, now, registryVars>>

\* An error chunk carries no Retry-After into the result.
StreamFails(r) ==
  /\ reqs[r].pc = "stream"
  /\ \E kind \in Failures : RecordFailure(r, kind, NoRetryAfter, "idle")
  /\ UNCHANGED <<cursors, offsets, now, registryVars>>

\* The reader of the stream is gone: the relaying goroutine stays blocked on
\* its unbuffered channel and nothing is ever recorded.
StreamAbandoned(r) ==
  /\ reqs[r].pc = "stream"
  /\ reqs' = [reqs EXCEPT ![r] = Idle]
  /\ UNCHANGED <<auths, cursors, offsets, now, registryVars>>

-----------------------------------------------------------------------------
(* Retrying. *)

\* closestCooldownWait: how long until each cooling credential of the
\* providers recovers, whether or not it supports the model.
CooldownWaits(q) ==
  {BlockedUntil(auths[a], q.model, now) - now : a \in
     {b \in Auths : /\ Provider[b] \in Range(q.providers)
                    /\ ~auths[b].disabled
                    /\ CoolingDown(auths[b], q.model, now)}}

\* Mutant: the last attempt retries too.
MutMayRetryForever(q) ==
  /\ MaxWait > 0
  /\ CooldownWaits(q) # {}
  /\ Min(CooldownWaits(q)) <= MaxWait

MayRetry(q) ==
  /\ q.attempt < Retry
  /\ MaxWait > 0
  /\ CooldownWaits(q) # {}
  /\ Min(CooldownWaits(q)) <= MaxWait

Decide(r) ==
  LET q == reqs[r]
  IN  /\ q.pc = "decide"
      /\ reqs' = [reqs EXCEPT ![r] =
           IF MayRetry(q)
           THEN [q EXCEPT !.pc = "wait", !.until = now + Min(CooldownWaits(q))]
           ELSE [q EXCEPT !.pc = "return"]]
      /\ UNCHANGED <<auths, cursors, offsets, now, registryVars>>

\* The timer of waitForCooldown fires: a new pass over all the providers.
WaitEnds(r) ==
  /\ reqs[r].pc = "wait" /\ now >= reqs[r].until
  /\ reqs' = [reqs EXCEPT ![r] =
       [reqs[r] EXCEPT !.pc = "pick", !.at = 1, !.tried = {}, !.until = 0,
                       !.attempt = @ + 1]]
  /\ UNCHANGED <<auths, cursors, offsets, now, registryVars>>

\* The caller's context ends during the wait.
WaitCancelled(r) ==
  /\ reqs[r].pc = "wait"
  /\ reqs' = [reqs EXCEPT ![r].pc = "return"]
  /\ UNCHANGED <<auths, cursors, offsets, now, registryVars>>

\* The deferred advanceProviderCursor.
Return(r) ==
  /\ reqs[r].pc = "return"
  /\ offsets' = Advanced(reqs[r])
  /\ reqs' = [reqs EXCEPT ![r] = Idle]
  /\ UNCHANGED <<auths, cursors, now, registryVars>>

-----------------------------------------------------------------------------
\* Beyond MaxNow the clock runs only for the requests still waiting.
Tick ==
  /\ \/ now < MaxNow
     \/ \E r \in Reqs : reqs[r].pc = "wait" /\ now < reqs[r].until
  /\ now' = now + 1
  /\ UNCHANGED <<auths, cursors, offsets, reqs, registryVars>>

\* Steps of the program once a request has begun.
Step(r) ==
  \/ Pick(r) \/ PickFails(r) \/ RegistryOp(r)
  \/ ExecFails(r) \/ ExecSucceeds(r) \/ StreamOpens(r)
  \/ StreamEnds(r) \/ StreamFails(r)
  \/ Decide(r) \/ WaitEnds(r) \/ Return(r)

Next ==
  \/ Tick
  \/ \E r \in Reqs : Begin(r) \/ Step(r) \/ StreamAbandoned(r) \/ WaitCancelled(r)

Spec == Init /\ [][Next]_vars

\* Upstream answers, goroutines are scheduled and timers fire.
FairSpec == Spec /\ WF_vars(Tick) /\ \A r \in Reqs : WF_vars(Step(r))

-----------------------------------------------------------------------------
(* Properties. *)

Request ==
  [pc: {"idle", "pick", "exec", "ops", "stream", "decide", "wait", "return"},
   kind: Kinds \union {"unary"}, model: AnyModel,
   providers: {<<>>} \union
     UNION {{Rotate(ps, n) : n \in 0..Len(ps) - 1} : ps \in ProviderLists},
   at: Nat, attempt: 0..Retry, tried: SUBSET Auths,
   auth: Auths \union {NoAuth}, until: Nat,
   ops: Seq({"clear", "set", "resume", "suspend_quota", "suspend_other"}),
   then: {"idle", "pick", "return"}]

TypeOK ==
  /\ auths \in [Auths -> Auth]
  /\ cursors \in [Providers -> [AnyModel -> 0..CursorMax]]
  /\ offsets \in [AnyModel -> Nat]
  /\ reqs \in [Reqs -> Request]
  /\ now \in Nat
  /\ Registry!TypeOK

\* However results of several models interleave, a credential that the
\* aggregate declares unavailable until some time has no model that could
\* serve before that time (no request here leaves the model out).
AggregateSound ==
  \A a \in Auths :
    auths[a].own.unavailable =>
      \A m \in auths[a].known :
        LET h == auths[a].models[m]
        IN  h.unavailable /\ (h.next = 0 \/ h.next >= auths[a].own.next)

LongestWait == Max({DeniedWait, NotFoundWait, TransientWait, BackoffMax} \union RetryAfters)

\* No sequence of failures, of one request or of many, locks a credential
\* out for longer than the longest single wait: the backoff is capped.
NoLockout ==
  \A a \in Auths : \A m \in AnyModel :
    CoolingDown(auths[a], m, now) =>
      /\ Deciding(auths[a], m).next <= now + LongestWait
      /\ BlockedUntil(auths[a], m, now) <= now + LongestWait

Settled == \A r \in Reqs : reqs[r].pc # "ops"

\* When one request runs at a time, the registry's marks follow the
\* credential: none on a healthy model, a suspension on one over quota.
RegistryAgrees ==
  Settled =>
    \A a \in Auths, m \in Models :
      LET h == auths[a].models[m]
      IN  /\ ~h.err => models[m].suspended[a] = "none" /\ models[m].quota[a] = "none"
          /\ h.exceeded => models[m].suspended[a] # "none"

\* A credential over quota is not used again before the time it is said to
\* recover: "NextRecoverAt is when the credential may become available again".
RecoverRespected ==
  [][\A r \in Reqs : Pick(r) =>
       LET h == Deciding(auths[reqs'[r].auth], reqs[r].model)
       IN  ~(h.exceeded /\ h.recover > now)]_vars

HealthyClient(m) ==
  \E a \in Auths : Supports(a, m) /\ ~auths[a].disabled /\ ~auths[a].models[m].err

\* "GetAvailableModels returns all models that have at least one available
\* client": a model some credential serves without error is listed.
HealthyListed ==
  Settled => \A m \in Models : HealthyClient(m) => Registry!Listed(m)

\* "GetModelCount returns the number of available clients": it is not 0 for
\* a model some credential serves without error.
HealthyCounted ==
  Settled => \A m \in Models : HealthyClient(m) => Registry!GetModelCount(m) > 0

\* Every request comes to its end: a pass tries each credential once, the
\* passes are bounded, and so is every wait between them.
Termination == \A r \in Reqs : reqs[r].pc # "idle" ~> reqs[r].pc = "idle"
=============================================================================
