------------------------------ MODULE Credential ------------------------------
(***************************************************************************)
(* sdk/cliproxy/auth: what one execution result does to a credential       *)
(* (manager.go, MarkResult and its helpers) and when the selector lets a   *)
(* credential serve a model (selector.go).                                 *)
(*                                                                         *)
(* An Auth and each of its ModelStates carry the same availability fields, *)
(* a "hold" here.  Times are natural numbers, 0 is Go's zero time.         *)
(***************************************************************************)
EXTENDS Integers, FiniteSets, FiniteSetsExt

CONSTANTS
  Models,
  NoModel,          \* the empty model of a request that names none
  DeniedWait,       \* 30 minutes after 401, 402 and 403
  NotFoundWait,     \* 12 hours after 404
  TransientWait,    \* 1 minute after 408 and 500..504
  BackoffBase,      \* quotaBackoffBase
  BackoffMax,       \* quotaBackoffMax
  CooldownDisabled  \* SetQuotaCooldownDisabled

NoRetryAfter == -1

ASSUME CredentialAssumption ==
  /\ NoModel \notin Models /\ IsFiniteSet(Models)
  /\ {DeniedWait, NotFoundWait, TransientWait, BackoffBase, BackoffMax} \subseteq Nat \ {0}
  /\ BackoffBase <= BackoffMax
  /\ CooldownDisabled \in BOOLEAN

FailureKinds == {"denied", "not_found", "quota", "transient", "other"}
AnyModel == Models \union {NoModel}

Hold == [status: {"active", "error"}, err: BOOLEAN, unavailable: BOOLEAN,
         next: Nat, exceeded: BOOLEAN, recover: Nat, level: Nat]

\* A fresh state (ensureModelState) and a reset one (resetModelState).
Healthy == [status |-> "active", err |-> FALSE, unavailable |-> FALSE,
            next |-> 0, exceeded |-> FALSE, recover |-> 0, level |-> 0]

\* known is the domain of the ModelStates map.
Auth == [disabled: BOOLEAN, own: Hold, known: SUBSET Models,
         models: [Models -> Hold]]

NewAuth == [disabled |-> FALSE, own |-> Healthy, known |-> {},
            models |-> [m \in Models |-> Healthy]]

-----------------------------------------------------------------------------
(* Failures. *)

\* Mutant: the backoff is not capped.
MutNextQuotaCooldownUncapped(level) ==
  IF CooldownDisabled THEN [wait |-> 0, level |-> level]
  ELSE [wait |-> BackoffBase * 2^level, level |-> level + 1]

\* nextQuotaCooldown: the cooldown after the level-th quota error in a row
\* (0 when cooldowns are disabled), and the level for the next one.
NextQuotaCooldown(level) ==
  LET cooldown == BackoffBase * 2^level
  IN  IF CooldownDisabled THEN [wait |-> 0, level |-> level]
      ELSE IF cooldown >= BackoffMax THEN [wait |-> BackoffMax, level |-> level]
      ELSE [wait |-> cooldown, level |-> level + 1]

\* Mutant: the retry time keeps to the base whatever the backoff says.
MutQuotaHoldIgnoresBackoff(h, retryAfter, now) ==
  LET backoff == NextQuotaCooldown(h.level)
      recover == now + (IF retryAfter # NoRetryAfter THEN retryAfter ELSE backoff.wait)
  IN  [h EXCEPT !.next = now + BackoffBase, !.recover = recover, !.exceeded = TRUE,
                !.level = IF retryAfter # NoRetryAfter THEN h.level ELSE backoff.level]

\* A quota error: Retry-After when upstream sent one, else the backoff.
QuotaHold(h, retryAfter, now) ==
  LET backoff == NextQuotaCooldown(h.level)
      next == IF retryAfter # NoRetryAfter THEN now + retryAfter
              ELSE IF backoff.wait > 0 THEN now + backoff.wait ELSE 0
  IN  [h EXCEPT !.next = next, !.recover = next, !.exceeded = TRUE,
                !.level = IF retryAfter # NoRetryAfter THEN h.level ELSE backoff.level]

\* The state after a failure; otherNext is the retry time that a failure of
\* no known kind leaves.
FailedHold(h, kind, retryAfter, now, otherNext) ==
  LET down == [h EXCEPT !.status = "error", !.err = TRUE, !.unavailable = TRUE]
  IN  CASE kind = "denied"    -> [down EXCEPT !.next = now + DeniedWait]
        [] kind = "not_found" -> [down EXCEPT !.next = now + NotFoundWait]
        [] kind = "transient" -> [down EXCEPT !.next = now + TransientWait]
        [] kind = "quota"     -> QuotaHold(down, retryAfter, now)
        [] OTHER              -> [down EXCEPT !.next = otherNext]

-----------------------------------------------------------------------------
(* The aggregate over the models of a credential. *)

\* updateAggregatedAvailability drops an expired block on the way.
Expire(h, now) ==
  IF h.unavailable /\ h.next # 0 /\ h.next <= now
  THEN [h EXCEPT !.unavailable = FALSE, !.next = 0] ELSE h

\* The least non-zero time in S, 0 if there is none.
Earliest(S) == IF S \ {0} = {} THEN 0 ELSE Min(S \ {0})

\* Mutant: one unavailable model makes the credential unavailable.
MutAggregateAny(auth, now) ==
  LET states == [m \in Models |->
                   IF m \in auth.known THEN Expire(auth.models[m], now) ELSE auth.models[m]]
      down   == {m \in auth.known : states[m].unavailable}
  IN  [auth EXCEPT !.models = states,
                   !.own.unavailable = down # {},
                   !.own.next = Earliest({states[m].next : m \in down})]

Aggregate(auth, now) ==
  LET states == [m \in Models |->
                   IF m \in auth.known THEN Expire(auth.models[m], now) ELSE auth.models[m]]
      down   == {m \in auth.known : states[m].unavailable}
      quota  == {m \in auth.known : states[m].exceeded}
      all    == down = auth.known
  IN  [auth EXCEPT
         !.models = states,
         !.own.unavailable = all,
         !.own.next = IF all THEN Earliest({states[m].next : m \in down}) ELSE 0,
         !.own.exceeded = quota # {},
         !.own.recover = Earliest({states[m].recover : m \in quota}),
         !.own.level = IF quota = {} THEN 0 ELSE Max({states[m].level : m \in quota})]

\* A model keeps the credential in error as long as its last result failed.
HasModelError(auth, now) ==
  \E m \in auth.known :
    LET h == auth.models[m]
    IN  h.err \/ (h.status = "error" /\ h.unavailable /\ (h.next = 0 \/ h.next > now))

-----------------------------------------------------------------------------
(* The part of MarkResult that runs under m.mu. *)

MarkSuccess(auth, m, now) ==
  IF m = NoModel THEN [auth EXCEPT !.own = Healthy]
  ELSE LET reset == Aggregate([auth EXCEPT !.known = @ \union {m},
                                           !.models[m] = Healthy], now)
       IN  IF HasModelError(reset, now) THEN reset
           ELSE [reset EXCEPT !.own.err = FALSE, !.own.status = "active"]

MarkFailure(auth, m, kind, retryAfter, now) ==
  IF m = NoModel
  THEN [auth EXCEPT !.own = FailedHold(@, kind, retryAfter, now, auth.own.next)]
  ELSE Aggregate([auth EXCEPT
         !.known = @ \union {m},
         !.models[m] = FailedHold(@, kind, retryAfter, now, 0),
         !.own.err = TRUE, !.own.status = "error"], now)

-----------------------------------------------------------------------------
(* The selector's test: isAuthBlockedForModel. *)

\* The hold that decides for model m.
Deciding(auth, m) == IF m = NoModel THEN auth.own ELSE auth.models[m]

CoolingDown(auth, m, now) ==
  LET h == Deciding(auth, m) IN h.unavailable /\ h.next > now

Blocked(auth, m, now) == auth.disabled \/ CoolingDown(auth, m, now)

\* When a credential that is cooling down says it may be tried again.
BlockedUntil(auth, m, now) ==
  LET h == Deciding(auth, m) IN IF h.recover > now THEN h.recover ELSE h.next
=============================================================================
