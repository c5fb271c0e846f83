-------------------------- MODULE AuthManagerProofs --------------------------
(***************************************************************************)
(* Proofs about AuthManager, for any credentials, models, waits, requests  *)
(* and failures: no credential is locked out for longer than the longest   *)
(* single wait, and what a credential says of itself as a whole is true of *)
(* its models.  A credential over quota rests until it recovers, and the   *)
(* registry's marks follow the credential, each while what it depends on   *)
(* holds (Separate, OnlyQuota, Apart).                                     *)
(***************************************************************************)
EXTENDS AuthManager, FiniteSetTheorems, WellFoundedInduction, TLAPS

-----------------------------------------------------------------------------
(* Finite sets of times have a least and a greatest member. *)

\* Sets of numbers are compared by what they lack: a set without a greatest
\* member would have a smaller subset without one.
LEMMA GreatestExists ==
  ASSUME NEW S \in SUBSET Int, IsFiniteSet(S), S # {}
  PROVE  \E x \in S : \A y \in S : x >= y
<1> DEFINE Bad == {X \in FiniteSubsetsOf(S) : X # {} /\ ~\E x \in X : \A y \in X : x >= y}
<1>1. SUFFICES ASSUME S \in Bad PROVE FALSE
  BY DEF FiniteSubsetsOf
<1>2. PICK X \in Bad : \A Y \in Bad : ~(<<Y, X>> \in StrictSubsetOrdering(S))
  <2>1. Bad \subseteq FiniteSubsetsOf(S) /\ Bad # {}
    BY <1>1
  <2> HIDE DEF Bad
  <2> QED
    BY <2>1, WFMin, FS_StrictSubsetOrderingWellFounded
<1>3. /\ X \subseteq S /\ IsFiniteSet(X) /\ X # {}
      /\ ~\E x \in X : \A y \in X : x >= y
  BY DEF FiniteSubsetsOf
<1>4. PICK x \in X : TRUE
  BY <1>3
<1>5. IsFiniteSet(X \ {x})
  BY <1>3, FS_RemoveElement
<1>6. X \ {x} \notin Bad
  <2>1. <<X \ {x}, X>> \in StrictSubsetOrdering(S)
    BY <1>3, <1>4 DEF StrictSubsetOrdering
  <2> QED
    BY <1>2, <2>1
<1>7. X \ {x} # {} => \E z \in X \ {x} : \A y \in X \ {x} : z >= y
  BY <1>3, <1>5, <1>6 DEF FiniteSubsetsOf
<1> QED
  BY <1>3, <1>4, <1>7

LEMMA ImageFinite ==
  ASSUME NEW S, IsFiniteSet(S), NEW f
  PROVE  IsFiniteSet({f[x] : x \in S})
<1> DEFINE g == [x \in S |-> f[x]]
           T == {f[x] : x \in S}
<1>1. g \in Surjection(S, T)
  BY DEF Surjection
<1> QED
  BY <1>1, FS_Surjection

LEMMA LeastExists ==
  ASSUME NEW S \in SUBSET Int, IsFiniteSet(S), S # {}
  PROVE  \E x \in S : \A y \in S : x <= y
<1> DEFINE Minus == {-x : x \in S}
<1>1. IsFiniteSet(Minus) /\ Minus \in SUBSET Int /\ Minus # {}
  <2> DEFINE minus == [x \in S |-> -x]
  <2>1. Minus = {minus[x] : x \in S}
    OBVIOUS
  <2>2. IsFiniteSet({minus[x] : x \in S})
    <3> HIDE DEF minus
    <3> QED
      BY ImageFinite
  <2>3. Minus \in SUBSET Int /\ Minus # {}
    <3>1. \A x \in S : -x \in Int /\ -x \in Minus
      OBVIOUS
    <3> QED
      BY <3>1
  <2> QED
    BY ONLY <2>1, <2>2, <2>3
<1>2. PICK z \in Minus : \A y \in Minus : z >= y
  <2> HIDE DEF Minus
  <2> QED
    BY <1>1, GreatestExists
<1>3. PICK x \in S : z = -x
  OBVIOUS
<1>4. \A y \in S : -x >= -y
  BY <1>2, <1>3
<1>5. x \in Int /\ \A y \in S : y \in Int
  OBVIOUS
<1> QED
  BY <1>4, <1>5

LEMMA EarliestIsLeast ==
  ASSUME NEW S \in SUBSET Int, IsFiniteSet(S)
  PROVE  /\ Earliest(S) \in S \union {0}
         /\ \A t \in S : t # 0 => Earliest(S) <= t
<1>1. CASE S \ {0} = {}
  BY <1>1 DEF Earliest
<1>2. CASE S \ {0} # {}
  <2>1. S \ {0} \in SUBSET Int /\ IsFiniteSet(S \ {0})
    BY FS_RemoveElement
  <2>2. /\ Min(S \ {0}) \in S \ {0}
        /\ \A t \in S \ {0} : Min(S \ {0}) <= t
    BY <1>2, <2>1, LeastExists DEF Min
  <2> QED
    BY <1>2, <2>2 DEF Earliest
<1> QED
  BY <1>1, <1>2

LEMMA MaxIsGreatest ==
  ASSUME NEW S \in SUBSET Int, IsFiniteSet(S), S # {}
  PROVE  Max(S) \in S /\ \A t \in S : t <= Max(S)
<1>1. Max(S) \in S /\ \A t \in S : Max(S) >= t
  BY GreatestExists DEF Max
<1> QED
  BY <1>1

-----------------------------------------------------------------------------
(* No lockout: every time a hold keeps lies within the longest wait. *)

HoldFields == [status : {"active", "error"}, err : BOOLEAN, unavailable : BOOLEAN,
               next : Int, exceeded : BOOLEAN, recover : Int, level : Nat]
AuthFields == [disabled : BOOLEAN, own : HoldFields, known : SUBSET Models,
               models : [Models -> HoldFields]]

\* Nothing h says lies beyond t.
HoldWithin(h, t) == h \in HoldFields /\ h.next <= t /\ h.recover <= t
AuthWithin(auth, t) ==
  /\ auth \in AuthFields
  /\ HoldWithin(auth.own, t)
  /\ \A m \in Models : HoldWithin(auth.models[m], t)

LEMMA WaitsBounded ==
  /\ LongestWait \in Nat
  /\ \A w \in {DeniedWait, NotFoundWait, TransientWait, BackoffMax} \union RetryAfters :
       w \in Int /\ w <= LongestWait
<1> DEFINE Waits == {DeniedWait, NotFoundWait, TransientWait, BackoffMax} \union RetryAfters
<1>1. Waits \in SUBSET Int /\ DeniedWait \in Waits /\ DeniedWait \in Nat
  <2>1. /\ DeniedWait \in Nat /\ NotFoundWait \in Nat
        /\ TransientWait \in Nat /\ BackoffMax \in Nat
    BY CredentialAssumption
  <2>2. RetryAfters \subseteq Int
    BY AuthManagerAssumption DEF NoRetryAfter
  <2>3. \A w \in Waits : w \in Int
    BY <2>1, <2>2
  <2> QED
    BY <2>1, <2>3
<1>2. IsFiniteSet(Waits)
  <2>1. IsFiniteSet({DeniedWait} \union {NotFoundWait})
    BY FS_Singleton, FS_Union
  <2>2. IsFiniteSet({TransientWait} \union {BackoffMax})
    BY FS_Singleton, FS_Union
  <2>3. IsFiniteSet(({DeniedWait} \union {NotFoundWait}) \union ({TransientWait} \union {BackoffMax}))
    BY <2>1, <2>2, FS_Union
  <2>4. IsFiniteSet((({DeniedWait} \union {NotFoundWait}) \union ({TransientWait} \union {BackoffMax}))
                      \union RetryAfters)
    BY <2>3, FS_Union, AuthManagerAssumption
  <2>5. Waits = (({DeniedWait} \union {NotFoundWait}) \union ({TransientWait} \union {BackoffMax}))
                  \union RetryAfters
    OBVIOUS
  <2> QED
    BY ONLY <2>4, <2>5
<1> HIDE DEF Waits
<1>3. Max(Waits) \in Waits /\ \A w \in Waits : w <= Max(Waits)
  BY <1>1, <1>2, MaxIsGreatest
<1>4. LongestWait = Max(Waits)
  BY DEF LongestWait, Waits
<1>5. \A w \in Waits : w \in Int /\ w <= LongestWait
  BY ONLY <1>1, <1>3, <1>4
<1>6. LongestWait \in Int /\ DeniedWait <= LongestWait
  BY ONLY <1>1, <1>3, <1>4, <1>5
<1>7. LongestWait \in Nat
  BY ONLY <1>1, <1>6
<1> QED
  BY <1>5, <1>7 DEF Waits

LEMMA PowerIsInteger == \A n \in Nat : 2^n \in Int
BY Z3

LEMMA CooldownBounded ==
  ASSUME NEW level \in Nat
  PROVE  /\ NextQuotaCooldown(level).wait \in Int
         /\ NextQuotaCooldown(level).wait <= LongestWait
         /\ NextQuotaCooldown(level).level \in Nat
<1>1. BackoffBase * 2^level \in Int
  <2>1. 2^level \in Int /\ BackoffBase \in Int
    BY PowerIsInteger, CredentialAssumption
  <2> QED
    BY ONLY <2>1
<1> DEFINE cooldown == BackoffBase * 2^level
<1>2. /\ BackoffMax \in Int /\ BackoffMax <= LongestWait /\ LongestWait \in Nat
  BY WaitsBounded
<1> HIDE DEF cooldown
<1>3. cooldown \in Int
  BY <1>1 DEF cooldown
<1>4. NextQuotaCooldown(level) =
        IF CooldownDisabled THEN [wait |-> 0, level |-> level]
        ELSE IF cooldown >= BackoffMax THEN [wait |-> BackoffMax, level |-> level]
        ELSE [wait |-> cooldown, level |-> level + 1]
  BY DEF NextQuotaCooldown, cooldown
<1> QED
  BY <1>2, <1>3, <1>4

LEMMA FailureWithin ==
  ASSUME NEW t \in Nat, NEW h, HoldWithin(h, t + LongestWait),
         NEW kind \in FailureKinds, NEW retryAfter \in RetryAfters \union {NoRetryAfter},
         NEW otherNext \in Int, otherNext <= t + LongestWait
  PROVE  HoldWithin(FailedHold(h, kind, retryAfter, t, otherNext), t + LongestWait)
<1> DEFINE down == [h EXCEPT !.status = "error", !.err = TRUE, !.unavailable = TRUE]
           hold == FailedHold(h, kind, retryAfter, t, otherNext)
<1>1. h \in HoldFields /\ h.next <= t + LongestWait /\ h.recover <= t + LongestWait
  BY DEF HoldWithin
<1>2. /\ down \in HoldFields /\ down.next = h.next /\ down.recover = h.recover
      /\ down.level = h.level
  BY <1>1 DEF HoldFields
<1>3. LongestWait \in Nat
  BY WaitsBounded
<1>4. ASSUME NEW w \in Int, w <= LongestWait
      PROVE  HoldWithin([down EXCEPT !.next = t + w], t + LongestWait)
  <2> DEFINE failed == [down EXCEPT !.next = t + w]
  <2>1. t + w \in Int /\ t + w <= t + LongestWait
    BY ONLY <1>3, <1>4, t \in Nat
  <2>2. failed \in HoldFields /\ failed.next = t + w /\ failed.recover = h.recover
    BY ONLY <1>2, <2>1 DEF HoldFields
  <2> QED
    BY <1>1, <2>1, <2>2 DEF HoldWithin
<1>5. CASE kind \in {"denied", "not_found", "transient"}
  <2>1. \E w \in {DeniedWait, NotFoundWait, TransientWait} : hold = [down EXCEPT !.next = t + w]
    BY <1>5 DEF FailedHold
  <2> QED
    BY <1>4, <2>1, WaitsBounded
<1>6. CASE kind = "quota"
  <2> DEFINE backoff == NextQuotaCooldown(down.level)
             next == IF retryAfter # NoRetryAfter THEN t + retryAfter
                     ELSE IF backoff.wait > 0 THEN t + backoff.wait ELSE 0
             level == IF retryAfter # NoRetryAfter THEN down.level ELSE backoff.level
  <2>1. hold = [down EXCEPT !.next = next, !.recover = next, !.exceeded = TRUE, !.level = level]
    BY <1>6 DEF FailedHold, QuotaHold
  <2>2. /\ backoff.wait \in Int /\ backoff.wait <= LongestWait /\ backoff.level \in Nat
        /\ down.level \in Nat
    BY <1>2, CooldownBounded DEF HoldFields
  <2> HIDE DEF backoff
  <2>3. retryAfter \in RetryAfters \/ retryAfter = NoRetryAfter
    OBVIOUS
  <2>4. next \in Int /\ next <= t + LongestWait /\ level \in Nat
    BY <1>3, <2>2, <2>3, WaitsBounded
  <2> HIDE DEF next, level, down, hold
  <2>5. hold \in HoldFields /\ hold.next = next /\ hold.recover = next
    BY <1>2, <2>1, <2>4 DEF HoldFields
  <2> QED
    BY <2>4, <2>5 DEF HoldWithin, hold
<1>7. CASE kind = "other"
  <2>1. hold = [down EXCEPT !.next = otherNext]
    BY <1>7 DEF FailedHold
  <2> QED
    BY <1>1, <1>2, <2>1 DEF HoldWithin, HoldFields
<1> QED
  BY <1>5, <1>6, <1>7 DEF FailureKinds

-----------------------------------------------------------------------------
(* The aggregate. *)

LEMMA EarliestOfModels ==
  ASSUME NEW D \in SUBSET Models, NEW f, NEW bound \in Nat,
         \A m \in D : f[m] \in Int /\ f[m] <= bound
  PROVE  /\ Earliest({f[m] : m \in D}) \in Int
         /\ Earliest({f[m] : m \in D}) <= bound
         /\ \A n \in D : f[n] # 0 => Earliest({f[m] : m \in D}) <= f[n]
<1> DEFINE S == {f[m] : m \in D}
<1>1. IsFiniteSet(D)
  BY FS_Subset, CredentialAssumption
<1>2. IsFiniteSet(S)
  BY <1>1, ImageFinite
<1>3. /\ \A x \in S : x \in Int /\ x <= bound
      /\ \A m \in D : f[m] \in S
  OBVIOUS
<1> HIDE DEF S
<1>4. Earliest(S) \in S \union {0} /\ \A x \in S : x # 0 => Earliest(S) <= x
  BY <1>2, <1>3, EarliestIsLeast
<1>5. Earliest(S) \in Int /\ Earliest(S) <= bound
  BY <1>3, <1>4
<1>6. \A m \in D : f[m] # 0 => Earliest(S) <= f[m]
  BY <1>3, <1>4
<1> QED
  BY <1>5, <1>6 DEF S

LEMMA HighestLevel ==
  ASSUME NEW D \in SUBSET Models, D # {}, NEW f, \A m \in D : f[m] \in Nat
  PROVE  Max({f[m] : m \in D}) \in Nat
<1> DEFINE S == {f[m] : m \in D}
<1>1. IsFiniteSet(D)
  BY FS_Subset, CredentialAssumption
<1>2. IsFiniteSet(S)
  BY <1>1, ImageFinite
<1>3. S \in SUBSET Nat /\ S # {}
  OBVIOUS
<1> HIDE DEF S
<1>4. Max(S) \in S
  BY <1>2, <1>3, MaxIsGreatest
<1> QED
  BY <1>3, <1>4 DEF S

\* What AggregateSound says of one credential.
SoundAuth(auth) ==
  auth.own.unavailable =>
    \A m \in auth.known :
      LET h == auth.models[m]
      IN  h.unavailable /\ (h.next = 0 \/ h.next >= auth.own.next)

LEMMA AggregateWithin ==
  ASSUME NEW t \in Nat, NEW auth, AuthWithin(auth, t + LongestWait)
  PROVE  AuthWithin(Aggregate(auth, t), t + LongestWait) /\ SoundAuth(Aggregate(auth, t))
<1> DEFINE bound == t + LongestWait
           states == [m \in Models |->
                       IF m \in auth.known THEN Expire(auth.models[m], t) ELSE auth.models[m]]
           down == {m \in auth.known : states[m].unavailable}
           quota == {m \in auth.known : states[m].exceeded}
           all == down = auth.known
           next == Earliest({states[m].next : m \in down})
           recover == Earliest({states[m].recover : m \in quota})
           level == Max({states[m].level : m \in quota})
           result == Aggregate(auth, t)
<1>1. bound \in Nat
  BY WaitsBounded
<1>2. /\ auth.disabled \in BOOLEAN /\ auth.own \in HoldFields
      /\ auth.known \in SUBSET Models /\ auth.models \in [Models -> HoldFields]
      /\ auth \in AuthFields
      /\ \A m \in Models : auth.models[m].next <= bound /\ auth.models[m].recover <= bound
  BY DEF AuthWithin, AuthFields, HoldWithin
<1>3. ASSUME NEW m \in Models
      PROVE  HoldWithin(states[m], bound)
  <2>1. HoldWithin(auth.models[m], bound)
    BY DEF AuthWithin
  <2>2. HoldWithin([auth.models[m] EXCEPT !.unavailable = FALSE, !.next = 0], bound)
    <3> DEFINE h == auth.models[m]
               expired == [h EXCEPT !.unavailable = FALSE, !.next = 0]
    <3> HIDE DEF h
    <3>1. h \in HoldFields /\ h.recover <= bound
      BY <2>1 DEF HoldWithin, h
    <3>2. expired \in HoldFields
      <4>1. ASSUME NEW z \in Int
            PROVE  [h EXCEPT !.unavailable = FALSE, !.next = z] \in HoldFields
        BY ONLY <3>1, z \in Int DEF HoldFields
      <4>2. 0 \in Int
        OBVIOUS
      <4> QED
        BY ONLY <4>1, <4>2
    <3>3. expired.next = 0 /\ expired.recover = h.recover
      BY <3>1 DEF HoldFields
    <3> QED
      BY <1>1, <3>1, <3>2, <3>3 DEF HoldWithin, h
  <2> QED
    BY <2>1, <2>2 DEF Expire
<1>4. states \in [Models -> HoldFields]
  BY <1>3 DEF HoldWithin
<1>5. \A m \in Models : /\ states[m].next \in Int /\ states[m].next <= bound
                        /\ states[m].recover \in Int /\ states[m].recover <= bound
                        /\ states[m].level \in Nat
  BY <1>3 DEF HoldWithin, HoldFields
<1>6. result = [auth EXCEPT
         !.models = states,
         !.own.unavailable = all,
         !.own.next = IF all THEN next ELSE 0,
         !.own.exceeded = quota # {},
         !.own.recover = recover,
         !.own.level = IF quota = {} THEN 0 ELSE level]
  BY DEF Aggregate
<1> HIDE DEF states, bound
<1>7. down \in SUBSET Models /\ quota \in SUBSET Models
  BY <1>2
<1>8. /\ next \in Int /\ next <= bound
      /\ \A m \in down : states[m].next # 0 => next <= states[m].next
  <2> DEFINE f == [m \in Models |-> states[m].next]
  <2>1. {states[m].next : m \in down} = {f[m] : m \in down}
    BY <1>7
  <2>2. \A m \in down : f[m] = states[m].next /\ f[m] \in Int /\ f[m] <= bound
    BY <1>5, <1>7
  <2>3. \A m \in down : f[m] = states[m].next
    BY <1>7
  <2> HIDE DEF f, down
  <2>4. /\ Earliest({f[m] : m \in down}) \in Int
        /\ Earliest({f[m] : m \in down}) <= bound
        /\ \A n \in down : f[n] # 0 => Earliest({f[m] : m \in down}) <= f[n]
    BY <1>1, <1>7, <2>2, EarliestOfModels
  <2> QED
    BY <2>1, <2>3, <2>4
<1>9. recover \in Int /\ recover <= bound
  <2> DEFINE f == [m \in Models |-> states[m].recover]
  <2>1. {states[m].recover : m \in quota} = {f[m] : m \in quota}
    BY <1>7
  <2>2. \A m \in quota : f[m] \in Int /\ f[m] <= bound
    BY <1>5, <1>7
  <2> HIDE DEF f, quota
  <2> QED
    BY <1>1, <1>7, <2>1, <2>2, EarliestOfModels
<1>10. quota # {} => level \in Nat
  <2> DEFINE f == [m \in Models |-> states[m].level]
  <2>1. {states[m].level : m \in quota} = {f[m] : m \in quota}
    BY <1>7
  <2>2. \A m \in quota : f[m] \in Nat
    BY <1>5, <1>7
  <2> HIDE DEF f, quota
  <2> QED
    BY <1>7, <2>1, <2>2, HighestLevel
<1> HIDE DEF next, recover, level, result, quota
<1>11. /\ result.own = [auth.own EXCEPT !.unavailable = all, !.next = IF all THEN next ELSE 0,
                          !.exceeded = quota # {}, !.recover = recover,
                          !.level = IF quota = {} THEN 0 ELSE level]
       /\ result.models = states /\ result.known = auth.known /\ result.disabled = auth.disabled
       /\ result = [disabled |-> result.disabled, own |-> result.own, known |-> result.known,
                    models |-> result.models]
  BY <1>2, <1>6 DEF AuthFields
<1>12. /\ result.own \in HoldFields
       /\ result.own.unavailable = all /\ result.own.next = (IF all THEN next ELSE 0)
       /\ result.own.recover = recover
  <2>1. /\ (IF all THEN next ELSE 0) \in Int
        /\ (IF quota = {} THEN 0 ELSE level) \in Nat
        /\ all \in BOOLEAN /\ (quota # {}) \in BOOLEAN
    BY <1>8, <1>10
  <2> QED
    BY <1>2, <1>9, <1>11, <2>1 DEF HoldFields
<1>13. AuthWithin(result, bound)
  <2>1. result \in AuthFields
    BY <1>2, <1>4, <1>11, <1>12 DEF AuthFields
  <2>2. HoldWithin(result.own, bound)
    BY <1>1, <1>8, <1>9, <1>12 DEF HoldWithin
  <2> QED
    BY <1>3, <1>11, <2>1, <2>2 DEF AuthWithin
<1>14. SoundAuth(result)
  <2> SUFFICES ASSUME all, NEW m \in auth.known
               PROVE  states[m].unavailable /\ (states[m].next = 0 \/ states[m].next >= next)
    BY <1>11, <1>12, ZenonT(60) DEF SoundAuth
  <2>1. m \in down
    OBVIOUS
  <2> QED
    BY <1>2, <1>5, <1>8, <2>1
<1> QED
  BY <1>13, <1>14 DEF result, bound

-----------------------------------------------------------------------------
(* One result. *)

LEMMA SuccessWithin ==
  ASSUME NEW t \in Nat, NEW auth, AuthWithin(auth, t + LongestWait), NEW m \in AnyModel
  PROVE  /\ AuthWithin(MarkSuccess(auth, m, t), t + LongestWait)
         /\ m # NoModel => SoundAuth(MarkSuccess(auth, m, t))
<1> DEFINE bound == t + LongestWait
<1>1. /\ bound \in Nat /\ auth \in AuthFields /\ HoldWithin(auth.own, bound)
      /\ \A n \in Models : HoldWithin(auth.models[n], bound)
  BY WaitsBounded DEF AuthWithin
<1> HIDE DEF bound
<1>2. HoldWithin(Healthy, bound)
  BY <1>1 DEF HoldWithin, HoldFields, Healthy
<1>3. CASE m = NoModel
  <2> DEFINE healed == [auth EXCEPT !.own = Healthy]
  <2>1. healed \in AuthFields /\ healed.own = Healthy /\ healed.models = auth.models
    BY <1>1, <1>2 DEF AuthFields, HoldWithin
  <2>2. MarkSuccess(auth, m, t) = healed
    BY <1>3 DEF MarkSuccess
  <2> QED
    BY <1>1, <1>2, <1>3, <2>1, <2>2 DEF AuthWithin, bound
<1>4. CASE m # NoModel
  <2> DEFINE reset == [auth EXCEPT !.known = @ \union {m}, !.models[m] = Healthy]
             whole == Aggregate(reset, t)
             healed == [whole EXCEPT !.own.err = FALSE, !.own.status = "active"]
  <2>1. m \in Models
    BY <1>4 DEF AnyModel
  <2>2. AuthWithin(reset, bound)
    <3>1. Healthy \in HoldFields
      BY <1>2 DEF HoldWithin
    <3>2. /\ reset \in AuthFields /\ reset.own = auth.own
          /\ reset.models = [auth.models EXCEPT ![m] = Healthy]
      BY <1>1, <2>1, <3>1 DEF AuthFields
    <3>3. auth.models \in [Models -> HoldFields]
      BY <1>1 DEF AuthFields
    <3> HIDE DEF reset
    <3> QED
      BY <1>1, <1>2, <2>1, <3>2, <3>3 DEF AuthWithin
  <2> HIDE DEF reset
  <2>3. AuthWithin(whole, bound) /\ SoundAuth(whole)
    BY <2>2, AggregateWithin DEF bound
  <2>4. MarkSuccess(auth, m, t) = IF HasModelError(whole, t) THEN whole ELSE healed
    BY <1>4 DEF MarkSuccess, reset
  <2> HIDE DEF whole
  <2>5. AuthWithin(healed, bound) /\ SoundAuth(healed)
    <3>1. whole \in AuthFields /\ whole.own \in HoldFields
      BY <2>3 DEF AuthWithin, HoldWithin
    <3>0. healed = [whole EXCEPT !.own.err = FALSE, !.own.status = "active"]
      OBVIOUS
    <3> HIDE DEF healed
    <3>2. /\ healed.own = [whole.own EXCEPT !.err = FALSE, !.status = "active"]
          /\ healed.models = whole.models /\ healed.known = whole.known
          /\ healed.disabled = whole.disabled
          /\ healed = [disabled |-> healed.disabled, own |-> healed.own, known |-> healed.known,
                       models |-> healed.models]
      BY <3>0, <3>1 DEF AuthFields
    <3>3. /\ healed.own \in HoldFields /\ healed.own.next = whole.own.next
          /\ healed.own.recover = whole.own.recover
          /\ healed.own.unavailable = whole.own.unavailable
      BY <3>1, <3>2 DEF HoldFields
    <3>4. healed \in AuthFields
      BY <3>1, <3>2, <3>3 DEF AuthFields
    <3> QED
      BY <2>3, <3>2, <3>3, <3>4 DEF AuthWithin, HoldWithin, SoundAuth
  <2> QED
    BY <2>3, <2>4, <2>5 DEF bound
<1> QED
  BY <1>3, <1>4

LEMMA ResultFailureWithin ==
  ASSUME NEW t \in Nat, NEW auth, AuthWithin(auth, t + LongestWait), NEW m \in AnyModel,
         NEW kind \in FailureKinds, NEW retryAfter \in RetryAfters \union {NoRetryAfter}
  PROVE  /\ AuthWithin(MarkFailure(auth, m, kind, retryAfter, t), t + LongestWait)
         /\ m # NoModel => SoundAuth(MarkFailure(auth, m, kind, retryAfter, t))
<1> DEFINE bound == t + LongestWait
<1>1. /\ bound \in Nat /\ auth \in AuthFields /\ HoldWithin(auth.own, bound)
      /\ \A n \in Models : HoldWithin(auth.models[n], bound)
  BY WaitsBounded DEF AuthWithin
<1>2. CASE m = NoModel
  <2> DEFINE failed == FailedHold(auth.own, kind, retryAfter, t, auth.own.next)
  <2>1. auth.own.next \in Int /\ auth.own.next <= bound
    BY <1>1 DEF HoldWithin, HoldFields
  <2>2. HoldWithin(failed, bound)
    BY <1>1, <2>1, FailureWithin
  <2> HIDE DEF failed
  <2>3. MarkFailure(auth, m, kind, retryAfter, t) = [auth EXCEPT !.own = failed]
    BY <1>2 DEF MarkFailure, failed
  <2> HIDE DEF bound
  <2>4. AuthWithin([auth EXCEPT !.own = failed], bound)
    BY <1>1, <2>2 DEF AuthWithin, AuthFields, HoldWithin
  <2> QED
    BY <1>2, <2>3, <2>4 DEF bound
<1>3. CASE m # NoModel
  <2> DEFINE failed == FailedHold(auth.models[m], kind, retryAfter, t, 0)
             marked == [auth EXCEPT !.known = @ \union {m}, !.models[m] = failed,
                                    !.own.err = TRUE, !.own.status = "error"]
  <2>1. m \in Models
    BY <1>3 DEF AnyModel
  <2>2. HoldWithin(failed, bound)
    BY <1>1, <2>1, FailureWithin
  <2> HIDE DEF failed
  <2>3. MarkFailure(auth, m, kind, retryAfter, t) = Aggregate(marked, t)
    BY <1>3 DEF MarkFailure, failed
  <2> HIDE DEF bound
  <2>4. AuthWithin(marked, bound)
    <3>1. /\ auth.models \in [Models -> HoldFields] /\ auth.own \in HoldFields
          /\ auth.known \in SUBSET Models /\ auth.disabled \in BOOLEAN
      BY <1>1 DEF AuthFields
    <3>0. marked = [auth EXCEPT !.known = @ \union {m}, !.models[m] = failed,
                                !.own.err = TRUE, !.own.status = "error"]
      OBVIOUS
    <3> HIDE DEF marked
    <3>2. /\ marked.own = [auth.own EXCEPT !.err = TRUE, !.status = "error"]
          /\ marked.models = [auth.models EXCEPT ![m] = failed]
          /\ marked.known = auth.known \union {m}
          /\ marked.disabled = auth.disabled
          /\ marked = [disabled |-> marked.disabled, own |-> marked.own, known |-> marked.known,
                       models |-> marked.models]
      BY <1>1, <3>0 DEF AuthFields
    <3>3. /\ marked.own \in HoldFields /\ marked.own.next = auth.own.next
          /\ marked.own.recover = auth.own.recover
      BY <3>1, <3>2 DEF HoldFields
    <3>4. failed \in HoldFields
      BY <2>2 DEF HoldWithin
    <3>5. marked \in AuthFields
      BY <2>1, <3>1, <3>2, <3>3, <3>4 DEF AuthFields
    <3> QED
      BY <1>1, <2>1, <2>2, <3>1, <3>2, <3>3, <3>5 DEF AuthWithin, HoldWithin
  <2> HIDE DEF marked
  <2> QED
    BY <2>3, <2>4, AggregateWithin DEF bound
<1> QED
  BY <1>2, <1>3

-----------------------------------------------------------------------------
(* The steps of the manager. *)

\* A request under way names one of the models requests name.
WellNamed(q) == DOMAIN q = DOMAIN Idle /\ (q.pc # "idle" => q.model \in RequestModels)
RequestsNamed == DOMAIN reqs = Reqs /\ \A r \in Reqs : WellNamed(reqs[r])

LEMMA InitNamed == Init => RequestsNamed
<1> SUFFICES ASSUME Init PROVE RequestsNamed
  OBVIOUS
<1>1. reqs = [r \in Reqs |-> Idle]
  BY DEF Init
<1>2. WellNamed(Idle)
  BY DEF WellNamed, Idle
<1> QED
  BY ONLY <1>1, <1>2 DEF RequestsNamed

\* A step changes one request, which stays well named.
LEMMA OneRequest ==
  ASSUME RequestsNamed, NEW r \in Reqs, NEW q, reqs' = [reqs EXCEPT ![r] = q], WellNamed(q)
  PROVE  RequestsNamed'
<1>1. /\ DOMAIN reqs' = Reqs /\ reqs'[r] = q
      /\ \A s \in Reqs \ {r} : reqs'[s] = reqs[s]
  BY DEF RequestsNamed
<1>2. ASSUME NEW s \in Reqs PROVE WellNamed(reqs'[s])
  BY <1>1 DEF RequestsNamed
<1> QED
  BY <1>1, <1>2 DEF RequestsNamed, WellNamed

LEMMA MarkedNamed ==
  ASSUME NEW q, WellNamed(q), q.pc # "idle", NEW ops, NEW next
  PROVE  WellNamed(Marked(q, ops, next))
BY DEF WellNamed, Marked, Idle

LEMMA NamedStep ==
  ASSUME RequestsNamed, [Next]_vars
  PROVE  RequestsNamed'
<1>1. CASE UNCHANGED vars \/ Tick
  BY <1>1 DEF vars, Tick, RequestsNamed, WellNamed
<1>2. ASSUME NEW r \in Reqs, Begin(r) \/ Step(r) \/ StreamAbandoned(r) \/ WaitCancelled(r)
      PROVE  RequestsNamed'
  <2> DEFINE q == reqs[r]
  <2>0. WellNamed(q)
    BY DEF RequestsNamed
  <2>1. CASE Begin(r)
    BY <2>1, OneRequest DEF Begin, WellNamed, Idle
  <2>2. CASE Pick(r)
    <3>1. PICK auth, tried : reqs' = [reqs EXCEPT ![r] =
                               [q EXCEPT !.pc = "exec", !.auth = auth, !.tried = tried]]
      BY <2>2 DEF Pick
    <3>2. WellNamed([q EXCEPT !.pc = "exec", !.auth = auth, !.tried = tried])
      BY <2>0, <2>2 DEF WellNamed, Idle, Pick
    <3> QED
      BY <3>1, <3>2, OneRequest
  <2>3. CASE PickFails(r)
    <3>1. \/ reqs' = [reqs EXCEPT ![r] = [q EXCEPT !.at = @ + 1, !.tried = {}]]
          \/ reqs' = [reqs EXCEPT ![r] = [q EXCEPT !.pc = "decide"]]
      BY <2>3 DEF PickFails
    <3>2. /\ WellNamed([q EXCEPT !.at = @ + 1, !.tried = {}])
          /\ WellNamed([q EXCEPT !.pc = "decide"])
      BY <2>0, <2>3 DEF WellNamed, Idle, PickFails
    <3> QED
      BY <3>1, <3>2, OneRequest
  <2>4. CASE RegistryOp(r) \/ ExecFails(r) \/ ExecSucceeds(r) \/ StreamEnds(r) \/ StreamFails(r)
    <3>1. q.pc # "idle" /\ \E ops, next : reqs' = [reqs EXCEPT ![r] = Marked(q, ops, next)]
      BY <2>4 DEF RegistryOp, ExecFails, ExecSucceeds, StreamEnds, StreamFails,
                  RecordSuccess, RecordFailure
    <3> QED
      BY <2>0, <3>1, MarkedNamed, OneRequest
  <2>5. CASE StreamOpens(r) \/ WaitCancelled(r)
    <3>1. \E pc : /\ q.pc # "idle"
                  /\ reqs' = [reqs EXCEPT ![r] = [q EXCEPT !.pc = pc]]
      BY <2>5 DEF StreamOpens, WaitCancelled
    <3>2. q.pc # "idle" => \A pc : WellNamed([q EXCEPT !.pc = pc])
      BY <2>0 DEF WellNamed, Idle
    <3> QED
      BY <3>1, <3>2, OneRequest
  <2>6. CASE StreamAbandoned(r) \/ Return(r)
    <3>1. reqs' = [reqs EXCEPT ![r] = Idle]
      BY <2>6 DEF StreamAbandoned, Return
    <3>2. WellNamed(Idle)
      BY DEF WellNamed, Idle
    <3> QED
      BY <3>1, <3>2, OneRequest
  <2>7. CASE Decide(r)
    <3>1. \/ \E until : reqs' = [reqs EXCEPT ![r] = [q EXCEPT !.pc = "wait", !.until = until]]
          \/ reqs' = [reqs EXCEPT ![r] = [q EXCEPT !.pc = "return"]]
      BY <2>7 DEF Decide
    <3>2. /\ \A until : WellNamed([q EXCEPT !.pc = "wait", !.until = until])
          /\ WellNamed([q EXCEPT !.pc = "return"])
      BY <2>0, <2>7 DEF WellNamed, Idle, Decide
    <3> QED
      BY <3>1, <3>2, OneRequest
  <2>8. CASE WaitEnds(r)
    <3>1. reqs' = [reqs EXCEPT ![r] = [q EXCEPT !.pc = "pick", !.at = 1, !.tried = {},
                                                !.until = 0, !.attempt = @ + 1]]
      BY <2>8 DEF WaitEnds
    <3>2. WellNamed([q EXCEPT !.pc = "pick", !.at = 1, !.tried = {},
                              !.until = 0, !.attempt = @ + 1])
      BY <2>0, <2>8 DEF WellNamed, Idle, WaitEnds
    <3> QED
      BY <3>1, <3>2, OneRequest
  <2> QED
    BY <1>2, <2>1, <2>2, <2>3, <2>4, <2>5, <2>6, <2>7, <2>8 DEF Step
<1> QED
  BY <1>1, <1>2 DEF Next

\* What a step may do to a credential: nothing, or record one result.
Recorded(a) ==
  \/ auths'[a] = auths[a]
  \/ \E m \in RequestModels :
       \/ auths'[a] = MarkSuccess(auths[a], m, now)
       \/ \E kind \in Failures, retryAfter \in RetryAfters \union {NoRetryAfter} :
            auths'[a] = MarkFailure(auths[a], m, kind, retryAfter, now)

LEMMA RecordedStep ==
  ASSUME RequestsNamed, DOMAIN auths = Auths, [Next]_vars
  PROVE  DOMAIN auths' = Auths /\ \A a \in Auths : Recorded(a)
<1>1. CASE UNCHANGED auths
  BY <1>1 DEF Recorded
<1>2. ASSUME NEW r \in Reqs, ExecSucceeds(r) \/ StreamEnds(r)
      PROVE  DOMAIN auths' = Auths /\ \A a \in Auths : Recorded(a)
  <2>1. /\ reqs[r].pc # "idle"
        /\ auths' = [auths EXCEPT ![reqs[r].auth] = MarkSuccess(@, reqs[r].model, now)]
    BY <1>2 DEF ExecSucceeds, StreamEnds, RecordSuccess
  <2>2. reqs[r].model \in RequestModels
    BY <2>1 DEF RequestsNamed, WellNamed
  <2>3. \A a \in Auths : \/ auths'[a] = auths[a]
                         \/ auths'[a] = MarkSuccess(auths[a], reqs[r].model, now)
    BY ONLY <2>1, DOMAIN auths = Auths
  <2> QED
    BY <2>1, <2>2, <2>3 DEF Recorded
<1>3. ASSUME NEW r \in Reqs, ExecFails(r) \/ StreamFails(r)
      PROVE  DOMAIN auths' = Auths /\ \A a \in Auths : Recorded(a)
  <2>1. PICK kind \in Failures, retryAfter \in RetryAfters \union {NoRetryAfter} :
          /\ reqs[r].pc # "idle"
          /\ auths' = [auths EXCEPT ![reqs[r].auth] =
                         MarkFailure(@, reqs[r].model, kind, retryAfter, now)]
    BY <1>3 DEF ExecFails, StreamFails, RecordFailure
  <2>2. reqs[r].model \in RequestModels
    BY <2>1 DEF RequestsNamed, WellNamed
  <2>3. \A a \in Auths : \/ auths'[a] = auths[a]
                         \/ auths'[a] = MarkFailure(auths[a], reqs[r].model, kind, retryAfter, now)
    BY ONLY <2>1, DOMAIN auths = Auths
  <2> QED
    BY <2>1, <2>2, <2>3 DEF Recorded
<1>4. \/ UNCHANGED auths
      \/ \E r \in Reqs : ExecSucceeds(r) \/ StreamEnds(r) \/ ExecFails(r) \/ StreamFails(r)
  BY DEF Next, vars, Tick, Begin, Step, Pick, PickFails, RegistryOp, StreamOpens, Decide,
         WaitEnds, Return, StreamAbandoned, WaitCancelled
<1> QED
  BY <1>1, <1>2, <1>3, <1>4

\* Nothing a credential keeps lies beyond the longest wait from now.
TimesInv ==
  /\ RequestsNamed /\ now \in Nat /\ DOMAIN auths = Auths
  /\ \A a \in Auths : AuthWithin(auths[a], now + LongestWait)

LEMMA LaterWithin ==
  ASSUME NEW auth, NEW s \in Int, NEW t \in Int, s <= t, AuthWithin(auth, s)
  PROVE  AuthWithin(auth, t)
<1>1. \A h \in HoldFields : h.next \in Int /\ h.recover \in Int
  BY DEF HoldFields
<1>2. ASSUME NEW h, HoldWithin(h, s) PROVE HoldWithin(h, t)
  BY <1>1, <1>2 DEF HoldWithin
<1> QED
  BY <1>2 DEF AuthWithin

LEMMA TimesInit == Init => TimesInv
<1> SUFFICES ASSUME Init PROVE TimesInv
  OBVIOUS
<1>1. now = 1 /\ auths = [a \in Auths |-> NewAuth]
  BY DEF Init
<1>2. HoldWithin(Healthy, 1 + LongestWait) /\ Healthy \in HoldFields
  BY WaitsBounded DEF HoldWithin, HoldFields, Healthy
<1>3. AuthWithin(NewAuth, 1 + LongestWait)
  BY <1>2 DEF AuthWithin, AuthFields, NewAuth
<1> QED
  BY <1>1, <1>3, InitNamed DEF TimesInv

LEMMA LaterTime ==
  ASSUME NEW s \in Nat, NEW t \in Nat, s <= t, NEW wait \in Nat
  PROVE  s + wait \in Int /\ t + wait \in Int /\ s + wait <= t + wait
OBVIOUS

LEMMA TimesStep ==
  ASSUME TimesInv, [Next]_vars
  PROVE  TimesInv'
<1>1. RequestsNamed'
  BY NamedStep DEF TimesInv
<1>2. now' \in Nat /\ now <= now' /\ now \in Nat
  <2>1. now' = now \/ now' = now + 1
    BY DEF Next, vars, Tick, Begin, Step, Pick, PickFails, RegistryOp, StreamOpens, Decide,
           WaitEnds, Return, StreamAbandoned, WaitCancelled, ExecSucceeds, StreamEnds,
           ExecFails, StreamFails
  <2> QED
    BY <2>1 DEF TimesInv
<1>3. DOMAIN auths' = Auths /\ \A a \in Auths : Recorded(a)
  BY RecordedStep DEF TimesInv
<1>4. ASSUME NEW a \in Auths
      PROVE  AuthWithin(auths'[a], now' + LongestWait)
  <2>1. AuthWithin(auths[a], now + LongestWait)
    BY DEF TimesInv
  <2>2. RequestModels \subseteq AnyModel /\ Failures \subseteq FailureKinds
    BY AuthManagerAssumption
  <2>3. AuthWithin(auths'[a], now + LongestWait)
    BY <1>2, <1>3, <2>1, <2>2, SuccessWithin, ResultFailureWithin DEF Recorded
  <2>4. /\ now + LongestWait \in Int /\ now' + LongestWait \in Int
        /\ now + LongestWait <= now' + LongestWait
    BY <1>2, WaitsBounded, LaterTime
  <2> QED
    BY <2>3, <2>4, LaterWithin
<1> QED
  BY <1>1, <1>2, <1>3, <1>4 DEF TimesInv, AuthWithin

THEOREM TimesKept == Spec => []TimesInv
<1>1. Init => TimesInv
  BY TimesInit
<1>2. TimesInv /\ [Next]_vars => TimesInv'
  BY TimesStep
<1> QED
  BY <1>1, <1>2, PTL DEF Spec

\* Whatever fails, however often and for whomever: a credential that is
\* cooling down can be tried again within the longest single wait.
THEOREM NobodyLockedOut == Spec => []NoLockout
<1>1. TimesInv => NoLockout
  <2> SUFFICES ASSUME TimesInv, NEW a \in Auths, NEW m \in AnyModel
               PROVE  /\ Deciding(auths[a], m).next <= now + LongestWait
                      /\ BlockedUntil(auths[a], m, now) <= now + LongestWait
    BY DEF NoLockout
  <2>1. HoldWithin(Deciding(auths[a], m), now + LongestWait)
    BY DEF TimesInv, AuthWithin, Deciding, AnyModel
  <2> QED
    BY <2>1 DEF HoldWithin, BlockedUntil
<1> QED
  BY <1>1, TimesKept, PTL

\* Where every request names its model, a credential is unavailable as a whole
\* only while all the models it has tried are.
THEOREM AggregateStaysSound ==
  ASSUME NoModel \notin RequestModels
  PROVE  Spec => []AggregateSound
<1>1. Init => AggregateSound
  <2> SUFFICES ASSUME Init PROVE AggregateSound
    OBVIOUS
  <2>1. auths = [a \in Auths |-> NewAuth]
    BY DEF Init
  <2>2. ~NewAuth.own.unavailable
    BY DEF NewAuth, Healthy
  <2> QED
    BY ONLY <2>1, <2>2 DEF AggregateSound
<1>2. TimesInv /\ AggregateSound /\ [Next]_vars => AggregateSound'
  <2> SUFFICES ASSUME TimesInv, AggregateSound, [Next]_vars, NEW a \in Auths
               PROVE  SoundAuth(auths'[a])
    BY DEF AggregateSound, SoundAuth
  <2>1. SoundAuth(auths[a]) /\ AuthWithin(auths[a], now + LongestWait) /\ now \in Nat
    BY DEF AggregateSound, SoundAuth, TimesInv
  <2>2. Recorded(a)
    BY RecordedStep DEF TimesInv
  <2>3. /\ RequestModels \subseteq AnyModel /\ Failures \subseteq FailureKinds
        /\ \A m \in RequestModels : m # NoModel
    BY AuthManagerAssumption
  <2> QED
    BY <2>1, <2>2, <2>3, SuccessWithin, ResultFailureWithin DEF Recorded
<1> QED
  BY <1>1, <1>2, TimesKept, PTL DEF Spec

-----------------------------------------------------------------------------
(* What a result does to the holds of the models. *)

\* The hold h, possibly with its expired block dropped.
Lapsed(h, t) == {h, Expire(h, t)}

LEMMA AggregateModels ==
  ASSUME NEW auth \in AuthFields, NEW t, NEW m \in Models
  PROVE  Aggregate(auth, t).models[m] \in Lapsed(auth.models[m], t)
<1> DEFINE states == [n \in Models |->
                       IF n \in auth.known THEN Expire(auth.models[n], t) ELSE auth.models[n]]
<1>1. Aggregate(auth, t).models = states
  BY DEF Aggregate, AuthFields
<1> QED
  BY <1>1 DEF Lapsed

LEMMA SuccessModels ==
  ASSUME NEW auth \in AuthFields, NEW t, NEW m \in Models, NEW n \in Models
  PROVE  MarkSuccess(auth, m, t).models[n] \in
           Lapsed(IF n = m THEN Healthy ELSE auth.models[n], t)
<1> DEFINE reset == [auth EXCEPT !.known = @ \union {m}, !.models[m] = Healthy]
           whole == Aggregate(reset, t)
<1>1. /\ reset \in AuthFields
      /\ reset.models[n] = IF n = m THEN Healthy ELSE auth.models[n]
  <2>1. Healthy \in HoldFields
    BY DEF Healthy, HoldFields
  <2> QED
    BY <2>1 DEF AuthFields
<1> HIDE DEF reset
<1>2. whole.models[n] \in Lapsed(IF n = m THEN Healthy ELSE auth.models[n], t)
  BY <1>1, AggregateModels
<1>3. MarkSuccess(auth, m, t) \in {whole, [whole EXCEPT !.own.err = FALSE, !.own.status = "active"]}
  <2>1. m # NoModel
    BY CredentialAssumption
  <2> QED
    BY <2>1 DEF MarkSuccess, reset
<1>4. [whole EXCEPT !.own.err = FALSE, !.own.status = "active"].models = whole.models
  <2>1. "own" \in DOMAIN whole /\ "models" \in DOMAIN whole
    BY <1>1 DEF Aggregate, AuthFields
  <2> HIDE DEF whole
  <2> QED
    BY <2>1
<1> QED
  BY <1>2, <1>3, <1>4

LEMMA FailureModels ==
  ASSUME NEW auth \in AuthFields, NEW t \in Nat, NEW m \in Models, NEW n \in Models, NEW kind, NEW ra,
         FailedHold(auth.models[m], kind, ra, t, 0) \in HoldFields
  PROVE  MarkFailure(auth, m, kind, ra, t).models[n] \in
           Lapsed(IF n = m THEN FailedHold(auth.models[m], kind, ra, t, 0) ELSE auth.models[n], t)
<1> DEFINE failed == FailedHold(auth.models[m], kind, ra, t, 0)
           marked == [auth EXCEPT !.known = @ \union {m}, !.models[m] = failed,
                                  !.own.err = TRUE, !.own.status = "error"]
<1>1. MarkFailure(auth, m, kind, ra, t) = Aggregate(marked, t)
  <2>1. m # NoModel
    BY CredentialAssumption
  <2> QED
    BY <2>1 DEF MarkFailure
<1>2. /\ marked \in AuthFields
      /\ marked.models[n] = IF n = m THEN failed ELSE auth.models[n]
  <2> HIDE DEF failed
  <2>1. failed \in HoldFields
    BY DEF failed
  <2>2. [auth.own EXCEPT !.err = TRUE, !.status = "error"] \in HoldFields
    BY DEF AuthFields, HoldFields
  <2>0. marked = [auth EXCEPT !.known = @ \union {m}, !.models[m] = failed,
                              !.own.err = TRUE, !.own.status = "error"]
    OBVIOUS
  <2> HIDE DEF marked
  <2>3. /\ marked.own = [auth.own EXCEPT !.err = TRUE, !.status = "error"]
        /\ marked.models = [auth.models EXCEPT ![m] = failed]
        /\ marked.known = auth.known \union {m} /\ marked.disabled = auth.disabled
        /\ marked = [disabled |-> marked.disabled, own |-> marked.own, known |-> marked.known,
                     models |-> marked.models]
    BY <2>0 DEF AuthFields
  <2>4. /\ auth.models \in [Models -> HoldFields] /\ auth.known \in SUBSET Models
        /\ auth.disabled \in BOOLEAN
    BY DEF AuthFields
  <2> QED
    BY <2>1, <2>2, <2>3, <2>4 DEF AuthFields
<1> HIDE DEF marked, failed
<1> QED
  BY <1>1, <1>2, AggregateModels DEF failed

-----------------------------------------------------------------------------
(* The selector picks a credential that is available. *)

InOrder(ids) == \A i, j \in DOMAIN ids : i < j => ids[i] < ids[j]

\* The members of any finite set of IDs can be sorted.
LEMMA SortedExists ==
  ASSUME NEW S \in SUBSET Nat, IsFiniteSet(S)
  PROVE  \E ids \in [1..Cardinality(S) -> S] : InOrder(ids)
<1> DEFINE Bad == {X \in FiniteSubsetsOf(S) : ~\E ids \in [1..Cardinality(X) -> X] : InOrder(ids)}
<1>1. SUFFICES ASSUME S \in Bad PROVE FALSE
  BY DEF FiniteSubsetsOf
<1>2. PICK X \in Bad : \A Y \in Bad : ~(<<Y, X>> \in StrictSubsetOrdering(S))
  <2>1. Bad \subseteq FiniteSubsetsOf(S) /\ Bad # {}
    BY <1>1
  <2> HIDE DEF Bad
  <2> QED
    BY <2>1, WFMin, FS_StrictSubsetOrderingWellFounded
<1>3. /\ X \in SUBSET Int /\ X \subseteq S /\ IsFiniteSet(X)
      /\ ~\E ids \in [1..Cardinality(X) -> X] : InOrder(ids)
  BY DEF FiniteSubsetsOf
<1>4. X # {}
  <2>1. Cardinality({}) = 0
    BY FS_EmptySet
  <2>2. [i \in 1..0 |-> 0] \in [1..0 -> {}] /\ InOrder([i \in 1..0 |-> 0])
    BY DEF InOrder
  <2> QED
    BY <1>3, <2>1, <2>2
<1>5. PICK x \in X : \A y \in X : x >= y
  BY <1>3, <1>4, GreatestExists
<1> DEFINE n == Cardinality(X)
<1>6. n \in Nat /\ n > 0 /\ IsFiniteSet(X \ {x}) /\ Cardinality(X \ {x}) = n - 1
  BY <1>3, <1>4, FS_RemoveElement, FS_CardinalityType, FS_EmptySet
<1>7. X \ {x} \notin Bad
  <2>1. <<X \ {x}, X>> \in StrictSubsetOrdering(S)
    BY <1>3, <1>5 DEF StrictSubsetOrdering
  <2> QED
    BY <1>2, <2>1
<1>8. PICK ids \in [1..(n - 1) -> X \ {x}] : InOrder(ids)
  BY <1>3, <1>6, <1>7 DEF FiniteSubsetsOf
<1> HIDE DEF n
<1> DEFINE longer == [i \in 1..n |-> IF i < n THEN ids[i] ELSE x]
<1>9. \A i \in 1..n : i < n => i \in 1..(n - 1)
  BY <1>6
<1>10. longer \in [1..n -> X]
  BY <1>8, <1>9
<1>11. ASSUME NEW i \in 1..n, NEW j \in 1..n, i < j
       PROVE  longer[i] < longer[j]
  <2>1. i < n /\ i \in 1..(n - 1)
    BY <1>6, <1>9, <1>11
  <2>2. ids[i] \in X /\ ids[i] # x /\ ids[i] \in Int /\ x \in Int
    BY <1>3, <1>8, <2>1
  <2>3. ids[i] < x
    BY <1>5, <2>2
  <2>4. CASE j < n
    BY <1>8, <1>9, <1>11, <2>1, <2>4 DEF InOrder
  <2>5. CASE ~(j < n)
    BY <2>1, <2>3, <2>5
  <2> QED
    BY <2>4, <2>5
<1>12. InOrder(longer)
  BY <1>10, <1>11 DEF InOrder
<1> QED
  BY <1>3, <1>10, <1>12 DEF n

LEMMA SortedMembers ==
  ASSUME NEW S \in SUBSET Nat, IsFiniteSet(S)
  PROVE  Sorted(S) \in [1..Cardinality(S) -> S]
BY SortedExists DEF Sorted, InOrder

\* Pick hands the request a credential that nothing blocks.
LEMMA PickAvailable ==
  ASSUME NEW r \in Reqs, Pick(r), DOMAIN reqs = Reqs, WellNamed(reqs[r]),
         cursors[reqs[r].providers[reqs[r].at]][reqs[r].model] \in Nat
  PROVE  \E chosen \in Available(reqs[r]) : \E tried :
           reqs' = [reqs EXCEPT ![r] =
             [reqs[r] EXCEPT !.pc = "exec", !.auth = chosen, !.tried = tried]]
<1> DEFINE q == reqs[r]
           S == Available(q)
           cursor == cursors[q.providers[q.at]][q.model]
           index == IF cursor >= CursorMax THEN 0 ELSE cursor
           n == Cardinality(S)
           chosen == Sorted(S)[(index % n) + 1]
<1>1. S \in SUBSET Nat /\ IsFiniteSet(S) /\ S # {}
  <2>1. S \subseteq Auths /\ S # {}
    BY DEF Pick, Available, Candidates
  <2> QED
    BY <2>1, AuthManagerAssumption, FS_Subset
<1>2. reqs' = [reqs EXCEPT ![r] =
        [q EXCEPT !.pc = "exec", !.auth = chosen, !.tried = @ \union {chosen}]]
  BY DEF Pick
<1> HIDE DEF S
<1>3. n \in Nat /\ n > 0
  BY <1>1, FS_CardinalityType, FS_EmptySet
<1>4. index \in Nat
  OBVIOUS
<1> HIDE DEF n, index
<1>5. (index % n) + 1 \in 1..n
  BY <1>3, <1>4
<1>6. chosen \in S
  BY <1>1, <1>5, SortedMembers DEF n
<1> HIDE DEF chosen
<1>7. [q EXCEPT !.pc = "exec", !.auth = chosen, !.tried = @ \union {chosen}]
        = [q EXCEPT !.pc = "exec", !.auth = chosen, !.tried = q.tried \union {chosen}]
  OBVIOUS
<1> QED
  BY <1>2, <1>6, <1>7 DEF S

-----------------------------------------------------------------------------
(* The kinds of steps. *)

\* A request that is at work for a credential has one.
AtWork == {"exec", "stream", "ops"}
SentInv ==
  /\ cursors \in [Providers -> [AnyModel -> Nat]]
  /\ \A r \in Reqs : /\ reqs[r].then \notin AtWork
                     /\ reqs[r].pc \in AtWork => reqs[r].auth \in Auths

\* Nothing happens to requests, credentials and registry; time may pass.
Waits == UNCHANGED <<reqs, auths, models>> /\ now' \in {now, now + 1}
\* The request walks on, without a credential.
Walks(r) == /\ UNCHANGED <<auths, models, now>>
            /\ reqs[r].pc # "ops" /\ reqs'[r].pc \notin AtWork
\* It is given a credential that nothing blocks.
Picks(r) == /\ UNCHANGED <<auths, models, now>> /\ reqs[r].pc = "pick"
            /\ reqs'[r].pc = "exec" /\ reqs'[r].model = reqs[r].model
            /\ reqs'[r].auth \in Available(reqs[r])
\* Its stream opens.
Opens(r) == /\ UNCHANGED <<auths, models, now>>
            /\ reqs[r].pc = "exec" /\ reqs'[r].pc = "stream"
            /\ reqs'[r].model = reqs[r].model /\ reqs'[r].auth = reqs[r].auth
\* Its result is recorded, and the registry calls in ops follow.
Records(r, ops) ==
  /\ UNCHANGED <<models, now>> /\ reqs[r].pc \in {"exec", "stream"}
  /\ IF ops = <<>> THEN reqs'[r].pc \notin AtWork
     ELSE /\ reqs'[r].pc = "ops" /\ reqs'[r].ops = ops
          /\ reqs'[r].model = reqs[r].model /\ reqs'[r].auth = reqs[r].auth
Succeeds(r) ==
  /\ Records(r, SuccessOps(reqs[r].model))
  /\ auths' = [auths EXCEPT ![reqs[r].auth] = MarkSuccess(@, reqs[r].model, now)]
Fails(r) ==
  \E kind \in Failures, retryAfter \in RetryAfters \union {NoRetryAfter} :
    /\ Records(r, FailureOps(reqs[r].model, kind))
    /\ auths' = [auths EXCEPT ![reqs[r].auth] =
                   MarkFailure(@, reqs[r].model, kind, retryAfter, now)]
\* One of its registry calls is made.
Registers(r) ==
  /\ RegistryOp(r) /\ UNCHANGED <<auths, now>>
  /\ IF Tail(reqs[r].ops) = <<>> THEN reqs'[r].pc \notin AtWork
     ELSE /\ reqs'[r].pc = "ops" /\ reqs'[r].ops = Tail(reqs[r].ops)
          /\ reqs'[r].model = reqs[r].model /\ reqs'[r].auth = reqs[r].auth
OneMoves(r) ==
  /\ Walks(r) \/ Picks(r) \/ Opens(r) \/ Succeeds(r) \/ Fails(r) \/ Registers(r)
  /\ \A s \in Reqs \ {r} : reqs'[s] = reqs[s]

LEMMA MarkedFields ==
  ASSUME NEW q, DOMAIN q = DOMAIN Idle, NEW ops, NEW next
  PROVE  /\ Marked(q, ops, next).then = next
         /\ Marked(q, ops, next).pc = (IF ops = <<>> THEN next ELSE "ops")
         /\ Marked(q, ops, next).ops = ops
         /\ Marked(q, ops, next).model = q.model /\ Marked(q, ops, next).auth = q.auth
BY DEF Marked, Idle

\* What one request does, q being what becomes of it.
LEMMA Alone ==
  ASSUME RequestsNamed, NEW r \in Reqs, NEW q, reqs' = [reqs EXCEPT ![r] = q]
  PROVE  reqs'[r] = q /\ \A s \in Reqs \ {r} : reqs'[s] = reqs[s]
BY DEF RequestsNamed

LEMMA PickWorks ==
  ASSUME RequestsNamed, SentInv, NEW r \in Reqs, Pick(r)
  PROVE  /\ reqs[r].providers[reqs[r].at] \in Providers /\ reqs[r].model \in AnyModel
         /\ \E chosen \in Available(reqs[r]) : \E tried :
              reqs' = [reqs EXCEPT ![r] =
                [reqs[r] EXCEPT !.pc = "exec", !.auth = chosen, !.tried = tried]]
<1> DEFINE q == reqs[r]
<1>1. q.pc = "pick" /\ Available(q) # {}
  BY DEF Pick
<1>2. WellNamed(q) /\ q.model \in AnyModel /\ DOMAIN reqs = Reqs
  BY <1>1, AuthManagerAssumption DEF RequestsNamed, WellNamed
<1>3. q.providers[q.at] \in Providers
  BY <1>1, AuthManagerAssumption DEF Available, Candidates
<1>4. cursors[q.providers[q.at]][q.model] \in Nat
  BY <1>2, <1>3 DEF SentInv
<1> QED
  BY <1>2, <1>3, <1>4, PickAvailable

LEMMA StepKinds ==
  ASSUME RequestsNamed, SentInv, [Next]_vars
  PROVE  /\ Waits \/ \E r \in Reqs : OneMoves(r) /\ reqs'[r].then \notin AtWork
         /\ cursors' \in [Providers -> [AnyModel -> Nat]]
<1>1. CASE UNCHANGED vars \/ Tick
  BY <1>1 DEF vars, registryVars, Tick, Waits, SentInv
<1>2. ASSUME NEW r \in Reqs, Begin(r) \/ Step(r) \/ StreamAbandoned(r) \/ WaitCancelled(r)
      PROVE  /\ OneMoves(r) /\ reqs'[r].then \notin AtWork
             /\ cursors' \in [Providers -> [AnyModel -> Nat]]
  <2> DEFINE q == reqs[r]
  <2>0. /\ WellNamed(q) /\ DOMAIN q = DOMAIN Idle /\ DOMAIN reqs = Reqs
        /\ q.then \notin AtWork /\ (q.pc \in AtWork => q.auth \in Auths)
        /\ cursors \in [Providers -> [AnyModel -> Nat]]
        /\ (q.pc # "idle" => q.model \in AnyModel)
    BY AuthManagerAssumption DEF RequestsNamed, WellNamed, SentInv
  <2> DEFINE Walking == /\ UNCHANGED <<auths, models, now, cursors>>
                        /\ q.pc # "ops" /\ reqs'[r].pc \notin AtWork
                        /\ reqs'[r].then \notin AtWork
                        /\ \A s \in Reqs \ {r} : reqs'[s] = reqs[s]
  <2>1. Walking => /\ OneMoves(r) /\ reqs'[r].then \notin AtWork
                   /\ cursors' \in [Providers -> [AnyModel -> Nat]]
    BY <2>0 DEF OneMoves, Walks
  <2>2. CASE Begin(r)
    <3>1. PICK m, k, ps : reqs' = [reqs EXCEPT ![r] = [Idle EXCEPT
             !.pc = "pick", !.kind = k, !.model = m, !.providers = ps]]
      BY <2>2 DEF Begin
    <3>2. reqs'[r] = [Idle EXCEPT !.pc = "pick", !.kind = k, !.model = m, !.providers = ps]
      BY <3>1, Alone
    <3>3. reqs'[r].pc = "pick" /\ reqs'[r].then = "idle"
      BY <3>2 DEF Idle
    <3>4. \A s \in Reqs \ {r} : reqs'[s] = reqs[s]
      BY <3>1, Alone
    <3> QED
      BY <2>1, <2>2, <3>3, <3>4 DEF Begin, AtWork, registryVars
  <2>3. CASE PickFails(r)
    <3>1. \/ reqs' = [reqs EXCEPT ![r] = [q EXCEPT !.at = @ + 1, !.tried = {}]]
          \/ reqs' = [reqs EXCEPT ![r] = [q EXCEPT !.pc = "decide"]]
      BY <2>3 DEF PickFails
    <3>2. /\ \A s \in Reqs \ {r} : reqs'[s] = reqs[s]
          /\ reqs'[r] \in {[q EXCEPT !.at = @ + 1, !.tried = {}], [q EXCEPT !.pc = "decide"]}
      BY <3>1, Alone
    <3>3. reqs'[r].pc \in {"pick", "decide"} /\ reqs'[r].then = q.then
      BY <2>0, <2>3, <3>2 DEF PickFails, Idle
    <3> QED
      BY <2>0, <2>1, <2>3, <3>2, <3>3 DEF PickFails, AtWork, registryVars
  <2>4. CASE Decide(r)
    <3>1. PICK until :
            \/ reqs' = [reqs EXCEPT ![r] = [q EXCEPT !.pc = "wait", !.until = until]]
            \/ reqs' = [reqs EXCEPT ![r] = [q EXCEPT !.pc = "return"]]
      BY <2>4 DEF Decide
    <3>2. /\ \A s \in Reqs \ {r} : reqs'[s] = reqs[s]
          /\ reqs'[r] \in {[q EXCEPT !.pc = "wait", !.until = until], [q EXCEPT !.pc = "return"]}
      BY <3>1, Alone
    <3>3. reqs'[r].pc \in {"wait", "return"} /\ reqs'[r].then = q.then
      BY <2>0, <3>2 DEF Idle
    <3> QED
      BY <2>0, <2>1, <2>4, <3>2, <3>3 DEF Decide, AtWork, registryVars
  <2>5. CASE WaitEnds(r) \/ WaitCancelled(r)
    <3>1. \/ reqs' = [reqs EXCEPT ![r] = [q EXCEPT !.pc = "pick", !.at = 1, !.tried = {},
                                                   !.until = 0, !.attempt = @ + 1]]
          \/ reqs' = [reqs EXCEPT ![r] = [q EXCEPT !.pc = "return"]]
      BY <2>5 DEF WaitEnds, WaitCancelled
    <3>2. /\ \A s \in Reqs \ {r} : reqs'[s] = reqs[s]
          /\ reqs'[r] \in {[q EXCEPT !.pc = "pick", !.at = 1, !.tried = {},
                                     !.until = 0, !.attempt = @ + 1], [q EXCEPT !.pc = "return"]}
      BY <3>1, Alone
    <3>3. reqs'[r].pc \in {"pick", "return"} /\ reqs'[r].then = q.then
      BY <2>0, <3>2 DEF Idle
    <3> QED
      BY <2>0, <2>1, <2>5, <3>2, <3>3 DEF WaitEnds, WaitCancelled, AtWork, registryVars
  <2>6. CASE StreamAbandoned(r) \/ Return(r)
    <3>1. reqs' = [reqs EXCEPT ![r] = Idle]
      BY <2>6 DEF StreamAbandoned, Return
    <3>2. reqs'[r] = Idle /\ \A s \in Reqs \ {r} : reqs'[s] = reqs[s]
      BY <3>1, Alone
    <3> QED
      BY <2>1, <2>6, <3>2 DEF StreamAbandoned, Return, AtWork, registryVars, Idle
  <2>7. CASE Pick(r)
    <3>1. q.model \in AnyModel /\ q.providers[q.at] \in Providers
      BY <2>7, PickWorks
    <3>2. PICK chosen, tried :
            /\ chosen \in Available(q)
            /\ reqs' = [reqs EXCEPT ![r] = [q EXCEPT !.pc = "exec", !.auth = chosen, !.tried = tried]]
      BY <2>7, PickWorks
    <3>3. /\ reqs'[r] = [q EXCEPT !.pc = "exec", !.auth = chosen, !.tried = tried]
          /\ \A s \in Reqs \ {r} : reqs'[s] = reqs[s]
      BY <3>2, Alone
    <3>4. /\ reqs'[r].pc = "exec" /\ reqs'[r].auth = chosen /\ reqs'[r].model = q.model
          /\ reqs'[r].then = q.then
      BY <2>0, <3>3 DEF Idle
    <3>5. cursors' \in [Providers -> [AnyModel -> Nat]]
      <4>1. PICK index \in Nat :
              cursors' = [cursors EXCEPT ![q.providers[q.at]][q.model] = index + 1]
        BY <2>0, <2>7, <3>1 DEF Pick
      <4> QED
        BY <2>0, <3>1, <4>1
    <3> QED
      BY <2>0, <2>7, <3>2, <3>3, <3>4, <3>5 DEF OneMoves, Picks, Pick, registryVars
  <2>8. CASE StreamOpens(r)
    <3>1. /\ reqs'[r] = [q EXCEPT !.pc = "stream"]
          /\ \A s \in Reqs \ {r} : reqs'[s] = reqs[s]
      BY <2>0, <2>8, Alone DEF StreamOpens
    <3>2. /\ reqs'[r].pc = "stream" /\ reqs'[r].auth = q.auth /\ reqs'[r].model = q.model
          /\ reqs'[r].then = q.then
      BY <2>0, <3>1 DEF Idle
    <3> QED
      BY <2>0, <2>8, <3>1, <3>2 DEF OneMoves, Opens, StreamOpens, registryVars
  <2>9. ASSUME NEW ops, NEW next, next \notin AtWork,
               reqs' = [reqs EXCEPT ![r] = Marked(q, ops, next)]
        PROVE  /\ \A s \in Reqs \ {r} : reqs'[s] = reqs[s]
               /\ reqs'[r].then \notin AtWork
               /\ IF ops = <<>> THEN reqs'[r].pc \notin AtWork
                  ELSE /\ reqs'[r].pc = "ops" /\ reqs'[r].ops = ops
                       /\ reqs'[r].model = q.model /\ reqs'[r].auth = q.auth
    BY <2>0, <2>9, MarkedFields, Alone
  <2>10. CASE ExecSucceeds(r) \/ StreamEnds(r)
    <3>1. PICK next : /\ next \notin AtWork
                      /\ reqs' = [reqs EXCEPT ![r] = Marked(q, SuccessOps(q.model), next)]
      BY <2>10 DEF ExecSucceeds, StreamEnds, RecordSuccess, AtWork
    <3>2. Succeeds(r)
      BY <2>9, <2>10, <3>1 DEF Succeeds, Records, ExecSucceeds, StreamEnds, RecordSuccess, registryVars
    <3> QED
      BY <2>0, <2>9, <2>10, <3>1, <3>2 DEF OneMoves, ExecSucceeds, StreamEnds
  <2>11. CASE ExecFails(r) \/ StreamFails(r)
    <3>1. PICK kind \in Failures, retryAfter \in RetryAfters \union {NoRetryAfter},
                next \in {"pick", "idle"} :
            /\ next \notin AtWork
            /\ reqs' = [reqs EXCEPT ![r] = Marked(q, FailureOps(q.model, kind), next)]
            /\ auths' = [auths EXCEPT ![q.auth] = MarkFailure(@, q.model, kind, retryAfter, now)]
      BY <2>11 DEF ExecFails, StreamFails, RecordFailure, AtWork
    <3>2. Records(r, FailureOps(q.model, kind))
      BY <2>9, <2>11, <3>1 DEF Records, ExecFails, StreamFails, registryVars
    <3>3. Fails(r)
      BY <3>1, <3>2 DEF Fails
    <3> QED
      BY <3>1, <2>0, <2>9, <2>11, <3>1, <3>3 DEF OneMoves, ExecFails, StreamFails
  <2>12. CASE RegistryOp(r)
    <3>1. reqs' = [reqs EXCEPT ![r] = Marked(q, Tail(q.ops), q.then)]
      BY <2>12 DEF RegistryOp
    <3>2. Registers(r)
      BY <2>0, <2>9, <2>12, <3>1 DEF Registers, RegistryOp
    <3> QED
      BY <2>0, <2>9, <2>12, <3>1, <3>2 DEF OneMoves, RegistryOp
  <2> QED
    BY <1>2, <2>2, <2>3, <2>4, <2>5, <2>6, <2>7, <2>8, <2>10, <2>11, <2>12 DEF Step
<1> QED
  BY <1>1, <1>2 DEF Next

LEMMA SentStep ==
  ASSUME RequestsNamed, SentInv, [Next]_vars
  PROVE  SentInv'
<1>1. CASE Waits
  BY <1>1, StepKinds DEF Waits, SentInv
<1>2. ASSUME NEW r \in Reqs, OneMoves(r), reqs'[r].then \notin AtWork PROVE SentInv'
  <2>1. reqs'[r].pc \in AtWork => reqs'[r].auth \in Auths
    BY <1>2 DEF OneMoves, Walks, Picks, Opens, Succeeds, Fails, Records, Registers, RegistryOp,
                SentInv, AtWork, Available, Candidates
  <2> QED
    BY <1>2, <2>1, StepKinds DEF SentInv, OneMoves
<1> QED
  BY <1>1, <1>2, StepKinds

-----------------------------------------------------------------------------
(* A credential over quota rests until it recovers. *)

\* One request at a time.
OneAtATime == \A r, s \in Reqs : r = s
\* No two requests ask the same credential for the same model at once.
Separate ==
  \A r, s \in Reqs :
    /\ reqs[r].pc \in {"exec", "stream"} /\ reqs[s].pc \in {"exec", "stream"}
    /\ reqs[r].auth = reqs[s].auth /\ reqs[r].model = reqs[s].model
    => r = s
\* Nothing fails but for quota.
OnlyQuota == Failures \subseteq {"quota"}

\* h is over quota and has not recovered at t.
HeldBack(h, t) == h.exceeded /\ h.recover > t
\* While it is, it also keeps the credential away for at least as long.
Covered(h, t) == HeldBack(h, t) => h.unavailable /\ h.next >= h.recover

RecoverInv ==
  /\ \A a \in Auths, m \in Models : Covered(auths[a].models[m], now)
  /\ \/ OnlyQuota
     \/ \A r \in Reqs : reqs[r].pc \in {"exec", "stream"} =>
          ~HeldBack(auths[reqs[r].auth].models[reqs[r].model], now)

LEMMA HeldBackLapsed ==
  ASSUME NEW h \in HoldFields, NEW t, NEW k \in Lapsed(h, t)
  PROVE  HeldBack(k, t) = HeldBack(h, t)
BY DEF Lapsed, Expire, HoldFields, HeldBack

LEMMA CoveredLapsed ==
  ASSUME NEW h \in HoldFields, NEW t \in Nat, Covered(h, t), NEW k \in Lapsed(h, t)
  PROVE  Covered(k, t)
<1> DEFINE expired == [h EXCEPT !.unavailable = FALSE, !.next = 0]
<1>1. expired.recover = h.recover /\ expired.exceeded = h.exceeded
  BY DEF HoldFields
<1>2. h.next \in Int /\ h.recover \in Int
  BY DEF HoldFields
<1>3. CASE k = h
  BY <1>3
<1>4. CASE k # h
  <2>1. h.next <= t /\ k = expired
    BY <1>4 DEF Lapsed, Expire
  <2> HIDE DEF expired
  <2> QED
    BY <1>1, <1>2, <2>1 DEF Covered, HeldBack
<1> QED
  BY <1>3, <1>4

LEMMA CoveredFailure ==
  ASSUME NEW h \in HoldFields, NEW t \in Nat, NEW kind \in FailureKinds, NEW ra,
         FailedHold(h, kind, ra, t, 0) \in HoldFields,
         ~HeldBack(h, t) \/ kind = "quota"
  PROVE  Covered(FailedHold(h, kind, ra, t, 0), t)
<1> DEFINE down == [h EXCEPT !.status = "error", !.err = TRUE, !.unavailable = TRUE]
           failed == FailedHold(h, kind, ra, t, 0)
<1>1. down \in HoldFields /\ down.recover = h.recover /\ down.exceeded = h.exceeded
      /\ down.unavailable
  BY DEF HoldFields
<1>2. CASE kind = "quota"
  <2>1. PICK next, level : failed = [down EXCEPT !.next = next, !.recover = next,
                                                 !.exceeded = TRUE, !.level = level]
    BY <1>2 DEF FailedHold, QuotaHold
  <2> HIDE DEF down, failed
  <2>2. failed.unavailable /\ failed.next = failed.recover
    BY <1>1, <2>1 DEF HoldFields
  <2>3. failed.next \in Int
    BY DEF failed, HoldFields
  <2> QED
    BY <2>2, <2>3 DEF Covered, failed
<1>3. CASE kind # "quota"
  <2>1. PICK next : failed = [down EXCEPT !.next = next]
    BY <1>3 DEF FailedHold, FailureKinds
  <2> HIDE DEF down, failed
  <2>2. failed.recover = h.recover /\ failed.exceeded = h.exceeded
    BY <1>1, <2>1 DEF HoldFields
  <2> QED
    BY <1>3, <2>2 DEF Covered, HeldBack, failed
<1> QED
  BY <1>2, <1>3

\* What a failure leaves of a hold is a hold.
LEMMA FailedIsHold ==
  ASSUME TimesInv, NEW a \in Auths, NEW m \in Models,
         NEW kind \in Failures, NEW ra \in RetryAfters \union {NoRetryAfter}
  PROVE  FailedHold(auths[a].models[m], kind, ra, now, 0) \in HoldFields
<1>1. HoldWithin(auths[a].models[m], now + LongestWait) /\ now \in Nat
  BY DEF TimesInv, AuthWithin
<1>2. kind \in FailureKinds
  BY AuthManagerAssumption
<1>3. 0 \in Int /\ 0 <= now + LongestWait
  BY <1>1, WaitsBounded
<1> QED
  BY <1>1, <1>2, <1>3, FailureWithin DEF HoldWithin

\* A credential that nothing blocks is not over quota.
LEMMA AvailableRecovered ==
  ASSUME TimesInv, RecoverInv, NEW r \in Reqs, reqs[r].model \in Models,
         NEW a \in Available(reqs[r])
  PROVE  a \in Auths /\ ~HeldBack(auths[a].models[reqs[r].model], now)
<1> DEFINE h == auths[a].models[reqs[r].model]
<1>1. a \in Auths /\ ~Blocked(auths[a], reqs[r].model, now)
  BY DEF Available, Candidates
<1>2. ~(h.unavailable /\ h.next > now)
  <2>1. reqs[r].model # NoModel
    BY CredentialAssumption
  <2> QED
    BY <1>1, <2>1 DEF Blocked, CoolingDown, Deciding
<1>3. h \in HoldFields /\ now \in Nat /\ Covered(h, now)
  BY <1>1 DEF TimesInv, AuthWithin, HoldWithin, RecoverInv
<1> HIDE DEF h
<1>4. h.next \in Int /\ h.recover \in Int
  BY <1>3 DEF HoldFields
<1>5. ~HeldBack(h, now)
  BY <1>2, <1>3, <1>4 DEF Covered, HeldBack
<1> QED
  BY <1>1, <1>5 DEF h

LEMMA RecoverStep ==
  ASSUME NoModel \notin RequestModels, OnlyQuota \/ Separate,
         TimesInv, SentInv, RecoverInv, [Next]_vars
  PROVE  RecoverInv'
<1>1. /\ RequestsNamed /\ now \in Nat /\ DOMAIN auths = Auths
      /\ \A a \in Auths : /\ auths[a] \in AuthFields
                          /\ \A m \in Models : /\ auths[a].models[m] \in HoldFields
                                               /\ Covered(auths[a].models[m], now)
  BY DEF TimesInv, AuthWithin, HoldWithin, RecoverInv
<1>2. CASE Waits
  <2>1. \A h \in HoldFields : h.recover \in Int
    BY DEF HoldFields
  <2>2. \A h \in HoldFields : /\ Covered(h, now) => Covered(h, now')
                              /\ ~HeldBack(h, now) => ~HeldBack(h, now')
    BY <1>1, <1>2, <2>1 DEF Waits, Covered, HeldBack
  <2>3. \A r \in Reqs : reqs[r].pc \in {"exec", "stream"} =>
          auths[reqs[r].auth].models[reqs[r].model] \in HoldFields
    <3>1. \A r \in Reqs : reqs[r].pc \in {"exec", "stream"} =>
            reqs[r].auth \in Auths /\ reqs[r].model \in Models
      BY <1>1, AuthManagerAssumption DEF SentInv, AtWork, RequestsNamed, WellNamed, AnyModel
    <3> QED
      BY <1>1, <3>1
  <2> QED
    BY <1>1, <1>2, <2>2, <2>3 DEF Waits, RecoverInv
<1>3. ASSUME NEW r \in Reqs, OneMoves(r) PROVE RecoverInv'
  <2> DEFINE q == reqs[r]
  <2>1. \A s \in Reqs : s # r => reqs'[s] = reqs[s]
    BY <1>3 DEF OneMoves
  <2>2. q.pc # "idle" => q.model \in Models
    BY <1>1, AuthManagerAssumption DEF RequestsNamed, WellNamed, AnyModel
  <2>3. CASE Walks(r) \/ Registers(r)
    <3>1. UNCHANGED <<auths, now>> /\ reqs'[r].pc \notin {"exec", "stream"}
      BY <2>3 DEF Walks, Registers, AtWork
    <3> QED
      BY <2>1, <3>1 DEF RecoverInv
  <2>4. CASE Picks(r)
    <3>1. /\ UNCHANGED <<auths, now>> /\ reqs'[r].auth \in Available(q)
          /\ reqs'[r].model = q.model /\ q.model \in Models
      BY <2>2, <2>4 DEF Picks
    <3>2. ~HeldBack(auths[reqs'[r].auth].models[q.model], now)
      BY <3>1, AvailableRecovered
    <3> QED
      BY <2>1, <3>1, <3>2 DEF RecoverInv
  <2>5. CASE Opens(r)
    BY <2>1, <2>5 DEF Opens, RecoverInv
  <2>6. ASSUME NEW auth, auths' = [auths EXCEPT ![q.auth] = auth], UNCHANGED now,
               q.pc \in {"exec", "stream"}, reqs'[r].pc \notin {"exec", "stream"},
               \A m \in Models : Covered(auth.models[m], now),
               \A m \in Models : m # q.model /\ HeldBack(auth.models[m], now) =>
                                    HeldBack(auths[q.auth].models[m], now)
        PROVE  RecoverInv'
    <3>1. \A a \in Auths : auths'[a] = IF a = q.auth THEN auth ELSE auths[a]
      BY <1>1, <2>6
    <3>2. \A a \in Auths, m \in Models : Covered(auths'[a].models[m], now')
      BY <1>1, <2>6, <3>1
    <3>3. ASSUME ~OnlyQuota, NEW s \in Reqs, reqs'[s].pc \in {"exec", "stream"}
          PROVE  ~HeldBack(auths'[reqs'[s].auth].models[reqs'[s].model], now')
      <4>1. s # r /\ reqs'[s] = reqs[s]
        BY <2>1, <2>6, <3>3
      <4>2. reqs[s].auth # q.auth \/ reqs[s].model # q.model
        BY <2>6, <3>3, <4>1 DEF Separate
      <4>3. reqs[s].auth \in Auths /\ reqs[s].model \in Models
        BY <1>1, <3>3, <4>1, AuthManagerAssumption
           DEF SentInv, AtWork, RequestsNamed, WellNamed, AnyModel
      <4>4. ~HeldBack(auths[reqs[s].auth].models[reqs[s].model], now)
        BY <3>3, <4>1 DEF RecoverInv
      <4> QED
        BY <2>6, <3>1, <4>1, <4>2, <4>3, <4>4
    <3> QED
      BY <3>2, <3>3 DEF RecoverInv
  <2>7. CASE Succeeds(r)
    <3>1. /\ q.auth \in Auths /\ q.model \in Models /\ UNCHANGED now
          /\ q.pc \in {"exec", "stream"} /\ reqs'[r].pc \notin {"exec", "stream"}
          /\ auths' = [auths EXCEPT ![q.auth] = MarkSuccess(auths[q.auth], q.model, now)]
      BY <2>2, <2>7 DEF Succeeds, Records, SentInv, AtWork
    <3>2. Covered(Healthy, now) /\ Healthy \in HoldFields
      BY DEF Covered, HeldBack, Healthy, HoldFields
    <3>3. ASSUME NEW m \in Models
          PROVE  LET k == MarkSuccess(auths[q.auth], q.model, now).models[m]
                 IN  /\ Covered(k, now)
                     /\ m # q.model /\ HeldBack(k, now) =>
                          HeldBack(auths[q.auth].models[m], now)
      <4> DEFINE h == IF m = q.model THEN Healthy ELSE auths[q.auth].models[m]
      <4>1. h \in HoldFields /\ Covered(h, now)
        BY <1>1, <3>1, <3>2
      <4>2. MarkSuccess(auths[q.auth], q.model, now).models[m] \in Lapsed(h, now)
        BY <1>1, <3>1, SuccessModels
      <4> QED
        BY <1>1, <4>1, <4>2, CoveredLapsed, HeldBackLapsed
    <3> QED
      BY <2>6, <3>1, <3>3
  <2>8. CASE Fails(r)
    <3>1. PICK kind \in Failures, ra \in RetryAfters \union {NoRetryAfter} :
            /\ Records(r, FailureOps(q.model, kind))
            /\ auths' = [auths EXCEPT ![q.auth] = MarkFailure(auths[q.auth], q.model, kind, ra, now)]
      BY <2>8 DEF Fails
    <3>2. /\ q.auth \in Auths /\ q.model \in Models /\ UNCHANGED now
          /\ q.pc \in {"exec", "stream"}
          /\ reqs'[r].pc \notin {"exec", "stream"}
      BY <2>2, <3>1 DEF Records, SentInv, AtWork
    <3> DEFINE failed == FailedHold(auths[q.auth].models[q.model], kind, ra, now, 0)
    <3>3. failed \in HoldFields
      BY <3>2, FailedIsHold
    <3>4. Covered(failed, now)
      <4>1. ~HeldBack(auths[q.auth].models[q.model], now) \/ kind = "quota"
        BY <3>2 DEF RecoverInv, OnlyQuota
      <4>2. kind \in FailureKinds
        BY AuthManagerAssumption
      <4> QED
        BY <1>1, <3>2, <3>3, <4>1, <4>2, CoveredFailure
    <3>5. ASSUME NEW m \in Models
          PROVE  LET k == MarkFailure(auths[q.auth], q.model, kind, ra, now).models[m]
                 IN  /\ Covered(k, now)
                     /\ m # q.model /\ HeldBack(k, now) =>
                          HeldBack(auths[q.auth].models[m], now)
      <4> DEFINE h == IF m = q.model THEN failed ELSE auths[q.auth].models[m]
      <4>1. h \in HoldFields /\ Covered(h, now)
        BY <1>1, <3>2, <3>3, <3>4
      <4>2. MarkFailure(auths[q.auth], q.model, kind, ra, now).models[m] \in Lapsed(h, now)
        BY <1>1, <3>2, <3>3, FailureModels
      <4> QED
        BY <1>1, <4>1, <4>2, CoveredLapsed, HeldBackLapsed
    <3> QED
      BY <2>6, <3>1, <3>2, <3>5
  <2> QED
    BY <1>3, <2>3, <2>4, <2>5, <2>7, <2>8 DEF OneMoves
<1> QED
  BY <1>1, <1>2, <1>3, StepKinds

LEMMA RecoverInit == Init => SentInv /\ RecoverInv
<1> SUFFICES ASSUME Init PROVE SentInv /\ RecoverInv
  OBVIOUS
<1>1. /\ auths = [a \in Auths |-> NewAuth] /\ reqs = [r \in Reqs |-> Idle]
      /\ cursors = [p \in Providers |-> [m \in AnyModel |-> 0]]
  BY DEF Init
<1>2. Idle.pc = "idle" /\ Idle.then = "idle"
  BY DEF Idle
<1>3. \A m \in Models : ~NewAuth.models[m].exceeded
  BY DEF NewAuth, Healthy
<1> QED
  BY ONLY <1>1, <1>2, <1>3 DEF SentInv, RecoverInv, AtWork, Covered, HeldBack

\* A credential over quota is not picked before the time it said it would
\* recover, for any number of requests: as long as no two of them ask the same
\* credential for the same model at once, or if nothing fails but for quota.
THEOREM QuotaRests ==
  ASSUME NoModel \notin RequestModels
  PROVE  Spec /\ [](OnlyQuota \/ Separate) => RecoverRespected
<1>1. Init => SentInv /\ RecoverInv
  BY RecoverInit
<1>2. TimesInv /\ SentInv /\ RecoverInv /\ (OnlyQuota \/ Separate) /\ [Next]_vars
        => (SentInv /\ RecoverInv)'
  BY RecoverStep, SentStep DEF TimesInv
<1>3. ASSUME TimesInv, SentInv, RecoverInv, [Next]_vars
      PROVE  [\A r \in Reqs : Pick(r) =>
                LET h == Deciding(auths[reqs'[r].auth], reqs[r].model)
                IN  ~(h.exceeded /\ h.recover > now)]_vars
  <2> SUFFICES ASSUME NEW r \in Reqs, Pick(r)
               PROVE  ~HeldBack(Deciding(auths[reqs'[r].auth], reqs[r].model), now)
    BY DEF HeldBack
  <2>0. reqs[r].pc = "pick" /\ RequestsNamed /\ WellNamed(reqs[r])
    BY <1>3 DEF Pick, TimesInv, RequestsNamed
  <2>1. reqs[r].model \in Models /\ reqs[r].model # NoModel
    BY <2>0, AuthManagerAssumption DEF WellNamed, AnyModel
  <2>2. reqs'[r].auth \in Available(reqs[r])
    <3>1. PICK chosen, tried :
            /\ chosen \in Available(reqs[r])
            /\ reqs' = [reqs EXCEPT ![r] =
                 [reqs[r] EXCEPT !.pc = "exec", !.auth = chosen, !.tried = tried]]
      BY <1>3, <2>0, PickWorks
    <3>2. reqs'[r] = [reqs[r] EXCEPT !.pc = "exec", !.auth = chosen, !.tried = tried]
      BY <2>0, <3>1, Alone
    <3> QED
      BY <2>0, <3>1, <3>2 DEF WellNamed, Idle
  <2>3. ~HeldBack(auths[reqs'[r].auth].models[reqs[r].model], now)
    BY <1>3, <2>1, <2>2, AvailableRecovered
  <2> QED
    BY <2>1, <2>3 DEF Deciding
<1>4. Init /\ [][Next]_vars /\ [](OnlyQuota \/ Separate) => [](TimesInv /\ SentInv /\ RecoverInv)
  BY <1>1, <1>2, TimesInit, TimesStep, PTL
<1>5. Spec /\ [](OnlyQuota \/ Separate) => [](TimesInv /\ SentInv /\ RecoverInv)
  BY <1>4 DEF Spec
<1> QED
  BY <1>3, <1>5, PTL DEF Spec, RecoverRespected

\* In particular when one request runs at a time, whatever it meets.
THEOREM QuotaRestsAlone ==
  ASSUME NoModel \notin RequestModels, OneAtATime
  PROVE  Spec => RecoverRespected
<1>1. OnlyQuota \/ Separate
  BY DEF OneAtATime, Separate
<1> QED
  BY <1>1, QuotaRests, PTL

-----------------------------------------------------------------------------
(* The registry's marks follow the credential. *)

RegistryTypes ==
  /\ models \in [Models -> Registry!Registration]
  /\ \A a \in Auths, m \in Models : models[m].count > 0

\* The marks of reg on credential a are those of a model with hold h.
Agrees(h, reg, a) ==
  /\ ~h.err => reg.suspended[a] = "none" /\ reg.quota[a] = "none"
  /\ h.exceeded => reg.suspended[a] # "none"

\* They will be, once the registry calls in ops are made.
Owed(h, reg, a, ops) ==
  \/ ops = <<"clear", "resume">> /\ ~h.exceeded
  \/ ops = <<"resume">> /\ ~h.exceeded /\ reg.quota[a] = "none"
  \/ ops \in {<<"set", "suspend_quota">>, <<"suspend_quota">>, <<"suspend_other">>} /\ h.err

Owes(r, a, m) == reqs[r].pc = "ops" /\ reqs[r].auth = a /\ reqs[r].model = m
\* Registry calls for one credential and model are not outstanding twice.
Apart == \A r, s \in Reqs, a \in Auths, m \in Models : Owes(r, a, m) /\ Owes(s, a, m) => r = s

MarksInv ==
  /\ RegistryTypes
  /\ \A r \in Reqs : reqs[r].pc = "ops" => reqs[r].model \in Models
  /\ \A a \in Auths, m \in Models :
       /\ (\A r \in Reqs : ~Owes(r, a, m)) => Agrees(auths[a].models[m], models[m], a)
       /\ \A r \in Reqs : Owes(r, a, m) =>
            Owed(auths[a].models[m], models[m], a, reqs[r].ops)

\* What the registry keeps of a model and a credential.
Marks(m, a) == <<models[m].quota[a], models[m].suspended[a]>>

LEMMA QuotaMarked ==
  ASSUME RegistryTypes, NEW c \in Auths, NEW n \in Models, NEW mark \in Registry!QuotaMark,
         models' = [models EXCEPT ![n].quota[c] = mark]
  PROVE  /\ RegistryTypes'
         /\ models'[n].quota[c] = mark /\ models'[n].suspended[c] = models[n].suspended[c]
         /\ \A a \in Auths, m \in Models : m # n \/ a # c => Marks(m, a)' = Marks(m, a)
<1> DEFINE reg == [models[n] EXCEPT !.quota[c] = mark]
<1>1. models \in [Models -> Registry!Registration]
  BY DEF RegistryTypes
<1>2. /\ reg \in Registry!Registration /\ reg.count = models[n].count
      /\ reg.quota = [models[n].quota EXCEPT ![c] = mark] /\ reg.suspended = models[n].suspended
      /\ DOMAIN models[n].quota = Auths
  BY <1>1 DEF Registry!Registration
<1>3. models' = [models EXCEPT ![n] = reg]
  OBVIOUS
<1> HIDE DEF reg
<1> QED
  BY <1>1, <1>2, <1>3 DEF RegistryTypes, Marks

LEMMA SuspensionMarked ==
  ASSUME RegistryTypes, NEW c \in Auths, NEW n \in Models, NEW mark \in Registry!SuspendMark,
         models' = [models EXCEPT ![n].suspended[c] = mark]
  PROVE  /\ RegistryTypes'
         /\ models'[n].suspended[c] = mark /\ models'[n].quota[c] = models[n].quota[c]
         /\ \A a \in Auths, m \in Models : m # n \/ a # c => Marks(m, a)' = Marks(m, a)
<1> DEFINE reg == [models[n] EXCEPT !.suspended[c] = mark]
<1>1. models \in [Models -> Registry!Registration]
  BY DEF RegistryTypes
<1>2. /\ reg \in Registry!Registration /\ reg.count = models[n].count
      /\ reg.suspended = [models[n].suspended EXCEPT ![c] = mark] /\ reg.quota = models[n].quota
      /\ DOMAIN models[n].suspended = Auths
  BY <1>1 DEF Registry!Registration
<1>3. models' = [models EXCEPT ![n] = reg]
  OBVIOUS
<1> HIDE DEF reg
<1> QED
  BY <1>1, <1>2, <1>3 DEF RegistryTypes, Marks

\* The registry calls, one by one.
Called(op, c, n) ==
  \/ op = "clear" /\ Registry!ClearModelQuotaExceeded(c, n)
  \/ op = "set" /\ Registry!SetModelQuotaExceeded(c, n)
  \/ op = "resume" /\ Registry!ResumeClientModel(c, n)
  \/ op = "suspend_quota" /\ Registry!SuspendClientModel(c, n, "quota")
  \/ op = "suspend_other" /\ Registry!SuspendClientModel(c, n, "other")

LEMMA OpEffect ==
  ASSUME RegistryTypes, NEW op, NEW c \in Auths, NEW n \in Models, Called(op, c, n)
  PROVE  /\ RegistryTypes'
         /\ \A a \in Auths, m \in Models : m # n \/ a # c => Marks(m, a)' = Marks(m, a)
         /\ op = "clear" => models'[n].quota[c] = "none"
         /\ op = "resume" => /\ models'[n].suspended[c] = "none"
                             /\ models'[n].quota[c] = models[n].quota[c]
         /\ op \in {"suspend_quota", "suspend_other"} => models'[n].suspended[c] # "none"
<1>1. models[n].suspended[c] \in Registry!SuspendMark /\ models[n].count > 0
  BY DEF RegistryTypes, Registry!Registration
<1>2. {"none", "live"} \subseteq Registry!QuotaMark /\ {"none", "quota", "other"} \subseteq Registry!SuspendMark
  BY DEF Registry!QuotaMark, Registry!SuspendMark
<1>3. CASE op = "clear" /\ Registry!ClearModelQuotaExceeded(c, n)
  <2>1. models' = [models EXCEPT ![n].quota[c] = "none"]
    BY <1>3 DEF Registry!ClearModelQuotaExceeded
  <2>2. /\ RegistryTypes' /\ models'[n].quota[c] = "none"
        /\ \A a \in Auths, m \in Models : m # n \/ a # c => Marks(m, a)' = Marks(m, a)
    BY <1>2, <2>1, QuotaMarked
  <2> QED
    BY <1>3, <2>2
<1>4. CASE op = "set" /\ Registry!SetModelQuotaExceeded(c, n)
  <2>1. models' = [models EXCEPT ![n].quota[c] = "live"]
    BY <1>1, <1>4 DEF Registry!SetModelQuotaExceeded, Registry!Exists
  <2>2. /\ RegistryTypes'
        /\ \A a \in Auths, m \in Models : m # n \/ a # c => Marks(m, a)' = Marks(m, a)
    BY <1>2, <2>1, QuotaMarked
  <2> QED
    BY <1>4, <2>2
<1>5. CASE op = "resume" /\ Registry!ResumeClientModel(c, n)
  <2>1. models' = [models EXCEPT ![n].suspended[c] = "none"]
    BY <1>5 DEF Registry!ResumeClientModel
  <2>2. /\ RegistryTypes' /\ models'[n].suspended[c] = "none"
        /\ models'[n].quota[c] = models[n].quota[c]
        /\ \A a \in Auths, m \in Models : m # n \/ a # c => Marks(m, a)' = Marks(m, a)
    BY <1>2, <2>1, SuspensionMarked
  <2> QED
    BY <1>5, <2>2
<1>6. ASSUME NEW reason \in {"quota", "other"}, op \in {"suspend_quota", "suspend_other"},
             Registry!SuspendClientModel(c, n, reason)
      PROVE  /\ RegistryTypes'
             /\ \A a \in Auths, m \in Models : m # n \/ a # c => Marks(m, a)' = Marks(m, a)
             /\ models'[n].suspended[c] # "none"
  <2>1. CASE models[n].suspended[c] = "none"
    <3>1. models' = [models EXCEPT ![n].suspended[c] = reason]
      BY <1>1, <1>6, <2>1 DEF Registry!SuspendClientModel, Registry!Exists
    <3>2. /\ RegistryTypes' /\ models'[n].suspended[c] = reason
          /\ \A a \in Auths, m \in Models : m # n \/ a # c => Marks(m, a)' = Marks(m, a)
      BY <1>2, <3>1, SuspensionMarked
    <3> QED
      BY <3>2
  <2>2. CASE models[n].suspended[c] # "none"
    <3>1. models' = models
      BY <1>6, <2>2 DEF Registry!SuspendClientModel
    <3> QED
      BY <2>2, <3>1 DEF RegistryTypes, Marks
  <2> QED
    BY <2>1, <2>2
<1>7. CASE \/ op = "suspend_quota" /\ Registry!SuspendClientModel(c, n, "quota")
           \/ op = "suspend_other" /\ Registry!SuspendClientModel(c, n, "other")
  BY <1>6, <1>7
<1> QED
  BY <1>3, <1>4, <1>5, <1>7 DEF Called

LEMMA LapsedMarks ==
  ASSUME NEW h \in HoldFields, NEW t, NEW k \in Lapsed(h, t)
  PROVE  k.err = h.err /\ k.exceeded = h.exceeded
BY DEF Lapsed, Expire, HoldFields

LEMMA FailedMarks ==
  ASSUME NEW h \in HoldFields, NEW t, NEW kind \in FailureKinds, NEW ra
  PROVE  LET failed == FailedHold(h, kind, ra, t, 0)
         IN  failed.err /\ (kind # "quota" => failed.exceeded = h.exceeded)
<1> DEFINE down == [h EXCEPT !.status = "error", !.err = TRUE, !.unavailable = TRUE]
           failed == FailedHold(h, kind, ra, t, 0)
<1>1. down \in HoldFields /\ down.err /\ down.exceeded = h.exceeded
  BY DEF HoldFields
<1>2. CASE kind = "quota"
  <2>1. PICK next, level : failed = [down EXCEPT !.next = next, !.recover = next,
                                                 !.exceeded = TRUE, !.level = level]
    BY <1>2 DEF FailedHold, QuotaHold
  <2> HIDE DEF down, failed
  <2>2. failed.err
    BY <1>1, <2>1 DEF HoldFields
  <2> QED
    BY <1>2, <2>2 DEF failed
<1>3. CASE kind # "quota"
  <2>1. PICK next : failed = [down EXCEPT !.next = next]
    BY <1>3 DEF FailedHold, FailureKinds
  <2> HIDE DEF down, failed
  <2>2. failed.err /\ failed.exceeded = h.exceeded
    BY <1>1, <2>1 DEF HoldFields
  <2> QED
    BY <2>2 DEF failed
<1> QED
  BY <1>2, <1>3

\* A result is recorded, and auth is what becomes of the credential: with no
\* registry call to follow, the model has one more error; otherwise the calls
\* will make the registry agree.
LEMMA RecordedMarks ==
  ASSUME Apart', MarksInv, DOMAIN auths = Auths, NEW r \in Reqs, NEW ops, Records(r, ops),
         \A s \in Reqs : s # r => reqs'[s] = reqs[s],
         NEW auth, auths' = [auths EXCEPT ![reqs[r].auth] = auth], reqs[r].auth \in Auths,
         \A m \in Models : m # reqs[r].model =>
           /\ auth.models[m].err = auths[reqs[r].auth].models[m].err
           /\ auth.models[m].exceeded = auths[reqs[r].auth].models[m].exceeded,
         reqs[r].model \notin Models => ops = <<>>,
         reqs[r].model \in Models /\ ops = <<>> =>
           /\ auth.models[reqs[r].model].err
           /\ auth.models[reqs[r].model].exceeded = auths[reqs[r].auth].models[reqs[r].model].exceeded,
         reqs[r].model \in Models /\ ops # <<>> =>
           Owed(auth.models[reqs[r].model], models[reqs[r].model], reqs[r].auth, ops)
  PROVE  MarksInv'
<1> DEFINE c == reqs[r].auth
           n == reqs[r].model
<1>1. UNCHANGED models /\ reqs[r].pc # "ops" /\ RegistryTypes'
  BY DEF Records, MarksInv, RegistryTypes
<1>2. \A a \in Auths : auths'[a] = IF a = c THEN auth ELSE auths[a]
  OBVIOUS
<1>3. IF ops = <<>> THEN reqs'[r].pc # "ops"
      ELSE reqs'[r].pc = "ops" /\ reqs'[r].ops = ops /\ reqs'[r].model = n /\ reqs'[r].auth = c
  BY DEF Records, AtWork
<1>4. ASSUME NEW a \in Auths, NEW m \in Models, a # c \/ m # n \/ ops = <<>>
      PROVE  \A s \in Reqs : /\ Owes(s, a, m)' = Owes(s, a, m)
                             /\ Owes(s, a, m) => reqs'[s].ops = reqs[s].ops
  BY <1>1, <1>3, <1>4 DEF Owes
<1>5. ASSUME NEW a \in Auths, NEW m \in Models
      PROVE  /\ (\A s \in Reqs : ~Owes(s, a, m)') => Agrees(auths'[a].models[m], models'[m], a)
             /\ \A s \in Reqs : Owes(s, a, m)' =>
                  Owed(auths'[a].models[m], models'[m], a, reqs'[s].ops)
  <2> DEFINE before == auths[a].models[m]
             after == auths'[a].models[m]
  <2>1. /\ (\A s \in Reqs : ~Owes(s, a, m)) => Agrees(before, models[m], a)
        /\ \A s \in Reqs : Owes(s, a, m) => Owed(before, models[m], a, reqs[s].ops)
    BY DEF MarksInv
  <2>2. CASE a # c \/ m # n
    <3>1. after.err = before.err /\ after.exceeded = before.exceeded
      BY <1>2, <2>2
    <3> HIDE DEF before, after
    <3>2. /\ Agrees(before, models[m], a) => Agrees(after, models'[m], a)
          /\ \A o : Owed(before, models[m], a, o) => Owed(after, models'[m], a, o)
      BY <1>1, <3>1 DEF Agrees, Owed
    <3> QED
      BY <1>4, <2>1, <2>2, <3>2 DEF after
  <2>3. CASE a = c /\ m = n /\ ops = <<>>
    <3>1. after.err /\ after.exceeded = before.exceeded
      BY <1>2, <2>3
    <3> HIDE DEF before, after
    <3>2. /\ Agrees(before, models[m], a) => Agrees(after, models'[m], a)
          /\ \A o : Owed(before, models[m], a, o) => Owed(after, models'[m], a, o)
      BY <1>1, <3>1 DEF Agrees, Owed
    <3> QED
      BY <1>4, <2>1, <2>3, <3>2 DEF after
  <2>4. CASE a = c /\ m = n /\ ops # <<>>
    <3>1. Owes(r, a, m)' /\ reqs'[r].ops = ops
      BY <1>3, <2>4 DEF Owes
    <3>2. \A s \in Reqs : Owes(s, a, m)' => s = r
      BY <3>1 DEF Apart
    <3>3. Owed(after, models'[m], a, ops)
      BY <1>1, <1>2, <2>4
    <3> QED
      BY <3>1, <3>2, <3>3
  <2> QED
    BY <2>2, <2>3, <2>4
<1>6. \A s \in Reqs : reqs'[s].pc = "ops" => reqs'[s].model \in Models
  BY <1>1, <1>3 DEF MarksInv
<1> QED
  BY <1>1, <1>5, <1>6 DEF MarksInv, Owes

LEMMA TailFacts ==
  /\ Head(<<"clear", "resume">>) = "clear" /\ Tail(<<"clear", "resume">>) = <<"resume">>
  /\ Head(<<"set", "suspend_quota">>) = "set"
  /\ Tail(<<"set", "suspend_quota">>) = <<"suspend_quota">>
  /\ \A op : Head(<<op>>) = op /\ Tail(<<op>>) = <<>>
  /\ <<"set", "suspend_quota">> # <<>> /\ <<"clear", "resume">> # <<>>
  /\ \A op : <<op>> # <<>>
OBVIOUS

LEMMA MarksStep ==
  ASSUME Apart, Apart', TimesInv, SentInv, MarksInv, [Next]_vars
  PROVE  MarksInv'
<1>1. /\ RequestsNamed /\ now \in Nat /\ DOMAIN auths = Auths
      /\ \A a \in Auths : /\ auths[a] \in AuthFields
                          /\ \A m \in Models : auths[a].models[m] \in HoldFields
  BY DEF TimesInv, AuthWithin, HoldWithin
<1>2. CASE Waits
  BY <1>2 DEF Waits, MarksInv, RegistryTypes, Owes
<1>3. ASSUME NEW r \in Reqs, OneMoves(r) PROVE MarksInv'
  <2> DEFINE q == reqs[r]
  <2>1. \A s \in Reqs : s # r => reqs'[s] = reqs[s]
    BY <1>3 DEF OneMoves
  <2>2. q.pc \in AtWork => q.auth \in Auths /\ q.model \in AnyModel
    BY <1>1, AuthManagerAssumption DEF RequestsNamed, WellNamed, SentInv, AtWork
  <2>3. CASE Walks(r) \/ Picks(r) \/ Opens(r)
    <3>1. UNCHANGED <<auths, models>> /\ q.pc # "ops" /\ reqs'[r].pc # "ops"
      BY <2>3 DEF Walks, Picks, Opens, AtWork
    <3>2. \A s \in Reqs : /\ reqs'[s].pc = "ops" <=> reqs[s].pc = "ops"
                          /\ reqs[s].pc = "ops" => reqs'[s] = reqs[s]
      BY <2>1, <3>1
    <3> QED
      BY <3>1, <3>2 DEF MarksInv, RegistryTypes, Owes
  <2>4. CASE Succeeds(r)
    <3> DEFINE healed == MarkSuccess(auths[q.auth], q.model, now)
    <3>1. /\ q.auth \in Auths /\ q.model \in AnyModel
          /\ Records(r, SuccessOps(q.model)) /\ auths' = [auths EXCEPT ![q.auth] = healed]
      BY <2>2, <2>4 DEF Succeeds, Records, AtWork
    <3>2. CASE q.model = NoModel
      <4>1. healed.models = auths[q.auth].models
        BY <1>1, <3>1, <3>2 DEF MarkSuccess, AuthFields
      <4>2. q.model \notin Models /\ SuccessOps(q.model) = <<>>
        BY <3>2, CredentialAssumption DEF SuccessOps
      <4> HIDE DEF healed
      <4> QED
        BY <1>1, <2>1, <3>1, <4>1, <4>2, RecordedMarks
    <3>3. CASE q.model \in Models
      <4>1. SuccessOps(q.model) = <<"clear", "resume">>
        BY <3>3, CredentialAssumption DEF SuccessOps
      <4>2. Healthy \in HoldFields /\ ~Healthy.err /\ ~Healthy.exceeded
        BY DEF Healthy, HoldFields
      <4>3. ASSUME NEW m \in Models
            PROVE  LET h == IF m = q.model THEN Healthy ELSE auths[q.auth].models[m]
                   IN  healed.models[m].err = h.err /\ healed.models[m].exceeded = h.exceeded
        BY <1>1, <3>1, <3>3, <4>2, SuccessModels, LapsedMarks
      <4>4. Owed(healed.models[q.model], models[q.model], q.auth, SuccessOps(q.model))
        BY <3>3, <4>1, <4>2, <4>3 DEF Owed
      <4>5. SuccessOps(q.model) # <<>>
        BY <4>1
      <4>6. \A m \in Models : m # q.model =>
              /\ healed.models[m].err = auths[q.auth].models[m].err
              /\ healed.models[m].exceeded = auths[q.auth].models[m].exceeded
        BY <4>3
      <4> DEFINE ops == SuccessOps(q.model)
      <4>7. Records(r, ops) /\ auths' = [auths EXCEPT ![q.auth] = healed]
        BY <3>1
      <4>8. ops # <<>> /\ Owed(healed.models[q.model], models[q.model], q.auth, ops)
        BY <4>4, <4>5
      <4> HIDE DEF healed, ops
      <4> QED
        BY <1>1, <2>1, <3>1, <3>3, <4>6, <4>7, <4>8, RecordedMarks, ZenonT(60)
    <3> QED
      BY <3>1, <3>2, <3>3 DEF AnyModel
  <2>5. CASE Fails(r)
    <3>1. PICK kind \in Failures, ra \in RetryAfters \union {NoRetryAfter} :
            /\ Records(r, FailureOps(q.model, kind))
            /\ auths' = [auths EXCEPT ![q.auth] = MarkFailure(auths[q.auth], q.model, kind, ra, now)]
      BY <2>5 DEF Fails
    <3> DEFINE failing == MarkFailure(auths[q.auth], q.model, kind, ra, now)
               ops == FailureOps(q.model, kind)
    <3>2. q.auth \in Auths /\ q.model \in AnyModel /\ kind \in FailureKinds /\ q.pc # "ops"
      BY <2>2, <3>1, AuthManagerAssumption DEF Records, AtWork
    <3>3. CASE q.model = NoModel
      <4>1. failing.models = auths[q.auth].models
        BY <1>1, <3>2, <3>3 DEF MarkFailure, AuthFields
      <4>2. q.model \notin Models /\ ops = <<>>
        BY <3>3, CredentialAssumption DEF FailureOps
      <4> HIDE DEF failing
      <4> QED
        BY <1>1, <2>1, <3>1, <3>2, <4>1, <4>2, RecordedMarks DEF failing
    <3>4. CASE q.model \in Models
      <4> DEFINE before == auths[q.auth].models[q.model]
                 failed == FailedHold(before, kind, ra, now, 0)
      <4>1. failed \in HoldFields /\ before \in HoldFields
        BY <1>1, <3>2, <3>4, FailedIsHold
      <4>2. failed.err /\ (kind # "quota" => failed.exceeded = before.exceeded)
        BY <3>2, <4>1, FailedMarks
      <4>3. ASSUME NEW m \in Models
            PROVE  LET h == IF m = q.model THEN failed ELSE auths[q.auth].models[m]
                   IN  failing.models[m].err = h.err /\ failing.models[m].exceeded = h.exceeded
        <5> DEFINE h == IF m = q.model THEN failed ELSE auths[q.auth].models[m]
        <5>1. h \in HoldFields
          BY <1>1, <3>2, <4>1
        <5>2. failing.models[m] \in Lapsed(h, now)
          BY <1>1, <3>2, <3>4, <4>1, FailureModels
        <5> HIDE DEF h, failing
        <5> QED
          BY <5>1, <5>2, LapsedMarks DEF h
      <4>4. /\ kind = "quota" => ops = <<"set", "suspend_quota">>
            /\ kind \in {"denied", "not_found"} => ops = <<"suspend_other">>
            /\ kind \notin {"quota", "denied", "not_found"} => ops = <<>>
        BY <3>4, CredentialAssumption DEF FailureOps
      <4>5. /\ ops = <<>> => /\ failing.models[q.model].err
                            /\ failing.models[q.model].exceeded = before.exceeded
            /\ ops # <<>> => Owed(failing.models[q.model], models[q.model], q.auth, ops)
        <5>1. /\ failing.models[q.model].err
              /\ kind # "quota" => failing.models[q.model].exceeded = before.exceeded
          BY <3>4, <4>2, <4>3
        <5> HIDE DEF failing, before, ops
        <5>2. CASE kind \notin {"quota", "denied", "not_found"}
          BY <4>4, <5>1, <5>2
        <5>3. CASE kind \in {"quota", "denied", "not_found"}
          BY <4>4, <5>1, <5>3, TailFacts DEF Owed
        <5> QED
          BY <5>2, <5>3
      <4>6. \A m \in Models : m # q.model =>
              /\ failing.models[m].err = auths[q.auth].models[m].err
              /\ failing.models[m].exceeded = auths[q.auth].models[m].exceeded
        BY <4>3
      <4>7. Records(r, ops) /\ auths' = [auths EXCEPT ![q.auth] = failing]
        BY <3>1
      <4>8. ops = <<>> => /\ failing.models[q.model].err
                          /\ failing.models[q.model].exceeded = auths[q.auth].models[q.model].exceeded
        BY <4>5
      <4>9. ops # <<>> => Owed(failing.models[q.model], models[q.model], q.auth, ops)
        BY <4>5
      <4>10. DOMAIN auths = Auths
        BY <1>1
      <4>11. q.auth \in Auths
        BY <3>2
      <4> HIDE DEF failing, ops, before, failed
      <4> QED
        BY <2>1, <3>4, <4>6, <4>7, <4>8, <4>9, <4>10, <4>11, RecordedMarks, ZenonT(60)
    <3> QED
      BY <3>2, <3>3, <3>4 DEF AnyModel
  <2>6. CASE Registers(r)
    <3> DEFINE c == q.auth
               n == q.model
               h == auths[c].models[n]
    <3>1. /\ c \in Auths /\ n \in Models /\ q.pc = "ops" /\ UNCHANGED auths /\ RegistryTypes
          /\ Owed(h, models[n], c, q.ops) /\ Called(Head(q.ops), c, n)
      BY <2>2, <2>6 DEF Registers, RegistryOp, AtWork, MarksInv, Owes, Called
    <3>2. /\ RegistryTypes'
          /\ \A a \in Auths, m \in Models : m # n \/ a # c => Marks(m, a)' = Marks(m, a)
          /\ Head(q.ops) = "clear" => models'[n].quota[c] = "none"
          /\ Head(q.ops) = "resume" => /\ models'[n].suspended[c] = "none"
                                       /\ models'[n].quota[c] = models[n].quota[c]
          /\ Head(q.ops) \in {"suspend_quota", "suspend_other"} =>
               models'[n].suspended[c] # "none"
      BY <3>1, OpEffect
    <3>3. IF Tail(q.ops) = <<>> THEN reqs'[r].pc \notin AtWork
          ELSE /\ reqs'[r].pc = "ops" /\ reqs'[r].ops = Tail(q.ops)
               /\ reqs'[r].model = n /\ reqs'[r].auth = c
      BY <2>6 DEF Registers
    <3>4. /\ Tail(q.ops) = <<>> => Agrees(h, models'[n], c)
          /\ Tail(q.ops) # <<>> => Owed(h, models'[n], c, Tail(q.ops))
      <4> HIDE DEF h, c, n
      <4> QED
        BY <3>1, <3>2, TailFacts DEF Owed, Agrees
    <3>5. ASSUME NEW a \in Auths, NEW m \in Models, a # c \/ m # n
          PROVE  /\ (\A s \in Reqs : ~Owes(s, a, m)') => Agrees(auths'[a].models[m], models'[m], a)
                 /\ \A s \in Reqs : Owes(s, a, m)' =>
                      Owed(auths'[a].models[m], models'[m], a, reqs'[s].ops)
      <4>1. Marks(m, a)' = Marks(m, a)
        BY <3>2, <3>5
      <4>2. \A s \in Reqs : /\ Owes(s, a, m)' = Owes(s, a, m)
                            /\ Owes(s, a, m) => reqs'[s].ops = reqs[s].ops
        BY <2>1, <3>1, <3>3, <3>5 DEF Owes, AtWork
      <4>3. /\ (\A s \in Reqs : ~Owes(s, a, m)) => Agrees(auths[a].models[m], models[m], a)
            /\ \A s \in Reqs : Owes(s, a, m) =>
                 Owed(auths[a].models[m], models[m], a, reqs[s].ops)
        BY DEF MarksInv
      <4> QED
        BY <3>1, <4>1, <4>2, <4>3 DEF Agrees, Owed, Marks
    <3>6. ASSUME NEW a \in Auths, NEW m \in Models, a = c, m = n
          PROVE  /\ (\A s \in Reqs : ~Owes(s, a, m)') => Agrees(auths'[a].models[m], models'[m], a)
                 /\ \A s \in Reqs : Owes(s, a, m)' =>
                      Owed(auths'[a].models[m], models'[m], a, reqs'[s].ops)
      <4>1. /\ ~Owes(r, a, m)' => Agrees(auths'[a].models[m], models'[m], a)
            /\ Owes(r, a, m)' => Owed(auths'[a].models[m], models'[m], a, reqs'[r].ops)
        BY <3>1, <3>3, <3>4, <3>6 DEF Owes, AtWork
      <4>2. ASSUME NEW s \in Reqs, s # r PROVE ~Owes(s, a, m)'
        <5>1. ~Owes(s, a, m)
          BY <3>1, <3>6, <4>2 DEF Apart, Owes
        <5> QED
          BY <2>1, <4>2, <5>1 DEF Owes
      <4> QED
        BY <4>1, <4>2
    <3>7. ASSUME NEW a \in Auths, NEW m \in Models
          PROVE  /\ (\A s \in Reqs : ~Owes(s, a, m)') => Agrees(auths'[a].models[m], models'[m], a)
                 /\ \A s \in Reqs : Owes(s, a, m)' =>
                      Owed(auths'[a].models[m], models'[m], a, reqs'[s].ops)
      BY <3>5, <3>6
    <3>8. \A s \in Reqs : reqs'[s].pc = "ops" => reqs'[s].model \in Models
      BY <2>1, <3>1, <3>3 DEF AtWork, MarksInv
    <3> QED
      BY <3>2, <3>7, <3>8 DEF MarksInv, Owes
  <2> QED
    BY <1>3, <2>3, <2>4, <2>5, <2>6 DEF OneMoves
<1> QED
  BY <1>1, <1>2, <1>3, StepKinds

LEMMA MarksInit == Init => SentInv /\ MarksInv
<1> SUFFICES ASSUME Init PROVE MarksInv
  BY RecoverInit
<1>1. /\ auths = [a \in Auths |-> NewAuth] /\ reqs = [r \in Reqs |-> Idle]
  BY DEF Init
<1>2. \A r \in Reqs : reqs[r].pc = "idle"
  BY <1>1 DEF Idle
<1>3. \A m \in Models : ~NewAuth.models[m].err /\ ~NewAuth.models[m].exceeded
  BY DEF NewAuth, Healthy
<1> DEFINE providers == [p \in Providers |-> Cardinality({a \in Auths : Provider[a] = p})]
           reg == [Registry!NoRegistration EXCEPT !.count = Cardinality(Auths), !.providers = providers]
<1>4. models = [m \in Models |-> reg]
  BY DEF Init
<1>5. providers \in [Providers -> Nat]
  <2>1. ASSUME NEW p \in Providers PROVE Cardinality({a \in Auths : Provider[a] = p}) \in Nat
    BY FS_Subset, FS_CardinalityType, AuthManagerAssumption
  <2> QED
    BY <2>1
<1>6. Cardinality(Auths) \in Nat /\ (Auths # {} => Cardinality(Auths) > 0)
  BY FS_CardinalityType, FS_EmptySet, AuthManagerAssumption
<1> HIDE DEF providers
<1>7. /\ reg \in Registry!Registration /\ reg.count = Cardinality(Auths)
      /\ \A a \in Auths : reg.quota[a] = "none" /\ reg.suspended[a] = "none"
  BY <1>5, <1>6 DEF Registry!Registration, Registry!NoRegistration, Registry!QuotaMark,
                    Registry!SuspendMark
<1> HIDE DEF reg
<1>8. RegistryTypes
  BY <1>4, <1>6, <1>7 DEF RegistryTypes
<1>9. \A a \in Auths, m \in Models : Agrees(auths[a].models[m], models[m], a)
  BY <1>1, <1>3, <1>4, <1>7 DEF Agrees
<1> QED
  BY <1>2, <1>8, <1>9 DEF MarksInv, Owes

\* For any number of requests: as long as registry calls for one credential and
\* model are not outstanding twice, the registry's marks on them agree with what
\* the credential says of the model whenever no registry call is outstanding.
THEOREM MarksFollow == Spec /\ []Apart => []RegistryAgrees
<1>1. Init => TimesInv /\ SentInv /\ MarksInv
  BY MarksInit, TimesInit
<1>2. TimesInv /\ SentInv /\ MarksInv /\ Apart /\ Apart' /\ [Next]_vars
        => (TimesInv /\ SentInv /\ MarksInv)'
  BY MarksStep, SentStep, TimesStep DEF TimesInv
<1>3. MarksInv => RegistryAgrees
  <2> SUFFICES ASSUME MarksInv, Settled, NEW a \in Auths, NEW m \in Models
               PROVE  Agrees(auths[a].models[m], models[m], a)
    BY DEF RegistryAgrees, Agrees
  <2> QED
    BY DEF MarksInv, Settled, Owes
<1> QED
  BY <1>1, <1>2, <1>3, PTL DEF Spec

\* In particular when one request runs at a time, whatever it asks for and
\* however it is answered.
THEOREM MarksFollowAlone ==
  ASSUME OneAtATime
  PROVE  Spec => []RegistryAgrees
<1>1. Apart
  BY DEF OneAtATime, Apart
<1> QED
  BY <1>1, MarksFollow, PTL

=============================================================================
