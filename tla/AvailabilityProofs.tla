------------------------- MODULE AvailabilityProofs -------------------------
(***************************************************************************)
(* Proofs about what there is to ask and who is answered.                  *)
(*                                                                         *)
(* About ModelRegistry, for every set of clients, models and providers:    *)
(* the types, that the counters of each model are exact, in all and per    *)
(* provider, and that a registration clears the marks of a client.         *)
(*                                                                         *)
(* About WsRelay: however the storing of a request, its writing, the       *)
(* answers, a cancelled context and the clean-up of the session            *)
(* interleave, no caller is left waiting on a channel nobody will close,   *)
(* and a caller told that its request went well has the whole answer.      *)
(***************************************************************************)
EXTENDS ModelRegistry, WsRelay, FiniteSetTheorems, TLAPS

-----------------------------------------------------------------------------
(* The helpers on registrations: types, and what they do to the counter.   *)

LEMMA AddProviderType ==
  ASSUME NEW reg \in Registration, NEW p \in ProviderIDs, NEW n \in Nat
  PROVE  /\ AddProvider(reg, p, n) \in Registration
         /\ AddProvider(reg, p, n).count = reg.count
  BY DEF AddProvider, Registration

LEMMA DropProviderType ==
  ASSUME NEW reg \in Registration, NEW p \in ProviderIDs, NEW n \in Nat
  PROVE  /\ DropProvider(reg, p, n) \in Registration
         /\ DropProvider(reg, p, n).count = reg.count
  BY DEF DropProvider, Registration, Above0

LEMMA ClearMarksType ==
  ASSUME NEW reg \in Registration, NEW c \in Clients
  PROVE  /\ ClearMarks(reg, c) \in Registration
         /\ ClearMarks(reg, c).count = reg.count
  BY DEF ClearMarks, Registration, QuotaMark, SuspendMark

LEMMA NoRegistrationType ==
  NoRegistration \in Registration /\ NoRegistration.count = 0
  BY DEF NoRegistration, Registration, QuotaMark, SuspendMark

\* n calls of addModelRegistration raise the counter by n.
LEMMA AddRegistrationType ==
  ASSUME NEW reg \in Registration, NEW p \in ProviderIDs, NEW n \in Nat
  PROVE  /\ AddRegistration(reg, p, n) \in Registration
         /\ AddRegistration(reg, p, n).count = reg.count + n
<1> DEFINE r == [reg EXCEPT !.count = @ + n]
<1>1. r \in Registration /\ r.count = reg.count + n
  BY DEF Registration
<1> QED
  BY <1>1, AddProviderType DEF AddRegistration

\* n calls of removeModelRegistration lower it by n, but not below 0.
LEMMA RemoveRegistrationType ==
  ASSUME NEW reg \in Registration, NEW c \in Clients,
         NEW p \in ProviderIDs, NEW n \in Nat
  PROVE  /\ RemoveRegistration(reg, c, p, n) \in Registration
         /\ RemoveRegistration(reg, c, p, n).count = Above0(reg.count - n)
<1> DEFINE r == [reg EXCEPT !.count = @ - n]
<1>0. reg.count \in Nat
  BY DEF Registration
<1>1. CASE n = 0
  BY <1>0, <1>1 DEF RemoveRegistration, Above0
<1>2. CASE n # 0 /\ reg.count <= n
  BY <1>0, <1>2, NoRegistrationType DEF RemoveRegistration, Above0
<1>3. CASE n # 0 /\ ~(reg.count <= n)
  <2>1. r \in Registration /\ r.count = reg.count - n
    BY <1>0, <1>3 DEF Registration
  <2>2. /\ ClearMarks(r, c) \in Registration
        /\ ClearMarks(r, c).count = reg.count - n
    BY <2>1, ClearMarksType
  <2>3. /\ DropProvider(ClearMarks(r, c), p, n) \in Registration
        /\ DropProvider(ClearMarks(r, c), p, n).count = reg.count - n
    BY <2>2, DropProviderType
  <2> QED
    BY <1>0, <1>3, <2>3 DEF RemoveRegistration, Above0
<1> QED
  BY <1>1, <1>2, <1>3

\* Reconciling replaces the client's old share of the counter by the new one.
LEMMA ReconcileType ==
  ASSUME NEW reg \in Registration, NEW c \in Clients,
         NEW oldN \in Nat, NEW newN \in Nat,
         NEW oldP \in ProviderIDs, NEW p \in ProviderIDs
  PROVE  /\ Reconcile(reg, c, oldN, newN, oldP, p) \in Registration
         /\ oldN <= reg.count =>
              Reconcile(reg, c, oldN, newN, oldP, p).count
                = reg.count - oldN + newN
<1> DEFINE overlap == Lower(oldN, newN)
           moved   == IF oldP # p THEN DropProvider(reg, oldP, overlap) ELSE reg
           surplus == Above0(oldN - newN)
           removed == RemoveRegistration(moved, c, oldP, surplus)
           missing == Above0(newN - oldN)
           added   == AddRegistration(removed, p, missing)
           marked  == IF newN > 0 THEN ClearMarks(added, c) ELSE added
           result  == IF oldP # p THEN AddProvider(marked, p, overlap) ELSE marked
<1>0. overlap \in Nat /\ surplus \in Nat /\ missing \in Nat
  BY DEF Lower, Above0
<1> HIDE DEF overlap, surplus, missing
<1>1. moved \in Registration /\ moved.count = reg.count
  BY <1>0, DropProviderType
<1> HIDE DEF moved
<1>2. /\ removed \in Registration
      /\ removed.count = Above0(reg.count - surplus)
  BY <1>0, <1>1, RemoveRegistrationType
<1> HIDE DEF removed
<1>3. /\ added \in Registration
      /\ added.count = Above0(reg.count - surplus) + missing
  BY <1>0, <1>2, AddRegistrationType
<1> HIDE DEF added
<1>4. marked \in Registration /\ marked.count = added.count
  BY <1>3, ClearMarksType
<1> HIDE DEF marked
<1>5. result \in Registration /\ result.count = added.count
  BY <1>0, <1>4, AddProviderType
<1>6. reg.count \in Nat
  BY DEF Registration
<1>7. oldN <= reg.count =>
        Above0(reg.count - surplus) + missing = reg.count - oldN + newN
  BY <1>6 DEF surplus, missing, Above0
<1>8. Reconcile(reg, c, oldN, newN, oldP, p) = result
  BY DEF Reconcile, overlap, moved, surplus, removed, missing, added, marked
<1> QED
  BY <1>3, <1>5, <1>7, <1>8

-----------------------------------------------------------------------------
(* Counting the occurrences of a model, client by client. *)

\* The occurrences of a model with multiplicities f among the clients in S.
Occurrences(S, f) == {s \in S \X (1..MaxDup) : s[2] <= f[s[1]]}

LEMMA IntervalCardinality ==
  ASSUME NEW n \in Nat
  PROVE  IsFiniteSet(1..n) /\ Cardinality(1..n) = n
<1>1. 1 \in Int /\ n \in Int
  OBVIOUS
<1>2. /\ IsFiniteSet(1..n)
      /\ Cardinality(1..n) = IF 1 > n THEN 0 ELSE n - 1 + 1
  BY ONLY <1>1, FS_Interval, Zenon
<1> QED
  BY <1>2

\* A client c of S accounts for f[c] of them.
LEMMA OccurrencesSplit ==
  ASSUME NEW S \in SUBSET Clients, NEW f \in [Clients -> 0..MaxDup],
         NEW c \in S
  PROVE  /\ IsFiniteSet(Occurrences(S, f))
         /\ Cardinality(Occurrences(S \ {c}, f)) \in Nat
         /\ Cardinality(Occurrences(S, f))
              = Cardinality(Occurrences(S \ {c}, f)) + f[c]
<1> DEFINE rest == Occurrences(S \ {c}, f)
           own  == {c} \X (1..f[c])
<1>0. MaxDup \in Nat /\ f[c] \in 0..MaxDup
  BY ConstantsAssumption
<1>1. IsFiniteSet(S \X (1..MaxDup))
  <2>1. IsFiniteSet(S)
    BY ConstantsAssumption, FS_Subset
  <2>2. IsFiniteSet(1..MaxDup)
    BY <1>0, IntervalCardinality
  <2> QED
    BY <2>1, <2>2, FS_Product
<1>2. IsFiniteSet(rest)
  <2>1. rest \subseteq S \X (1..MaxDup)
    BY DEF Occurrences
  <2> QED
    BY <1>1, <2>1, FS_Subset
<1>3. IsFiniteSet(own) /\ Cardinality(own) = f[c]
  <2>1. IsFiniteSet(1..f[c]) /\ Cardinality(1..f[c]) = f[c]
    <3>1. f[c] \in Nat
      BY <1>0
    <3> QED
      BY <3>1, IntervalCardinality
  <2>2. IsFiniteSet({c}) /\ Cardinality({c}) = 1
    BY FS_Singleton
  <2>3. IsFiniteSet(own) /\ Cardinality(own) = 1 * f[c]
    BY <2>1, <2>2, FS_Product
  <2> QED
    BY <1>0, <2>3
<1>4. Occurrences(S, f) = rest \union own
  <2>1. ASSUME NEW s PROVE s \in Occurrences(S, f) <=> s \in rest \union own
    <3>1. CASE s \in S \X (1..MaxDup)
      BY <1>0, <3>1 DEF Occurrences
    <3>2. CASE ~(s \in S \X (1..MaxDup))
      BY <1>0, <3>2 DEF Occurrences
    <3> QED
      BY <3>1, <3>2
  <2> QED
    BY <2>1
<1>5. rest \intersect own = {}
  BY DEF Occurrences
<1> HIDE DEF rest, own
<1>6. /\ IsFiniteSet(rest \union own)
      /\ Cardinality(rest \union own)
           = Cardinality(rest) + Cardinality(own) - Cardinality(rest \intersect own)
  BY <1>2, <1>3, FS_Union, Zenon
<1>7. Cardinality(rest) \in Nat
  BY <1>2, FS_CardinalityType
<1>8. Cardinality(rest \intersect own) = 0
  BY <1>5, FS_EmptySet
<1>9. /\ IsFiniteSet(Occurrences(S, f))
      /\ Cardinality(Occurrences(S, f)) = Cardinality(rest) + f[c] - 0
  BY <1>3, <1>4, <1>6, <1>8
<1> QED
  BY <1>0, <1>7, <1>9 DEF rest

\* Two bags that agree except on c differ in size by what c changed.
LEMMA OccurrencesUpdate ==
  ASSUME NEW f \in [Clients -> 0..MaxDup], NEW g \in [Clients -> 0..MaxDup],
         NEW c \in Clients, \A d \in Clients \ {c} : g[d] = f[d]
  PROVE  /\ Cardinality(Occurrences(Clients, f)) \in Nat
         /\ f[c] <= Cardinality(Occurrences(Clients, f))
         /\ Cardinality(Occurrences(Clients, g))
              = Cardinality(Occurrences(Clients, f)) - f[c] + g[c]
<1>1. Occurrences(Clients \ {c}, f) = Occurrences(Clients \ {c}, g)
  BY DEF Occurrences
<1>2. f[c] \in Nat /\ g[c] \in Nat
  BY ConstantsAssumption
<1> DEFINE n == Cardinality(Occurrences(Clients \ {c}, f))
<1>3. n \in Nat /\ Cardinality(Occurrences(Clients, f)) = n + f[c]
  BY OccurrencesSplit
<1>4. Cardinality(Occurrences(Clients, g)) = n + g[c]
  BY <1>1, OccurrencesSplit
<1> QED
  BY <1>2, <1>3, <1>4

-----------------------------------------------------------------------------
(* Types. *)

LEMMA UnregisterType ==
  ASSUME TypeOK, NEW c \in Clients, UnregisterEffect(c)
  PROVE  TypeOK'
<1>1. ASSUME NEW m \in Models
      PROVE  RemoveRegistration(models[m], c, clientProviders[c],
                                clientModels[c][m]) \in Registration
  BY RemoveRegistrationType, ConstantsAssumption DEF TypeOK, ModelBag
<1>2. EmptyBag \in ModelBag
  BY ConstantsAssumption DEF EmptyBag, ModelBag
<1> QED
  BY <1>1, <1>2 DEF TypeOK, UnregisterEffect, ProviderIDs

LEMMA RegisterType ==
  ASSUME TypeOK, NEW c \in Clients, NEW p \in ProviderIDs,
         NEW bag \in ModelBag, RegisterClient(c, p, bag)
  PROVE  TypeOK'
<1>1. CASE UnregisterEffect(c)
  BY <1>1, UnregisterType
<1>2. CASE ~UnregisterEffect(c)
  <2>1. ASSUME NEW m \in Models
        PROVE  /\ Reconcile(models[m], c, clientModels[c][m], bag[m],
                            clientProviders[c], p) \in Registration
               /\ AddRegistration(models[m], p, bag[m]) \in Registration
    <3>1. /\ models[m] \in Registration
          /\ clientModels[c][m] \in Nat /\ bag[m] \in Nat
          /\ clientProviders[c] \in ProviderIDs
      BY ConstantsAssumption DEF TypeOK, ModelBag
    <3> QED
      BY <3>1, ReconcileType, AddRegistrationType
  <2> QED
    BY <1>2, <2>1 DEF RegisterClient, TypeOK
<1> QED
  BY <1>1, <1>2

\* What every action but (un)registration does to what is counted.
CountersUnchanged ==
  /\ \A m \in Models : /\ models'[m].count = models[m].count
                       /\ models'[m].providers = models[m].providers
  /\ UNCHANGED <<clientModels, clientProviders>>

\* Marks change neither the types nor the counters.
LEMMA MarkStep ==
  ASSUME TypeOK, NEW c \in Clients, NEW m \in Models,
         NEW q \in QuotaMark, NEW u \in SuspendMark,
         \/ models' = [models EXCEPT ![m].quota[c] = q]
         \/ models' = [models EXCEPT ![m].suspended[c] = u]
         \/ models' = models,
         UNCHANGED <<clientModels, clientProviders>>
  PROVE  TypeOK' /\ CountersUnchanged
<1>1. ASSUME NEW n \in Models
      PROVE  /\ models'[n] \in Registration /\ models'[n].count = models[n].count
             /\ models'[n].providers = models[n].providers
  <2>0. models \in [Models -> Registration]
    BY DEF TypeOK
  <2>1. CASE models' = [models EXCEPT ![m].quota[c] = q]
    <3>1. /\ [models[n].quota EXCEPT ![c] = q] \in [Clients -> QuotaMark]
          /\ models[n] \in Registration
      BY <2>0 DEF Registration
    <3>2. models'[n] = IF n = m THEN [models[n] EXCEPT !.quota[c] = q]
                                ELSE models[n]
      BY <2>0, <2>1
    <3> QED
      BY <3>1, <3>2 DEF Registration
  <2>2. CASE models' = [models EXCEPT ![m].suspended[c] = u]
    BY <2>0, <2>2 DEF Registration
  <2> QED
    BY <2>0, <2>1, <2>2 DEF Registration
<1>2. models' = [n \in Models |-> models'[n]]
  BY DEF TypeOK
<1> QED
  BY <1>1, <1>2 DEF TypeOK, CountersUnchanged

LEMMA MarkActions ==
  ASSUME TypeOK, NEW c \in Clients, NEW m \in Models,
         \/ SetModelQuotaExceeded(c, m)
         \/ ClearModelQuotaExceeded(c, m)
         \/ \E reason \in {"quota", "other"} : SuspendClientModel(c, m, reason)
         \/ ResumeClientModel(c, m)
         \/ QuotaExpires(c, m)
  PROVE  TypeOK' /\ CountersUnchanged
<1>0. "none" \in QuotaMark /\ "live" \in QuotaMark /\ "expired" \in QuotaMark
  BY DEF QuotaMark
<1>1. {"none", "quota", "other"} \subseteq SuspendMark
  BY DEF SuspendMark
<1>2. CASE SetModelQuotaExceeded(c, m)
  BY <1>0, <1>1, <1>2, MarkStep DEF SetModelQuotaExceeded
<1>3. CASE ClearModelQuotaExceeded(c, m)
  BY <1>0, <1>1, <1>3, MarkStep DEF ClearModelQuotaExceeded
<1>4. ASSUME NEW reason \in {"quota", "other"}, SuspendClientModel(c, m, reason)
      PROVE  TypeOK' /\ CountersUnchanged
  BY <1>0, <1>1, <1>4, MarkStep DEF SuspendClientModel
<1>5. CASE ResumeClientModel(c, m)
  BY <1>0, <1>1, <1>5, MarkStep DEF ResumeClientModel
<1>6. CASE QuotaExpires(c, m)
  BY <1>0, <1>1, <1>6, MarkStep DEF QuotaExpires
<1> QED
  BY <1>2, <1>3, <1>4, <1>5, <1>6

LEMMA CleanupAction ==
  ASSUME TypeOK, CleanupExpiredQuotas
  PROVE  TypeOK' /\ CountersUnchanged
<1>1. ASSUME NEW m \in Models
      PROVE  /\ models'[m] \in Registration /\ models'[m].count = models[m].count
             /\ models'[m].providers = models[m].providers
  BY DEF CleanupExpiredQuotas, TypeOK, Registration, QuotaMark
<1>2. models' = [m \in Models |-> models'[m]]
  BY DEF CleanupExpiredQuotas
<1> QED
  BY <1>1, <1>2 DEF CleanupExpiredQuotas, TypeOK, CountersUnchanged

-----------------------------------------------------------------------------
(* The counter of a model is exact. *)

Multiplicities(m) == [c \in Clients |-> clientModels[c][m]]

LEMMA SlotsAreOccurrences ==
  ASSUME NEW m \in Models
  PROVE  /\ Slots(Clients, m) = Occurrences(Clients, Multiplicities(m))
         /\ Slots(Clients, m)' = Occurrences(Clients, Multiplicities(m)')
  BY DEF Slots, Occurrences, Multiplicities

LEMMA MultiplicitiesType ==
  ASSUME TypeOK, NEW m \in Models
  PROVE  Multiplicities(m) \in [Clients -> 0..MaxDup]
  BY DEF TypeOK, ModelBag, Multiplicities

\* Replacing the list of c moves the recount of m by what c's share changed.
LEMMA RecountAfterUpdate ==
  ASSUME TypeOK, TypeOK', CountExact, NEW c \in Clients, NEW m \in Models,
         NEW bag \in ModelBag, clientModels' = [clientModels EXCEPT ![c] = bag]
  PROVE  /\ clientModels[c][m] \in Nat /\ bag[m] \in Nat
         /\ clientModels[c][m] <= models[m].count
         /\ Cardinality(Slots(Clients, m)')
              = models[m].count - clientModels[c][m] + bag[m]
<1> DEFINE f == Multiplicities(m)
           g == Multiplicities(m)'
<1>1. f \in [Clients -> 0..MaxDup] /\ g \in [Clients -> 0..MaxDup]
  BY MultiplicitiesType DEF TypeOK, ModelBag, Multiplicities
<1>2. f[c] = clientModels[c][m] /\ g[c] = bag[m]
  BY DEF Multiplicities, TypeOK
<1>3. \A d \in Clients \ {c} : g[d] = f[d]
  BY DEF Multiplicities, TypeOK
<1>4. models[m].count = Cardinality(Occurrences(Clients, f))
  BY SlotsAreOccurrences DEF CountExact
<1>5. Cardinality(Slots(Clients, m)') = Cardinality(Occurrences(Clients, g))
  BY SlotsAreOccurrences
<1>6. clientModels[c][m] \in Nat /\ bag[m] \in Nat
  BY ConstantsAssumption DEF TypeOK, ModelBag
<1> HIDE DEF f, g
<1>7. /\ f[c] <= Cardinality(Occurrences(Clients, f))
      /\ Cardinality(Occurrences(Clients, g))
           = Cardinality(Occurrences(Clients, f)) - f[c] + g[c]
  BY <1>1, <1>3, OccurrencesUpdate
<1> QED
  BY <1>2, <1>4, <1>5, <1>6, <1>7

LEMMA UnregisterCount ==
  ASSUME TypeOK, CountExact, NEW c \in Clients, UnregisterEffect(c)
  PROVE  CountExact'
<1>0. TypeOK'
  BY UnregisterType
<1>1. EmptyBag \in ModelBag /\ \A m \in Models : EmptyBag[m] = 0
  BY ConstantsAssumption DEF EmptyBag, ModelBag
<1>2. ASSUME NEW m \in Models
      PROVE  models'[m].count = Cardinality(Slots(Clients, m)')
  <2>1. /\ clientModels[c][m] \in Nat
        /\ clientModels[c][m] <= models[m].count
        /\ Cardinality(Slots(Clients, m)')
             = models[m].count - clientModels[c][m] + 0
    BY <1>0, <1>1, RecountAfterUpdate DEF UnregisterEffect
  <2>2. /\ models[m] \in Registration /\ models[m].count \in Nat
        /\ clientProviders[c] \in ProviderIDs
    BY DEF TypeOK, Registration
  <2>3. models'[m].count = Above0(models[m].count - clientModels[c][m])
    BY <2>1, <2>2, RemoveRegistrationType DEF UnregisterEffect
  <2> QED
    BY <2>1, <2>2, <2>3 DEF Above0
<1> QED
  BY <1>2 DEF CountExact

LEMMA RegisterCount ==
  ASSUME TypeOK, CountExact, NEW c \in Clients, NEW p \in ProviderIDs,
         NEW bag \in ModelBag, RegisterClient(c, p, bag)
  PROVE  CountExact'
<1>0. TypeOK'
  BY RegisterType
<1>1. CASE UnregisterEffect(c)
  BY <1>1, UnregisterCount
<1>2. CASE ~UnregisterEffect(c)
  <2>1. ASSUME NEW m \in Models
        PROVE  models'[m].count = Cardinality(Slots(Clients, m)')
    <3>1. /\ clientModels[c][m] \in Nat /\ bag[m] \in Nat
          /\ clientModels[c][m] <= models[m].count
          /\ Cardinality(Slots(Clients, m)')
               = models[m].count - clientModels[c][m] + bag[m]
      BY <1>0, <1>2, RecountAfterUpdate DEF RegisterClient
    <3>2. /\ models[m] \in Registration /\ models[m].count \in Nat
          /\ clientProviders[c] \in ProviderIDs
      BY DEF TypeOK, Registration
    <3>3. CASE Registered(c)
      <4>1. models'[m] = Reconcile(models[m], c, clientModels[c][m], bag[m],
                                   clientProviders[c], p)
        BY <1>2, <3>3 DEF RegisterClient
      <4> QED
        BY <3>1, <3>2, <4>1, ReconcileType
    <3>4. CASE ~Registered(c)
      <4>1. models'[m] = AddRegistration(models[m], p, bag[m])
        BY <1>2, <3>4 DEF RegisterClient
      <4>2. clientModels[c][m] = 0
        BY <3>4 DEF Registered, EmptyBag
      <4>3. AddRegistration(models[m], p, bag[m]).count
              = models[m].count + bag[m]
        <5> HIDE DEF ProviderIDs
        <5> QED
          BY <3>1, <3>2, AddRegistrationType
      <4> QED
        BY <3>1, <3>2, <4>1, <4>2, <4>3
    <3> QED
      BY <3>3, <3>4
  <2> QED
    BY <2>1 DEF CountExact
<1> QED
  BY <1>1, <1>2

-----------------------------------------------------------------------------
(* The counters per provider are exact.  A client's share of a model counts *)
(* for the provider it is registered with; what the others have is rest.    *)

Share(p, q, n) == IF p = q THEN n ELSE 0

LEMMA AddProviderCounts ==
  ASSUME NEW reg \in Registration, NEW p \in ProviderIDs, NEW n \in Nat, NEW q \in Providers
  PROVE  AddProvider(reg, p, n).providers[q] = reg.providers[q] + Share(p, q, n)
  BY DEF AddProvider, Registration, Share

LEMMA DropProviderCounts ==
  ASSUME NEW reg \in Registration, NEW p \in ProviderIDs, NEW n \in Nat, NEW q \in Providers
  PROVE  DropProvider(reg, p, n).providers[q] = Above0(reg.providers[q] - Share(p, q, n))
  BY DEF DropProvider, Registration, Above0, Share

LEMMA ClearMarksCounts ==
  ASSUME NEW reg \in Registration, NEW c \in Clients
  PROVE  ClearMarks(reg, c).providers = reg.providers
  BY DEF ClearMarks, Registration

LEMMA AddRegistrationCounts ==
  ASSUME NEW reg \in Registration, NEW p \in ProviderIDs, NEW n \in Nat, NEW q \in Providers
  PROVE  AddRegistration(reg, p, n).providers[q] = reg.providers[q] + Share(p, q, n)
<1> DEFINE r == [reg EXCEPT !.count = @ + n]
<1>1. r \in Registration /\ r.providers = reg.providers
  BY DEF Registration
<1> QED
  BY <1>1, AddProviderCounts DEF AddRegistration

\* A registration is deleted only when no other client has a share in it.
LEMMA RemoveRegistrationCounts ==
  ASSUME NEW reg \in Registration, NEW c \in Clients, NEW p \in ProviderIDs,
         NEW n \in Nat, NEW q \in Providers
  PROVE  RemoveRegistration(reg, c, p, n).providers[q] =
           IF n # 0 /\ reg.count <= n THEN 0 ELSE Above0(reg.providers[q] - Share(p, q, n))
<1> DEFINE r == [reg EXCEPT !.count = @ - n]
<1>0. reg.count \in Nat /\ reg.providers[q] \in Nat
  BY DEF Registration
<1>1. CASE n = 0
  BY <1>0, <1>1 DEF RemoveRegistration, Share, Above0
<1>2. CASE n # 0 /\ reg.count <= n
  BY <1>0, <1>2 DEF RemoveRegistration, NoRegistration
<1>3. CASE n # 0 /\ ~(reg.count <= n)
  <2>1. r \in Registration /\ r.providers = reg.providers
    BY <1>0, <1>3 DEF Registration
  <2>2. /\ ClearMarks(r, c) \in Registration
        /\ ClearMarks(r, c).providers = reg.providers
    BY <2>1, ClearMarksType, ClearMarksCounts
  <2>3. DropProvider(ClearMarks(r, c), p, n).providers[q]
          = Above0(reg.providers[q] - Share(p, q, n))
    BY <2>2, DropProviderCounts
  <2> QED
    BY <1>3, <2>3 DEF RemoveRegistration
<1> QED
  BY <1>1, <1>2, <1>3

\* Reconciling takes the client's old share from its old provider and gives
\* the new share to the new one.
LEMMA ReconcileCounts ==
  ASSUME NEW reg \in Registration, NEW c \in Clients, NEW oldN \in Nat, NEW newN \in Nat,
         NEW oldP \in ProviderIDs, NEW p \in ProviderIDs, NEW q \in Providers, NEW rest \in Nat,
         reg.providers[q] = rest + Share(oldP, q, oldN), oldN + rest <= reg.count
  PROVE  Reconcile(reg, c, oldN, newN, oldP, p).providers[q] = rest + Share(p, q, newN)
<1> DEFINE overlap == Lower(oldN, newN)
           moved   == IF oldP # p THEN DropProvider(reg, oldP, overlap) ELSE reg
           surplus == Above0(oldN - newN)
           removed == RemoveRegistration(moved, c, oldP, surplus)
           missing == Above0(newN - oldN)
           added   == AddRegistration(removed, p, missing)
           marked  == IF newN > 0 THEN ClearMarks(added, c) ELSE added
           result  == IF oldP # p THEN AddProvider(marked, p, overlap) ELSE marked
<1>0. /\ overlap \in Nat /\ surplus \in Nat /\ missing \in Nat
      /\ overlap + surplus = oldN /\ overlap + missing = newN
      /\ surplus = 0 \/ (missing = 0 /\ overlap = newN)
  BY DEF Lower, Above0
<1> HIDE DEF overlap, surplus, missing
<1>1. /\ moved \in Registration /\ moved.count = reg.count
      /\ moved.providers[q] = IF oldP # p THEN Above0(reg.providers[q] - Share(oldP, q, overlap))
                              ELSE reg.providers[q]
  BY <1>0, DropProviderType, DropProviderCounts
<1> HIDE DEF moved
<1>2. /\ removed \in Registration
      /\ removed.providers[q] = IF surplus # 0 /\ reg.count <= surplus THEN 0
                                ELSE Above0(moved.providers[q] - Share(oldP, q, surplus))
  BY <1>0, <1>1, RemoveRegistrationType, RemoveRegistrationCounts
<1> HIDE DEF removed
<1>3. /\ added \in Registration
      /\ added.providers[q] = removed.providers[q] + Share(p, q, missing)
  BY <1>0, <1>2, AddRegistrationType, AddRegistrationCounts
<1> HIDE DEF added
<1>4. marked \in Registration /\ marked.providers[q] = added.providers[q]
  BY <1>3, ClearMarksType, ClearMarksCounts
<1> HIDE DEF marked
<1>5. result.providers[q] =
        IF oldP # p THEN added.providers[q] + Share(p, q, overlap) ELSE added.providers[q]
  BY <1>0, <1>4, AddProviderCounts
<1>6. Reconcile(reg, c, oldN, newN, oldP, p) = result
  BY DEF Reconcile, overlap, moved, surplus, removed, missing, added, marked
<1>7. reg.count \in Nat
  BY DEF Registration
<1> HIDE DEF result
<1>8. CASE surplus # 0 /\ reg.count <= surplus
  <2>1. rest = 0 /\ newN = 0 /\ overlap = 0 /\ missing = 0
    BY <1>0, <1>7, <1>8
  <2> QED
    BY <1>2, <1>3, <1>5, <1>6, <1>8, <2>1 DEF Share
<1>9. CASE ~(surplus # 0 /\ reg.count <= surplus)
  <2>1. CASE oldP = p
    <3>1. removed.providers[q] = rest + Share(p, q, overlap)
      BY <1>0, <1>1, <1>2, <1>9, <2>1 DEF Share, Above0
    <3> QED
      BY <1>0, <1>3, <1>5, <1>6, <2>1, <3>1 DEF Share
  <2>2. CASE oldP # p
    <3>1. removed.providers[q] = rest
      BY <1>0, <1>1, <1>2, <1>9, <2>2 DEF Share, Above0
    <3> QED
      BY <1>0, <1>3, <1>5, <1>6, <2>2, <3>1 DEF Share
  <2> QED
    BY <2>1, <2>2
<1> QED
  BY <1>8, <1>9

ClientsOf(q) == {c \in Clients : clientProviders[c] = q}

\* Registering a client with another list or provider moves its share only.
LEMMA ShareOfClient ==
  ASSUME TypeOK, TypeOK', CountExact, ProvidersExact,
         NEW c \in Clients, NEW m \in Models, NEW q \in Providers,
         NEW p \in ProviderIDs, NEW bag \in ModelBag,
         clientModels' = [clientModels EXCEPT ![c] = bag],
         clientProviders' = [clientProviders EXCEPT ![c] = p]
  PROVE  \E rest \in Nat :
           /\ models[m].providers[q] = rest + Share(clientProviders[c], q, clientModels[c][m])
           /\ clientModels[c][m] + rest <= models[m].count
           /\ Cardinality(Slots({d \in Clients : clientProviders[d] = q}, m)')
                = rest + Share(p, q, bag[m])
<1> DEFINE f == Multiplicities(m)
           g == Multiplicities(m)'
           Others == ClientsOf(q) \ {c}
           rest == Cardinality(Occurrences(Others, f))
<1>1. f \in [Clients -> 0..MaxDup] /\ g \in [Clients -> 0..MaxDup]
  BY MultiplicitiesType DEF TypeOK, ModelBag, Multiplicities
<1>2. f[c] = clientModels[c][m] /\ g[c] = bag[m]
  BY DEF Multiplicities, TypeOK
<1>3. f[c] \in Nat /\ g[c] \in Nat
  BY <1>1, ConstantsAssumption
<1>4. \A d \in Clients \ {c} : g[d] = f[d]
  BY DEF Multiplicities, TypeOK
<1>5. /\ ClientsOf(q)' \ {c} = Others
      /\ c \in ClientsOf(q) <=> clientProviders[c] = q
      /\ c \in ClientsOf(q)' <=> p = q
      /\ ClientsOf(q) \in SUBSET Clients /\ ClientsOf(q)' \in SUBSET Clients
  BY DEF ClientsOf, TypeOK
<1>6. /\ models[m].providers[q] = Cardinality(Occurrences(ClientsOf(q), f))
      /\ models[m].count = Cardinality(Occurrences(Clients, f))
      /\ Cardinality(Slots({d \in Clients : clientProviders[d] = q}, m)')
           = Cardinality(Occurrences(ClientsOf(q)', g))
  <2>1. /\ Slots({d \in Clients : clientProviders[d] = q}, m) = Occurrences(ClientsOf(q), f)
        /\ Slots({d \in Clients : clientProviders[d] = q}, m)' = Occurrences(ClientsOf(q)', g)
    BY DEF Slots, Occurrences, Multiplicities, ClientsOf
  <2> QED
    BY <2>1, SlotsAreOccurrences DEF CountExact, ProvidersExact
<1>7. Occurrences(Others, g) = Occurrences(Others, f)
  BY <1>4, <1>5 DEF Occurrences
<1> HIDE DEF f, g
<1>8. rest \in Nat /\ f[c] + rest <= Cardinality(Occurrences(Clients, f))
  <2> DEFINE all == Cardinality(Occurrences(Clients \ {c}, f))
  <2>1. /\ IsFiniteSet(Occurrences(Clients, f))
        /\ all \in Nat /\ Cardinality(Occurrences(Clients, f)) = all + f[c]
    BY <1>1, OccurrencesSplit
  <2>2. Occurrences(Others, f) \subseteq Occurrences(Clients \ {c}, f)
    BY <1>5 DEF Occurrences
  <2>3. Occurrences(Clients \ {c}, f) \subseteq Occurrences(Clients, f)
    BY DEF Occurrences
  <2>4. IsFiniteSet(Occurrences(Clients \ {c}, f))
    BY <2>1, <2>3, FS_Subset
  <2>5. IsFiniteSet(Occurrences(Others, f)) /\ rest <= all
    BY <2>2, <2>4, FS_Subset
  <2>6. rest \in Nat
    BY <2>5, FS_CardinalityType
  <2> HIDE DEF all, rest
  <2> QED
    BY <1>3, <2>1, <2>5, <2>6
<1>9. Cardinality(Occurrences(ClientsOf(q), f)) = rest + Share(clientProviders[c], q, f[c])
  <2>1. CASE c \in ClientsOf(q)
    BY <1>1, <1>5, <2>1, OccurrencesSplit DEF Share
  <2>2. CASE c \notin ClientsOf(q)
    <3>1. ClientsOf(q) = Others
      BY <2>2
    <3>2. Cardinality(Occurrences(ClientsOf(q), f)) = rest
      BY <3>1
    <3>3. Share(clientProviders[c], q, f[c]) = 0
      BY <1>5, <2>2 DEF Share
    <3> HIDE DEF rest
    <3> QED
      BY <1>8, <3>2, <3>3
  <2> QED
    BY <2>1, <2>2
<1>10. Cardinality(Occurrences(ClientsOf(q)', g)) = rest + Share(p, q, g[c])
  <2>1. CASE c \in ClientsOf(q)'
    BY <1>1, <1>5, <1>7, <2>1, OccurrencesSplit DEF Share
  <2>2. CASE c \notin ClientsOf(q)'
    <3>1. ClientsOf(q)' = Others
      BY <1>5, <2>2
    <3> QED
      BY <1>5, <1>7, <1>8, <2>2, <3>1 DEF Share
  <2> QED
    BY <2>1, <2>2
<1>11. clientModels[c][m] + rest <= models[m].count
  BY <1>2, <1>6, <1>8
<1>12. rest \in Nat
  BY <1>8
<1> HIDE DEF rest
<1> QED
  BY <1>2, <1>6, <1>9, <1>10, <1>11, <1>12

LEMMA UnregisterProviders ==
  ASSUME TypeOK, CountExact, ProvidersExact, NEW c \in Clients, UnregisterEffect(c)
  PROVE  ProvidersExact'
<1>0. TypeOK'
  BY UnregisterType
<1>1. EmptyBag \in ModelBag /\ \A m \in Models : EmptyBag[m] = 0
  BY ConstantsAssumption DEF EmptyBag, ModelBag
<1>2. NoProvider \in ProviderIDs
  BY DEF ProviderIDs
<1>3. ASSUME NEW m \in Models, NEW q \in Providers
      PROVE  models'[m].providers[q]
               = Cardinality(Slots({d \in Clients : clientProviders[d] = q}, m)')
  <2> DEFINE n == clientModels[c][m]
             p == clientProviders[c]
  <2>1. PICK rest \in Nat :
          /\ models[m].providers[q] = rest + Share(p, q, n)
          /\ n + rest <= models[m].count
          /\ Cardinality(Slots({d \in Clients : clientProviders[d] = q}, m)')
               = rest + Share(NoProvider, q, EmptyBag[m])
    BY <1>0, <1>1, <1>2, ShareOfClient DEF UnregisterEffect
  <2>2. /\ models[m] \in Registration /\ models[m].count \in Nat
        /\ p \in ProviderIDs /\ n \in Nat
    BY ConstantsAssumption DEF TypeOK, Registration, ModelBag
  <2>3. models'[m] = RemoveRegistration(models[m], c, p, n)
    BY DEF UnregisterEffect
  <2> HIDE DEF n, p
  <2>4. models'[m].providers[q] =
          IF n # 0 /\ models[m].count <= n THEN 0
          ELSE Above0(models[m].providers[q] - Share(p, q, n))
    BY <2>2, <2>3, RemoveRegistrationCounts
  <2> QED
    BY <1>1, <2>1, <2>2, <2>4 DEF Share, Above0
<1> QED
  BY <1>3 DEF ProvidersExact

LEMMA RegisterProviders ==
  ASSUME TypeOK, CountExact, ProvidersExact, NEW c \in Clients, NEW p \in ProviderIDs,
         NEW bag \in ModelBag, RegisterClient(c, p, bag)
  PROVE  ProvidersExact'
<1>0. TypeOK'
  BY RegisterType
<1>1. CASE UnregisterEffect(c)
  BY <1>1, UnregisterProviders
<1>2. CASE ~UnregisterEffect(c)
  <2>1. ASSUME NEW m \in Models, NEW q \in Providers
        PROVE  models'[m].providers[q]
                 = Cardinality(Slots({d \in Clients : clientProviders[d] = q}, m)')
    <3> DEFINE n == clientModels[c][m]
               old == clientProviders[c]
    <3>1. PICK rest \in Nat :
            /\ models[m].providers[q] = rest + Share(old, q, n)
            /\ n + rest <= models[m].count
            /\ Cardinality(Slots({d \in Clients : clientProviders[d] = q}, m)')
                 = rest + Share(p, q, bag[m])
      BY <1>0, <1>2, ShareOfClient DEF RegisterClient
    <3>2. /\ models[m] \in Registration /\ models[m].count \in Nat
          /\ old \in ProviderIDs /\ n \in Nat /\ bag[m] \in Nat
      BY ConstantsAssumption DEF TypeOK, Registration, ModelBag
    <3>3. CASE Registered(c)
      <4>1. models'[m] = Reconcile(models[m], c, n, bag[m], old, p)
        BY <1>2, <3>3 DEF RegisterClient
      <4> HIDE DEF n, old
      <4> QED
        BY <3>1, <3>2, <4>1, ReconcileCounts
    <3>4. CASE ~Registered(c)
      <4>1. models'[m] = AddRegistration(models[m], p, bag[m])
        BY <1>2, <3>4 DEF RegisterClient
      <4>2. n = 0
        BY <3>4 DEF Registered, EmptyBag
      <4> HIDE DEF n, old
      <4>3. models'[m].providers[q] = models[m].providers[q] + Share(p, q, bag[m])
        BY <3>2, <4>1, AddRegistrationCounts
      <4> QED
        BY <3>1, <3>2, <4>2, <4>3 DEF Share
    <3> QED
      BY <3>3, <3>4
  <2> QED
    BY <2>1 DEF ProvidersExact
<1> QED
  BY <1>1, <1>2

-----------------------------------------------------------------------------
(* The invariant.  No part is inductive alone: the type says that counters  *)
(* are natural numbers, and only the counts show that a decrement finds a   *)
(* positive one.                                                            *)

LEMMA CountStable ==
  ASSUME CountExact, ProvidersExact, CountersUnchanged
  PROVE  CountExact' /\ ProvidersExact'
<1>1. CountExact'
  BY DEF CountExact, CountersUnchanged, Slots
<1>2. ASSUME NEW m \in Models, NEW q \in Providers
      PROVE  models'[m].providers[q]
               = Cardinality(Slots({c \in Clients : clientProviders[c] = q}, m)')
  <2>1. Slots({c \in Clients : clientProviders[c] = q}, m)'
          = Slots({c \in Clients : clientProviders[c] = q}, m)
    BY DEF CountersUnchanged, Slots
  <2> QED
    BY <2>1 DEF ProvidersExact, CountersUnchanged
<1> QED
  BY <1>1, <1>2 DEF ProvidersExact

Inv == TypeOK /\ CountExact /\ ProvidersExact

LEMMA InitInv == Init => Inv
<1> SUFFICES ASSUME Init PROVE Inv
  OBVIOUS
<1>1. TypeOK
  BY NoRegistrationType, ConstantsAssumption
     DEF Init, TypeOK, ModelBag, EmptyBag, ProviderIDs
<1>2. ASSUME NEW m \in Models, NEW S \in SUBSET Clients
      PROVE  Cardinality(Slots(S, m)) = 0
  <2>1. Slots(S, m) = {}
    BY ConstantsAssumption DEF Init, Slots, EmptyBag
  <2> QED
    BY <2>1, FS_EmptySet
<1>3. CountExact
  BY <1>2, NoRegistrationType DEF Init, CountExact
<1>4. ASSUME NEW m \in Models, NEW q \in Providers
      PROVE  models[m].providers[q] = Cardinality(Slots({c \in Clients : clientProviders[c] = q}, m))
  <2>1. {c \in Clients : clientProviders[c] = q} \in SUBSET Clients
    OBVIOUS
  <2>2. models[m].providers[q] = 0
    BY DEF Init, NoRegistration
  <2> QED
    BY <1>2, <2>1, <2>2
<1> QED
  BY <1>1, <1>3, <1>4 DEF Inv, ProvidersExact

LEMMA NextInv == Inv /\ [Next]_vars => Inv'
<1> SUFFICES ASSUME TypeOK, CountExact, ProvidersExact, [Next]_vars
             PROVE  TypeOK' /\ CountExact' /\ ProvidersExact'
  BY DEF Inv
<1>1. CASE CleanupExpiredQuotas
  BY <1>1, CleanupAction, CountStable
<1>2. ASSUME NEW c \in Clients, UnregisterClient(c)
      PROVE  TypeOK' /\ CountExact' /\ ProvidersExact'
  BY <1>2, UnregisterType, UnregisterCount, UnregisterProviders DEF UnregisterClient
<1>3. ASSUME NEW c \in Clients, NEW p \in ProviderIDs, NEW bag \in ModelBag,
             RegisterClient(c, p, bag)
      PROVE  TypeOK' /\ CountExact' /\ ProvidersExact'
  BY <1>3, RegisterType, RegisterCount, RegisterProviders
<1>4. ASSUME NEW c \in Clients, NEW m \in Models,
             \/ SetModelQuotaExceeded(c, m)
             \/ ClearModelQuotaExceeded(c, m)
             \/ \E reason \in {"quota", "other"} : SuspendClientModel(c, m, reason)
             \/ ResumeClientModel(c, m)
             \/ QuotaExpires(c, m)
      PROVE  TypeOK' /\ CountExact' /\ ProvidersExact'
  BY <1>4, MarkActions, CountStable
<1>5. CASE UNCHANGED vars
  BY <1>5 DEF vars, TypeOK, CountExact, ProvidersExact, Slots
<1> QED
  BY <1>1, <1>2, <1>3, <1>4, <1>5 DEF Next

\* Every variable keeps its type; in particular no counter goes negative.
THEOREM TypeCorrect == Spec => []TypeOK
<1>1. Inv => TypeOK
  BY DEF Inv
<1> QED
  BY <1>1, InitInv, NextInv, PTL DEF Spec

\* The counter of a model, moved up and down by RegisterClient's reconcile
\* and by UnregisterClient, is what a recount over the client lists gives.
THEOREM CountCorrect == Spec => []CountExact
<1>1. Inv => CountExact
  BY DEF Inv
<1> QED
  BY <1>1, InitInv, NextInv, PTL DEF Spec

\* So is the counter of each provider of a model, which the routing of a
\* request reads (GetModelProviders), whatever clients change their provider.
THEOREM ProvidersCorrect == Spec => []ProvidersExact
<1>1. Inv => ProvidersExact
  BY DEF Inv
<1> QED
  BY <1>1, InitInv, NextInv, PTL DEF Spec

-----------------------------------------------------------------------------
(* Marks. *)

NoMark(reg, c) == reg.quota[c] = "none" /\ reg.suspended[c] = "none"

LEMMA ClearMarksNone ==
  ASSUME NEW reg \in Registration, NEW c \in Clients
  PROVE  NoMark(ClearMarks(reg, c), c)
<1> DEFINE r == [reg EXCEPT !.quota[c] = "none"]
<1>1. r.quota[c] = "none" /\ r.suspended = reg.suspended
  BY DEF Registration
<1>2. r = [count |-> reg.count, providers |-> reg.providers,
           quota |-> [reg.quota EXCEPT ![c] = "none"], suspended |-> reg.suspended]
  BY DEF Registration
<1>3. ClearMarks(reg, c) = [r EXCEPT !.suspended[c] = "none"]
  BY DEF ClearMarks
<1> HIDE DEF r
<1>4. [r EXCEPT !.suspended[c] = "none"].suspended[c] = "none"
  BY <1>2 DEF Registration
<1>5. [r EXCEPT !.suspended[c] = "none"].quota = r.quota
  BY <1>2
<1> QED
  BY <1>1, <1>3, <1>4, <1>5 DEF NoMark

LEMMA ReconcileNoMark ==
  ASSUME NEW reg \in Registration, NEW c \in Clients, NEW oldN \in Nat, NEW newN \in Nat \ {0},
         NEW oldP \in ProviderIDs, NEW p \in ProviderIDs
  PROVE  NoMark(Reconcile(reg, c, oldN, newN, oldP, p), c)
<1> DEFINE overlap == Lower(oldN, newN)
           moved   == IF oldP # p THEN DropProvider(reg, oldP, overlap) ELSE reg
           surplus == Above0(oldN - newN)
           removed == RemoveRegistration(moved, c, oldP, surplus)
           missing == Above0(newN - oldN)
           added   == AddRegistration(removed, p, missing)
           marked  == ClearMarks(added, c)
           result  == IF oldP # p THEN AddProvider(marked, p, overlap) ELSE marked
<1>0. overlap \in Nat /\ surplus \in Nat /\ missing \in Nat
  BY DEF Lower, Above0
<1>1. Reconcile(reg, c, oldN, newN, oldP, p) = result
  BY DEF Reconcile
<1> HIDE DEF overlap, surplus, missing
<1>2. moved \in Registration
  BY <1>0, DropProviderType
<1> HIDE DEF moved
<1>3. removed \in Registration
  BY <1>0, <1>2, RemoveRegistrationType
<1> HIDE DEF removed
<1>4. added \in Registration
  BY <1>0, <1>3, AddRegistrationType
<1> HIDE DEF added
<1>5. marked \in Registration /\ NoMark(marked, c)
  BY <1>4, ClearMarksType, ClearMarksNone
<1> HIDE DEF marked
<1>6. NoMark(AddProvider(marked, p, overlap), c)
  BY <1>0, <1>5 DEF AddProvider, NoMark, Registration
<1> QED
  BY <1>1, <1>5, <1>6

\* RegisterClient leaves a client it knows no quota or suspension mark on any
\* model of the new list, whatever results came late for the old one.
THEOREM MarksCleared == Spec => ReconcileClearsMarks
<1>1. ASSUME TypeOK, NEW c \in Clients, Registered(c), NEW p \in ProviderIDs, NEW bag \in ModelBag,
             RegisterClient(c, p, bag), NEW m \in Models, bag[m] > 0
      PROVE  models'[m].quota[c] = "none" /\ models'[m].suspended[c] = "none"
  <2>1. bag # EmptyBag
    BY <1>1 DEF EmptyBag
  <2>2. models'[m] = Reconcile(models[m], c, clientModels[c][m], bag[m], clientProviders[c], p)
    BY <1>1, <2>1 DEF RegisterClient
  <2>3. /\ models[m] \in Registration /\ clientModels[c][m] \in Nat
        /\ bag[m] \in Nat \ {0} /\ clientProviders[c] \in ProviderIDs
    BY <1>1, ConstantsAssumption DEF TypeOK, ModelBag
  <2> QED
    BY <2>2, <2>3, ReconcileNoMark DEF NoMark
<1> DEFINE Clears == \A c \in Clients : Registered(c) =>
             \A p \in ProviderIDs, bag \in ModelBag : RegisterClient(c, p, bag) =>
               \A m \in Models : bag[m] > 0 =>
                 models'[m].quota[c] = "none" /\ models'[m].suspended[c] = "none"
<1>2. Inv /\ [Next]_vars => [Clears]_vars
  BY <1>1 DEF Inv
<1> QED
  BY <1>2, InitInv, NextInv, PTL DEF Spec, ReconcileClearsMarks

-----------------------------------------------------------------------------
(* The relay. *)

\* The types of what the argument is about.
PendingTypes ==
  /\ sessions \in [Names -> Conns \union {NoConn}]
  /\ cleanup \in [Conns -> {"no", "failing", "unlisting", "telling", "done"}]
  /\ pending \in [Conns -> SUBSET Calls]
  /\ visiting \in [Conns -> SUBSET Calls]
  /\ loaded \in [Conns -> Calls \union {NoCall}]
  /\ caller \in [Calls -> {"idle", "found", "stored", "loaded", "waiting", "ok", "failed",
                            "refused", "left", "panicked"}]
  /\ conn \in [Calls -> Conns \union {NoConn}]
  /\ chanClosed \in [Calls -> BOOLEAN]
  /\ \A r \in Calls : caller[r] \notin {"idle", "refused"} => conn[r] \in Conns

\* A request about to be written is stored, or over, while its session is open.
LoadedIsPending ==
  \A r \in Calls :
    caller[r] = "loaded" /\ cleanup[conn[r]] = "no" => r \in pending[conn[r]] \/ chanClosed[r]

\* The request has been written: from here on the provider may answer it.
Written(r) == caller[r] \in {"waiting", "ok", "failed", "left"}

\* Who has written is stored, or over; once cleanup has begun, cleanup has its
\* request in hand or still comes to it; and later it is over.
WrittenIsFound ==
  \A r \in Calls :
    Written(r) =>
      \/ chanClosed[r]
      \/ /\ r \in pending[conn[r]]
         /\ \/ cleanup[conn[r]] = "no"
            \/ cleanup[conn[r]] = "failing" /\ (loaded[conn[r]] = r \/ r \in visiting[conn[r]])

PendingInv == PendingTypes /\ LoadedIsPending /\ WrittenIsFound

\* What a step may do without disturbing this: close channels, take closed
\* requests out of the maps, let callers end.
Harmless ==
  /\ UNCHANGED <<sessions, cleanup, visiting, loaded, conn>>
  /\ pending' \in [Conns -> SUBSET Calls]
  /\ chanClosed' \in [Calls -> BOOLEAN]
  /\ \A r \in Calls :
       /\ caller'[r] = caller[r] \/ (caller[r] = "waiting" /\ caller'[r] \in Ended)
       /\ chanClosed[r] => chanClosed'[r]
       /\ \A c \in Conns : r \in pending[c] => r \in pending'[c] \/ chanClosed'[r]
  /\ caller' \in [Calls -> {"idle", "found", "stored", "loaded", "waiting"} \union Ended]
  /\ \A r \in Calls : caller[r] \in {"idle", "refused"} => caller'[r] = caller[r]

\* A request taken out of the map is closed in the same step (Offer, Forget).
LEMMA TakenOut ==
  ASSUME PendingTypes, NEW c \in Conns, NEW q \in Calls, q \in pending[c],
         pending' = [pending EXCEPT ![c] = @ \ {q}],
         chanClosed' = [chanClosed EXCEPT ![q] = TRUE],
         UNCHANGED <<sessions, cleanup, visiting, loaded, conn, caller>>
  PROVE  Harmless
<1>1. pending' \in [Conns -> SUBSET Calls] /\ chanClosed' \in [Calls -> BOOLEAN]
  BY DEF PendingTypes
<1>2. ASSUME NEW r \in Calls
      PROVE  /\ chanClosed[r] => chanClosed'[r]
             /\ \A d \in Conns : r \in pending[d] => r \in pending'[d] \/ chanClosed'[r]
  <2>1. CASE r = q
    BY <2>1 DEF PendingTypes
  <2>2. CASE r # q
    BY <2>2 DEF PendingTypes
  <2> QED BY <2>1, <2>2
<1>3. caller' \in [Calls -> {"idle", "found", "stored", "loaded", "waiting"} \union Ended]
  BY DEF PendingTypes, Ended
<1> QED BY <1>1, <1>2, <1>3 DEF Harmless

\* Closing channels and ending callers disturbs nothing.
LEMMA HarmlessKeeps ==
  ASSUME PendingInv, Harmless
  PROVE  PendingInv'
<1> USE DEF PendingInv, Harmless, Ended
<1>1. PendingTypes'
  BY DEF PendingTypes
<1>2. LoadedIsPending'
  BY DEF PendingTypes, LoadedIsPending
<1>3. WrittenIsFound'
  BY DEF PendingTypes, WrittenIsFound, Written
<1> QED BY <1>1, <1>2, <1>3

\* cleanup is entered once, and starts with every request stored by then.
LEMMA StartKeeps ==
  ASSUME PendingInv, NEW c, NEW why, StartCleanup(c, why),
         UNCHANGED <<sessions, pending, caller, conn, chanClosed>>
  PROVE  PendingInv'
<1> USE DEF PendingInv, StartCleanup
<1>1. PendingTypes'
  BY DEF PendingTypes
<1>2. LoadedIsPending'
  BY DEF PendingTypes, LoadedIsPending
<1>3. WrittenIsFound'
  BY DEF PendingTypes, WrittenIsFound, Written
<1> QED BY <1>1, <1>2, <1>3

\* The steps of cleanup.
LEMMA CleanupKeeps ==
  ASSUME PendingInv, NEW c \in Conns, Cleanup(c)
  PROVE  PendingInv'
<1> USE RelayAssumption DEF PendingInv
<1>1. ASSUME NEW q \in Calls, VisitPending(c, q) PROVE PendingInv'
  <2> USE <1>1 DEF VisitPending, connVars, callVars, chanVars
  <2>1. PendingTypes'
    BY DEF PendingTypes
  <2>2. LoadedIsPending'
    BY DEF PendingTypes, LoadedIsPending
  <2>3. WrittenIsFound'
    BY DEF PendingTypes, WrittenIsFound, Written
  <2> QED BY <2>1, <2>2, <2>3
<1>2. CASE FailPending(c)
  <2> USE <1>2 DEF FailPending, connVars, callVars
  <2>1. PendingTypes'
    BY DEF PendingTypes
  <2>2. LoadedIsPending'
    BY DEF PendingTypes, LoadedIsPending
  <2>3. WrittenIsFound'
    BY DEF PendingTypes, WrittenIsFound, Written
  <2> QED BY <2>1, <2>2, <2>3
<1>3. CASE WipePending(c)
  <2> USE <1>3 DEF WipePending, connVars, callVars
  <2>1. PendingTypes'
    BY DEF PendingTypes
  <2>2. LoadedIsPending'
    BY DEF PendingTypes, LoadedIsPending
  <2>3. WrittenIsFound'
    BY DEF PendingTypes, WrittenIsFound, Written
  <2> QED BY <2>1, <2>2, <2>3
<1>4. CASE Unlist(c) \/ Disconnected(c)
  <2> USE <1>4 DEF Unlist, Disconnected, connVars, callVars, chanVars
  <2>1. PendingTypes'
    BY DEF PendingTypes
  <2>2. LoadedIsPending'
    BY DEF PendingTypes, LoadedIsPending
  <2>3. WrittenIsFound'
    BY DEF PendingTypes, WrittenIsFound, Written
  <2> QED BY <2>1, <2>2, <2>3
<1> QED BY <1>1, <1>2, <1>3, <1>4 DEF Cleanup

\* The steps of a caller up to where it waits.
LEMMA CallerKeeps ==
  ASSUME PendingInv, NEW q \in Calls, Find(q) \/ Store(q) \/ Load(q) \/ Write(q)
  PROVE  PendingInv'
<1> USE DEF PendingInv, connVars, closeVars, chanVars
<1>1. CASE Find(q) \/ Store(q) \/ Load(q)
  <2> USE <1>1 DEF Find, Store, Load
  <2>1. PendingTypes'
    BY DEF PendingTypes
  <2>2. LoadedIsPending'
    BY DEF PendingTypes, LoadedIsPending
  <2>3. WrittenIsFound'
    BY DEF PendingTypes, WrittenIsFound, Written
  <2> QED BY <2>1, <2>2, <2>3
<1>2. CASE Write(q)
  <2> USE <1>2 DEF Write, IsClosed
  <2>1. PendingTypes'
    <3>1. conn[q] \in Conns
      BY DEF PendingTypes
    <3>2. /\ pending' = pending \/ pending' = [pending EXCEPT ![conn[q]] = @ \ {q}]
          /\ chanClosed' = chanClosed \/ chanClosed' = [chanClosed EXCEPT ![q] = TRUE]
      OBVIOUS
    <3>3. caller' \in {[caller EXCEPT ![q] = "waiting"], [caller EXCEPT ![q] = "refused"]}
      OBVIOUS
    <3>4. UNCHANGED <<sessions, cleanup, visiting, loaded, conn>>
      OBVIOUS
    <3>5. pending' \in [Conns -> SUBSET Calls]
      BY <3>1, <3>2 DEF PendingTypes
    <3>6. chanClosed' \in [Calls -> BOOLEAN]
      BY <3>2 DEF PendingTypes
    <3> QED BY <3>1, <3>3, <3>4, <3>5, <3>6 DEF PendingTypes
  <2>2. UNCHANGED <<conn, cleanup, visiting, loaded>> /\ caller'[q] \in {"waiting", "refused"}
    BY DEF PendingTypes
  <2>3. ASSUME NEW r \in Calls, r # q
        PROVE  /\ caller'[r] = caller[r] /\ chanClosed'[r] = chanClosed[r]
               /\ \A c \in Conns : r \in pending[c] => r \in pending'[c]
    BY <2>3 DEF PendingTypes
  <2>4. LoadedIsPending'
    BY <2>2, <2>3 DEF PendingTypes, LoadedIsPending
  <2>5. WrittenIsFound'
    BY <2>2, <2>3 DEF PendingTypes, LoadedIsPending, WrittenIsFound, Written
  <2> QED BY <2>1, <2>4, <2>5
<1> QED BY <1>1, <1>2

\* The other steps of a connection that change what the invariant is about.
LEMMA ConnectionKeeps ==
  ASSUME PendingInv, NEW c \in Conns,
         Connect(c) \/ Replace(c) \/ Heartbeat(c) \/ Offer(c) \/ ReadFails(c) \/ StopOne(c)
  PROVE  PendingInv'
<1> USE DEF PendingInv, connVars, closeVars, callVars, chanVars
<1>1. CASE Connect(c)
  <2>1. UNCHANGED <<cleanup, pending, visiting, loaded, caller, conn, chanClosed>>
    BY <1>1 DEF Connect
  <2>2. sessions' \in [Names -> Conns \union {NoConn}]
    BY <1>1 DEF Connect, PendingTypes
  <2> QED BY <2>1, <2>2 DEF PendingTypes, LoadedIsPending, WrittenIsFound, Written
<1>2. ASSUME UNCHANGED <<sessions, cleanup, pending, visiting, loaded, caller, conn, chanClosed>>
      PROVE  PendingInv'
  BY <1>2 DEF PendingTypes, LoadedIsPending, WrittenIsFound, Written
<1>3. CASE Replace(c) \/ Heartbeat(c) \/ ReadFails(c) \/ StopOne(c)
  BY <1>2, <1>3, StartKeeps DEF Replace, Heartbeat, ReadFails, StopOne
<1>4. CASE Offer(c)
  <2>1. UNCHANGED <<sessions, cleanup, visiting, loaded, conn, caller>>
    BY <1>4 DEF Offer
  <2>2. \/ UNCHANGED <<pending, chanClosed>>
        \/ /\ read[c].call \in pending[c]
           /\ pending' = [pending EXCEPT ![c] = @ \ {read[c].call}]
           /\ chanClosed' = [chanClosed EXCEPT ![read[c].call] = TRUE]
    BY <1>4 DEF Offer
  <2>3. ASSUME UNCHANGED <<pending, chanClosed>> PROVE PendingInv'
    BY <1>2, <2>1, <2>3
  <2>4. ASSUME /\ read[c].call \in pending[c]
               /\ pending' = [pending EXCEPT ![c] = @ \ {read[c].call}]
               /\ chanClosed' = [chanClosed EXCEPT ![read[c].call] = TRUE]
        PROVE  PendingInv'
    <3>1. read[c].call \in Calls
      BY <2>4 DEF PendingTypes
    <3>2. Harmless
      BY <2>1, <2>4, <3>1, TakenOut
    <3> QED BY <3>2, HarmlessKeeps
  <2> QED BY <2>2, <2>3, <2>4
<1> QED BY <1>1, <1>3, <1>4

\* A caller that waits, and the goroutine that watches its context.
LEMMA WaiterKeeps ==
  ASSUME PendingInv, NEW q \in Calls, Forget(q) \/ Take(q)
  PROVE  PendingInv'
<1> USE DEF PendingInv, connVars, closeVars, callVars, chanVars
<1>1. CASE Forget(q)
  <2>1. conn[q] \in Conns
    BY <1>1 DEF Forget, PendingTypes
  <2>2. Harmless
    BY <1>1, <2>1, TakenOut DEF Forget
  <2> QED BY <2>2, HarmlessKeeps
<1>2. CASE Take(q)
  <2>1. UNCHANGED <<sessions, cleanup, visiting, loaded, conn, pending, chanClosed>>
    BY <1>2 DEF Take
  <2>2. caller[q] = "waiting" /\ \E to \in {"waiting", "ok", "failed", "left"} :
          caller' = [caller EXCEPT ![q] = to]
    BY <1>2 DEF Take, PendingTypes
  <2>3. Harmless
    BY <2>1, <2>2 DEF Harmless, PendingTypes, Ended
  <2> QED BY <2>3, HarmlessKeeps
<1> QED BY <1>1, <1>2

\* The invariant of stored requests, for any number of connections, names and
\* requests, any buffer, and Stop called at any time.
THEOREM PendingInOrder == RelaySpec => []PendingInv
<1>1. RelayInit => PendingInv
  BY DEF RelayInit, PendingInv, PendingTypes, LoadedIsPending, WrittenIsFound, Written
<1>2. PendingInv /\ [RelayNext]_relayVars => PendingInv'
  <2> SUFFICES ASSUME PendingInv, [RelayNext]_relayVars PROVE PendingInv'
    OBVIOUS
  <2>1. ASSUME UNCHANGED <<sessions, cleanup, pending, visiting, loaded, caller, conn, chanClosed>>
        PROVE  PendingInv'
    BY <2>1 DEF PendingInv, PendingTypes, LoadedIsPending, WrittenIsFound, Written
  <2>2. CASE UNCHANGED relayVars
    BY <2>1, <2>2 DEF relayVars, connVars, closeVars, callVars, chanVars
  <2>3. ASSUME NEW c \in Conns, Announce(c) \/ Break(c) \/ Receive(c) PROVE PendingInv'
    BY <2>1, <2>3 DEF Announce, Break, Receive, connVars, closeVars, callVars, chanVars
  <2>4. ASSUME NEW q \in Calls, Cancel(q) \/ Answer(q) PROVE PendingInv'
    BY <2>1, <2>4 DEF Cancel, Answer, connVars, closeVars, callVars, chanVars
  <2>5. ASSUME NEW n \in Names, Apply(n) PROVE PendingInv'
    BY <2>1, <2>5 DEF Apply, connVars, closeVars, callVars, chanVars
  <2>6. CASE Stop
    <3>1. UNCHANGED <<cleanup, pending, visiting, loaded, caller, conn, chanClosed>>
      BY <2>6 DEF Stop, closeVars, callVars, chanVars
    <3>2. sessions' \in [Names -> Conns \union {NoConn}]
      BY <2>6 DEF Stop
    <3> QED BY <3>1, <3>2 DEF PendingInv, PendingTypes, LoadedIsPending, WrittenIsFound, Written
  <2>7. ASSUME NEW c \in Conns,
               \/ Connect(c) \/ HandlerSteps(c) \/ Break(c) \/ Heartbeat(c)
               \/ ReaderSteps(c) \/ Cleanup(c) \/ StopOne(c)
        PROVE  PendingInv'
    BY <2>3, <2>7, ConnectionKeeps, CleanupKeeps DEF HandlerSteps, ReaderSteps
  <2>8. ASSUME NEW q \in Calls,
               Find(q) \/ CallerSteps(q) \/ Cancel(q) \/ Forget(q) \/ Answer(q)
        PROVE  PendingInv'
    BY <2>4, <2>8, WaiterKeeps, CallerKeeps DEF CallerSteps
  <2> QED BY <2>2, <2>5, <2>6, <2>7, <2>8 DEF RelayNext, RelayStep
<1> QED BY <1>1, <1>2, PTL DEF RelaySpec

\* No caller of a session that is closed waits on a channel that nobody will
\* close (request, dispatch and cleanup in session.go).
THEOREM CallersReleased == RelaySpec => []ClosedReleases
<1>1. PendingInv => ClosedReleases
  BY DEF PendingInv, PendingTypes, WrittenIsFound, Written, ClosedReleases
<1> QED BY <1>1, PendingInOrder, PTL
-----------------------------------------------------------------------------
(* What a caller is told.  An answer is followed from the provider to the     *)
(* caller: on the wire, in the reader's hand, in the channel, received.       *)

Messages == [call : Calls, body : Int]

AnswerTypes ==
  /\ handler \in [Conns -> {"off", "replacing", "announcing", "returned"}]
  /\ \A c \in Conns : handler[c] # "returned" => reader[c] = "off"
  /\ wire \in [Conns -> Seq(Messages)]
  /\ reader \in [Conns -> {"off", "reading", "offering", "returned"}]
  /\ read \in [Conns -> [call : Calls \union {NoCall}, body : Int]]
  /\ \A c \in Conns : reader[c] = "offering" => read[c].call \in Calls
  /\ chan \in [Calls -> Seq(Int)]
  /\ got \in [Calls -> Seq(Int)]
  /\ sent \in [Calls -> Nat]
  /\ finish \in [Calls -> {0, End, Failure}]
  /\ dropped \in [Calls -> BOOLEAN]
  /\ cancelled \in [Calls -> BOOLEAN]

\* Whatever a connection holds of a request is of one that was sent over it.
MessagesOwned ==
  \A c \in Conns :
    /\ \A i \in 1..Len(wire[c]) :
         conn[wire[c][i].call] = c /\ Written(wire[c][i].call)
    /\ reader[c] = "offering" => conn[read[c].call] = c /\ Written(read[c].call)

RequestsOwned ==
  \A c \in Conns :
    /\ \A r \in Calls :
         r \in pending[c] \union visiting[c] \/ r = loaded[c]
           => conn[r] = c /\ caller[r] \notin {"idle", "found"}
    /\ loaded[c] # NoCall => cleanup[c] # "no"

\* Of a request not written yet nothing was answered; its channel is untouched
\* while its session is open.
UnwrittenIsFresh ==
  \A r \in Calls :
    caller[r] \in {"idle", "found", "stored", "loaded"} =>
      /\ got[r] = <<>> /\ sent[r] = 0 /\ finish[r] = 0
      /\ caller[r] = "idle" \/ cleanup[conn[r]] = "no" => ~chanClosed[r] /\ chan[r] = <<>>

\* Numbers that follow upon n.
Following(s, n) == \A i \in 1..Len(s) : s[i] = n + i
FollowingUntil(s, n, e) ==
  /\ s # <<>> /\ s[Len(s)] = e
  /\ \A i \in 1..(Len(s) - 1) : s[i] = n + i

\* The place of a message in an answer of n chunks and an end f, if f is not 0.
Place(body, n) == IF body < 0 THEN n + 1 ELSE body
Total(n, f) == IF f = 0 THEN n ELSE n + 1
BodyOf(body, f) == body > 0 \/ (body < 0 /\ body = f)

\* The wire w has of the answer to r exactly what lies behind place k, in order.
RestOnWire(w, r, k, n, f) ==
  /\ k <= Total(n, f)
  /\ \A i \in 1..Len(w) : w[i].call = r =>
       /\ BodyOf(w[i].body, f)
       /\ k < Place(w[i].body, n) /\ Place(w[i].body, n) <= Total(n, f)
  /\ \A i, j \in 1..Len(w) :
       i < j /\ w[i].call = r /\ w[j].call = r => Place(w[i].body, n) < Place(w[j].body, n)
  /\ \A p \in (k + 1)..Total(n, f) :
       \E i \in 1..Len(w) : w[i].call = r /\ Place(w[i].body, n) = p

Held(r) == reader[conn[r]] = "offering" /\ read[conn[r]].call = r
Arrived(r) == Len(got[r]) + Len(chan[r])

\* An answer on its way: nothing of it is lost, nothing out of order.
Flowing(r) ==
  /\ Following(got[r], 0) /\ Following(chan[r], Len(got[r]))
  /\ \/ /\ ~Held(r)
        /\ RestOnWire(wire[conn[r]], r, Arrived(r), sent[r], finish[r])
     \/ /\ Held(r)
        /\ BodyOf(read[conn[r]].body, finish[r])
        /\ Place(read[conn[r]].body, sent[r]) = Arrived(r) + 1
        /\ RestOnWire(wire[conn[r]], r, Arrived(r) + 1, sent[r], finish[r])

\* A channel that was closed ends with the provider's end, and holds with what
\* was received the whole answer; or it ends with a failure.
ClosedWell(r) ==
  /\ Following(got[r], 0)
  /\ \/ FollowingUntil(chan[r], Len(got[r]), Failure)
     \/ /\ FollowingUntil(chan[r], Len(got[r]), End)
        /\ finish[r] = End /\ Arrived(r) = sent[r] + 1

Told(r) == finish[r] = End /\ Following(got[r], 0) /\ Len(got[r]) = sent[r]

Answered(r) ==
  ~dropped[r] /\ ~cancelled[r] =>
    /\ caller[r] = "waiting" => IF chanClosed[r] THEN ClosedWell(r) ELSE Flowing(r)
    /\ caller[r] = "ok" => Told(r)

AnswerInv ==
  /\ AnswerTypes /\ MessagesOwned /\ RequestsOwned /\ UnwrittenIsFresh
  /\ \A r \in Calls : Answered(r)

\* Numbers put behind, or taken in front.
LEMMA NumbersPutBehind ==
  ASSUME NEW s \in Seq(Int), NEW n \in Int, NEW m \in Int, Following(s, n)
  PROVE  /\ m = n + Len(s) + 1 => Following(Append(s, m), n)
         /\ FollowingUntil(Append(s, m), n, m)
         /\ Len(Append(s, m)) = Len(s) + 1
<1> DEFINE t == Append(s, m)
<1>1. Len(t) = Len(s) + 1 /\ Len(s) \in Nat /\ t # <<>>
  OBVIOUS
<1>2. t[Len(s) + 1] = m /\ \A i \in 1..Len(s) : t[i] = s[i]
  OBVIOUS
<1> HIDE DEF t
<1>3. m = n + Len(s) + 1 => Following(t, n)
  BY <1>1, <1>2 DEF Following
<1>4. Len(t) - 1 = Len(s)
  BY <1>1
<1>5. FollowingUntil(t, n, m)
  BY <1>1, <1>2, <1>4 DEF Following, FollowingUntil
<1> QED BY <1>1, <1>3, <1>5 DEF t

LEMMA NumbersTaken ==
  ASSUME NEW s \in Seq(Int), NEW n \in Int, s # <<>>, Following(s, n)
  PROVE  Head(s) = n + 1 /\ Following(Tail(s), n + 1) /\ Len(Tail(s)) = Len(s) - 1
<1> DEFINE t == Tail(s)
<1>1. Len(t) = Len(s) - 1 /\ Len(s) \in Nat \ {0} /\ Head(s) = s[1]
  OBVIOUS
<1>2. \A i \in 1..Len(t) : t[i] = s[i + 1]
  OBVIOUS
<1> HIDE DEF t
<1>3. s[1] = n + 1
  BY <1>1 DEF Following
<1>4. ASSUME NEW i \in 1..Len(t) PROVE t[i] = (n + 1) + i
  <2>1. i + 1 \in 1..Len(s)
    BY <1>1
  <2> QED BY <1>2, <2>1 DEF Following
<1> QED BY <1>1, <1>3, <1>4 DEF Following, t

LEMMA LastButOneTaken ==
  ASSUME NEW s \in Seq(Int), NEW n \in Int, NEW e \in Int, FollowingUntil(s, n, e), Len(s) > 1
  PROVE  Head(s) = n + 1 /\ FollowingUntil(Tail(s), n + 1, e) /\ Len(Tail(s)) = Len(s) - 1
<1> DEFINE t == Tail(s)
<1>1. s # <<>>
  BY DEF FollowingUntil
<1>2. Len(s) \in Nat /\ Len(s) > 1 /\ Head(s) = s[1]
  BY <1>1
<1>3. Len(t) = Len(s) - 1 /\ t \in Seq(Int)
  BY <1>1
<1>4. \A i \in 1..Len(t) : t[i] = s[i + 1]
  BY <1>1
<1> HIDE DEF t
<1>5. t # <<>>
  <2>1. Len(t) \in Nat \ {0}
    BY <1>2, <1>3
  <2>2. t \in Seq(Int)
    BY <1>3
  <2> QED BY <2>1, <2>2
<1>6. s[1] = n + 1
  BY <1>2 DEF FollowingUntil
<1>7. t[Len(t)] = e
  BY <1>2, <1>3, <1>4 DEF FollowingUntil
<1>8. ASSUME NEW i \in 1..(Len(t) - 1) PROVE t[i] = (n + 1) + i
  <2>1. i + 1 \in 1..(Len(s) - 1) /\ i \in 1..Len(t)
    BY <1>2, <1>3
  <2> QED BY <1>4, <2>1 DEF FollowingUntil
<1> QED BY <1>2, <1>3, <1>5, <1>6, <1>7, <1>8 DEF FollowingUntil, t

\* A wire: a message of another request comes behind, or is taken.
LEMMA OthersPass ==
  ASSUME NEW w \in Seq(Messages), NEW m \in Messages, NEW r, NEW k \in Nat, NEW n \in Nat,
         NEW f \in Int, RestOnWire(w, r, k, n, f)
  PROVE  /\ m.call # r => RestOnWire(Append(w, m), r, k, n, f)
         /\ w # <<>> /\ Head(w).call # r => RestOnWire(Tail(w), r, k, n, f)
<1>1. ASSUME m.call # r PROVE RestOnWire(Append(w, m), r, k, n, f)
  <2> DEFINE v == Append(w, m)
  <2>1. Len(v) = Len(w) + 1 /\ v[Len(w) + 1] = m /\ \A i \in 1..Len(w) : v[i] = w[i]
    OBVIOUS
  <2> HIDE DEF v
  <2>2. \A i \in 1..Len(v) : v[i].call = r => i \in 1..Len(w) /\ v[i] = w[i]
    BY <1>1, <2>1
  <2>3. \A i \in 1..Len(w) : i \in 1..Len(v) /\ v[i] = w[i]
    BY <2>1
  <2> QED BY <2>2, <2>3 DEF RestOnWire, v
<1>2. ASSUME w # <<>>, Head(w).call # r PROVE RestOnWire(Tail(w), r, k, n, f)
  <2> DEFINE v == Tail(w)
  <2>1. Len(v) = Len(w) - 1 /\ \A i \in 1..Len(v) : v[i] = w[i + 1]
    BY <1>2
  <2>2. w[1].call # r /\ Len(w) \in Nat
    BY <1>2
  <2> HIDE DEF v
  <2>3. \A i \in 1..Len(v) : i + 1 \in 1..Len(w) /\ v[i] = w[i + 1]
    BY <2>1, <2>2
  <2>4. \A i \in 1..Len(w) : w[i].call = r => i - 1 \in 1..Len(v) /\ v[i - 1] = w[i]
    BY <2>1, <2>2
  <2>5. \A p \in (k + 1)..Total(n, f) :
          \E i \in 1..Len(v) : v[i].call = r /\ Place(v[i].body, n) = p
    BY <2>4 DEF RestOnWire
  <2>6. \A i, j \in 1..Len(v) : i < j => i + 1 < j + 1
    OBVIOUS
  <2> QED BY <2>3, <2>5, <2>6 DEF RestOnWire, v
<1> QED BY <1>1, <1>2

\* A wire: the next message of the answer is taken.
LEMMA NextIsTaken ==
  ASSUME NEW w \in Seq(Messages), NEW r, NEW k \in Nat, NEW n \in Nat, NEW f \in Int,
         RestOnWire(w, r, k, n, f), w # <<>>, Head(w).call = r
  PROVE  /\ BodyOf(Head(w).body, f) /\ Place(Head(w).body, n) = k + 1
         /\ RestOnWire(Tail(w), r, k + 1, n, f)
<1> DEFINE v == Tail(w)
<1>1. Len(v) = Len(w) - 1 /\ (\A i \in 1..Len(v) : v[i] = w[i + 1]) /\ Head(w) = w[1]
  OBVIOUS
<1>2. Len(w) \in Nat \ {0} /\ 1 \in 1..Len(w) /\ w[1].call = r
  OBVIOUS
<1>3. \A i \in 1..Len(w) : w[i] \in Messages
  OBVIOUS
<1> HIDE DEF v
<1>4. k < Place(w[1].body, n) /\ Place(w[1].body, n) <= Total(n, f) /\ BodyOf(w[1].body, f)
  BY <1>2 DEF RestOnWire
<1>5. Total(n, f) \in Nat /\ \A i \in 1..Len(w) : Place(w[i].body, n) \in Int
  BY <1>3 DEF Total, Place, Messages
<1>6. PICK i \in 1..Len(w) : w[i].call = r /\ Place(w[i].body, n) = k + 1
  BY <1>2, <1>4, <1>5 DEF RestOnWire
<1>7. Place(w[1].body, n) = k + 1
  <2>1. CASE i = 1
    BY <1>6, <2>1
  <2>2. CASE i # 1
    BY <1>2, <1>4, <1>5, <1>6, <2>2 DEF RestOnWire
  <2> QED BY <2>1, <2>2
<1>8. \A j \in 1..Len(v) : j + 1 \in 1..Len(w) /\ v[j] = w[j + 1] /\ 1 < j + 1
  BY <1>1, <1>2
<1>9. \A j \in 1..Len(v) : v[j].call = r =>
        /\ BodyOf(v[j].body, f)
        /\ k + 1 < Place(v[j].body, n) /\ Place(v[j].body, n) <= Total(n, f)
  BY <1>2, <1>7, <1>8 DEF RestOnWire
<1>10. \A a, b \in 1..Len(v) :
         a < b /\ v[a].call = r /\ v[b].call = r => Place(v[a].body, n) < Place(v[b].body, n)
  <2> SUFFICES ASSUME NEW a \in 1..Len(v), NEW b \in 1..Len(v), a < b, v[a].call = r, v[b].call = r
               PROVE  Place(v[a].body, n) < Place(v[b].body, n)
    OBVIOUS
  <2>1. a + 1 \in 1..Len(w) /\ b + 1 \in 1..Len(w) /\ a + 1 < b + 1
    BY <1>8
  <2>2. w[a + 1].call = r /\ w[b + 1].call = r
    BY <1>8
  <2>3. Place(w[a + 1].body, n) < Place(w[b + 1].body, n)
    BY <2>1, <2>2 DEF RestOnWire
  <2> QED BY <1>8, <2>3
<1>11. ASSUME NEW p \in (k + 2)..Total(n, f)
       PROVE  \E j \in 1..Len(v) : v[j].call = r /\ Place(v[j].body, n) = p
  <2>1. PICK j \in 1..Len(w) : w[j].call = r /\ Place(w[j].body, n) = p
    BY <1>5 DEF RestOnWire
  <2>2. j - 1 \in 1..Len(v) /\ v[j - 1] = w[j]
    BY <1>1, <1>2, <1>7, <2>1
  <2> QED BY <2>1, <2>2
<1> QED BY <1>1, <1>4, <1>5, <1>7, <1>9, <1>10, <1>11 DEF RestOnWire, v

\* A wire: the provider sends its next chunk, or the end.
LEMMA NextIsSent ==
  ASSUME NEW w \in Seq(Messages), NEW r \in Calls, NEW k \in Nat, NEW n \in Nat,
         NEW last \in {End, Failure}, RestOnWire(w, r, k, n, 0)
  PROVE  /\ RestOnWire(Append(w, [call |-> r, body |-> n + 1]), r, k, n + 1, 0)
         /\ RestOnWire(Append(w, [call |-> r, body |-> last]), r, k, n, last)
<1>0. last < 0 /\ last # 0 /\ last \in Int
  BY DEF End, Failure
<1>1. Total(n, 0) = n /\ Total(n + 1, 0) = n + 1 /\ Total(n, last) = n + 1
  BY <1>0 DEF Total
<1>2. \A i \in 1..Len(w) : w[i] \in Messages
  OBVIOUS
<1>3. \A i \in 1..Len(w) : w[i].call = r =>
        /\ w[i].body > 0 /\ w[i].body \in Int /\ k < w[i].body /\ w[i].body <= n
        /\ BodyOf(w[i].body, 0) /\ BodyOf(w[i].body, last)
        /\ Place(w[i].body, n) = w[i].body /\ Place(w[i].body, n + 1) = w[i].body
  BY <1>1, <1>2 DEF RestOnWire, BodyOf, Place, Messages
<1>4. ASSUME NEW b \in Int, NEW N \in Nat, Place(b, N) = n + 1, NEW f \in Int, BodyOf(b, f),
             Total(N, f) = n + 1, N \in {n, n + 1}, f \in {0, last}
      PROVE  RestOnWire(Append(w, [call |-> r, body |-> b]), r, k, N, f)
  <2> DEFINE m == [call |-> r, body |-> b]
             v == Append(w, m)
  <2>1. Len(v) = Len(w) + 1 /\ v[Len(w) + 1] = m /\ (\A i \in 1..Len(w) : v[i] = w[i])
        /\ Len(w) \in Nat
    OBVIOUS
  <2>2. m.call = r /\ m.body = b
    OBVIOUS
  <2> HIDE DEF v, m
  <2>3. \A i \in 1..Len(v) : i \in 1..Len(w) \/ i = Len(w) + 1
    BY <2>1
  <2>4. k <= n
    BY <1>1 DEF RestOnWire
  <2>5. \A i \in 1..Len(w) : w[i].call = r => Place(w[i].body, N) = w[i].body /\ BodyOf(w[i].body, f)
    BY <1>3, <1>4
  <2>6. \A i \in 1..Len(v) : v[i].call = r =>
          /\ BodyOf(v[i].body, f)
          /\ k < Place(v[i].body, N) /\ Place(v[i].body, N) <= Total(N, f)
    BY <1>3, <1>4, <2>1, <2>2, <2>3, <2>4, <2>5
  <2>7. \A i, j \in 1..Len(v) :
          i < j /\ v[i].call = r /\ v[j].call = r => Place(v[i].body, N) < Place(v[j].body, N)
    <3> SUFFICES ASSUME NEW i \in 1..Len(v), NEW j \in 1..Len(v), i < j, v[i].call = r,
                        v[j].call = r
                 PROVE  Place(v[i].body, N) < Place(v[j].body, N)
      OBVIOUS
    <3>1. i \in 1..Len(w)
      BY <2>1
    <3>2. CASE j \in 1..Len(w)
      BY <1>3, <2>1, <2>5, <3>1, <3>2, SMTT(30) DEF RestOnWire
    <3>3. CASE j = Len(w) + 1
      BY <1>3, <1>4, <2>1, <2>2, <2>5, <3>1, <3>3
    <3> QED BY <2>3, <3>2, <3>3
  <2>8. ASSUME NEW p \in (k + 1)..Total(N, f)
        PROVE  \E i \in 1..Len(v) : v[i].call = r /\ Place(v[i].body, N) = p
    <3>1. CASE p = n + 1
      BY <1>4, <2>1, <2>2, <3>1
    <3>2. CASE p # n + 1
      <4>1. p \in (k + 1)..Total(n, 0)
        BY <1>1, <1>4, <3>2
      <4>2. PICK i \in 1..Len(w) : w[i].call = r /\ Place(w[i].body, n) = p
        BY <4>1 DEF RestOnWire
      <4> QED BY <1>3, <2>1, <2>5, <4>2
    <3> QED BY <3>1, <3>2
  <2> QED BY <1>4, <2>4, <2>6, <2>7, <2>8, SMTT(30) DEF RestOnWire, v, m
<1>5. Place(n + 1, n + 1) = n + 1 /\ BodyOf(n + 1, 0) /\ Place(last, n) = n + 1 /\ BodyOf(last, last)
  BY <1>0 DEF Place, BodyOf
<1> QED BY <1>0, <1>1, <1>4, <1>5

-----------------------------------------------------------------------------

\* What a step leaves alone of an answer.
LEMMA Undisturbed ==
  ASSUME NEW r \in Calls, AnswerTypes, Answered(r),
         caller'[r] = caller[r], conn'[r] = conn[r],
         chan'[r] = chan[r], chanClosed'[r] = chanClosed[r], got'[r] = got[r],
         sent'[r] = sent[r], finish'[r] = finish[r],
         dropped[r] => dropped'[r], cancelled[r] => cancelled'[r],
         Held(r)' <=> Held(r), Held(r) => read'[conn[r]] = read[conn[r]],
         \A k \in Nat : RestOnWire(wire[conn[r]], r, k, sent[r], finish[r])
                          => RestOnWire(wire'[conn[r]], r, k, sent[r], finish[r])
  PROVE  Answered(r)'
<1>1. Arrived(r) \in Nat /\ Arrived(r) + 1 \in Nat /\ Arrived(r)' = Arrived(r)
  BY DEF AnswerTypes, Arrived
<1>2. Flowing(r) => Flowing(r)'
  BY <1>1 DEF Flowing
<1>3. ClosedWell(r) => ClosedWell(r)'
  BY <1>1 DEF ClosedWell
<1>4. Told(r) => Told(r)'
  BY DEF Told
<1> QED BY <1>2, <1>3, <1>4 DEF Answered

\* A step that passes no message on.
LEMMA QuietKeeps ==
  ASSUME AnswerInv, PendingTypes,
         UNCHANGED <<caller, conn, chan, chanClosed, got, sent, finish, dropped, wire, read>>,
         cancelled' \in [Calls -> BOOLEAN],
         \A r \in Calls : cancelled[r] => cancelled'[r],
         handler' \in [Conns -> {"off", "replacing", "announcing", "returned"}],
         reader' \in [Conns -> {"off", "reading", "offering", "returned"}],
         \A c \in Conns : /\ handler'[c] # "returned" => reader'[c] = "off"
                          /\ reader'[c] = "offering" <=> reader[c] = "offering"
                          /\ cleanup'[c] = "no" => cleanup[c] = "no"
                          /\ loaded'[c] # NoCall => cleanup'[c] # "no",
         \A c \in Conns, r \in Calls :
           r \in pending'[c] \union visiting'[c] \/ r = loaded'[c]
             => r \in pending[c] \union visiting[c] \/ r = loaded[c]
  PROVE  AnswerInv'
<1> USE DEF AnswerInv
<1>1. AnswerTypes'
  BY DEF AnswerTypes
<1>2. MessagesOwned'
  BY DEF MessagesOwned, Written
<1>3. RequestsOwned'
  BY DEF RequestsOwned
<1>4. UnwrittenIsFresh'
  <2> SUFFICES ASSUME NEW r \in Calls, caller[r] \in {"idle", "found", "stored", "loaded"},
                      caller[r] = "idle" \/ cleanup'[conn[r]] = "no"
               PROVE  caller[r] = "idle" \/ cleanup[conn[r]] = "no"
    BY DEF UnwrittenIsFresh
  <2> QED BY DEF PendingTypes
<1>5. ASSUME NEW r \in Calls PROVE Answered(r)'
  <2>1. CASE caller[r] \in {"waiting", "ok"}
    <3>1. conn[r] \in Conns
      BY <2>1 DEF PendingTypes
    <3>2. Held(r)' <=> Held(r)
      BY <3>1 DEF Held
    <3> QED BY <3>2, Undisturbed
  <2>2. CASE caller[r] \notin {"waiting", "ok"}
    BY <2>2 DEF Answered
  <2> QED BY <2>1, <2>2
<1> QED BY <1>1, <1>2, <1>3, <1>4, <1>5

\* Most steps are quiet.
LEMMA QuietSteps ==
  ASSUME AnswerInv, PendingTypes, NEW c \in Conns
  PROVE  /\ \A q \in Calls : VisitPending(c, q) => AnswerInv'
         /\ WipePending(c) \/ Unlist(c) \/ Disconnected(c) => AnswerInv'
         /\ Connect(c) \/ Replace(c) \/ Announce(c) \/ Break(c) => AnswerInv'
         /\ Heartbeat(c) \/ ReadFails(c) \/ StopOne(c) => AnswerInv'
<1> USE RelayAssumption DEF AnswerInv, AnswerTypes, PendingTypes
<1>1. ASSUME NEW q \in Calls, VisitPending(c, q) PROVE AnswerInv'
  <2> USE <1>1 DEF VisitPending, connVars, readVars, callVars, chanVars, netVars
  <2>1. \A b \in Conns, r \in Calls :
          r \in pending'[b] \union visiting'[b] \/ r = loaded'[b]
            => r \in pending[b] \union visiting[b] \/ r = loaded[b]
    OBVIOUS
  <2>2. \A b \in Conns : loaded'[b] # NoCall => cleanup'[b] # "no"
    BY DEF RequestsOwned
  <2> QED BY <2>1, <2>2, QuietKeeps
<1>2. CASE WipePending(c)
  <2> USE <1>2 DEF WipePending, connVars, readVars, callVars, chanVars, netVars
  <2>1. \A b \in Conns, r \in Calls :
          r \in pending'[b] \union visiting'[b] \/ r = loaded'[b]
            => r \in pending[b] \union visiting[b] \/ r = loaded[b]
    OBVIOUS
  <2>2. \A b \in Conns : /\ loaded'[b] # NoCall => cleanup'[b] # "no"
                         /\ cleanup'[b] = "no" => cleanup[b] = "no"
    BY DEF RequestsOwned
  <2> QED BY <2>1, <2>2, QuietKeeps
<1>3. CASE Unlist(c) \/ Disconnected(c)
  <2> USE <1>3 DEF Unlist, Disconnected, connVars, readVars, callVars, chanVars, netVars
  <2>1. \A b \in Conns : /\ loaded'[b] # NoCall => cleanup'[b] # "no"
                         /\ cleanup'[b] = "no" => cleanup[b] = "no"
    BY DEF RequestsOwned
  <2> QED BY <2>1, QuietKeeps
<1>4. CASE Connect(c) \/ Announce(c) \/ Break(c)
  <2> USE <1>4 DEF Connect, Announce, Break, readVars, closeVars, callVars, chanVars, netVars,
                   connVars
  <2>1. \A b \in Conns : loaded'[b] # NoCall => cleanup'[b] # "no"
    BY DEF RequestsOwned
  <2>2. \A b \in Conns : /\ handler'[b] # "returned" => reader'[b] = "off"
                         /\ reader'[b] = "offering" <=> reader[b] = "offering"
    OBVIOUS
  <2> QED BY <2>1, <2>2, QuietKeeps, ZenonT(60)
<1>5. ASSUME UNCHANGED closeVars
      PROVE  /\ \A b \in Conns : /\ loaded'[b] # NoCall => cleanup'[b] # "no"
                                 /\ cleanup'[b] = "no" => cleanup[b] = "no"
             /\ UNCHANGED pending => \A b \in Conns, r \in Calls :
                  r \in pending'[b] \union visiting'[b] \/ r = loaded'[b]
                    => r \in pending[b] \union visiting[b] \/ r = loaded[b]
  BY <1>5 DEF closeVars, RequestsOwned
<1>6. ASSUME NEW d, NEW why, StartCleanup(d, why)
      PROVE  /\ \A b \in Conns : /\ loaded'[b] # NoCall => cleanup'[b] # "no"
                                 /\ cleanup'[b] = "no" => cleanup[b] = "no"
             /\ UNCHANGED pending => \A b \in Conns, r \in Calls :
                  r \in pending'[b] \union visiting'[b] \/ r = loaded'[b]
                    => r \in pending[b] \union visiting[b] \/ r = loaded[b]
  BY <1>6 DEF StartCleanup, RequestsOwned
<1>7. CASE Replace(c)
  <2>1. /\ UNCHANGED <<readVars, callVars, chanVars, netVars>>
        /\ handler' \in [Conns -> {"off", "replacing", "announcing", "returned"}]
        /\ \A b \in Conns : handler'[b] # "returned" => reader'[b] = "off"
    BY <1>7 DEF Replace, readVars
  <2>2. StartCleanup(replaced[c], "replaced") \/ UNCHANGED closeVars
    BY <1>7 DEF Replace
  <2> QED BY <1>5, <1>6, <2>1, <2>2, QuietKeeps DEF readVars, callVars, chanVars, netVars
<1>8. CASE Heartbeat(c) \/ ReadFails(c) \/ StopOne(c)
  <2>1. /\ UNCHANGED <<connVars, read, callVars, chanVars, netVars>>
        /\ reader' \in [Conns -> {"off", "reading", "offering", "returned"}]
        /\ \A b \in Conns : /\ handler'[b] # "returned" => reader'[b] = "off"
                            /\ reader'[b] = "offering" <=> reader[b] = "offering"
    BY <1>8, ZenonT(60) DEF Heartbeat, ReadFails, StopOne, readVars, connVars
  <2>2. (\E why \in {"error", "stopped"} : StartCleanup(c, why)) \/ UNCHANGED closeVars
    BY <1>8 DEF Heartbeat, ReadFails, StopOne
  <2> QED BY <1>5, <1>6, <2>1, <2>2, QuietKeeps DEF connVars, callVars, chanVars, netVars
<1> QED BY <1>1, <1>2, <1>3, <1>4, <1>7, <1>8

LEMMA NumbersOfAnswer ==
  ASSUME AnswerTypes, NEW r \in Calls
  PROVE  /\ sent[r] \in Nat /\ finish[r] \in Int /\ Arrived(r) \in Nat
         /\ chan[r] \in Seq(Int) /\ got[r] \in Seq(Int)
         /\ finish[r] = 0 \/ finish[r] = End \/ finish[r] = Failure
BY DEF AnswerTypes, Arrived, End, Failure

\* An answer that is closed, or told, has no use for the wire.
LEMMA SettledStays ==
  ASSUME NEW r \in Calls, Answered(r), caller[r] # "waiting" \/ chanClosed[r],
         caller'[r] = caller[r], chan'[r] = chan[r], chanClosed'[r] = chanClosed[r],
         got'[r] = got[r], sent'[r] = sent[r], finish'[r] = finish[r],
         dropped[r] => dropped'[r], cancelled[r] => cancelled'[r]
  PROVE  Answered(r)'
BY DEF Answered, ClosedWell, Told, Arrived

\* cleanup closes a channel, with a failure in it if there was room.
LEMMA FailPendingAnswers ==
  ASSUME AnswerInv, PendingTypes, NEW c \in Conns, FailPending(c)
  PROVE  AnswerInv'
<1> USE DEF AnswerInv
<1>0. PICK r \in Calls : r = loaded[c]
  BY RelayAssumption DEF PendingTypes, FailPending
<1>1. r \in Calls /\ conn[r] = c /\ caller[r] \notin {"idle", "found"} /\ cleanup[c] # "no"
  BY <1>0 DEF PendingTypes, RequestsOwned, FailPending
<1>2. /\ UNCHANGED <<caller, conn, got, sent, finish, wire, read, reader, handler, cancelled, pending,
                     visiting, cleanup>>
      /\ loaded' = [loaded EXCEPT ![c] = NoCall]
      /\ chanClosed' = [chanClosed EXCEPT ![r] = TRUE]
  BY <1>0 DEF FailPending, connVars, readVars, callVars, netVars
<1>3. /\ \A b \in Conns : loaded'[b] \in {loaded[b], NoCall}
      /\ \A s \in Calls : s # NoCall
  BY <1>2, RelayAssumption DEF PendingTypes
<1>4. \A b \in Conns, s \in Calls :
        s \in pending'[b] \union visiting'[b] \/ s = loaded'[b]
          => s \in pending[b] \union visiting[b] \/ s = loaded[b]
  BY <1>2, <1>3
<1>5. \A b \in Conns : loaded'[b] # NoCall => cleanup'[b] # "no"
  BY <1>2, <1>3 DEF RequestsOwned
<1>6. CASE chanClosed[r]
  <2>1. UNCHANGED <<chan, dropped>>
    BY <1>0, <1>6 DEF FailPending
  <2>2. UNCHANGED chanClosed
    BY <1>2, <1>6 DEF PendingTypes
  <2> QED BY <1>2, <1>4, <1>5, <2>1, <2>2, QuietKeeps DEF AnswerTypes
<1>7. CASE ~chanClosed[r]
  <2>1. \/ chan' = [chan EXCEPT ![r] = Append(@, Failure)] /\ dropped' = dropped
        \/ chan' = chan /\ dropped' = [dropped EXCEPT ![r] = TRUE]
    BY <1>0, <1>7 DEF FailPending
  <2>2. Failure \in Int
    BY DEF Failure
  <2>3. AnswerTypes'
    <3>1. chan[r] \in Seq(Int) /\ Append(chan[r], Failure) \in Seq(Int)
      BY <1>1, <2>2 DEF AnswerTypes
    <3>2. chan' \in [Calls -> Seq(Int)]
      BY <1>1, <2>1, <3>1 DEF AnswerTypes
    <3>3. dropped' \in [Calls -> BOOLEAN]
      BY <2>1 DEF AnswerTypes
    <3> QED BY <1>2, <3>2, <3>3 DEF AnswerTypes
  <2>4. MessagesOwned'
    BY <1>2 DEF MessagesOwned, Written
  <2>5. RequestsOwned'
    BY <1>2, <1>4, <1>5 DEF RequestsOwned
  <2>6. \A s \in Calls : s # r => /\ chan'[s] = chan[s] /\ dropped'[s] = dropped[s]
                                  /\ chanClosed'[s] = chanClosed[s]
    BY <1>1, <1>2, <2>1 DEF AnswerTypes, PendingTypes
  <2>7. UnwrittenIsFresh'
    BY <1>1, <1>2, <2>6 DEF UnwrittenIsFresh
  <2>8. Answered(r)'
    <3>1. CASE dropped'[r]
      BY <3>1 DEF Answered
    <3>2. CASE ~dropped'[r]
      <4>1. chan' = [chan EXCEPT ![r] = Append(@, Failure)] /\ dropped' = dropped
        BY <1>1, <2>1, <3>2 DEF AnswerTypes
      <4>2. chan'[r] = Append(chan[r], Failure) /\ chanClosed'[r] /\ chan[r] \in Seq(Int)
        BY <1>1, <1>2, <4>1 DEF AnswerTypes, PendingTypes
      <4>3. Flowing(r) => ClosedWell(r)'
        <5>1. Len(got[r]) \in Int
          BY NumbersOfAnswer
        <5> QED BY <1>2, <2>2, <4>2, <5>1, NumbersPutBehind DEF Flowing, ClosedWell
      <4>4. Told(r) => Told(r)'
        BY <1>2 DEF Told
      <4> QED BY <1>1, <1>2, <1>7, <4>1, <4>2, <4>3, <4>4 DEF Answered
    <3> QED BY <3>1, <3>2
  <2>9. ASSUME NEW s \in Calls, s # r PROVE Answered(s)'
    BY <1>2, <2>6, <2>9, Undisturbed DEF Held
  <2> QED BY <2>3, <2>4, <2>5, <2>7, <2>8, <2>9
<1> QED BY <1>6, <1>7

\* The reader takes a message from the wire.
LEMMA ReceiveAnswers ==
  ASSUME AnswerInv, PendingInv, NEW c \in Conns, Receive(c)
  PROVE  AnswerInv'
<1> DEFINE m == Head(wire[c])
<1> USE DEF AnswerInv, PendingInv
<1>1. /\ UNCHANGED <<caller, conn, got, sent, finish, handler, cancelled, pending, visiting,
                     cleanup, loaded, chan, chanClosed, dropped>>
      /\ reader[c] = "reading" /\ wire[c] # <<>>
      /\ wire' = [wire EXCEPT ![c] = Tail(@)]
      /\ cleanup[c] = "no"
  BY DEF Receive, IsClosed, connVars, closeVars, callVars, chanVars
<1>2. \/ /\ m.call \in pending[c]
         /\ read' = [read EXCEPT ![c] = m]
         /\ reader' = [reader EXCEPT ![c] = "offering"]
      \/ m.call \notin pending[c] /\ UNCHANGED <<read, reader>>
  BY DEF Receive, readVars
<1>3. /\ wire[c] \in Seq(Messages) /\ m = wire[c][1] /\ m \in Messages /\ Len(wire[c]) \in Nat \ {0}
      /\ Tail(wire[c]) \in Seq(Messages) /\ Len(Tail(wire[c])) = Len(wire[c]) - 1
      /\ \A i \in 1..Len(Tail(wire[c])) : Tail(wire[c])[i] = wire[c][i + 1]
      /\ wire'[c] = Tail(wire[c]) /\ \A b \in Conns : b # c => wire'[b] = wire[b]
  BY <1>1 DEF AnswerTypes
<1>4. m \in [call : Calls, body : Int] /\ m.call \in Calls
  BY <1>3 DEF Messages
<1>5. conn[m.call] = c /\ Written(m.call)
  BY <1>3 DEF MessagesOwned
<1> HIDE DEF m
<1>6. AnswerTypes'
  <2>1. wire' \in [Conns -> Seq(Messages)]
    BY <1>1, <1>3 DEF AnswerTypes
  <2>2. /\ reader' \in [Conns -> {"off", "reading", "offering", "returned"}]
        /\ \A b \in Conns : handler'[b] # "returned" => reader'[b] = "off"
    BY <1>1, <1>2 DEF AnswerTypes
  <2>3. read' \in [Conns -> [call : Calls \union {NoCall}, body : Int]]
    <3>1. m \in [call : Calls \union {NoCall}, body : Int]
      BY <1>4
    <3> QED BY <1>2, <3>1 DEF AnswerTypes
  <2>4. \A b \in Conns : reader'[b] = "offering" => read'[b].call \in Calls
    BY <1>1, <1>2, <1>4 DEF AnswerTypes
  <2> QED BY <1>1, <2>1, <2>2, <2>3, <2>4 DEF AnswerTypes
<1>7. MessagesOwned'
  <2>1. ASSUME NEW b \in Conns, NEW i \in 1..Len(wire'[b])
        PROVE  conn[wire'[b][i].call] = b /\ Written(wire'[b][i].call)
    <3>1. CASE b = c
      <4>0. wire'[b] = Tail(wire[c]) /\ Len(wire'[b]) = Len(wire[c]) - 1
        BY <1>3, <3>1
      <4>1. i \in 1..Len(Tail(wire[c])) /\ i + 1 \in 1..Len(wire[c])
        BY <1>3, <4>0
      <4>2. wire'[b][i] = wire[c][i + 1]
        BY <1>3, <3>1, <4>1
      <4> QED BY <3>1, <4>1, <4>2 DEF MessagesOwned
    <3>2. CASE b # c
      BY <1>3, <3>2 DEF MessagesOwned
    <3> QED BY <3>1, <3>2
  <2>2. ASSUME NEW b \in Conns, reader'[b] = "offering"
        PROVE  conn[read'[b].call] = b /\ Written(read'[b].call)
    BY <1>1, <1>2, <1>5, <2>2 DEF MessagesOwned, AnswerTypes
  <2> QED BY <1>1, <2>1, <2>2 DEF MessagesOwned, Written
<1>8. RequestsOwned' /\ UnwrittenIsFresh'
  BY <1>1 DEF RequestsOwned, UnwrittenIsFresh
<1>9. ASSUME NEW s \in Calls PROVE Answered(s)'
  <2>1. CASE caller[s] # "waiting" \/ chanClosed[s]
    BY <1>1, <2>1, SettledStays
  <2>2. CASE caller[s] = "waiting" /\ ~chanClosed[s]
    <3>1. conn[s] \in Conns /\ s \in pending[conn[s]]
      BY <2>2 DEF PendingTypes, WrittenIsFound, Written
    <3>2. CASE conn[s] # c
      <4>1. wire'[conn[s]] = wire[conn[s]] /\ reader'[conn[s]] = reader[conn[s]]
            /\ read'[conn[s]] = read[conn[s]]
        BY <1>2, <1>3, <3>1, <3>2 DEF AnswerTypes
      <4> QED BY <1>1, <4>1, Undisturbed DEF Held
    <3>3. CASE conn[s] = c /\ m.call # s
      <4>1. ~Held(s) /\ ~Held(s)'
        BY <1>1, <1>2, <3>3 DEF Held, AnswerTypes
      <4>2. sent[s] \in Nat /\ finish[s] \in Int
        BY NumbersOfAnswer
      <4>3. \A k \in Nat : RestOnWire(wire[conn[s]], s, k, sent[s], finish[s])
                             => RestOnWire(wire'[conn[s]], s, k, sent[s], finish[s])
        BY <1>1, <1>3, <3>3, <4>2, OthersPass DEF m
      <4> QED BY <1>1, <4>1, <4>3, Undisturbed
    <3>4. CASE conn[s] = c /\ m.call = s
      <4>1. /\ read'[c] = m /\ reader'[c] = "offering"
        BY <1>2, <3>1, <3>4 DEF AnswerTypes
      <4>2. Held(s)' /\ ~Held(s)
        BY <1>1, <3>4, <4>1 DEF Held
      <4>3. sent[s] \in Nat /\ finish[s] \in Int /\ Arrived(s) \in Nat /\ Arrived(s)' = Arrived(s)
        BY <1>1, NumbersOfAnswer DEF Arrived
      <4>4. SUFFICES ASSUME ~dropped[s], ~cancelled[s] PROVE Flowing(s)'
        BY <1>1, <2>2 DEF Answered
      <4>5. Flowing(s)
        BY <2>2, <4>4 DEF Answered
      <4>6. RestOnWire(wire[c], s, Arrived(s), sent[s], finish[s])
        BY <3>4, <4>2, <4>5 DEF Flowing
      <4>7. /\ BodyOf(m.body, finish[s]) /\ Place(m.body, sent[s]) = Arrived(s) + 1
            /\ RestOnWire(wire'[c], s, Arrived(s) + 1, sent[s], finish[s])
        BY <1>1, <1>3, <3>4, <4>3, <4>6, NextIsTaken DEF m
      <4> QED BY <1>1, <3>4, <4>1, <4>2, <4>3, <4>5, <4>7 DEF Flowing
    <3> QED BY <3>2, <3>3, <3>4
  <2> QED BY <2>1, <2>2
<1> QED BY <1>6, <1>7, <1>8, <1>9

\* The reader puts the message it holds into the channel; the last one closes it.
LEMMA OfferAnswers ==
  ASSUME AnswerInv, PendingInv, NEW c \in Conns, Offer(c)
  PROVE  AnswerInv'
<1> USE DEF AnswerInv, PendingInv
<1>0. PICK r \in Calls : r = read[c].call
  BY DEF AnswerTypes, Offer
<1>1. PICK m \in Int : m = read[c].body
  BY DEF AnswerTypes
<1>2. /\ UNCHANGED <<caller, conn, got, sent, finish, handler, cancelled, visiting, cleanup,
                     loaded, wire>>
      /\ reader[c] = "offering" /\ reader' = [reader EXCEPT ![c] = "reading"]
      /\ read' = [read EXCEPT ![c] = NoMessage]
  BY DEF Offer, connVars, closeVars, callVars, netVars
<1>3. conn[r] = c /\ Written(r)
  BY <1>0, <1>2 DEF MessagesOwned
<1>4. ASSUME NEW s \in Calls, s # r, conn[s] \in Conns
      PROVE  (Held(s)' <=> Held(s)) /\ (Held(s) => read'[conn[s]] = read[conn[s]])
  BY <1>0, <1>2, <1>4 DEF Held, AnswerTypes
<1>5. \/ chanClosed[r] /\ UNCHANGED <<pending, chan, chanClosed, dropped>>
      \/ /\ ~chanClosed[r]
         /\ \/ chan' = [chan EXCEPT ![r] = Append(@, m)] /\ dropped' = dropped
            \/ chan' = chan /\ dropped' = [dropped EXCEPT ![r] = TRUE]
         /\ IF m < 0 /\ r \in pending[c]
            THEN /\ pending' = [pending EXCEPT ![c] = @ \ {r}]
                 /\ chanClosed' = [chanClosed EXCEPT ![r] = TRUE]
            ELSE UNCHANGED <<pending, chanClosed>>
  BY <1>0, <1>1 DEF Offer, chanVars
<1>6. /\ \A s \in Calls : s # r => /\ chan'[s] = chan[s] /\ dropped'[s] = dropped[s]
                                   /\ chanClosed'[s] = chanClosed[s]
      /\ dropped[r] => dropped'[r]
      /\ chanClosed[r] => chan'[r] = chan[r] /\ chanClosed'[r]
  BY <1>5 DEF AnswerTypes, PendingTypes
<1>7. AnswerTypes'
  <2>1. chan[r] \in Seq(Int) /\ Append(chan[r], m) \in Seq(Int)
    BY NumbersOfAnswer
  <2>2. chan' \in [Calls -> Seq(Int)]
    BY <1>5, <2>1 DEF AnswerTypes
  <2>3. dropped' \in [Calls -> BOOLEAN]
    BY <1>5 DEF AnswerTypes
  <2>4. NoMessage \in [call : Calls \union {NoCall}, body : Int]
    BY DEF NoMessage
  <2>5. /\ read' \in [Conns -> [call : Calls \union {NoCall}, body : Int]]
        /\ reader' \in [Conns -> {"off", "reading", "offering", "returned"}]
    BY <1>2, <2>4 DEF AnswerTypes
  <2>6. \A b \in Conns : /\ handler[b] # "returned" => reader'[b] = "off"
                         /\ reader'[b] = "offering" => read'[b].call \in Calls
    BY <1>2 DEF AnswerTypes
  <2> QED BY <1>2, <2>2, <2>3, <2>5, <2>6 DEF AnswerTypes
<1>8. MessagesOwned'
  BY <1>2 DEF MessagesOwned, Written, AnswerTypes
<1>9. RequestsOwned'
  <2>1. \A b \in Conns : pending'[b] \subseteq pending[b]
    BY <1>5 DEF PendingTypes
  <2> QED BY <1>2, <2>1 DEF RequestsOwned
<1>10. UnwrittenIsFresh'
  BY <1>2, <1>3, <1>6 DEF UnwrittenIsFresh, Written
<1>11. ASSUME NEW s \in Calls, s # r PROVE Answered(s)'
  <2>1. CASE caller[s] # "waiting"
    BY <1>2, <1>6, <1>11, <2>1, SettledStays
  <2>2. CASE caller[s] = "waiting"
    <3>1. conn[s] \in Conns
      BY <2>2 DEF PendingTypes
    <3> QED BY <1>2, <1>4, <1>6, <1>11, <3>1, Undisturbed
  <2> QED BY <2>1, <2>2
<1>12. Answered(r)'
  <2>1. CASE chanClosed[r]
    BY <1>2, <1>6, <2>1, SettledStays DEF PendingTypes
  <2>2. CASE dropped'[r]
    BY <2>2 DEF Answered
  <2>3. CASE ~chanClosed[r] /\ ~dropped'[r] /\ ~cancelled[r]
    <3>1. r \in pending[c]
      BY <1>3, <2>3 DEF WrittenIsFound
    <3>2. ~dropped[r]
      BY <1>6, <2>3
    <3>3. CASE caller[r] # "waiting"
      BY <1>2, <3>2, <2>3, <3>3 DEF Answered, Told
    <3>4. CASE caller[r] = "waiting"
      <4>1. Flowing(r) /\ Held(r)
        BY <1>0, <1>2, <1>3, <2>3, <3>2, <3>4 DEF Answered, Held
      <4>2. BodyOf(m, finish[r]) /\ Place(m, sent[r]) = Arrived(r) + 1
            /\ RestOnWire(wire[c], r, Arrived(r) + 1, sent[r], finish[r])
            /\ Following(got[r], 0) /\ Following(chan[r], Len(got[r]))
        BY <1>1, <1>3, <4>1 DEF Flowing
      <4> HIDE DEF AnswerInv, PendingInv
      <4>3. /\ sent[r] \in Nat /\ finish[r] \in Int /\ Arrived(r) \in Nat
            /\ chan[r] \in Seq(Int) /\ got[r] \in Seq(Int)
            /\ finish[r] = 0 \/ finish[r] = End \/ finish[r] = Failure
        BY NumbersOfAnswer DEF AnswerInv
      <4>5. CASE chan' = [chan EXCEPT ![r] = Append(@, m)]
        <5>1. chan'[r] = Append(chan[r], m)
          BY <4>5 DEF AnswerInv, AnswerTypes
        <5>2. /\ FollowingUntil(chan'[r], Len(got[r]), m)
              /\ m = Len(got[r]) + Len(chan[r]) + 1 => Following(chan'[r], Len(got[r]))
              /\ Len(chan'[r]) = Len(chan[r]) + 1
          <6>1. Len(got[r]) \in Int /\ chan[r] \in Seq(Int)
            BY <4>3
          <6>2. Following(chan[r], Len(got[r]))
            BY <4>2
          <6> QED BY <5>1, <6>1, <6>2, NumbersPutBehind
        <5>3. Arrived(r)' = Arrived(r) + 1
          <6>1. Len(got[r]) \in Nat /\ Len(chan[r]) \in Nat
            BY <4>3
          <6>2. chan' \in [Calls -> Seq(Int)] /\ got' \in [Calls -> Seq(Int)]
            BY <1>7 DEF AnswerTypes
          <6> QED BY <1>2, <4>3, <5>2, <6>1, <6>2 DEF Arrived
        <5>4. CASE m < 0
          <6>1. m = finish[r] /\ Arrived(r) = sent[r] /\ m \in {End, Failure}
            BY <4>2, <4>3, <5>4 DEF BodyOf, Place
          <6>2. chanClosed'[r]
            BY <1>5, <3>1, <5>4, <2>3 DEF AnswerInv, PendingInv, PendingTypes
          <6>3. ClosedWell(r)'
            BY <1>2, <4>2, <5>2, <5>3, <6>1 DEF ClosedWell
          <6> QED BY <1>2, <3>4, <6>2, <6>3 DEF Answered
        <5>5. CASE ~(m < 0)
          <6>1. m = Arrived(r) + 1
            BY <4>2, <5>5 DEF Place
          <6>2. ~chanClosed'[r]
            BY <1>5, <2>3, <5>5
          <6>3. Following(chan'[r], Len(got[r]))
            BY <5>2, <6>1 DEF Arrived
          <6>4. ~Held(r)'
            BY <1>2, <1>3 DEF Held, AnswerInv, AnswerTypes
          <6>5. Flowing(r)'
            BY <1>2, <1>3, <4>2, <5>3, <6>3, <6>4 DEF Flowing
          <6> QED BY <1>2, <3>4, <6>2, <6>5 DEF Answered
        <5> QED BY <5>4, <5>5
      <4>6. ~(dropped' = [dropped EXCEPT ![r] = TRUE])
        BY <2>3 DEF AnswerInv, AnswerTypes
      <4> QED BY <1>5, <4>5, <4>6, <2>3
    <3> QED BY <3>3, <3>4
  <2>4. CASE cancelled[r]
    BY <1>2, <2>4 DEF Answered
  <2> QED BY <2>1, <2>2, <2>3, <2>4
<1> QED BY <1>7, <1>8, <1>9, <1>10, <1>11, <1>12

\* The caller takes its turn.
LEMMA TakeAnswers ==
  ASSUME AnswerInv, PendingInv, NEW q \in Calls, Take(q)
  PROVE  AnswerInv'
<1> USE DEF AnswerInv, PendingInv
<1>1. /\ UNCHANGED <<conn, sent, finish, handler, cancelled, visiting, cleanup, loaded, wire,
                     read, reader, pending, chanClosed, dropped>>
      /\ caller[q] = "waiting"
  BY DEF Take, connVars, readVars, closeVars, netVars
<1>2. chan[q] \in Seq(Int) /\ got[q] \in Seq(Int)
  BY NumbersOfAnswer
<1>3. \/ /\ chan[q] # <<>> /\ Head(chan[q]) > 0
         /\ chan' = [chan EXCEPT ![q] = Tail(@)]
         /\ got' = [got EXCEPT ![q] = Append(@, Head(chan[q]))]
         /\ UNCHANGED caller
      \/ /\ chan[q] # <<>> /\ ~(Head(chan[q]) > 0)
         /\ chan' = [chan EXCEPT ![q] = Tail(@)]
         /\ caller' = [caller EXCEPT ![q] = IF Head(chan[q]) = End THEN "ok" ELSE "failed"]
         /\ UNCHANGED got
      \/ /\ chan[q] = <<>> /\ chanClosed[q]
         /\ caller' = [caller EXCEPT ![q] =
                        IF kind[q] = "unary" /\ got[q] # <<>> THEN "ok" ELSE "failed"]
         /\ UNCHANGED <<chan, got>>
      \/ /\ cancelled[q]
         /\ caller' = [caller EXCEPT ![q] = "left"]
         /\ UNCHANGED <<chan, got>>
  BY DEF Take
<1>4. \A r \in Calls : r # q => /\ chan'[r] = chan[r] /\ got'[r] = got[r]
                                /\ caller'[r] = caller[r]
  BY <1>3 DEF AnswerTypes, PendingTypes
<1>5. caller'[q] \in {"waiting", "ok", "failed", "left"}
  BY <1>1, <1>3 DEF PendingTypes
<1>6. AnswerTypes'
  <2>1. chan[q] # <<>> => /\ Tail(chan[q]) \in Seq(Int)
                          /\ Append(got[q], Head(chan[q])) \in Seq(Int)
    BY <1>2
  <2>2. chan' \in [Calls -> Seq(Int)]
    BY <1>3, <2>1 DEF AnswerTypes
  <2>3. got' \in [Calls -> Seq(Int)]
    BY <1>3, <2>1 DEF AnswerTypes
  <2> QED BY <1>1, <2>2, <2>3 DEF AnswerTypes
<1>7. MessagesOwned'
  <2>1. ASSUME NEW r \in Calls PROVE Written(r) => Written(r)'
    <3>1. CASE r = q
      BY <1>5, <3>1 DEF Written
    <3>2. CASE r # q
      BY <1>4, <3>2 DEF Written
    <3> QED BY <3>1, <3>2
  <2>2. \A c \in Conns : \A i \in 1..Len(wire[c]) : wire[c][i].call \in Calls
    <3> SUFFICES ASSUME NEW c \in Conns, NEW i \in 1..Len(wire[c])
                 PROVE  wire[c][i].call \in Calls
      OBVIOUS
    <3>1. wire[c] \in Seq(Messages)
      BY DEF AnswerTypes
    <3>2. wire[c][i] \in Messages
      BY <3>1
    <3> QED BY <3>2 DEF Messages
  <2> QED BY <1>1, <2>1, <2>2 DEF MessagesOwned, AnswerTypes
<1>8. RequestsOwned'
  BY <1>1, <1>4, <1>5 DEF RequestsOwned
<1>9. UnwrittenIsFresh'
  BY <1>1, <1>4, <1>5 DEF UnwrittenIsFresh
<1>10. ASSUME NEW r \in Calls, r # q PROVE Answered(r)'
  BY <1>1, <1>4, <1>10, Undisturbed DEF Held
<1>11. Answered(q)'
  <2>1. CASE dropped[q] \/ cancelled[q]
    BY <1>1, <2>1 DEF Answered
  <2>2. CASE ~dropped[q] /\ ~cancelled[q] /\ ~chanClosed[q]
    <3>1. Flowing(q)
      BY <1>1, <2>2 DEF Answered
    <3>2. chan[q] # <<>> => Head(chan[q]) = Len(got[q]) + 1 /\ Len(got[q]) \in Nat
      BY <1>2, <3>1, NumbersTaken DEF Flowing
    <3>3. /\ chan[q] # <<>>
          /\ chan'[q] = Tail(chan[q]) /\ got'[q] = Append(got[q], Len(got[q]) + 1)
          /\ UNCHANGED caller
      BY <1>3, <2>2, <3>2 DEF AnswerTypes, End
    <3>4. /\ Len(chan'[q]) = Len(chan[q]) - 1 /\ Len(got'[q]) = Len(got[q]) + 1
          /\ Following(got'[q], 0) /\ Following(chan'[q], Len(got'[q]))
      BY <1>2, <3>1, <3>2, <3>3, NumbersTaken, NumbersPutBehind DEF Flowing
    <3>5. Len(chan[q]) \in Nat /\ Len(got[q]) \in Nat
      BY <1>2
    <3>6. Arrived(q)' = Arrived(q)
      BY <1>2, <1>6, <3>4, <3>5 DEF Arrived, AnswerTypes
    <3>7. Flowing(q)'
      BY <1>1, <3>1, <3>4, <3>6 DEF Flowing, Held
    <3> QED BY <1>1, <2>2, <3>3, <3>7 DEF Answered
  <2>3. CASE ~dropped[q] /\ ~cancelled[q] /\ chanClosed[q]
    <3>1. ClosedWell(q)
      BY <1>1, <2>3 DEF Answered
    <3>2. PICK e \in {End, Failure} :
            /\ FollowingUntil(chan[q], Len(got[q]), e) /\ Following(got[q], 0)
            /\ e = End => finish[q] = End /\ Arrived(q) = sent[q] + 1
      BY <3>1 DEF ClosedWell, End, Failure
    <3>3. chan[q] # <<>> /\ e \in Int /\ ~(e > 0)
      BY <3>2 DEF FollowingUntil, End, Failure
    <3>4. Len(chan[q]) \in Nat /\ Len(got[q]) \in Nat
      BY <1>2
    <3>5. CASE Len(chan[q]) > 1
      <4>1. Head(chan[q]) = Len(got[q]) + 1 /\ FollowingUntil(Tail(chan[q]), Len(got[q]) + 1, e)
            /\ Len(Tail(chan[q])) = Len(chan[q]) - 1
        BY <1>2, <3>2, <3>3, <3>4, <3>5, LastButOneTaken
      <4>2. /\ chan'[q] = Tail(chan[q]) /\ got'[q] = Append(got[q], Len(got[q]) + 1)
            /\ UNCHANGED caller
        BY <1>3, <2>3, <3>3, <3>4, <4>1 DEF AnswerTypes, End
      <4>3. Following(got'[q], 0) /\ Len(got'[q]) = Len(got[q]) + 1
        BY <1>2, <3>2, <3>4, <4>2, NumbersPutBehind
      <4>4. Arrived(q)' = Arrived(q)
        <5>1. Len(chan'[q]) = Len(chan[q]) - 1
          BY <4>1, <4>2
        <5> QED BY <1>2, <1>6, <3>4, <4>3, <5>1 DEF Arrived, AnswerTypes
      <4>5. ClosedWell(q)'
        BY <1>1, <3>2, <4>1, <4>2, <4>3, <4>4 DEF ClosedWell
      <4> QED BY <1>1, <2>3, <4>2, <4>5 DEF Answered
    <3>6. CASE Len(chan[q]) = 1
      <4>1. Head(chan[q]) = e
        BY <1>2, <3>2, <3>3, <3>4, <3>6 DEF FollowingUntil
      <4>2. got' = got /\ caller'[q] = IF e = End THEN "ok" ELSE "failed"
        BY <1>3, <2>3, <3>3, <4>1 DEF PendingTypes
      <4>3. e = End => Told(q)
        <5>1. sent[q] \in Nat
          BY NumbersOfAnswer
        <5>2. e = End => Len(got[q]) = sent[q]
          BY <1>2, <3>2, <3>4, <3>6, <5>1 DEF Arrived
        <5> QED BY <3>2, <5>2 DEF Told
      <4>4. Told(q) => Told(q)'
        BY <1>1, <4>2 DEF Told
      <4> QED BY <4>2, <4>3, <4>4 DEF Answered
    <3>7. PICK n \in Nat \ {0} : n = Len(chan[q])
      BY <1>2, <3>3
    <3>8. n = 1 \/ n > 1
      OBVIOUS
    <3> QED BY <3>5, <3>6, <3>7, <3>8
  <2> QED BY <2>1, <2>2, <2>3
<1> QED BY <1>6, <1>7, <1>8, <1>9, <1>10, <1>11

\* The provider sends a chunk, or the end.
LEMMA AnswerAnswers ==
  ASSUME AnswerInv, PendingTypes, NEW q \in Calls, Answer(q)
  PROVE  AnswerInv'
<1> USE DEF AnswerInv
<1>1. PICK c \in Conns : c = conn[q]
  BY DEF Answer, PendingTypes
<1>2. /\ UNCHANGED <<handler, reader, read, cleanup, visiting, loaded, caller, conn, got, cancelled,
                     pending, chan, chanClosed, dropped>>
      /\ Written(q) /\ finish[q] = 0
  BY DEF Answer, Written, connVars, readVars, closeVars, callVars, chanVars
<1>3. PICK b \in Int :
        /\ wire' = [wire EXCEPT ![c] = Append(@, [call |-> q, body |-> b])]
        /\ \/ b = sent[q] + 1 /\ sent' = [sent EXCEPT ![q] = @ + 1] /\ finish' = finish
           \/ b \in {End, Failure} /\ finish' = [finish EXCEPT ![q] = b] /\ sent' = sent
  <2>1. CASE /\ sent' = [sent EXCEPT ![q] = @ + 1]
             /\ wire' = [wire EXCEPT ![c] = Append(@, [call |-> q, body |-> sent[q] + 1])]
             /\ UNCHANGED finish
    <3>1. sent[q] + 1 \in Int
      BY NumbersOfAnswer
    <3> QED BY <2>1, <3>1
  <2>2. ASSUME NEW last \in {End, Failure},
               finish' = [finish EXCEPT ![q] = last],
               wire' = [wire EXCEPT ![c] = Append(@, [call |-> q, body |-> last])],
               UNCHANGED sent
        PROVE  \E b \in Int :
                 /\ wire' = [wire EXCEPT ![c] = Append(@, [call |-> q, body |-> b])]
                 /\ b \in {End, Failure} /\ finish' = [finish EXCEPT ![q] = b] /\ sent' = sent
    <3>1. last \in Int
      BY DEF End, Failure
    <3> QED BY <2>2, <3>1
  <2> QED BY <1>1, <2>1, <2>2 DEF Answer
<1> DEFINE m == [call |-> q, body |-> b]
<1>4. m \in Messages /\ m.call = q /\ wire[c] \in Seq(Messages)
  BY DEF Messages, AnswerTypes
<1>5. /\ wire'[c] = Append(wire[c], m) /\ \A d \in Conns : d # c => wire'[d] = wire[d]
      /\ wire' \in [Conns -> Seq(Messages)]
  BY <1>3, <1>4 DEF AnswerTypes
<1>6. AnswerTypes'
  <2>1. sent' \in [Calls -> Nat]
    <3>1. sent' = sent \/ sent' = [sent EXCEPT ![q] = sent[q] + 1]
      BY <1>3
    <3>2. sent[q] + 1 \in Nat
      BY NumbersOfAnswer
    <3> QED BY <3>1, <3>2 DEF AnswerTypes
  <2>2. finish' \in [Calls -> {0, End, Failure}]
    BY <1>3 DEF AnswerTypes
  <2> QED BY <1>2, <1>5, <2>1, <2>2 DEF AnswerTypes
<1>7. MessagesOwned'
  <2>1. ASSUME NEW d \in Conns, NEW i \in 1..Len(wire'[d])
        PROVE  conn[wire'[d][i].call] = d /\ Written(wire'[d][i].call)
    <3>1. CASE d = c
      <4>1. /\ Len(wire'[d]) = Len(wire[c]) + 1 /\ Len(wire[c]) \in Nat
            /\ wire'[d][Len(wire[c]) + 1] = m /\ \A j \in 1..Len(wire[c]) : wire'[d][j] = wire[c][j]
        BY <1>4, <1>5, <3>1
      <4>2. i \in 1..Len(wire[c]) \/ i = Len(wire[c]) + 1
        BY <4>1
      <4>3. CASE i \in 1..Len(wire[c])
        BY <3>1, <4>1, <4>3 DEF MessagesOwned
      <4>4. CASE i = Len(wire[c]) + 1
        BY <1>1, <1>2, <1>4, <3>1, <4>1, <4>4
      <4> QED BY <4>2, <4>3, <4>4
    <3>2. CASE d # c
      BY <1>5, <3>2 DEF MessagesOwned
    <3> QED BY <3>1, <3>2
  <2> QED BY <1>2, <2>1 DEF MessagesOwned, Written
<1>8. RequestsOwned'
  BY <1>2 DEF RequestsOwned
<1>9. \A r \in Calls : r # q => sent'[r] = sent[r] /\ finish'[r] = finish[r]
  BY <1>3 DEF AnswerTypes
<1>10. UnwrittenIsFresh'
  BY <1>2, <1>9 DEF UnwrittenIsFresh, Written
<1>11. ASSUME NEW r \in Calls, r # q PROVE Answered(r)'
  <2>1. CASE caller[r] # "waiting"
    BY <1>2, <1>9, <1>11, <2>1, SettledStays
  <2>2. CASE caller[r] = "waiting"
    <3>1. conn[r] \in Conns /\ sent[r] \in Nat /\ finish[r] \in Int
      BY <2>2, NumbersOfAnswer DEF PendingTypes
    <3>2. \A k \in Nat : RestOnWire(wire[conn[r]], r, k, sent[r], finish[r])
                           => RestOnWire(wire'[conn[r]], r, k, sent[r], finish[r])
      BY <1>4, <1>5, <1>11, <3>1, OthersPass
    <3> QED BY <1>2, <1>9, <1>11, <3>2, Undisturbed DEF Held
  <2> QED BY <2>1, <2>2
<1>12. Answered(q)'
  <2>1. CASE dropped[q] \/ cancelled[q]
    BY <1>2, <2>1 DEF Answered
  <2>2. CASE ~dropped[q] /\ ~cancelled[q] /\ caller[q] = "ok"
    BY <1>2, <2>2 DEF Answered, Told, End
  <2>3. CASE ~dropped[q] /\ ~cancelled[q] /\ caller[q] = "waiting" /\ chanClosed[q]
    <3>1. /\ Following(got[q], 0) /\ FollowingUntil(chan[q], Len(got[q]), Failure)
      BY <1>2, <2>3 DEF Answered, ClosedWell, End
    <3> QED BY <1>2, <2>3, <3>1 DEF Answered, ClosedWell
  <2>4. CASE ~dropped[q] /\ ~cancelled[q] /\ caller[q] = "waiting" /\ ~chanClosed[q]
    <3>1. Flowing(q)
      BY <2>4 DEF Answered
    <3>2. Arrived(q) \in Nat /\ Arrived(q)' = Arrived(q) /\ sent[q] \in Nat
      BY <1>2, NumbersOfAnswer DEF Arrived
    <3>3. ASSUME NEW k \in Nat, RestOnWire(wire[conn[q]], q, k, sent[q], finish[q])
          PROVE  RestOnWire(wire'[conn[q]], q, k, sent'[q], finish'[q])
      <4>1. RestOnWire(wire[c], q, k, sent[q], 0) /\ wire[c] \in Seq(Messages)
        BY <1>1, <1>2, <1>4, <3>3
      <4>2. CASE b = sent[q] + 1 /\ sent' = [sent EXCEPT ![q] = @ + 1] /\ finish' = finish
        <5>1. sent'[q] = sent[q] + 1 /\ finish'[q] = 0 /\ End \in {End, Failure}
          BY <1>2, <4>2 DEF AnswerTypes
        <5>2. RestOnWire(Append(wire[c], [call |-> q, body |-> sent[q] + 1]), q, k, sent[q] + 1, 0)
          BY <3>2, <4>1, <5>1, NextIsSent
        <5> QED BY <1>1, <1>5, <4>2, <5>1, <5>2
      <4>3. CASE b \in {End, Failure} /\ finish' = [finish EXCEPT ![q] = b] /\ sent' = sent
        <5>1. sent'[q] = sent[q] /\ finish'[q] = b
          BY <4>3 DEF AnswerTypes
        <5>2. RestOnWire(Append(wire[c], [call |-> q, body |-> b]), q, k, sent[q], b)
          BY <3>2, <4>1, <4>3, NextIsSent
        <5> QED BY <1>1, <1>5, <5>1, <5>2
      <4> QED BY <1>3, <4>2, <4>3
    <3>4. ASSUME Held(q)
          PROVE  /\ BodyOf(read[conn[q]].body, finish'[q])
                 /\ Place(read[conn[q]].body, sent'[q]) = Place(read[conn[q]].body, sent[q])
      <4>1. PICK x \in Int : x = read[conn[q]].body
        BY <1>1 DEF AnswerTypes
      <4>2. x > 0
        BY <1>2, <3>1, <3>4, <4>1 DEF Flowing, BodyOf
      <4> QED BY <4>1, <4>2 DEF BodyOf, Place
    <3>5. Held(q)' <=> Held(q)
      BY <1>2 DEF Held
    <3>6. CASE Held(q)
      <4>1. Arrived(q) + 1 \in Nat
        BY <3>2
      <4>2. RestOnWire(wire'[conn[q]], q, Arrived(q) + 1, sent'[q], finish'[q])
        BY <3>1, <3>3, <3>6, <4>1 DEF Flowing
      <4> QED BY <1>2, <2>4, <3>1, <3>2, <3>4, <3>5, <3>6, <4>2 DEF Answered, Flowing
    <3>7. CASE ~Held(q)
      <4>1. RestOnWire(wire'[conn[q]], q, Arrived(q), sent'[q], finish'[q])
        BY <3>1, <3>2, <3>3, <3>7 DEF Flowing
      <4> QED BY <1>2, <2>4, <3>1, <3>2, <3>5, <3>7, <4>1 DEF Answered, Flowing
    <3> QED BY <3>6, <3>7
  <2>5. CASE caller[q] \notin {"waiting", "ok"}
    BY <1>2, <2>5 DEF Answered
  <2> QED BY <2>1, <2>2, <2>3, <2>4, <2>5
<1> QED BY <1>6, <1>7, <1>8, <1>10, <1>11, <1>12

\* A caller on its way to its request.
LEMMA CallerAnswers ==
  ASSUME AnswerInv, PendingInv, NEW q \in Calls,
         Find(q) \/ Store(q) \/ Load(q) \/ Write(q) \/ Forget(q)
  PROVE  AnswerInv'
<1> USE DEF AnswerInv, PendingInv
<1>1. /\ UNCHANGED <<handler, reader, read, wire, sent, finish, cleanup, visiting, loaded, got,
                     chan, dropped, cancelled>>
      /\ \A r \in Calls : r # q => /\ caller'[r] = caller[r] /\ conn'[r] = conn[r]
                                   /\ chanClosed'[r] = chanClosed[r]
  <2>1. UNCHANGED <<handler, reader, read, wire, sent, finish, cleanup, visiting, loaded, got,
                    chan, dropped, cancelled>>
    BY DEF Find, Store, Load, Write, Forget, connVars, readVars, closeVars, callVars, chanVars,
           netVars
  <2>2. CASE Find(q)
    BY <2>1, <2>2 DEF Find, chanVars, PendingTypes
  <2>3. CASE Store(q) \/ Load(q)
    BY <2>1, <2>3 DEF Store, Load, chanVars, PendingTypes
  <2>4. CASE Write(q)
    BY <2>1, <2>4 DEF Write, PendingTypes
  <2>5. CASE Forget(q)
    BY <2>1, <2>5 DEF Forget, callVars, PendingTypes
  <2> QED BY <2>2, <2>3, <2>4, <2>5
<1>2. \/ caller[q] = "idle" /\ caller'[q] \in {"found", "refused"} /\ UNCHANGED <<pending, chanClosed>>
      \/ /\ caller[q] = "found" /\ caller'[q] = "stored" /\ UNCHANGED <<conn, chanClosed>>
         /\ pending' = [pending EXCEPT ![conn[q]] = @ \union {q}]
      \/ /\ caller[q] = "stored" /\ caller'[q] \in {"loaded", "panicked"}
         /\ UNCHANGED <<conn, pending, chanClosed>>
      \/ /\ caller[q] = "loaded" /\ caller'[q] = "waiting" /\ cleanup[conn[q]] = "no"
         /\ UNCHANGED <<conn, pending, chanClosed>>
      \/ /\ caller[q] = "loaded" /\ caller'[q] = "refused" /\ UNCHANGED conn
         /\ pending' = [pending EXCEPT ![conn[q]] = @ \ {q}]
      \/ /\ Written(q) /\ cancelled[q] /\ UNCHANGED <<caller, conn>>
         /\ pending' = [pending EXCEPT ![conn[q]] = @ \ {q}]
  <2>1. CASE Find(q)
    BY <2>1 DEF Find, chanVars, PendingTypes
  <2>2. CASE Store(q) \/ Load(q)
    BY <2>2 DEF Store, Load, chanVars, PendingTypes
  <2>3. CASE Write(q)
    BY <2>3 DEF Write, IsClosed, PendingTypes
  <2>4. CASE Forget(q)
    BY <2>4 DEF Forget, callVars, Written, PendingTypes
  <2> QED BY <2>1, <2>2, <2>3, <2>4
<1>3. AnswerTypes'
  BY <1>1 DEF AnswerTypes
<1>4. \A r \in Calls : Written(r) => Written(r)' /\ conn'[r] = conn[r]
  <2> SUFFICES ASSUME NEW r \in Calls, Written(r) PROVE Written(r)' /\ conn'[r] = conn[r]
    OBVIOUS
  <2>1. CASE r = q
    BY <1>2, <2>1 DEF Written
  <2>2. CASE r # q
    BY <1>1, <2>2 DEF Written
  <2> QED BY <2>1, <2>2
<1>5. MessagesOwned'
  <2>1. \A c \in Conns : \A i \in 1..Len(wire[c]) : wire[c][i].call \in Calls
    <3> SUFFICES ASSUME NEW c \in Conns, NEW i \in 1..Len(wire[c])
                 PROVE  wire[c][i].call \in Calls
      OBVIOUS
    <3>1. wire[c] \in Seq(Messages)
      BY DEF AnswerTypes
    <3>2. wire[c][i] \in Messages
      BY <3>1
    <3> QED BY <3>2 DEF Messages
  <2> QED BY <1>1, <1>4, <2>1 DEF MessagesOwned, AnswerTypes
<1>6. RequestsOwned'
  <2> SUFFICES ASSUME NEW c \in Conns, NEW r \in Calls,
                      r \in pending'[c] \union visiting[c] \/ r = loaded[c]
               PROVE  conn'[r] = c /\ caller'[r] \notin {"idle", "found"}
    BY <1>1 DEF RequestsOwned
  <2>1. CASE r \in pending[c] \union visiting[c] \/ r = loaded[c]
    <3>1. conn[r] = c /\ caller[r] \notin {"idle", "found"}
      BY <2>1 DEF RequestsOwned
    <3>2. CASE r = q
      BY <1>2, <3>1, <3>2 DEF Written
    <3>3. CASE r # q
      BY <1>1, <3>1, <3>3
    <3> QED BY <3>2, <3>3
  <2>2. CASE r \notin pending[c]
    <3>1. CASE r \in pending'[c]
      BY <1>2, <2>2, <3>1 DEF PendingTypes
    <3> QED BY <2>1, <3>1
  <2> QED BY <2>1, <2>2
<1>7. UnwrittenIsFresh'
  <2> SUFFICES ASSUME NEW r \in Calls, caller'[r] \in {"idle", "found", "stored", "loaded"}
               PROVE  /\ got[r] = <<>> /\ sent[r] = 0 /\ finish[r] = 0
                      /\ caller'[r] = "idle" \/ cleanup[conn'[r]] = "no"
                           => ~chanClosed'[r] /\ chan[r] = <<>>
    BY <1>1 DEF UnwrittenIsFresh
  <2>1. CASE r # q
    BY <1>1, <2>1 DEF UnwrittenIsFresh
  <2>2. CASE r = q
    BY <1>2, <2>2 DEF UnwrittenIsFresh, Written
  <2> QED BY <2>1, <2>2
<1>8. ASSUME NEW r \in Calls, r # q PROVE Answered(r)'
  BY <1>1, <1>8, Undisturbed DEF Held
<1>9. Answered(q)'
  <2>1. CASE caller'[q] \notin {"waiting", "ok"}
    BY <2>1 DEF Answered
  <2>2. CASE cancelled[q]
    BY <1>1, <2>2 DEF Answered
  <2>3. CASE caller[q] = "loaded" /\ caller'[q] = "waiting"
    <3>1. /\ cleanup[conn[q]] = "no" /\ UNCHANGED <<conn, chanClosed>>
          /\ conn[q] \in Conns
      BY <1>2, <2>3 DEF PendingTypes, Written
    <3>2. got[q] = <<>> /\ sent[q] = 0 /\ finish[q] = 0 /\ ~chanClosed[q] /\ chan[q] = <<>>
      BY <2>3, <3>1 DEF UnwrittenIsFresh
    <3>3. ~Held(q)
      BY <2>3, <3>1 DEF Held, MessagesOwned, Written
    <3>4. \A i \in 1..Len(wire[conn[q]]) : wire[conn[q]][i].call # q
      BY <2>3, <3>1 DEF MessagesOwned, Written
    <3>5. RestOnWire(wire[conn[q]], q, 0, 0, 0)
      BY <3>4 DEF RestOnWire, Total
    <3>6. Arrived(q) = 0
      BY <3>2 DEF Arrived
    <3>7. Following(got[q], 0) /\ Following(chan[q], Len(got[q]))
      BY <3>2 DEF Following
    <3>8. Flowing(q)
      BY <3>2, <3>3, <3>5, <3>6, <3>7 DEF Flowing
    <3>9. Flowing(q)'
      BY <1>1, <3>1, <3>8 DEF Flowing, Held, Arrived
    <3> QED BY <2>3, <3>1, <3>2, <3>9 DEF Answered
  <2> QED BY <1>2, <2>1, <2>2, <2>3
<1> QED BY <1>3, <1>5, <1>6, <1>7, <1>8, <1>9

\* The invariant of answers, for any number of connections and requests, any
\* buffer, and any length of an answer.
THEOREM AnswersInOrder == RelaySpec => []AnswerInv
<1>1. RelayInit => AnswerInv
  <2> SUFFICES ASSUME RelayInit PROVE AnswerInv
    OBVIOUS
  <2> USE DEF RelayInit
  <2>1. AnswerTypes
    <3>1. NoMessage \in [call : Calls \union {NoCall}, body : Int]
      BY DEF NoMessage
    <3>2. <<>> \in Seq(Int) /\ <<>> \in Seq(Messages)
      OBVIOUS
    <3> QED BY <3>1, <3>2 DEF AnswerTypes
  <2>2. MessagesOwned
    BY DEF MessagesOwned
  <2>3. RequestsOwned
    BY RelayAssumption DEF RequestsOwned
  <2>4. UnwrittenIsFresh /\ \A r \in Calls : Answered(r)
    BY DEF UnwrittenIsFresh, Answered
  <2> QED BY <2>1, <2>2, <2>3, <2>4 DEF AnswerInv
<1>2. PendingInv /\ AnswerInv /\ [RelayNext]_relayVars => AnswerInv'
  <2> SUFFICES ASSUME PendingInv, AnswerInv, [RelayNext]_relayVars PROVE AnswerInv'
    OBVIOUS
  <2>1. PendingTypes
    BY DEF PendingInv
  <2>2. ASSUME UNCHANGED <<caller, conn, chan, chanClosed, got, sent, finish, dropped, wire, read,
                           handler, reader, cleanup, loaded, visiting, pending>>,
               cancelled' \in [Calls -> BOOLEAN],
               \A r \in Calls : cancelled[r] => cancelled'[r]
        PROVE  AnswerInv'
    BY <2>1, <2>2, QuietKeeps DEF AnswerInv, AnswerTypes, RequestsOwned
  <2>3. cancelled \in [Calls -> BOOLEAN]
    BY DEF AnswerInv, AnswerTypes
  <2>4. CASE UNCHANGED relayVars \/ Stop \/ \E n \in Names : Apply(n)
    BY <2>2, <2>3, <2>4 DEF relayVars, Stop, Apply, connVars, readVars, closeVars, callVars,
                            chanVars, netVars
  <2>5. ASSUME NEW q \in Calls, Cancel(q) PROVE AnswerInv'
    BY <2>2, <2>3, <2>5 DEF Cancel, connVars, readVars, closeVars, chanVars, netVars
  <2>6. ASSUME NEW c \in Conns,
               \/ Connect(c) \/ HandlerSteps(c) \/ Break(c) \/ Heartbeat(c)
               \/ ReaderSteps(c) \/ Cleanup(c) \/ StopOne(c)
        PROVE  AnswerInv'
    BY <2>1, <2>6, QuietSteps, ReceiveAnswers, OfferAnswers, FailPendingAnswers
       DEF HandlerSteps, ReaderSteps, Cleanup
  <2>7. ASSUME NEW q \in Calls,
               Find(q) \/ CallerSteps(q) \/ Cancel(q) \/ Forget(q) \/ Answer(q)
        PROVE  AnswerInv'
    BY <2>1, <2>5, <2>7, CallerAnswers, TakeAnswers, AnswerAnswers DEF CallerSteps
  <2> QED BY <2>4, <2>6, <2>7 DEF RelayNext, RelayStep
<1> QED BY <1>1, <1>2, PendingInOrder, PTL DEF RelaySpec

\* A caller that is told its request went well has the whole answer, in order,
\* if its channel had room and its context was not done (dispatch in session.go,
\* NonStream and Stream in http.go).
THEOREM AnswersWhole == RelaySpec => []WholeAnswer
<1>1. AnswerInv => WholeAnswer
  <2> SUFFICES ASSUME AnswerInv, NEW r \in Calls, caller[r] = "ok", ~dropped[r], ~cancelled[r]
               PROVE  finish[r] = End /\ got[r] = [i \in 1..sent[r] |-> i]
    BY DEF WholeAnswer
  <2>1. finish[r] = End /\ Following(got[r], 0) /\ Len(got[r]) = sent[r]
    BY DEF AnswerInv, Answered, Told
  <2>2. got[r] \in Seq(Int) /\ sent[r] \in Nat
    BY NumbersOfAnswer DEF AnswerInv
  <2>3. \A i \in 1..sent[r] : got[r][i] = i
    BY <2>1, <2>2 DEF Following
  <2>4. got[r] = [i \in 1..Len(got[r]) |-> got[r][i]]
    BY <2>2
  <2> QED BY <2>1, <2>3, <2>4
<1> QED BY <1>1, AnswersInOrder, PTL
=============================================================================
