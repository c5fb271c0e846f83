---------------------------- MODULE ModelRegistry ----------------------------
(***************************************************************************)
(* internal/registry/model_registry.go: the process-wide registry of which *)
(* client (credential) serves which model.  Every method runs under        *)
(* r.mutex, so each is one atomic action here.                              *)
(*                                                                         *)
(* A registration is a record; a model with no registration (no key in     *)
(* r.models) has the value NoRegistration, whose count is 0.  The lists of *)
(* r.clientModels may hold an ID twice: they are kept as bags, functions   *)
(* from models to multiplicities, all 0 when the client has no entry (the  *)
(* code never stores an empty list).                                       *)
(***************************************************************************)
EXTENDS Integers, FiniteSets

CONSTANTS
  Clients,      \* client (auth) identifiers
  Models,       \* model identifiers
  Providers,    \* non-empty provider identifiers, lower-cased
  NoProvider,   \* the empty provider string
  MaxDup        \* bound: how often one model may occur in a client's list

ASSUME ConstantsAssumption ==
  /\ IsFiniteSet(Clients)
  /\ NoProvider \notin Providers
  /\ MaxDup \in Nat

VARIABLES
  models,          \* r.models: model -> registration
  clientModels,    \* r.clientModels: client -> bag of models
  clientProviders  \* r.clientProviders: client -> provider, NoProvider if absent

vars == <<models, clientModels, clientProviders>>

ProviderIDs == Providers \union {NoProvider}
ModelBag == [Models -> 0..MaxDup]
EmptyBag == [m \in Models |-> 0]

\* A quota mark is a timestamp: live for five minutes, then expired but
\* still stored until CleanupExpiredQuotas, a success or a registration.
QuotaMark == {"none", "live", "expired"}
\* The suspension reason; GetAvailableModels tells "quota" from the others.
SuspendMark == {"none", "quota", "other"}

Registration ==
  [count: Nat, providers: [Providers -> Nat],
   quota: [Clients -> QuotaMark], suspended: [Clients -> SuspendMark]]

NoRegistration ==
  [count |-> 0, providers |-> [p \in Providers |-> 0],
   quota |-> [c \in Clients |-> "none"],
   suspended |-> [c \in Clients |-> "none"]]

Exists(m) == models[m].count > 0
Supports(c, m) == clientModels[c][m] > 0
Registered(c) == clientModels[c] # EmptyBag

-----------------------------------------------------------------------------
(* The helpers that change one registration. *)

Lower(a, b) == IF a < b THEN a ELSE b
Above0(n) == IF n > 0 THEN n ELSE 0

\* reg.Providers[p] += n, and -= n with deletion of an entry that reaches 0.
AddProvider(reg, p, n) ==
  IF p \in Providers THEN [reg EXCEPT !.providers[p] = @ + n] ELSE reg
DropProvider(reg, p, n) ==
  IF p \in Providers THEN [reg EXCEPT !.providers[p] = Above0(@ - n)] ELSE reg

ClearMarks(reg, c) ==
  [reg EXCEPT !.quota[c] = "none", !.suspended[c] = "none"]

\* n calls of addModelRegistration(m, p, ...).
AddRegistration(reg, p, n) ==
  AddProvider([reg EXCEPT !.count = @ + n], p, n)

\* n calls of removeModelRegistration(c, m, p): the registration is deleted
\* by the call that brings its count to 0, later calls find nothing.
RemoveRegistration(reg, c, p, n) ==
  IF n = 0 THEN reg
  ELSE IF reg.count <= n THEN NoRegistration
  ELSE DropProvider(ClearMarks([reg EXCEPT !.count = @ - n], c), p, n)

\* Mutants of Reconcile: surplus occurrences kept; the overlap not credited
\* to the new provider; the guard newCount <= oldCount dropped; marks kept.
MutReconcileKeepsSurplus(reg, c, oldN, newN, oldP, p) ==
  LET overlap == Lower(oldN, newN)
      moved   == IF oldP # p THEN DropProvider(reg, oldP, overlap) ELSE reg
      removed == IF newN = 0 THEN RemoveRegistration(moved, c, oldP, oldN) ELSE moved
      added   == ClearMarks(AddRegistration(removed, p, Above0(newN - oldN)), c)
  IN  IF oldP # p THEN AddProvider(added, p, overlap) ELSE added

MutReconcileLosesProvider(reg, c, oldN, newN, oldP, p) ==
  LET moved   == IF oldP # p THEN DropProvider(reg, oldP, Lower(oldN, newN)) ELSE reg
      removed == RemoveRegistration(moved, c, oldP, Above0(oldN - newN))
  IN  ClearMarks(AddRegistration(removed, p, Above0(newN - oldN)), c)

MutReconcileKeepsMarks(reg, c, oldN, newN, oldP, p) ==
  LET overlap == Lower(oldN, newN)
      moved   == IF oldP # p THEN DropProvider(reg, oldP, overlap) ELSE reg
      removed == RemoveRegistration(moved, c, oldP, Above0(oldN - newN))
      added   == AddRegistration(removed, p, Above0(newN - oldN))
  IN  IF oldP # p THEN AddProvider(added, p, overlap) ELSE added

\* What RegisterClient does to one model of a client it already knows: the
\* old provider loses the overlap, surplus occurrences go, missing ones are
\* added, marks are cleared and the new provider gains the overlap.
Reconcile(reg, c, oldN, newN, oldP, p) ==
  LET overlap == Lower(oldN, newN)
      moved   == IF oldP # p THEN DropProvider(reg, oldP, overlap) ELSE reg
      removed == RemoveRegistration(moved, c, oldP, Above0(oldN - newN))
      added   == AddRegistration(removed, p, Above0(newN - oldN))
      marked  == IF newN > 0 THEN ClearMarks(added, c) ELSE added
  IN  IF oldP # p THEN AddProvider(marked, p, overlap) ELSE marked

-----------------------------------------------------------------------------
Init ==
  /\ models = [m \in Models |-> NoRegistration]
  /\ clientModels = [c \in Clients |-> EmptyBag]
  /\ clientProviders = [c \in Clients |-> NoProvider]

UnregisterEffect(c) ==
  /\ models' = [m \in Models |->
       RemoveRegistration(models[m], c, clientProviders[c], clientModels[c][m])]
  /\ clientModels' = [clientModels EXCEPT ![c] = EmptyBag]
  /\ clientProviders' = [clientProviders EXCEPT ![c] = NoProvider]

\* RegisterClient: an empty list unregisters, a new client is added (its
\* marks, if any are left over, stay), a known one is reconciled.
RegisterClient(c, p, bag) ==
  \/ /\ bag = EmptyBag
     /\ UnregisterEffect(c)
  \/ /\ bag # EmptyBag
     /\ models' = [m \in Models |->
          IF Registered(c)
          THEN Reconcile(models[m], c, clientModels[c][m], bag[m],
                         clientProviders[c], p)
          ELSE AddRegistration(models[m], p, bag[m])]
     /\ clientModels' = [clientModels EXCEPT ![c] = bag]
     /\ clientProviders' = [clientProviders EXCEPT ![c] = p]

UnregisterClient(c) == UnregisterEffect(c)

SetModelQuotaExceeded(c, m) ==
  /\ models' = IF Exists(m) THEN [models EXCEPT ![m].quota[c] = "live"]
                            ELSE models
  /\ UNCHANGED <<clientModels, clientProviders>>

ClearModelQuotaExceeded(c, m) ==
  /\ models' = [models EXCEPT ![m].quota[c] = "none"]
  /\ UNCHANGED <<clientModels, clientProviders>>

\* A client already suspended keeps its first reason.
SuspendClientModel(c, m, reason) ==
  /\ models' = IF Exists(m) /\ models[m].suspended[c] = "none"
               THEN [models EXCEPT ![m].suspended[c] = reason]
               ELSE models
  /\ UNCHANGED <<clientModels, clientProviders>>

ResumeClientModel(c, m) ==
  /\ models' = [models EXCEPT ![m].suspended[c] = "none"]
  /\ UNCHANGED <<clientModels, clientProviders>>

CleanupExpiredQuotas ==
  /\ models' = [m \in Models |-> [models[m] EXCEPT
       !.quota = [c \in Clients |-> IF @[c] = "expired" THEN "none" ELSE @[c]]]]
  /\ UNCHANGED <<clientModels, clientProviders>>

\* Five minutes pass since the mark was set.
QuotaExpires(c, m) ==
  /\ models[m].quota[c] = "live"
  /\ models' = [models EXCEPT ![m].quota[c] = "expired"]
  /\ UNCHANGED <<clientModels, clientProviders>>

Next ==
  \/ CleanupExpiredQuotas
  \/ \E c \in Clients :
       \/ UnregisterClient(c)
       \/ \E p \in ProviderIDs, bag \in ModelBag : RegisterClient(c, p, bag)
       \/ \E m \in Models :
            \/ SetModelQuotaExceeded(c, m)
            \/ ClearModelQuotaExceeded(c, m)
            \/ \E reason \in {"quota", "other"} : SuspendClientModel(c, m, reason)
            \/ ResumeClientModel(c, m)
            \/ QuotaExpires(c, m)

Spec == Init /\ [][Next]_vars

-----------------------------------------------------------------------------
(* The read operations. *)

OverQuota(m) == {c \in Clients : models[m].quota[c] = "live"}
Suspended(m) == {c \in Clients : models[m].suspended[c] # "none"}
OtherSuspended(m) == {c \in Clients : models[m].suspended[c] = "other"}
QuotaSuspended(m) == {c \in Clients : models[m].suspended[c] = "quota"}

GetModelCount(m) ==
  Above0(models[m].count - Cardinality(OverQuota(m)) - Cardinality(Suspended(m)))

GetModelProviders(m) == {p \in Providers : models[m].providers[p] > 0}

\* Whether GetAvailableModels lists m.
Listed(m) ==
  LET effective == Above0(models[m].count - Cardinality(OverQuota(m))
                                          - Cardinality(OtherSuspended(m)))
  IN  \/ effective > 0
      \/ /\ models[m].count > 0
         /\ OverQuota(m) \union QuotaSuspended(m) # {}
         /\ OtherSuspended(m) = {}

-----------------------------------------------------------------------------
(* Properties. *)

TypeOK ==
  /\ models \in [Models -> Registration]
  /\ clientModels \in [Clients -> ModelBag]
  /\ clientProviders \in [Clients -> ProviderIDs]

\* The occurrences of m in the lists of the clients in S.
Slots(S, m) == {s \in S \X (1..MaxDup) : s[2] <= clientModels[s[1]][m]}

\* However clients are registered, re-registered with other lists or other
\* providers, and removed, the incremental counter of a model is the number
\* of occurrences of the model in the lists of the clients now registered.
CountExact ==
  \A m \in Models : models[m].count = Cardinality(Slots(Clients, m))

\* The same for the per-provider counters that GetModelProviders routes by:
\* no provider is left behind by, or lost in, a change of provider.
ProvidersExact ==
  \A m \in Models, p \in Providers :
    models[m].providers[p] =
      Cardinality(Slots({c \in Clients : clientProviders[c] = p}, m))

\* A registration gives a known client a clean slate on all its models:
\* RegisterClient on a reconciled client leaves no mark on what it serves.
ReconcileClearsMarks ==
  [][\A c \in Clients : Registered(c) =>
       \A p \in ProviderIDs, bag \in ModelBag : RegisterClient(c, p, bag) =>
         \A m \in Models : bag[m] > 0 =>
           models'[m].quota[c] = "none" /\ models'[m].suspended[c] = "none"]_vars
=============================================================================
