--------------------------- MODULE TokenStoreProofs ---------------------------
(***************************************************************************)
(* TokenStore: what a store wrote to file and mirror stays in both until    *)
(* someone changes the file, for each backend and any number of files,      *)
(* operations in flight, calls, failures and restarts.                      *)
(***************************************************************************)
EXTENDS TokenStore, TLAPS

Kinds == {"none", "save", "login", "delete", "persist", "config"}
Content == [Keys -> Int]

StoreTypes ==
  /\ backend \in {"git", "postgres", "object"}
  /\ mu \in Procs \union {Nobody}
  /\ version \in Nat
  /\ file \in Content /\ commit \in Content /\ remote \in Content
  /\ editing \in Content /\ kept \in Content
  /\ pc \in [Procs -> {"idle", "pulling", "ready", "local", "sending"}]
  /\ op \in [Procs -> [kind : Kinds, key : Keys, value : Int]]

\* An operation in flight is of a kind its key allows, and only one that
\* stores or removes a file has a local change behind it.
KindFits(p) ==
  /\ pc[p] # "idle" =>
       /\ phase = "up" /\ op[p].kind # "none"
       /\ op[p].kind = "config" <=> op[p].key = Config
  /\ pc[p] = "local" => op[p].kind \in {"save", "login", "delete"}

\* The store's lock covers local change, reading back and call to the mirror.
HasLock(p) == pc[p] \in {"local", "sending"} => mu = p

\* What StoredStays is about: not a config that was removed.
Firm(k) == kept[k] # NotKept /\ ~(k = Config /\ kept[k] = Absent)

\* Where an empty file is content like any other.
KeepsEmpty(k) == backend = "git" \/ (backend = "postgres" /\ k = Config)

\* Git's tree says the same as the file, unless the disk was lost.
Tracked(k) ==
  \/ commit[k] = kept[k] /\ file[k] = kept[k]
  \/ phase = "down" /\ \A j \in Keys : commit[j] = Absent /\ file[j] = Absent

\* What is kept of k, if anything, is in all places a restart may start from.
InPlace(k) ==
  Firm(k) =>
    /\ remote[k] = kept[k]
    /\ phase = "up" => file[k] = kept[k]
    /\ backend = "git" => Tracked(k)
    /\ kept[k] = Empty => KeepsEmpty(k)

\* Who holds the lock does not contradict what is kept of its file.
Harmless(p) ==
  /\ pc[p] = "sending" =>
       /\ Firm(op[p].key) => op[p].value = kept[op[p].key]
       /\ backend = "git" => commit[op[p].key] = op[p].value
       /\ op[p].value = Empty => KeepsEmpty(op[p].key)
  /\ pc[p] = "local" /\ op[p].kind = "delete" /\ backend # "git" =>
       (Firm(op[p].key) => kept[op[p].key] = Absent)

\* An editor is at work only while the service runs.
EditsRunning == \A k \in Keys : editing[k] # Absent => phase = "up"

StoreInv ==
  /\ StoreTypes /\ EditsRunning
  /\ \A p \in Procs : KindFits(p) /\ HasLock(p) /\ Harmless(p)
  /\ \A k \in Keys : InPlace(k)

LEMMA StoreInitially == TokenStoreInit => StoreInv
<1> SUFFICES ASSUME TokenStoreInit PROVE StoreInv
  OBVIOUS
<1> USE DEF TokenStoreInit
<1>1. StoreTypes
  BY StoreAssumption DEF StoreTypes, Content, Kinds, Keys, NoOp, Absent, Template, NotKept
<1>2. \A p \in Procs : KindFits(p) /\ HasLock(p) /\ Harmless(p)
  BY DEF KindFits, HasLock, Harmless
<1>3. \A k \in Keys : InPlace(k)
  BY DEF InPlace, Firm
<1> QED
  BY <1>1, <1>2, <1>3 DEF StoreInv, EditsRunning

-----------------------------------------------------------------------------
(* What most actions leave alone. *)

\* Nothing becomes firm that was not.
NothingFirmer == \A k \in Keys : kept'[k] # kept[k] => kept'[k] = NotKept

LEMMA HarmlessFrame ==
  ASSUME NEW p \in Procs, Harmless(p), op[p].key \in Keys, NothingFirmer,
         pc'[p] = pc[p], op'[p] = op[p], UNCHANGED <<backend, commit>>
  PROVE  Harmless(p)'
<1> DEFINE k == op[p].key
<1>1. Firm(k)' => Firm(k) /\ kept'[k] = kept[k]
  BY DEF NothingFirmer, Firm, NotKept, Absent
<1>2. KeepsEmpty(k) => KeepsEmpty(k)'
  BY DEF KeepsEmpty
<1> QED
  BY <1>1, <1>2 DEF Harmless

LEMMA OperationFrame ==
  ASSUME NEW p \in Procs, KindFits(p), HasLock(p), pc'[p] = pc[p], op'[p] = op[p],
         UNCHANGED <<phase, mu>>
  PROVE  KindFits(p)' /\ HasLock(p)'
BY DEF KindFits, HasLock

\* An operation that is over.
LEMMA Returned ==
  ASSUME NEW p \in Procs, pc'[p] = "idle"
  PROVE  KindFits(p)' /\ HasLock(p)' /\ Harmless(p)'
BY DEF KindFits, HasLock, Harmless

LEMMA PlacesFrame ==
  ASSUME NEW k \in Keys, InPlace(k),
         UNCHANGED <<backend, phase, file, commit, remote, kept>>
  PROVE  InPlace(k)'
BY DEF InPlace, Firm, Tracked, KeepsEmpty

\* Whoever changes a file, nothing is kept of it any more.
LEMMA ChangedPlaces ==
  ASSUME StoreInv, phase = "up", NEW k \in Keys, NEW c \in Int, Change(k, c),
         UNCHANGED <<backend, phase, commit, remote>>
  PROVE  /\ NothingFirmer
         /\ \A j \in Keys : InPlace(j)'
         /\ file' \in Content /\ kept' \in Content
<1>1. file \in Content /\ kept \in Content /\ (\A j \in Keys : InPlace(j))
  BY DEF StoreInv, StoreTypes
<1>2. file' = [file EXCEPT ![k] = c] /\ kept' = [kept EXCEPT ![k] = NotKept]
  BY DEF Change
<1>3. file' \in Content /\ kept' \in Content
  BY <1>1, <1>2 DEF Content, NotKept
<1>4. NothingFirmer
  BY <1>1, <1>2 DEF NothingFirmer, Content
<1>5. ASSUME NEW j \in Keys PROVE InPlace(j)'
  <2>1. CASE j = k
    <3>1. ~Firm(j)'
      BY <1>1, <1>2, <2>1 DEF Firm, Content
    <3> QED
      BY <3>1 DEF InPlace
  <2>2. CASE j # k
    <3>1. file'[j] = file[j] /\ kept'[j] = kept[j]
      BY <1>1, <1>2, <2>2 DEF Content
    <3>2. InPlace(j)
      BY <1>1
    <3> QED
      BY <3>1, <3>2 DEF InPlace, Firm, Tracked, KeepsEmpty
  <2> QED
    BY <2>1, <2>2
<1> QED
  BY <1>3, <1>4, <1>5

-----------------------------------------------------------------------------
(* The operations. *)

\* An operation is called that its key allows.
LEMMA CalledStep ==
  ASSUME StoreInv, phase = "up", NEW p \in Procs, NEW kind \in Kinds \ {"none"},
         NEW k \in Keys, NEW content \in Int, Called(p, kind, k, content),
         kind = "config" <=> k = Config, version' \in Nat,
         UNCHANGED <<backend, phase, file, commit, remote, mu, editing, kept>>
  PROVE  StoreInv'
<1>1. pc[p] = "idle" /\ StoreTypes
  BY DEF Called, StoreInv
<1>2. op' = [op EXCEPT ![p] = [kind |-> kind, key |-> k, value |-> content]]
  BY DEF Called
<1>3. PICK s \in {"pulling", "ready"} : pc' = [pc EXCEPT ![p] = s]
  BY DEF Called
<1>4. pc' \in [Procs -> {"idle", "pulling", "ready", "local", "sending"}]
  BY <1>1, <1>3 DEF StoreTypes
<1>5. op' \in [Procs -> [kind : Kinds, key : Keys, value : Int]]
  BY <1>1, <1>2 DEF StoreTypes
<1>6. StoreTypes'
  BY <1>1, <1>4, <1>5 DEF StoreTypes
<1>7. ASSUME NEW q \in Procs PROVE KindFits(q)' /\ HasLock(q)' /\ Harmless(q)'
  <2>1. CASE q = p
    <3>1. pc'[q] \in {"pulling", "ready"} /\ op'[q].kind = kind /\ op'[q].key = k
      BY <1>1, <1>2, <1>3, <2>1 DEF StoreTypes
    <3> QED
      BY <3>1 DEF KindFits, HasLock, Harmless, Kinds
  <2>2. CASE q # p
    <3>1. pc'[q] = pc[q] /\ op'[q] = op[q] /\ op[q].key \in Keys
      BY <1>1, <1>2, <1>3, <2>2 DEF StoreTypes
    <3>2. KindFits(q) /\ HasLock(q) /\ Harmless(q)
      BY DEF StoreInv
    <3>3. NothingFirmer
      BY DEF NothingFirmer
    <3> QED
      BY <3>1, <3>2, <3>3, HarmlessFrame, OperationFrame
  <2> QED
    BY <2>1, <2>2
<1>8. \A j \in Keys : InPlace(j)'
  BY PlacesFrame DEF StoreInv
<1> QED
  BY <1>6, <1>7, <1>8 DEF StoreInv, EditsRunning

LEMMA BeginStep ==
  ASSUME StoreInv, NEW p \in Procs, BeginSave(p) \/ BeginDelete(p)
  PROVE  StoreInv'
<1>1. CASE BeginSave(p)
  <2>1. PICK k \in Auths, content \in 1 .. version + 1, kind \in {"save", "login"} :
          /\ Called(p, kind, k, content)
          /\ version' = IF content > version THEN content ELSE version
    BY <1>1 DEF BeginSave
  <2>2. version \in Nat
    BY DEF StoreInv, StoreTypes
  <2>3. version' \in Nat /\ content \in Int
    BY <2>1, <2>2
  <2>4. k \in Keys /\ k # Config /\ kind \in Kinds \ {"none"} /\ kind # "config"
    BY StoreAssumption DEF Keys, Kinds
  <2>5. UNCHANGED <<backend, phase, file, commit, remote, mu, editing, kept>> /\ phase = "up"
    BY <1>1 DEF BeginSave, mirrorVars
  <2> QED
    BY <2>1, <2>3, <2>4, <2>5, CalledStep
<1>2. CASE BeginDelete(p)
  <2>1. PICK k \in Auths : Called(p, "delete", k, Absent)
    BY <1>2 DEF BeginDelete
  <2>2. k \in Keys /\ k # Config /\ "delete" \in Kinds \ {"none"} /\ Absent \in Int
    BY StoreAssumption DEF Keys, Kinds, Absent
  <2>3. /\ UNCHANGED <<backend, phase, file, commit, remote, mu, editing, kept>> /\ phase = "up"
        /\ version' \in Nat
    BY <1>2 DEF BeginDelete, mirrorVars, StoreInv, StoreTypes
  <2> QED
    BY <2>1, <2>2, <2>3, CalledStep
<1> QED
  BY <1>1, <1>2

LEMMA NoticeStep == StoreInv /\ Notice => StoreInv'
<1> SUFFICES ASSUME StoreInv, Notice PROVE StoreInv'
  OBVIOUS
<1>0. version \in Nat /\ Absent \in Int
  BY DEF StoreInv, StoreTypes, Absent
<1>1. ASSUME UNCHANGED <<backend, phase, file, commit, remote, mu, pc, op, version, editing, kept>>
      PROVE  StoreInv'
  <2>1. StoreTypes' /\ EditsRunning'
    BY <1>1 DEF StoreInv, StoreTypes, EditsRunning
  <2>2. \A j \in Keys : InPlace(j)'
    BY <1>1, PlacesFrame DEF StoreInv
  <2>3. NothingFirmer
    BY <1>1 DEF NothingFirmer
  <2>4. ASSUME NEW q \in Procs PROVE KindFits(q)' /\ HasLock(q)' /\ Harmless(q)'
    <3>1. KindFits(q) /\ HasLock(q) /\ Harmless(q) /\ op[q].key \in Keys
      BY DEF StoreInv, StoreTypes
    <3> QED
      BY <1>1, <2>3, <3>1, HarmlessFrame, OperationFrame
  <2> QED
    BY <2>1, <2>2, <2>4 DEF StoreInv
<1>2. ASSUME NEW p \in Procs, NEW k \in Auths, NoticeAuth(p, k) PROVE StoreInv'
  <2>1. /\ phase = "up"
        /\ UNCHANGED <<backend, phase, file, commit, remote, mu, version, editing, kept>>
        /\ UNCHANGED <<pc, op>> \/ Called(p, "persist", k, Absent)
    BY <1>2 DEF NoticeAuth, mirrorVars
  <2>2. k \in Keys /\ k # Config /\ "persist" \in Kinds \ {"none"}
    BY StoreAssumption DEF Keys, Kinds
  <2> QED
    BY <1>0, <1>1, <2>1, <2>2, CalledStep
<1>3. ASSUME NEW p \in Procs, NoticeConfig(p) PROVE StoreInv'
  <2>1. /\ phase = "up"
        /\ UNCHANGED <<backend, phase, file, commit, remote, mu, version, editing, kept>>
        /\ UNCHANGED <<pc, op>> \/ Called(p, "config", Config, Absent)
    BY <1>3 DEF NoticeConfig, mirrorVars
  <2>2. Config \in Keys /\ "config" \in Kinds \ {"none"}
    BY DEF Keys, Kinds
  <2> QED
    BY <1>0, <1>1, <2>1, <2>2, CalledStep
<1> QED
  BY <1>2, <1>3 DEF Notice

\* An operation that changes neither files nor mirror is over, or waits for
\* the lock.
LEMMA ReturnedStep ==
  ASSUME StoreInv, NEW p \in Procs, pc[p] # "idle", Return(p), mu' \in {mu, Nobody},
         mu' = mu \/ mu = p \/ mu = Nobody,
         UNCHANGED <<backend, phase, file, commit, remote, version, editing, kept>>
  PROVE  StoreInv'
<1>1. StoreTypes
  BY DEF StoreInv
<1>2. pc' = [pc EXCEPT ![p] = "idle"] /\ op' = [op EXCEPT ![p] = NoOp]
  BY DEF Return
<1>3. pc' \in [Procs -> {"idle", "pulling", "ready", "local", "sending"}]
  BY <1>1, <1>2 DEF StoreTypes
<1>4. op' \in [Procs -> [kind : Kinds, key : Keys, value : Int]]
  BY <1>1, <1>2 DEF StoreTypes, NoOp, Kinds, Keys, Absent
<1>5. StoreTypes'
  BY <1>1, <1>3, <1>4 DEF StoreTypes
<1>6. ASSUME NEW q \in Procs PROVE KindFits(q)' /\ HasLock(q)' /\ Harmless(q)'
  <2>1. CASE q = p
    BY <1>1, <1>2, <2>1, Returned DEF StoreTypes
  <2>2. CASE q # p
    <3>1. pc'[q] = pc[q] /\ op'[q] = op[q] /\ op[q].key \in Keys
      BY <1>1, <1>2, <2>2 DEF StoreTypes
    <3>2. KindFits(q) /\ HasLock(q) /\ Harmless(q)
      BY DEF StoreInv
    <3>3. Harmless(q)'
      BY <3>1, <3>2, HarmlessFrame DEF NothingFirmer
    <3>4. KindFits(q)'
      BY <3>1, <3>2 DEF KindFits
    <3>5. HasLock(q)'
      BY <2>2, <3>1, <3>2, StoreAssumption DEF HasLock
    <3> QED
      BY <3>3, <3>4, <3>5
  <2> QED
    BY <2>1, <2>2
<1>7. \A j \in Keys : InPlace(j)'
  BY PlacesFrame DEF StoreInv
<1> QED
  BY <1>5, <1>6, <1>7 DEF StoreInv, EditsRunning

LEMMA PullStep ==
  ASSUME StoreInv, NEW p \in Procs, Pull(p)
  PROVE  StoreInv'
<1>1. /\ StoreTypes /\ pc[p] = "pulling"
      /\ UNCHANGED <<backend, phase, file, commit, remote, mu, version, editing, kept>>
  BY DEF StoreInv, Pull, mirrorVars
<1>2. CASE Return(p)
  BY <1>1, <1>2, ReturnedStep
<1>3. CASE pc' = [pc EXCEPT ![p] = "ready"] /\ UNCHANGED op
  <2>1. StoreTypes'
    BY <1>1, <1>3 DEF StoreTypes
  <2>2. ASSUME NEW q \in Procs PROVE KindFits(q)' /\ HasLock(q)' /\ Harmless(q)'
    <3>1. KindFits(q) /\ HasLock(q) /\ Harmless(q) /\ op[q].key \in Keys
      BY <1>1 DEF StoreInv, StoreTypes
    <3>2. CASE q = p
      <4>1. pc'[q] = "ready" /\ pc[q] = "pulling"
        BY <1>1, <1>3, <3>2 DEF StoreTypes
      <4> QED
        BY <1>1, <1>3, <3>1, <4>1 DEF KindFits, HasLock, Harmless
    <3>3. CASE q # p
      <4>1. pc'[q] = pc[q]
        BY <1>1, <1>3, <3>3 DEF StoreTypes
      <4>2. NothingFirmer
        BY <1>1 DEF NothingFirmer
      <4> QED
        BY <1>1, <1>3, <3>1, <4>1, <4>2, HarmlessFrame, OperationFrame
    <3> QED
      BY <3>2, <3>3
  <2>3. \A j \in Keys : InPlace(j)'
    BY <1>1, PlacesFrame DEF StoreInv
  <2> QED
    BY <1>1, <2>1, <2>2, <2>3 DEF StoreInv, EditsRunning
<1> QED
  BY <1>2, <1>3 DEF Pull

\* The lock is taken for a local change, which leaves of the file nothing that
\* was kept, or, of a delete, only that it was gone.
LEMMA LocalStep ==
  ASSUME StoreInv, NEW p \in Procs, pc[p] = "ready", mu = Nobody,
         op[p].kind \in {"save", "login", "delete"},
         mu' = p, pc' = [pc EXCEPT ![p] = "local"], UNCHANGED op,
         NothingFirmer, \A j \in Keys : InPlace(j)', file' \in Content, kept' \in Content,
         op[p].kind = "delete" /\ Firm(op[p].key)' => kept'[op[p].key] = Absent,
         UNCHANGED <<backend, phase, commit, remote, version, editing>>
  PROVE  StoreInv'
<1>1. StoreTypes
  BY DEF StoreInv
<1>2. StoreTypes'
  BY <1>1 DEF StoreTypes
<1>3. ASSUME NEW q \in Procs PROVE KindFits(q)' /\ HasLock(q)' /\ Harmless(q)'
  <2>1. KindFits(q) /\ HasLock(q) /\ Harmless(q) /\ op[q].key \in Keys
    BY <1>1 DEF StoreInv, StoreTypes
  <2>2. CASE q = p
    <3>1. pc'[q] = "local"
      BY <1>1, <2>2 DEF StoreTypes
    <3> QED
      BY <2>1, <2>2, <3>1 DEF KindFits, HasLock, Harmless
  <2>3. CASE q # p
    <3>1. pc'[q] = pc[q]
      BY <1>1, <2>3 DEF StoreTypes
    <3>2. Harmless(q)'
      BY <2>1, <3>1, HarmlessFrame
    <3>3. pc[q] \notin {"local", "sending"}
      BY <2>1, StoreAssumption DEF HasLock
    <3> QED
      BY <2>1, <3>1, <3>2, <3>3 DEF KindFits, HasLock
  <2> QED
    BY <2>2, <2>3
<1> QED
  BY <1>2, <1>3 DEF StoreInv, EditsRunning

LEMMA StoreFileStep ==
  ASSUME StoreInv, NEW p \in Procs, StoreFile(p)
  PROVE  StoreInv'
<1> DEFINE k == op[p].key
           content == op[p].value
<1>1. StoreTypes /\ pc[p] = "ready" /\ mu = Nobody /\ op[p].kind \in {"save", "login"}
  BY DEF StoreInv, StoreFile
<1>2. k \in Keys /\ content \in Int /\ phase = "up"
  <2>1. KindFits(p)
    BY DEF StoreInv
  <2> QED
    BY <1>1, <2>1 DEF StoreTypes, KindFits
<1>3. UNCHANGED <<backend, phase, commit, remote, version, editing>>
  BY DEF StoreFile, mirrorVars
<1>4. CASE Return(p) /\ UNCHANGED <<file, noticed, kept, mu>>
  BY <1>1, <1>3, <1>4, ReturnedStep
<1>5. CASE Change(k, content) /\ mu' = p /\ pc' = [pc EXCEPT ![p] = "local"] /\ UNCHANGED op
  <2>1. NothingFirmer /\ (\A j \in Keys : InPlace(j)') /\ file' \in Content /\ kept' \in Content
    BY <1>2, <1>3, <1>5, ChangedPlaces
  <2> QED
    BY <1>1, <1>3, <1>5, <2>1, LocalStep
<1> QED
  BY <1>4, <1>5 DEF StoreFile

LEMMA RemoveFileStep ==
  ASSUME StoreInv, NEW p \in Procs, RemoveFile(p)
  PROVE  StoreInv'
<1> DEFINE k == op[p].key
<1>1. StoreTypes /\ pc[p] = "ready" /\ mu = Nobody /\ op[p].kind = "delete"
  BY DEF StoreInv, RemoveFile
<1>2. k \in Keys /\ phase = "up" /\ Absent \in Int /\ InPlace(k)
  <2>1. KindFits(p)
    BY DEF StoreInv
  <2> QED
    BY <1>1, <2>1 DEF StoreInv, StoreTypes, KindFits, Absent
<1>3. UNCHANGED <<backend, phase, commit, remote, version, editing>>
  BY DEF RemoveFile, mirrorVars
<1>4. CASE file[k] = Absent /\ UNCHANGED <<file, noticed, kept>>
  <2>1. CASE Return(p) /\ UNCHANGED mu
    BY <1>1, <1>3, <1>4, <2>1, ReturnedStep
  <2>2. CASE pc' = [pc EXCEPT ![p] = "local"] /\ mu' = p /\ UNCHANGED op
    <3>1. NothingFirmer /\ (\A j \in Keys : InPlace(j)')
      BY <1>3, <1>4, PlacesFrame DEF StoreInv, NothingFirmer
    <3>2. Firm(k)' => kept'[k] = Absent
      BY <1>2, <1>4, <2>2 DEF InPlace, Firm
    <3>3. file' \in Content /\ kept' \in Content
      BY <1>1, <1>4 DEF StoreTypes
    <3> QED
      BY <1>1, <1>3, <2>2, <3>1, <3>2, <3>3, LocalStep
  <2>3. (Return(p) /\ UNCHANGED mu) \/ (pc' = [pc EXCEPT ![p] = "local"] /\ mu' = p /\ UNCHANGED op)
    BY <1>4 DEF RemoveFile
  <2> QED
    BY <2>1, <2>2, <2>3
<1>5. CASE Change(k, Absent) /\ mu' = p /\ pc' = [pc EXCEPT ![p] = "local"] /\ UNCHANGED op
  <2>1. NothingFirmer /\ (\A j \in Keys : InPlace(j)') /\ file' \in Content /\ kept' \in Content
    BY <1>2, <1>3, <1>5, ChangedPlaces
  <2>2. ~Firm(k)'
    BY <1>1, <1>2, <1>5 DEF Change, Firm, StoreTypes, Content
  <2> QED
    BY <1>1, <1>3, <1>5, <2>1, <2>2, LocalStep
<1> QED
  BY <1>4, <1>5 DEF RemoveFile

\* Reading back: what will be mirrored says the same as what is kept.
LEMMA MirroredTrue ==
  ASSUME StoreInv, NEW p \in Procs,
         \/ pc[p] = "local"
         \/ pc[p] = "ready" /\ op[p].kind \in {"persist", "config"}
  PROVE  /\ Mirrored(p) \in Int
         /\ Firm(op[p].key) => Mirrored(p) = kept[op[p].key]
         /\ Mirrored(p) = Empty => KeepsEmpty(op[p].key)
         /\ backend = "git" => Mirrored(p) = file[op[p].key]
<1> DEFINE k == op[p].key
<1>1. StoreTypes /\ KindFits(p) /\ Harmless(p) /\ k \in Keys /\ InPlace(k)
  BY DEF StoreInv, StoreTypes
<1>2. phase = "up" /\ op[p].kind \in {"save", "login", "delete", "persist", "config"}
  BY <1>1 DEF KindFits
<1>3. file[k] \in Int
  BY <1>1 DEF StoreTypes, Content
<1>4. How(p).empty = IF KeepsEmpty(k) THEN "kept" ELSE "removed"
  <2>1. op[p].kind = "config" <=> k = Config
    BY <1>1, <1>2 DEF KindFits
  <2>2. CASE backend = "git"
    BY <1>2, <2>2 DEF How, Operation, GitSave, GitDelete, GitPersist, GitConfig, KeepsEmpty
  <2>3. CASE backend = "postgres"
    BY <1>2, <2>1, <2>3 DEF How, Operation, PostgresSave, PostgresDelete, PostgresPersist,
                            PostgresConfig, KeepsEmpty
  <2>4. CASE backend = "object"
    BY <1>2, <2>1, <2>4 DEF How, Operation, ObjectSave, ObjectDelete, ObjectPersist, ObjectConfig,
                            KeepsEmpty
  <2> QED
    BY <1>1, <2>2, <2>3, <2>4 DEF StoreTypes
<1>5. CASE op[p].kind = "delete" /\ backend # "git"
  <2>1. Mirrored(p) = Absent /\ pc[p] = "local"
    BY <1>5 DEF Mirrored
  <2> QED
    BY <1>1, <1>5, <2>1 DEF Harmless, Absent, Empty
<1>6. CASE ~(op[p].kind = "delete" /\ backend # "git")
  <2>1. Mirrored(p) = IF file[k] = Empty /\ ~KeepsEmpty(k) THEN Absent ELSE file[k]
    BY <1>4, <1>6 DEF Mirrored
  <2>2. Firm(k) => file[k] = kept[k] /\ (kept[k] = Empty => KeepsEmpty(k))
    BY <1>1, <1>2 DEF InPlace
  <2> QED
    BY <1>3, <2>1, <2>2 DEF Absent, Empty, KeepsEmpty
<1> QED
  BY <1>5, <1>6

LEMMA ReadFileStep ==
  ASSUME StoreInv, NEW p \in Procs, ReadFile(p)
  PROVE  StoreInv'
<1>1. StoreTypes /\ mu \in {p, Nobody}
  BY DEF StoreInv, ReadFile, HasLock
<1>2. \/ pc[p] = "local"
      \/ pc[p] = "ready" /\ op[p].kind \in {"persist", "config"}
  BY DEF ReadFile
<1>3. UNCHANGED <<backend, phase, file, remote, version, editing, kept>>
  BY DEF ReadFile
<1>4. CASE Return(p) /\ mu' = Nobody /\ UNCHANGED commit
  BY <1>1, <1>2, <1>3, <1>4, ReturnedStep
<1>5. CASE /\ op' = [op EXCEPT ![p].value = Mirrored(p)]
           /\ pc' = [pc EXCEPT ![p] = "sending"]
           /\ mu' = p
           /\ commit' = IF backend = "git" THEN [commit EXCEPT ![op[p].key] = Mirrored(p)]
                        ELSE commit
  <2> PICK k \in Keys : k = op[p].key
    BY <1>1 DEF StoreTypes
  <2> PICK content \in Int : content = Mirrored(p)
    BY <1>2, MirroredTrue
  <2>1. /\ Firm(k) => content = kept[k]
        /\ content = Empty => KeepsEmpty(k)
        /\ backend = "git" => content = file[k]
    BY <1>2, MirroredTrue
  <2>2. op' \in [Procs -> [kind : Kinds, key : Keys, value : Int]]
    BY <1>1, <1>5 DEF StoreTypes
  <2>3. pc' \in [Procs -> {"idle", "pulling", "ready", "local", "sending"}]
    BY <1>1, <1>5 DEF StoreTypes
  <2>4. commit' \in Content
    BY <1>1, <1>5 DEF StoreTypes, Content
  <2>5. StoreTypes'
    BY <1>1, <1>3, <1>5, <2>2, <2>3, <2>4 DEF StoreTypes
  <2>6. op'[p].key = k /\ op'[p].value = content /\ op'[p].kind = op[p].kind
    BY <1>1, <1>5 DEF StoreTypes
  <2>7. pc'[p] = "sending" /\ (backend = "git" => commit'[k] = content)
    BY <1>1, <1>5 DEF StoreTypes, Content
  <2>8. KindFits(p)' /\ HasLock(p)' /\ Harmless(p)'
    <3>1. KindFits(p)'
      BY <1>2, <1>3, <2>6, <2>7 DEF KindFits, StoreInv
    <3>2. HasLock(p)'
      BY <1>5 DEF HasLock
    <3>3. Harmless(p)'
      BY <1>3, <2>1, <2>6, <2>7 DEF Harmless, Firm, KeepsEmpty
    <3> QED
      BY <3>1, <3>2, <3>3
  <2>9. ASSUME NEW q \in Procs, q # p PROVE KindFits(q)' /\ HasLock(q)' /\ Harmless(q)'
    <3>1. KindFits(q) /\ HasLock(q) /\ pc'[q] = pc[q] /\ op'[q] = op[q]
      BY <1>1, <1>5, <2>9 DEF StoreInv, StoreTypes
    <3>2. pc[q] \notin {"local", "sending"}
      BY <1>1, <2>9, <3>1, StoreAssumption DEF HasLock
    <3> QED
      BY <1>3, <3>1, <3>2 DEF KindFits, HasLock, Harmless
  <2>10. ASSUME NEW j \in Keys PROVE InPlace(j)'
    <3>1. InPlace(j) /\ phase = "up"
      BY <1>2 DEF StoreInv, KindFits
    <3>2. backend = "git" /\ Firm(j) => commit'[j] = kept[j]
      <4>1. CASE j = k
        BY <2>1, <2>7, <4>1
      <4>2. CASE j # k
        BY <1>1, <1>5, <3>1, <4>2 DEF StoreTypes, Content, InPlace, Tracked
      <4> QED
        BY <4>1, <4>2
    <3> QED
      BY <1>3, <3>1, <3>2 DEF InPlace, Firm, Tracked, KeepsEmpty
  <2> QED
    BY <1>3, <2>5, <2>8, <2>9, <2>10 DEF StoreInv, EditsRunning
<1> QED
  BY <1>4, <1>5 DEF ReadFile

\* The call to the mirror, whether it succeeds, fails, or fails and has had
\* its effect.
LEMMA SendStep ==
  ASSUME StoreInv, NEW p \in Procs, Send(p)
  PROVE  StoreInv'
<1>1. /\ StoreTypes /\ pc[p] = "sending" /\ mu = p /\ phase = "up"
      /\ Harmless(p)
  BY DEF StoreInv, Send, HasLock, KindFits
<1>2. /\ UNCHANGED <<backend, phase, file, commit, version, editing>> /\ mu' = Nobody
      /\ pc' = [pc EXCEPT ![p] = "idle"] /\ op' = [op EXCEPT ![p] = NoOp]
  BY DEF Send, Return
<1> PICK k \in Keys : k = op[p].key
  BY <1>1 DEF StoreTypes
<1> PICK content \in Int : content = op[p].value
  BY <1>1 DEF StoreTypes
<1>3. /\ Firm(k) => content = kept[k]
      /\ backend = "git" => commit[k] = content
      /\ content = Empty => KeepsEmpty(k)
  BY <1>1 DEF Harmless
<1>4. \/ remote' = Sent(p) /\ kept' = IF file[k] = content THEN [kept EXCEPT ![k] = content] ELSE kept
      \/ remote' \in {remote, Sent(p)} /\ kept' = kept
  BY DEF Send
<1>5. remote' \in Content /\ kept' \in Content
  BY <1>1, <1>4 DEF StoreTypes, Content, Sent
<1>6. StoreTypes'
  <2>1. op' \in [Procs -> [kind : Kinds, key : Keys, value : Int]]
    BY <1>1, <1>2 DEF StoreTypes, NoOp, Kinds, Keys, Absent
  <2>2. pc' \in [Procs -> {"idle", "pulling", "ready", "local", "sending"}]
    BY <1>1, <1>2 DEF StoreTypes
  <2> QED
    BY <1>1, <1>2, <1>5, <2>1, <2>2 DEF StoreTypes
<1>7. ASSUME NEW q \in Procs PROVE KindFits(q)' /\ HasLock(q)' /\ Harmless(q)'
  <2>1. CASE q = p
    BY <1>1, <1>2, <2>1, Returned DEF StoreTypes
  <2>2. CASE q # p
    <3>1. KindFits(q) /\ HasLock(q) /\ pc'[q] = pc[q] /\ op'[q] = op[q]
      BY <1>1, <1>2, <2>2 DEF StoreInv, StoreTypes
    <3>2. pc[q] \notin {"local", "sending"}
      BY <1>1, <2>2, <3>1 DEF HasLock
    <3> QED
      BY <1>2, <3>1, <3>2 DEF KindFits, HasLock, Harmless
  <2> QED
    BY <2>1, <2>2
<1>8. ASSUME NEW j \in Keys PROVE InPlace(j)'
  <2>1. InPlace(j)
    BY DEF StoreInv
  <2>2. CASE kept'[j] = kept[j]
    <3>1. Firm(j) => remote'[j] = kept[j]
      <4>1. CASE backend = "git"
        BY <1>1, <1>4, <2>1, <4>1 DEF InPlace, Tracked, Sent
      <4>2. CASE backend # "git"
        BY <1>1, <1>3, <1>4, <2>1, <4>2 DEF InPlace, Sent, StoreTypes, Content
      <4> QED
        BY <4>1, <4>2
    <3> QED
      BY <1>2, <2>1, <2>2, <3>1 DEF InPlace, Firm, Tracked, KeepsEmpty
  <2>3. CASE kept'[j] # kept[j]
    <3>1. j = k /\ file[k] = content /\ kept'[k] = content /\ remote' = Sent(p)
      BY <1>1, <1>4, <2>3 DEF StoreTypes, Content
    <3>2. remote'[k] = content
      <4>1. CASE backend = "git"
        BY <1>3, <3>1, <4>1 DEF Sent
      <4>2. CASE backend # "git"
        BY <1>1, <3>1, <4>2 DEF Sent, StoreTypes, Content
      <4> QED
        BY <4>1, <4>2
    <3> QED
      BY <1>2, <1>3, <3>1, <3>2 DEF InPlace, Tracked, KeepsEmpty
  <2> QED
    BY <2>2, <2>3
<1> QED
  BY <1>2, <1>6, <1>7, <1>8 DEF StoreInv, EditsRunning

-----------------------------------------------------------------------------
(* Files changed without the lock. *)

LEMMA EditStep ==
  ASSUME StoreInv, NEW k \in Keys, Truncate(k) \/ FinishEdit(k) \/ RemoveByUser(k)
  PROVE  StoreInv'
<1>1. StoreTypes /\ EditsRunning
  BY DEF StoreInv
<1>2. phase = "up" /\ UNCHANGED <<backend, phase, commit, remote, mu, pc, op>>
  BY <1>1 DEF EditsRunning, Truncate, FinishEdit, RemoveByUser, mirrorVars
<1>3. \E c \in Int : Change(k, c)
  <2>1. Empty \in Int /\ Absent \in Int /\ editing[k] \in Int
    BY <1>1 DEF StoreTypes, Content, Empty, Absent
  <2> QED
    BY <2>1 DEF Truncate, FinishEdit, RemoveByUser
<1>4. NothingFirmer /\ (\A j \in Keys : InPlace(j)') /\ file' \in Content /\ kept' \in Content
  BY <1>2, <1>3, ChangedPlaces
<1>5. editing' \in Content /\ version' \in Nat
  <2>1. version \in Nat /\ file \in [Keys -> Int] /\ editing \in [Keys -> Int]
    BY <1>1 DEF StoreTypes, Content
  <2>2. CASE Truncate(k)
    <3>1. version' \in Nat
      BY <2>1, <2>2 DEF Truncate
    <3>2. \E c \in Int : editing' = [editing EXCEPT ![k] = c]
      BY <2>1, <2>2 DEF Truncate
    <3> QED
      BY <2>1, <3>1, <3>2 DEF Content
  <2>3. CASE FinishEdit(k)
    BY <2>1, <2>3 DEF FinishEdit, Content, Absent
  <2>4. CASE RemoveByUser(k)
    BY <2>1, <2>4 DEF RemoveByUser, Content
  <2> QED
    BY <2>2, <2>3, <2>4
<1>6. StoreTypes' /\ EditsRunning'
  BY <1>1, <1>2, <1>4, <1>5 DEF StoreTypes, EditsRunning
<1>7. ASSUME NEW q \in Procs PROVE KindFits(q)' /\ HasLock(q)' /\ Harmless(q)'
  <2>1. KindFits(q) /\ HasLock(q) /\ Harmless(q) /\ op[q].key \in Keys
    BY <1>1 DEF StoreInv, StoreTypes
  <2> QED
    BY <1>2, <1>4, <2>1, HarmlessFrame, OperationFrame
<1> QED
  BY <1>4, <1>6, <1>7 DEF StoreInv

-----------------------------------------------------------------------------
(* Crash and restart. *)

LEMMA CrashStep == StoreInv /\ Crash => StoreInv'
<1> SUFFICES ASSUME StoreInv, Crash PROVE StoreInv'
  OBVIOUS
<1>1. StoreTypes /\ phase = "up"
  BY DEF StoreInv, Crash
<1>2. /\ UNCHANGED <<backend, remote, version, kept>> /\ phase' = "down" /\ mu' = Nobody
      /\ pc' = [p \in Procs |-> "idle"] /\ op' = [p \in Procs |-> NoOp]
      /\ editing' = [k \in Keys |-> Absent]
  BY DEF Crash
<1>3. \/ UNCHANGED <<file, commit>>
      \/ file' = [k \in Keys |-> Absent] /\ commit' = [k \in Keys |-> Absent]
  BY DEF Crash
<1>4. StoreTypes'
  <2>1. file' \in Content /\ commit' \in Content /\ editing' \in Content
    BY <1>1, <1>2, <1>3 DEF StoreTypes, Content, Absent
  <2>2. op' \in [Procs -> [kind : Kinds, key : Keys, value : Int]]
    BY <1>2 DEF NoOp, Kinds, Keys, Absent
  <2>3. pc' \in [Procs -> {"idle", "pulling", "ready", "local", "sending"}]
    BY <1>2
  <2> QED
    BY <1>1, <1>2, <2>1, <2>2, <2>3 DEF StoreTypes
<1>5. \A q \in Procs : KindFits(q)' /\ HasLock(q)' /\ Harmless(q)'
  BY <1>2, Returned
<1>6. ASSUME NEW k \in Keys PROVE InPlace(k)'
  <2>1. InPlace(k)
    BY DEF StoreInv
  <2>2. Firm(k)' => Firm(k)
    BY <1>2 DEF Firm
  <2>3. backend' = "git" /\ Firm(k) => Tracked(k)'
    BY <1>1, <1>2, <1>3, <2>1 DEF InPlace, Tracked
  <2> QED
    BY <1>2, <2>1, <2>2, <2>3 DEF InPlace, KeepsEmpty
<1>7. EditsRunning'
  BY <1>2 DEF EditsRunning
<1> QED
  BY <1>4, <1>5, <1>6, <1>7 DEF StoreInv

\* A restart that leaves what is kept in its places leaves everything in order.
LEMMA BootFrame ==
  ASSUME StoreInv, phase = "down", phase' \in {"down", "up"},
         file' \in Content, commit' \in Content, remote' \in Content,
         \A k \in Keys : InPlace(k)',
         UNCHANGED <<backend, mu, pc, op, version, editing, kept>>
  PROVE  StoreInv'
<1>1. StoreTypes'
  BY DEF StoreInv, StoreTypes
<1>2. ASSUME NEW q \in Procs PROVE KindFits(q)' /\ HasLock(q)' /\ Harmless(q)'
  <2>1. pc[q] = "idle"
    BY DEF StoreInv, KindFits
  <2> QED
    BY <2>1, Returned
<1>3. EditsRunning'
  BY DEF StoreInv, EditsRunning
<1> QED
  BY <1>1, <1>2, <1>3 DEF StoreInv

LEMMA BootConfigKnown ==
  ASSUME StoreInv
  PROVE  BootConfig \in Int /\ (Firm(Config) => BootConfig = kept[Config])
<1>1. StoreTypes /\ Config \in Keys /\ InPlace(Config)
  BY DEF StoreInv, Keys
<1>2. BootConfig \in Int
  BY <1>1 DEF BootConfig, StoreTypes, Content, Template
<1>3. Firm(Config) => remote[Config] = kept[Config] /\ kept[Config] # Absent
  BY <1>1 DEF InPlace, Firm
<1> QED
  BY <1>2, <1>3 DEF BootConfig

\* Postgres and the bucket: the directory is built from the mirror.
LEMMA LoadedStep ==
  ASSUME StoreInv, phase = "down", backend # "git", Started, LoadAuths,
         remote' = remote \/ remote' = [remote EXCEPT ![Config] = BootConfig],
         UNCHANGED <<backend, commit, mu, pc, op, version, editing, kept>>
  PROVE  StoreInv'
<1>1. StoreTypes /\ Config \in Keys /\ BootConfig \in Int
  BY BootConfigKnown DEF StoreInv, Keys
<1>2. file' = [k \in Keys |-> IF k = Config THEN BootConfig ELSE remote[k]] /\ phase' = "up"
  BY DEF LoadAuths, Started
<1>3. file' \in Content /\ remote' \in Content /\ commit' \in Content
  BY <1>1, <1>2 DEF StoreTypes, Content
<1>4. ASSUME NEW k \in Keys PROVE InPlace(k)'
  <2>1. InPlace(k) /\ (Firm(k)' => Firm(k))
    BY DEF StoreInv, Firm
  <2>2. CASE k = Config
    <3>1. Firm(k) => file'[k] = kept[k] /\ remote'[k] = kept[k]
      BY <1>1, <1>2, <2>1, <2>2, BootConfigKnown DEF InPlace, StoreTypes, Content
    <3> QED
      BY <2>1, <3>1 DEF InPlace, KeepsEmpty
  <2>3. CASE k # Config
    <3>1. Firm(k) => file'[k] = kept[k] /\ remote'[k] = kept[k]
      BY <1>1, <1>2, <2>1, <2>3 DEF InPlace, StoreTypes, Content
    <3> QED
      BY <2>1, <3>1 DEF InPlace, KeepsEmpty
  <2> QED
    BY <2>2, <2>3
<1> QED
  BY <1>2, <1>3, <1>4, BootFrame

\* What git starts from, kept or cloned, has what is kept.
LEMMA GitStart ==
  ASSUME StoreInv, backend = "git"
  PROVE  /\ GitTree \in Content /\ GitFiles \in Content
         /\ \A k \in Keys : Firm(k) => /\ GitTree[k] = kept[k] /\ GitFiles[k] = kept[k]
<1>1. StoreTypes
  BY DEF StoreInv
<1>2. GitTree \in Content /\ GitFiles \in Content
  BY <1>1 DEF GitTree, GitFiles, StoreTypes, Content
<1>3. ASSUME NEW k \in Keys, Firm(k)
      PROVE  GitTree[k] = kept[k] /\ GitFiles[k] = kept[k]
  <2>1. remote[k] = kept[k] /\ Tracked(k)
    BY <1>3 DEF StoreInv, InPlace
  <2>2. CASE \A j \in Keys : commit[j] = Absent
    <3>1. file[k] = Absent \/ file[k] = kept[k]
      BY <2>1 DEF Tracked
    <3> QED
      BY <2>1, <2>2, <3>1 DEF GitTree, GitFiles, Tracked
  <2>3. CASE ~\A j \in Keys : commit[j] = Absent
    BY <2>1, <2>3 DEF GitTree, GitFiles, Tracked
  <2> QED
    BY <2>2, <2>3
<1> QED
  BY <1>2, <1>3

LEMMA GitBootStep ==
  ASSUME StoreInv, GitBoot
  PROVE  StoreInv'
<1>1. /\ StoreTypes /\ backend = "git" /\ phase = "down" /\ Config \in Keys
      /\ UNCHANGED <<backend, mu, pc, op, version, editing, kept>>
  BY DEF StoreInv, GitBoot, Keys
<1>2. ASSUME NEW k \in Keys, Firm(k)
      PROVE  /\ GitTree[k] = kept[k] /\ GitFiles[k] = kept[k] /\ remote[k] = kept[k]
             /\ k = Config => kept[k] # Absent
  BY <1>1, <1>2, GitStart DEF StoreInv, InPlace, Firm
<1>3. CASE /\ file' = GitFiles /\ commit' = GitTree
           /\ Started /\ UNCHANGED <<remote, faults>>
  <2>1. file' \in Content /\ commit' \in Content /\ remote' \in Content /\ phase' = "up"
    BY <1>1, <1>3, GitStart DEF StoreTypes, Started
  <2>2. ASSUME NEW k \in Keys PROVE InPlace(k)'
    BY <1>1, <1>2, <1>3 DEF InPlace, Firm, Tracked, KeepsEmpty
  <2> QED
    BY <1>1, <2>1, <2>2, BootFrame
<1>4. CASE /\ GitFiles[Config] = Absent
           /\ file' = [GitFiles EXCEPT ![Config] = Template]
           /\ commit' = [GitTree EXCEPT ![Config] = Template]
           /\ \/ remote' = commit' /\ Started /\ UNCHANGED faults
              \/ Fault /\ UNCHANGED <<remote, phase, watcherVars>>
  <2>1. Template \in Int
    BY DEF Template
  <2>2. file' \in Content /\ commit' \in Content
    BY <1>1, <1>4, <2>1, GitStart DEF Content
  <2>3. remote' \in Content /\ phase' \in {"down", "up"}
    BY <1>1, <1>4, <2>2 DEF StoreTypes, Started
  <2>4. ASSUME NEW k \in Keys, Firm(k)
        PROVE  file'[k] = kept[k] /\ commit'[k] = kept[k] /\ remote'[k] = kept[k]
    <3>1. k # Config
      BY <1>2, <1>4, <2>4
    <3>2. file'[k] = GitFiles[k] /\ commit'[k] = GitTree[k]
      BY <1>1, <1>4, <3>1, GitStart DEF Content
    <3> QED
      BY <1>2, <1>4, <2>4, <3>2
  <2>5. ASSUME NEW k \in Keys PROVE InPlace(k)'
    <3>1. InPlace(k) /\ (Firm(k)' => Firm(k))
      BY <1>1 DEF StoreInv, Firm
    <3> QED
      BY <1>1, <2>4, <3>1 DEF InPlace, Tracked, KeepsEmpty
  <2> QED
    BY <1>1, <2>2, <2>3, <2>5, BootFrame
<1> QED
  BY <1>3, <1>4 DEF GitBoot

LEMMA BootStep == StoreInv /\ Boot => StoreInv'
<1> SUFFICES ASSUME StoreInv, Boot PROVE StoreInv'
  OBVIOUS
<1>1. ASSUME phase = "down", Fault,
             UNCHANGED <<file, remote, phase, commit, backend, mu, pc, op, version, editing, kept>>
      PROVE  StoreInv'
  <2>1. \A k \in Keys : InPlace(k)'
    BY <1>1, PlacesFrame DEF StoreInv
  <2> QED
    BY <1>1, <2>1, BootFrame DEF StoreInv, StoreTypes
<1>2. CASE PostgresBoot
  <2>1. PostgresBootConfig => remote' = [remote EXCEPT ![Config] = BootConfig]
    BY DEF PostgresBootConfig
  <2> QED
    BY <1>1, <1>2, <2>1, LoadedStep DEF PostgresBoot
<1>3. CASE ObjectBoot
  <2>1. ObjectBootConfig => remote' = remote \/ remote' = [remote EXCEPT ![Config] = BootConfig]
    BY DEF ObjectBootConfig
  <2> QED
    BY <1>1, <1>3, <2>1, LoadedStep DEF ObjectBoot
<1>4. CASE GitBoot
  BY <1>4, GitBootStep
<1> QED
  BY <1>2, <1>3, <1>4 DEF Boot

-----------------------------------------------------------------------------
LEMMA StoreStep == StoreInv /\ [Next]_vars => StoreInv'
<1> SUFFICES ASSUME StoreInv, [Next]_vars PROVE StoreInv'
  OBVIOUS
<1>1. ASSUME NEW p \in Procs, BeginSave(p) \/ BeginDelete(p) \/ Step(p) PROVE StoreInv'
  BY <1>1, BeginStep, PullStep, StoreFileStep, RemoveFileStep, ReadFileStep, SendStep DEF Step
<1>2. ASSUME NEW k \in Keys, Truncate(k) \/ FinishEdit(k) \/ RemoveByUser(k) PROVE StoreInv'
  BY <1>2, EditStep
<1>3. ASSUME UNCHANGED vars PROVE StoreInv'
  <2>1. StoreTypes' /\ EditsRunning'
    BY <1>3 DEF vars, StoreInv, StoreTypes, EditsRunning
  <2>2. ASSUME NEW q \in Procs PROVE KindFits(q)' /\ HasLock(q)' /\ Harmless(q)'
    <3>1. KindFits(q) /\ HasLock(q) /\ Harmless(q) /\ op[q].key \in Keys
      BY DEF StoreInv, StoreTypes
    <3> QED
      BY <1>3, <3>1, HarmlessFrame, OperationFrame DEF vars, NothingFirmer
  <2>3. \A k \in Keys : InPlace(k)'
    BY <1>3, PlacesFrame DEF vars, StoreInv
  <2> QED
    BY <2>1, <2>2, <2>3 DEF StoreInv
<1> QED
  BY <1>1, <1>2, <1>3, NoticeStep, CrashStep, BootStep DEF Next, Quiet

\* The inductive invariant holds in every reachable state.
THEOREM StoreInOrder == Spec => []StoreInv
BY StoreInitially, StoreStep, PTL DEF Spec

\* What Save, PersistAuthFiles or PersistConfig wrote to file and mirror stays
\* in both through the operations of others, the watcher's persisting, failed
\* calls and restarts with or without the disk, until the file is changed.
THEOREM StoredFilesStay == Spec => []StoredStays
<1>1. StoreInv => StoredStays
  BY DEF StoreInv, InPlace, Firm, StoredStays
<1> QED
  BY StoreInOrder, <1>1, PTL
=============================================================================
