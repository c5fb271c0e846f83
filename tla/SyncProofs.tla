------------------------------ MODULE SyncProofs ------------------------------
(***************************************************************************)
(* Proofs about the watcher's dispatch of what changes on disk, and about   *)
(* the synchronisation that rests on it, for any credentials, sources,      *)
(* changes and capacity of the queue.                                       *)
(*   WatcherDispatch  as long as handovers do not overlap, it implements    *)
(*                    LatestValue, and so never goes back to an older one;  *)
(*   AuthSync         a credential whose removal the service has applied    *)
(*                    does not serve, however sources overlap.              *)
(***************************************************************************)
EXTENDS AuthSync, FiniteSetTheorems, TLAPS

QueueItem == [id : Ids, auth : Nat, stamp : Nat]

\* What is read and found on the way from the disk to the dispatcher.
SourcesOK ==
  /\ scenario \in Scenarios
  /\ \A s \in Sources :
       /\ \A id \in DOMAIN scanned[s] : scanned[s][id] \in Nat
       /\ \A id \in DOMAIN updates[s] : id \in Ids /\ updates[s][id] \in Update

\* One credential, one place in the order, and an update for it.
OrderOK ==
  /\ \A i \in DOMAIN pendingOrder : pendingOrder[i] \in DOMAIN pendingUpdates
  /\ \A i, j \in DOMAIN pendingOrder : i # j => pendingOrder[i] # pendingOrder[j]

\* Only a source that hands over has found something.
FoundIsHandedOver == \A s \in Sources : stage[s] # "dispatch" => DOMAIN updates[s] = {}

\* The update u of id is newer than what is applied, and no newer than what
\* was found last, which it is if it has the same number.
Between(id, u) ==
  /\ applied[id].stamp < u.stamp
  /\ u.stamp <= published[id].stamp
  /\ u.stamp = published[id].stamp => u.auth = published[id].auth

BeforePending(id, u) == id \in DOMAIN pendingUpdates => u.stamp < pendingUpdates[id].stamp
BeforeFound(id, u) ==
  \A s \in Sources : id \in DOMAIN updates[s] => u.stamp < updates[s][id].stamp

\* The updates of a credential get newer from the service back to the sources.
QueueInOrder ==
  /\ \A i \in DOMAIN queue :
       LET id == queue[i].id IN
         Between(id, queue[i]) /\ BeforePending(id, queue[i]) /\ BeforeFound(id, queue[i])
  /\ \A i, j \in DOMAIN queue : i < j /\ queue[i].id = queue[j].id => queue[i].stamp < queue[j].stamp
BatchInOrder ==
  /\ \A i \in DOMAIN batch :
       LET id == batch[i].id IN
         Between(id, batch[i]) /\ BeforePending(id, batch[i]) /\ BeforeFound(id, batch[i])
  /\ \A i, j \in DOMAIN batch : i # j => batch[i].id # batch[j].id
  /\ \A i \in DOMAIN queue, j \in DOMAIN batch :
       queue[i].id = batch[j].id => queue[i].stamp < batch[j].stamp
PendingInOrder ==
  \A id \in DOMAIN pendingUpdates :
    Between(id, pendingUpdates[id]) /\ BeforeFound(id, pendingUpdates[id])
FoundInOrder ==
  /\ \A s \in Sources : \A id \in DOMAIN updates[s] : Between(id, updates[s][id])
  /\ \A id \in Ids : applied[id].stamp <= published[id].stamp

OrderInv ==
  /\ TypeOK /\ SourcesOK /\ OrderOK /\ FoundIsHandedOver
  /\ QueueInOrder /\ BatchInOrder /\ PendingInOrder /\ FoundInOrder

\* No credential is being handed over by two sources at once.
FoundOnce ==
  \A s, t \in Sources : s # t => DOMAIN updates[s] \intersect DOMAIN updates[t] = {}

-----------------------------------------------------------------------------
LEMMA OrderInit == Init => OrderInv
<1> SUFFICES ASSUME Init PROVE OrderInv
  OBVIOUS
<1> USE DEF Init, Absent
<1>1. /\ file \in [FileIds -> Nat] /\ currentAuths \in [Ids -> Nat]
      /\ connected \in [Channels -> Nat] /\ lastAuthHashes \in [FileIds -> Nat]
  BY DEF Ids
<1>2. published \in [Ids -> Update] /\ applied = published
  BY <1>1 DEF Update
<1>3. /\ DOMAIN pendingUpdates = {} /\ pendingOrder = <<>> /\ batch = <<>> /\ queue = <<>>
      /\ \A s \in Sources : DOMAIN updates[s] = {} /\ DOMAIN scanned[s] = {}
      /\ DOMAIN updates = Sources /\ DOMAIN scanned = Sources
  BY DEF NoUpdates, NothingRead
<1>4. TypeOK
  <2>1. events = <<>> /\ edits = 1 /\ stage \in [Sources -> {"idle", "scan", "dispatch"}]
    OBVIOUS
  <2>2. QueueCap \in Nat
    BY DispatchAssumption
  <2> QED
    BY ONLY <1>1, <1>2, <1>3, <2>1, <2>2 DEF TypeOK
<1>5. SourcesOK /\ OrderOK /\ FoundIsHandedOver
  BY ONLY <1>3, Init DEF SourcesOK, OrderOK, FoundIsHandedOver, Init
<1>6. QueueInOrder /\ BatchInOrder /\ PendingInOrder
  BY ONLY <1>3 DEF QueueInOrder, BatchInOrder, PendingInOrder
<1>7. FoundInOrder
  BY ONLY <1>2, <1>3 DEF FoundInOrder, Update
<1> QED
  BY <1>4, <1>5, <1>6, <1>7 DEF OrderInv

-----------------------------------------------------------------------------
(* Finding an update. *)

orderVars == <<updates, pendingVars, batch, queue, published, applied>>
InOrder == QueueInOrder /\ BatchInOrder /\ PendingInOrder /\ FoundInOrder

\* What the order of the updates does not depend on.
LEMMA OrderFrame ==
  ASSUME InOrder, OrderOK, UNCHANGED orderVars
  PROVE  InOrder' /\ OrderOK'
<1> USE DEF orderVars, pendingVars
<1>1. ASSUME NEW id, NEW u
      PROVE  /\ Between(id, u) => Between(id, u)'
             /\ BeforePending(id, u) => BeforePending(id, u)'
             /\ BeforeFound(id, u) => BeforeFound(id, u)'
  BY DEF Between, BeforePending, BeforeFound
<1>2. QueueInOrder' /\ BatchInOrder'
  BY <1>1 DEF InOrder, QueueInOrder, BatchInOrder
<1>3. PendingInOrder' /\ FoundInOrder'
  BY <1>1 DEF InOrder, PendingInOrder, FoundInOrder
<1> QED
  BY <1>2, <1>3 DEF InOrder, OrderOK

\* The world changes files, and events with them.
LEMMA WorldStep ==
  ASSUME OrderInv, World
  PROVE  OrderInv'
<1>1. PICK id \in scenario.files : WriteFile(id) \/ RemoveFile(id)
  BY DEF World
<1>2. /\ UNCHANGED orderVars
      /\ UNCHANGED <<scenario, connected, shadowVars, sourceVars, dispatchVars, applied>>
  BY <1>1 DEF WriteFile, RemoveFile, orderVars, dispatchVars, shadowVars, sourceVars
<1>3. id \in FileIds
  BY DispatchAssumption DEF Scenario, OrderInv, SourcesOK
<1>4. /\ file' \in [FileIds -> Nat] /\ edits' \in Nat
      /\ events' \in Seq([id : FileIds, op : {"write", "remove"}])
  <2>1. /\ file \in [FileIds -> Nat] /\ edits \in Nat
        /\ events \in Seq([id : FileIds, op : {"write", "remove"}])
    BY DEF OrderInv, TypeOK
  <2>2. CASE WriteFile(id)
    BY <1>3, <2>1, <2>2 DEF WriteFile, Event
  <2>3. CASE RemoveFile(id)
    BY <1>3, <2>1, <2>3 DEF RemoveFile, Event, Absent
  <2> QED
    BY <1>1, <2>2, <2>3
<1>5. TypeOK'
  BY <1>2, <1>4 DEF OrderInv, TypeOK, shadowVars, sourceVars, dispatchVars, pendingVars
<1>6. SourcesOK' /\ FoundIsHandedOver'
  BY <1>2 DEF OrderInv, SourcesOK, FoundIsHandedOver, sourceVars
<1>7. InOrder' /\ OrderOK'
  BY <1>2, OrderFrame DEF OrderInv, InOrder
<1> QED
  BY <1>5, <1>6, <1>7 DEF OrderInv, InOrder

LEMMA HeadTail ==
  ASSUME NEW S, NEW q \in Seq(S), q # <<>>
  PROVE  /\ Head(q) \in S /\ Tail(q) \in Seq(S) /\ Len(Tail(q)) <= Len(q)
         /\ Head(q) = q[1] /\ 1 \in DOMAIN q
         /\ \A i \in DOMAIN Tail(q) : i + 1 \in DOMAIN q /\ Tail(q)[i] = q[i + 1]
OBVIOUS

LEMMA EventStep ==
  ASSUME OrderInv, HandleEvent
  PROVE  OrderInv'
<1>1. UNCHANGED orderVars
  BY DEF HandleEvent, orderVars, dispatchVars
<1>2. /\ UNCHANGED <<file, connected, edits, scenario, currentAuths, published, scanned,
                     updates, dispatchVars, applied>>
      /\ "events" \in Sources /\ stage["events"] = "idle"
      /\ stage' = stage \/ stage' = [stage EXCEPT !["events"] = "scan"]
  BY DEF HandleEvent, Idle, Moves
<1>3. /\ events' \in Seq([id : FileIds, op : {"write", "remove"}])
      /\ lastAuthHashes' \in [FileIds -> Nat]
  <2>1. /\ events \in Seq([id : FileIds, op : {"write", "remove"}]) /\ events # <<>>
        /\ lastAuthHashes \in [FileIds -> Nat] /\ file \in [FileIds -> Nat]
    BY DEF OrderInv, TypeOK, HandleEvent
  <2>2. /\ Head(events) \in [id : FileIds, op : {"write", "remove"}]
        /\ Tail(events) \in Seq([id : FileIds, op : {"write", "remove"}])
    BY ONLY <2>1, HeadTail
  <2>3. events' = Tail(events)
    BY DEF HandleEvent
  <2>4. \/ lastAuthHashes' = lastAuthHashes
        \/ lastAuthHashes' = [lastAuthHashes EXCEPT ![Head(events).id] = file[Head(events).id]]
    <3>1. CASE Unchanged(Head(events).id) \/ Ignored(Head(events))
      BY ONLY <3>1, HandleEvent DEF HandleEvent
    <3>2. CASE ~(Unchanged(Head(events).id) \/ Ignored(Head(events)))
      BY ONLY <3>2, HandleEvent DEF HandleEvent
    <3> QED
      BY <3>1, <3>2
  <2>5. Head(events).id \in FileIds
    BY ONLY <2>2
  <2> QED
    BY ONLY <2>1, <2>2, <2>3, <2>4, <2>5
<1>4. TypeOK'
  BY <1>2, <1>3 DEF OrderInv, TypeOK, dispatchVars, pendingVars
<1>5. SourcesOK'
  BY <1>2 DEF OrderInv, SourcesOK
<1>6. FoundIsHandedOver'
  <2>1. \A t \in Sources : stage'[t] = "dispatch" <=> stage[t] = "dispatch"
    BY <1>2 DEF OrderInv, TypeOK
  <2> QED
    BY <1>2, <2>1 DEF OrderInv, FoundIsHandedOver
<1>7. InOrder' /\ OrderOK'
  BY <1>1, OrderFrame DEF OrderInv, InOrder
<1> QED
  BY <1>4, <1>5, <1>6, <1>7 DEF OrderInv, InOrder

LEMMA ReloadStep ==
  ASSUME OrderInv, Reload
  PROVE  OrderInv'
<1>1. UNCHANGED orderVars
  BY DEF Reload, orderVars, dispatchVars
<1>2. /\ UNCHANGED <<file, events, connected, scenario, lastAuthHashes, published, scanned,
                     updates, dispatchVars, applied>>
      /\ "reload" \in Sources /\ stage["reload"] = "idle"
      /\ stage' = [stage EXCEPT !["reload"] = "scan"]
  BY DEF Reload, Idle, Moves
<1>3. currentAuths' \in [Ids -> Nat] /\ edits' \in Nat
  <2>1. currentAuths \in [Ids -> Nat] /\ edits \in Nat
    BY DEF OrderInv, TypeOK
  <2> QED
    BY <2>1 DEF Reload, Absent
<1>4. TypeOK'
  BY <1>2, <1>3 DEF OrderInv, TypeOK, dispatchVars, pendingVars
<1>5. SourcesOK'
  BY <1>2 DEF OrderInv, SourcesOK
<1>6. FoundIsHandedOver'
  BY <1>2 DEF OrderInv, FoundIsHandedOver, TypeOK
<1>7. InOrder' /\ OrderOK'
  BY <1>1, OrderFrame DEF OrderInv, InOrder
<1> QED
  BY <1>4, <1>5, <1>6, <1>7 DEF OrderInv, InOrder

LEMMA ReadStep ==
  ASSUME OrderInv, NEW s \in Sources, NEW id \in scenario.files, ReadFile(s, id)
  PROVE  OrderInv'
<1>1. UNCHANGED orderVars
  BY DEF ReadFile, orderVars, dispatchVars, shadowVars
<1>2. UNCHANGED <<diskVars, shadowVars, stage, updates, dispatchVars, applied>>
  BY DEF ReadFile
<1>3. file[id] \in Nat
  BY DispatchAssumption DEF Scenario, OrderInv, SourcesOK, TypeOK
<1>4. /\ DOMAIN scanned' = Sources
      /\ \A t \in Sources : \A i \in DOMAIN scanned'[t] : scanned'[t][i] \in Nat
  BY <1>3 DEF ReadFile, OrderInv, SourcesOK, TypeOK
<1>5. TypeOK'
  BY <1>2, <1>4 DEF OrderInv, TypeOK, diskVars, shadowVars, dispatchVars, pendingVars
<1>6. SourcesOK' /\ FoundIsHandedOver'
  BY <1>2, <1>4 DEF OrderInv, SourcesOK, FoundIsHandedOver, diskVars
<1>7. InOrder' /\ OrderOK'
  BY <1>1, OrderFrame DEF OrderInv, InOrder
<1> QED
  BY <1>5, <1>6, <1>7 DEF OrderInv, InOrder

\* Whatever is on its way has a credential, an auth and a stamp.
LEMMA OnTheWayOK ==
  ASSUME TypeOK
  PROVE  /\ \A i \in DOMAIN queue : /\ queue[i] \in QueueItem
                                     /\ queue[i].id \in Ids /\ queue[i].stamp \in Nat
         /\ \A i \in DOMAIN batch : /\ batch[i] \in QueueItem
                                     /\ batch[i].id \in Ids /\ batch[i].stamp \in Nat
         /\ \A id \in DOMAIN pendingUpdates :
              id \in Ids /\ pendingUpdates[id] \in Update /\ pendingUpdates[id].stamp \in Nat
<1>1. queue \in Seq(QueueItem) /\ batch \in Seq(QueueItem)
  BY DEF TypeOK, QueueItem
<1>2. /\ \A i \in DOMAIN queue : queue[i] \in QueueItem
      /\ \A i \in DOMAIN batch : batch[i] \in QueueItem
  BY ONLY <1>1
<1>3. \A item \in QueueItem : item.id \in Ids /\ item.stamp \in Nat
  BY DEF QueueItem
<1>4. \A id \in DOMAIN pendingUpdates : id \in Ids /\ pendingUpdates[id] \in Update
  BY DEF TypeOK
<1>5. \A u \in Update : u.stamp \in Nat
  BY DEF Update
<1> QED
  BY ONLY <1>2, <1>3, <1>4, <1>5

\* The updates found are newer than everything on its way: no other source is
\* handing over one of the same credential.
LEMMA PublishStep ==
  ASSUME OrderInv, Numbered, FoundOnce', NEW s \in Sources, stage[s] # "dispatch",
         NEW changed \in SUBSET Ids, NEW value \in [Ids -> Nat],
         Publish(s, changed, value),
         UNCHANGED <<pendingVars, batch, queue, applied>>
  PROVE  /\ published' \in [Ids -> Update]
         /\ stage' \in [Sources -> {"idle", "scan", "dispatch"}]
         /\ DOMAIN updates' = Sources
         /\ \A t \in Sources : \A id \in DOMAIN updates'[t] : id \in Ids /\ updates'[t][id] \in Update
         /\ FoundIsHandedOver' /\ OrderOK' /\ InOrder'
         /\ Values!Publish
<1> DEFINE found == [id \in changed |-> [auth |-> value[id], stamp |-> published[id].stamp + 1]]
<1>1. /\ published' = [id \in Ids |-> IF id \in changed THEN found[id] ELSE published[id]]
      /\ updates' = [updates EXCEPT ![s] = found]
      /\ stage' = [stage EXCEPT ![s] = IF changed = {} THEN "idle" ELSE "dispatch"]
  BY DEF Publish, Moves
<1>2. /\ published \in [Ids -> Update] /\ DOMAIN updates = Sources
      /\ stage \in [Sources -> {"idle", "scan", "dispatch"}]
      /\ applied \in [Ids -> Update]
  BY DEF OrderInv, TypeOK
<1>4. \A id \in changed : /\ found[id] \in Update
                          /\ found[id].stamp = published[id].stamp + 1
  BY <1>2 DEF Update
<1>5. /\ published' \in [Ids -> Update]
      /\ \A id \in changed : published'[id] = found[id]
      /\ \A id \in Ids \ changed : published'[id] = published[id]
  BY <1>1, <1>2, <1>4
<1>6. /\ stage' \in [Sources -> {"idle", "scan", "dispatch"}]
      /\ DOMAIN updates' = Sources
      /\ updates'[s] = found
      /\ \A t \in Sources \ {s} : updates'[t] = updates[t] /\ stage'[t] = stage[t]
  BY <1>1, <1>2
<1>7. /\ DOMAIN updates'[s] = changed
      /\ \A id \in changed : updates'[s][id] = published'[id]
      /\ \A t \in Sources \ {s} : \A id \in DOMAIN updates[t] : id \notin changed
  BY <1>5, <1>6 DEF FoundOnce
<1>8. FoundIsHandedOver'
  BY <1>1, <1>2, <1>6, <1>7 DEF OrderInv, FoundIsHandedOver
<1>9. OrderOK'
  BY DEF OrderInv, OrderOK, pendingVars
<1>10. /\ \A id \in Ids : published[id].stamp \in Nat /\ published'[id].stamp \in Nat
       /\ \A id \in Ids : published[id].stamp <= published'[id].stamp
       /\ \A id \in changed : published[id].stamp < published'[id].stamp
  <2>1. \A id \in Ids : published[id].stamp \in Nat /\ published'[id].stamp \in Nat
    BY ONLY <1>2, <1>5 DEF Update
  <2>2. \A id \in changed : published'[id].stamp = published[id].stamp + 1
    BY ONLY <1>4, <1>5
  <2> QED
    BY ONLY <2>1, <2>2, <1>5, changed \in SUBSET Ids
<1>11. ASSUME NEW id \in Ids, NEW u, u.stamp \in Nat, Between(id, u), BeforeFound(id, u)
       PROVE  Between(id, u)' /\ BeforeFound(id, u)'
  <2>1. CASE id \in changed
    BY <1>2, <1>6, <1>7, <1>10, <1>11, <2>1 DEF Between, BeforeFound, Update
  <2>2. CASE id \notin changed
    BY <1>5, <1>6, <1>7, <1>11, <2>2 DEF Between, BeforeFound
  <2> QED
    BY <2>1, <2>2
<1>12. ASSUME NEW id, NEW u, BeforePending(id, u)
       PROVE  BeforePending(id, u)'
  BY <1>12 DEF BeforePending, pendingVars
<1>13. UNCHANGED <<pendingUpdates, batch, queue, applied>>
  BY DEF pendingVars
<1>14. /\ \A i \in DOMAIN queue : queue[i].id \in Ids /\ queue[i].stamp \in Nat
       /\ \A i \in DOMAIN batch : batch[i].id \in Ids /\ batch[i].stamp \in Nat
       /\ \A id \in DOMAIN pendingUpdates : id \in Ids /\ pendingUpdates[id].stamp \in Nat
  BY OnTheWayOK DEF OrderInv
<1>15. QueueInOrder' /\ BatchInOrder'
  BY <1>11, <1>12, <1>13, <1>14 DEF OrderInv, QueueInOrder, BatchInOrder
<1>16. PendingInOrder'
  BY <1>11, <1>13, <1>14 DEF OrderInv, PendingInOrder
<1>17. FoundInOrder'
  <2>1. \A id \in Ids : applied[id].stamp \in Nat /\ applied[id].stamp <= published[id].stamp
    BY <1>2 DEF OrderInv, FoundInOrder, Update
  <2>2. \A id \in Ids : applied'[id].stamp <= published'[id].stamp
    BY <1>10, <1>13, <2>1
  <2>3. ASSUME NEW t \in Sources, NEW id \in DOMAIN updates'[t]
        PROVE  Between(id, updates[t][id])'
    <3>1. CASE t = s
      <4>1. updates'[t][id] = published'[id] /\ id \in changed
        BY <1>7, <2>3, <3>1
      <4>2. applied'[id].stamp < published'[id].stamp
        BY <1>10, <1>13, <2>1, <4>1
      <4> QED
        BY <1>10, <4>1, <4>2 DEF Between
    <3>2. CASE t # s
      <4>1. id \in DOMAIN updates[t] /\ updates'[t] = updates[t] /\ id \notin changed
        BY <1>6, <1>7, <2>3, <3>2
      <4>2. id \in Ids /\ Between(id, updates[t][id])
        BY <4>1 DEF OrderInv, FoundInOrder, SourcesOK
      <4> QED
        BY <1>5, <1>13, <4>1, <4>2 DEF Between
    <3> QED
      BY <3>1, <3>2
  <2> QED
    BY <2>2, <2>3 DEF FoundInOrder
<1>18. \A t \in Sources : \A id \in DOMAIN updates'[t] : id \in Ids /\ updates'[t][id] \in Update
  BY <1>5, <1>6, <1>7 DEF OrderInv, SourcesOK
<1>19. Values!Publish
  <2>1. /\ \A id \in changed : published'[id].stamp = published[id].stamp + 1
        /\ \A id \in Ids \ changed : published'[id] = published[id]
    BY <1>4, <1>5
  <2> QED
    BY <1>13, <2>1 DEF Values!Publish
<1> QED
  BY <1>5, <1>6, <1>8, <1>9, <1>15, <1>16, <1>17, <1>18, <1>19 DEF InOrder

LEMMA DiffStep ==
  ASSUME OrderInv, Numbered, FoundOnce', NEW s \in Sources, Diff(s)
  PROVE  OrderInv' /\ Values!Publish
<1> DEFINE found == [id \in Ids |-> IF id \in Channels THEN connected[id]
                                    ELSE IF id \in scenario.files THEN scanned[s][id]
                                    ELSE Absent]
           changed == {id \in Ids : found[id] # currentAuths[id]}
<1>1. /\ stage[s] = "scan" /\ DOMAIN scanned[s] = scenario.files
      /\ Publish(s, changed, found) /\ currentAuths' = found
      /\ scanned' = [scanned EXCEPT ![s] = NothingRead]
      /\ UNCHANGED <<diskVars, lastAuthHashes, dispatchVars, applied>>
  BY DEF Diff
<1>2. found \in [Ids -> Nat]
  <2>1. \A id \in Channels : connected[id] \in Nat
    BY DEF OrderInv, TypeOK
  <2>2. \A id \in scenario.files : scanned[s][id] \in Nat
    BY <1>1 DEF OrderInv, SourcesOK
  <2> QED
    BY <2>1, <2>2 DEF Absent
<1> HIDE DEF found
<1>3. changed \in SUBSET Ids
  OBVIOUS
<1> HIDE DEF changed
<1>4. /\ published' \in [Ids -> Update]
      /\ stage' \in [Sources -> {"idle", "scan", "dispatch"}]
      /\ DOMAIN updates' = Sources
      /\ \A t \in Sources : \A id \in DOMAIN updates'[t] : id \in Ids /\ updates'[t][id] \in Update
      /\ FoundIsHandedOver' /\ OrderOK' /\ InOrder' /\ Values!Publish
  <2>1. UNCHANGED <<pendingVars, batch, queue, applied>> /\ stage[s] # "dispatch"
    BY <1>1 DEF dispatchVars
  <2> QED
    BY <1>1, <1>2, <1>3, <2>1, PublishStep
<1>5. /\ DOMAIN scanned' = Sources
      /\ \A t \in Sources : \A id \in DOMAIN scanned'[t] : scanned'[t][id] \in Nat
  BY <1>1 DEF OrderInv, TypeOK, SourcesOK, NothingRead
<1>6. TypeOK'
  BY <1>1, <1>2, <1>4, <1>5 DEF OrderInv, TypeOK, diskVars, dispatchVars, pendingVars
<1>7. SourcesOK'
  BY <1>1, <1>4, <1>5 DEF OrderInv, SourcesOK, diskVars
<1> QED
  BY <1>4, <1>6, <1>7 DEF OrderInv, InOrder

LEMMA RuntimeStep ==
  ASSUME OrderInv, Numbered, FoundOnce', NEW ch \in Channels, RuntimeUpdate(ch)
  PROVE  OrderInv' /\ Values!Publish
<1>1. PICK auth \in {Absent, 1} :
        /\ connected' = [connected EXCEPT ![ch] = auth]
        /\ currentAuths' = [currentAuths EXCEPT ![ch] = auth]
        /\ Publish("gateway", {ch}, currentAuths')
  BY DEF RuntimeUpdate
<1>2. /\ "gateway" \in Sources /\ stage["gateway"] = "idle" /\ edits' = edits + 1
      /\ UNCHANGED <<file, events, scenario, lastAuthHashes, scanned, dispatchVars, applied>>
  BY DEF RuntimeUpdate, Idle
<1>3. /\ connected' \in [Channels -> Nat] /\ currentAuths' \in [Ids -> Nat] /\ edits' \in Nat
  <2>1. /\ connected \in [Channels -> Nat] /\ currentAuths \in [Ids -> Nat] /\ edits \in Nat
    BY DEF OrderInv, TypeOK
  <2>2. auth \in Nat
    BY DEF Absent
  <2>3. connected' \in [Channels -> Nat]
    BY <1>1, <2>1, <2>2
  <2>4. currentAuths' \in [Ids -> Nat]
    BY <1>1, <2>1, <2>2
  <2>5. edits' \in Nat
    BY <1>2, <2>1
  <2> QED
    BY ONLY <2>3, <2>4, <2>5
<1>4. /\ published' \in [Ids -> Update]
      /\ stage' \in [Sources -> {"idle", "scan", "dispatch"}]
      /\ DOMAIN updates' = Sources
      /\ \A t \in Sources : \A id \in DOMAIN updates'[t] : id \in Ids /\ updates'[t][id] \in Update
      /\ FoundIsHandedOver' /\ OrderOK' /\ InOrder' /\ Values!Publish
  <2>1. UNCHANGED <<pendingVars, batch, queue, applied>> /\ stage["gateway"] # "dispatch"
    BY <1>2 DEF dispatchVars
  <2>2. {ch} \in SUBSET Ids
    BY DEF Ids
  <2> QED
    BY <1>1, <1>2, <1>3, <2>1, <2>2, PublishStep
<1>5. TypeOK'
  BY <1>2, <1>3, <1>4 DEF OrderInv, TypeOK, dispatchVars, pendingVars
<1>6. SourcesOK'
  BY <1>2, <1>4 DEF OrderInv, SourcesOK
<1> QED
  BY <1>4, <1>5, <1>6 DEF OrderInv, InOrder

-----------------------------------------------------------------------------
(* Handing an update over, and on to the service. *)

\* The credentials of a handover that are not pending get a place each.
LEMMA NewPlaces ==
  ASSUME NEW S \in SUBSET Ids, NEW new \in SetToSeqs(S)
  PROVE  /\ new \in Seq(S)
         /\ \A i, j \in DOMAIN new : i # j => new[i] # new[j]
<1>1. IsFiniteSet(S)
  <2>1. IsFiniteSet(Ids)
    BY DispatchAssumption, FS_Union DEF Ids
  <2> QED
    BY <2>1, FS_Subset
<1>2. Cardinality(S) \in Nat
  BY <1>1, FS_CardinalityType
<1>3. /\ new \in [1..Cardinality(S) -> S]
      /\ \A i, j \in 1..Cardinality(S) : i # j => new[i] # new[j]
  BY DEF SetToSeqs
<1> QED
  BY ONLY <1>2, <1>3

\* Two sequences without repetitions and without a common element make one.
LEMMA AppendedPlaces ==
  ASSUME NEW S, NEW T, NEW p \in Seq(S), NEW q \in Seq(T), S \intersect T = {},
         \A i, j \in DOMAIN p : i # j => p[i] # p[j],
         \A i, j \in DOMAIN q : i # j => q[i] # q[j]
  PROVE  /\ p \o q \in Seq(S \union T)
         /\ \A i, j \in DOMAIN (p \o q) : i # j => (p \o q)[i] # (p \o q)[j]
<1>1. /\ p \o q \in Seq(S \union T)
      /\ DOMAIN (p \o q) = 1..Len(p) + Len(q)
      /\ \A i \in 1..Len(p) + Len(q) :
           (p \o q)[i] = IF i <= Len(p) THEN p[i] ELSE q[i - Len(p)]
  OBVIOUS
<1>2. /\ \A i \in 1..Len(p) : i \in DOMAIN p /\ p[i] \in S
      /\ \A i \in Len(p) + 1..Len(p) + Len(q) : i - Len(p) \in DOMAIN q /\ q[i - Len(p)] \in T
  OBVIOUS
<1>3. Len(p) \in Nat /\ Len(q) \in Nat
  OBVIOUS
<1>4. ASSUME NEW i \in 1..Len(p) + Len(q), NEW j \in 1..Len(p) + Len(q), i # j
      PROVE  (p \o q)[i] # (p \o q)[j]
  <2>1. CASE i <= Len(p) /\ j <= Len(p)
    BY <1>1, <1>2, <1>3, <1>4, <2>1
  <2>2. CASE i > Len(p) /\ j > Len(p)
    <3>1. i - Len(p) # j - Len(p) /\ i - Len(p) \in DOMAIN q /\ j - Len(p) \in DOMAIN q
      BY <1>2, <1>3, <1>4, <2>2
    <3>2. q[i - Len(p)] # q[j - Len(p)]
      BY <3>1
    <3> QED
      BY <1>1, <1>3, <2>2, <3>2
  <2>3. CASE i <= Len(p) /\ j > Len(p)
    BY <1>1, <1>2, <1>3, <2>3
  <2>4. CASE i > Len(p) /\ j <= Len(p)
    BY <1>1, <1>2, <1>3, <2>4
  <2> QED
    BY <1>3, <2>1, <2>2, <2>3, <2>4
<1> QED
  BY <1>1, <1>4

LEMMA MergeStep ==
  ASSUME OrderInv, NEW s \in Sources, Merge(updates[s])
  PROVE  /\ pendingOrder' \in Seq(Ids) /\ OrderOK'
         /\ \A id \in DOMAIN pendingUpdates' : id \in Ids /\ pendingUpdates'[id] \in Update
<1> DEFINE found == updates[s]
           fresh == DOMAIN found \ DOMAIN pendingUpdates
<1>1. PICK new \in SetToSeqs(fresh) : pendingOrder' = pendingOrder \o new
  BY DEF Merge
<1>2. pendingUpdates' = [id \in DOMAIN found \union DOMAIN pendingUpdates |->
                          IF id \in DOMAIN found THEN found[id] ELSE pendingUpdates[id]]
  BY DEF Merge
<1>3. /\ \A id \in DOMAIN found : id \in Ids /\ found[id] \in Update
      /\ \A id \in DOMAIN pendingUpdates : id \in Ids /\ pendingUpdates[id] \in Update
  BY DEF OrderInv, TypeOK, SourcesOK
<1>4. pendingOrder \in Seq(Ids)
  BY DEF OrderInv, TypeOK
<1>5. new \in Seq(fresh) /\ \A i, j \in DOMAIN new : i # j => new[i] # new[j]
  BY <1>1, <1>3, NewPlaces
<1>6. /\ \A i \in DOMAIN pendingOrder : pendingOrder[i] \in DOMAIN pendingUpdates
      /\ \A i, j \in DOMAIN pendingOrder : i # j => pendingOrder[i] # pendingOrder[j]
  BY DEF OrderInv, OrderOK
<1>7. pendingOrder \in Seq(DOMAIN pendingUpdates)
  BY <1>4, <1>6
<1>8. /\ pendingOrder' \in Seq(DOMAIN pendingUpdates \union fresh)
      /\ \A i, j \in DOMAIN pendingOrder' : i # j => pendingOrder'[i] # pendingOrder'[j]
  BY <1>1, <1>5, <1>6, <1>7, AppendedPlaces
<1>9. DOMAIN pendingUpdates' = DOMAIN pendingUpdates \union fresh
  BY <1>2
<1>10. OrderOK'
  BY <1>8, <1>9 DEF OrderOK
<1>11. DOMAIN pendingUpdates \union fresh \subseteq Ids
  BY <1>3
<1>12. pendingOrder' \in Seq(Ids)
  BY <1>8, <1>11
<1> QED
  BY <1>2, <1>3, <1>10, <1>12

LEMMA DispatchStep ==
  ASSUME OrderInv, FoundOnce, NEW s \in Sources, Dispatch(s)
  PROVE  OrderInv'
<1>1. /\ stage[s] = "dispatch" /\ Merge(updates[s])
      /\ updates' = [updates EXCEPT ![s] = NoUpdates]
      /\ stage' = [stage EXCEPT ![s] = "idle"]
      /\ UNCHANGED <<diskVars, shadowVars, scanned, batch, queue, applied>>
  BY DEF Dispatch, Moves
<1>2. UNCHANGED <<published, batch, queue, applied>>
  BY <1>1 DEF shadowVars
<1>3. /\ pendingOrder' \in Seq(Ids) /\ OrderOK'
      /\ \A id \in DOMAIN pendingUpdates' : id \in Ids /\ pendingUpdates'[id] \in Update
  BY <1>1, MergeStep
<1>4. pendingUpdates' = [id \in DOMAIN updates[s] \union DOMAIN pendingUpdates |->
                          IF id \in DOMAIN updates[s] THEN updates[s][id] ELSE pendingUpdates[id]]
  BY <1>1 DEF Merge
<1>5. /\ DOMAIN updates' = Sources
      /\ stage' \in [Sources -> {"idle", "scan", "dispatch"}]
      /\ DOMAIN updates'[s] = {}
      /\ \A t \in Sources \ {s} : updates'[t] = updates[t] /\ stage'[t] = stage[t]
  BY <1>1 DEF OrderInv, TypeOK, NoUpdates
<1>6. TypeOK'
  BY <1>1, <1>3, <1>5 DEF OrderInv, TypeOK, diskVars, shadowVars
<1>7. SourcesOK' /\ FoundIsHandedOver'
  BY <1>1, <1>5 DEF OrderInv, SourcesOK, FoundIsHandedOver, diskVars
<1>8. ASSUME NEW id, NEW u, BeforePending(id, u), BeforeFound(id, u)
      PROVE  BeforePending(id, u)' /\ BeforeFound(id, u)'
  BY <1>4, <1>5, <1>8 DEF BeforePending, BeforeFound
<1>9. ASSUME NEW id, NEW u, Between(id, u)
      PROVE  Between(id, u)'
  BY <1>2, <1>9 DEF Between
<1>10. QueueInOrder' /\ BatchInOrder'
  BY <1>2, <1>8, <1>9 DEF OrderInv, QueueInOrder, BatchInOrder
<1>11. PendingInOrder'
  <2> SUFFICES ASSUME NEW id \in DOMAIN pendingUpdates'
               PROVE  (Between(id, pendingUpdates[id]) /\ BeforeFound(id, pendingUpdates[id]))'
    BY DEF PendingInOrder
  <2>2. CASE id \in DOMAIN updates[s]
    <3>1. Between(id, updates[s][id])
      BY <2>2 DEF OrderInv, FoundInOrder
    <3>2. pendingUpdates'[id] = updates[s][id]
      BY <1>4, <2>2
    <3>3. \A t \in Sources : id \notin DOMAIN updates'[t]
      BY <1>5, <2>2 DEF FoundOnce
    <3> QED
      BY <1>2, <3>1, <3>2, <3>3 DEF Between, BeforeFound
  <2>3. CASE id \notin DOMAIN updates[s]
    <3>1. pendingUpdates'[id] = pendingUpdates[id] /\ id \in DOMAIN pendingUpdates
      BY <1>4, <2>3
    <3>2. Between(id, pendingUpdates[id]) /\ BeforeFound(id, pendingUpdates[id])
      BY <3>1 DEF OrderInv, PendingInOrder
    <3> QED
      BY <1>2, <1>5, <3>1, <3>2 DEF Between, BeforeFound
  <2> QED
    BY <2>2, <2>3
<1>12. FoundInOrder'
  BY <1>2, <1>5 DEF OrderInv, FoundInOrder, Between
<1> QED
  BY <1>3, <1>6, <1>7, <1>10, <1>11, <1>12 DEF OrderInv

LEMMA TakeStep ==
  ASSUME OrderInv, TakeBatch
  PROVE  OrderInv'
<1>1. /\ batch = <<>>
      /\ batch' = [i \in DOMAIN pendingOrder |-> Item(pendingOrder[i])]
      /\ pendingOrder' = <<>> /\ DOMAIN pendingUpdates' = {}
      /\ UNCHANGED <<diskVars, shadowVars, sourceVars, queue, applied>>
  BY DEF TakeBatch, NoUpdates
<1>2. UNCHANGED <<scenario, updates, stage, scanned, published, queue, applied>>
  BY <1>1 DEF diskVars, shadowVars, sourceVars
<1>3. /\ pendingOrder \in Seq(Ids)
      /\ \A i \in DOMAIN pendingOrder : pendingOrder[i] \in DOMAIN pendingUpdates
      /\ \A i, j \in DOMAIN pendingOrder : i # j => pendingOrder[i] # pendingOrder[j]
  BY DEF OrderInv, TypeOK, OrderOK
<1>4. \A id \in DOMAIN pendingUpdates : id \in Ids /\ pendingUpdates[id] \in Update
  BY DEF OrderInv, TypeOK
<1>5. /\ DOMAIN batch' = DOMAIN pendingOrder
      /\ \A i \in DOMAIN pendingOrder :
           /\ batch'[i].id = pendingOrder[i]
           /\ batch'[i].auth = pendingUpdates[pendingOrder[i]].auth
           /\ batch'[i].stamp = pendingUpdates[pendingOrder[i]].stamp
  BY <1>1 DEF Item
<1>6. batch' \in Seq(QueueItem)
  <2>1. \A i \in DOMAIN pendingOrder : Item(pendingOrder[i]) \in QueueItem
    BY <1>3, <1>4 DEF Item, QueueItem, Update
  <2>2. DOMAIN pendingOrder = 1..Len(pendingOrder) /\ Len(pendingOrder) \in Nat
    BY <1>3
  <2> HIDE DEF Item
  <2> QED
    BY <1>1, <2>1, <2>2
<1>7. TypeOK'
  <2>1. batch' \in Seq([id : Ids, auth : Nat, stamp : Nat])
    BY <1>6 DEF QueueItem
  <2> QED
    BY <1>1, <2>1 DEF OrderInv, TypeOK, diskVars, shadowVars, sourceVars
<1>8. SourcesOK' /\ FoundIsHandedOver' /\ OrderOK'
  BY <1>1, <1>2 DEF OrderInv, SourcesOK, FoundIsHandedOver, OrderOK
<1>9. PendingInOrder' /\ FoundInOrder'
  BY <1>1, <1>2 DEF OrderInv, PendingInOrder, FoundInOrder, Between
<1>10. ASSUME NEW id, NEW u
       PROVE  /\ Between(id, u) => Between(id, u)'
              /\ BeforeFound(id, u) => BeforeFound(id, u)'
              /\ BeforePending(id, u)'
  BY <1>1, <1>2 DEF Between, BeforeFound, BeforePending
<1>11. QueueInOrder'
  BY <1>2, <1>10 DEF OrderInv, QueueInOrder
<1>12. BatchInOrder'
  <2>1. ASSUME NEW i \in DOMAIN batch'
        PROVE  /\ Between(batch[i].id, batch[i])' /\ BeforePending(batch[i].id, batch[i])'
               /\ BeforeFound(batch[i].id, batch[i])'
    <3>1. pendingOrder[i] \in DOMAIN pendingUpdates /\ i \in DOMAIN pendingOrder
      BY <1>3, <1>5
    <3>2. /\ Between(pendingOrder[i], pendingUpdates[pendingOrder[i]])
          /\ BeforeFound(pendingOrder[i], pendingUpdates[pendingOrder[i]])
      BY <3>1 DEF OrderInv, PendingInOrder
    <3> QED
      BY <1>1, <1>2, <1>5, <3>1, <3>2 DEF Between, BeforeFound, BeforePending
  <2>2. \A i, j \in DOMAIN batch' : i # j => batch'[i].id # batch'[j].id
    BY <1>3, <1>5
  <2>3. ASSUME NEW i \in DOMAIN queue, NEW j \in DOMAIN batch', queue[i].id = batch'[j].id
        PROVE  queue[i].stamp < batch'[j].stamp
    <3>1. /\ batch'[j].id \in DOMAIN pendingUpdates
          /\ batch'[j].stamp = pendingUpdates[batch'[j].id].stamp
      BY <1>3, <1>5
    <3>2. BeforePending(queue[i].id, queue[i])
      BY DEF OrderInv, QueueInOrder
    <3> QED
      BY <2>3, <3>1, <3>2 DEF BeforePending
  <2> QED
    BY <1>2, <2>1, <2>2, <2>3 DEF BatchInOrder
<1> QED
  BY <1>7, <1>8, <1>9, <1>11, <1>12 DEF OrderInv

LEMMA Appended ==
  ASSUME NEW S, NEW q \in Seq(S), NEW e \in S
  PROVE  /\ Append(q, e) \in Seq(S)
         /\ DOMAIN Append(q, e) = DOMAIN q \union {Len(q) + 1}
         /\ Len(Append(q, e)) = Len(q) + 1 /\ Len(q) \in Nat
         /\ Append(q, e)[Len(q) + 1] = e
         /\ \A i \in DOMAIN q : Append(q, e)[i] = q[i] /\ i < Len(q) + 1 /\ i \in Nat
OBVIOUS

LEMMA SendStep ==
  ASSUME OrderInv, SendNext
  PROVE  OrderInv'
<1>1. /\ batch # <<>> /\ Len(queue) < QueueCap
      /\ queue' = Append(queue, Head(batch)) /\ batch' = Tail(batch)
      /\ UNCHANGED <<diskVars, shadowVars, sourceVars, pendingVars, applied>>
  BY DEF SendNext
<1>2. UNCHANGED <<scenario, updates, stage, scanned, published, pendingOrder,
                  pendingUpdates, applied>>
  BY <1>1 DEF diskVars, shadowVars, sourceVars, pendingVars
<1>3. queue \in Seq(QueueItem) /\ batch \in Seq(QueueItem)
  BY DEF OrderInv, TypeOK, QueueItem
<1>4. /\ Head(batch) = batch[1] /\ 1 \in DOMAIN batch /\ Head(batch) \in QueueItem
      /\ batch' \in Seq(QueueItem)
      /\ \A i \in DOMAIN batch' : i + 1 \in DOMAIN batch /\ batch'[i] = batch[i + 1]
  BY ONLY <1>1, <1>3, HeadTail
<1>5. /\ queue' \in Seq(QueueItem)
      /\ DOMAIN queue' = DOMAIN queue \union {Len(queue) + 1}
      /\ Len(queue') = Len(queue) + 1 /\ Len(queue) \in Nat
      /\ queue'[Len(queue) + 1] = batch[1]
      /\ \A i \in DOMAIN queue : queue'[i] = queue[i] /\ i < Len(queue) + 1 /\ i \in Nat
  BY ONLY <1>1, <1>3, <1>4, Appended
<1>6. TypeOK'
  <2>1. /\ queue' \in Seq([id : Ids, auth : Nat, stamp : Nat])
        /\ batch' \in Seq([id : Ids, auth : Nat, stamp : Nat])
    BY <1>4, <1>5 DEF QueueItem
  <2>2. Len(queue') <= QueueCap
    BY <1>1, <1>5, DispatchAssumption
  <2> QED
    BY <1>1, <2>1, <2>2 DEF OrderInv, TypeOK, diskVars, shadowVars, sourceVars, pendingVars
<1>7. SourcesOK' /\ FoundIsHandedOver' /\ OrderOK' /\ PendingInOrder' /\ FoundInOrder'
  BY <1>2 DEF OrderInv, SourcesOK, FoundIsHandedOver, OrderOK, PendingInOrder, FoundInOrder,
              Between, BeforeFound
<1>8. /\ \A i \in DOMAIN queue : /\ Between(queue[i].id, queue[i])
                                 /\ BeforePending(queue[i].id, queue[i])
                                 /\ BeforeFound(queue[i].id, queue[i])
      /\ \A i, j \in DOMAIN queue : i < j /\ queue[i].id = queue[j].id => queue[i].stamp < queue[j].stamp
  BY DEF OrderInv, QueueInOrder
<1>9. \A i \in DOMAIN batch : /\ Between(batch[i].id, batch[i])
                              /\ BeforePending(batch[i].id, batch[i])
                              /\ BeforeFound(batch[i].id, batch[i])
  BY DEF OrderInv, BatchInOrder
<1>10. /\ \A i, j \in DOMAIN batch : i # j => batch[i].id # batch[j].id
       /\ \A i \in DOMAIN queue, j \in DOMAIN batch :
            queue[i].id = batch[j].id => queue[i].stamp < batch[j].stamp
  BY DEF OrderInv, BatchInOrder
<1>11. QueueInOrder'
  <2>1. ASSUME NEW i \in DOMAIN queue'
        PROVE  /\ Between(queue[i].id, queue[i])' /\ BeforePending(queue[i].id, queue[i])'
               /\ BeforeFound(queue[i].id, queue[i])'
    <3>1. \/ \E j \in DOMAIN queue : queue'[i] = queue[j]
          \/ \E j \in DOMAIN batch : queue'[i] = batch[j]
      BY <1>4, <1>5
    <3>2. /\ Between(queue'[i].id, queue'[i]) /\ BeforePending(queue'[i].id, queue'[i])
          /\ BeforeFound(queue'[i].id, queue'[i])
      BY <1>8, <1>9, <3>1
    <3> QED
      BY <1>2, <3>2 DEF Between, BeforePending, BeforeFound
  <2>2. ASSUME NEW i \in DOMAIN queue', NEW j \in DOMAIN queue', i < j,
               queue'[i].id = queue'[j].id
        PROVE  queue'[i].stamp < queue'[j].stamp
    <3>1. i \in DOMAIN queue
      BY <1>5, <2>2
    <3>2. CASE j \in DOMAIN queue
      BY <1>5, <1>8, <2>2, <3>1, <3>2
    <3>3. CASE j = Len(queue) + 1
      BY <1>4, <1>5, <1>10, <2>2, <3>1, <3>3
    <3> QED
      BY <1>5, <3>2, <3>3
  <2> QED
    BY <2>1, <2>2 DEF QueueInOrder
<1>12. BatchInOrder'
  <2>1. ASSUME NEW i \in DOMAIN batch'
        PROVE  /\ Between(batch[i].id, batch[i])' /\ BeforePending(batch[i].id, batch[i])'
               /\ BeforeFound(batch[i].id, batch[i])'
    <3>1. /\ Between(batch'[i].id, batch'[i]) /\ BeforePending(batch'[i].id, batch'[i])
          /\ BeforeFound(batch'[i].id, batch'[i])
      BY <1>4, <1>9
    <3> QED
      BY <1>2, <3>1 DEF Between, BeforePending, BeforeFound
  <2>2. \A i \in DOMAIN batch' : i \in Nat \ {0}
    BY <1>4
  <2>3. \A i, j \in DOMAIN batch' : i # j => batch'[i].id # batch'[j].id
    BY <1>4, <1>10, <2>2
  <2>4. ASSUME NEW i \in DOMAIN queue', NEW j \in DOMAIN batch', queue'[i].id = batch'[j].id
        PROVE  queue'[i].stamp < batch'[j].stamp
    <3>1. j + 1 \in DOMAIN batch /\ j + 1 # 1 /\ batch'[j] = batch[j + 1]
      BY <1>4, <2>2
    <3>2. CASE i \in DOMAIN queue
      BY <1>5, <1>10, <2>4, <3>1, <3>2
    <3>3. CASE i = Len(queue) + 1
      BY <1>4, <1>5, <1>10, <2>4, <3>1, <3>3
    <3> QED
      BY <1>5, <3>2, <3>3
  <2> QED
    BY <2>1, <2>3, <2>4 DEF BatchInOrder
<1> QED
  BY <1>6, <1>7, <1>11, <1>12 DEF OrderInv

\* Between, once something newer was applied.
StillBetween(id, u) ==
  /\ applied'[id].stamp < u.stamp
  /\ u.stamp <= published[id].stamp
  /\ u.stamp = published[id].stamp => u.auth = published[id].auth

\* What the service applies is newer than what it had, and older than all
\* that is still on its way.
LEMMA ConsumeStep ==
  ASSUME OrderInv, Consume
  PROVE  /\ OrderInv'
         /\ \E id \in Ids : Values!Deliver(id)
         /\ \A id \in Ids : applied'[id] # applied[id] => applied'[id].stamp > applied[id].stamp
<1> DEFINE item == queue[1]
<1>1. /\ queue # <<>> /\ queue' = Tail(queue)
      /\ applied' = [applied EXCEPT ![Head(queue).id] =
                       [auth |-> Head(queue).auth, stamp |-> Head(queue).stamp]]
      /\ UNCHANGED <<diskVars, shadowVars, sourceVars, pendingVars, batch>>
  BY DEF Consume
<1>2. UNCHANGED <<scenario, updates, stage, scanned, published, pendingOrder,
                  pendingUpdates, batch>>
  BY <1>1 DEF diskVars, shadowVars, sourceVars, pendingVars
<1>3. queue \in Seq(QueueItem) /\ Len(queue) <= QueueCap
  BY DEF OrderInv, TypeOK, QueueItem
<1>4. /\ Head(queue) = item /\ 1 \in DOMAIN queue /\ item \in QueueItem
      /\ queue' \in Seq(QueueItem) /\ Len(queue') <= Len(queue)
      /\ \A i \in DOMAIN queue' : i + 1 \in DOMAIN queue /\ queue'[i] = queue[i + 1]
  BY ONLY <1>1, <1>3, HeadTail
<1>5. /\ item.id \in Ids /\ item.auth \in Nat /\ item.stamp \in Nat
      /\ [auth |-> item.auth, stamp |-> item.stamp] \in Update
  BY <1>4 DEF QueueItem, Update
<1> HIDE DEF item
<1>6. /\ applied \in [Ids -> Update] /\ published \in [Ids -> Update]
  BY DEF OrderInv, TypeOK
<1>7. /\ applied' \in [Ids -> Update]
      /\ applied'[item.id] = [auth |-> item.auth, stamp |-> item.stamp]
      /\ \A id \in Ids \ {item.id} : applied'[id] = applied[id]
  BY <1>1, <1>4, <1>5, <1>6
<1>8. TypeOK'
  <2>1. queue' \in Seq([id : Ids, auth : Nat, stamp : Nat])
    BY <1>4 DEF QueueItem
  <2>2. Len(queue') <= QueueCap
    <3>1. Len(queue') \in Nat /\ Len(queue) \in Nat /\ QueueCap \in Nat
      BY <1>3, <1>4, DispatchAssumption
    <3> QED
      BY ONLY <1>3, <1>4, <3>1
  <2> QED
    BY <1>1, <1>7, <2>1, <2>2 DEF OrderInv, TypeOK, diskVars, shadowVars, sourceVars, pendingVars
<1>9. SourcesOK' /\ FoundIsHandedOver' /\ OrderOK'
  BY <1>2 DEF OrderInv, SourcesOK, FoundIsHandedOver, OrderOK
<1>10. /\ Between(item.id, item) /\ BeforePending(item.id, item) /\ BeforeFound(item.id, item)
       /\ \A j \in DOMAIN queue : 1 < j /\ queue[j].id = item.id => item.stamp < queue[j].stamp
       /\ \A j \in DOMAIN batch : batch[j].id = item.id => item.stamp < batch[j].stamp
  BY <1>4 DEF OrderInv, QueueInOrder, BatchInOrder, item
<1>11. ASSUME NEW id \in Ids, NEW u, Between(id, u), id = item.id => item.stamp < u.stamp
       PROVE  StillBetween(id, u)
  <2>1. CASE id = item.id
    BY <1>7, <1>11, <2>1 DEF Between, StillBetween
  <2>2. CASE id # item.id
    BY <1>7, <1>11, <2>2 DEF Between, StillBetween
  <2> QED
    BY <2>1, <2>2
<1>12. ASSUME NEW id \in Ids, NEW u, StillBetween(id, u), BeforePending(id, u),
              BeforeFound(id, u)
       PROVE  /\ applied'[id].stamp < u.stamp /\ u.stamp <= published'[id].stamp
              /\ u.stamp = published'[id].stamp => u.auth = published'[id].auth
              /\ id \in DOMAIN pendingUpdates' => u.stamp < pendingUpdates'[id].stamp
              /\ \A s \in Sources : id \in DOMAIN updates'[s] => u.stamp < updates'[s][id].stamp
  BY <1>2, <1>12 DEF StillBetween, BeforePending, BeforeFound
<1>13. /\ \A i \in DOMAIN queue : queue[i].id \in Ids
       /\ \A i \in DOMAIN batch : batch[i].id \in Ids
       /\ \A id \in DOMAIN pendingUpdates : id \in Ids
  BY OnTheWayOK DEF OrderInv
<1>14. QueueInOrder'
  <2>1. \A i \in DOMAIN queue' : i \in Nat \ {0}
    BY <1>4
  <2>2. ASSUME NEW i \in DOMAIN queue'
        PROVE  /\ Between(queue[i].id, queue[i])' /\ BeforePending(queue[i].id, queue[i])'
               /\ BeforeFound(queue[i].id, queue[i])'
    <3>1. i + 1 \in DOMAIN queue /\ 1 < i + 1 /\ queue'[i] = queue[i + 1]
      BY <1>4, <2>1
    <3>2. /\ Between(queue[i + 1].id, queue[i + 1]) /\ BeforePending(queue[i + 1].id, queue[i + 1])
          /\ BeforeFound(queue[i + 1].id, queue[i + 1])
      BY <3>1 DEF OrderInv, QueueInOrder
    <3>3. StillBetween(queue[i + 1].id, queue[i + 1])
      BY <1>10, <1>11, <1>13, <3>1, <3>2
    <3>4. queue[i + 1].id \in Ids
      BY <1>13, <3>1
    <3> QED
      BY <1>12, <3>1, <3>2, <3>3, <3>4 DEF Between, BeforePending, BeforeFound
  <2>3. \A i, j \in DOMAIN queue' : i < j /\ queue'[i].id = queue'[j].id => queue'[i].stamp < queue'[j].stamp
    BY <1>4, <2>1, SMTT(30) DEF OrderInv, QueueInOrder
  <2> QED
    BY <2>2, <2>3 DEF QueueInOrder
<1>15. BatchInOrder'
  <2>1. ASSUME NEW i \in DOMAIN batch
        PROVE  /\ Between(batch[i].id, batch[i])' /\ BeforePending(batch[i].id, batch[i])'
               /\ BeforeFound(batch[i].id, batch[i])'
    <3>1. /\ Between(batch[i].id, batch[i]) /\ BeforePending(batch[i].id, batch[i])
          /\ BeforeFound(batch[i].id, batch[i])
      BY DEF OrderInv, BatchInOrder
    <3>2. StillBetween(batch[i].id, batch[i]) /\ batch[i].id \in Ids
      BY <1>10, <1>11, <1>13, <3>1
    <3> QED
      BY <1>2, <1>12, <3>1, <3>2 DEF Between, BeforePending, BeforeFound
  <2>2. \A i \in DOMAIN queue', j \in DOMAIN batch :
          queue'[i].id = batch[j].id => queue'[i].stamp < batch[j].stamp
    BY <1>4 DEF OrderInv, BatchInOrder
  <2>3. \A i, j \in DOMAIN batch : i # j => batch[i].id # batch[j].id
    BY DEF OrderInv, BatchInOrder
  <2> QED
    BY <1>2, <2>1, <2>2, <2>3 DEF BatchInOrder
<1>16. PendingInOrder'
  <2>1. ASSUME NEW id \in DOMAIN pendingUpdates
        PROVE  Between(id, pendingUpdates[id])' /\ BeforeFound(id, pendingUpdates[id])'
    <3>1. /\ Between(id, pendingUpdates[id]) /\ BeforeFound(id, pendingUpdates[id])
          /\ id = item.id => item.stamp < pendingUpdates[id].stamp
      BY <1>10 DEF OrderInv, PendingInOrder, BeforePending
    <3>2. StillBetween(id, pendingUpdates[id])
      BY <1>11, <1>13, <3>1
    <3> QED
      BY <1>2, <3>1, <3>2 DEF StillBetween, Between, BeforeFound
  <2> QED
    BY <1>2, <2>1 DEF PendingInOrder
<1>17. FoundInOrder'
  <2>1. ASSUME NEW s \in Sources, NEW id \in DOMAIN updates[s]
        PROVE  Between(id, updates[s][id])'
    <3>1. Between(id, updates[s][id]) /\ id \in Ids
      BY DEF OrderInv, SourcesOK, FoundInOrder
    <3>2. id = item.id => item.stamp < updates[s][id].stamp
      BY <1>10 DEF BeforeFound
    <3>3. StillBetween(id, updates[s][id])
      BY <1>11, <3>1, <3>2
    <3> QED
      BY <1>2, <3>3 DEF StillBetween, Between
  <2>2. \A id \in Ids : applied'[id].stamp <= published'[id].stamp
    BY <1>2, <1>7, <1>10 DEF OrderInv, FoundInOrder, Between
  <2> QED
    BY <1>2, <2>1, <2>2 DEF FoundInOrder
<1>18. OrderInv'
  BY <1>8, <1>9, <1>14, <1>15, <1>16, <1>17 DEF OrderInv
<1>19. Values!Deliver(item.id)
  <2>1. /\ applied[item.id].stamp < applied'[item.id].stamp
        /\ applied'[item.id].stamp <= published[item.id].stamp
    BY <1>7, <1>10 DEF Between
  <2>2. ASSUME applied'[item.id].stamp = published[item.id].stamp
        PROVE  applied'[item.id] = published[item.id]
    <3>1. item.stamp = published[item.id].stamp /\ item.auth = published[item.id].auth
      BY <1>7, <1>10, <2>2 DEF Between
    <3>2. published[item.id] \in Update
      BY <1>5, <1>6
    <3>3. published[item.id] = [auth |-> item.auth, stamp |-> item.stamp]
      BY ONLY <3>1, <3>2 DEF Update
    <3> QED
      BY <1>7, <3>3
  <2> QED
    BY <1>2, <1>7, <2>1, <2>2 DEF Values!Deliver
<1>20. \A id \in Ids : applied'[id] # applied[id] => applied'[id].stamp > applied[id].stamp
  <2>1. applied'[item.id].stamp > applied[item.id].stamp
    <3>1. applied'[item.id].stamp \in Nat /\ applied[item.id].stamp \in Nat
      BY <1>5, <1>6, <1>7 DEF Update
    <3> QED
      BY <1>7, <1>10, <3>1 DEF Between
  <2> QED
    BY <1>7, <2>1
<1> QED
  BY <1>5, <1>18, <1>19, <1>20

-----------------------------------------------------------------------------
(* The steps together, and what they implement. *)

LEMMA StutterStep ==
  ASSUME OrderInv, UNCHANGED vars
  PROVE  OrderInv'
<1>1. UNCHANGED orderVars /\ UNCHANGED <<diskVars, shadowVars, sourceVars, dispatchVars, applied>>
  BY DEF vars, orderVars, shadowVars, sourceVars, dispatchVars
<1>2. TypeOK'
  BY <1>1 DEF OrderInv, TypeOK, diskVars, shadowVars, sourceVars, dispatchVars, pendingVars
<1>3. SourcesOK' /\ FoundIsHandedOver'
  BY <1>1 DEF OrderInv, SourcesOK, FoundIsHandedOver, diskVars, sourceVars
<1>4. InOrder' /\ OrderOK'
  BY <1>1, OrderFrame DEF OrderInv, InOrder
<1> QED
  BY <1>2, <1>3, <1>4 DEF OrderInv, InOrder

LEMMA NextStep ==
  ASSUME OrderInv, Numbered, FoundOnce, FoundOnce', [Next]_vars
  PROVE  OrderInv'
<1>1. CASE World
  BY <1>1, WorldStep
<1>2. CASE Triggers
  BY <1>2, EventStep, ReloadStep, RuntimeStep DEF Triggers
<1>3. ASSUME NEW s \in Sources, Scan(s)
      PROVE  OrderInv'
  BY <1>3, ReadStep, DiffStep DEF Scan
<1>4. ASSUME NEW s \in Sources, Dispatch(s)
      PROVE  OrderInv'
  BY <1>4, DispatchStep
<1>5. CASE Loop
  BY <1>5, TakeStep, SendStep DEF Loop
<1>6. CASE Consume
  BY <1>6, ConsumeStep
<1>7. CASE UNCHANGED vars
  BY <1>7, StutterStep
<1> QED
  BY <1>1, <1>2, <1>3, <1>4, <1>5, <1>6, <1>7 DEF Next

\* Each step publishes, delivers or leaves both values alone.
LEMMA ValueStep ==
  ASSUME OrderInv, Numbered, FoundOnce, FoundOnce', [Next]_vars
  PROVE  [Values!Next]_(Values!valueVars)
<1>1. CASE World
  BY <1>1 DEF World, WriteFile, RemoveFile, shadowVars, Values!valueVars
<1>2. CASE Triggers
  <2>1. CASE HandleEvent
    BY <2>1 DEF HandleEvent, Values!valueVars
  <2>2. CASE Reload
    BY <2>2 DEF Reload, Values!valueVars
  <2>3. CASE \E id \in Channels : RuntimeUpdate(id)
    BY <2>3, RuntimeStep DEF Values!Next
  <2> QED
    BY <1>2, <2>1, <2>2, <2>3 DEF Triggers
<1>3. ASSUME NEW s \in Sources, Scan(s)
      PROVE  [Values!Next]_(Values!valueVars)
  <2>1. CASE Diff(s)
    BY <2>1, DiffStep DEF Values!Next
  <2>2. ASSUME NEW id \in scenario.files, ReadFile(s, id)
        PROVE  UNCHANGED Values!valueVars
    BY <2>2 DEF ReadFile, shadowVars, Values!valueVars
  <2> QED
    BY <1>3, <2>1, <2>2 DEF Scan
<1>4. ASSUME NEW s \in Sources, Dispatch(s)
      PROVE  [Values!Next]_(Values!valueVars)
  BY <1>4 DEF Dispatch, shadowVars, Values!valueVars
<1>5. CASE Loop
  BY <1>5 DEF Loop, TakeBatch, SendNext, shadowVars, Values!valueVars
<1>6. CASE Consume
  BY <1>6, ConsumeStep DEF Values!Next
<1>7. CASE UNCHANGED vars
  BY <1>7 DEF vars, shadowVars, Values!valueVars
<1> QED
  BY <1>1, <1>2, <1>3, <1>4, <1>5, <1>6, <1>7 DEF Next

\* As long as no credential is handed over by two sources at once, every
\* update is on its way in order, for any number of credentials and sources at
\* work and any capacity of the queue.
THEOREM OrderKept ==
  ASSUME Numbered
  PROVE  Spec /\ []FoundOnce => []OrderInv
<1>1. Init => OrderInv
  BY OrderInit
<1>2. OrderInv /\ FoundOnce /\ FoundOnce' /\ [Next]_vars => OrderInv'
  BY NextStep
<1> QED
  BY <1>1, <1>2, PTL DEF Spec

\* The watcher and its queue then implement LatestValue: the service skips
\* what has been replaced and never goes back.
THEOREM LatestKept ==
  ASSUME Numbered
  PROVE  Spec /\ []FoundOnce => KeepsLatest
<1>1. Init => Values!Init
  BY DEF Init, Values!Init
<1>2. OrderInv /\ FoundOnce /\ FoundOnce' /\ [Next]_vars => [Values!Next]_(Values!valueVars)
  BY ValueStep
<1> QED
  BY <1>1, <1>2, OrderKept, PTL DEF Spec, KeepsLatest, Values!Spec

\* What the service applies for a credential is newer each time.
THEOREM NeverOlder ==
  ASSUME Numbered
  PROVE  Spec /\ []FoundOnce => NeverBack
<1> DEFINE Newer == \A id \in Ids : applied'[id] # applied[id] =>
                                      applied'[id].stamp > applied[id].stamp
<1>1. OrderInv /\ [Next]_vars => [Newer]_vars
  <2> SUFFICES ASSUME OrderInv, [Next]_vars PROVE Newer
    OBVIOUS
  <2>1. CASE Consume
    BY <2>1, ConsumeStep
  <2>2. CASE UNCHANGED applied
    BY <2>2
  <2>3. Consume \/ UNCHANGED applied
    BY DEF Next, World, WriteFile, RemoveFile, Triggers, HandleEvent, Reload, RuntimeUpdate,
           Scan, ReadFile, Diff, Dispatch, Loop, TakeBatch, SendNext, vars
  <2> QED
    BY <2>1, <2>2, <2>3
<1> QED
  BY <1>1, OrderKept, PTL DEF Spec, NeverBack

-----------------------------------------------------------------------------
(* When handovers never overlap. *)

OneByOne == \A sc \in Scenarios : sc.overlap # "all"

\* A source that hands over does so alone.
HandoverInv ==
  /\ scenario \in Scenarios /\ DOMAIN stage = Sources /\ DOMAIN updates = Sources
  /\ FoundIsHandedOver
  /\ \A s, t \in Sources : stage[s] = "dispatch" /\ stage[t] = "dispatch" => s = t

LEMMA HandoverStep ==
  ASSUME OneByOne, HandoverInv, [Next]_vars
  PROVE  HandoverInv'
<1> USE DEF HandoverInv, FoundIsHandedOver
<1>1. CASE UNCHANGED <<scenario, stage, updates>>
  BY <1>1
<1>2. ASSUME NEW s \in Sources, NEW to \in {"idle", "scan"}, stage[s] # "dispatch",
             Moves(s, to), UNCHANGED <<scenario, updates>>
      PROVE  HandoverInv'
  BY <1>2 DEF Moves
<1>3. ASSUME NEW s \in Sources, NEW changed, NEW value, Publish(s, changed, value),
             stage[s] # "dispatch", UNCHANGED scenario
      PROVE  HandoverInv'
  <2> DEFINE to == IF changed = {} THEN "idle" ELSE "dispatch"
  <2>1. /\ \A t \in Sources \ {s} : stage[t] # "dispatch"
        /\ stage' = [stage EXCEPT ![s] = to]
    BY <1>3 DEF Publish, MayPublish, Moves, OneByOne
  <2> DEFINE found == [id \in changed |->
                        [auth |-> value[id],
                         stamp |-> published[id].stamp + IF Numbered THEN 1 ELSE 0]]
  <2>2. updates' = [updates EXCEPT ![s] = found] /\ DOMAIN found = changed
    BY <1>3 DEF Publish
  <2> HIDE DEF to, found
  <2>3. /\ stage'[s] = to /\ DOMAIN updates'[s] = changed
        /\ \A t \in Sources \ {s} : stage'[t] = stage[t] /\ updates'[t] = updates[t]
    BY <2>1, <2>2
  <2>4. to # "dispatch" => changed = {}
    BY DEF to
  <2> QED
    BY <1>3, <2>1, <2>2, <2>3, <2>4
<1>4. CASE World
  BY <1>1, <1>4 DEF World, WriteFile, RemoveFile, sourceVars
<1>5. CASE Triggers
  <2>1. CASE HandleEvent
    BY <1>1, <1>2, <2>1 DEF HandleEvent, Idle
  <2>2. CASE Reload
    BY <1>2, <2>2 DEF Reload, Idle
  <2>3. CASE \E ch \in Channels : RuntimeUpdate(ch)
    <3>1. PICK ch \in Channels :
            Publish("gateway", {ch}, currentAuths') /\ Idle("gateway") /\ UNCHANGED scenario
      BY <2>3 DEF RuntimeUpdate
    <3> QED
      BY <1>3, <3>1 DEF Idle
  <2> QED
    BY <1>5, <2>1, <2>2, <2>3 DEF Triggers
<1>6. ASSUME NEW s \in Sources, Scan(s)
      PROVE  HandoverInv'
  <2>1. CASE Diff(s)
    BY <1>3, <2>1 DEF Diff, diskVars
  <2>2. CASE \E id \in scenario.files : ReadFile(s, id)
    BY <1>1, <2>2 DEF ReadFile, diskVars
  <2> QED
    BY <1>6, <2>1, <2>2 DEF Scan
<1>7. ASSUME NEW s \in Sources, Dispatch(s)
      PROVE  HandoverInv'
  BY <1>7 DEF Dispatch, Moves, diskVars, NoUpdates
<1>8. CASE Loop \/ Consume \/ UNCHANGED vars
  BY <1>1, <1>8 DEF Loop, TakeBatch, SendNext, Consume, vars, diskVars, sourceVars
<1> QED
  BY <1>4, <1>5, <1>6, <1>7, <1>8 DEF Next

LEMMA HandedOverOnce ==
  ASSUME OneByOne
  PROVE  Spec => []FoundOnce
<1>1. Init => HandoverInv
  BY DEF Init, HandoverInv, FoundIsHandedOver, NoUpdates
<1>2. HandoverInv /\ [Next]_vars => HandoverInv'
  BY HandoverStep
<1>3. HandoverInv => FoundOnce
  BY DEF HandoverInv, FoundIsHandedOver, FoundOnce
<1> QED
  BY <1>1, <1>2, <1>3, PTL DEF Spec

\* However many sources scan at once, if each hands over what it has found
\* before the next may compare, LatestValue is implemented.
THEOREM LatestKeptOneByOne ==
  ASSUME Numbered, OneByOne
  PROVE  Spec => KeepsLatest
BY LatestKept, HandedOverOnce, PTL

\* And the service never goes back.
THEOREM NeverOlderOneByOne ==
  ASSUME Numbered, OneByOne
  PROVE  Spec => NeverBack
BY NeverOlder, HandedOverOnce, PTL

-----------------------------------------------------------------------------
(* AuthSync. *)

\* The inductive invariant: the consumer changes the registry's clients and
\* what it has applied in one step, and nobody else touches either.
ServedInv ==
  /\ DOMAIN applied = Ids
  /\ \A id \in FileIds : id \in registered => applied[id].auth # Absent

\* What the service starts with is what is on disk.
LEMMA ServedInit == SyncInit => ServedInv
<1> SUFFICES ASSUME SyncInit PROVE ServedInv
  OBVIOUS
<1> USE DEF SyncInit, Init
<1>1. applied = [id \in Ids |-> [auth |-> currentAuths[id], stamp |-> 0]]
  OBVIOUS
<1>2. ASSUME NEW id \in FileIds, id \in registered
      PROVE  applied[id].auth # Absent
  <2>1. id \in Ids /\ file[id] # Absent
    BY <1>2 DEF Ids
  <2>2. currentAuths[id] = file[id]
    BY <2>1
  <2> QED
    BY <1>1, <2>1, <2>2
<1> QED
  BY <1>1, <1>2 DEF ServedInv

\* The consumer, the only one to change what is applied or registered.
LEMMA ServedReceive == ServedInv /\ Receive => ServedInv'
<1> SUFFICES ASSUME ServedInv, Receive PROVE ServedInv'
  OBVIOUS
<1> DEFINE got == Head(queue)
<1>1. applied' = [applied EXCEPT ![got.id] = [auth |-> got.auth, stamp |-> got.stamp]]
  BY DEF Receive, Consume
<1>2. registered' = IF got.auth = Absent THEN registered \ {got.id}
                    ELSE registered \union {got.id}
  BY DEF Receive
<1>3. DOMAIN applied' = Ids
  BY <1>1 DEF ServedInv
<1>4. ASSUME NEW id \in FileIds, id \in registered'
      PROVE  applied'[id].auth # Absent
  <2>1. id \in DOMAIN applied
    BY DEF ServedInv, Ids
  <2>2. CASE id = got.id
    <3>1. got.auth # Absent
      BY <1>2, <1>4, <2>2
    <3> QED
      BY <1>1, <2>1, <2>2, <3>1
  <2>3. CASE id # got.id
    <3>1. id \in registered
      BY <1>2, <1>4, <2>3
    <3>2. applied'[id] = applied[id]
      BY <1>1, <2>1, <2>3
    <3> QED
      BY <3>1, <3>2 DEF ServedInv
  <2> QED
    BY <2>2, <2>3
<1> QED
  BY <1>3, <1>4 DEF ServedInv

LEMMA ServedNext == ServedInv /\ [SyncNext]_allVars => ServedInv'
<1> SUFFICES ASSUME ServedInv, [SyncNext]_allVars PROVE ServedInv'
  OBVIOUS
<1>0. UNCHANGED applied /\ UNCHANGED registered => ServedInv'
  BY DEF ServedInv
<1>1. CASE Watch
  <2>1. UNCHANGED registered
    BY <1>1 DEF Watch, syncVars
  <2>2. ASSUME HandleEvent \/ Reload \/ Loop PROVE UNCHANGED applied
    BY <2>2 DEF HandleEvent, Reload, Loop, TakeBatch, SendNext
  <2>3. ASSUME NEW s \in Sources, Scan(s) \/ Dispatch(s) PROVE UNCHANGED applied
    BY <2>3 DEF Scan, ReadFile, Diff, Dispatch
  <2> QED
    BY <1>0, <1>1, <2>1, <2>2, <2>3 DEF Watch
<1>2. CASE Receive
  BY <1>2, ServedReceive
<1>3. CASE Change
  <2> PICK id \in FileIds : \/ EditFile(id) \/ Upload(id) \/ Delete(id)
                            \/ StartRefresh(id) \/ MarkResult(id)
    BY <1>3 DEF Change
  <2>1. CASE EditFile(id)
    BY <1>0, <2>1 DEF EditFile, WriteFile, RemoveFile
  <2>2. CASE Upload(id)
    BY <1>0, <2>2 DEF Upload, WriteFile
  <2>3. CASE Delete(id)
    BY <1>0, <2>3 DEF Delete, RemoveFile
  <2>4. CASE StartRefresh(id)
    BY <1>0, <2>4 DEF StartRefresh
  <2>5. CASE MarkResult(id)
    BY <1>0, <2>5 DEF MarkResult, syncVars
  <2> QED
    BY <2>1, <2>2, <2>3, <2>4, <2>5
<1>4. CASE EndRefresh
  BY <1>0, <1>4 DEF EndRefresh
<1>5. CASE \E g \in Goroutines : Works(g)
  BY <1>0, <1>5 DEF Works, Lookup, Replace, Save, vars
<1>6. CASE UNCHANGED allVars
  BY <1>0, <1>6 DEF allVars, vars, syncVars
<1> QED
  BY <1>1, <1>2, <1>3, <1>4, <1>5, <1>6 DEF SyncNext

\* A credential whose removal the service has applied does not serve until it
\* is added again, whatever a late refresh, an upload or a result does to its
\* record meanwhile (applyCoreAuthRemoval in service.go, Manager.Update).
THEOREM RemovedStaysOut == SyncSpec => []RemovedNotServed
<1>1. ServedInv => RemovedNotServed
  BY DEF ServedInv, RemovedNotServed, Serves
<1> QED
  BY ServedInit, ServedNext, <1>1, PTL DEF SyncSpec
===============================================================================
