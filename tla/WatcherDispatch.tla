--------------------------- MODULE WatcherDispatch ---------------------------
(***************************************************************************)
(* How a changed credential reaches the service: internal/watcher.  Three  *)
(* kinds of goroutines find changes, the file event loop, the reload       *)
(* behind a changed config and the websocket gateway; each compares what   *)
(* is there with the shadow snapshot under clientsMutex and hands the      *)
(* differences to the dispatcher under another lock.  The dispatcher keeps *)
(* one pending update per credential and feeds the service's queue.        *)
(*                                                                         *)
(* The content of a credential file is a number; Absent is no file.  An    *)
(* update whose auth is Absent is a delete, any other an add or a modify,  *)
(* which the service treats alike.                                         *)
(***************************************************************************)
EXTENDS Naturals, FiniteSets, Sequences, SequencesExt

CONSTANTS
  FileIds,    \* credentials kept in files
  Channels,   \* credentials of websocket providers
  QueueCap,   \* capacity of the service's queue, 256 in the code
  Scenarios,  \* what the world does in a behaviour, see Scenario
  Sources,    \* the kinds of goroutines at work
  Numbered    \* number the updates found (history only, never read)

Ids == FileIds \union Channels

\* edits bounds the changes of files, config and connections; overlap is what
\* two sources may do at once; rewrites tells whether a file may get a content
\* it had before; the excluded models of the droppable credentials may change.
Scenario == [edits : Nat, overlap : {"none", "scans", "all"}, rewrites : BOOLEAN,
             files : SUBSET FileIds, droppable : SUBSET FileIds]

ASSUME DispatchAssumption ==
  /\ FileIds \intersect Channels = {}
  /\ IsFiniteSet(FileIds) /\ IsFiniteSet(Channels)
  /\ QueueCap \in Nat \ {0}
  /\ Scenarios \subseteq Scenario
  /\ Sources \subseteq {"events", "reload", "gateway"}
  /\ Numbered \in BOOLEAN

Absent == 0
Update == [auth : Nat, stamp : Nat]

VARIABLES
  scenario,   \* the member of Scenarios this behaviour belongs to
  file,       \* the credential files on disk
  events,     \* file events not yet read
  connected,  \* the gateway's connections, as runtimeAuths has them
  edits,      \* the changes made so far
  lastAuthHashes, currentAuths,   \* under clientsMutex
  stage,      \* what each source is doing
  scanned,    \* the files its scan has read
  updates,    \* the differences it found
  pendingOrder, pendingUpdates,   \* under dispatchMu
  batch,      \* what the dispatch loop is sending
  queue,      \* the service's channel
  published,  \* history: the last update found for each credential
  applied     \* the last update the service applied

diskVars == <<file, events, connected, edits, scenario>>
shadowVars == <<lastAuthHashes, currentAuths, published>>
sourceVars == <<stage, scanned, updates>>
pendingVars == <<pendingOrder, pendingUpdates>>
dispatchVars == <<pendingVars, batch, queue>>
vars == <<diskVars, shadowVars, sourceVars, dispatchVars, applied>>

NoUpdates == [id \in {} |-> [auth |-> Absent, stamp |-> 0]]
NothingThere == [id \in Ids |-> Absent]
NothingRead == [id \in {} |-> Absent]

\* The initial reload of Start is over: the service knows every file.
Init ==
  /\ scenario \in Scenarios
  /\ file \in [FileIds -> {Absent, 1}]
  /\ \A id \in FileIds \ scenario.files : file[id] = Absent
  /\ events = <<>>
  /\ connected = [id \in Channels |-> Absent]
  /\ edits = 1
  /\ lastAuthHashes = file
  /\ currentAuths = [id \in Ids |-> IF id \in FileIds THEN file[id] ELSE Absent]
  /\ stage = [s \in Sources |-> "idle"]
  /\ scanned = [s \in Sources |-> NothingRead]
  /\ updates = [s \in Sources |-> NoUpdates]
  /\ pendingOrder = <<>> /\ pendingUpdates = NoUpdates
  /\ batch = <<>> /\ queue = <<>>
  /\ published = [id \in Ids |-> [auth |-> currentAuths[id], stamp |-> 0]]
  /\ applied = published

-----------------------------------------------------------------------------
(* The world: whoever writes and removes files, and the kernel's events. *)

\* A file event, with what the event says happened.
Event(id, op) == events' = Append(events, [id |-> id, op |-> op])

WriteFile(id) ==
  /\ edits < scenario.edits
  /\ \E content \in IF scenario.rewrites THEN 1..edits + 1 ELSE {edits + 1} :
       file' = [file EXCEPT ![id] = content]
  /\ Event(id, "write")
  /\ edits' = edits + 1
  /\ UNCHANGED <<connected, scenario, shadowVars, sourceVars, dispatchVars, applied>>

RemoveFile(id) ==
  /\ edits < scenario.edits
  /\ file[id] # Absent
  /\ file' = [file EXCEPT ![id] = Absent]
  /\ Event(id, "remove")
  /\ edits' = edits + 1
  /\ UNCHANGED <<connected, scenario, shadowVars, sourceVars, dispatchVars, applied>>

-----------------------------------------------------------------------------
(* The sources. *)

Moves(s, to) == stage' = [stage EXCEPT ![s] = to]

\* Two sources rarely work at once: a scan takes milliseconds, a handover much
\* less.  What the other sources may be doing when s starts and publishes:
Idle(s) ==
  /\ s \in Sources
  /\ stage[s] = "idle"
  /\ scenario.overlap = "none" => \A t \in Sources : stage[t] = "idle"
MayPublish(s) ==
  scenario.overlap # "all" => \A t \in Sources \ {s} : stage[t] # "dispatch"

\* Mutant: a file that is known counts as unchanged.
MutUnchanged(id) == file[id] # Absent /\ lastAuthHashes[id] # Absent

\* authFileUnchanged, and the same test under the lock in addOrUpdateClient.
Unchanged(id) == file[id] # Absent /\ lastAuthHashes[id] = file[id]

\* A write whose file is gone again, and a remove of an unknown file.
Ignored(event) ==
  /\ file[event.id] = Absent
  /\ event.op = "write" \/ lastAuthHashes[event.id] = Absent

\* handleEvent: a remove is answered by what the disk says by now, so that a
\* replaced file counts as written (addOrUpdateClient, removeClient).
HandleEvent ==
  /\ Idle("events")
  /\ events # <<>>
  /\ events' = Tail(events)
  /\ LET event == Head(events) IN
       IF Unchanged(event.id) \/ Ignored(event)
       THEN UNCHANGED <<lastAuthHashes, stage>>
       ELSE /\ lastAuthHashes' = [lastAuthHashes EXCEPT ![event.id] = file[event.id]]
            /\ Moves("events", "scan")
  /\ UNCHANGED <<file, connected, edits, scenario, currentAuths, published, scanned,
                 updates, dispatchVars, applied>>

\* The config changed: reloadClients forgets the credentials whose excluded
\* models changed, so that the scan finds them new and updates them.
Reload ==
  /\ Idle("reload")
  /\ edits < scenario.edits
  /\ edits' = edits + 1
  /\ \E affected \in SUBSET scenario.droppable :
       currentAuths' = [id \in Ids |-> IF id \in affected THEN Absent
                                       ELSE currentAuths[id]]
  /\ Moves("reload", "scan")
  /\ UNCHANGED <<file, events, connected, scenario, lastAuthHashes, published, scanned,
                 updates, dispatchVars, applied>>

\* SnapshotCoreAuths reads file by file, without the lock.
ReadFile(s, id) ==
  /\ stage[s] = "scan"
  /\ id \notin DOMAIN scanned[s]
  /\ scanned' = [scanned EXCEPT ![s] =
       [i \in DOMAIN @ \union {id} |-> IF i = id THEN file[id] ELSE scanned[s][i]]]
  /\ UNCHANGED <<diskVars, shadowVars, stage, updates, dispatchVars, applied>>

\* The credentials of changed get their new value: found under the lock, to be
\* dispatched after it.
Publish(s, changed, value) ==
  LET found == [id \in changed |->
                  [auth |-> value[id],
                   stamp |-> published[id].stamp + IF Numbered THEN 1 ELSE 0]]
  IN /\ MayPublish(s)
     /\ published' = [id \in Ids |-> IF id \in changed THEN found[id] ELSE published[id]]
     /\ updates' = [updates EXCEPT ![s] = found]
     /\ Moves(s, IF changed = {} THEN "idle" ELSE "dispatch")

\* Mutant: the scan forgets the websocket providers.
MutDiffFilesOnly(s) ==
  /\ stage[s] = "scan"
  /\ DOMAIN scanned[s] = scenario.files
  /\ LET found == scanned[s] @@ NothingThere
         changed == {id \in Ids : found[id] # currentAuths[id]}
     IN /\ Publish(s, changed, found)
        /\ currentAuths' = found
  /\ scanned' = [scanned EXCEPT ![s] = NothingRead]
  /\ UNCHANGED <<diskVars, lastAuthHashes, dispatchVars, applied>>

\* refreshAuthState and prepareAuthUpdatesLocked.
Diff(s) ==
  /\ stage[s] = "scan"
  /\ DOMAIN scanned[s] = scenario.files
  /\ LET found == [id \in Ids |-> IF id \in Channels THEN connected[id]
                                  ELSE IF id \in scenario.files THEN scanned[s][id]
                                  ELSE Absent]
         changed == {id \in Ids : found[id] # currentAuths[id]}
     IN /\ Publish(s, changed, found)
        /\ currentAuths' = found
  /\ scanned' = [scanned EXCEPT ![s] = NothingRead]
  /\ UNCHANGED <<diskVars, lastAuthHashes, dispatchVars, applied>>

\* DispatchRuntimeAuthUpdate: a websocket provider connects or disconnects.
RuntimeUpdate(id) ==
  /\ Idle("gateway")
  /\ edits < scenario.edits
  /\ edits' = edits + 1
  /\ \E auth \in {Absent, 1} :
       /\ connected' = [connected EXCEPT ![id] = auth]
       /\ currentAuths' = [currentAuths EXCEPT ![id] = auth]
       /\ Publish("gateway", {id}, currentAuths')
  /\ UNCHANGED <<file, events, scenario, lastAuthHashes, scanned, dispatchVars, applied>>

-----------------------------------------------------------------------------
(* The dispatcher. *)

\* The updates of one scan come in the order of a map, the deletes last.
DeletesLast(order, found) ==
  \A i, j \in DOMAIN order :
    i < j /\ found[order[i]].auth = Absent => found[order[j]].auth = Absent

\* dispatchAuthUpdates: a newer update takes the place of a pending one.
Merge(found) ==
  /\ \E new \in SetToSeqs(DOMAIN found \ DOMAIN pendingUpdates) :
       DeletesLast(new, found) /\ pendingOrder' = pendingOrder \o new
  /\ pendingUpdates' = [id \in DOMAIN found \union DOMAIN pendingUpdates |->
                         IF id \in DOMAIN found THEN found[id] ELSE pendingUpdates[id]]

\* Mutant: an update goes straight to a queue that has room.
MutDispatchDirect(s) ==
  /\ stage[s] = "dispatch"
  /\ \E id \in DOMAIN updates[s] :
       IF Len(queue) < QueueCap /\ DOMAIN updates[s] = {id}
       THEN /\ queue' = Append(queue, [id |-> id, auth |-> updates[s][id].auth,
                                       stamp |-> updates[s][id].stamp])
            /\ UNCHANGED pendingVars
       ELSE Merge(updates[s]) /\ UNCHANGED queue
  /\ updates' = [updates EXCEPT ![s] = NoUpdates]
  /\ Moves(s, "idle")
  /\ UNCHANGED <<diskVars, shadowVars, scanned, batch, applied>>

Dispatch(s) ==
  /\ stage[s] = "dispatch"
  /\ Merge(updates[s])
  /\ updates' = [updates EXCEPT ![s] = NoUpdates]
  /\ Moves(s, "idle")
  /\ UNCHANGED <<diskVars, shadowVars, scanned, batch, queue, applied>>

\* Mutant: what is sent is what the snapshot says by now.
MutItemLate(id) == [id |-> id, auth |-> currentAuths[id],
                    stamp |-> pendingUpdates[id].stamp]

Item(id) == [id |-> id, auth |-> pendingUpdates[id].auth,
             stamp |-> pendingUpdates[id].stamp]

\* nextPendingBatch.
TakeBatch ==
  /\ batch = <<>>
  /\ pendingOrder # <<>>
  /\ batch' = [i \in DOMAIN pendingOrder |-> Item(pendingOrder[i])]
  /\ pendingOrder' = <<>> /\ pendingUpdates' = NoUpdates
  /\ UNCHANGED <<diskVars, shadowVars, sourceVars, queue, applied>>

\* Mutant: once there is room, the whole batch is sent.
MutSendNextAll ==
  /\ batch # <<>>
  /\ Len(queue) < QueueCap
  /\ queue' = queue \o batch
  /\ batch' = <<>>
  /\ UNCHANGED <<diskVars, shadowVars, sourceVars, pendingVars, applied>>

\* dispatchLoop: the send blocks while the queue is full.
SendNext ==
  /\ batch # <<>>
  /\ Len(queue) < QueueCap
  /\ queue' = Append(queue, Head(batch))
  /\ batch' = Tail(batch)
  /\ UNCHANGED <<diskVars, shadowVars, sourceVars, pendingVars, applied>>

\* consumeAuthUpdates, with handleAuthUpdate as one step.
Consume ==
  /\ queue # <<>>
  /\ queue' = Tail(queue)
  /\ applied' = [applied EXCEPT ![Head(queue).id] =
                   [auth |-> Head(queue).auth, stamp |-> Head(queue).stamp]]
  /\ UNCHANGED <<diskVars, shadowVars, sourceVars, pendingVars, batch>>

-----------------------------------------------------------------------------
World == \E id \in scenario.files : WriteFile(id) \/ RemoveFile(id)

Scan(s) == (\E id \in scenario.files : ReadFile(s, id)) \/ Diff(s)

Triggers == HandleEvent \/ Reload \/ \E id \in Channels : RuntimeUpdate(id)

Loop == TakeBatch \/ SendNext

Next ==
  \/ World \/ Triggers
  \/ \E s \in Sources : Scan(s) \/ Dispatch(s)
  \/ Loop \/ Consume

Spec == Init /\ [][Next]_vars

\* Goroutines that can run are scheduled some day; the world owes nothing.
FairSpec ==
  /\ Spec
  /\ WF_vars(HandleEvent)
  /\ \A s \in Sources : WF_vars(Scan(s)) /\ WF_vars(Dispatch(s))
  /\ WF_vars(Loop) /\ WF_vars(Consume)

-----------------------------------------------------------------------------
(* Properties. *)

TypeOK ==
  /\ file \in [FileIds -> Nat] /\ lastAuthHashes \in [FileIds -> Nat]
  /\ connected \in [Channels -> Nat] /\ currentAuths \in [Ids -> Nat]
  /\ events \in Seq([id : FileIds, op : {"write", "remove"}])
  /\ edits \in Nat
  /\ stage \in [Sources -> {"idle", "scan", "dispatch"}]
  /\ DOMAIN scanned = Sources /\ DOMAIN updates = Sources
  /\ published \in [Ids -> Update] /\ applied \in [Ids -> Update]
  /\ pendingOrder \in Seq(Ids)
  /\ \A id \in DOMAIN pendingUpdates : id \in Ids /\ pendingUpdates[id] \in Update
  /\ batch \in Seq([id : Ids, auth : Nat, stamp : Nat])
  /\ queue \in Seq([id : Ids, auth : Nat, stamp : Nat])
  /\ Len(queue) <= QueueCap

\* Everything on its way to the service, the oldest first.
OnTheWay == queue \o batch

Finding(id) == {s \in Sources : id \in DOMAIN updates[s]}

Strip(item) == [auth |-> item.auth, stamp |-> item.stamp]

\* The update of a credential that the service will be the last to apply.
LastToApply(id) ==
  LET sent == {i \in DOMAIN OnTheWay : OnTheWay[i].id = id}
  IN IF Finding(id) # {} THEN updates[CHOOSE s \in Finding(id) : TRUE][id]
     ELSE IF id \in DOMAIN pendingUpdates THEN pendingUpdates[id]
     ELSE IF sent # {} THEN Strip(OnTheWay[CHOOSE i \in sent : \A j \in sent : j <= i])
     ELSE applied[id]

\* However the updates are merged and delayed, what the service applies last
\* is the last change the watcher found.
LastIsLatest == \A id \in Ids : LastToApply(id) = published[id]

\* The service never replaces what it applied by something older.
NeverBack ==
  [][\A id \in Ids : applied'[id] # applied[id] =>
        applied'[id].stamp > applied[id].stamp]_vars

\* The watcher and its queue implement LatestValue.
Values == INSTANCE LatestValue WITH latest <- published, seen <- applied
KeepsLatest == Values!Spec

Truth(id) == IF id \in FileIds THEN file[id] ELSE connected[id]

\* Where no two sources work at once, a credential file that stays is applied
\* with its last content.
WritesArrive ==
  scenario.overlap = "none" =>
  \A id \in FileIds :
    <>[](file[id] # Absent) => <>[](applied[id].auth = file[id])

\* ... and a websocket provider is known to the service as long as it is
\* connected.
ConnectionsArrive ==
  scenario.overlap = "none" =>
  \A id \in Channels : <>[](applied[id].auth = connected[id])

\* "the latest state is eventually applied" (docs/sdk-watcher.md): once the
\* files stay as they are, the service has them as they are.
Converges == <>[](\A id \in Ids : applied[id].auth = Truth(id))
=============================================================================
