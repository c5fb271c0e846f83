------------------------------- MODULE AuthSync -------------------------------
(***************************************************************************)
(* Where a credential lives: in its file, in the manager's record and, if  *)
(* it may serve, in the model registry.  WatcherDispatch carries what      *)
(* changes on disk to the service; here the service applies it, and        *)
(* everything that changes a record also writes the file:                  *)
(*   consumer   applies the updates (sdk/cliproxy/service.go)              *)
(*   operator   uploads and deletes over the management API                *)
(*   refresher  replaces a token before it expires (auth/manager.go)       *)
(*   MarkResult, behind every request, saves the record it touched         *)
(* Manager.Update replaces a record under the lock and saves it after, so  *)
(* the first three take two steps, Replace and Save.                        *)
(***************************************************************************)
EXTENDS WatcherDispatch

CONSTANT Calm   \* does the world wait until a change has gone through

ASSUME SyncAssumption == Calm \in BOOLEAN

VARIABLES
  record,      \* the manager's records; content Absent: none
  registered,  \* the credentials whose models the registry has
  held,        \* what each goroutine is doing, and the record in its hands
  wanted       \* history: what operator and refresh last made of the file

syncVars == <<record, registered, held, wanted>>
allVars == <<vars, syncVars>>

Goroutines == {"consumer", "operator", "refresher"}
Record == [content : Nat, disabled : BOOLEAN]
Done == [step |-> "idle"]
Holding(step, id, content, disabled) ==
  [step |-> step, id |-> id, content |-> content, disabled |-> disabled]

SyncInit ==
  /\ Init
  /\ record = [id \in FileIds |-> [content |-> file[id], disabled |-> FALSE]]
  /\ registered = {id \in FileIds : file[id] # Absent}
  /\ held = [g \in Goroutines |-> Done]
  /\ wanted = file

Now(g, step) == held[g].step = step
Becomes(g, now) == held' = [held EXCEPT ![g] = now]

Quiet ==
  /\ events = <<>> /\ pendingOrder = <<>> /\ batch = <<>> /\ queue = <<>>
  /\ \A s \in Sources : stage[s] = "idle"
  /\ \A g \in Goroutines : Now(g, "idle")

Patient == Calm => Quiet

-----------------------------------------------------------------------------
(* The store: FileTokenStore.Save. *)

\* Mutant: every save stamps the file, which then never says the same.
MutWritesFileStamps(id, content, disabled) ==
  IF disabled /\ file[id] = Absent
  THEN UNCHANGED <<file, events>>
  ELSE /\ file' = [file EXCEPT ![id] =
                     IF @ = scenario.edits + 2 THEN scenario.edits + 3 ELSE scenario.edits + 2]
       /\ Event(id, "write")

\* The file of id is written unless it says the same, or is gone and disabled.
WritesFile(id, content, disabled) ==
  IF file[id] = content \/ (disabled /\ file[id] = Absent)
  THEN UNCHANGED <<file, events>>
  ELSE file' = [file EXCEPT ![id] = content] /\ Event(id, "write")

\* The second half of Manager.Update and Manager.Register: persist.
Save(g) ==
  /\ Now(g, "save")
  /\ WritesFile(held[g].id, held[g].content, held[g].disabled)
  /\ Becomes(g, Done)
  /\ UNCHANGED <<connected, edits, scenario, shadowVars, sourceVars, dispatchVars, applied,
                 record, registered, wanted>>

\* Mutant: an update of a known record keeps its content.
MutReplaceKeeps(g) ==
  /\ Now(g, "update")
  /\ record' = [record EXCEPT ![held[g].id].disabled = held[g].disabled]
  /\ Becomes(g, [held[g] EXCEPT !.step = "save"])
  /\ UNCHANGED <<vars, registered, wanted>>

\* The first half: the record in hand replaces the one in the manager.
Replace(g) ==
  /\ Now(g, "update")
  /\ record' = [record EXCEPT ![held[g].id] =
                  [content |-> held[g].content, disabled |-> held[g].disabled]]
  /\ Becomes(g, [held[g] EXCEPT !.step = "save"])
  /\ UNCHANGED <<vars, registered, wanted>>

\* Mutant: a credential without a record is disabled all the same.
MutLookupAlways(g) ==
  /\ Now(g, "lookup")
  /\ Becomes(g, Holding("update", held[g].id, record[held[g].id].content, TRUE))
  /\ UNCHANGED <<vars, record, registered, wanted>>

\* GetByID of a removal or a delete: a clone of the record, to be disabled.
Lookup(g) ==
  /\ Now(g, "lookup")
  /\ LET id == held[g].id IN
       Becomes(g, IF record[id].content = Absent THEN Done
                  ELSE Holding("update", id, record[id].content, TRUE))
  /\ UNCHANGED <<vars, record, registered, wanted>>

-----------------------------------------------------------------------------
(* The consumer. *)

\* Mutant: a removal leaves the models in the registry.
MutReceiveKeepsModels ==
  /\ Now("consumer", "idle")
  /\ Consume
  /\ LET id == Head(queue).id
         auth == Head(queue).auth
     IN IF auth = Absent
        THEN /\ UNCHANGED registered
             /\ Becomes("consumer", [step |-> "lookup", id |-> id])
        ELSE /\ registered' = registered \union {id}
             /\ Becomes("consumer", Holding("update", id, auth, FALSE))
  /\ UNCHANGED <<record, wanted>>

\* applyCoreAuthAddOrUpdate and applyCoreAuthRemoval begin with the registry.
Receive ==
  /\ Now("consumer", "idle")
  /\ Consume
  /\ LET id == Head(queue).id
         auth == Head(queue).auth
     IN IF auth = Absent
        THEN /\ registered' = registered \ {id}
             /\ Becomes("consumer", [step |-> "lookup", id |-> id])
        ELSE /\ registered' = registered \union {id}
             /\ Becomes("consumer", Holding("update", id, auth, FALSE))
  /\ UNCHANGED <<record, wanted>>

-----------------------------------------------------------------------------
(* Those who change credentials. *)

\* The operator edits the directory by hand.
EditFile(id) ==
  /\ Patient
  /\ WriteFile(id) \/ RemoveFile(id)
  /\ wanted' = [wanted EXCEPT ![id] = file'[id]]
  /\ UNCHANGED <<record, registered, held>>

\* UploadAuthFile, up to the Update in registerAuthFromFile.
Upload(id) ==
  /\ Patient
  /\ Now("operator", "idle")
  /\ WriteFile(id)
  /\ wanted' = [wanted EXCEPT ![id] = file'[id]]
  /\ Becomes("operator", Holding("update", id, file'[id], FALSE))
  /\ UNCHANGED <<record, registered>>

\* DeleteAuthFile, up to the GetByID in disableAuth.
Delete(id) ==
  /\ Patient
  /\ Now("operator", "idle")
  /\ RemoveFile(id)
  /\ wanted' = [wanted EXCEPT ![id] = Absent]
  /\ Becomes("operator", [step |-> "lookup", id |-> id])
  /\ UNCHANGED <<record, registered>>

\* checkRefreshes finds the record due, and refreshAuth clones it.
StartRefresh(id) ==
  /\ Patient
  /\ Now("refresher", "idle")
  /\ edits < scenario.edits
  /\ record[id].content # Absent /\ ~record[id].disabled
  /\ edits' = edits + 1
  /\ Becomes("refresher", Holding("await", id, record[id].content, FALSE))
  /\ UNCHANGED <<file, events, connected, scenario, shadowVars, sourceVars, dispatchVars,
                 applied, record, registered, wanted>>

\* The executor's answer: a new token in the clone, or an error, which leaves
\* all but the times of the record alone.
EndRefresh ==
  /\ Now("refresher", "await")
  /\ \/ /\ edits' = edits + 1
        /\ LET id == held["refresher"].id IN
             /\ Becomes("refresher", Holding("update", id, edits + 1, FALSE))
             /\ wanted' = IF wanted[id] = Absent THEN wanted
                          ELSE [wanted EXCEPT ![id] = edits + 1]
     \/ Becomes("refresher", Done) /\ UNCHANGED <<edits, wanted>>
  /\ UNCHANGED <<file, events, connected, scenario, shadowVars, sourceVars, dispatchVars,
                 applied, record, registered>>

\* MarkResult of a request that used the credential; it saves under the lock.
MarkResult(id) ==
  /\ Patient
  /\ record[id].content # Absent
  /\ WritesFile(id, record[id].content, record[id].disabled)
  /\ UNCHANGED <<connected, edits, scenario, shadowVars, sourceVars, dispatchVars, applied,
                 syncVars>>

-----------------------------------------------------------------------------
Watch ==
  /\ HandleEvent \/ (Patient /\ Reload) \/ Loop \/ \E s \in Sources : Scan(s) \/ Dispatch(s)
  /\ UNCHANGED syncVars

Change ==
  \E id \in FileIds :
    EditFile(id) \/ Upload(id) \/ Delete(id) \/ StartRefresh(id) \/ MarkResult(id)

Works(g) == Lookup(g) \/ Replace(g) \/ Save(g)

SyncNext ==
  Watch \/ Receive \/ Change \/ EndRefresh \/ \E g \in Goroutines : Works(g)

SyncSpec == SyncInit /\ [][SyncNext]_allVars

\* Goroutines that can run are scheduled some day, and every refresh ends.
SyncFairSpec ==
  /\ SyncSpec
  /\ WF_allVars(HandleEvent /\ UNCHANGED syncVars)
  /\ \A s \in Sources : WF_allVars((Scan(s) \/ Dispatch(s)) /\ UNCHANGED syncVars)
  /\ WF_allVars(Loop /\ UNCHANGED syncVars)
  /\ WF_allVars(Receive)
  /\ WF_allVars(EndRefresh)
  /\ \A g \in Goroutines : WF_allVars(Works(g))

-----------------------------------------------------------------------------
(* Properties. *)

SyncTypeOK ==
  /\ TypeOK
  /\ record \in [FileIds -> Record]
  /\ registered \subseteq FileIds
  /\ wanted \in [FileIds -> Nat]
  /\ \A g \in Goroutines :
       \/ held[g] = Done
       \/ Now(g, "lookup") /\ held[g].id \in FileIds
       \/ held[g] \in [step : {"await", "update", "save"}, id : FileIds,
                       content : Nat \ {Absent}, disabled : BOOLEAN]

\* Requests are served by records that are enabled and have models.
Serves(id) ==
  id \in registered /\ record[id].content # Absent /\ ~record[id].disabled

\* Whoever enables a record again, a late refresh or an upload: a credential
\* whose removal the service has applied does not serve until it is added.
RemovedNotServed == \A id \in FileIds : Serves(id) => applied[id].auth # Absent

\* All three places say the same of the credential.
Agreed(id) ==
  IF file[id] = Absent THEN ~Serves(id)
  ELSE Serves(id) /\ record[id].content = file[id]

\* A change that goes through undisturbed reaches file, record and registry,
\* and its own echoes in the watcher change nothing.
ChangesArrive == <>[](\A id \in FileIds : Agreed(id) /\ file[id] = wanted[id])

\* "several bursts can be processed without oscillation" (docs/sdk-watcher.md):
\* when nobody changes anything any more, the updates end.
Settles == <>[]Quiet

\* "Delete auth files" (auth_files.go): what was deleted last stays deleted.
DeletedStays ==
  \A id \in FileIds : <>[](wanted[id] = Absent) => <>[](file[id] = Absent)

\* "Disabled indicates the auth is intentionally disabled by operator"
\* (types.go): only the credential's return enables it again.
DisabledStays ==
  [][\A id \in FileIds :
       record[id].disabled /\ ~record'[id].disabled => wanted[id] # Absent]_allVars
=============================================================================
