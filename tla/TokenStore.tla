------------------------------ MODULE TokenStore ------------------------------
(***************************************************************************)
(* The token stores of internal/store: a working directory whose           *)
(* credential files and config are mirrored in a git remote, a Postgres    *)
(* table or a bucket.  Every store writes the file first and the mirror    *)
(* second, under its lock; editors and the management API change files     *)
(* without it, and the watcher then asks the store to persist what it      *)
(* finds.  A restart builds the directory from the mirror.                 *)
(***************************************************************************)
EXTENDS Integers, FiniteSets

CONSTANTS
  Backends,    \* stores of the run, one of which is configured
  Auths,       \* credential files
  Config,      \* the configuration file
  Procs,       \* bound: operations of the store in flight
  Nobody,
  MaxVersion,  \* bound: contents anyone writes
  MaxCalls,    \* bound: saves, deletes, edits and removals
  MaxFaults,   \* bound: calls to the mirror that fail
  MaxCrashes,  \* bound: restarts
  Rewrites     \* an editor may write what the file holds already

Keys == Auths \union {Config}

\* Contents: a version, nothing written yet, or no file at all.
Absent == 0
Empty == -1
Template == 1  \* config.example.yaml
NotKept == -2

VARIABLES
  backend,
  phase,    \* "down" or "up"
  file,     \* the working directory
  commit,   \* git: the tree at HEAD
  remote,   \* the mirror
  mu,       \* who holds the store's lock
  pc, op,   \* the operations in flight
  version,  \* contents used so far
  editing,  \* what an editor that has truncated a file will write
  noticed,  \* files with an event the watcher has not handled
  hash,     \* the watcher's lastAuthHashes and lastConfigHash
  kept,     \* what was stored in file and mirror and not touched since
  calls, faults, crashes

vars == <<backend, phase, file, commit, remote, mu, pc, op, version, editing, noticed, hash, kept,
          calls, faults, crashes>>

ASSUME StoreAssumption ==
  /\ Backends \subseteq {"git", "postgres", "object"}
  /\ Config \notin Auths /\ Nobody \notin Procs
  /\ MaxVersion \in Nat \ {0} /\ MaxCalls \in Nat /\ MaxFaults \in Nat /\ MaxCrashes \in Nat
  /\ Rewrites \in BOOLEAN

-----------------------------------------------------------------------------
(* What sets the stores apart:                                              *)
(*   pulls    the repository is opened and pulled first,                    *)
(*   gone     a file that vanished is "removed", "refused" or "ignored",    *)
(*   empty    an empty file is "kept" or "removed".                         *)

GitSave == [pulls |-> TRUE, gone |-> "removed", empty |-> "kept"]
PostgresSave == [pulls |-> FALSE, gone |-> "refused", empty |-> "removed"]
ObjectSave == [pulls |-> FALSE, gone |-> "removed", empty |-> "removed"]

\* Git commits nothing for a file someone else has removed.
GitDelete == [pulls |-> TRUE, gone |-> "ignored", empty |-> "kept"]
PostgresDelete == [pulls |-> FALSE, gone |-> "removed", empty |-> "removed"]
ObjectDelete == [pulls |-> FALSE, gone |-> "removed", empty |-> "removed"]

GitPersist == [pulls |-> TRUE, gone |-> "removed", empty |-> "kept"]
PostgresPersist == [pulls |-> FALSE, gone |-> "removed", empty |-> "removed"]
ObjectPersist == [pulls |-> FALSE, gone |-> "removed", empty |-> "removed"]

GitConfig == [pulls |-> TRUE, gone |-> "ignored", empty |-> "kept"]
PostgresConfig == [pulls |-> FALSE, gone |-> "removed", empty |-> "kept"]
ObjectConfig == [pulls |-> FALSE, gone |-> "removed", empty |-> "removed"]

Operation ==
  [git |-> [save |-> GitSave, login |-> GitSave, delete |-> GitDelete, persist |-> GitPersist,
            config |-> GitConfig],
   postgres |-> [save |-> PostgresSave, login |-> PostgresSave, delete |-> PostgresDelete,
                 persist |-> PostgresPersist, config |-> PostgresConfig],
   object |-> [save |-> ObjectSave, login |-> ObjectSave, delete |-> ObjectDelete,
               persist |-> ObjectPersist, config |-> ObjectConfig]]

How(p) == Operation[backend][op[p].kind]

NoOp == [kind |-> "none", key |-> Config, value |-> Absent]

TokenStoreInit ==
  /\ backend \in Backends
  /\ phase = "down"
  /\ file = [k \in Keys |-> Absent] /\ commit = file /\ remote = file
  /\ mu = Nobody
  /\ pc = [p \in Procs |-> "idle"] /\ op = [p \in Procs |-> NoOp]
  /\ version = Template
  /\ editing = [k \in Keys |-> Absent]
  /\ noticed = {}
  /\ hash = [k \in Keys |-> Absent]
  /\ kept = [k \in Keys |-> NotKept]
  /\ calls = 0 /\ faults = 0 /\ crashes = 0

mirrorVars == <<commit, remote>>
watcherVars == <<noticed, hash>>

Asked == calls < MaxCalls /\ calls' = calls + 1

Fault == faults < MaxFaults /\ faults' = faults + 1

\* Someone changes a file: the watcher will hear of it.
Change(k, content) ==
  /\ file' = [file EXCEPT ![k] = content]
  /\ noticed' = noticed \union {k}
  /\ kept' = [kept EXCEPT ![k] = NotKept]

-----------------------------------------------------------------------------
(* An operation: called, perhaps pulling, ready for the lock, then under it  *)
(* the local change, the reading back and the call to the mirror.            *)

Called(p, kind, k, content) ==
  /\ pc[p] = "idle"
  /\ op' = [op EXCEPT ![p] = [kind |-> kind, key |-> k, value |-> content]]
  /\ pc' = [pc EXCEPT ![p] = IF Operation[backend][kind].pulls THEN "pulling" ELSE "ready"]

Return(p) == pc' = [pc EXCEPT ![p] = "idle"] /\ op' = [op EXCEPT ![p] = NoOp]

\* The manager saves a record, old or new, but none an editor is still
\* writing; a login saves its token.
BeginSave(p) ==
  /\ phase = "up" /\ Asked
  /\ \E k \in Auths, content \in 1 .. version + 1, kind \in {"save", "login"} :
       /\ content <= MaxVersion /\ content # editing[k]
       /\ Called(p, kind, k, content)
       /\ version' = IF content > version THEN content ELSE version
  /\ UNCHANGED <<backend, phase, file, mirrorVars, mu, editing, watcherVars, kept, faults, crashes>>

BeginDelete(p) ==
  /\ phase = "up" /\ Asked
  /\ \E k \in Auths : Called(p, "delete", k, Absent)
  /\ UNCHANGED <<backend, phase, file, mirrorVars, mu, version, editing, watcherVars, kept, faults,
                 crashes>>

\* EnsureRepository with the repository there: only this instance writes to
\* the remote, so pulling brings nothing, but it may fail.
Pull(p) ==
  /\ pc[p] = "pulling"
  /\ \/ /\ pc' = [pc EXCEPT ![p] = "ready"]
        /\ UNCHANGED <<op, faults>>
     \/ Fault /\ Return(p)
  /\ UNCHANGED <<backend, phase, file, mirrorVars, mu, version, editing, watcherVars, kept, crashes,
                 calls>>

\* Metadata equal to the file's are not written again; a token always is.
StoreFile(p) ==
  /\ pc[p] = "ready" /\ mu = Nobody
  /\ op[p].kind \in {"save", "login"}
  /\ LET k == op[p].key
         content == op[p].value
     IN  IF op[p].kind = "save" /\ file[k] = content
         THEN Return(p) /\ UNCHANGED <<file, noticed, kept, mu>>
         ELSE /\ Change(k, content)
              /\ mu' = p
              /\ pc' = [pc EXCEPT ![p] = "local"]
              /\ UNCHANGED op
  /\ UNCHANGED <<backend, phase, mirrorVars, version, editing, hash, faults, crashes, calls>>

RemoveFile(p) ==
  /\ pc[p] = "ready" /\ mu = Nobody
  /\ op[p].kind = "delete"
  /\ LET k == op[p].key
     IN  IF file[k] = Absent
         THEN /\ UNCHANGED <<file, noticed, kept>>
              /\ IF How(p).gone = "ignored"
                 THEN Return(p) /\ UNCHANGED mu
                 ELSE pc' = [pc EXCEPT ![p] = "local"] /\ mu' = p /\ UNCHANGED op
         ELSE /\ Change(k, Absent)
              /\ mu' = p
              /\ pc' = [pc EXCEPT ![p] = "local"]
              /\ UNCHANGED op
  /\ UNCHANGED <<backend, phase, mirrorVars, version, editing, hash, faults, crashes, calls>>

\* The content to mirror is what the file holds by now; a delete of Postgres
\* or the bucket does not look again.  Git commits it, if it is news.
Mirrored(p) ==
  LET content == file[op[p].key]
  IN  IF op[p].kind = "delete" /\ backend # "git" THEN Absent
      ELSE IF content = Empty /\ How(p).empty = "removed" THEN Absent
      ELSE content

MutReadFile(p) ==
  /\ \/ pc[p] = "local"
     \/ pc[p] = "ready" /\ mu = Nobody /\ op[p].kind \in {"persist", "config"}
  /\ LET k == op[p].key
         refused == file[k] = Absent /\ How(p).gone # "removed" /\ op[p].kind # "delete"
     IN  IF refused \/ (backend = "git" /\ Mirrored(p) = commit[k])
         THEN Return(p) /\ mu' = Nobody /\ UNCHANGED commit
         ELSE /\ op' = [op EXCEPT ![p].value = Mirrored(p)]
              /\ pc' = [pc EXCEPT ![p] = "sending"]
              /\ mu' = Nobody
              /\ commit' = IF backend = "git" THEN [commit EXCEPT ![k] = Mirrored(p)] ELSE commit
  /\ UNCHANGED <<backend, phase, file, remote, version, editing, watcherVars, kept, faults,
                 crashes, calls>>

ReadFile(p) ==
  /\ \/ pc[p] = "local"
     \/ pc[p] = "ready" /\ mu = Nobody /\ op[p].kind \in {"persist", "config"}
  /\ LET k == op[p].key
         refused == file[k] = Absent /\ How(p).gone # "removed" /\ op[p].kind # "delete"
     IN  IF refused \/ (backend = "git" /\ Mirrored(p) = commit[k])
         THEN Return(p) /\ mu' = Nobody /\ UNCHANGED commit
         ELSE /\ op' = [op EXCEPT ![p].value = Mirrored(p)]
              /\ pc' = [pc EXCEPT ![p] = "sending"]
              /\ mu' = p
              /\ commit' = IF backend = "git" THEN [commit EXCEPT ![k] = Mirrored(p)] ELSE commit
  /\ UNCHANGED <<backend, phase, file, remote, version, editing, watcherVars, kept, faults,
                 crashes, calls>>

\* A forced push sends the whole tree; a row or an object is sent alone.
Sent(p) == IF backend = "git" THEN commit ELSE [remote EXCEPT ![op[p].key] = op[p].value]

\* A call that fails may have had its effect; nobody tries it again.
Send(p) ==
  /\ pc[p] = "sending"
  /\ \/ /\ remote' = Sent(p)
        /\ kept' = IF file[op[p].key] = op[p].value
                   THEN [kept EXCEPT ![op[p].key] = op[p].value] ELSE kept
        /\ UNCHANGED faults
     \/ /\ Fault
        /\ remote' \in {remote, Sent(p)}
        /\ UNCHANGED kept
  /\ Return(p) /\ mu' = Nobody
  /\ UNCHANGED <<backend, phase, file, commit, version, editing, watcherVars, crashes, calls>>

-----------------------------------------------------------------------------
(* Files change without the store's lock; the watcher follows. *)

\* An upload, a saved config or an editor: first the file is truncated.
Truncate(k) ==
  /\ phase = "up" /\ Asked /\ editing[k] = Absent
  /\ \/ /\ version < MaxVersion
        /\ version' = version + 1
        /\ editing' = [editing EXCEPT ![k] = version + 1]
     \/ /\ Rewrites /\ file[k] > 0
        /\ editing' = [editing EXCEPT ![k] = file[k]]
        /\ UNCHANGED version
  /\ Change(k, Empty)
  /\ UNCHANGED <<backend, phase, mirrorVars, mu, pc, op, hash, faults, crashes>>

FinishEdit(k) ==
  /\ editing[k] # Absent
  /\ Change(k, editing[k])
  /\ editing' = [editing EXCEPT ![k] = Absent]
  /\ UNCHANGED <<backend, phase, mirrorVars, mu, pc, op, version, hash, faults, crashes, calls>>

\* The management API removes the file before it asks the store.
RemoveByUser(k) ==
  /\ phase = "up" /\ Asked /\ file[k] > 0
  /\ Change(k, Absent)
  /\ UNCHANGED <<backend, phase, mirrorVars, mu, pc, op, version, editing, hash, faults, crashes>>

MutNoticeAuth(p, k) ==
  /\ k \in noticed /\ phase = "up"
  /\ noticed' = noticed \ {k}
  /\ IF file[k] > 0 /\ file[k] # hash[k]
     THEN hash' = [hash EXCEPT ![k] = file[k]] /\ Called(p, "persist", k, Absent)
     ELSE UNCHANGED <<hash, pc, op>>
  /\ UNCHANGED <<backend, phase, file, mirrorVars, mu, version, editing, kept, faults, crashes,
                 calls>>

\* addOrUpdateClient and removeClient; an unchanged or empty file is skipped.
NoticeAuth(p, k) ==
  /\ k \in noticed /\ phase = "up"
  /\ noticed' = noticed \ {k}
  /\ IF file[k] # Empty /\ (file[k] = Absent \/ file[k] # hash[k])
     THEN hash' = [hash EXCEPT ![k] = file[k]] /\ Called(p, "persist", k, Absent)
     ELSE UNCHANGED <<hash, pc, op>>
  /\ UNCHANGED <<backend, phase, file, mirrorVars, mu, version, editing, kept, faults, crashes,
                 calls>>

\* reloadConfigIfChanged: a config that is gone or empty is not reloaded.
NoticeConfig(p) ==
  /\ Config \in noticed /\ phase = "up"
  /\ noticed' = noticed \ {Config}
  /\ IF file[Config] > 0 /\ file[Config] # hash[Config]
     THEN hash' = [hash EXCEPT ![Config] = file[Config]] /\ Called(p, "config", Config, Absent)
     ELSE UNCHANGED <<hash, pc, op>>
  /\ UNCHANGED <<backend, phase, file, mirrorVars, mu, version, editing, kept, faults, crashes,
                 calls>>

-----------------------------------------------------------------------------
(* Crashes, and how main starts each store again. *)

\* The disk may be a container's, and lost.
Crash ==
  /\ phase = "up" /\ crashes < MaxCrashes
  /\ crashes' = crashes + 1
  /\ phase' = "down"
  /\ pc' = [p \in Procs |-> "idle"] /\ op' = [p \in Procs |-> NoOp]
  /\ mu' = Nobody
  /\ editing' = [k \in Keys |-> Absent]
  /\ noticed' = {}
  /\ \/ UNCHANGED <<file, commit>>
     \/ file' = [k \in Keys |-> Absent] /\ commit' = file'
  /\ UNCHANGED <<backend, remote, version, hash, kept, faults, calls>>

\* The watcher's first look at the directory; it hashes no config yet.
Started ==
  /\ phase' = "up"
  /\ hash' = [k \in Keys |-> IF k # Config /\ file'[k] > 0 THEN file'[k] ELSE Absent]
  /\ UNCHANGED noticed

\* The config of the mirror; without one, the file at hand or the template.
BootConfig ==
  IF remote[Config] # Absent THEN remote[Config]
  ELSE IF file[Config] = Absent THEN Template ELSE file[Config]

\* syncConfigFromDatabase, which mirrors a config the database lacks.
PostgresBootConfig == remote' = [remote EXCEPT ![Config] = BootConfig]

\* syncConfigFromBucket: an empty config is not mirrored.
ObjectBootConfig ==
  remote' = IF BootConfig = Empty THEN remote ELSE [remote EXCEPT ![Config] = BootConfig]

\* The credentials are wiped and written again, row by row.
LoadAuths == file' = [k \in Keys |-> IF k = Config THEN BootConfig ELSE remote[k]]

PostgresBoot ==
  /\ backend = "postgres" /\ phase = "down"
  /\ \/ PostgresBootConfig /\ LoadAuths /\ Started /\ UNCHANGED faults
     \/ Fault /\ UNCHANGED <<file, remote, phase, watcherVars>>
  /\ UNCHANGED <<backend, commit, mu, pc, op, version, editing, kept, crashes, calls>>

ObjectBoot ==
  /\ backend = "object" /\ phase = "down"
  /\ \/ ObjectBootConfig /\ LoadAuths /\ Started /\ UNCHANGED faults
     \/ Fault /\ UNCHANGED <<file, remote, phase, watcherVars>>
  /\ UNCHANGED <<backend, commit, mu, pc, op, version, editing, kept, crashes, calls>>

\* EnsureRepository: a repository at hand stays as it is, a lost one is cloned.
GitTree == IF \A k \in Keys : commit[k] = Absent THEN remote ELSE commit
GitFiles == IF \A k \in Keys : commit[k] = Absent THEN [k \in Keys |->
              IF remote[k] # Absent THEN remote[k] ELSE file[k]] ELSE file

\* Without a config the template is committed and pushed.
GitBoot ==
  /\ backend = "git" /\ phase = "down"
  /\ \/ /\ GitFiles[Config] # Absent
        /\ file' = GitFiles /\ commit' = GitTree
        /\ Started /\ UNCHANGED <<remote, faults>>
     \/ /\ GitFiles[Config] = Absent
        /\ file' = [GitFiles EXCEPT ![Config] = Template]
        /\ commit' = [GitTree EXCEPT ![Config] = Template]
        /\ \/ remote' = commit' /\ Started /\ UNCHANGED faults
           \/ Fault /\ UNCHANGED <<remote, phase, watcherVars>>
  /\ UNCHANGED <<backend, mu, pc, op, version, editing, kept, crashes, calls>>

-----------------------------------------------------------------------------
Step(p) == Pull(p) \/ StoreFile(p) \/ RemoveFile(p) \/ ReadFile(p) \/ Send(p)
Notice == (\E p \in Procs, k \in Auths : NoticeAuth(p, k)) \/ \E p \in Procs : NoticeConfig(p)
Boot == PostgresBoot \/ ObjectBoot \/ GitBoot

\* Nothing is in flight: the store may wait forever.
Quiet ==
  /\ phase = "up" /\ noticed = {}
  /\ \A p \in Procs : pc[p] = "idle"
  /\ \A k \in Keys : editing[k] = Absent
  /\ UNCHANGED vars

Next ==
  \/ \E p \in Procs : BeginSave(p) \/ BeginDelete(p) \/ Step(p)
  \/ \E k \in Keys : Truncate(k) \/ FinishEdit(k) \/ RemoveByUser(k)
  \/ Notice \/ Crash \/ Boot \/ Quiet

\* Goroutines run, the watcher handles its events, an editor writes what it
\* began to write.
Fairness ==
  /\ \A p \in Procs : WF_vars(Step(p))
  /\ \A k \in Keys : WF_vars(FinishEdit(k))
  /\ WF_vars(Notice) /\ WF_vars(Boot)

Spec == TokenStoreInit /\ [][Next]_vars /\ Fairness

-----------------------------------------------------------------------------
\* What a store wrote to file and mirror stays in both, through the operations
\* of others on other files, the watcher's persisting it again, and a restart
\* with or without the disk, until someone changes that file.  Only a config
\* that was removed comes back, as the template.
StoredStays ==
  \A k \in Keys : kept[k] # NotKept /\ ~(k = Config /\ kept[k] = Absent) =>
    /\ remote[k] = kept[k]
    /\ phase = "up" => file[k] = kept[k]

\* What the mirror should hold of a file that stays as it is.
Followed(k) ==
  remote[k] = IF backend # "git" /\ file[k] = Empty THEN Absent ELSE file[k]

\* Once nobody changes files any more, the mirror holds them all: every change
\* made behind the store's back is noticed and persisted.  Not so after a call
\* to the mirror failed, nor in git after a crash before the push.
MirrorFollows ==
  <>[](faults = 0 /\ (backend = "git" => crashes = 0))
    => <>[](phase = "up" => \A k \in Auths : Followed(k))
===============================================================================
