----------------------------- MODULE LatestValue -----------------------------
(***************************************************************************)
(* What the watcher promises the service for each credential: of the       *)
(* values it publishes, numbered 1, 2, ..., the service may skip some, but *)
(* it never goes back to an older one, and what it applies as the newest   *)
(* is the newest ("the latest state is eventually applied without          *)
(* replaying redundant intermediate states", docs/sdk-watcher.md).         *)
(***************************************************************************)
EXTENDS Naturals

CONSTANT Ids   \* the credentials

VARIABLES
  latest,   \* the last published value of each credential and its number
  seen      \* the last applied one

valueVars == <<latest, seen>>

Init == seen = latest

Publish ==
  /\ \E S \in SUBSET Ids :
       /\ \A id \in S : latest'[id].stamp = latest[id].stamp + 1
       /\ \A id \in Ids \ S : latest'[id] = latest[id]
  /\ UNCHANGED seen

Deliver(id) ==
  /\ seen[id].stamp < seen'[id].stamp
  /\ seen'[id].stamp <= latest[id].stamp
  /\ seen'[id].stamp = latest[id].stamp => seen'[id] = latest[id]
  /\ \A other \in Ids \ {id} : seen'[other] = seen[other]
  /\ UNCHANGED latest

Next == Publish \/ \E id \in Ids : Deliver(id)

Spec == Init /\ [][Next]_valueVars
=============================================================================
