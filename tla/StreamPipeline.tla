---------------------------- MODULE StreamPipeline ----------------------------
(***************************************************************************)
(* One streaming request from upstream to the client.  Four goroutines:    *)
(*   executor  reads upstream and sends chunks (internal/runtime/executor) *)
(*   manager   records the result and relays (sdk/cliproxy/auth/manager.go)*)
(*   adapter   splits data from errors (sdk/api/handlers/handlers.go)      *)
(*   handler   writes to the client (sdk/api/handlers/openai, claude, ...) *)
(* The channels between them are unbuffered, except the error channel of   *)
(* the adapter, which holds one error.  A send on an unbuffered channel is *)
(* one step of the two goroutines that meet.                               *)
(***************************************************************************)
EXTENDS Integers, Sequences

CONSTANT MaxChunks   \* bound: the data chunks upstream sends

ASSUME MaxChunksAssumption == MaxChunks \in Nat

\* A chunk: a data chunk is its number, counted from 1.
Empty == 0
Error == -1

VARIABLES
  sent,       \* data chunks read from upstream
  upstream,   \* "open" | "ended" | "failed" | "cancelled": how reading ended
  executor,   \* what each goroutine is doing, and the chunk it is sending
  toManager,
  manager,
  toAdapter,
  failed,     \* the manager's flag: it has seen an error chunk
  results,    \* what the manager passed to MarkResult
  adapter,
  toHandler,
  errChan,    \* errors in the adapter's error channel
  handler,    \* "opening" | "open" | "done" | "error" | "gone"
  received,   \* data chunks the handler wrote
  cancelled,  \* the handler called cliCancel
  connected   \* the client's connection is up

executorVars == <<sent, upstream, executor, toManager>>
managerVars == <<manager, toAdapter, failed, results>>
adapterVars == <<adapter, toHandler, errChan>>
handlerVars == <<handler, received, cancelled>>
vars == <<executorVars, managerVars, adapterVars, handlerVars, connected>>

Init ==
  /\ sent = 0 /\ upstream = "open"
  /\ executor = "off" /\ manager = "off" /\ adapter = "off"
  /\ toManager = Empty /\ toAdapter = Empty /\ toHandler = Empty
  /\ failed = FALSE /\ results = <<>>
  /\ errChan = 0
  /\ handler = "opening" /\ received = <<>> /\ cancelled = FALSE
  /\ connected = TRUE

-----------------------------------------------------------------------------
(* Opening: Manager.ExecuteStream, under a context of its own. *)

Opens ==
  /\ handler = "opening"
  /\ executor' = "recv" /\ manager' = "recv" /\ adapter' = "recv"
  /\ handler' = "open"
  /\ UNCHANGED <<sent, upstream, toManager, toAdapter, failed, results,
                 toHandler, errChan, received, cancelled, connected>>

\* No goroutine is started: a nil data channel and an error in the other.
OpenFails ==
  /\ handler = "opening"
  /\ upstream' = "failed"
  /\ errChan' = 1
  /\ handler' = "open"
  /\ UNCHANGED <<sent, executor, toManager, managerVars, adapter, toHandler,
                 received, cancelled, connected>>

-----------------------------------------------------------------------------
(* The executor: scan a line, translate, send. *)

\* Once cancelled the body may still yield what was already buffered.
ExecutorReads ==
  /\ executor = "recv"
  /\ executor' = "send"
  /\ \/ sent < MaxChunks /\ sent' = sent + 1 /\ toManager' = sent + 1
     \/ toManager' = Empty /\ UNCHANGED sent
  /\ UNCHANGED <<upstream, managerVars, adapterVars, handlerVars, connected>>

ExecutorEnds ==
  /\ executor = "recv"
  /\ executor' = "closed"
  /\ upstream' = "ended"
  /\ UNCHANGED <<sent, toManager, managerVars, adapterVars, handlerVars, connected>>

\* scanner.Err(): upstream failed, or the context was cancelled.
ExecutorFails ==
  /\ executor = "recv"
  /\ executor' = "send" /\ toManager' = Error
  /\ \/ upstream' = "failed"
     \/ cancelled /\ upstream' = "cancelled"
  /\ UNCHANGED <<sent, managerVars, adapterVars, handlerVars, connected>>

-----------------------------------------------------------------------------
(* The manager's goroutine: record the first error, relay everything, and  *)
(* record a success behind a stream without one.                           *)

\* The executor's send on out succeeds; it closes out behind an error.
ExecutorSent ==
  /\ executor = "send"
  /\ executor' = IF toManager = Error THEN "closed" ELSE "recv"
  /\ toManager' = Empty
  /\ UNCHANGED <<sent, upstream>>

\* Mutant: the flag is not set, so the end of the stream is a success too.
MutManagerReceivesForgets ==
  /\ manager = "recv"
  /\ ExecutorSent
  /\ manager' = "send" /\ toAdapter' = toManager
  /\ results' = IF toManager = Error THEN Append(results, "failure") ELSE results
  /\ UNCHANGED <<failed, adapterVars, handlerVars, connected>>

ManagerReceives ==
  /\ manager = "recv"
  /\ ExecutorSent
  /\ manager' = "send" /\ toAdapter' = toManager
  /\ IF toManager = Error /\ ~failed
     THEN failed' = TRUE /\ results' = Append(results, "failure")
     ELSE UNCHANGED <<failed, results>>
  /\ UNCHANGED <<adapterVars, handlerVars, connected>>

\* Mutant: out is closed without recording the success.
MutManagerEndsSilently ==
  /\ manager = "recv" /\ executor = "closed"
  /\ manager' = "closed"
  /\ UNCHANGED <<executorVars, toAdapter, failed, results, adapterVars, handlerVars, connected>>

\* out is closed by a defer, behind the recording.
ManagerEnds ==
  /\ manager = "recv" /\ executor = "closed"
  /\ manager' = "closed"
  /\ results' = IF failed THEN results ELSE Append(results, "success")
  /\ UNCHANGED <<executorVars, toAdapter, failed, adapterVars, handlerVars, connected>>

-----------------------------------------------------------------------------
(* The adapter's goroutine. *)

ManagerSent ==
  /\ manager = "send"
  /\ manager' = "recv"
  /\ toAdapter' = Empty
  /\ UNCHANGED <<failed, results>>

\* Mutant: an empty payload ends the stream.
MutAdapterReceivesStopsAtEmpty ==
  /\ adapter = "recv"
  /\ ManagerSent
  /\ IF toAdapter > 0
     THEN adapter' = "send" /\ toHandler' = toAdapter
     ELSE adapter' = "closing" /\ UNCHANGED toHandler
  /\ errChan' = IF toAdapter = Error THEN 1 ELSE errChan
  /\ UNCHANGED <<executorVars, handlerVars, connected>>

\* An empty payload is skipped; at an error the adapter stops receiving.
AdapterReceives ==
  /\ adapter = "recv"
  /\ ManagerSent
  /\ \/ toAdapter > 0 /\ adapter' = "send" /\ toHandler' = toAdapter /\ UNCHANGED errChan
     \/ toAdapter = Empty /\ UNCHANGED adapterVars
     \/ toAdapter = Error /\ adapter' = "closing" /\ errChan' = 1 /\ UNCHANGED toHandler
  /\ UNCHANGED <<executorVars, handlerVars, connected>>

AdapterEnds ==
  /\ adapter = "recv" /\ manager = "closed"
  /\ adapter' = "closing"
  /\ UNCHANGED <<executorVars, managerVars, toHandler, errChan, handlerVars, connected>>

\* The deferred closes: errChan first, which the handler ignores, then dataChan.
AdapterCloses ==
  /\ adapter = "closing"
  /\ adapter' = "closed"
  /\ UNCHANGED <<executorVars, managerVars, toHandler, errChan, handlerVars, connected>>

-----------------------------------------------------------------------------
(* The handler's select loop: any ready case may be taken. *)

\* Mutant: the value of a closed channel is written like any other.
MutHandlerWritesUnchecked ==
  /\ handler = "open" /\ adapter \in {"send", "closed"}
  /\ received' = Append(received, toHandler)
  /\ adapter' = "recv" /\ toHandler' = Empty
  /\ UNCHANGED <<executorVars, managerVars, errChan, handler, cancelled, connected>>

HandlerWrites ==
  /\ handler = "open" /\ adapter = "send"
  /\ received' = Append(received, toHandler)
  /\ adapter' = "recv" /\ toHandler' = Empty
  /\ UNCHANGED <<executorVars, managerVars, errChan, handler, cancelled, connected>>

Returns(how) ==
  /\ handler = "open"
  /\ handler' = how
  /\ cancelled' = TRUE
  /\ UNCHANGED <<executorVars, managerVars, adapter, toHandler, received, connected>>

\* dataChan is closed: the end of the stream is written.
HandlerSeesEnd == adapter = "closed" /\ Returns("done") /\ UNCHANGED errChan

HandlerSeesError == errChan = 1 /\ Returns("error") /\ errChan' = 0

HandlerSeesDisconnect == ~connected /\ Returns("gone") /\ UNCHANGED errChan

Disconnect ==
  /\ connected
  /\ connected' = FALSE
  /\ UNCHANGED <<executorVars, managerVars, adapterVars, handlerVars>>

-----------------------------------------------------------------------------
Executor == ExecutorReads \/ ExecutorEnds \/ ExecutorFails
Manager == ManagerReceives \/ ManagerEnds
Adapter == AdapterReceives \/ AdapterEnds \/ AdapterCloses
Handler == HandlerWrites \/ HandlerSeesEnd \/ HandlerSeesError \/ HandlerSeesDisconnect

Next == Opens \/ OpenFails \/ Executor \/ Manager \/ Adapter \/ Handler \/ Disconnect

Spec == Init /\ [][Next]_vars

\* Goroutines are scheduled, and upstream answers the request and ends its
\* stream some day (the connection has no timeout of its own).
FairSpec ==
  /\ Spec
  /\ WF_vars(Opens \/ OpenFails)
  /\ WF_vars(Executor) /\ SF_vars(ExecutorEnds \/ ExecutorFails)
  /\ WF_vars(Manager) /\ WF_vars(Adapter) /\ WF_vars(Handler)

-----------------------------------------------------------------------------
(* Properties. *)

FlagsOK == failed \in BOOLEAN /\ cancelled \in BOOLEAN /\ connected \in BOOLEAN

ChunksOK ==
  /\ sent \in 0..MaxChunks
  /\ toManager \in -1..MaxChunks /\ toAdapter \in -1..MaxChunks
  /\ toHandler \in 0..MaxChunks
  /\ received \in Seq(1..MaxChunks)

ControlOK ==
  /\ upstream \in {"open", "ended", "failed", "cancelled"}
  /\ executor \in {"off", "recv", "send", "closed"}
  /\ manager \in {"off", "recv", "send", "closed"}
  /\ adapter \in {"off", "recv", "send", "closing", "closed"}
  /\ handler \in {"opening", "open", "done", "error", "gone"}
  /\ errChan \in {0, 1}
  /\ results \in Seq({"success", "failure"})

TypeOK == FlagsOK /\ ChunksOK /\ ControlOK

\* The pipeline keeps the promise of StreamRelay: every chunk once and in
\* order, and no end of the response before the last one, whichever of the
\* ready cases the goroutines' selects take.
Relay == INSTANCE StreamRelay WITH
  ended <- upstream # "open",
  outcome <- IF handler = "opening" THEN "open" ELSE handler

KeepsPromise == Relay!Spec

Started == executor # "off"

\* When the client sees the response end, the credential's result is already
\* recorded, and only one: the next request picks with it known.
RecordedBeforeEnd ==
  Started /\ handler \in {"done", "error"} => Len(results) = 1

\* At most one result is recorded, and it says what became of the stream:
\* success only behind a clean end, failure only behind an error.
ResultTruthful ==
  \/ results = <<>>
  \/ results = <<"success">> /\ upstream = "ended"
  \/ results = <<"failure">> /\ upstream \in {"failed", "cancelled"}

Finished ==
  Started => executor = "closed" /\ manager = "closed" /\ adapter = "closed"

\* As long as the client stays, no goroutine of the request is left behind.
EndsWhileConnected ==
  []connected => <>[](Finished /\ handler \in {"done", "error"})

\* "An error occurred: emit as a proper SSE error event": a response that
\* ends as complete had an upstream that ended well.
ErrorReported == handler = "done" => upstream = "ended"

\* "This allows proper cleanup and cancellation of ongoing requests": the
\* goroutines of a request end, also when the client leaves.
GoroutinesEnd == <>[]Finished
-----------------------------------------------------------------------------
(* The inductive invariant behind KeepsPromise, RecordedBeforeEnd and      *)
(* ResultTruthful.                                                         *)

\* The data chunks on their way to the client, one at most in each goroutine.
InExecutor == IF executor = "send" /\ toManager > 0 THEN 1 ELSE 0
InManager == IF manager = "send" /\ toAdapter > 0 THEN 1 ELSE 0
InAdapter == IF adapter = "send" THEN 1 ELSE 0

\* What is not yet received is on its way, the latest chunk furthest behind.
ChunksInOrder ==
  /\ Len(received) = sent - InExecutor - InManager - InAdapter
  /\ InExecutor = 1 => toManager = sent
  /\ InManager = 1 => toAdapter = sent - InExecutor
  /\ InAdapter = 1 => toHandler = sent - InExecutor - InManager

ExecutorHasError == executor = "send" /\ toManager = Error

\* The goroutines start together, and end in the order of the flow.
StagesInOrder ==
  /\ (executor = "off") = (manager = "off")
  /\ (executor = "off") = (adapter = "off")
  /\ handler = "opening" => ~Started /\ upstream = "open" /\ errChan = 0
  /\ ~Started =>
       sent = 0 /\ ~failed /\ (handler # "opening" => upstream = "failed")
  /\ Started => (upstream = "open") = (executor # "closed" /\ ~ExecutorHasError)
  /\ manager = "closed" => executor = "closed"
  /\ adapter \in {"closing", "closed"} =>
       /\ executor = "closed" /\ manager \in {"recv", "closed"}
       /\ failed \/ manager = "closed"

\* An error is the last chunk, and the manager notes it as it passes.
ErrorsInOrder ==
  /\ ExecutorHasError => ~failed /\ upstream \in {"failed", "cancelled"}
  /\ manager = "send" /\ toAdapter = Error => failed
  /\ failed => executor = "closed" /\ upstream \in {"failed", "cancelled"}
  /\ executor = "closed" /\ ~failed => upstream = "ended"
  /\ errChan = 1 => ~Started \/ adapter \in {"closing", "closed"}
  /\ results = IF failed THEN <<"failure">>
               ELSE IF manager = "closed" THEN <<"success">> ELSE <<>>

ReturnsInOrder ==
  /\ handler = "done" => adapter = "closed"
  /\ handler = "error" => ~Started \/ adapter \in {"closing", "closed"}

PipelineInv ==
  TypeOK /\ ChunksInOrder /\ StagesInOrder /\ ErrorsInOrder /\ ReturnsInOrder
=============================================================================
