--------------------------- MODULE ExecutionProofs ---------------------------
(***************************************************************************)
(* Proofs about the execution of requests.  StreamPipeline, for every      *)
(* number of chunks: its inductive invariant, the two properties of the    *)
(* recorded result that follow from it, and that the pipeline implements   *)
(* StreamRelay.  ProviderCall, for any number of requests, executors,      *)
(* models and base URLs to fall back to and lines of a stream: bodies are  *)
(* closed, and a refusal is told with its status.                          *)
(***************************************************************************)
EXTENDS StreamPipeline, ProviderCall, TLAPS

-----------------------------------------------------------------------------
(* StreamPipeline. *)

\* The initial state: nothing is on its way.
LEMMA InvInit == Init => PipelineInv
<1> SUFFICES ASSUME Init PROVE PipelineInv
  OBVIOUS
<1> USE MaxChunksAssumption DEF Init, Empty, Error, Started, ExecutorHasError
<1>1. FlagsOK
  BY DEF FlagsOK
<1>2. ChunksOK /\ ControlOK
  BY DEF ChunksOK, ControlOK
<1>3. ChunksInOrder
  BY DEF ChunksInOrder, InExecutor, InManager, InAdapter
<1>4. StagesInOrder /\ ErrorsInOrder /\ ReturnsInOrder
  BY DEF StagesInOrder, ErrorsInOrder, ReturnsInOrder
<1> QED
  BY <1>1, <1>2, <1>3, <1>4 DEF PipelineInv, TypeOK

\* Every step keeps the chunks and the goroutines in order.
LEMMA InvStep == PipelineInv /\ [Next]_vars => PipelineInv'
<1> SUFFICES ASSUME PipelineInv, [Next]_vars PROVE PipelineInv'
  OBVIOUS
<1> USE MaxChunksAssumption
    DEF PipelineInv, TypeOK, Empty, Error, Started, ExecutorHasError,
        executorVars, managerVars, adapterVars, handlerVars
<1>0. Len(received) \in Nat /\ sent \in Nat
  BY DEF ChunksOK
<1>1. CASE Opens
  <2> USE <1>1 DEF Opens
  <2>1. FlagsOK'
    BY DEF FlagsOK
  <2>2. ChunksOK'
    BY DEF ChunksOK
  <2>3. ControlOK'
    BY DEF ControlOK
  <2>4. ChunksInOrder'
    <3>1. UNCHANGED <<received, sent, InExecutor, InManager, InAdapter, toAdapter, toHandler>>
      BY DEF InExecutor, InManager, InAdapter, StagesInOrder
    <3>2. InExecutor' = 1 => toManager' = toManager
      BY DEF InExecutor
    <3> QED
      BY <1>0, <3>1, <3>2 DEF ChunksInOrder
  <2>5. StagesInOrder'
    BY DEF ControlOK, StagesInOrder, ErrorsInOrder
  <2>6. ErrorsInOrder'
    BY DEF ControlOK, ErrorsInOrder, StagesInOrder
  <2>7. ReturnsInOrder'
    BY DEF ReturnsInOrder, StagesInOrder, ErrorsInOrder
  <2> QED
    BY <2>1, <2>2, <2>3, <2>4, <2>5, <2>6, <2>7
<1>2. CASE OpenFails
  <2> USE <1>2 DEF OpenFails
  <2>1. FlagsOK'
    BY DEF FlagsOK
  <2>2. ChunksOK'
    BY DEF ChunksOK
  <2>3. ControlOK'
    BY DEF ControlOK
  <2>4. ChunksInOrder'
    BY DEF ChunksOK, ChunksInOrder, InExecutor, InManager, InAdapter
  <2>5. StagesInOrder'
    BY DEF ControlOK, StagesInOrder, ErrorsInOrder
  <2>6. ErrorsInOrder'
    BY DEF ControlOK, ErrorsInOrder, StagesInOrder
  <2>7. ReturnsInOrder'
    BY DEF ReturnsInOrder, StagesInOrder, ErrorsInOrder
  <2> QED
    BY <2>1, <2>2, <2>3, <2>4, <2>5, <2>6, <2>7
<1>3. CASE ExecutorReads
  <2> USE <1>3 DEF ExecutorReads
  <2>0. toManager' # Error
    BY DEF ChunksOK
  <2>1. FlagsOK'
    BY DEF FlagsOK
  <2>2. ChunksOK'
    BY DEF ChunksOK
  <2>3. ControlOK'
    BY DEF ControlOK
  <2>4. ChunksInOrder'
    <3>1. InExecutor = 0 /\ UNCHANGED <<received, InManager, InAdapter, toAdapter, toHandler>>
      BY DEF InExecutor, InManager, InAdapter
    <3>2. \/ InExecutor' = 1 /\ toManager' = sent + 1 /\ sent' = sent + 1
          \/ InExecutor' = 0 /\ sent' = sent
      BY <1>0 DEF InExecutor
    <3>3. InManager \in {0, 1} /\ InAdapter \in {0, 1}
      BY DEF InManager, InAdapter
    <3> QED
      BY <1>0, <3>1, <3>2, <3>3 DEF ChunksInOrder
  <2>5. StagesInOrder'
    BY <2>0 DEF ControlOK, StagesInOrder, ErrorsInOrder
  <2>6. ErrorsInOrder'
    BY <2>0 DEF ControlOK, StagesInOrder, ErrorsInOrder
  <2>7. ReturnsInOrder'
    BY DEF ReturnsInOrder, StagesInOrder, ErrorsInOrder
  <2> QED
    BY <2>1, <2>2, <2>3, <2>4, <2>5, <2>6, <2>7
<1>4. CASE ExecutorEnds
  <2> USE <1>4 DEF ExecutorEnds
  <2>1. FlagsOK'
    BY DEF FlagsOK
  <2>2. ChunksOK'
    BY DEF ChunksOK
  <2>3. ControlOK'
    BY DEF ControlOK
  <2>4. ChunksInOrder'
    <3>1. UNCHANGED <<received, sent, InExecutor, InManager, InAdapter, toAdapter, toHandler>>
      BY DEF InExecutor, InManager, InAdapter
    <3>2. InExecutor' = 1 => toManager' = toManager
      BY DEF InExecutor
    <3> QED
      BY <1>0, <3>1, <3>2 DEF ChunksInOrder
  <2>5. StagesInOrder'
    BY DEF ControlOK, StagesInOrder, ErrorsInOrder
  <2>6. ErrorsInOrder'
    BY DEF ControlOK, ErrorsInOrder, StagesInOrder
  <2>7. ReturnsInOrder'
    BY DEF ReturnsInOrder, StagesInOrder, ErrorsInOrder
  <2> QED
    BY <2>1, <2>2, <2>3, <2>4, <2>5, <2>6, <2>7
<1>5. CASE ExecutorFails
  <2> USE <1>5 DEF ExecutorFails
  <2>1. FlagsOK'
    BY DEF FlagsOK
  <2>2. ChunksOK'
    BY DEF ChunksOK
  <2>3. ControlOK'
    BY DEF ControlOK
  <2>4. ChunksInOrder'
    <3>1. UNCHANGED <<received, sent, InExecutor, InManager, InAdapter, toAdapter, toHandler>>
      BY DEF InExecutor, InManager, InAdapter
    <3>2. InExecutor' = 1 => toManager' = toManager
      BY DEF InExecutor
    <3> QED
      BY <1>0, <3>1, <3>2 DEF ChunksInOrder
  <2>5. StagesInOrder'
    BY DEF ControlOK, StagesInOrder, ErrorsInOrder
  <2>6. ErrorsInOrder'
    BY DEF ControlOK, ErrorsInOrder, StagesInOrder
  <2>7. ReturnsInOrder'
    BY DEF ReturnsInOrder, StagesInOrder, ErrorsInOrder
  <2> QED
    BY <2>1, <2>2, <2>3, <2>4, <2>5, <2>6, <2>7
<1>6. CASE ManagerReceives
  <2> USE <1>6 DEF ManagerReceives, ExecutorSent
  <2>1. FlagsOK'
    BY DEF FlagsOK
  <2>2. ChunksOK'
    BY DEF ChunksOK
  <2>3. ControlOK'
    BY DEF ControlOK
  <2>4. ChunksInOrder'
    <3>1. /\ InManager = 0 /\ InManager' = InExecutor /\ InExecutor' = 0
          /\ toAdapter' = toManager /\ UNCHANGED <<received, sent, InAdapter, toHandler>>
      BY DEF InExecutor, InManager, InAdapter
    <3>2. InExecutor \in {0, 1} /\ InAdapter \in {0, 1}
      BY DEF InExecutor, InAdapter
    <3> QED
      BY <1>0, <3>1, <3>2 DEF ChunksInOrder
  <2>5. StagesInOrder'
    BY DEF ControlOK, StagesInOrder, ErrorsInOrder
  <2>6. ErrorsInOrder'
    BY DEF ControlOK, ErrorsInOrder, StagesInOrder
  <2>7. ReturnsInOrder'
    BY DEF ReturnsInOrder, StagesInOrder, ErrorsInOrder
  <2> QED
    BY <2>1, <2>2, <2>3, <2>4, <2>5, <2>6, <2>7
<1>7. CASE ManagerEnds
  <2> USE <1>7 DEF ManagerEnds
  <2>1. FlagsOK'
    BY DEF FlagsOK
  <2>2. ChunksOK'
    BY DEF ChunksOK
  <2>3. ControlOK'
    BY DEF ControlOK
  <2>4. ChunksInOrder'
    BY DEF ChunksOK, ChunksInOrder, InExecutor, InManager, InAdapter
  <2>5. StagesInOrder'
    BY DEF ControlOK, StagesInOrder, ErrorsInOrder
  <2>6. ErrorsInOrder'
    BY DEF ControlOK, ErrorsInOrder, StagesInOrder
  <2>7. ReturnsInOrder'
    BY DEF ReturnsInOrder, StagesInOrder, ErrorsInOrder
  <2> QED
    BY <2>1, <2>2, <2>3, <2>4, <2>5, <2>6, <2>7
<1>8. CASE AdapterReceives
  <2> USE <1>8 DEF AdapterReceives, ManagerSent
  <2>1. FlagsOK'
    BY DEF FlagsOK
  <2>2. ChunksOK'
    BY DEF ChunksOK
  <2>3. ControlOK'
    BY DEF ControlOK
  <2>4. ChunksInOrder'
    <3>1. CASE toAdapter > 0
      <4>1. /\ InManager = 1 /\ InManager' = 0 /\ InAdapter = 0 /\ InAdapter' = 1
            /\ toHandler' = toAdapter /\ UNCHANGED <<received, sent, InExecutor, toManager>>
        BY <3>1 DEF InExecutor, InManager, InAdapter
      <4>2. InExecutor \in {0, 1}
        BY DEF InExecutor
      <4> QED
        BY <1>0, <4>1, <4>2 DEF ChunksInOrder
    <3>2. CASE ~(toAdapter > 0)
      <4>1. /\ manager = "send" /\ manager' = "recv" /\ adapter = "recv" /\ adapter' # "send"
            /\ UNCHANGED <<received, sent, executor, toManager, toHandler>>
        BY <3>2
      <4> QED
        BY <1>0, <3>2, <4>1 DEF ChunksInOrder, InExecutor, InManager, InAdapter, ChunksOK
    <3> QED
      BY <3>1, <3>2
  <2>5. StagesInOrder'
    BY DEF ControlOK, StagesInOrder, ErrorsInOrder
  <2>6. ErrorsInOrder'
    BY DEF ControlOK, ErrorsInOrder, StagesInOrder
  <2>7. ReturnsInOrder'
    BY DEF ReturnsInOrder, StagesInOrder, ErrorsInOrder
  <2> QED
    BY <2>1, <2>2, <2>3, <2>4, <2>5, <2>6, <2>7
<1>9. CASE AdapterEnds
  <2> USE <1>9 DEF AdapterEnds
  <2>1. FlagsOK'
    BY DEF FlagsOK
  <2>2. ChunksOK'
    BY DEF ChunksOK
  <2>3. ControlOK'
    BY DEF ControlOK
  <2>4. ChunksInOrder'
    BY DEF ChunksOK, ChunksInOrder, InExecutor, InManager, InAdapter
  <2>5. StagesInOrder'
    BY DEF ControlOK, StagesInOrder, ErrorsInOrder
  <2>6. ErrorsInOrder'
    BY DEF ControlOK, ErrorsInOrder, StagesInOrder
  <2>7. ReturnsInOrder'
    BY DEF ReturnsInOrder, StagesInOrder, ErrorsInOrder
  <2> QED
    BY <2>1, <2>2, <2>3, <2>4, <2>5, <2>6, <2>7
<1>10. CASE AdapterCloses
  <2> USE <1>10 DEF AdapterCloses
  <2>1. FlagsOK'
    BY DEF FlagsOK
  <2>2. ChunksOK'
    BY DEF ChunksOK
  <2>3. ControlOK'
    BY DEF ControlOK
  <2>4. ChunksInOrder'
    BY DEF ChunksOK, ChunksInOrder, InExecutor, InManager, InAdapter
  <2>5. StagesInOrder'
    BY DEF ControlOK, StagesInOrder, ErrorsInOrder
  <2>6. ErrorsInOrder'
    BY DEF ControlOK, ErrorsInOrder, StagesInOrder
  <2>7. ReturnsInOrder'
    BY DEF ReturnsInOrder, StagesInOrder, ErrorsInOrder
  <2> QED
    BY <2>1, <2>2, <2>3, <2>4, <2>5, <2>6, <2>7
<1>11. CASE HandlerWrites
  <2> USE <1>11 DEF HandlerWrites
  <2>0. toHandler \in 1..MaxChunks
    <3>1. InAdapter = 1 /\ InExecutor \in {0, 1} /\ InManager \in {0, 1}
      BY DEF InAdapter, InExecutor, InManager
    <3> QED
      BY <1>0, <3>1 DEF ChunksOK, ChunksInOrder
  <2>1. FlagsOK'
    BY DEF FlagsOK
  <2>2. ChunksOK'
    BY <2>0 DEF ChunksOK
  <2>3. ControlOK'
    BY DEF ControlOK
  <2>4. ChunksInOrder'
    <3>1. Len(received') = Len(received) + 1
      BY <2>0 DEF ChunksOK
    <3>2. /\ InAdapter = 1 /\ InAdapter' = 0
          /\ UNCHANGED <<sent, InExecutor, toManager, InManager, toAdapter>>
      BY DEF InAdapter, InExecutor, InManager
    <3> QED
      BY <1>0, <3>1, <3>2 DEF ChunksInOrder, InExecutor, InManager
  <2>5. StagesInOrder'
    BY DEF ControlOK, StagesInOrder, ErrorsInOrder
  <2>6. ErrorsInOrder'
    BY DEF ControlOK, ErrorsInOrder, StagesInOrder
  <2>7. ReturnsInOrder'
    BY DEF ReturnsInOrder, StagesInOrder, ErrorsInOrder
  <2> QED
    BY <2>1, <2>2, <2>3, <2>4, <2>5, <2>6, <2>7
<1>12. CASE HandlerSeesEnd
  <2> USE <1>12 DEF HandlerSeesEnd, Returns
  <2>1. FlagsOK'
    BY DEF FlagsOK
  <2>2. ChunksOK'
    BY DEF ChunksOK
  <2>3. ControlOK'
    BY DEF ControlOK
  <2>4. ChunksInOrder'
    BY DEF ChunksOK, ChunksInOrder, InExecutor, InManager, InAdapter
  <2>5. StagesInOrder'
    BY DEF ControlOK, StagesInOrder, ErrorsInOrder
  <2>6. ErrorsInOrder'
    BY DEF ControlOK, ErrorsInOrder, StagesInOrder
  <2>7. ReturnsInOrder'
    BY DEF ReturnsInOrder, StagesInOrder, ErrorsInOrder
  <2> QED
    BY <2>1, <2>2, <2>3, <2>4, <2>5, <2>6, <2>7
<1>13. CASE HandlerSeesError
  <2> USE <1>13 DEF HandlerSeesError, Returns
  <2>1. FlagsOK'
    BY DEF FlagsOK
  <2>2. ChunksOK'
    BY DEF ChunksOK
  <2>3. ControlOK'
    BY DEF ControlOK
  <2>4. ChunksInOrder'
    BY DEF ChunksOK, ChunksInOrder, InExecutor, InManager, InAdapter
  <2>5. StagesInOrder'
    BY DEF ControlOK, StagesInOrder, ErrorsInOrder
  <2>6. ErrorsInOrder'
    BY DEF ControlOK, ErrorsInOrder, StagesInOrder
  <2>7. ReturnsInOrder'
    BY DEF ReturnsInOrder, StagesInOrder, ErrorsInOrder
  <2> QED
    BY <2>1, <2>2, <2>3, <2>4, <2>5, <2>6, <2>7
<1>14. CASE HandlerSeesDisconnect
  <2> USE <1>14 DEF HandlerSeesDisconnect, Returns
  <2>1. FlagsOK'
    BY DEF FlagsOK
  <2>2. ChunksOK'
    BY DEF ChunksOK
  <2>3. ControlOK'
    BY DEF ControlOK
  <2>4. ChunksInOrder'
    BY DEF ChunksOK, ChunksInOrder, InExecutor, InManager, InAdapter
  <2>5. StagesInOrder'
    BY DEF ControlOK, StagesInOrder, ErrorsInOrder
  <2>6. ErrorsInOrder'
    BY DEF ControlOK, ErrorsInOrder, StagesInOrder
  <2>7. ReturnsInOrder'
    BY DEF ReturnsInOrder, StagesInOrder, ErrorsInOrder
  <2> QED
    BY <2>1, <2>2, <2>3, <2>4, <2>5, <2>6, <2>7
<1>15. CASE Disconnect
  <2> USE <1>15 DEF Disconnect
  <2>1. FlagsOK'
    BY DEF FlagsOK
  <2>2. ChunksOK'
    BY DEF ChunksOK
  <2>3. ControlOK'
    BY DEF ControlOK
  <2>4. ChunksInOrder'
    BY DEF ChunksOK, ChunksInOrder, InExecutor, InManager, InAdapter
  <2>5. StagesInOrder'
    BY DEF ControlOK, StagesInOrder, ErrorsInOrder
  <2>6. ErrorsInOrder'
    BY DEF ControlOK, ErrorsInOrder, StagesInOrder
  <2>7. ReturnsInOrder'
    BY DEF ReturnsInOrder, StagesInOrder, ErrorsInOrder
  <2> QED
    BY <2>1, <2>2, <2>3, <2>4, <2>5, <2>6, <2>7
<1>16. CASE UNCHANGED vars
  <2>1. FlagsOK'
    BY <1>16 DEF FlagsOK, vars
  <2>2. ChunksOK' /\ ControlOK'
    BY <1>16 DEF vars, ChunksOK, ControlOK
  <2>3. ChunksInOrder'
    BY <1>16 DEF vars, ChunksInOrder, InExecutor, InManager, InAdapter
  <2>4. StagesInOrder' /\ ErrorsInOrder' /\ ReturnsInOrder'
    BY <1>16 DEF vars, StagesInOrder, ErrorsInOrder, ReturnsInOrder
  <2> QED
    BY <2>1, <2>2, <2>3, <2>4
<1> QED
  BY <1>1, <1>2, <1>3, <1>4, <1>5, <1>6, <1>7, <1>8, <1>9, <1>10, <1>11, <1>12,
     <1>13, <1>14, <1>15, <1>16 DEF Next, Executor, Manager, Adapter, Handler

\* The inductive invariant: every reachable state has the chunks, the
\* goroutines and the recorded result in the order of the flow.
THEOREM PipelineInvariant == Spec => []PipelineInv
BY InvInit, InvStep, PTL DEF Spec

\* The result of the credential is recorded, once, before the client sees
\* the response end (the order of MarkResult and close(out) in manager.go).
THEOREM RecordedFirst == Spec => []RecordedBeforeEnd
<1>1. PipelineInv => RecordedBeforeEnd
  BY DEF PipelineInv, TypeOK, ControlOK, StagesInOrder, ErrorsInOrder, ReturnsInOrder,
     RecordedBeforeEnd, Started
<1> QED
  BY <1>1, PipelineInvariant, PTL

\* At most one result is recorded, and it says how the stream ended.
THEOREM RecordedTruth == Spec => []ResultTruthful
<1>1. PipelineInv => ResultTruthful
  BY DEF PipelineInv, TypeOK, ControlOK, StagesInOrder, ErrorsInOrder, ResultTruthful, Started
<1> QED
  BY <1>1, PipelineInvariant, PTL

\* The pipeline implements StreamRelay: the client gets the chunks once each,
\* in order, and no end of the response before the last of them.
THEOREM PromiseKept == Spec => KeepsPromise
<1>1. Init => Relay!Init
  BY DEF Init, Relay!Init
<1>2. PipelineInv /\ [Next]_vars => [Relay!Next]_(Relay!relayVars)
  <2> SUFFICES ASSUME PipelineInv, [Next]_vars
               PROVE  [Relay!Next]_(Relay!relayVars)
    OBVIOUS
  <2> USE DEF PipelineInv, executorVars, managerVars, adapterVars, handlerVars
  <2>1. CASE Opens \/ Manager \/ Adapter \/ Disconnect \/ UNCHANGED vars
    BY <2>1 DEF Opens, Manager, ManagerReceives, ManagerEnds, ExecutorSent, Adapter,
       AdapterReceives, AdapterEnds, AdapterCloses, ManagerSent, Disconnect, vars, Relay!relayVars
  <2>2. CASE OpenFails
    BY <2>2 DEF OpenFails, StagesInOrder, Relay!Next, Relay!End
  <2>3. CASE ExecutorReads
    BY <2>3 DEF ExecutorReads, StagesInOrder, Started, ExecutorHasError,
       Relay!Next, Relay!Send, Relay!relayVars
  <2>4. CASE ExecutorEnds \/ ExecutorFails
    BY <2>4 DEF ExecutorEnds, ExecutorFails, StagesInOrder, Started, ExecutorHasError,
       Relay!Next, Relay!End
  <2>5. CASE HandlerWrites
    <3>1. InAdapter = 1 /\ InExecutor \in {0, 1} /\ InManager \in {0, 1}
      BY <2>5 DEF HandlerWrites, InAdapter, InExecutor, InManager
    <3>2. Len(received) \in Nat /\ sent \in Nat
      BY MaxChunksAssumption DEF TypeOK, ChunksOK
    <3>3. Len(received) < sent /\ toHandler = Len(received) + 1
      BY <3>1, <3>2 DEF ChunksInOrder
    <3> QED
      BY <2>5, <3>3 DEF HandlerWrites, Relay!Next, Relay!Deliver
  <2>6. CASE HandlerSeesEnd \/ HandlerSeesError
    <3>1. executor \in {"off", "closed"} /\ manager # "send" /\ adapter # "send" /\ upstream # "open"
      BY <2>6 DEF HandlerSeesEnd, HandlerSeesError, Returns, TypeOK, ControlOK, StagesInOrder,
         ErrorsInOrder, Started, ExecutorHasError
    <3>2. Len(received) = sent
      BY <3>1, MaxChunksAssumption DEF ChunksInOrder, InExecutor, InManager, InAdapter, TypeOK, ChunksOK
    <3> QED
      BY <2>6, <3>1, <3>2 DEF HandlerSeesEnd, HandlerSeesError, Returns, Relay!Next, Relay!Finish
  <2>7. CASE HandlerSeesDisconnect
    BY <2>7 DEF HandlerSeesDisconnect, Returns, Relay!Next, Relay!Leave
  <2> QED
    BY <2>1, <2>2, <2>3, <2>4, <2>5, <2>6, <2>7 DEF Next, Executor, Handler
<1> QED
  BY <1>1, <1>2, PipelineInvariant, PTL DEF Spec, KeepsPromise, Relay!Spec

-----------------------------------------------------------------------------
(* ProviderCall. *)

Steps == {"idle", "preparing", "ready", "refused", "reading", "streaming", "returned", "done"}

CallTypes ==
  /\ provider \in [Requests -> Executors]
  /\ mode \in [Requests -> Modes]
  /\ pc \in [Requests -> Steps]
  /\ attempt \in [Requests -> Nat \ {0}]
  /\ body \in [Requests -> {"none", "open", "closed"}]
  /\ answer \in [Requests -> {Open, OK, 401, 429, ServerError}]
  /\ outcome = [r \in Requests |-> outcome[r]]

\* A body is open exactly while somebody reads it.
OpenWhileRead(r) == body[r] = "open" <=> pc[r] \in {"refused", "reading", "streaming"}

\* What the newest answer was at each step: a refusal leads to another attempt
\* or to the end.
AnswerInOrder(r) ==
  /\ pc[r] \in {"idle", "preparing"} => answer[r] = Open
  /\ pc[r] \in {"reading", "streaming"} => answer[r] = OK
  /\ pc[r] = "refused" => answer[r] \notin {Open, OK}
  /\ pc[r] = "ready" /\ answer[r] \notin {Open, OK} => attempt[r] > 1

\* A provider is only asked by a method that has one, and not more often than
\* the method allows.
AttemptsBounded(r) ==
  /\ pc[r] \in {"idle", "preparing"} => attempt[r] = 1
  /\ pc[r] \in {"ready", "refused", "reading", "streaming"} => M(r).local = {}
  /\ attempt[r] <= M(r).attempts

\* RefusalTold, of one request.
Told(r) ==
  pc[r] \in {"returned", "done"} /\ answer[r] \notin {Open, OK}
    => \/ outcome[r] = answer[r]
       \/ outcome[r] = Unreadable /\ M(r).strict
       \/ outcome[r] \in M(r).late \union {Transport} /\ attempt[r] > 1
       \/ outcome[r] = OutOfAttempts /\ provider[r] = "kiro" /\ attempt[r] = 3

CallOK(r) == OpenWhileRead(r) /\ AnswerInOrder(r) /\ AttemptsBounded(r) /\ Told(r)
CallInv == CallTypes /\ \A r \in Requests : CallOK(r)

\* Every method makes one attempt at least; kiro's make three, unless they do not
\* ask the provider.
LEMMA Attempts ==
  ASSUME CallTypes, NEW r \in Requests
  PROVE  /\ M(r).attempts \in Nat \ {0}
         /\ provider[r] = "kiro" /\ M(r).local = {} => M(r).attempts = 3
<1>0. provider[r] \in DOMAIN Method /\ mode[r] \in {"unary", "stream", "count"}
  BY ProviderAssumption DEF CallTypes, Modes
<1>14. Fallbacks \in Nat \ {0}
  BY ProviderAssumption
<1>1. CASE provider[r] = "claude"
  <2>1. M(r) \in {ClaudeExecute, ClaudeStream, ClaudeCount}
    BY <1>0, <1>1 DEF M, Method
  <2>2. /\ ClaudeExecute.attempts = 1 /\ ClaudeStream.attempts = 1
        /\ ClaudeCount.attempts = 1
    BY DEF ClaudeExecute, ClaudeStream, ClaudeCount, Plain
  <2> QED BY <1>1, <2>1, <2>2
<1>2. CASE provider[r] = "codex"
  <2>1. M(r) \in {CodexExecute, CodexStream, CodexCount}
    BY <1>0, <1>2 DEF M, Method
  <2>2. /\ CodexExecute.attempts = 1 /\ CodexStream.attempts = 1
        /\ CodexCount.attempts = 1
    BY DEF CodexExecute, CodexStream, CodexCount, Plain
  <2> QED BY <1>2, <2>1, <2>2
<1>3. CASE provider[r] = "gemini"
  <2>1. M(r) \in {GeminiExecute, GeminiStream, GeminiCount}
    BY <1>0, <1>3 DEF M, Method
  <2>2. /\ GeminiExecute.attempts = 1 /\ GeminiStream.attempts = 1
        /\ GeminiCount.attempts = 1
    BY DEF GeminiExecute, GeminiStream, GeminiCount, Plain
  <2> QED BY <1>3, <2>1, <2>2
<1>4. CASE provider[r] = "vertex"
  <2>1. M(r) \in {VertexExecute, VertexStream, VertexCount}
    BY <1>0, <1>4 DEF M, Method
  <2>2. /\ VertexExecute.attempts = 1 /\ VertexStream.attempts = 1
        /\ VertexCount.attempts = 1
    BY DEF VertexExecute, VertexStream, VertexCount, Plain
  <2> QED BY <1>4, <2>1, <2>2
<1>5. CASE provider[r] = "vertex-key"
  <2>1. M(r) \in {VertexKeyExecute, VertexKeyStream, VertexKeyCount}
    BY <1>0, <1>5 DEF M, Method
  <2>2. /\ VertexKeyExecute.attempts = 1 /\ VertexKeyStream.attempts = 1
        /\ VertexKeyCount.attempts = 1
    BY DEF VertexKeyExecute, VertexKeyStream, VertexKeyCount, Plain
  <2> QED BY <1>5, <2>1, <2>2
<1>6. CASE provider[r] = "qwen"
  <2>1. M(r) \in {QwenExecute, QwenStream, QwenCount}
    BY <1>0, <1>6 DEF M, Method
  <2>2. /\ QwenExecute.attempts = 1 /\ QwenStream.attempts = 1
        /\ QwenCount.attempts = 1
    BY DEF QwenExecute, QwenStream, QwenCount, Plain
  <2> QED BY <1>6, <2>1, <2>2
<1>7. CASE provider[r] = "openai-compat"
  <2>1. M(r) \in {CompatExecute, CompatStream, CompatCount}
    BY <1>0, <1>7 DEF M, Method
  <2>2. /\ CompatExecute.attempts = 1 /\ CompatStream.attempts = 1
        /\ CompatCount.attempts = 1
    BY DEF CompatExecute, CompatStream, CompatCount, Plain
  <2> QED BY <1>7, <2>1, <2>2
<1>8. CASE provider[r] = "iflow"
  <2>1. M(r) \in {IFlowExecute, IFlowStream, IFlowCount}
    BY <1>0, <1>8 DEF M, Method
  <2>2. /\ IFlowExecute.attempts = 1 /\ IFlowStream.attempts = 1
        /\ IFlowCount.attempts = 1
    BY DEF IFlowExecute, IFlowStream, IFlowCount, Plain
  <2> QED BY <1>8, <2>1, <2>2
<1>9. CASE provider[r] = "github-copilot"
  <2>1. M(r) \in {CopilotExecute, CopilotStream, CopilotCount}
    BY <1>0, <1>9 DEF M, Method
  <2>2. /\ CopilotExecute.attempts = 1 /\ CopilotStream.attempts = 1
        /\ CopilotCount.attempts = 1
    BY DEF CopilotExecute, CopilotStream, CopilotCount, Plain
  <2> QED BY <1>9, <2>1, <2>2
<1>10. CASE provider[r] = "gemini-cli"
  <2>1. M(r) \in {GeminiCLIExecute, GeminiCLIStream, GeminiCLICount}
    BY <1>0, <1>10 DEF M, Method
  <2>2. /\ GeminiCLIExecute.attempts = Fallbacks /\ GeminiCLIStream.attempts = Fallbacks
        /\ GeminiCLICount.attempts = Fallbacks
    BY DEF GeminiCLIExecute, GeminiCLIStream, GeminiCLICount, Plain
  <2> QED BY <1>10, <1>14, <2>1, <2>2
<1>11. CASE provider[r] = "antigravity"
  <2>1. M(r) \in {AntigravityExecute, AntigravityStream, AntigravityCount}
    BY <1>0, <1>11 DEF M, Method
  <2>2. /\ AntigravityExecute.attempts = Fallbacks /\ AntigravityStream.attempts = Fallbacks
        /\ AntigravityCount.attempts = 1
    BY DEF AntigravityExecute, AntigravityStream, AntigravityCount, Plain
  <2> QED BY <1>11, <1>14, <2>1, <2>2
<1>12. CASE provider[r] = "kiro"
  <2>1. M(r) \in {KiroExecute, KiroStream, KiroCount}
    BY <1>0, <1>12 DEF M, Method
  <2>2. KiroExecute.attempts = 3 /\ KiroStream.attempts = 3 /\ KiroCount.attempts = 1
        /\ KiroCount.local # {}
    BY DEF KiroExecute, KiroStream, KiroCount, Plain
  <2> QED BY <1>12, <2>1, <2>2
<1>13. CASE provider[r] = "aistudio"
  <2>1. M(r) \in {AIStudioExecute, AIStudioStream, AIStudioCount}
    BY <1>0, <1>13 DEF M, Method
  <2>2. /\ AIStudioExecute.attempts = 1 /\ AIStudioStream.attempts = 1
        /\ AIStudioCount.attempts = 1
    BY DEF AIStudioExecute, AIStudioStream, AIStudioCount, Plain
  <2> QED BY <1>13, <2>1, <2>2
<1> QED BY <1>0, <1>1, <1>2, <1>3, <1>4, <1>5, <1>6, <1>7, <1>8, <1>9, <1>10, <1>11, <1>12, <1>13 DEF Method

\* A step of one request leaves the others alone.
LEMMA OneCall ==
  ASSUME CallInv, NEW r \in Requests, CallTypes', CallOK(r)', UNCHANGED <<provider, mode>>,
         \A q \in Requests \ {r} :
           /\ pc'[q] = pc[q] /\ attempt'[q] = attempt[q] /\ body'[q] = body[q]
           /\ answer'[q] = answer[q] /\ outcome'[q] = outcome[q]
  PROVE  CallInv'
<1>1. ASSUME NEW q \in Requests \ {r} PROVE CallOK(q)'
  BY <1>1 DEF CallInv, CallOK, OpenWhileRead, AnswerInOrder, AttemptsBounded, Told, M
<1> QED BY <1>1 DEF CallInv

\* Where TryAgain and Fail lead: another attempt, if there is one, or the end.
Again(r) ==
  /\ attempt[r] < M(r).attempts /\ outcome' = outcome
  /\ attempt' = [attempt EXCEPT ![r] = @ + 1] /\ pc' = [pc EXCEPT ![r] = "ready"]
EndsWith(r, o) ==
  /\ attempt' = attempt /\ pc' = [pc EXCEPT ![r] = "returned"]
  /\ outcome' = [outcome EXCEPT ![r] = o]
LEMMA SkipOrFailLeads ==
  ASSUME CallTypes, NEW r \in Requests, NEW why, NEW o, SkipOrFail(r, why, o)
  PROVE  Again(r) \/ EndsWith(r, o)
BY DEF Again, EndsWith, SkipOrFail, Skips, TryAgain, Fail, Return

\* Every action of a call.
LEMMA CallKeeps ==
  ASSUME CallInv, NEW r \in Requests, Serve(r) \/ Call(r)
  PROVE  CallInv'
<1> USE DEF CallInv, CallTypes, CallOK, Steps, OK, ServerError, Open
<1> DEFINE Others == \A q \in Requests \ {r} :
             /\ pc'[q] = pc[q] /\ attempt'[q] = attempt[q] /\ body'[q] = body[q]
             /\ answer'[q] = answer[q] /\ outcome'[q] = outcome[q]
<1>1. M(r).attempts \in Nat \ {0} /\ (provider[r] = "kiro" /\ M(r).local = {} => M(r).attempts = 3)
  BY Attempts
<1>2. UNCHANGED <<provider, mode>> => M(r)' = M(r)
  BY DEF M
<1>3. CASE Serve(r)
  <2> USE <1>3 DEF Serve
  <2>1. CallTypes' /\ Others /\ UNCHANGED <<provider, mode>>
    OBVIOUS
  <2>2. CallOK(r)'
    BY <1>2 DEF OpenWhileRead, AnswerInOrder, AttemptsBounded, Told
  <2> QED BY <2>1, <2>2, OneCall
<1>4. CASE Respond(r)
  <2> USE <1>4 DEF Respond
  <2>1. CallTypes' /\ Others /\ UNCHANGED <<provider, mode>>
    OBVIOUS
  <2>2. CallOK(r)'
    BY <1>2 DEF OpenWhileRead, AnswerInOrder, AttemptsBounded, Told
  <2> QED BY <2>1, <2>2, OneCall
<1>5. CASE Prepare(r)
  <2>1. CallTypes' /\ Others /\ UNCHANGED <<provider, mode>>
    BY <1>5 DEF Prepare, Return
  <2>2. /\ pc[r] = "preparing" /\ UNCHANGED <<answer, body, attempt>>
        /\ \/ pc'[r] = "returned"
           \/ pc'[r] = "ready" /\ M(r).local = {}
    BY <1>5 DEF Prepare, Return
  <2>3. answer[r] = Open /\ attempt[r] = 1 /\ body[r] # "open"
    BY <2>2 DEF OpenWhileRead, AnswerInOrder, AttemptsBounded
  <2>4. OpenWhileRead(r)' /\ AnswerInOrder(r)' /\ Told(r)'
    BY <2>2, <2>3 DEF OpenWhileRead, AnswerInOrder, Told
  <2>5. M(r)' = M(r) /\ attempt[r] <= M(r).attempts
    BY <1>2, <2>1 DEF AttemptsBounded
  <2>6. AttemptsBounded(r)'
    BY ONLY <2>2, <2>3, <2>5 DEF AttemptsBounded
  <2> QED BY <2>1, <2>4, <2>6, OneCall
<1>6. CASE Read(r) \/ Eof(r) \/ Break(r)
  <2>1. /\ pc[r] \in {"reading", "streaming"}
        /\ pc' = [pc EXCEPT ![r] = "returned"] /\ body' = [body EXCEPT ![r] = "closed"]
        /\ UNCHANGED <<attempt, answer, provider, mode>>
    BY <1>6 DEF Read, Eof, Break, Fail, Return
  <2>2. \E o : outcome' = [outcome EXCEPT ![r] = o]
    BY <1>6 DEF Read, Eof, Break, Fail, Return
  <2>3. CallTypes' /\ Others
    <3>1. pc' \in [Requests -> Steps] /\ body' \in [Requests -> {"none", "open", "closed"}]
      BY <2>1
    <3>2. outcome' = [q \in Requests |-> outcome'[q]] /\ Others
      BY <2>1, <2>2
    <3> QED BY <2>1, <3>1, <3>2
  <2>4. CallOK(r)'
    BY <1>2, <2>1 DEF OpenWhileRead, AnswerInOrder, AttemptsBounded, Told
  <2> QED BY <2>1, <2>3, <2>4, OneCall
<1>7. CASE Line(r)
  <2> USE <1>7 DEF Line
  <2>1. CallTypes' /\ Others /\ UNCHANGED <<provider, mode>>
    OBVIOUS
  <2>2. CallOK(r)'
    BY <1>2 DEF OpenWhileRead, AnswerInOrder, AttemptsBounded, Told
  <2> QED BY <2>1, <2>2, OneCall
<1>8. CASE Send(r)
  <2>1. ASSUME NEW o \in M(r).late, Fail(r, o), UNCHANGED <<attempt, answer, body, provider, mode>>
        PROVE  CallInv'
    <3> USE <2>1 DEF Fail, Return
    <3>1. CallTypes' /\ Others
      OBVIOUS
    <3>2. CallOK(r)'
      BY <1>2, <1>8 DEF Send, OpenWhileRead, AnswerInOrder, AttemptsBounded, Told
    <3> QED BY <3>1, <3>2, OneCall
  <2>2. ASSUME SkipOrFail(r, "unsent", Transport), UNCHANGED <<answer, body, provider, mode>>
        PROVE  CallInv'
    <3>1. CallTypes' /\ Others
      BY <2>2, SkipOrFailLeads DEF Again, EndsWith
    <3>2. CallOK(r)'
      BY <1>1, <1>2, <1>8, <2>2, SkipOrFailLeads
      DEF Again, EndsWith, Send, OpenWhileRead, AnswerInOrder, AttemptsBounded, Told
    <3> QED BY <2>2, <3>1, <3>2, OneCall
  <2>3. ASSUME NEW status \in {OK, 401, 429, ServerError},
               answer' = [answer EXCEPT ![r] = status], body' = [body EXCEPT ![r] = "open"],
               pc' = [pc EXCEPT ![r] = IF status # OK THEN "refused"
                                       ELSE IF mode[r] = "stream" THEN "streaming" ELSE "reading"],
               UNCHANGED <<attempt, outcome, provider, mode>>
        PROVE  CallInv'
    <3> USE <2>3
    <3>1. CallTypes' /\ Others
      OBVIOUS
    <3>2. CallOK(r)'
      BY <1>2, <1>8 DEF Send, OpenWhileRead, AnswerInOrder, AttemptsBounded, Told
    <3> QED BY <3>1, <3>2, OneCall
  <2> QED BY <1>8, <2>1, <2>2, <2>3 DEF Send
<1>9. CASE Refused(r) \/ KiroRefused(r)
  <2>1. /\ pc[r] = "refused" /\ body' = [body EXCEPT ![r] = "closed"]
        /\ UNCHANGED <<answer, provider, mode>>
    BY <1>9 DEF Refused, KiroRefused
  <2>2. \/ Again(r) \/ EndsWith(r, answer[r])
        \/ M(r).strict /\ EndsWith(r, Unreadable)
        \/ provider[r] = "kiro" /\ ~(attempt[r] < M(r).attempts) /\ EndsWith(r, OutOfAttempts)
    <3>1. CASE Refused(r)
      <4>1. \/ SkipOrFail(r, "busy", answer[r])
            \/ Fail(r, answer[r]) /\ UNCHANGED attempt
            \/ M(r).strict /\ SkipOrFail(r, "unread", Unreadable)
        BY <3>1 DEF Refused
      <4>2. Fail(r, answer[r]) /\ UNCHANGED attempt => EndsWith(r, answer[r])
        BY DEF EndsWith, Fail, Return
      <4> QED BY <4>1, <4>2, SkipOrFailLeads
    <3>2. CASE KiroRefused(r)
      <4>1. \/ attempt[r] < M(r).attempts /\ TryAgain(r)
            \/ ~(attempt[r] < M(r).attempts) /\ Fail(r, OutOfAttempts) /\ UNCHANGED attempt
            \/ Fail(r, answer[r]) /\ UNCHANGED attempt
        BY <3>2 DEF KiroRefused
      <4>2. provider[r] = "kiro"
        BY <3>2 DEF KiroRefused
      <4> QED BY <4>1, <4>2 DEF Again, EndsWith, TryAgain, Fail, Return
    <3> QED BY <1>9, <3>1, <3>2
  <2>3. CallTypes' /\ Others
    BY <2>1, <2>2 DEF Again, EndsWith
  <2>4. CallOK(r)'
    BY <1>1, <1>2, <2>1, <2>2 DEF Again, EndsWith, OpenWhileRead, AnswerInOrder, AttemptsBounded, Told
  <2> QED BY <2>1, <2>3, <2>4, OneCall
<1> QED BY <1>3, <1>4, <1>5, <1>6, <1>7, <1>8, <1>9 DEF Call

\* A call keeps its response, its attempts and what it tells in order, for any
\* number of requests side by side.
THEOREM CallsInOrder == ProviderSpec => []CallInv
<1>1. ProviderInit => CallInv
  <2> SUFFICES ASSUME ProviderInit PROVE CallInv
    OBVIOUS
  <2>1. CallTypes
    BY DEF ProviderInit, CallTypes, Steps
  <2>2. ASSUME NEW r \in Requests PROVE CallOK(r)
    BY <2>1, Attempts DEF ProviderInit, CallOK, OpenWhileRead, AnswerInOrder, AttemptsBounded, Told
  <2> QED BY <2>1, <2>2 DEF CallInv
<1>2. CallInv /\ [ProviderNext]_providerVars => CallInv'
  <2> SUFFICES ASSUME CallInv, [ProviderNext]_providerVars PROVE CallInv'
    OBVIOUS
  <2>1. CASE UNCHANGED callVars
    BY <2>1 DEF CallInv, CallTypes, CallOK, OpenWhileRead, AnswerInOrder, AttemptsBounded, Told,
                M, callVars
  <2>2. CASE ProviderNext
    BY <2>1, <2>2, CallKeeps DEF ProviderNext
  <2> QED BY <2>1, <2>2 DEF providerVars
<1> QED BY <1>1, <1>2, PTL DEF ProviderSpec

\* No way out of a call leaves a response open (the Close calls of every
\* provider).
THEOREM ResponsesClosed == ProviderSpec => []BodiesClosed
<1>1. CallInv => BodiesClosed
  BY DEF CallInv, CallOK, OpenWhileRead, BodiesClosed
<1> QED BY <1>1, CallsInOrder, PTL

\* A refusal is told with its status, or with what the provider puts in its
\* place; the manager's cooldowns depend on it.
THEOREM RefusalsTold == ProviderSpec => []RefusalTold
<1>1. CallInv => RefusalTold
  BY DEF CallInv, CallOK, Told, RefusalTold
<1> QED BY <1>1, CallsInOrder, PTL
=============================================================================
