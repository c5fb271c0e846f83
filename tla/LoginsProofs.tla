----------------------------- MODULE LoginsProofs -----------------------------
(* Proofs about Logins. *)
EXTENDS Logins, TLAPS

\* Commands have no handler; a goroutine is started when the forwarder is there;
\* who stops a forwarder in the end is a goroutine with one of its own.
ProcessesInOrder ==
  \A l \in Logins :
    /\ way[l] = "webui" => provider \in ByCallback
    /\ way[l] = "cli" => handler[l] = "new"
    /\ handler[l] \in {"closing", "listening", "putting", "going"} => way[l] = "webui"
    /\ way[l] = "webui" /\ handler[l] \notin {"setting", "replied"} => run[l] = "none"
    /\ way[l] # "cli" => run[l] \notin {"shutting", "hung", "refused"}
    /\ way[l] = "cli" => run[l] \notin {"deleting", "ending", "stopping"}
    /\ run[l] \in {"ending", "stopping"} => way[l] = "webui"

\* A forwarder in the table, or in hand, is that of a login whose handler has
\* put it there; its own goroutine has not yet emptied the table.
ForwardersInOrder ==
  /\ \A l \in Logins : forwarder = l =>
       /\ way[l] = "webui" /\ handler[l] \in {"going", "setting", "replied"}
       /\ run[l] \notin {"stopping", "over"}
  /\ \A l, m \in Logins : taken[m] = l =>
       way[l] = "webui" /\ handler[l] \in {"going", "setting", "replied"}
  /\ \A l \in Logins : taken[l] # None => handler[l] = "closing" \/ run[l] = "stopping"

\* Whose server is on a port: a forwarder's that will be put into the table, is
\* there, or is in hand; a command's while it runs.
ServersInOrder ==
  /\ \A l \in Logins : handler[l] = "putting" => listener[1] = l
  /\ \A l \in Logins, n \in Ports(provider) : listener[n] = l =>
       \/ /\ way[l] = "webui"
          /\ handler[l] = "putting" \/ forwarder = l \/ \E m \in Logins : taken[m] = l
       \/ /\ way[l] = "cli"
          /\ run[l] \notin {"none", "refused", "hung", "over"}

PortInv == TypeOK /\ ProcessesInOrder /\ ForwardersInOrder /\ ServersInOrder

\* What a step of a goroutine or a command does to all this: it starts as a
\* command, maybe with a server of its own; goes on; or ends, or hangs, and has
\* no server any more unless it is a goroutine.
Untouched == UNCHANGED <<provider, way, handler, forwarder, taken>>
Begun == {"waiting", "polling", "exchanging"}
Running == Begun \union {"shutting", "choosing", "onboarding", "enabling",
                         "closing", "saving", "mirroring", "deleting"}
Starts(l) ==
  /\ way[l] = "cli" /\ run[l] = "none"
  /\ \/ \E to \in Begun \union {"refused"} : Goes(l, to) /\ listener' = listener
     \/ \E n \in Ports(provider) :
          /\ listener[n] = None /\ listener' = [listener EXCEPT ![n] = l]
          /\ Goes(l, "waiting")
GoesOn(l) ==
  /\ run[l] \in Running
  /\ \/ run' = run
     \/ \E to \in Running :
          /\ to = "shutting" => way[l] = "cli"
          /\ to = "deleting" => way[l] # "cli"
          /\ Goes(l, to)
  /\ listener' = listener \/ listener' = Free(l)
Ends(l) ==
  /\ run[l] \in Running
  /\ \/ Over(l) /\ (listener' = Free(l) \/ (way[l] # "cli" /\ listener' = listener))
     \/ way[l] = "cli" /\ Goes(l, "hung") /\ listener' = Free(l)
PlainStep(l) == Untouched /\ (Starts(l) \/ GoesOn(l) \/ Ends(l))

LEMMA PlainSteps ==
  ASSUME PortInv, NEW l \in Logins, RunStep(l)
  PROVE  PlainStep(l) \/ TakeForwarder(l) \/ CloseTaken(l)
<1> USE DEF Untouched, Begun, Running, PlainStep, Goes, Stays
<1>1. ASSUME Fail(l), run[l] \in Running, Untouched PROVE PlainStep(l)
  BY <1>1 DEF Fail, Ends, Asked, Tell
<1>2. CASE Serve(l) \/ ServeGemini(l)
  BY <1>2 DEF Serve, ServeGemini, ServeOn, Refuse, Free1, unchangedByCommand, Starts, Ports
<1>3. CASE ServeKiro(l)
  BY <1>3 DEF ServeKiro, ServeOn, Refuse, unchangedByCommand, Starts, Ports, Lowest
<1>4. CASE OpenDevice(l) \/ OpenFile(l)
  BY <1>4 DEF OpenDevice, OpenFile, Refuse, unchangedByCommand, Starts
<1>5. CASE ReadCallback(l) \/ ReadResult(l)
  BY <1>1, <1>5 DEF ReadCallback, ReadResult, unchangedByRun, GoesOn
<1>6. CASE Timeout(l)
  BY <1>1, <1>6 DEF Timeout, unchangedByRun
<1>7. CASE ShutDown(l)
  BY <1>7 DEF ShutDown, unchangedByRun, GoesOn, Ends, PortInv, ProcessesInOrder, TypeOK
<1>8. CASE Poll(l)
  BY <1>1, <1>8 DEF Poll, unchangedByRun, GoesOn
<1>9. CASE Exchange(l) \/ CloseServer(l)
  BY <1>1, <1>9 DEF Exchange, CloseServer, AfterExchange, unchangedByRun, GoesOn
<1>10. CASE Choose(l)
  BY <1>1, <1>10 DEF Choose, unchangedByRun, GoesOn
<1>11. CASE Onboard(l) \/ Enable(l)
  BY <1>1, <1>11 DEF Onboard, Enable, unchangedByRun, GoesOn
<1>12. CASE Save(l)
  BY <1>1, <1>12 DEF Save, unchangedByEnd, GoesOn
<1>13. CASE Mirror(l)
  BY <1>1, <1>13 DEF Mirror, unchangedByEnd, GoesOn, Ends, Asked, Tell
<1>14. CASE DeleteStatus(l)
  BY <1>14 DEF DeleteStatus, unchangedByEnd, Ends, server, PortInv, ProcessesInOrder
<1> QED BY <1>2, <1>3, <1>4, <1>5, <1>6, <1>7, <1>8, <1>9, <1>10, <1>11, <1>12, <1>13, <1>14
        DEF RunStep

\* Every step of a goroutine or a command that leaves the forwarders alone.
LEMMA PlainKeeps ==
  ASSUME PortInv, NEW l \in Logins, PlainStep(l)
  PROVE  PortInv'
<1> USE LoginsAssumption
    DEF PortInv, PlainStep, Untouched, Starts, GoesOn, Ends, Running, Begun, Goes, Over, Free
<1>1. TypeOK'
  BY DEF TypeOK, Ports
<1>2. ProcessesInOrder'
  BY DEF TypeOK, ProcessesInOrder
<1>3. ForwardersInOrder'
  BY DEF TypeOK, ProcessesInOrder, ForwardersInOrder
<1>4. ServersInOrder'
  <2>1. ASSUME NEW m \in Logins, handler'[m] = "putting" PROVE listener'[1] = m
    BY <2>1 DEF TypeOK, ProcessesInOrder, ServersInOrder, Ports
  <2>2. ASSUME NEW m \in Logins, NEW n \in Ports(provider), listener'[n] = m, m # l
        PROVE  listener[n] = m /\ run'[m] = run[m]
    BY <2>2 DEF TypeOK
  <2>3. ASSUME NEW n \in Ports(provider), listener'[n] = l, way[l] = "webui"
        PROVE  listener[n] = l
    BY <2>3 DEF TypeOK
  <2>4. ASSUME NEW n \in Ports(provider), listener'[n] = l, way[l] = "cli"
        PROVE  run'[l] \notin {"none", "refused", "hung", "over"}
    BY <2>4 DEF TypeOK, ServersInOrder
  <2>5. ASSUME NEW n \in Ports(provider), listener'[n] = l
        PROVE  way[l] = "webui" \/ way[l] = "cli"
    BY <2>5 DEF TypeOK, ServersInOrder
  <2> QED BY <2>1, <2>2, <2>3, <2>4, <2>5 DEF ServersInOrder
<1> QED BY <1>1, <1>2, <1>3, <1>4

\* The steps that take a forwarder out of the table, and close it.
LEMMA ForwarderKeeps ==
  ASSUME PortInv, NEW l \in Logins,
         TakePrevious(l) \/ StopPrevious(l) \/ TakeForwarder(l) \/ CloseTaken(l)
  PROVE  PortInv'
<1> USE LoginsAssumption
    DEF PortInv, TakePrevious, StopPrevious, TakeForwarder, CloseTaken, Handler, Goes, Free,
        unchangedByHandler, unchangedByEnd
<1>1. TypeOK'
  BY DEF TypeOK
<1>2. ProcessesInOrder'
  BY DEF TypeOK, ProcessesInOrder
<1>3. taken[l] = None \/ StopPrevious(l) \/ CloseTaken(l)
  BY DEF TypeOK, ProcessesInOrder, ForwardersInOrder
<1>4. ForwardersInOrder'
  BY <1>3 DEF TypeOK, ProcessesInOrder, ForwardersInOrder
<1>5. ServersInOrder'
  <2>1. ASSUME NEW m \in Logins, handler'[m] = "putting" PROVE listener'[1] = m
    BY <2>1 DEF TypeOK, ProcessesInOrder, ForwardersInOrder, ServersInOrder, Ports
  <2>2. ASSUME NEW m \in Logins, NEW n \in Ports(provider), listener'[n] = m, way[m] = "cli"
        PROVE  run'[m] \notin {"none", "refused", "hung", "over"}
    BY <2>2 DEF TypeOK, ProcessesInOrder, ServersInOrder
  <2>3. ASSUME NEW m \in Logins, NEW n \in Ports(provider), listener'[n] = m, way[m] = "webui"
        PROVE  handler'[m] = "putting" \/ forwarder' = m \/ \E k \in Logins : taken'[k] = m
    BY <1>3, <2>3 DEF TypeOK, ServersInOrder
  <2>4. ASSUME NEW m \in Logins, NEW n \in Ports(provider), listener'[n] = m
        PROVE  way[m] = "webui" \/ way[m] = "cli"
    BY <2>4 DEF TypeOK, ServersInOrder
  <2> QED BY <2>1, <2>2, <2>3, <2>4 DEF ServersInOrder
<1> QED BY <1>1, <1>2, <1>4, <1>5

\* The other steps of a handler.
LEMMA HandlerKeeps ==
  ASSUME PortInv, NEW l \in Logins,
         Listen(l) \/ PutForwarder(l) \/ Go(l) \/ GoQwen(l) \/ GoCookie(l) \/ Reply(l)
  PROVE  PortInv'
<1> USE LoginsAssumption
    DEF PortInv, Handler, Goes, Tell, unchangedByHandler, server, Ports, ByCallback
<1>1. CASE Listen(l)
  <2> USE <1>1 DEF Listen
  <2>1. TypeOK'
    BY DEF TypeOK
  <2>2. ProcessesInOrder'
    BY DEF TypeOK, ProcessesInOrder
  <2>3. ForwardersInOrder'
    BY DEF TypeOK, ProcessesInOrder, ForwardersInOrder
  <2>4. ServersInOrder'
    BY DEF TypeOK, ProcessesInOrder, ServersInOrder
  <2> QED BY <2>1, <2>2, <2>3, <2>4
<1>2. CASE PutForwarder(l)
  <2> USE <1>2 DEF PutForwarder
  <2>1. TypeOK'
    BY DEF TypeOK
  <2>2. ProcessesInOrder'
    BY DEF TypeOK, ProcessesInOrder
  <2>3. ForwardersInOrder'
    BY DEF TypeOK, ProcessesInOrder, ForwardersInOrder
  <2>4. ServersInOrder'
    BY DEF TypeOK, ProcessesInOrder, ServersInOrder
  <2> QED BY <2>1, <2>2, <2>3, <2>4
<1>3. CASE Go(l) \/ GoQwen(l) \/ GoCookie(l) \/ Reply(l)
  <2>1. /\ UNCHANGED <<provider, way, forwarder, taken, listener>>
        /\ \E to \in {"setting", "refused", "replied"} : handler' = [handler EXCEPT ![l] = to]
        /\ \/ UNCHANGED run
           \/ /\ handler[l] \in {"new", "going"}
              /\ \E to \in {"waiting", "polling", "exchanging"} : run' = [run EXCEPT ![l] = to]
        /\ way[l] # "cli"
        /\ way[l] = "webui" =>
             handler[l] \in {"going", "setting"} /\ handler'[l] \in {"setting", "replied"}
    <3>1. CASE Go(l)
      BY <3>1 DEF Go, TypeOK
    <3>2. CASE GoQwen(l)
      BY <3>2 DEF GoQwen, TypeOK
    <3>3. CASE GoCookie(l)
      BY <3>3 DEF GoCookie, TypeOK
    <3>4. CASE Reply(l)
      BY <3>4 DEF Reply, TypeOK, ProcessesInOrder
    <3> QED BY <1>3, <3>1, <3>2, <3>3, <3>4
  <2>2. TypeOK'
    BY <2>1 DEF TypeOK
  <2>3. ProcessesInOrder'
    BY <2>1 DEF TypeOK, ProcessesInOrder
  <2>4. ForwardersInOrder'
    BY <2>1 DEF TypeOK, ProcessesInOrder, ForwardersInOrder
  <2>5. ServersInOrder'
    BY <2>1 DEF TypeOK, ProcessesInOrder, ServersInOrder
  <2> QED BY <2>2, <2>3, <2>4, <2>5
<1> QED BY <1>1, <1>2, <1>3

\* A browser, an endpoint that fills its file and who asks for the outcome leave
\* the processes and ports alone.
LEMMA OthersKeep ==
  ASSUME PortInv, UNCHANGED <<provider, way, handler, run, server>>
  PROVE  PortInv'
BY DEF PortInv, TypeOK, ProcessesInOrder, ForwardersInOrder, ServersInOrder, server

\* Two logins of one provider, in any interleaving of their handlers, goroutines
\* and commands, keep the table of forwarders and the ports in order.
THEOREM PortsInOrder == Spec => []PortInv
<1>1. Init => PortInv
  BY LoginsAssumption
  DEF Init, PortInv, TypeOK, ProcessesInOrder, ForwardersInOrder, ServersInOrder, Ways, ByCallback
<1>2. PortInv /\ [Next]_vars => PortInv'
  <2> SUFFICES ASSUME PortInv, [Next]_vars PROVE PortInv'
    OBVIOUS
  <2>1. CASE UNCHANGED vars
    BY <2>1, OthersKeep DEF vars, server
  <2>2. ASSUME NEW l \in Logins, HandlerStep(l) PROVE PortInv'
    BY <2>2, ForwarderKeeps, HandlerKeeps DEF HandlerStep
  <2>3. ASSUME NEW l \in Logins, RunStep(l) PROVE PortInv'
    BY <2>3, PlainSteps, PlainKeeps, ForwarderKeeps
  <2>4. ASSUME NEW l \in Logins, AskStatus(l) \/ BrowserCalls(l) \/ EndWrite(l) PROVE PortInv'
    BY <2>4, OthersKeep DEF AskStatus, BrowserCalls, EndWrite, unchangedByHandler
  <2> QED BY <2>1, <2>2, <2>3, <2>4 DEF Next
<1> QED BY <1>1, <1>2, PTL DEF Spec

\* A login that is over leaves no server on the port that the next one would not
\* stop (startCallbackForwarder and stopCallbackForwarder, and the commands'
\* servers), whatever the number of logins and the way each one is started.
THEOREM PortsReleased == Spec => []PortReleased
<1>1. PortInv => PortReleased
  BY DEF PortInv, ProcessesInOrder, ForwardersInOrder, ServersInOrder, PortReleased
<1> QED BY <1>1, PortsInOrder, PTL
-----------------------------------------------------------------------------
\* A callback file holds the code of its own login's browser, or none, for it is
\* named after the state; what a command's server hands on may be another's, but
\* then its state is the other's too.
FilesOwn ==
  \A l \in Logins :
    /\ file[l] # None => file[l].code \in {NoCode, l}
    /\ writing[l] # None => writing[l].code \in {NoCode, l}
ResultsTrue ==
  \A l \in Logins :
    result[l] # None /\ provider # "gemini" => result[l].code \in {NoCode, result[l].state}
PerLogin(f) == f = [l \in Logins |-> f[l]]
CodeInv ==
  /\ PerLogin(file) /\ PerLogin(writing) /\ PerLogin(result) /\ PerLogin(code)
  /\ FilesOwn /\ ResultsTrue /\ OwnCode

\* A browser's call: the file of a state, or the channel of a server.
LEMMA CallsKeepCodes ==
  ASSUME CodeInv, NEW l \in Logins, BrowserCalls(l)
  PROVE  CodeInv'
<1>1. PICK got \in {Callback(l, StateOf(l), FALSE), Callback(NoCode, StateOf(l), TRUE)} :
        \/ BeginWrite(got) /\ UNCHANGED <<result, blocked>>
        \/ UNCHANGED <<file, writing, result, blocked>>
        \/ ToCommands(got)
  BY DEF BrowserCalls
<1>2. UNCHANGED <<provider, way, code>>
  BY DEF BrowserCalls, grant
<1>3. got.code \in {NoCode, l} /\ got.state = StateOf(l)
  BY DEF Callback
<1>4. StateOf(l) = l \/ (provider = "gemini" /\ StateOf(l) \notin Logins)
  BY LoginsAssumption DEF StateOf
<1>5. CASE BeginWrite(got) /\ UNCHANGED <<result, blocked>>
  BY <1>1, <1>2, <1>3, <1>4, <1>5
  DEF CodeInv, BeginWrite, PerLogin, FilesOwn, ResultsTrue, OwnCode, Unreadable, Callback
<1>6. CASE UNCHANGED <<file, writing, result, blocked>>
  BY <1>2, <1>6 DEF CodeInv, PerLogin, FilesOwn, ResultsTrue, OwnCode
<1>7. CASE ToCommands(got)
  <2>1. provider # "gemini" => Handed(got).code \in {NoCode, Handed(got).state}
    BY <1>3, <1>4 DEF Handed, ClaudeServer, CodexServer, AntigravityServer, IFlowServer,
                      KiroServer, Refusal, Callback
  <2>2. \A m \in Logins : result'[m] \in {result[m], Handed(got)}
    BY <1>7 DEF ToCommands
  <2>3. PerLogin(result') /\ UNCHANGED <<file, writing>>
    BY <1>7 DEF ToCommands, PerLogin
  <2> QED BY <1>2, <2>1, <2>2, <2>3 DEF CodeInv, PerLogin, FilesOwn, ResultsTrue, OwnCode
<1> QED BY <1>1, <1>5, <1>6, <1>7

\* What a process reads is the code of its own browser, or its state is compared.
LEMMA ReadsKeepCodes ==
  ASSUME CodeInv, NEW l \in Logins, ReadCallback(l) \/ ReadResult(l)
  PROVE  CodeInv'
<1> USE DEF CodeInv, PerLogin, FilesOwn, ResultsTrue, OwnCode, unchangedByRun
<1>1. CASE ReadCallback(l)
  <2>1. code' \in {code, [code EXCEPT ![l] = file[l].code]}
    BY <1>1 DEF ReadCallback
  <2>2. file[l].code \in {NoCode, l}
    BY <1>1 DEF ReadCallback
  <2> QED BY <1>1, <2>1, <2>2 DEF ReadCallback
<1>2. CASE ReadResult(l)
  <2>1. /\ UNCHANGED <<provider, way, file, writing>>
        /\ result' = [result EXCEPT ![l] = None]
        /\ \/ code' = code
           \/ MayExchange(result[l], l) /\ code' = [code EXCEPT ![l] = result[l].code]
    BY <1>2 DEF ReadResult
  <2>2. MayExchange(result[l], l) =>
          result[l].code \in {NoCode, l} \/ (provider = "gemini" /\ way[l] = "cli")
    BY <1>2 DEF ReadResult, MayExchange, ClaudeLogin, CodexLogin, AntigravityLogin,
                IFlowLogin, KiroSocialLogin
  <2> QED BY <2>1, <2>2
<1> QED BY <1>1, <1>2

\* No login exchanges the code of another's browser, but Gemini's on the command
\* line: for any number of logins, browsers that call back at any server, and
\* files read half written.
THEOREM OwnCodes == Spec => []OwnCode
<1>1. Init => CodeInv
  BY DEF Init, CodeInv, PerLogin, FilesOwn, ResultsTrue, OwnCode
<1>2. CodeInv /\ [Next]_vars => CodeInv'
  <2> SUFFICES ASSUME CodeInv, [Next]_vars PROVE CodeInv'
    OBVIOUS
  <2>1. ASSUME UNCHANGED <<provider, way, file, writing, result, code>> PROVE CodeInv'
    BY <2>1 DEF CodeInv, PerLogin, FilesOwn, ResultsTrue, OwnCode
  <2>2. CASE UNCHANGED vars
    BY <2>1, <2>2 DEF vars
  <2>3. ASSUME NEW l \in Logins, HandlerStep(l) \/ AskStatus(l) PROVE CodeInv'
    BY <2>1, <2>3
    DEF HandlerStep, AskStatus, TakePrevious, StopPrevious, Listen, PutForwarder, Go, GoQwen,
        GoCookie, Reply, unchangedByHandler, browser, grant
  <2>4. ASSUME NEW l \in Logins, EndWrite(l) PROVE CodeInv'
    BY <2>4 DEF EndWrite, CodeInv, PerLogin, FilesOwn, ResultsTrue, OwnCode, grant
  <2>5. ASSUME NEW l \in Logins, RunStep(l) PROVE CodeInv'
    <3>1. CASE ReadCallback(l) \/ ReadResult(l)
      BY <2>5, <3>1, ReadsKeepCodes
    <3>2. CASE Serve(l) \/ ServeGemini(l) \/ ServeKiro(l) \/ OpenDevice(l) \/ OpenFile(l)
      BY <2>1, <3>2
      DEF Serve, ServeGemini, ServeKiro, OpenDevice, OpenFile, unchangedByCommand, browser, grant
    <3>3. CASE Timeout(l) \/ ShutDown(l) \/ Poll(l) \/ CloseServer(l)
      BY <2>1, <3>3 DEF Timeout, ShutDown, Poll, CloseServer, unchangedByRun, grant
    <3>4. CASE Exchange(l) \/ Choose(l) \/ Onboard(l) \/ Enable(l)
      BY <2>1, <3>4 DEF Exchange, Choose, Onboard, Enable, unchangedByRun
    <3>5. CASE Save(l) \/ Mirror(l) \/ DeleteStatus(l) \/ TakeForwarder(l) \/ CloseTaken(l)
      BY <2>1, <3>5
      DEF Save, Mirror, DeleteStatus, TakeForwarder, CloseTaken, unchangedByEnd, browser, grant
    <3> QED BY <2>5, <3>1, <3>2, <3>3, <3>4, <3>5 DEF RunStep
  <2> QED BY <2>2, <2>3, <2>4, <2>5, CallsKeepCodes DEF Next
<1>3. CodeInv => OwnCode
  BY DEF CodeInv
<1> QED BY <1>1, <1>2, <1>3, PTL DEF Spec
-----------------------------------------------------------------------------
(* Records: what they are called, who has stored one, and what is told. *)

Early == {"none", "refused", "waiting", "polling", "shutting", "hung", "exchanging"}
Late == {"choosing", "onboarding", "enabling", "closing", "saving"}
Finished == {"mirroring", "deleting", "ending", "stopping", "over"}
Browsers == Logins \union {NoCode}

RecordTypes ==
  /\ name \in [Logins -> Logins \union {Nameless, None}]
  /\ store \in [Logins \union {Nameless} -> Logins \union {None, Broken}]
  /\ persisted \in [Logins -> {"no", "broken", "unmirrored", "yes"}]
  /\ status \in [Logins -> {"absent", "", "error"}]
  /\ told \in [Logins -> {"nothing", "ok", "error"}]

\* Codes are those of browsers that were sent to the services.
CodesKnown ==
  /\ code \in [Logins -> Browsers]
  /\ PerLogin(file) /\ PerLogin(writing) /\ PerLogin(result)
  /\ \A l \in Logins :
       /\ file[l] # None => file[l].code \in Browsers
       /\ writing[l] # None => writing[l].code \in Browsers
       /\ result[l] # None => result[l].code \in Browsers

\* A login names its record once, before it saves it.
NamesInOrder ==
  \A l \in Logins :
    /\ run[l] \in Early => name[l] = None
    /\ run[l] \in Late \union {"mirroring", "deleting"} => name[l] # None
    /\ run[l] \in Early \union Late \union {"mirroring"} => persisted[l] = "no"
    /\ way[l] # "cli" /\ handler[l] \in {"new", "refused"} => run[l] = "none"

\* What is stored is the record of a login that has written it, under its name,
\* or was broken by the save of a login of that name.
StoreInOrder ==
  \A n \in Logins \union {Nameless} :
    /\ \A l \in Logins : store[n] = l => name[l] = n /\ run[l] \in Finished
    /\ store[n] = Broken => \E l \in Logins : name[l] = n /\ persisted[l] = "broken"

\* A file was written under the login's name; its save went well.
Written(l) == name[l] # None /\ store[name[l]] # None
Kept(l) == Written(l) /\ persisted[l] = "yes"

\* Gemini through the management API without an e-mail.
Unnamed(l) == provider = "gemini" /\ Asked(l) /\ name[l] = Nameless

SuccessTrue ==
  \A l \in Logins :
    /\ run[l] = "mirroring" => Written(l)
    /\ \/ told[l] = "ok"
       \/ run[l] = "deleting"
       \/ Asked(l) /\ handler[l] = "replied" /\ told[l] = "nothing" /\ status[l] = "absent"
       => Kept(l)
FailureTrue ==
  \A l \in Logins : told[l] = "error" \/ status[l] = "error" =>
    \/ Unnamed(l)
    \/ /\ Stored(l) => persisted[l] = "unmirrored"
       /\ run[l] \in {"refused", "ending", "stopping", "over"} \/ handler[l] = "refused"

RecordsTrue == RecordTypes /\ NamesInOrder /\ StoreInOrder /\ SuccessTrue /\ FailureTrue
RecordInv == CodesKnown /\ RecordsTrue

\* A browser's call, an endpoint that fills its file, and who reads them.
LEMMA CodesStayKnown ==
  ASSUME CodesKnown, NEW l \in Logins,
         BrowserCalls(l) \/ EndWrite(l) \/ ReadCallback(l) \/ ReadResult(l)
  PROVE  CodesKnown'
<1> USE DEF CodesKnown, PerLogin, Browsers
<1>1. CASE BrowserCalls(l)
  <2>1. PICK got \in {Callback(l, StateOf(l), FALSE), Callback(NoCode, StateOf(l), TRUE)} :
          \/ BeginWrite(got) /\ UNCHANGED <<result, blocked>>
          \/ UNCHANGED <<file, writing, result, blocked>>
          \/ ToCommands(got)
    BY <1>1 DEF BrowserCalls
  <2>2. UNCHANGED code
    BY <1>1 DEF BrowserCalls, grant
  <2>3. got.code \in {NoCode, l}
    BY DEF Callback
  <2>4. CASE BeginWrite(got) /\ UNCHANGED <<result, blocked>>
    BY <2>2, <2>3, <2>4 DEF BeginWrite, Unreadable, Callback
  <2>5. CASE UNCHANGED <<file, writing, result, blocked>>
    BY <2>2, <2>5
  <2>6. CASE ToCommands(got)
    <3>1. Handed(got).code \in {NoCode, l}
      BY <2>3 DEF Handed, ClaudeServer, CodexServer, GeminiServer, AntigravityServer, IFlowServer,
                  KiroServer, Refusal, Callback
    <3>2. \A m \in Logins : result'[m] \in {result[m], Handed(got)}
      BY <2>6 DEF ToCommands
    <3>3. PerLogin(result') /\ UNCHANGED <<file, writing>>
      BY <2>6 DEF ToCommands
    <3> QED BY <2>2, <3>1, <3>2, <3>3
  <2> QED BY <2>1, <2>4, <2>5, <2>6
<1>2. CASE EndWrite(l)
  BY <1>2 DEF EndWrite, grant
<1>3. CASE ReadCallback(l)
  <2>1. file[l].code \in Browsers
    BY <1>3 DEF ReadCallback
  <2> QED BY <1>3, <2>1 DEF ReadCallback
<1>4. CASE ReadResult(l)
  <2>1. result[l].code \in Browsers
    BY <1>4 DEF ReadResult
  <2> QED BY <1>4, <2>1 DEF ReadResult
<1> QED BY <1>1, <1>2, <1>3, <1>4

\* What the steps of a login do to its record and to what is told of it.
Unrecorded == UNCHANGED <<provider, way, name, store, persisted>>
Moves(l, to) == run' = [run EXCEPT ![l] = to]
Handles(l, to) == handler' = [handler EXCEPT ![l] = to]
Failing == (Early \ {"none", "refused", "hung"}) \union Late

SameStage(from, to) ==
  \/ from \in Early \ {"refused"} /\ to \in Early
  \/ from \in Late /\ to \in Late
  \/ from \in {"ending", "stopping"} /\ to \in {"stopping", "over"}
Walks(l) ==
  /\ Unrecorded /\ UNCHANGED <<handler, status, told>>
  /\ run[l] = "none" => way[l] = "cli"
  /\ \/ UNCHANGED run
     \/ \E to \in Early \union Late \union {"stopping", "over"} :
          SameStage(run[l], to) /\ Moves(l, to)
Errs(l) ==
  /\ \E to \in {"ending", "over"} : Moves(l, to)
  /\ \/ Asked(l) /\ status' = [status EXCEPT ![l] = "error"] /\ UNCHANGED told
     \/ told' = [told EXCEPT ![l] = "error"] /\ UNCHANGED status
Fails(l) ==
  /\ Unrecorded /\ UNCHANGED handler
  /\ run[l] \in Failing /\ Errs(l)
Refuses(l) ==
  /\ Unrecorded /\ UNCHANGED status
  /\ told' = [told EXCEPT ![l] = "error"]
  /\ \/ way[l] = "cli" /\ run[l] = "none" /\ Moves(l, "refused") /\ UNCHANGED handler
     \/ way[l] # "cli" /\ run[l] = "none" /\ Handles(l, "refused") /\ UNCHANGED run
Hands(l) ==
  /\ Unrecorded /\ UNCHANGED <<status, told>>
  /\ way[l] # "cli" /\ handler[l] # "refused"
  /\ \/ run[l] = "none" /\ \E to \in {"closing", "listening", "putting", "going"} :
          Handles(l, to) /\ UNCHANGED run
     \/ run[l] = "none" /\ \E to \in Early \ {"refused"} : Moves(l, to)
          /\ \/ Handles(l, "setting")
             \/ ~Asked(l) /\ Handles(l, "replied")
Names(l) ==
  /\ UNCHANGED <<provider, way, handler, store, persisted, told>>
  /\ run[l] = "exchanging"
  /\ \E to \in Late : Moves(l, to)
  /\ \E n \in Logins \union {Nameless} :
       /\ name' = [name EXCEPT ![l] = n]
       /\ \/ UNCHANGED status
          \/ /\ provider = "gemini" /\ Asked(l) /\ n = Nameless
             /\ status' = [status EXCEPT ![l] = "error"]
Writes(l) ==
  /\ UNCHANGED <<provider, way, handler, name, status, told, persisted>>
  /\ run[l] = "saving" /\ Moves(l, "mirroring")
  /\ store' = [store EXCEPT ![name[l]] = l]
Breaks(l) ==
  /\ UNCHANGED <<provider, way, handler, name>>
  /\ run[l] = "saving" /\ Errs(l)
  /\ store' = [store EXCEPT ![name[l]] = Broken]
  /\ persisted' = [persisted EXCEPT ![l] = "broken"]
Leaves(l) ==
  /\ UNCHANGED <<provider, way, handler, name, store>>
  /\ run[l] = "mirroring" /\ Errs(l)
  /\ persisted' = [persisted EXCEPT ![l] = "unmirrored"]
Saves(l) ==
  /\ UNCHANGED <<provider, way, handler, name, store, status>>
  /\ run[l] = "mirroring"
  /\ persisted' = [persisted EXCEPT ![l] = "yes"]
  /\ \/ Asked(l) /\ Moves(l, "deleting") /\ UNCHANGED told
     \/ ~Asked(l) /\ (\E to \in {"ending", "over"} : Moves(l, to))
          /\ told' = [told EXCEPT ![l] = "ok"]
Clears(l) ==
  /\ Unrecorded /\ UNCHANGED <<handler, told>>
  /\ run[l] = "deleting"
  /\ \E to \in {"ending", "over"} : Moves(l, to)
  /\ status' = [status EXCEPT ![l] = "absent"]

LEMMA RunStages ==
  ASSUME PortInv, NEW l \in Logins, RunStep(l), RecordTypes, CodesKnown
  PROVE  \/ Walks(l) \/ Fails(l) \/ Refuses(l) \/ Names(l)
         \/ Writes(l) \/ Breaks(l) \/ Leaves(l) \/ Saves(l) \/ Clears(l)
<1> USE DEF Unrecorded, Moves, Goes, Stays, Early, Late, Failing, SameStage
<1>0. ASSUME Fail(l) PROVE Errs(l)
  BY <1>0 DEF Fail, Over, Tell, Errs
<1>1. ASSUME Fail(l), run[l] \in Failing, Unrecorded, UNCHANGED handler PROVE Fails(l)
  BY <1>0, <1>1 DEF Fails
<1>2. CASE Serve(l) \/ ServeGemini(l)
  BY <1>2 DEF Serve, ServeGemini, ServeOn, Refuse, Tell, unchangedByCommand, grant, Walks, Refuses
<1>3. CASE ServeKiro(l) \/ OpenDevice(l) \/ OpenFile(l)
  BY <1>3 DEF ServeKiro, OpenDevice, OpenFile, ServeOn, Refuse, Tell, unchangedByCommand, grant,
              Walks, Refuses
<1>4. CASE ReadCallback(l) \/ ReadResult(l)
  BY <1>1, <1>4 DEF ReadCallback, ReadResult, unchangedByRun, Walks
<1>5. CASE Timeout(l)
  BY <1>1, <1>5 DEF Timeout, unchangedByRun, grant
<1>6. CASE ShutDown(l)
  BY <1>6 DEF ShutDown, unchangedByRun, grant, Walks
<1>7. CASE Poll(l)
  BY <1>1, <1>7 DEF Poll, unchangedByRun, grant, Walks
<1>8. CASE Exchange(l)
  <2>1. PICK answer \in Answer :
          \/ Fail(l) /\ UNCHANGED name
          \/ /\ Exchanged(answer, l) # Failed
             /\ name' = [name EXCEPT ![l] = NameAfter(Exchanged(answer, l), l)]
             /\ Goes(l, AfterExchange(l))
             /\ status' = IF provider = "gemini" /\ Asked(l) /\ Exchanged(answer, l) = Nameless
                          THEN [status EXCEPT ![l] = "error"] ELSE status
             /\ UNCHANGED told
    BY <1>8 DEF Exchange
  <2>2. UNCHANGED <<provider, way, handler, store, persisted>> /\ run[l] = "exchanging"
    BY <1>8 DEF Exchange, unchangedByRun
  <2>3. NameAfter(Exchanged(answer, l), l) \in Logins \union {Nameless}
    BY DEF NameAfter, CodesKnown, Browsers
  <2>4. Exchanged(answer, l) = Nameless => NameAfter(Exchanged(answer, l), l) = Nameless
    BY DEF NameAfter, Nameless, Fresh
  <2>5. AfterExchange(l) \in Late
    BY DEF AfterExchange
  <2>6. PICK n \in Logins \union {Nameless} : n = NameAfter(Exchanged(answer, l), l)
    BY <2>3
  <2>7. PICK to \in Late : to = AfterExchange(l)
    BY <2>5
  <2>8. CASE Fail(l) /\ UNCHANGED name
    BY <1>1, <2>2, <2>8
  <2>9. CASE /\ name' = [name EXCEPT ![l] = n]
             /\ Moves(l, to)
             /\ \/ UNCHANGED status
                \/ /\ provider = "gemini" /\ Asked(l) /\ n = Nameless
                   /\ status' = [status EXCEPT ![l] = "error"]
             /\ UNCHANGED told
    BY <2>2, <2>9 DEF Names
  <2> QED BY <2>1, <2>4, <2>6, <2>7, <2>8, <2>9
<1>9. CASE CloseServer(l)
  BY <1>9 DEF CloseServer, unchangedByRun, grant, Walks
<1>10. CASE Choose(l)
  BY <1>1, <1>10 DEF Choose, unchangedByRun, Walks
<1>11. CASE Onboard(l) \/ Enable(l)
  BY <1>1, <1>11 DEF Onboard, Enable, unchangedByRun, Walks
<1>12. CASE Save(l)
  BY <1>0, <1>1, <1>12 DEF Save, unchangedByEnd, grant, Writes, Breaks
<1>13. CASE Mirror(l)
  BY <1>0, <1>13 DEF Mirror, unchangedByEnd, grant, Over, Tell, Leaves, Saves
<1>14. CASE DeleteStatus(l)
  BY <1>14 DEF DeleteStatus, unchangedByEnd, grant, Over, Clears
<1>15. CASE TakeForwarder(l) \/ CloseTaken(l)
  BY <1>15 DEF TakeForwarder, CloseTaken, unchangedByEnd, grant, Walks
<1> QED BY <1>2, <1>3, <1>4, <1>5, <1>6, <1>7, <1>8, <1>9, <1>10, <1>11, <1>12, <1>13, <1>14, <1>15
        DEF RunStep

LEMMA HandlerStages ==
  ASSUME PortInv, NamesInOrder, NEW l \in Logins, HandlerStep(l), ~Reply(l)
  PROVE  Refuses(l) \/ Hands(l)
<1> USE DEF Handler, Handles, Goes, Moves, Tell, Unrecorded, unchangedByHandler, grant, PortInv,
            ProcessesInOrder, NamesInOrder, Early
<1>1. CASE TakePrevious(l) \/ StopPrevious(l) \/ Listen(l) \/ PutForwarder(l)
  <2>1. way[l] # "cli" /\ run[l] = "none"
    BY <1>1 DEF TakePrevious, StopPrevious, Listen, PutForwarder
  <2> QED BY <1>1, <2>1 DEF TakePrevious, StopPrevious, Listen, PutForwarder, Refuses, Hands
<1>2. CASE Go(l)
  <2>1. way[l] # "cli" /\ run[l] = "none" /\ handler[l] # "refused"
    BY <1>2 DEF Go
  <2> QED BY <1>2, <2>1 DEF Go, Hands
<1>3. CASE GoQwen(l)
  <2>1. way[l] # "cli" /\ run[l] = "none" /\ handler[l] # "refused"
    BY <1>3 DEF GoQwen
  <2> QED BY <1>3, <2>1 DEF GoQwen, Hands, Refuses
<1>4. CASE GoCookie(l)
  <2>1. way[l] # "cli" /\ run[l] = "none" /\ handler[l] # "refused" /\ ~Asked(l)
    BY <1>4 DEF GoCookie, Asked
  <2> QED BY <1>4, <2>1 DEF GoCookie, Hands
<1> QED BY <1>1, <1>2, <1>3, <1>4 DEF HandlerStep

\* Each of these steps keeps names, store and what is told in order.

LEMMA StoredFinished ==
  ASSUME RecordTypes, StoreInOrder, NEW l \in Logins, Stored(l)
  PROVE  run[l] \in Finished
BY DEF Stored, RecordTypes, StoreInOrder

\* The end with an error, which the status table or the command tells.
LEMMA ErrsTell ==
  ASSUME TypeOK, RecordTypes, NEW l \in Logins, Errs(l)
  PROVE  /\ \A m \in Logins : m # l => /\ run'[m] = run[m] /\ told'[m] = told[m]
                                       /\ status'[m] = status[m]
         /\ run'[l] \in {"ending", "over"}
         /\ \/ Asked(l) /\ status'[l] = "error" /\ told'[l] = told[l]
            \/ told'[l] = "error" /\ status'[l] = status[l]
         /\ status' \in [Logins -> {"absent", "", "error"}]
         /\ told' \in [Logins -> {"nothing", "ok", "error"}]
<1>1. PICK to \in {"ending", "over"} : run' = [run EXCEPT ![l] = to]
  BY DEF Errs, Moves
<1>2. run'[l] \in {"ending", "over"} /\ \A m \in Logins : m # l => run'[m] = run[m]
  BY <1>1 DEF TypeOK
<1>3. CASE Asked(l) /\ status' = [status EXCEPT ![l] = "error"] /\ UNCHANGED told
  BY <1>2, <1>3 DEF RecordTypes
<1>4. CASE told' = [told EXCEPT ![l] = "error"] /\ UNCHANGED status
  BY <1>2, <1>4 DEF RecordTypes
<1> QED BY <1>3, <1>4 DEF Errs

LEMMA FilesFrame ==
  ASSUME StoreInOrder, UNCHANGED <<store, name, run, persisted>>
  PROVE  StoreInOrder'
BY DEF StoreInOrder

\* A step that leaves the files alone: it takes no name away and ends no login
\* that has written.
LEMMA StoreFrame ==
  ASSUME StoreInOrder, NEW l \in Logins, UNCHANGED store,
         \A m \in Logins : m # l => name'[m] = name[m] /\ run'[m] = run[m],
         run[l] \in Finished => name'[l] = name[l] /\ run'[l] \in Finished,
         \A m \in Logins : persisted[m] = "broken" => name'[m] = name[m] /\ persisted'[m] = "broken"
  PROVE  StoreInOrder'
<1> SUFFICES ASSUME NEW n \in Logins \union {Nameless}
             PROVE  /\ \A m \in Logins : store'[n] = m => name'[m] = n /\ run'[m] \in Finished
                    /\ store'[n] = Broken =>
                         \E m \in Logins : name'[m] = n /\ persisted'[m] = "broken"
  BY DEF StoreInOrder
<1>1. ASSUME NEW m \in Logins, store'[n] = m PROVE name'[m] = n /\ run'[m] \in Finished
  <2>1. name[m] = n /\ run[m] \in Finished
    BY <1>1 DEF StoreInOrder
  <2> QED BY <2>1
<1>2. ASSUME store'[n] = Broken
      PROVE  \E m \in Logins : name'[m] = n /\ persisted'[m] = "broken"
  <2>1. PICK m \in Logins : name[m] = n /\ persisted[m] = "broken"
    BY <1>2 DEF StoreInOrder
  <2> QED BY <2>1
<1> QED BY <1>1, <1>2

LEMMA WalksKeep ==
  ASSUME TypeOK, RecordsTrue, NEW l \in Logins, Walks(l)
  PROVE  RecordsTrue'
<1> USE DEF RecordsTrue, Walks, Unrecorded, Moves
<1>1. RecordTypes'
  BY DEF RecordTypes
<1>2. \A m \in Logins :
        \/ run'[m] = run[m]
        \/ m = l /\ SameStage(run[m], run'[m])
  BY DEF TypeOK
<1>3. NamesInOrder'
  BY <1>2 DEF NamesInOrder, SameStage, Early, Late
<1>4. StoreInOrder'
  BY <1>2, StoreFrame DEF SameStage, Early, Late, Finished
<1>5. SuccessTrue'
  BY <1>2 DEF SuccessTrue, SameStage, Early, Late, Asked, Written, Kept
<1>6. FailureTrue'
  <2> SUFFICES ASSUME NEW m \in Logins, (told[m] = "error" \/ status[m] = "error")'
               PROVE  \/ Unnamed(m)'
                      \/ /\ Stored(m)' => persisted'[m] = "unmirrored"
                         /\ run'[m] \in {"refused", "ending", "stopping", "over"} \/ handler'[m] = "refused"
    BY DEF FailureTrue
  <2>1. Unnamed(m)' = Unnamed(m) /\ Stored(m)' = Stored(m)
    BY DEF Unnamed, Asked, Stored
  <2>2. \/ Unnamed(m)
        \/ /\ Stored(m) => persisted[m] = "unmirrored"
           /\ run[m] \in {"refused", "ending", "stopping", "over"} \/ handler[m] = "refused"
    BY DEF FailureTrue
  <2> QED BY <1>2, <2>1, <2>2 DEF SameStage, Early, Late
<1> QED BY <1>1, <1>3, <1>4, <1>5, <1>6

LEMMA FailsKeep ==
  ASSUME TypeOK, RecordsTrue, NEW l \in Logins, Fails(l)
  PROVE  RecordsTrue'
<1> USE DEF RecordsTrue, Fails, Unrecorded
<1>1. RecordTypes'
  BY ErrsTell DEF RecordTypes
<1>2. /\ \A m \in Logins : m # l => /\ run'[m] = run[m] /\ told'[m] = told[m]
                                    /\ status'[m] = status[m]
      /\ run[l] \in Failing /\ run'[l] \in {"ending", "over"}
      /\ \/ Asked(l) /\ status'[l] = "error" /\ told'[l] = told[l]
         \/ told'[l] = "error" /\ status'[l] = status[l]
  BY ErrsTell
<1>3. NamesInOrder'
  BY <1>2 DEF NamesInOrder, Failing, Early, Late
<1>4. StoreInOrder'
  BY <1>2, StoreFrame DEF Failing, Early, Late, Finished
<1>5. SuccessTrue'
  BY <1>2 DEF SuccessTrue, Asked, Written, Kept
<1>6. ~Stored(l)
  BY <1>2, StoredFinished DEF Failing, Early, Late, Finished
<1>7. FailureTrue'
  BY <1>2, <1>6 DEF FailureTrue, Unnamed, Asked, Stored
<1> QED BY <1>1, <1>3, <1>4, <1>5, <1>7

LEMMA RefusesKeep ==
  ASSUME TypeOK, RecordsTrue, NEW l \in Logins, Refuses(l)
  PROVE  RecordsTrue'
<1> USE DEF RecordsTrue, Refuses, Unrecorded, Moves, Handles
<1>1. RecordTypes'
  BY DEF RecordTypes
<1>2. /\ \A m \in Logins : m # l => /\ run'[m] = run[m] /\ told'[m] = told[m]
                                    /\ handler'[m] = handler[m]
      /\ run[l] = "none" /\ told'[l] = "error"
      /\ \/ way[l] = "cli" /\ run'[l] = "refused" /\ handler'[l] = handler[l]
         \/ way[l] # "cli" /\ run'[l] = "none" /\ handler'[l] = "refused"
  <2>1. told'[l] = "error" /\ \A m \in Logins : m # l => told'[m] = told[m]
    BY DEF RecordTypes
  <2>2. CASE way[l] = "cli" /\ run[l] = "none" /\ Moves(l, "refused") /\ UNCHANGED handler
    <3>1. run'[l] = "refused" /\ \A m \in Logins : m # l => run'[m] = run[m]
      BY <2>2 DEF TypeOK
    <3> QED BY <2>1, <2>2, <3>1
  <2>3. CASE way[l] # "cli" /\ run[l] = "none" /\ Handles(l, "refused") /\ UNCHANGED run
    <3>1. handler'[l] = "refused" /\ \A m \in Logins : m # l => handler'[m] = handler[m]
      BY <2>3 DEF TypeOK
    <3> QED BY <2>1, <2>3, <3>1
  <2> QED BY <2>2, <2>3
<1>3. NamesInOrder'
  BY <1>2 DEF NamesInOrder, Early, Late
<1>4. StoreInOrder'
  BY <1>2, StoreFrame DEF Finished
<1>5. SuccessTrue'
  BY <1>2 DEF SuccessTrue, Asked, Written, Kept
<1>6. ~Stored(l)
  BY <1>2, StoredFinished DEF Finished
<1>7. FailureTrue'
  BY <1>2, <1>6 DEF FailureTrue, Unnamed, Asked, Stored
<1> QED BY <1>1, <1>3, <1>4, <1>5, <1>7

LEMMA HandsKeep ==
  ASSUME TypeOK, RecordsTrue, NEW l \in Logins, Hands(l)
  PROVE  RecordsTrue'
<1> USE DEF RecordsTrue, Hands, Unrecorded, Moves, Handles
<1>1. RecordTypes'
  BY DEF RecordTypes
<1>2. /\ \A m \in Logins : m # l => run'[m] = run[m] /\ handler'[m] = handler[m]
      /\ run[l] = "none" /\ handler[l] # "refused" /\ way[l] # "cli"
      /\ \/ run'[l] = "none" /\ handler'[l] \in {"closing", "listening", "putting", "going"}
         \/ run'[l] \in Early /\ handler'[l] = "setting"
         \/ run'[l] \in Early /\ handler'[l] = "replied" /\ ~Asked(l)
  <2>1. CASE /\ run[l] = "none"
             /\ \E to \in {"closing", "listening", "putting", "going"} :
                  Handles(l, to) /\ UNCHANGED run
    BY <2>1 DEF TypeOK
  <2>2. CASE /\ run[l] = "none"
             /\ \E to \in Early \ {"refused"} : Moves(l, to)
             /\ \/ Handles(l, "setting")
                \/ ~Asked(l) /\ Handles(l, "replied")
    <3>1. run'[l] \in Early /\ \A m \in Logins : m # l => run'[m] = run[m]
      BY <2>2 DEF TypeOK
    <3>2. CASE Handles(l, "setting")
      BY <2>2, <3>1, <3>2 DEF TypeOK
    <3>3. CASE ~Asked(l) /\ Handles(l, "replied")
      BY <2>2, <3>1, <3>3 DEF TypeOK
    <3> QED BY <2>2, <3>2, <3>3
  <2> QED BY <2>1, <2>2
<1>3. NamesInOrder'
  BY <1>2 DEF NamesInOrder, Early, Late
<1>4. StoreInOrder'
  BY <1>2, StoreFrame DEF Finished
<1>5. SuccessTrue'
  BY <1>2 DEF SuccessTrue, Asked, Written, Kept, Early
<1>6. FailureTrue'
  BY <1>2 DEF FailureTrue, Unnamed, Asked, Stored
<1> QED BY <1>1, <1>3, <1>4, <1>5, <1>6

LEMMA NamesKeep ==
  ASSUME TypeOK, PortInv, RecordsTrue, NEW l \in Logins, Names(l)
  PROVE  RecordsTrue'
<1> USE DEF RecordsTrue, Names, Moves
<1>1. PICK n \in Logins \union {Nameless} :
        /\ name' = [name EXCEPT ![l] = n]
        /\ \/ UNCHANGED status
           \/ /\ provider = "gemini" /\ Asked(l) /\ n = Nameless
              /\ status' = [status EXCEPT ![l] = "error"]
  OBVIOUS
<1>2. RecordTypes'
  BY <1>1 DEF RecordTypes
<1>3. /\ \A m \in Logins : m # l => /\ run'[m] = run[m] /\ name'[m] = name[m]
                                    /\ status'[m] = status[m]
      /\ run[l] = "exchanging" /\ run'[l] \in Late /\ name'[l] = n
      /\ status'[l] = status[l] \/ (Unnamed(l)' /\ status'[l] = "error")
  BY <1>1, ZenonT(60) DEF TypeOK, RecordTypes, Unnamed, Asked
<1>4. ~Stored(l) /\ name[l] = None /\ n # None
  BY <1>3, StoredFinished, LoginsAssumption DEF Finished, NamesInOrder, Early
<1>5. NamesInOrder'
  BY <1>3, <1>4 DEF NamesInOrder, Early, Late
<1>6. StoreInOrder'
  <2>1. persisted[l] = "no"
    BY <1>3 DEF NamesInOrder, Early
  <2> QED BY <1>3, <2>1, StoreFrame DEF Finished
<1>7. SuccessTrue'
  BY <1>3, <1>4 DEF SuccessTrue, Asked, Written, Kept, Late
<1>8. FailureTrue'
  <2>1. \A m \in Logins : Stored(m)' = Stored(m) /\ (m # l => Unnamed(m)' = Unnamed(m))
    BY <1>3 DEF Stored, Unnamed, Asked
  <2>2. (told[l] # "error" /\ status[l] # "error") \/ handler[l] = "refused" \/ Unnamed(l)
    BY <1>3 DEF FailureTrue
  <2>3. handler[l] # "refused"
    BY <1>3 DEF NamesInOrder, PortInv, ProcessesInOrder
  <2>4. ~Unnamed(l)
    BY <1>4, LoginsAssumption DEF Unnamed
  <2> QED BY <1>3, <2>1, <2>2, <2>3, <2>4 DEF FailureTrue
<1> QED BY <1>2, <1>5, <1>6, <1>7, <1>8

\* The first half of a save: the login's record, or half of it, under its name.
LEMMA StoreWritten ==
  ASSUME RecordTypes, NamesInOrder, StoreInOrder, NEW l \in Logins,
         run[l] = "saving", UNCHANGED name, NEW written,
         store' = [store EXCEPT ![name[l]] = written],
         \A m \in Logins : m # l => run'[m] = run[m] /\ persisted'[m] = persisted[m],
         run'[l] \in Finished,
         \/ written = l
         \/ written = Broken /\ persisted'[l] = "broken"
  PROVE  /\ StoreInOrder'
         /\ name[l] \in Logins \union {Nameless} /\ persisted[l] = "no"
         /\ store' \in [Logins \union {Nameless} -> Logins \union {None, Broken}]
         /\ store'[name[l]] = written
         /\ \A n \in Logins \union {Nameless} : n # name[l] => store'[n] = store[n]
<1>1. name[l] \in Logins \union {Nameless} /\ persisted[l] = "no"
  BY DEF RecordTypes, NamesInOrder, Late
<1>2. /\ store' \in [Logins \union {Nameless} -> Logins \union {None, Broken}]
      /\ store'[name[l]] = written
      /\ \A n \in Logins \union {Nameless} : n # name[l] => store'[n] = store[n]
  BY <1>1 DEF RecordTypes
<1>3. StoreInOrder'
  <2> SUFFICES ASSUME NEW n \in Logins \union {Nameless}
               PROVE  /\ \A m \in Logins : store'[n] = m => name'[m] = n /\ run'[m] \in Finished
                      /\ store'[n] = Broken =>
                           \E m \in Logins : name'[m] = n /\ persisted'[m] = "broken"
    BY DEF StoreInOrder
  <2>1. CASE n = name[l]
    BY <1>2, <2>1, LoginsAssumption
  <2>2. CASE n # name[l]
    <3>1. ASSUME NEW m \in Logins, store'[n] = m PROVE name'[m] = n /\ run'[m] \in Finished
      <4>1. name[m] = n /\ run[m] \in Finished
        BY <1>2, <2>2, <3>1 DEF StoreInOrder
      <4> QED BY <4>1
    <3>2. ASSUME store'[n] = Broken
          PROVE  \E m \in Logins : name'[m] = n /\ persisted'[m] = "broken"
      <4>1. PICK m \in Logins : name[m] = n /\ persisted[m] = "broken"
        BY <1>2, <2>2, <3>2 DEF StoreInOrder
      <4>2. m # l
        BY <1>1, <4>1
      <4> QED BY <4>1, <4>2
    <3> QED BY <3>1, <3>2
  <2> QED BY <2>1, <2>2
<1> QED BY <1>1, <1>2, <1>3

LEMMA WritesKeep ==
  ASSUME TypeOK, PortInv, RecordsTrue, NEW l \in Logins, Writes(l)
  PROVE  RecordsTrue'
<1> USE DEF RecordsTrue, Writes, Moves
<1>1. /\ \A m \in Logins : m # l => run'[m] = run[m]
      /\ run[l] = "saving" /\ run'[l] = "mirroring"
  BY DEF TypeOK
<1>2. /\ StoreInOrder'
      /\ name[l] \in Logins \union {Nameless} /\ persisted[l] = "no"
      /\ store' \in [Logins \union {Nameless} -> Logins \union {None, Broken}]
      /\ store'[name[l]] = l
      /\ \A n \in Logins \union {Nameless} : n # name[l] => store'[n] = store[n]
  BY <1>1, StoreWritten DEF Finished
<1>3. RecordTypes'
  BY <1>2 DEF RecordTypes
<1>4. NamesInOrder'
  BY <1>1 DEF NamesInOrder, Early, Late
<1>5. \A m \in Logins : (Written(m) => Written(m)') /\ (Kept(m) => Kept(m)')
  BY <1>2, LoginsAssumption DEF Written, Kept, RecordTypes
<1>6. Written(l)'
  BY <1>2, LoginsAssumption DEF Written
<1>7. SuccessTrue'
  BY <1>1, <1>5, <1>6 DEF SuccessTrue, Asked
<1>8. FailureTrue'
  <2>1. ASSUME NEW m \in Logins, m # l, Stored(m)' PROVE Stored(m)
    BY <1>2, <2>1 DEF Stored, RecordTypes
  <2>2. told[l] = "error" \/ status[l] = "error" => Unnamed(l)
    BY <1>1 DEF FailureTrue, NamesInOrder, PortInv, ProcessesInOrder
  <2>3. \A m \in Logins : Unnamed(m) => Unnamed(m)'
    BY DEF Unnamed, Asked
  <2> QED BY <1>1, <2>1, <2>2, <2>3 DEF FailureTrue
<1> QED BY <1>2, <1>3, <1>4, <1>7, <1>8

LEMMA BreaksKeep ==
  ASSUME TypeOK, RecordsTrue, NEW l \in Logins, Breaks(l)
  PROVE  RecordsTrue'
<1> USE DEF RecordsTrue, Breaks
<1>1. /\ \A m \in Logins : m # l => /\ run'[m] = run[m] /\ told'[m] = told[m]
                                    /\ status'[m] = status[m] /\ persisted'[m] = persisted[m]
      /\ run[l] = "saving" /\ run'[l] \in {"ending", "over"} /\ persisted'[l] = "broken"
      /\ \/ Asked(l) /\ status'[l] = "error" /\ told'[l] = told[l]
         \/ told'[l] = "error" /\ status'[l] = status[l]
  <2>1. persisted'[l] = "broken" /\ \A m \in Logins : m # l => persisted'[m] = persisted[m]
    BY DEF RecordTypes
  <2> QED BY <2>1, ErrsTell
<1>2. /\ StoreInOrder'
      /\ name[l] \in Logins \union {Nameless} /\ persisted[l] = "no"
      /\ store' \in [Logins \union {Nameless} -> Logins \union {None, Broken}]
      /\ store'[name[l]] = Broken
      /\ \A n \in Logins \union {Nameless} : n # name[l] => store'[n] = store[n]
  BY <1>1, StoreWritten DEF Finished
<1>3. RecordTypes'
  BY <1>2, ErrsTell DEF RecordTypes
<1>4. NamesInOrder'
  BY <1>1 DEF NamesInOrder, Early, Late
<1>5. \A m \in Logins : (Written(m) => Written(m)') /\ (Kept(m) => Kept(m)' /\ m # l)
  <2>1. ASSUME NEW m \in Logins, Written(m) PROVE Written(m)'
    <3>1. name[m] \in Logins \union {Nameless}
      BY <2>1 DEF Written, RecordTypes
    <3>2. store'[name[m]] # None
      BY <1>2, <2>1, <3>1, LoginsAssumption DEF Written
    <3> QED BY <2>1, <3>2 DEF Written
  <2>2. \A m \in Logins : Kept(m) => m # l /\ persisted'[m] = "yes"
    BY <1>1, <1>2 DEF Kept
  <2> QED BY <2>1, <2>2 DEF Kept
<1>6. SuccessTrue'
  BY <1>1, <1>5 DEF SuccessTrue, Asked
<1>7. FailureTrue'
  <2>1. ASSUME NEW m \in Logins, Stored(m)' PROVE Stored(m) /\ m # l
    <3>1. PICK n \in Logins \union {Nameless} : store'[n] = m
      BY <1>2, <2>1 DEF Stored
    <3>2. n # name[l] /\ store[n] = m
      BY <1>2, <3>1, LoginsAssumption DEF RecordTypes
    <3>3. Stored(m)
      BY <3>2 DEF Stored, RecordTypes
    <3> QED BY <1>1, <3>3, StoredFinished DEF Finished
  <2>2. \A m \in Logins : Unnamed(m)' = Unnamed(m)
    BY DEF Unnamed, Asked
  <2> QED BY <1>1, <2>1, <2>2 DEF FailureTrue
<1> QED BY <1>2, <1>3, <1>4, <1>6, <1>7

\* The second half: the mirror fails, or has the record too.
LEMMA LeavesKeep ==
  ASSUME TypeOK, RecordsTrue, NEW l \in Logins, Leaves(l)
  PROVE  RecordsTrue'
<1> USE DEF RecordsTrue, Leaves
<1>1. /\ \A m \in Logins : m # l => /\ run'[m] = run[m] /\ told'[m] = told[m]
                                    /\ status'[m] = status[m] /\ persisted'[m] = persisted[m]
      /\ run[l] = "mirroring" /\ run'[l] \in {"ending", "over"}
      /\ persisted[l] = "no" /\ persisted'[l] = "unmirrored"
      /\ \/ Asked(l) /\ status'[l] = "error" /\ told'[l] = told[l]
         \/ told'[l] = "error" /\ status'[l] = status[l]
  <2>1. persisted[l] = "no"
    BY DEF NamesInOrder
  <2> QED BY <2>1, ErrsTell DEF RecordTypes
<1>2. RecordTypes'
  BY ErrsTell DEF RecordTypes
<1>3. NamesInOrder'
  BY <1>1 DEF NamesInOrder, Early, Late
<1>4. StoreInOrder'
  BY <1>1, StoreFrame DEF Finished
<1>5. \A m \in Logins : (Written(m) => Written(m)') /\ (Kept(m) => Kept(m)' /\ m # l)
  BY <1>1 DEF Written, Kept
<1>6. SuccessTrue'
  BY <1>1, <1>5 DEF SuccessTrue, Asked
<1>7. FailureTrue'
  BY <1>1 DEF FailureTrue, Unnamed, Asked, Stored
<1> QED BY <1>2, <1>3, <1>4, <1>6, <1>7

LEMMA SavesKeep ==
  ASSUME TypeOK, PortInv, RecordsTrue, NEW l \in Logins, Saves(l)
  PROVE  RecordsTrue'
<1> USE DEF RecordsTrue, Saves, Moves
<1>1. /\ \A m \in Logins : m # l => /\ run'[m] = run[m] /\ told'[m] = told[m]
                                    /\ persisted'[m] = persisted[m]
      /\ run[l] = "mirroring" /\ run'[l] \in Finished \ {"mirroring"}
      /\ persisted[l] = "no" /\ persisted'[l] = "yes"
      /\ \/ Asked(l) /\ run'[l] = "deleting" /\ told'[l] = told[l]
         \/ ~Asked(l) /\ run'[l] \in {"ending", "over"} /\ told'[l] = "ok"
  <2>1. persisted[l] = "no"
    BY DEF NamesInOrder
  <2>2. CASE Asked(l) /\ Moves(l, "deleting") /\ UNCHANGED told
    BY <2>1, <2>2 DEF TypeOK, RecordTypes, Finished
  <2>3. CASE /\ ~Asked(l)
             /\ \E to \in {"ending", "over"} : Moves(l, to)
             /\ told' = [told EXCEPT ![l] = "ok"]
    BY <2>1, <2>3 DEF TypeOK, RecordTypes, Finished
  <2> QED BY <2>2, <2>3
<1>2. RecordTypes'
  BY DEF RecordTypes
<1>3. NamesInOrder'
  BY <1>1 DEF NamesInOrder, Early, Late, Finished
<1>4. StoreInOrder'
  BY <1>1, StoreFrame DEF Finished
<1>5. \A m \in Logins : (Written(m) => Written(m)') /\ (Kept(m) => Kept(m)')
  BY <1>1 DEF Written, Kept
<1>6. Written(l)
  BY <1>1 DEF SuccessTrue
<1>7. Kept(l)'
  BY <1>1, <1>6 DEF Written, Kept
<1>8. SuccessTrue'
  BY <1>1, <1>5, <1>7 DEF SuccessTrue, Asked
<1>9. FailureTrue'
  <2>1. told[l] = "error" \/ status[l] = "error" => Unnamed(l)
    BY <1>1 DEF FailureTrue, NamesInOrder, PortInv, ProcessesInOrder
  <2>2. \A m \in Logins : Unnamed(m)' = Unnamed(m) /\ Stored(m)' = Stored(m)
    BY DEF Unnamed, Asked, Stored
  <2> QED BY <1>1, <2>1, <2>2 DEF FailureTrue
<1> QED BY <1>2, <1>3, <1>4, <1>8, <1>9

LEMMA ClearsKeep ==
  ASSUME TypeOK, RecordsTrue, NEW l \in Logins, Clears(l)
  PROVE  RecordsTrue'
<1> USE DEF RecordsTrue, Clears, Unrecorded, Moves
<1>1. RecordTypes'
  BY DEF RecordTypes
<1>2. /\ \A m \in Logins : m # l => run'[m] = run[m] /\ status'[m] = status[m]
      /\ run[l] = "deleting" /\ run'[l] \in {"ending", "over"} /\ status'[l] = "absent"
  BY DEF TypeOK, RecordTypes
<1>3. NamesInOrder'
  BY <1>2 DEF NamesInOrder, Early, Late
<1>4. StoreInOrder'
  BY <1>2, StoreFrame DEF Finished
<1>5. SuccessTrue'
  BY <1>2 DEF SuccessTrue, Asked, Written, Kept
<1>6. FailureTrue'
  BY <1>2 DEF FailureTrue, Unnamed, Asked, Stored
<1> QED BY <1>1, <1>3, <1>4, <1>5, <1>6

\* The handler replies; somebody asks for the outcome.
LEMMA RepliesKeep ==
  ASSUME TypeOK, RecordsTrue, NEW l \in Logins, Reply(l)
  PROVE  RecordsTrue'
<1> USE DEF RecordsTrue, Reply, Handler, unchangedByHandler, grant, server
<1>1. RecordTypes'
  BY DEF RecordTypes
<1>2. /\ \A m \in Logins : m # l => handler'[m] = handler[m] /\ status'[m] = status[m]
      /\ handler[l] = "setting" /\ handler'[l] = "replied" /\ status'[l] = ""
  BY DEF TypeOK, RecordTypes
<1>3. NamesInOrder'
  BY <1>2 DEF NamesInOrder
<1>6. StoreInOrder'
  BY FilesFrame
<1>7. \A m \in Logins : Written(m)' = Written(m) /\ Kept(m)' = Kept(m) /\ Asked(m)' = Asked(m)
  BY DEF Written, Kept, Asked
<1>4. SuccessTrue'
  BY <1>2, <1>7 DEF SuccessTrue
<1>5. FailureTrue'
  <2>1. \A m \in Logins : Stored(m)' = Stored(m) /\ Unnamed(m)' = Unnamed(m)
    BY DEF Stored, Unnamed, Asked
  <2>2. UNCHANGED <<run, told, persisted>>
    OBVIOUS
  <2>3. ASSUME NEW m \in Logins, (told[m] = "error" \/ status[m] = "error")'
        PROVE  (told[m] = "error" \/ status[m] = "error")
               /\ (handler[m] = "refused" => handler'[m] = "refused")
    BY <1>2, <2>2, <2>3
  <2> HIDE DEF Reply, Handler, unchangedByHandler
  <2> QED BY <2>1, <2>2, <2>3 DEF FailureTrue
<1> QED BY <1>1, <1>3, <1>4, <1>5, <1>6

LEMMA AsksKeep ==
  ASSUME TypeOK, RecordsTrue, NEW l \in Logins, AskStatus(l)
  PROVE  RecordsTrue'
<1> USE DEF RecordsTrue, AskStatus, unchangedByHandler, grant, server, Tell
<1>1. RecordTypes'
  BY DEF RecordTypes
<1>2. /\ \A m \in Logins : m # l => told'[m] = told[m] /\ status'[m] = status[m]
      /\ status[l] \in {"error", "absent"}
      /\ told'[l] = IF status[l] = "error" THEN "error" ELSE "ok"
      /\ status'[l] = "absent"
  BY DEF RecordTypes
<1>3. NamesInOrder'
  BY DEF NamesInOrder
<1>6. StoreInOrder'
  BY FilesFrame
<1>7. \A m \in Logins : Written(m)' = Written(m) /\ Kept(m)' = Kept(m) /\ Asked(m)' = Asked(m)
  BY DEF Written, Kept, Asked
<1>4. SuccessTrue'
  BY <1>2, <1>7 DEF SuccessTrue
<1>5. FailureTrue'
  <2>1. \A m \in Logins : Stored(m)' = Stored(m) /\ Unnamed(m)' = Unnamed(m)
    BY DEF Stored, Unnamed, Asked
  <2>2. told'[l] = "error" => status[l] = "error"
    BY <1>2 DEF RecordTypes
  <2> QED BY <1>2, <2>1, <2>2 DEF FailureTrue
<1> QED BY <1>1, <1>3, <1>4, <1>5, <1>6

LEMMA RecordInit == Init => RecordInv
<1> SUFFICES ASSUME Init PROVE RecordInv
  OBVIOUS
<1> USE DEF Init
<1>1. CodesKnown
  BY DEF CodesKnown, Browsers, PerLogin
<1>2. RecordTypes
  BY DEF RecordTypes
<1>3. NamesInOrder /\ SuccessTrue /\ FailureTrue
  BY DEF NamesInOrder, Early, Late, SuccessTrue, FailureTrue
<1>4. StoreInOrder
  BY LoginsAssumption DEF StoreInOrder
<1> QED BY <1>1, <1>2, <1>3, <1>4 DEF RecordInv, RecordsTrue

LEMMA RecordNext == PortInv /\ RecordInv /\ [Next]_vars => RecordInv'
<1> SUFFICES ASSUME PortInv, RecordInv, [Next]_vars PROVE RecordInv'
  OBVIOUS
<1>1. TypeOK /\ RecordsTrue /\ RecordTypes /\ NamesInOrder /\ CodesKnown
  BY DEF PortInv, RecordInv, RecordsTrue
<1>2. ASSUME UNCHANGED <<file, writing, result, code>> PROVE CodesKnown'
  BY <1>1, <1>2 DEF CodesKnown, PerLogin
<1>3. ASSUME UNCHANGED <<provider, way, handler, run, status, name, store, persisted, told>>
      PROVE  RecordsTrue'
  <2>1. RecordTypes' /\ NamesInOrder'
    BY <1>1, <1>3 DEF RecordTypes, NamesInOrder
  <2>2. StoreInOrder'
    BY <1>1, <1>3 DEF RecordsTrue, StoreInOrder
  <2>3. SuccessTrue' /\ FailureTrue'
    BY <1>1, <1>3
    DEF RecordsTrue, SuccessTrue, FailureTrue, Written, Kept, Unnamed, Asked, Stored
  <2> QED BY <2>1, <2>2, <2>3 DEF RecordsTrue
<1>4. CASE UNCHANGED vars
  BY <1>2, <1>3, <1>4 DEF vars, RecordInv
<1>5. ASSUME NEW l \in Logins, HandlerStep(l) PROVE RecordInv'
  <2>1. CodesKnown'
    BY <1>2, <1>5
    DEF HandlerStep, TakePrevious, StopPrevious, Listen, PutForwarder, Go, GoQwen, GoCookie, Reply,
        unchangedByHandler, browser, grant
  <2>2. RecordsTrue'
    BY <1>1, <1>5, HandlerStages, RepliesKeep, RefusesKeep, HandsKeep
  <2> QED BY <2>1, <2>2 DEF RecordInv
<1>6. ASSUME NEW l \in Logins, RunStep(l) PROVE RecordInv'
  <2>1. CodesKnown'
    <3>1. CASE ReadCallback(l) \/ ReadResult(l)
      BY <1>1, <3>1, CodesStayKnown
    <3>2. CASE Serve(l) \/ ServeGemini(l) \/ ServeKiro(l) \/ OpenDevice(l) \/ OpenFile(l)
      BY <1>2, <3>2
      DEF Serve, ServeGemini, ServeKiro, OpenDevice, OpenFile, unchangedByCommand, browser, grant
    <3>3. CASE Timeout(l) \/ ShutDown(l) \/ Poll(l) \/ CloseServer(l)
      BY <1>2, <3>3 DEF Timeout, ShutDown, Poll, CloseServer, unchangedByRun, grant
    <3>4. CASE Exchange(l) \/ Choose(l) \/ Onboard(l) \/ Enable(l)
      BY <1>2, <3>4 DEF Exchange, Choose, Onboard, Enable, unchangedByRun
    <3>5. CASE Save(l) \/ Mirror(l) \/ DeleteStatus(l) \/ TakeForwarder(l) \/ CloseTaken(l)
      BY <1>2, <3>5
      DEF Save, Mirror, DeleteStatus, TakeForwarder, CloseTaken, unchangedByEnd, browser, grant
    <3> QED BY <1>6, <3>1, <3>2, <3>3, <3>4, <3>5 DEF RunStep
  <2>2. RecordsTrue'
    BY <1>1, <1>6, RunStages, WalksKeep, FailsKeep, RefusesKeep, NamesKeep,
       WritesKeep, BreaksKeep, LeavesKeep, SavesKeep, ClearsKeep
  <2> QED BY <2>1, <2>2 DEF RecordInv
<1>7. ASSUME NEW l \in Logins, AskStatus(l) PROVE RecordInv'
  <2>1. CodesKnown'
    BY <1>2, <1>7 DEF AskStatus, unchangedByHandler, browser, grant
  <2> QED BY <1>1, <1>7, <2>1, AsksKeep DEF RecordInv
<1>8. ASSUME NEW l \in Logins, BrowserCalls(l) \/ EndWrite(l) PROVE RecordInv'
  <2>1. CodesKnown'
    BY <1>1, <1>8, CodesStayKnown
  <2>2. RecordsTrue'
    BY <1>3, <1>8 DEF BrowserCalls, EndWrite, server, grant
  <2> QED BY <2>1, <2>2 DEF RecordInv
<1> QED BY <1>4, <1>5, <1>6, <1>7, <1>8 DEF Next

\* The inductive invariant holds in every reachable state.
THEOREM RecordsInOrder == Spec => []RecordInv
BY PortsInOrder, RecordInit, RecordNext, PTL DEF Spec

\* Whoever is told "ok" has written file and mirror, and the directory has the
\* record, or what a later login of the same name has made of it; whoever is told
\* "error" has no record there, except where the mirror failed after the file was
\* written, and Gemini's logins through the management API whose account has no
\* e-mail.
THEOREM TruthTold == Spec => []ToldTruly
<1>1. RecordInv => ToldTruly
  <2> SUFFICES ASSUME RecordInv, NEW l \in Logins
               PROVE  /\ told[l] = "ok" =>
                           /\ name[l] # None /\ persisted[l] = "yes"
                           /\ \E m \in Logins :
                                /\ name[m] = name[l]
                                /\ \/ store[name[l]] = m
                                   \/ store[name[l]] = Broken /\ persisted[m] = "broken"
                      /\ told[l] = "error" /\ Stored(l) =>
                           \/ persisted[l] = "unmirrored"
                           \/ provider = "gemini" /\ Asked(l) /\ name[l] = Nameless
    BY DEF ToldTruly
  <2>1. RecordTypes /\ StoreInOrder /\ SuccessTrue /\ FailureTrue
    BY DEF RecordInv, RecordsTrue
  <2>2. ASSUME told[l] = "ok"
        PROVE  /\ name[l] # None /\ persisted[l] = "yes"
               /\ \E m \in Logins :
                    /\ name[m] = name[l]
                    /\ \/ store[name[l]] = m
                       \/ store[name[l]] = Broken /\ persisted[m] = "broken"
    <3>1. Kept(l)
      BY <2>1, <2>2 DEF SuccessTrue
    <3>2. /\ name[l] \in Logins \union {Nameless}
          /\ store[name[l]] \in Logins \/ store[name[l]] = Broken
      BY <2>1, <3>1 DEF Kept, Written, RecordTypes
    <3>3. CASE store[name[l]] \in Logins
      BY <2>1, <3>1, <3>2, <3>3 DEF Kept, Written, StoreInOrder
    <3>4. CASE store[name[l]] = Broken
      BY <2>1, <3>1, <3>2, <3>4 DEF Kept, Written, StoreInOrder
    <3> QED BY <3>2, <3>3, <3>4
  <2>3. told[l] = "error" /\ Stored(l) => Unnamed(l) \/ persisted[l] = "unmirrored"
    BY <2>1 DEF FailureTrue
  <2> QED BY <2>2, <2>3 DEF Unnamed
<1> QED BY <1>1, RecordsInOrder, PTL
-----------------------------------------------------------------------------
(* Gemini's projects. *)

ProjectNames == {NoWish, All, "project a", "project b"}

Onboarded(l, p) == <<"onboarded", p>> \in ready[l]
Enabled(l, p) == <<"enabled", p>> \in ready[l]
AllReady(l) == \A p \in ToSet(projects[l]) : Onboarded(l, p) /\ Enabled(l, p)

\* What is left of a phase is what has not been through it.
ProjectsInOrder(l) ==
  /\ run[l] \in {"onboarding", "enabling"} => left[l] # <<>> /\ projects[l] # <<>>
  /\ run[l] = "onboarding" =>
       \A p \in ToSet(projects[l]) : Onboarded(l, p) \/ p \in ToSet(left[l])
  /\ run[l] = "enabling" =>
       \A p \in ToSet(projects[l]) :
         Onboarded(l, p) /\ (Enabled(l, p) \/ p \in ToSet(left[l]))
  /\ run[l] = "saving" \/ Stored(l) => projects[l] # <<>> /\ AllReady(l)
  /\ run[l] # "closing"

ProjectTypes ==
  /\ projects \in [Logins -> Seq(ProjectNames)] /\ left \in [Logins -> Seq(ProjectNames)]
  /\ PerLogin(ready)

ReadyInv == provider = "gemini" => ProjectTypes /\ \A l \in Logins : ProjectsInOrder(l)

LEMMA HeadOrTail ==
  ASSUME NEW S, NEW s \in Seq(S), s # <<>>
  PROVE  /\ Tail(s) \in Seq(S)
         /\ \A p \in ToSet(s) : p = Head(s) \/ p \in ToSet(Tail(s))
         /\ Tail(s) = <<>> => \A p \in ToSet(s) : p = Head(s)
<1>1. Tail(s) \in Seq(S) /\ Len(s) \in Nat \ {0}
  OBVIOUS
<1>2. ASSUME NEW p \in ToSet(s) PROVE p = Head(s) \/ p \in ToSet(Tail(s))
  <2>1. PICK i \in 1 .. Len(s) : p = s[i]
    BY DEF ToSet
  <2>2. CASE i = 1
    BY <2>1, <2>2
  <2>3. CASE i # 1
    <3>1. i - 1 \in DOMAIN Tail(s) /\ Tail(s)[i - 1] = s[i]
      BY <1>1, <2>1, <2>3
    <3> QED BY <2>1, <3>1 DEF ToSet
  <2> QED BY <2>2, <2>3
<1>3. Tail(s) = <<>> => ToSet(Tail(s)) = {}
  BY DEF ToSet
<1> QED BY <1>1, <1>2, <1>3

LEMMA LeftTyped ==
  ASSUME ProjectTypes, NEW l \in Logins, Onboard(l) \/ Enable(l), left[l] # <<>>
  PROVE  ProjectTypes'
<1> PICK s \in Seq(ProjectNames) : s = left[l]
  BY DEF ProjectTypes
<1> PICK t \in Seq(ProjectNames) : t = projects[l]
  BY DEF ProjectTypes
<1>1. Tail(s) \in Seq(ProjectNames)
  BY HeadOrTail
<1>2. UNCHANGED projects
  BY DEF Onboard, Enable
<1>3. \E rest \in Seq(ProjectNames) : left' = left \/ left' = [left EXCEPT ![l] = rest]
  <2>1. CASE Onboard(l)
    BY <1>1, <2>1 DEF Onboard
  <2>2. CASE Enable(l)
    BY <1>1, <2>2 DEF Enable
  <2> QED BY <2>1, <2>2
<1>4. left' \in [Logins -> Seq(ProjectNames)]
  BY <1>3 DEF ProjectTypes
<1>5. \E now : ready' = ready \/ ready' = [ready EXCEPT ![l] = now]
  BY DEF Onboard, Enable
<1>6. PerLogin(ready')
  BY <1>5 DEF ProjectTypes, PerLogin
<1> QED BY <1>2, <1>4, <1>6 DEF ProjectTypes

\* Gemini's three steps: projects are chosen, each is onboarded, each has its
\* API enabled.
LEMMA ProjectSteps ==
  ASSUME TypeOK, RecordsTrue, ReadyInv, provider = "gemini", NEW l \in Logins,
         Choose(l) \/ Onboard(l) \/ Enable(l)
  PROVE  ReadyInv'
<1>1. ProjectTypes /\ \A m \in Logins : ProjectsInOrder(m)
  BY DEF ReadyInv
<1>2. UNCHANGED <<provider, store>>
  BY DEF Choose, Onboard, Enable, unchangedByRun
<1>3. ~Stored(l) /\ ~Stored(l)'
  BY <1>2, StoredFinished DEF RecordsTrue, Choose, Onboard, Enable, Finished, Stored
<1>4. ASSUME NEW m \in Logins, m # l,
             projects'[m] = projects[m], left'[m] = left[m], ready'[m] = ready[m], run'[m] = run[m]
      PROVE  ProjectsInOrder(m)'
  BY <1>1, <1>2, <1>4 DEF ProjectsInOrder, AllReady, Onboarded, Enabled, Stored
<1>5. ASSUME Fail(l), UNCHANGED <<projects, left, ready>> PROVE ReadyInv'
  <2>1. run'[l] \in {"ending", "over"} /\ \A m \in Logins : m # l => run'[m] = run[m]
    BY <1>5 DEF Fail, Over, TypeOK
  <2>2. ProjectsInOrder(l)'
    BY <1>3, <2>1 DEF ProjectsInOrder
  <2>3. ProjectTypes'
    BY <1>1, <1>5 DEF ProjectTypes, PerLogin
  <2> QED BY <1>4, <1>5, <2>1, <2>2, <2>3 DEF ReadyInv
<1>6. CASE Choose(l)
  <2>1. CASE Fail(l) /\ UNCHANGED <<projects, left>>
    BY <1>5, <1>6, <2>1 DEF Choose
  <2>2. CASE \E listed \in Lists, wish \in Wishes :
               \E some \in IF way[l] = "cli" THEN ProjectsOfLogin(wish, listed)
                           ELSE ProjectsOfRequest(wish, listed) :
                 /\ projects' = [projects EXCEPT ![l] = some]
                 /\ left' = [left EXCEPT ![l] = some]
                 /\ Goes(l, "onboarding")
    <3>1. PICK listed \in Lists, wish \in Wishes :
            \E some \in IF way[l] = "cli" THEN ProjectsOfLogin(wish, listed)
                        ELSE ProjectsOfRequest(wish, listed) :
              /\ projects' = [projects EXCEPT ![l] = some]
              /\ left' = [left EXCEPT ![l] = some]
              /\ Goes(l, "onboarding")
      BY <2>2
    <3>2. PICK some \in IF way[l] = "cli" THEN ProjectsOfLogin(wish, listed)
                        ELSE ProjectsOfRequest(wish, listed) :
              /\ projects' = [projects EXCEPT ![l] = some]
              /\ left' = [left EXCEPT ![l] = some]
              /\ Goes(l, "onboarding")
      BY <3>1
    <3>3. some \in Seq(ProjectNames) /\ some # <<>>
      <4>1. listed \in Seq(ProjectNames) /\ wish \in ProjectNames
        <5>1. <<>> \in Seq(ProjectNames)
          OBVIOUS
        <5>2. <<"project a", "project b">> \in Seq(ProjectNames)
          BY DEF ProjectNames
        <5> QED BY <5>1, <5>2 DEF Lists, Wishes, ProjectNames
      <4>2. CASE way[l] # "cli"
        <5>1. \/ some = listed /\ listed # <<>>
              \/ some = <<wish>>
              \/ listed # <<>> /\ some = <<Head(listed)>>
          BY <4>2 DEF ProjectsOfRequest, onboardAllGeminiProjects, NoneToSetUp,
                      ensureGeminiProjectAndOnboard
        <5>2. <<wish>> \in Seq(ProjectNames) /\ <<wish>> # <<>>
          BY <4>1
        <5>3. ASSUME listed # <<>>
              PROVE  <<Head(listed)>> \in Seq(ProjectNames) /\ <<Head(listed)>> # <<>>
          <6>1. Head(listed) \in ProjectNames
            BY <4>1, <5>3
          <6> QED BY <6>1
        <5> QED BY <4>1, <5>1, <5>2, <5>3
      <4>3. CASE way[l] = "cli"
        <5>1. PICK choice \in promptForProjectSelection(wish, listed) :
                some = resolveProjectSelections(choice, listed)
          BY <4>3 DEF ProjectsOfLogin
        <5>2. some # <<>>
          BY <4>3 DEF ProjectsOfLogin
        <5>3. choice \in ProjectNames
          <6>1. ToSet(listed) \subseteq ProjectNames
            BY <4>1 DEF ToSet
          <6> QED BY <4>1, <6>1 DEF promptForProjectSelection, ProjectNames
        <5>4. CASE choice = NoWish
          BY <5>1, <5>2, <5>4 DEF resolveProjectSelections, NoWish, All
        <5>5. CASE choice = All
          BY <4>1, <5>1, <5>2, <5>5 DEF resolveProjectSelections, NoWish, All
        <5>6. CASE choice # NoWish /\ choice # All
          BY <5>1, <5>2, <5>3, <5>6 DEF resolveProjectSelections
        <5> QED BY <5>4, <5>5, <5>6
      <4> QED BY <4>2, <4>3
    <3>4. ProjectTypes' /\ UNCHANGED ready
      BY <1>1, <1>6, <3>2, <3>3 DEF Choose, ProjectTypes, PerLogin
    <3>5. projects'[l] = some /\ left'[l] = some /\ run'[l] = "onboarding"
      BY <1>1, <3>2 DEF ProjectTypes, TypeOK, Goes
    <3>6. ProjectsInOrder(l)'
      BY <1>3, <3>3, <3>5 DEF ProjectsInOrder
    <3>7. \A m \in Logins : m # l => /\ projects'[m] = projects[m] /\ left'[m] = left[m]
                                     /\ ready'[m] = ready[m] /\ run'[m] = run[m]
      BY <1>1, <3>2, <3>4 DEF ProjectTypes, TypeOK, Goes
    <3> QED BY <1>4, <3>4, <3>6, <3>7 DEF ReadyInv
  <2>3. \/ Fail(l) /\ UNCHANGED <<projects, left>>
        \/ \E listed \in Lists, wish \in Wishes :
             \E some \in IF way[l] = "cli" THEN ProjectsOfLogin(wish, listed)
                         ELSE ProjectsOfRequest(wish, listed) :
               /\ projects' = [projects EXCEPT ![l] = some]
               /\ left' = [left EXCEPT ![l] = some]
               /\ Goes(l, "onboarding")
    BY <1>6 DEF Choose
  <2> QED BY <2>1, <2>2, <2>3
<1>7. CASE Onboard(l)
  <2>1. /\ run[l] = "onboarding" /\ left[l] # <<>> /\ projects[l] # <<>>
        /\ \A p \in ToSet(projects[l]) : Onboarded(l, p) \/ p \in ToSet(left[l])
    BY <1>1, <1>7 DEF Onboard, ProjectsInOrder
  <2>2. ProjectTypes' /\ UNCHANGED projects
    BY <1>1, <1>7, <2>1, LeftTyped DEF Onboard
  <2>3. CASE Fail(l) /\ UNCHANGED <<ready, left>>
    BY <1>5, <2>2, <2>3
  <2>4. CASE UNCHANGED <<run, ready, left>>
    BY <1>1, <1>2, <2>2, <2>4
    DEF ReadyInv, ProjectsInOrder, AllReady, Onboarded, Enabled, Stored
  <2>5. CASE /\ ready' = [ready EXCEPT ![l] = @ \union {<<"onboarded", Head(left[l])>>}]
             /\ left' = [left EXCEPT ![l] = IF Tail(@) = <<>> THEN projects[l] ELSE Tail(@)]
             /\ Goes(l, IF Tail(left[l]) = <<>> THEN "enabling" ELSE "onboarding")
    <3>1. left[l] \in Seq(ProjectNames)
      BY <1>1 DEF ProjectTypes
    <3>2. /\ \A p \in ToSet(left[l]) : p = Head(left[l]) \/ p \in ToSet(Tail(left[l]))
          /\ Tail(left[l]) = <<>> => \A p \in ToSet(left[l]) : p = Head(left[l])
      BY <2>1, <3>1, HeadOrTail
    <3>3. ready'[l] = ready[l] \union {<<"onboarded", Head(left[l])>>}
      BY <1>1, <2>5 DEF ProjectTypes, PerLogin
    <3>4. \A m \in Logins : m # l => /\ projects'[m] = projects[m] /\ left'[m] = left[m]
                                     /\ ready'[m] = ready[m] /\ run'[m] = run[m]
      BY <1>1, <2>2, <2>5 DEF ProjectTypes, PerLogin, TypeOK, Goes
    <3>5. left'[l] = IF Tail(left[l]) = <<>> THEN projects[l] ELSE Tail(left[l])
      BY <1>1, <2>5 DEF ProjectTypes
    <3>6. run'[l] = IF Tail(left[l]) = <<>> THEN "enabling" ELSE "onboarding"
      BY <2>5 DEF TypeOK, Goes
    <3>7. projects'[l] = projects[l]
      BY <2>2
    <3>8. ASSUME NEW p \in ToSet(projects[l])
          PROVE  Onboarded(l, p)' \/ p \in ToSet(Tail(left[l]))
      BY <2>1, <3>2, <3>3, <3>8 DEF Onboarded
    <3>9. ProjectsInOrder(l)'
      <4>1. CASE Tail(left[l]) = <<>>
        <5>1. \A p \in ToSet(projects[l]) : Onboarded(l, p)'
          BY <2>1, <3>2, <3>3, <4>1 DEF Onboarded
        <5> QED BY <1>3, <2>1, <3>5, <3>6, <3>7, <4>1, <5>1 DEF ProjectsInOrder
      <4>2. CASE Tail(left[l]) # <<>>
        BY <1>3, <2>1, <3>5, <3>6, <3>7, <3>8, <4>2 DEF ProjectsInOrder
      <4> QED BY <4>1, <4>2
    <3> QED BY <1>4, <2>2, <3>4, <3>9 DEF ReadyInv
  <2> QED BY <1>7, <2>3, <2>4, <2>5 DEF Onboard
<1>8. CASE Enable(l)
  <2>1. /\ run[l] = "enabling" /\ left[l] # <<>> /\ projects[l] # <<>>
        /\ \A p \in ToSet(projects[l]) :
             Onboarded(l, p) /\ (Enabled(l, p) \/ p \in ToSet(left[l]))
    BY <1>1, <1>8 DEF Enable, ProjectsInOrder
  <2>2. ProjectTypes' /\ UNCHANGED projects
    BY <1>1, <1>8, <2>1, LeftTyped DEF Enable
  <2>3. CASE Fail(l) /\ UNCHANGED <<ready, left>>
    BY <1>5, <2>2, <2>3
  <2>4. CASE /\ ready' = [ready EXCEPT ![l] = @ \union {<<"enabled", Head(left[l])>>}]
             /\ left' = [left EXCEPT ![l] = Tail(@)]
             /\ Goes(l, IF Tail(left[l]) = <<>> THEN "saving" ELSE "enabling")
    <3>1. left[l] \in Seq(ProjectNames)
      BY <1>1 DEF ProjectTypes
    <3>2. /\ \A p \in ToSet(left[l]) : p = Head(left[l]) \/ p \in ToSet(Tail(left[l]))
          /\ Tail(left[l]) = <<>> => \A p \in ToSet(left[l]) : p = Head(left[l])
      BY <2>1, <3>1, HeadOrTail
    <3>3. ready'[l] = ready[l] \union {<<"enabled", Head(left[l])>>}
      BY <1>1, <2>4 DEF ProjectTypes, PerLogin
    <3>4. \A m \in Logins : m # l => /\ projects'[m] = projects[m] /\ left'[m] = left[m]
                                     /\ ready'[m] = ready[m] /\ run'[m] = run[m]
      BY <1>1, <2>2, <2>4 DEF ProjectTypes, PerLogin, TypeOK, Goes
    <3>5. left'[l] = Tail(left[l]) /\ projects'[l] = projects[l]
      BY <1>1, <2>2, <2>4 DEF ProjectTypes
    <3>6. run'[l] = IF Tail(left[l]) = <<>> THEN "saving" ELSE "enabling"
      BY <2>4 DEF TypeOK, Goes
    <3>7. \A p \in ToSet(projects[l]) :
            Onboarded(l, p)' /\ (Enabled(l, p)' \/ p \in ToSet(Tail(left[l])))
      BY <2>1, <3>2, <3>3 DEF Onboarded, Enabled
    <3>8. ProjectsInOrder(l)'
      <4>1. CASE Tail(left[l]) = <<>>
        <5>1. \A p \in ToSet(projects[l]) : Onboarded(l, p)' /\ Enabled(l, p)'
          BY <2>1, <3>2, <3>3, <3>7, <4>1 DEF Enabled
        <5> QED BY <1>3, <2>1, <3>5, <3>6, <4>1, <5>1 DEF ProjectsInOrder, AllReady
      <4>2. CASE Tail(left[l]) # <<>>
        BY <1>3, <2>1, <3>5, <3>6, <3>7, <4>2 DEF ProjectsInOrder
      <4> QED BY <4>1, <4>2
    <3> QED BY <1>4, <2>2, <3>4, <3>8 DEF ReadyInv
  <2> QED
    BY <1>8, <2>3, <2>4
    DEF Enable, ApiOf, checkLoginAPIIsEnabled, checkCloudAPIIsEnabled, ApiStates
<1> QED BY <1>6, <1>7, <1>8

\* No other step of a Gemini login enters these stages.
LEMMA OtherSteps ==
  ASSUME TypeOK, ReadyInv, provider = "gemini", NEW l \in Logins, RunStep(l),
         ~Choose(l), ~Onboard(l), ~Enable(l)
  PROVE  /\ UNCHANGED <<provider, projects, left, ready>>
         /\ run' = run \/ \E to \in Early \union Finished \union {"choosing"} :
                             run' = [run EXCEPT ![l] = to]
         /\ \/ UNCHANGED store
            \/ /\ run[l] = "saving"
               /\ \E written \in {l, Broken} : store' = [store EXCEPT ![name[l]] = written]
<1> USE DEF Early, Finished, Goes, Over, Stays
<1>1. ASSUME Fail(l) PROVE \E to \in {"ending", "over"} : run' = [run EXCEPT ![l] = to]
  BY <1>1 DEF Fail
<1>2. CASE Serve(l) \/ ServeGemini(l) \/ ServeKiro(l) \/ OpenDevice(l) \/ OpenFile(l)
  BY <1>2
  DEF Serve, ServeGemini, ServeKiro, OpenDevice, OpenFile, ServeOn, Refuse, unchangedByCommand, grant
<1>3. CASE ReadCallback(l) \/ ReadResult(l)
  BY <1>1, <1>3 DEF ReadCallback, ReadResult, unchangedByRun
<1>4. CASE Timeout(l) \/ ShutDown(l) \/ Poll(l)
  BY <1>1, <1>4 DEF Timeout, ShutDown, Poll, unchangedByRun, grant
<1>5. CASE Exchange(l)
  <2>1. Fail(l) \/ Goes(l, "choosing")
    <3>1. AfterExchange(l) = "choosing"
      BY DEF AfterExchange
    <3> QED BY <1>5, <3>1 DEF Exchange
  <2> QED BY <1>1, <1>5, <2>1 DEF Exchange, unchangedByRun
<1>6. CASE CloseServer(l)
  BY <1>6 DEF CloseServer, ReadyInv, ProjectsInOrder
<1>7. CASE Save(l)
  BY <1>1, <1>7 DEF Save, unchangedByEnd, grant
<1>8. CASE Mirror(l) \/ DeleteStatus(l) \/ TakeForwarder(l) \/ CloseTaken(l)
  BY <1>1, <1>8 DEF Mirror, DeleteStatus, TakeForwarder, CloseTaken, unchangedByEnd, grant, server
<1> QED BY <1>2, <1>3, <1>4, <1>5, <1>6, <1>7, <1>8 DEF RunStep

LEMMA ReadyInit == Init => ReadyInv
<1> SUFFICES ASSUME Init PROVE ReadyInv
  OBVIOUS
<1>1. ProjectTypes
  BY DEF Init, ProjectTypes, PerLogin
<1>2. \A l \in Logins : ProjectsInOrder(l)
  BY LoginsAssumption DEF Init, ProjectsInOrder, Stored
<1> QED BY <1>1, <1>2 DEF ReadyInv

LEMMA SameProvider == [Next]_vars => provider' = provider
<1>1. CASE UNCHANGED vars
  BY <1>1 DEF vars
<1>2. ASSUME NEW l \in Logins, HandlerStep(l) \/ AskStatus(l) \/ BrowserCalls(l) \/ EndWrite(l)
      PROVE  provider' = provider
  BY <1>2
  DEF HandlerStep, AskStatus, BrowserCalls, EndWrite, TakePrevious, StopPrevious, Listen,
      PutForwarder, Go, GoQwen, GoCookie, Reply, unchangedByHandler
<1>3. ASSUME NEW l \in Logins, RunStep(l) PROVE provider' = provider
  BY <1>3
  DEF RunStep, Serve, ServeGemini, ServeKiro, OpenDevice, OpenFile, ReadCallback, ReadResult,
      Timeout, ShutDown, Poll, Exchange, CloseServer, Choose, Onboard, Enable, Save, Mirror,
      DeleteStatus, TakeForwarder, CloseTaken, unchangedByRun, unchangedByCommand, unchangedByEnd
<1> QED BY <1>1, <1>2, <1>3 DEF Next

LEMMA ReadyNext == PortInv /\ RecordInv /\ ReadyInv /\ [Next]_vars => ReadyInv'
<1> SUFFICES ASSUME PortInv, RecordInv, ReadyInv, [Next]_vars, provider = "gemini"
             PROVE  ReadyInv'
  BY SameProvider DEF ReadyInv
<1>1. TypeOK /\ RecordsTrue /\ RecordTypes /\ NamesInOrder
  BY DEF PortInv, RecordInv, RecordsTrue
<1>2. ProjectTypes
  BY DEF ReadyInv
<1>3. ASSUME UNCHANGED <<provider, projects, left, ready, store>>,
             NEW l \in Logins, run' = run \/ \E to \in Early : run' = [run EXCEPT ![l] = to]
      PROVE  ReadyInv'
  <2>1. ProjectTypes'
    BY <1>2, <1>3 DEF ProjectTypes, PerLogin
  <2>2. ASSUME NEW m \in Logins, ProjectsInOrder(m) PROVE ProjectsInOrder(m)'
    <3>1. run'[m] = run[m] \/ run'[m] \in Early
      BY <1>1, <1>3 DEF TypeOK
    <3> QED BY <1>3, <2>2, <3>1 DEF ProjectsInOrder, AllReady, Onboarded, Enabled, Stored, Early
  <2> QED BY <1>3, <2>1, <2>2 DEF ReadyInv
<1>4. CASE UNCHANGED vars
  <2>1. ProjectTypes'
    BY <1>2, <1>4 DEF vars, ProjectTypes, PerLogin
  <2> QED BY <1>4, <2>1 DEF vars, ReadyInv, ProjectsInOrder, AllReady, Onboarded, Enabled, Stored
<1>5. ASSUME NEW l \in Logins, HandlerStep(l) \/ AskStatus(l) PROVE ReadyInv'
  BY <1>3, <1>5
  DEF HandlerStep, AskStatus, TakePrevious, StopPrevious, Listen, PutForwarder, Go, GoQwen, GoCookie,
      Reply, unchangedByHandler, grant, server, Goes, Early
<1>6. ASSUME NEW l \in Logins, BrowserCalls(l) \/ EndWrite(l) PROVE ReadyInv'
  BY <1>3, <1>6 DEF BrowserCalls, EndWrite, grant
<1>7. ASSUME NEW l \in Logins, RunStep(l) PROVE ReadyInv'
  <2>1. CASE (Choose(l) \/ Onboard(l) \/ Enable(l))
    BY <1>1, <2>1, ProjectSteps
  <2>2. CASE ~(Choose(l) \/ Onboard(l) \/ Enable(l))
    <3>1. /\ UNCHANGED <<provider, projects, left, ready>>
          /\ run' = run \/ \E to \in Early \union Finished \union {"choosing"} :
                              run' = [run EXCEPT ![l] = to]
          /\ \/ UNCHANGED store
             \/ /\ run[l] = "saving"
                /\ \E written \in {l, Broken} : store' = [store EXCEPT ![name[l]] = written]
      BY <1>1, <1>7, <2>2, OtherSteps
    <3>2. ProjectTypes'
      BY <1>2, <3>1 DEF ProjectTypes, PerLogin
    <3>3. ASSUME NEW m \in Logins PROVE ProjectsInOrder(m)'
      <4>1. ProjectsInOrder(m)
        BY DEF ReadyInv
      <4>2. run'[m] = run[m] \/ run'[m] \in Early \union Finished \union {"choosing"}
        BY <1>1, <3>1 DEF TypeOK
      <4>3. Stored(m)' => Stored(m) \/ run[m] = "saving"
        BY <1>1, <3>1, LoginsAssumption DEF Stored, RecordTypes
      <4> QED BY <3>1, <4>1, <4>2, <4>3
              DEF ProjectsInOrder, AllReady, Onboarded, Enabled, Early, Finished
    <3> QED BY <3>2, <3>3 DEF ReadyInv
  <2> QED BY <2>1, <2>2
<1> QED BY <1>4, <1>5, <1>6, <1>7 DEF Next

\* Gemini's onboarding: a record is stored only when every project it names has
\* been onboarded and has its API enabled, whatever projects the account has
\* and whichever are asked for.
THEOREM ProjectsReady == Spec => []ReadyWhenSaved
<1>1. ReadyInv => ReadyWhenSaved
  BY DEF ReadyInv, ProjectsInOrder, AllReady, Onboarded, Enabled, ReadyWhenSaved
<1> QED BY <1>1, PortsInOrder, RecordsInOrder, ReadyInit, ReadyNext, PTL DEF Spec
=============================================================================
