------------------------------- MODULE WsRelay -------------------------------
(***************************************************************************)
(* The websocket relay (internal/wsrelay): browsers connect as providers   *)
(* and answer the requests the proxy sends them.  A connection is worked   *)
(* on by its HTTP handler, a reader, a heartbeat, Manager.Stop and the     *)
(* callers that wait for answers; any of them may close it.  The           *)
(* callbacks end in the service, which registers or removes the provider.  *)
(***************************************************************************)
EXTENDS Integers, Sequences, FiniteSets

CONSTANTS
  NumConns,   \* bound: websocket connections, numbered as they come
  Names,      \* the provider names
  Name,       \* the name each connection gets
  Calls,      \* requests of the proxy, each used once
  NoConn,
  Buffer,     \* room in a pending request's channel (8 in the code)
  MaxChunks,  \* bound: the chunks a provider sends for a request
  MaxStops,   \* bound: how often Manager.Stop is called
  MaxWork     \* bound: connections and requests together

NoCall == 0

ASSUME RelayAssumption ==
  /\ NumConns \in Nat
  /\ Name \in [1..NumConns -> Names]
  /\ NoConn \notin 1..NumConns /\ NoCall \notin Calls
  /\ Buffer \in Nat \ {0} /\ MaxChunks \in Nat /\ MaxStops \in Nat /\ MaxWork \in Nat

Conns == 1..NumConns

\* What a provider sends for a request: its chunks, numbered, then one of
\* these; a connection that is cleaned up puts a Failure in their place.
End == -1
Failure == -2

Kinds == {"stream", "unary"}

VARIABLES
  sessions,   \* Manager.sessions
  handler,    \* what the HTTP handler of each connection does
  replaced,   \* the session the handler found under its name
  reader,     \* the goroutine of session.run
  read,       \* the message the reader holds, with the channel it found
  wire,       \* messages on the way from the provider
  broken,     \* the connection is down
  cleanup,    \* how far session.cleanup is
  visiting,   \* the requests cleanup's Range has still to look at
  loaded,     \* the one it has loaded
  cause,      \* why it is closed
  stopping,   \* sessions Manager.Stop has still to close
  stops,
  pending,    \* session.pending
  caller,     \* what each caller does
  kind, conn,
  chan,       \* the channel of its pending request
  chanClosed,
  cancelled,  \* the caller's context is done
  got,        \* the chunks the caller received
  sent,       \* chunks the provider sent: how many, and how it ended
  finish,
  dropped,    \* a message found the channel full
  update,     \* the newest runtime update the service has not applied
  record,     \* the provider's record in the auth manager
  early,      \* connections closed before the handler announced them
  crashed     \* a goroutine without recover sent on a closed channel

connVars == <<sessions, handler, replaced>>
readVars == <<reader, read>>
closeVars == <<cleanup, visiting, loaded, cause>>
stopVars == <<stopping, stops>>
callVars == <<caller, kind, conn, got, cancelled>>
chanVars == <<pending, chan, chanClosed, dropped>>
netVars == <<wire, broken, sent, finish>>
serviceVars == <<update, record>>
relayVars == <<connVars, readVars, closeVars, stopVars, callVars, chanVars,
               netVars, serviceVars, early, crashed>>

NoMessage == [call |-> NoCall, body |-> 0]
Ended == {"ok", "failed", "refused", "left", "panicked"}

RelayInit ==
  /\ sessions = [n \in Names |-> NoConn]
  /\ handler = [c \in Conns |-> "off"]
  /\ replaced = [c \in Conns |-> NoConn]
  /\ reader = [c \in Conns |-> "off"]
  /\ read = [c \in Conns |-> NoMessage]
  /\ wire = [c \in Conns |-> <<>>]
  /\ broken = [c \in Conns |-> FALSE]
  /\ cleanup = [c \in Conns |-> "no"]
  /\ visiting = [c \in Conns |-> {}]
  /\ loaded = [c \in Conns |-> NoCall]
  /\ cause = [c \in Conns |-> "none"]
  /\ stopping = {} /\ stops = 0
  /\ pending = [c \in Conns |-> {}]
  /\ caller = [r \in Calls |-> "idle"]
  /\ kind \in [Calls -> Kinds]
  /\ conn = [r \in Calls |-> NoConn]
  /\ chan = [r \in Calls |-> <<>>]
  /\ chanClosed = [r \in Calls |-> FALSE]
  /\ cancelled = [r \in Calls |-> FALSE]
  /\ got = [r \in Calls |-> <<>>]
  /\ sent = [r \in Calls |-> 0]
  /\ finish = [r \in Calls |-> 0]
  /\ dropped = [r \in Calls |-> FALSE]
  /\ update = [n \in Names |-> "none"]
  /\ record = [n \in Names |-> "none"]
  /\ early = {}
  /\ crashed = FALSE

IsClosed(c) == cleanup[c] # "no"

\* There is room in the bound for one more.
MoreWork == Cardinality({c \in Conns : handler[c] # "off"})
              + Cardinality({r \in Calls : caller[r] # "idle"}) < MaxWork

-----------------------------------------------------------------------------
(* cleanup: the first who calls it does the work, once (closeOnce). *)

\* close(s.closed); Range starts over the requests stored by now.
StartCleanup(c, why) ==
  /\ cleanup[c] = "no"
  /\ cleanup' = [cleanup EXCEPT ![c] = "failing"]
  /\ visiting' = [visiting EXCEPT ![c] = pending[c]]
  /\ UNCHANGED loaded
  /\ cause' = [cause EXCEPT ![c] = why]
  /\ early' = IF handler[c] \in {"replacing", "announcing"}
              THEN early \union {c} ELSE early

\* Range loads a request, or skips one deleted by now.
VisitPending(c, r) ==
  /\ cleanup[c] = "failing" /\ loaded[c] = NoCall /\ r \in visiting[c]
  /\ visiting' = [visiting EXCEPT ![c] = @ \ {r}]
  /\ loaded' = [loaded EXCEPT ![c] = IF r \in pending[c] THEN r ELSE NoCall]
  /\ UNCHANGED <<connVars, readVars, cleanup, cause, stopVars, callVars, chanVars,
                 netVars, serviceVars, early, crashed>>

MutFailPendingSilent(c) ==
  LET r == loaded[c] IN
  /\ r # NoCall
  /\ chanClosed' = [chanClosed EXCEPT ![r] = TRUE]
  /\ loaded' = [loaded EXCEPT ![c] = NoCall]
  /\ UNCHANGED <<connVars, readVars, cleanup, visiting, cause, stopVars, callVars, pending, chan,
                 dropped, netVars, serviceVars, early, crashed>>

MutFailPending(c) ==
  LET r == loaded[c] IN
  /\ r # NoCall
  /\ IF Len(chan[r]) < Buffer
     THEN chan' = [chan EXCEPT ![r] = Append(@, Failure)] /\ UNCHANGED dropped
     ELSE dropped' = [dropped EXCEPT ![r] = TRUE] /\ UNCHANGED chan
  /\ loaded' = [loaded EXCEPT ![c] = NoCall]
  /\ UNCHANGED <<connVars, readVars, cleanup, visiting, cause, stopVars, callVars, pending, chanClosed,
                 netVars, serviceVars, early, crashed>>

\* An error if there is room, then the close.  A cancelled context may have
\* closed the channel since Range loaded it.
FailPending(c) ==
  LET r == loaded[c] IN
  /\ r # NoCall
  /\ IF chanClosed[r] THEN crashed' = TRUE /\ UNCHANGED <<chan, dropped>>
     ELSE /\ UNCHANGED crashed
          /\ IF Len(chan[r]) < Buffer
             THEN chan' = [chan EXCEPT ![r] = Append(@, Failure)] /\ UNCHANGED dropped
             ELSE dropped' = [dropped EXCEPT ![r] = TRUE] /\ UNCHANGED chan
  /\ chanClosed' = [chanClosed EXCEPT ![r] = TRUE]
  /\ loaded' = [loaded EXCEPT ![c] = NoCall]
  /\ UNCHANGED <<connVars, readVars, cleanup, visiting, cause, stopVars, callVars, pending,
                 netVars, serviceVars, early>>

\* s.pending = sync.Map{}, and the connection is closed.
WipePending(c) ==
  /\ cleanup[c] = "failing" /\ visiting[c] = {} /\ loaded[c] = NoCall
  /\ cleanup' = [cleanup EXCEPT ![c] = "unlisting"]
  /\ pending' = [pending EXCEPT ![c] = {}]
  /\ broken' = [broken EXCEPT ![c] = TRUE]
  /\ UNCHANGED <<connVars, readVars, visiting, loaded, cause, stopVars, callVars, chan, chanClosed,
                 dropped, wire, sent, finish, serviceVars, early, crashed>>

\* handleSessionClosed, under the lock: only its own entry is removed.
Unlist(c) ==
  /\ cleanup[c] = "unlisting"
  /\ cleanup' = [cleanup EXCEPT ![c] = "telling"]
  /\ sessions' = [sessions EXCEPT ![Name[c]] = IF @ = c THEN NoConn ELSE @]
  /\ UNCHANGED <<handler, replaced, readVars, visiting, loaded, cause, stopVars, callVars, chanVars,
                 netVars, serviceVars, early, crashed>>

MutDisconnected(c) ==
  /\ cleanup[c] = "telling"
  /\ cleanup' = [cleanup EXCEPT ![c] = "done"]
  /\ update' = IF cause[c] \in {"replaced", "stopped"} THEN update
               ELSE [update EXCEPT ![Name[c]] = "delete"]
  /\ UNCHANGED <<connVars, readVars, visiting, loaded, cause, stopVars, callVars, chanVars,
                 netVars, record, early, crashed>>

\* onDisconnected, after the lock: a replaced session says nothing.
Disconnected(c) ==
  /\ cleanup[c] = "telling"
  /\ cleanup' = [cleanup EXCEPT ![c] = "done"]
  /\ update' = IF cause[c] = "replaced" THEN update
               ELSE [update EXCEPT ![Name[c]] = "delete"]
  /\ UNCHANGED <<connVars, readVars, visiting, loaded, cause, stopVars, callVars, chanVars,
                 netVars, record, early, crashed>>

Cleanup(c) ==
  \/ \E r \in Calls : VisitPending(c, r)
  \/ FailPending(c) \/ WipePending(c) \/ Unlist(c) \/ Disconnected(c)

-----------------------------------------------------------------------------
(* The HTTP handler of a connection, and its provider. *)

\* The upgrade, and the session is listed under its name; its heartbeat first
\* fires much later.
Connect(c) ==
  /\ MoreWork
  /\ handler[c] = "off" /\ \A b \in 1..(c - 1) : handler[b] # "off"
  /\ replaced' = [replaced EXCEPT ![c] = sessions[Name[c]]]
  /\ sessions' = [sessions EXCEPT ![Name[c]] = c]
  /\ handler' = [handler EXCEPT ![c] =
                   IF sessions[Name[c]] = NoConn THEN "announcing" ELSE "replacing"]
  /\ UNCHANGED <<readVars, closeVars, stopVars, callVars, chanVars, netVars, serviceVars,
                 early, crashed>>

\* replaced.cleanup: does it, or waits until it is done.
Replace(c) ==
  /\ handler[c] = "replacing"
  /\ \/ /\ StartCleanup(replaced[c], "replaced")
        /\ UNCHANGED handler
     \/ /\ cleanup[replaced[c]] = "done"
        /\ handler' = [handler EXCEPT ![c] = "announcing"]
        /\ UNCHANGED <<closeVars, early>>
  /\ UNCHANGED <<sessions, replaced, readVars, stopVars, callVars, chanVars, netVars,
                 serviceVars, crashed>>

\* wsOnConnected: an active record needs no update; then the reader starts.
Announce(c) ==
  /\ handler[c] = "announcing"
  /\ handler' = [handler EXCEPT ![c] = "returned"]
  /\ reader' = [reader EXCEPT ![c] = "reading"]
  /\ update' = IF record[Name[c]] = "active" THEN update
               ELSE [update EXCEPT ![Name[c]] = "add"]
  /\ UNCHANGED <<sessions, replaced, read, closeVars, stopVars, callVars, chanVars,
                 netVars, record, early, crashed>>

HandlerSteps(c) == Replace(c) \/ Announce(c)

\* A browser closes its tab, or the network goes.
Break(c) ==
  /\ handler[c] # "off" /\ ~broken[c]
  /\ broken' = [broken EXCEPT ![c] = TRUE]
  /\ UNCHANGED <<connVars, readVars, closeVars, stopVars, callVars, chanVars, wire, sent,
                 finish, serviceVars, early, crashed>>

\* A ping that cannot be written.
Heartbeat(c) ==
  /\ handler[c] # "off" /\ broken[c]
  /\ StartCleanup(c, "error")
  /\ UNCHANGED <<connVars, readVars, stopVars, callVars, chanVars, netVars, serviceVars,
                 crashed>>

Answer(r) ==
  LET c == conn[r] IN
  /\ caller[r] \in {"waiting", "ok", "failed", "left"}
  /\ finish[r] = 0 /\ ~broken[c]
  /\ \/ /\ sent[r] < MaxChunks
        /\ sent' = [sent EXCEPT ![r] = @ + 1]
        /\ wire' = [wire EXCEPT ![c] = Append(@, [call |-> r, body |-> sent[r] + 1])]
        /\ UNCHANGED finish
     \/ \E last \in {End, Failure} :
          /\ finish' = [finish EXCEPT ![r] = last]
          /\ wire' = [wire EXCEPT ![c] = Append(@, [call |-> r, body |-> last])]
          /\ UNCHANGED sent
  /\ UNCHANGED <<connVars, readVars, closeVars, stopVars, callVars, chanVars, broken,
                 serviceVars, early, crashed>>

-----------------------------------------------------------------------------
(* The reader: session.run and dispatch. *)

\* ReadJSON, and the load of the pending request; unknown ones are dropped.
Receive(c) ==
  /\ reader[c] = "reading" /\ wire[c] # <<>> /\ ~IsClosed(c)
  /\ wire' = [wire EXCEPT ![c] = Tail(@)]
  /\ LET m == Head(wire[c]) IN
       IF m.call \in pending[c]
       THEN /\ read' = [read EXCEPT ![c] = m]
            /\ reader' = [reader EXCEPT ![c] = "offering"]
       ELSE UNCHANGED readVars
  /\ UNCHANGED <<connVars, closeVars, stopVars, callVars, chanVars, broken, sent, finish,
                 serviceVars, early, crashed>>

\* The send takes no time: without room the message is dropped.  The last one
\* also ends the request.
Offer(c) ==
  LET r == read[c].call  m == read[c].body IN
  /\ reader[c] = "offering"
  /\ reader' = [reader EXCEPT ![c] = "reading"]
  /\ read' = [read EXCEPT ![c] = NoMessage]
  /\ IF chanClosed[r]
     THEN crashed' = TRUE /\ UNCHANGED chanVars
     ELSE /\ UNCHANGED crashed
          /\ IF Len(chan[r]) < Buffer
             THEN chan' = [chan EXCEPT ![r] = Append(@, m)] /\ UNCHANGED dropped
             ELSE dropped' = [dropped EXCEPT ![r] = TRUE] /\ UNCHANGED chan
          /\ IF m < 0 /\ r \in pending[c]
             THEN /\ pending' = [pending EXCEPT ![c] = @ \ {r}]
                  /\ chanClosed' = [chanClosed EXCEPT ![r] = TRUE]
             ELSE UNCHANGED <<pending, chanClosed>>
  /\ UNCHANGED <<connVars, closeVars, stopVars, callVars, netVars, serviceVars, early>>

\* What was received before the connection broke is read first, unless it was
\* closed on this side.
ReadFails(c) ==
  /\ reader[c] = "reading" /\ broken[c] /\ (wire[c] = <<>> \/ IsClosed(c))
  /\ reader' = [reader EXCEPT ![c] = "returned"]
  /\ IF IsClosed(c) THEN UNCHANGED <<closeVars, early>> ELSE StartCleanup(c, "error")
  /\ UNCHANGED <<connVars, read, stopVars, callVars, chanVars, netVars, serviceVars, crashed>>

ReaderSteps(c) == Receive(c) \/ Offer(c) \/ ReadFails(c)

-----------------------------------------------------------------------------
(* Manager.Stop: at shutdown, and when websocket authentication is turned on.
   Without a session it does nothing. *)

Stop ==
  /\ stops < MaxStops /\ stopping = {} /\ \E n \in Names : sessions[n] # NoConn
  /\ stops' = stops + 1
  /\ stopping' = {sessions[n] : n \in Names} \ {NoConn}
  /\ sessions' = [n \in Names |-> NoConn]
  /\ UNCHANGED <<handler, replaced, readVars, closeVars, callVars, chanVars, netVars,
                 serviceVars, early, crashed>>

StopOne(c) ==
  /\ c \in stopping
  /\ \/ StartCleanup(c, "stopped") /\ UNCHANGED stopping
     \/ /\ cleanup[c] = "done"
        /\ stopping' = stopping \ {c}
        /\ UNCHANGED <<closeVars, early>>
  /\ UNCHANGED <<connVars, readVars, stops, callVars, chanVars, netVars, serviceVars, crashed>>

-----------------------------------------------------------------------------
(* A caller: Send and session.request, then NonStream or Stream. *)

\* The provider is asked for by its name.
Find(r) ==
  /\ MoreWork
  /\ caller[r] = "idle"
  /\ \E n \in Names :
       /\ conn' = [conn EXCEPT ![r] = sessions[n]]
       /\ caller' = [caller EXCEPT ![r] = IF sessions[n] = NoConn THEN "refused" ELSE "found"]
  /\ UNCHANGED <<connVars, readVars, closeVars, stopVars, kind, got, cancelled, chanVars,
                 netVars, serviceVars, early, crashed>>

Store(r) ==
  /\ caller[r] = "found"
  /\ pending' = [pending EXCEPT ![conn[r]] = @ \union {r}]
  /\ caller' = [caller EXCEPT ![r] = "stored"]
  /\ UNCHANGED <<connVars, readVars, closeVars, stopVars, kind, conn, got, cancelled, chan,
                 chanClosed, dropped, netVars, serviceVars, early, crashed>>

\* The second Load: the map may have been replaced meanwhile, and the
\* assertion on nil panics (the HTTP server recovers).
Load(r) ==
  /\ caller[r] = "stored"
  /\ caller' = [caller EXCEPT ![r] = IF r \in pending[conn[r]] THEN "loaded" ELSE "panicked"]
  /\ UNCHANGED <<connVars, readVars, closeVars, stopVars, kind, conn, got, cancelled, chanVars,
                 netVars, serviceVars, early, crashed>>

MutWrite(r) ==
  /\ caller[r] = "loaded"
  /\ caller' = [caller EXCEPT ![r] = "waiting"]
  /\ UNCHANGED <<connVars, readVars, closeVars, stopVars, kind, conn, got, cancelled, chanVars,
                 netVars, serviceVars, early, crashed>>

\* session.send; if it fails the request is taken back.
Write(r) ==
  LET c == conn[r] IN
  /\ caller[r] = "loaded"
  /\ \/ /\ ~IsClosed(c) /\ ~broken[c]
        /\ caller' = [caller EXCEPT ![r] = "waiting"]
        /\ UNCHANGED <<pending, chanClosed>>
     \/ /\ IsClosed(c) \/ broken[c]
        /\ caller' = [caller EXCEPT ![r] = "refused"]
        /\ pending' = [pending EXCEPT ![c] = @ \ {r}]
        /\ chanClosed' = IF r \in pending[c] THEN [chanClosed EXCEPT ![r] = TRUE]
                         ELSE chanClosed
  /\ UNCHANGED <<connVars, readVars, closeVars, stopVars, kind, conn, got, cancelled, chan,
                 dropped, netVars, serviceVars, early, crashed>>

\* The client leaves.  Nobody looks at the context before the caller waits, or
\* once the request is over.
Cancel(r) ==
  /\ caller[r] = "waiting" /\ ~cancelled[r]
  /\ cancelled' = [cancelled EXCEPT ![r] = TRUE]
  /\ UNCHANGED <<connVars, readVars, closeVars, stopVars, caller, kind, conn, got, chanVars,
                 netVars, serviceVars, early, crashed>>

\* The goroutine request starts: LoadAndDelete and close.
Forget(r) ==
  LET c == conn[r] IN
  /\ caller[r] \in {"waiting", "ok", "failed", "left"} /\ cancelled[r] /\ r \in pending[c]
  /\ pending' = [pending EXCEPT ![c] = @ \ {r}]
  /\ chanClosed' = [chanClosed EXCEPT ![r] = TRUE]
  /\ UNCHANGED <<connVars, readVars, closeVars, stopVars, callVars, chan, dropped, netVars,
                 serviceVars, early, crashed>>

\* One turn of the caller's select.  A unary caller that saw a part of a
\* stream takes the close of the channel for its end.
Take(r) ==
  /\ caller[r] = "waiting"
  /\ \/ /\ chan[r] # <<>>
        /\ chan' = [chan EXCEPT ![r] = Tail(@)]
        /\ LET m == Head(chan[r]) IN
             IF m > 0 THEN got' = [got EXCEPT ![r] = Append(@, m)] /\ UNCHANGED caller
             ELSE /\ caller' = [caller EXCEPT ![r] = IF m = End THEN "ok" ELSE "failed"]
                  /\ UNCHANGED got
     \/ /\ chan[r] = <<>> /\ chanClosed[r]
        /\ caller' = [caller EXCEPT ![r] =
                        IF kind[r] = "unary" /\ got[r] # <<>> THEN "ok" ELSE "failed"]
        /\ UNCHANGED <<chan, got>>
     \/ /\ cancelled[r]
        /\ caller' = [caller EXCEPT ![r] = "left"]
        /\ UNCHANGED <<chan, got>>
  /\ UNCHANGED <<connVars, readVars, closeVars, stopVars, kind, conn, cancelled, pending,
                 chanClosed, dropped, netVars, serviceVars, early, crashed>>

CallerSteps(r) == Store(r) \/ Load(r) \/ Write(r) \/ Take(r)

-----------------------------------------------------------------------------
(* The service: its consumer takes the newest update of a provider. *)

Apply(n) ==
  /\ update[n] # "none"
  /\ update' = [update EXCEPT ![n] = "none"]
  /\ record' = [record EXCEPT ![n] = IF update[n] = "add" THEN "active"
                                     ELSE IF @ = "none" THEN "none" ELSE "disabled"]
  /\ UNCHANGED <<connVars, readVars, closeVars, stopVars, callVars, chanVars, netVars,
                 early, crashed>>

RelayStep ==
  \/ \E c \in Conns : \/ Connect(c) \/ HandlerSteps(c) \/ Break(c) \/ Heartbeat(c)
                      \/ ReaderSteps(c) \/ Cleanup(c) \/ StopOne(c)
  \/ \E r \in Calls : \/ Find(r) \/ CallerSteps(r) \/ Cancel(r) \/ Forget(r) \/ Answer(r)
  \/ \E n \in Names : Apply(n)
  \/ Stop

\* A panic in a goroutine that does not recover ends the process.
RelayNext == ~crashed /\ RelayStep

RelaySpec == RelayInit /\ [][RelayNext]_relayVars

\* Every goroutine goes on while the process lives; providers answer or their
\* connection breaks.  Nobody must connect, ask, cancel or stop.
RelayFairness ==
  /\ \A c \in Conns :
       /\ WF_relayVars(~crashed /\ HandlerSteps(c)) /\ WF_relayVars(~crashed /\ ReaderSteps(c))
       /\ WF_relayVars(~crashed /\ Cleanup(c)) /\ WF_relayVars(~crashed /\ StopOne(c))
  /\ \A r \in Calls : /\ WF_relayVars(~crashed /\ CallerSteps(r))
                       /\ WF_relayVars(~crashed /\ Answer(r))
  /\ \A n \in Names : WF_relayVars(~crashed /\ Apply(n))

RelayFairSpec == RelaySpec /\ RelayFairness

-----------------------------------------------------------------------------
(* Properties *)

\* What the closing of a session leaves behind: no caller of it waits on a
\* channel that nobody will close, however storing, writing and closing
\* interleave (request and cleanup in session.go).
ClosedReleases ==
  \A r \in Calls :
    caller[r] = "waiting" /\ cleanup[conn[r]] \in {"unlisting", "telling", "done"}
      => chanClosed[r]

\* A caller that is told its request went well has every chunk the provider
\* sent, in order, unless the channel overflowed or its context was done
\* (NonStream and Stream in http.go).
WholeAnswer ==
  \A r \in Calls :
    caller[r] = "ok" /\ ~dropped[r] /\ ~cancelled[r]
      => /\ finish[r] = End
         /\ got[r] = [i \in 1..sent[r] |-> i]

\* Every request ends: answered, failed or refused (Manager.Send, NonStream,
\* Stream), unless the process is gone.
CallsEnd ==
  \A r \in Calls : caller[r] # "idle" ~> caller[r] \in Ended \/ crashed

Live(c) == handler[c] = "returned" /\ ~IsClosed(c)

\* The service's record follows the connections: in the end a provider is
\* active if and only if its connection is up (wsOnConnected and
\* wsOnDisconnected in service.go), unless it was closed before it was
\* announced.  Names are random, used once each.
ProvidersFollow ==
  \A n \in Names :
    <>[](\/ (record[n] = "active" <=> \E c \in Conns : Name[c] = n /\ Live(c))
         \/ crashed \/ early # {}
         \/ Cardinality({c \in Conns : Name[c] = n /\ handler[c] # "off"}) > 1)

\* No goroutine sends on a channel another one has closed.
NoSendOnClosed == ~crashed
=============================================================================
