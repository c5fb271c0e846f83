----------------------------- MODULE UsageManager -----------------------------
(***************************************************************************)
(* The usage queue (sdk/cliproxy/usage) and the statistics plugin          *)
(* (internal/usage): executors publish one record per request, a worker    *)
(* hands them to the plugin, which looks up the outcome of the request in  *)
(* its gin context.  Gin uses a context again for a later request.         *)
(***************************************************************************)
EXTENDS Integers, Sequences

CONSTANTS
  Requests,   \* requests, each served once
  Contexts,   \* gin's pool of contexts
  NoRequest, NoContext

VARIABLES
  usageQueue,   \* Manager.queue
  usageClosed,  \* Manager.closed
  worker,       \* what the dispatcher does: "waiting", "busy" or "returned"
  inHand,       \* the record it hands to the plugin
  tally,        \* how the statistics counted each request
  enabled,      \* statisticsEnabled
  context,      \* the gin context of a request
  free,         \* contexts no handler uses now
  written,      \* the status in each context's writer
  exited        \* the process is gone

usageVars == <<usageQueue, usageClosed, worker, inHand, tally, enabled, context, free, written, exited>>

OK == 200
BadRequest == 400  \* httpStatusBadRequest
ServerError == 500

NoRecord == [request |-> NoRequest, failed |-> FALSE]

\* The service starts the worker before it serves.
UsageInit ==
  /\ usageQueue = <<>> /\ usageClosed = FALSE
  /\ worker = "waiting" /\ inHand = NoRecord
  /\ tally = [r \in Requests |-> "none"]
  /\ enabled \in BOOLEAN
  /\ context = [r \in Requests |-> NoContext]
  /\ free = Contexts
  /\ written = [x \in Contexts |-> OK]
  /\ exited = FALSE

\* The queue once these records were published: nothing more after Stop.
Published(records) == IF usageClosed THEN usageQueue ELSE usageQueue \o records

MutTakeRecord ==
  /\ worker = "waiting"
  /\ \/ /\ usageQueue # <<>> /\ ~usageClosed
        /\ worker' = "busy"
        /\ inHand' = Head(usageQueue)
        /\ usageQueue' = Tail(usageQueue)
     \/ /\ usageClosed
        /\ worker' = "returned"
        /\ UNCHANGED <<usageQueue, inHand>>
  /\ UNCHANGED <<usageClosed, tally, enabled, context, free, written, exited>>

\* The worker takes the oldest record; once stopped and empty it returns.
TakeRecord ==
  /\ worker = "waiting"
  /\ \/ /\ usageQueue # <<>>
        /\ worker' = "busy"
        /\ inHand' = Head(usageQueue)
        /\ usageQueue' = Tail(usageQueue)
     \/ /\ usageQueue = <<>> /\ usageClosed
        /\ worker' = "returned"
        /\ UNCHANGED <<usageQueue, inHand>>
  /\ UNCHANGED <<usageClosed, tally, enabled, context, free, written, exited>>

\* resolveSuccess: what the writer of the request's context says by now.
Succeeded(r) == written[context[r]] < BadRequest

\* LoggerPlugin.HandleUsage: nothing while the statistics are off.
CountRecord ==
  /\ worker = "busy"
  /\ worker' = "waiting"
  /\ inHand' = NoRecord
  /\ tally' = IF enabled
              THEN [tally EXCEPT ![inHand.request] =
                      IF ~inHand.failed /\ Succeeded(inHand.request) THEN "success" ELSE "failure"]
              ELSE tally
  /\ UNCHANGED <<usageQueue, usageClosed, enabled, context, free, written, exited>>

\* Shutdown stops the queue last; then the process ends without waiting.
StopUsage ==
  /\ ~usageClosed
  /\ usageClosed' = TRUE
  /\ UNCHANGED <<usageQueue, worker, inHand, tally, enabled, context, free, written, exited>>

Exit ==
  /\ usageClosed /\ ~exited
  /\ exited' = TRUE
  /\ UNCHANGED <<usageQueue, usageClosed, worker, inHand, tally, enabled, context, free, written>>

\* A config reload turns the statistics on or off.
SetEnabled ==
  /\ enabled' = ~enabled
  /\ UNCHANGED <<usageQueue, usageClosed, worker, inHand, tally, context, free, written, exited>>

UsageStep == ~exited /\ (TakeRecord \/ CountRecord)
===============================================================================
