------------------------------- MODULE Runtime -------------------------------
(***************************************************************************)
(* The process of the backend: start.ts, MybandnowBackendApp, the HTTP     *)
(* server and the handlers of signals and of fatal errors.                 *)
(*                                                                         *)
(* A start connects the outbox and the event bus before it listens; a stop *)
(* drains the server, then the publisher, then the bus.  Each signal runs  *)
(* a stop of its own, races it with a timer and exits; a start that cannot *)
(* listen undoes itself with the same steps.  A fatal error flushes the    *)
(* telemetry and exits while everything else goes on.                      *)
(*                                                                         *)
(* Requests, ticks, handlers and flushes are of any length, or never end.  *)
(* What they do is in the other modules.                                   *)
(***************************************************************************)
EXTENDS Integers

CONSTANTS
    Signal,       \* the signals a process may get
    Message,      \* deliveries that can be handled at a time
    MaxRequests   \* artificial: requests in flight at a time

ASSUME RequestsAssumption == MaxRequests \in Nat \ {0}

VARIABLES
    start,      \* how far MybandnowBackendApp.start is
    server,     \* the HTTP server
    requests,   \* requests in flight
    polling,    \* OutboxPublisher: the interval is set
    ticking,    \* OutboxPublisher: a batch is in flight
    bus,        \* the channel and the connection to RabbitMQ
    handling,   \* deliveries whose handler runs
    stops,      \* the runs of stop(), and the undoing of a start
    fatal,      \* a fatal error handler flushes the telemetry
    exit        \* how the process ended

vars == <<start, server, requests, polling, ticking, bus, handling, stops, fatal, exit>>

Undo == "undo"
Runs == Signal \cup {Undo}
Batch == "batch"

ASSUME NamesAssumption == Undo \notin Signal /\ Batch \notin Message

NotBegun == [at |-> "not begun", awaits |-> {}, up |-> FALSE]
Pending == {"server", "batch", "handlers"}
StopSteps == Pending \cup {"not begun", "done", "failed", "rejected"}
Stops == [at : StopSteps, awaits : SUBSET (Message \cup {Batch}), up : BOOLEAN]

Running == [code |-> -1, by |-> "nobody"]

TypeOK ==
    /\ start \in {"loading", "indexing", "connecting", "listening", "up", "undoing", "failed"}
    /\ server \in {"none", "open", "closing"}
    /\ requests \in 0..MaxRequests
    /\ polling \in BOOLEAN
    /\ ticking \in BOOLEAN
    /\ bus \in {"none", "open", "closed"}
    /\ handling \in SUBSET Message
    /\ stops \in [Runs -> Stops]
    /\ fatal \in BOOLEAN
    /\ exit \in {Running} \cup [code : {0, 1}, by : Signal \cup {"fatal"}]

Init ==
    /\ start = "loading"
    /\ server = "none"
    /\ requests = 0
    /\ polling = FALSE
    /\ ticking = FALSE
    /\ bus = "none"
    /\ handling = {}
    /\ stops = [s \in Runs |-> NotBegun]
    /\ fatal = FALSE
    /\ exit = Running

Alive == exit = Running

-----------------------------------------------------------------------------
(* Start.                                                                  *)

Starts(from, to) ==
    /\ Alive
    /\ start = from
    /\ start' = to

\* The modules are imported and the container builds the app.
Load ==
    /\ Starts("loading", "indexing")
    /\ UNCHANGED <<server, requests, polling, ticking, bus, handling, stops, fatal, exit>>

\* outbox.initialize
Index ==
    /\ Starts("indexing", "connecting")
    /\ UNCHANGED <<server, requests, polling, ticking, bus, handling, stops, fatal, exit>>

\* eventBus.start, whose end starts the publisher.
Connect ==
    /\ Starts("connecting", "listening")
    /\ bus' = "open"
    /\ polling' = TRUE
    /\ UNCHANGED <<server, requests, ticking, handling, stops, fatal, exit>>

Listen ==
    /\ Starts("listening", "up")
    /\ server' = "open"
    /\ UNCHANGED <<requests, polling, ticking, bus, handling, stops, fatal, exit>>

\* OutboxPublisher.stop, as called by stopEventBus: the interval is cleared
\* and the batch in flight, if there is one, is awaited.
StopPublisher(s, up) ==
    /\ polling' = FALSE
    /\ stops' = [stops EXCEPT ![s] =
          [at |-> "batch", awaits |-> IF ticking THEN {Batch} ELSE {}, up |-> up]]

\* The port is taken, or the OpenAPI definition is refused.
ListenFails ==
    /\ Starts("listening", "undoing")
    /\ StopPublisher(Undo, FALSE)
    /\ UNCHANGED <<server, requests, ticking, bus, handling, fatal, exit>>

\* start.ts catches what start throws, the undoing first if there is one.
StartFails ==
    /\ \/ \E phase \in {"loading", "indexing", "connecting"} : Starts(phase, "failed")
       \/ Starts("undoing", "failed") /\ stops[Undo].at \in {"done", "failed"}
    /\ fatal' = TRUE
    /\ UNCHANGED <<server, requests, polling, ticking, bus, handling, stops, exit>>

-----------------------------------------------------------------------------
(* Work.                                                                   *)

RequestArrives ==
    /\ Alive
    /\ server = "open"
    /\ requests < MaxRequests
    /\ requests' = requests + 1
    /\ UNCHANGED <<start, server, polling, ticking, bus, handling, stops, fatal, exit>>

RequestEnds ==
    /\ Alive
    /\ requests > 0
    /\ requests' = requests - 1
    /\ UNCHANGED <<start, server, polling, ticking, bus, handling, stops, fatal, exit>>

Tick ==
    /\ Alive
    /\ polling
    /\ ~ticking
    /\ ticking' = TRUE
    /\ UNCHANGED <<start, server, requests, polling, bus, handling, stops, fatal, exit>>

Over(work) == stops' = [s \in Runs |-> [stops[s] EXCEPT !.awaits = @ \ {work}]]

TickEnds ==
    /\ Alive
    /\ ticking
    /\ ticking' = FALSE
    /\ Over(Batch)
    /\ UNCHANGED <<start, server, requests, polling, bus, handling, fatal, exit>>

Deliver(m) ==
    /\ Alive
    /\ bus = "open"
    /\ m \notin handling
    /\ handling' = handling \cup {m}
    /\ UNCHANGED <<start, server, requests, polling, ticking, bus, stops, fatal, exit>>

Handled(m) ==
    /\ Alive
    /\ m \in handling
    /\ handling' = handling \ {m}
    /\ Over(m)
    /\ UNCHANGED <<start, server, requests, polling, ticking, bus, fatal, exit>>

-----------------------------------------------------------------------------
(* Stop.                                                                   *)

Does(s, step) == Alive /\ stops[s].at = step

\* The handler of the signal calls stop(), and that the server's close:
\* there are no new requests from here on.  Without an app there is nothing
\* to stop, and without a server the publisher comes first.
ReceiveSignal(s) ==
    /\ Does(s, "not begun")
    /\ \/ /\ start = "loading"
          /\ stops' = [stops EXCEPT ![s].at = "done"]
          /\ UNCHANGED <<server, polling>>
       \/ /\ start # "loading"
          /\ server = "none"
          /\ StopPublisher(s, FALSE)
          /\ UNCHANGED server
       \/ /\ server # "none"
          /\ server' = "closing"
          /\ stops' = [stops EXCEPT ![s].at = "server", ![s].up = TRUE]
          /\ UNCHANGED polling
    /\ UNCHANGED <<start, requests, ticking, bus, handling, fatal, exit>>

\* Mutant: the promise of the server is not awaited.
ServerCloses(s) ==
    /\ Does(s, "server")
    /\ StopPublisher(s, TRUE)
    /\ UNCHANGED <<start, server, requests, ticking, bus, handling, fatal, exit>>

\* The callback of close comes when the last request has ended, also that of
\* a second close, whose error is taken for success.
ServerClosed(s) ==
    /\ Does(s, "server")
    /\ requests = 0
    /\ StopPublisher(s, TRUE)
    /\ UNCHANGED <<start, server, requests, ticking, bus, handling, fatal, exit>>

\* Mutant: stop clears the interval and returns.
BatchGoesOn(s) ==
    /\ Does(s, "batch")
    /\ stops' = [stops EXCEPT ![s].at = "handlers", ![s].awaits = handling]
    /\ UNCHANGED <<start, server, requests, polling, ticking, bus, handling, fatal, exit>>

\* RabbitMQConnection.close awaits the handlers that run when it is called,
\* and not those that begin meanwhile.
BatchEnded(s) ==
    /\ Does(s, "batch")
    /\ stops[s].awaits = {}
    /\ stops' = [stops EXCEPT ![s].at = "handlers", ![s].awaits = handling]
    /\ UNCHANGED <<start, server, requests, polling, ticking, bus, handling, fatal, exit>>

\* The channel and the connection are closed, if there are any; to close
\* them again is an error of the client library.
CloseBus(s) ==
    /\ Does(s, "handlers")
    /\ stops[s].awaits = {}
    /\ bus' = IF bus = "open" THEN "closed" ELSE bus
    /\ stops' = [stops EXCEPT ![s].at = IF bus = "closed" THEN "failed" ELSE "done"]
    /\ UNCHANGED <<start, server, requests, polling, ticking, handling, fatal, exit>>

\* The server, the broker or the logger throws.
StopFails(s) ==
    /\ Alive
    /\ stops[s].at \in Pending
    /\ stops' = [stops EXCEPT ![s].at = "failed"]
    /\ UNCHANGED <<start, server, requests, polling, ticking, bus, handling, fatal, exit>>

-----------------------------------------------------------------------------
(* Exit.                                                                   *)

Exits(code, by) ==
    /\ Alive
    /\ exit' = [code |-> code, by |-> by]
    /\ UNCHANGED <<start, server, requests, polling, ticking, bus, handling, stops, fatal>>

ExitGracefully(s) == Does(s, "done") /\ Exits(0, s)
ExitWithError(s) == Does(s, "failed") /\ Exits(1, s)

\* Mutant: stop is awaited, and raced with nothing.
StopIsAwaited(s) == stops[s].at = "failed" /\ Exits(1, s)

\* Ten seconds after the signal.
StopTimesOut(s) == stops[s].at \in Pending /\ Exits(1, s)

\* The logger throws before the stop or after its failure, and nobody handles
\* the rejection but the handler of unhandled rejections.
SignalHandlerThrows(s) ==
    /\ Alive
    /\ stops[s].at \in {"not begun", "failed"}
    /\ stops' = [stops EXCEPT ![s].at = "rejected"]
    /\ fatal' = TRUE
    /\ UNCHANGED <<start, server, requests, polling, ticking, bus, handling, exit>>

\* An uncaught exception or an unhandled rejection, wherever it comes from.
FatalError ==
    /\ Alive
    /\ fatal' = TRUE
    /\ UNCHANGED <<start, server, requests, polling, ticking, bus, handling, stops, exit>>

\* The flush ends, fails or times out after a second; whatever the loggers
\* and the telemetry do, the process exits.
FlushSettles == fatal /\ Exits(1, "fatal")

-----------------------------------------------------------------------------
Next ==
    \/ Load \/ Index \/ Connect \/ Listen \/ ListenFails \/ StartFails
    \/ RequestArrives \/ RequestEnds
    \/ Tick \/ TickEnds
    \/ \E m \in Message : Deliver(m) \/ Handled(m)
    \/ \E s \in Signal : ReceiveSignal(s) \/ ServerClosed(s) \/ SignalHandlerThrows(s)
    \/ \E s \in Runs : BatchEnded(s) \/ CloseBus(s) \/ StopFails(s)
    \/ \E s \in Signal : ExitGracefully(s) \/ ExitWithError(s) \/ StopTimesOut(s)
    \/ FatalError \/ FlushSettles

Spec == Init /\ [][Next]_vars

\* Node runs its timers and the continuations of settled promises.  Nothing
\* is assumed of requests, batches, handlers, the flush or the start.
Fairness ==
    /\ WF_vars(FlushSettles)
    /\ \A s \in Signal : WF_vars(ExitGracefully(s)) /\ WF_vars(ExitWithError(s)) /\ WF_vars(StopTimesOut(s))

FairSpec == Spec /\ Fairness

-----------------------------------------------------------------------------
(* Properties.                                                             *)

Begun(s) == stops[s].at # "not begun"

\* Code 0 after a stop of the running application means what a deployment
\* takes it for: no request is cut off and no batch of the outbox, and the
\* broker has been left properly; whatever the second signal does.
CleanExit ==
    exit.code = 0 /\ stops[exit.by].up =>
        /\ requests = 0
        /\ ~polling /\ ~ticking
        /\ bus = "closed"

\* The bus outlives whoever publishes: when it is closed no request runs and
\* no batch does, nor will one begin.  (Not so if a signal comes during the
\* start, which goes on beside the stop.)
BusClosesLast ==
    bus = "closed" /\ (\A s \in Signal : Begun(s) => stops[s].up \/ stops[s].at = "rejected") =>
        /\ server # "open"
        /\ requests = 0
        /\ ~polling /\ ~ticking

\* The strengthening: how far the start is tells what there is to stop, and
\* how far a stop is what it has stopped; a closed bus is a finished stop's.
StartInOrder ==
    /\ start = "up" <=> server # "none"
    /\ server = "none" => requests = 0
    /\ start \in {"loading", "indexing", "connecting"} => ~polling /\ ~ticking /\ bus = "none"
    /\ start \in {"listening", "up"} => bus # "none"

StopInOrder(s) ==
    /\ stops[s].up => server = "closing"
    /\ stops[s].at = "server" => stops[s].up
    /\ s = Undo /\ Begun(s) => start \in {"undoing", "failed"}
    /\ (stops[s].up \/ s = Undo) /\ stops[s].at \in {"batch", "handlers", "done"} =>
          /\ requests = 0
          /\ ~polling
          /\ ticking => stops[s].at = "batch" /\ Batch \in stops[s].awaits
    /\ stops[s].up /\ stops[s].at = "done" => bus = "closed"

\* However signals, the start and its undoing interleave, a stop runs its
\* steps in order, and the bus closes after whoever publishes.
RuntimeInv ==
    /\ TypeOK
    /\ BusClosesLast
    /\ StartInOrder
    /\ \A s \in Runs : StopInOrder(s)
    /\ bus = "closed" => \E s \in Runs : stops[s].at = "done"

\* Once a signal or a fatal error has come the process exits, even when
\* requests, batches, handlers, the start and loggers hang or fail.
Ends == (fatal \/ \E s \in Signal : Begun(s)) ~> exit # Running

=============================================================================
