----------------------------- MODULE RuntimeProofs -----------------------------
(***************************************************************************)
(* What holds of the process of the backend for any set of signals, any    *)
(* number of deliveries and any number of requests.                        *)
(***************************************************************************)
EXTENDS Runtime, TLAPS

-----------------------------------------------------------------------------
(* The records of the stops.                                               *)

LEMMA StopShape ==
    ASSUME NEW r \in Stops, NEW x \in StopSteps
    PROVE  /\ [r EXCEPT !.at = x] \in Stops
           /\ [r EXCEPT !.at = x].at = x
           /\ [r EXCEPT !.at = x].awaits = r.awaits
           /\ [r EXCEPT !.at = x].up = r.up
BY DEF Stops

LEMMA OverShape ==
    ASSUME NEW r \in Stops, NEW work
    PROVE  /\ [r EXCEPT !.awaits = @ \ {work}] \in Stops
           /\ [r EXCEPT !.awaits = @ \ {work}].at = r.at
           /\ [r EXCEPT !.awaits = @ \ {work}].up = r.up
           /\ [r EXCEPT !.awaits = @ \ {work}].awaits = r.awaits \ {work}
BY DEF Stops

-----------------------------------------------------------------------------
(* The invariant the steps preserve.  BusClosesLast follows from it: a bus *)
(* that is closed is the work of a finished stop, which has awaited those  *)
(* who publish.                                                            *)

ClosedByAStop == bus = "closed" => \E s \in Runs : stops[s].at = "done"

CleanlyDone == exit.code = 0 => exit.by \in Signal /\ stops[exit.by].at = "done"

InOrder ==
    /\ TypeOK
    /\ StartInOrder
    /\ \A s \in Runs : StopInOrder(s)
    /\ ClosedByAStop
    /\ CleanlyDone

LEMMA InOrderImplies ==
    ASSUME InOrder
    PROVE  RuntimeInv /\ CleanExit
<1>1. BusClosesLast
  <2> SUFFICES ASSUME bus = "closed",
                      \A s \in Signal : Begun(s) => stops[s].up \/ stops[s].at = "rejected"
               PROVE  server # "open" /\ requests = 0 /\ ~polling /\ ~ticking
    BY DEF BusClosesLast
  <2>1. PICK s \in Runs : stops[s].at = "done"
    BY DEF InOrder, ClosedByAStop
  <2>2. StopInOrder(s) /\ StartInOrder
    BY DEF InOrder
  <2>3. CASE s = Undo
    BY <2>1, <2>2, <2>3 DEF StopInOrder, StartInOrder, Begun
  <2>4. CASE s \in Signal
    BY <2>1, <2>2, <2>4 DEF StopInOrder, Begun
  <2> QED
    BY <2>3, <2>4 DEF Runs
<1>2. CleanExit
  <2> SUFFICES ASSUME exit.code = 0, stops[exit.by].up
               PROVE  requests = 0 /\ ~polling /\ ~ticking /\ bus = "closed"
    BY DEF CleanExit
  <2>1. exit.by \in Runs /\ stops[exit.by].at = "done"
    BY DEF InOrder, CleanlyDone, Runs
  <2>2. StopInOrder(exit.by)
    BY <2>1 DEF InOrder
  <2> QED
    BY <2>1, <2>2 DEF StopInOrder
<1> QED
  BY <1>1, <1>2 DEF InOrder, RuntimeInv, ClosedByAStop

\* While the process lives, its exit code is not 0.
LEMMA AliveIsNotDone ==
    ASSUME Alive, UNCHANGED exit
    PROVE  CleanlyDone'
BY DEF Alive, Running, CleanlyDone

-----------------------------------------------------------------------------
(* What the steps do to the stops.                                         *)

Others(s) == \A t \in Runs : t # s => stops'[t] = stops[t]

LEMMA StopMoves ==
    ASSUME TypeOK, NEW s \in Runs, NEW x \in StopSteps, stops' = [stops EXCEPT ![s].at = x]
    PROVE  /\ stops' \in [Runs -> Stops]
           /\ stops'[s].at = x
           /\ stops'[s].awaits = stops[s].awaits
           /\ stops'[s].up = stops[s].up
           /\ Others(s)
<1>1. stops \in [Runs -> Stops]
  BY DEF TypeOK
<1>2. stops'[s] = [stops[s] EXCEPT !.at = x] /\ Others(s)
  BY <1>1 DEF Others
<1>3. /\ stops'[s] \in Stops
      /\ stops'[s].at = x
      /\ stops'[s].awaits = stops[s].awaits
      /\ stops'[s].up = stops[s].up
  BY <1>1, <1>2, StopShape
<1> QED
  BY <1>1, <1>2, <1>3 DEF Others

LEMMA StopAwaits ==
    ASSUME TypeOK, NEW s \in Runs, stops' = [stops EXCEPT ![s].at = "handlers", ![s].awaits = handling]
    PROVE  /\ stops' \in [Runs -> Stops]
           /\ stops'[s].at = "handlers"
           /\ stops'[s].up = stops[s].up
           /\ Others(s)
<1>1. stops \in [Runs -> Stops] /\ handling \in SUBSET (Message \cup {Batch})
  BY DEF TypeOK
<1>2. PICK r \in Stops, w \in SUBSET (Message \cup {Batch}), x \in StopSteps :
         r = stops[s] /\ w = handling /\ x = "handlers"
  BY <1>1 DEF StopSteps, Pending
<1>3. stops'[s] = [[r EXCEPT !.at = x] EXCEPT !.awaits = w] /\ Others(s)
  BY <1>1, <1>2 DEF Others
<1> DEFINE r2 == [[r EXCEPT !.at = x] EXCEPT !.awaits = w]
<1>5. r2 \in Stops /\ r2.at = x /\ r2.up = r.up
  BY DEF Stops
<1>6. stops'[s] = r2
  BY <1>3
<1> HIDE DEF r2
<1>4. stops'[s] \in Stops /\ stops'[s].at = "handlers" /\ stops'[s].up = stops[s].up
  BY <1>2, <1>5, <1>6
<1> QED
  BY <1>1, <1>3, <1>4 DEF Others

LEMMA PublisherStops ==
    ASSUME TypeOK, NEW s \in Runs, NEW u \in BOOLEAN, StopPublisher(s, u)
    PROVE  /\ polling' = FALSE
           /\ stops' \in [Runs -> Stops]
           /\ stops'[s].at = "batch"
           /\ stops'[s].up = u
           /\ ticking => Batch \in stops'[s].awaits
           /\ Others(s)
<1>1. stops \in [Runs -> Stops] /\ ticking \in BOOLEAN
  BY DEF TypeOK
<1>2. PICK w \in SUBSET (Message \cup {Batch}) : w = IF ticking THEN {Batch} ELSE {}
  OBVIOUS
<1>3. /\ polling' = FALSE
      /\ stops' = [stops EXCEPT ![s] = [at |-> "batch", awaits |-> w, up |-> u]]
  BY <1>2 DEF StopPublisher
<1>4. "batch" \in StopSteps
  BY DEF StopSteps, Pending
<1>5. [at |-> "batch", awaits |-> w, up |-> u] \in Stops
  BY <1>1, <1>4 DEF Stops
<1>6. stops'[s] = [at |-> "batch", awaits |-> w, up |-> u] /\ Others(s)
  BY <1>1, <1>3 DEF Others
<1> QED
  BY <1>1, <1>2, <1>3, <1>5, <1>6 DEF Others

LEMMA OverOthers ==
    ASSUME TypeOK, NEW work, Over(work)
    PROVE  /\ stops' \in [Runs -> Stops]
           /\ \A s \in Runs : /\ stops'[s].at = stops[s].at
                              /\ stops'[s].up = stops[s].up
                              /\ stops'[s].awaits = stops[s].awaits \ {work}
<1>1. stops \in [Runs -> Stops]
  BY DEF TypeOK
<1>2. ASSUME NEW s \in Runs
      PROVE  /\ stops'[s] \in Stops
             /\ stops'[s].at = stops[s].at
             /\ stops'[s].up = stops[s].up
             /\ stops'[s].awaits = stops[s].awaits \ {work}
  BY <1>1, OverShape DEF Over
<1> QED
  BY <1>2 DEF Over

-----------------------------------------------------------------------------
(* The start and the work: the stops stay as they are, or are awaiting one *)
(* thing less.                                                             *)

LEMMA LoadKeeps ==
    ASSUME InOrder, Load
    PROVE  InOrder'
<1>1. TypeOK'
  BY DEF Load, Starts, InOrder, TypeOK
<1>2. StartInOrder'
  BY DEF Load, Starts, InOrder, StartInOrder, TypeOK
<1>3. ASSUME NEW t \in Runs PROVE StopInOrder(t)'
  <2>1. StopInOrder(t) /\ StartInOrder
    BY DEF InOrder
  <2> QED
    BY <2>1 DEF Load, Starts, StopInOrder, StartInOrder, Begun
<1>4. ClosedByAStop' /\ CleanlyDone'
  BY AliveIsNotDone DEF Load, Starts, InOrder, ClosedByAStop
<1> QED
  BY <1>1, <1>2, <1>3, <1>4 DEF InOrder

LEMMA IndexKeeps ==
    ASSUME InOrder, Index
    PROVE  InOrder'
<1>1. TypeOK'
  BY DEF Index, Starts, InOrder, TypeOK
<1>2. StartInOrder'
  BY DEF Index, Starts, InOrder, StartInOrder, TypeOK
<1>3. ASSUME NEW t \in Runs PROVE StopInOrder(t)'
  <2>1. StopInOrder(t) /\ StartInOrder
    BY DEF InOrder
  <2> QED
    BY <2>1 DEF Index, Starts, StopInOrder, StartInOrder, Begun
<1>4. ClosedByAStop' /\ CleanlyDone'
  BY AliveIsNotDone DEF Index, Starts, InOrder, ClosedByAStop
<1> QED
  BY <1>1, <1>2, <1>3, <1>4 DEF InOrder

LEMMA ConnectKeeps ==
    ASSUME InOrder, Connect
    PROVE  InOrder'
<1>1. TypeOK'
  BY DEF Connect, Starts, InOrder, TypeOK
<1>2. StartInOrder'
  BY DEF Connect, Starts, InOrder, StartInOrder, TypeOK
<1>3. ASSUME NEW t \in Runs PROVE StopInOrder(t)'
  <2>1. StopInOrder(t) /\ StartInOrder
    BY DEF InOrder
  <2> QED
    BY <2>1 DEF Connect, Starts, StopInOrder, StartInOrder, Begun
<1>4. ClosedByAStop' /\ CleanlyDone'
  BY AliveIsNotDone DEF Connect, Starts, InOrder, ClosedByAStop
<1> QED
  BY <1>1, <1>2, <1>3, <1>4 DEF InOrder

LEMMA ListenKeeps ==
    ASSUME InOrder, Listen
    PROVE  InOrder'
<1>1. TypeOK'
  BY DEF Listen, Starts, InOrder, TypeOK
<1>2. StartInOrder'
  BY DEF Listen, Starts, InOrder, StartInOrder, TypeOK
<1>3. ASSUME NEW t \in Runs PROVE StopInOrder(t)'
  <2>1. StopInOrder(t) /\ StartInOrder
    BY DEF InOrder
  <2> QED
    BY <2>1 DEF Listen, Starts, StopInOrder, StartInOrder, Begun
<1>4. ClosedByAStop' /\ CleanlyDone'
  BY AliveIsNotDone DEF Listen, Starts, InOrder, ClosedByAStop
<1> QED
  BY <1>1, <1>2, <1>3, <1>4 DEF InOrder

LEMMA StartFailsKeeps ==
    ASSUME InOrder, StartFails
    PROVE  InOrder'
<1>1. TypeOK'
  BY DEF StartFails, Starts, InOrder, TypeOK
<1>2. StartInOrder'
  BY DEF StartFails, Starts, InOrder, StartInOrder, TypeOK
<1>3. ASSUME NEW t \in Runs PROVE StopInOrder(t)'
  <2>1. StopInOrder(t) /\ StartInOrder
    BY DEF InOrder
  <2> QED
    BY <2>1 DEF StartFails, Starts, StopInOrder, StartInOrder, Begun
<1>4. ClosedByAStop' /\ CleanlyDone'
  BY AliveIsNotDone DEF StartFails, Starts, InOrder, ClosedByAStop
<1> QED
  BY <1>1, <1>2, <1>3, <1>4 DEF InOrder

LEMMA RequestArrivesKeeps ==
    ASSUME InOrder, RequestArrives
    PROVE  InOrder'
<1>1. TypeOK'
  BY RequestsAssumption DEF RequestArrives, InOrder, TypeOK
<1>2. StartInOrder'
  BY DEF RequestArrives, InOrder, StartInOrder, TypeOK
<1>3. ASSUME NEW t \in Runs PROVE StopInOrder(t)'
  <2>1. StopInOrder(t) /\ StartInOrder
    BY DEF InOrder
  <2> QED
    BY <2>1 DEF RequestArrives, StopInOrder, StartInOrder, Begun
<1>4. ClosedByAStop' /\ CleanlyDone'
  BY AliveIsNotDone DEF RequestArrives, InOrder, ClosedByAStop
<1> QED
  BY <1>1, <1>2, <1>3, <1>4 DEF InOrder

LEMMA RequestEndsKeeps ==
    ASSUME InOrder, RequestEnds
    PROVE  InOrder'
<1>1. TypeOK'
  BY RequestsAssumption DEF RequestEnds, InOrder, TypeOK
<1>2. StartInOrder'
  BY DEF RequestEnds, InOrder, StartInOrder, TypeOK
<1>3. ASSUME NEW t \in Runs PROVE StopInOrder(t)'
  <2>1. StopInOrder(t) /\ requests # 0
    BY DEF InOrder, RequestEnds
  <2>2. ~((stops[t].up \/ t = Undo) /\ stops[t].at \in {"batch", "handlers", "done"})
    BY <2>1 DEF StopInOrder
  <2> QED
    BY <2>1, <2>2 DEF RequestEnds, StopInOrder, Begun
<1>4. ClosedByAStop' /\ CleanlyDone'
  BY AliveIsNotDone DEF RequestEnds, InOrder, ClosedByAStop
<1> QED
  BY <1>1, <1>2, <1>3, <1>4 DEF InOrder

LEMMA TickKeeps ==
    ASSUME InOrder, Tick
    PROVE  InOrder'
<1>1. TypeOK'
  BY DEF Tick, InOrder, TypeOK
<1>2. StartInOrder'
  BY DEF Tick, InOrder, StartInOrder, TypeOK
<1>3. ASSUME NEW t \in Runs PROVE StopInOrder(t)'
  <2>1. StopInOrder(t) /\ StartInOrder
    BY DEF InOrder
  <2>2. ~((stops[t].up \/ t = Undo) /\ stops[t].at \in {"batch", "handlers", "done"})
    BY <2>1 DEF Tick, StopInOrder
  <2> QED
    BY <2>1, <2>2 DEF Tick, StopInOrder, Begun
<1>4. ClosedByAStop' /\ CleanlyDone'
  BY AliveIsNotDone DEF Tick, InOrder, ClosedByAStop
<1> QED
  BY <1>1, <1>2, <1>3, <1>4 DEF InOrder

LEMMA DeliverKeeps ==
    ASSUME InOrder, NEW m \in Message, Deliver(m)
    PROVE  InOrder'
<1>1. TypeOK'
  BY DEF Deliver, InOrder, TypeOK
<1>2. StartInOrder'
  BY DEF Deliver, InOrder, StartInOrder, TypeOK
<1>3. ASSUME NEW t \in Runs PROVE StopInOrder(t)'
  <2>1. StopInOrder(t) /\ StartInOrder
    BY DEF InOrder
  <2> QED
    BY <2>1 DEF Deliver, StopInOrder, StartInOrder, Begun
<1>4. ClosedByAStop' /\ CleanlyDone'
  BY AliveIsNotDone DEF Deliver, InOrder, ClosedByAStop
<1> QED
  BY <1>1, <1>2, <1>3, <1>4 DEF InOrder

LEMMA FatalErrorKeeps ==
    ASSUME InOrder, FatalError
    PROVE  InOrder'
<1>1. TypeOK'
  BY DEF FatalError, InOrder, TypeOK
<1>2. StartInOrder'
  BY DEF FatalError, InOrder, StartInOrder, TypeOK
<1>3. ASSUME NEW t \in Runs PROVE StopInOrder(t)'
  <2>1. StopInOrder(t) /\ StartInOrder
    BY DEF InOrder
  <2> QED
    BY <2>1 DEF FatalError, StopInOrder, StartInOrder, Begun
<1>4. ClosedByAStop' /\ CleanlyDone'
  BY AliveIsNotDone DEF FatalError, InOrder, ClosedByAStop
<1> QED
  BY <1>1, <1>2, <1>3, <1>4 DEF InOrder

LEMMA TickEndsKeeps ==
    ASSUME InOrder, TickEnds
    PROVE  InOrder'
<1>1. /\ stops' \in [Runs -> Stops]
      /\ \A s \in Runs : stops'[s].at = stops[s].at /\ stops'[s].up = stops[s].up
  BY OverOthers DEF TickEnds, InOrder
<1>2. TypeOK'
  BY <1>1 DEF TickEnds, InOrder, TypeOK
<1>3. StartInOrder'
  BY DEF TickEnds, InOrder, StartInOrder
<1>4. ASSUME NEW t \in Runs PROVE StopInOrder(t)'
  <2>1. StopInOrder(t)
    BY DEF InOrder
  <2> QED
    BY <2>1, <1>1 DEF TickEnds, StopInOrder, Begun
<1>5. ClosedByAStop' /\ CleanlyDone'
  BY <1>1, AliveIsNotDone DEF TickEnds, InOrder, ClosedByAStop
<1> QED
  BY <1>2, <1>3, <1>4, <1>5 DEF InOrder

LEMMA HandledKeeps ==
    ASSUME InOrder, NEW m \in Message, Handled(m)
    PROVE  InOrder'
<1>1. /\ stops' \in [Runs -> Stops]
      /\ \A s \in Runs : /\ stops'[s].at = stops[s].at
                         /\ stops'[s].up = stops[s].up
                         /\ stops'[s].awaits = stops[s].awaits \ {m}
  BY OverOthers DEF Handled, InOrder
<1>2. TypeOK'
  BY <1>1 DEF Handled, InOrder, TypeOK
<1>3. StartInOrder'
  BY DEF Handled, InOrder, StartInOrder
<1>4. ASSUME NEW t \in Runs PROVE StopInOrder(t)'
  <2>1. StopInOrder(t)
    BY DEF InOrder
  <2>2. Batch \in stops[t].awaits => Batch \in stops'[t].awaits
    BY <1>1, NamesAssumption
  <2> QED
    BY <2>1, <2>2, <1>1 DEF Handled, StopInOrder, Begun
<1>5. ClosedByAStop' /\ CleanlyDone'
  BY <1>1, AliveIsNotDone DEF Handled, InOrder, ClosedByAStop
<1> QED
  BY <1>2, <1>3, <1>4, <1>5 DEF InOrder

-----------------------------------------------------------------------------
(* The stops.                                                              *)

LEMMA ListenFailsKeeps ==
    ASSUME InOrder, ListenFails
    PROVE  InOrder'
<1>1. /\ Starts("listening", "undoing") /\ StopPublisher(Undo, FALSE)
      /\ UNCHANGED <<server, requests, ticking, bus, handling, fatal, exit>>
  BY DEF ListenFails
<1>2. /\ polling' = FALSE
      /\ stops' \in [Runs -> Stops]
      /\ stops'[Undo].at = "batch"
      /\ stops'[Undo].up = FALSE
      /\ ticking => Batch \in stops'[Undo].awaits
      /\ Others(Undo)
  BY <1>1, PublisherStops DEF InOrder, Runs
<1>3. TypeOK'
  BY <1>1, <1>2 DEF Starts, InOrder, TypeOK
<1>4. StartInOrder'
  BY <1>1, <1>2 DEF Starts, InOrder, StartInOrder
<1>5. ASSUME NEW t \in Runs PROVE StopInOrder(t)'
  <2>1. StopInOrder(t) /\ StartInOrder
    BY DEF InOrder
  <2>2. CASE t = Undo
    BY <2>1, <2>2, <1>1, <1>2 DEF Starts, StopInOrder, StartInOrder
  <2>3. CASE t # Undo
    BY <2>1, <2>3, <1>1, <1>2 DEF Starts, StopInOrder, Others
  <2> QED
    BY <2>2, <2>3
<1>6. ClosedByAStop' /\ CleanlyDone'
  <2>1. stops[Undo].at = "not begun"
    BY <1>1 DEF InOrder, StopInOrder, Begun, Runs, Starts
  <2> QED
    BY <2>1, <1>1, <1>2, AliveIsNotDone DEF Starts, InOrder, ClosedByAStop, Others
<1> QED
  BY <1>3, <1>4, <1>5, <1>6 DEF InOrder

\* A signal has no stop of its own before.
LEMMA ReceiveSignalKeeps ==
    ASSUME InOrder, NEW s \in Signal, ReceiveSignal(s)
    PROVE  InOrder'
<1>1. /\ Alive /\ stops[s].at = "not begun"
      /\ UNCHANGED <<start, requests, ticking, bus, handling, fatal, exit>>
      /\ s \in Runs /\ s # Undo
  BY NamesAssumption DEF ReceiveSignal, Does, Runs
<1>2. TypeOK /\ StartInOrder /\ ClosedByAStop
  BY DEF InOrder
<1>3. CASE /\ start = "loading"
           /\ stops' = [stops EXCEPT ![s].at = "done"]
           /\ UNCHANGED <<server, polling>>
  <2>1. /\ stops' \in [Runs -> Stops]
        /\ stops'[s].at = "done"
        /\ stops'[s].up = stops[s].up
        /\ Others(s)
    BY <1>1, <1>2, <1>3, StopMoves DEF StopSteps
  <2>2. TypeOK' /\ StartInOrder'
    BY <1>1, <1>2, <1>3, <2>1 DEF TypeOK, StartInOrder
  <2>3. ASSUME NEW t \in Runs PROVE StopInOrder(t)'
    <3>1. StopInOrder(t)
      BY DEF InOrder
    <3>2. CASE t = s
      BY <3>1, <3>2, <1>1, <1>2, <1>3, <2>1 DEF StopInOrder, StartInOrder
    <3>3. CASE t # s
      BY <3>1, <3>3, <1>1, <1>3, <2>1 DEF StopInOrder, Others, Begun
    <3> QED
      BY <3>2, <3>3
  <2>4. ClosedByAStop' /\ CleanlyDone'
    BY <1>1, <2>1, AliveIsNotDone DEF ClosedByAStop
  <2> QED
    BY <2>2, <2>3, <2>4 DEF InOrder
<1>4. CASE /\ server = "none"
           /\ StopPublisher(s, FALSE)
           /\ UNCHANGED server
  <2>1. /\ polling' = FALSE
        /\ stops' \in [Runs -> Stops]
        /\ stops'[s].at = "batch"
        /\ stops'[s].up = FALSE
        /\ Others(s)
    BY <1>1, <1>2, <1>4, PublisherStops
  <2>2. TypeOK' /\ StartInOrder'
    BY <1>1, <1>2, <1>4, <2>1 DEF TypeOK, StartInOrder
  <2>3. ASSUME NEW t \in Runs PROVE StopInOrder(t)'
    <3>1. StopInOrder(t)
      BY DEF InOrder
    <3>2. CASE t = s
      BY <3>2, <1>1, <2>1 DEF StopInOrder
    <3>3. CASE t # s
      BY <3>1, <3>3, <1>1, <1>4, <2>1 DEF StopInOrder, Others, Begun
    <3> QED
      BY <3>2, <3>3
  <2>4. ClosedByAStop' /\ CleanlyDone'
    BY <1>1, <1>2, <2>1, AliveIsNotDone DEF ClosedByAStop, Others
  <2> QED
    BY <2>2, <2>3, <2>4 DEF InOrder
<1>5. CASE /\ server # "none"
           /\ server' = "closing"
           /\ stops' = [stops EXCEPT ![s].at = "server", ![s].up = TRUE]
           /\ UNCHANGED polling
  <2>1. /\ stops' \in [Runs -> Stops]
        /\ stops'[s].at = "server"
        /\ stops'[s].up = TRUE
        /\ Others(s)
    BY <1>1, <1>2, <1>5 DEF TypeOK, Stops, StopSteps, Pending, Others
  <2>2. TypeOK' /\ StartInOrder'
    BY <1>1, <1>2, <1>5, <2>1 DEF TypeOK, StartInOrder
  <2>3. ASSUME NEW t \in Runs PROVE StopInOrder(t)'
    <3>1. StopInOrder(t)
      BY DEF InOrder
    <3>2. CASE t = s
      BY <3>2, <1>1, <1>5, <2>1 DEF StopInOrder
    <3>3. CASE t # s
      BY <3>1, <3>3, <1>1, <1>5, <2>1 DEF StopInOrder, Others, Begun
    <3> QED
      BY <3>2, <3>3
  <2>4. ClosedByAStop' /\ CleanlyDone'
    BY <1>1, <1>2, <2>1, AliveIsNotDone DEF ClosedByAStop, Others
  <2> QED
    BY <2>2, <2>3, <2>4 DEF InOrder
<1> QED
  BY <1>3, <1>4, <1>5 DEF ReceiveSignal

LEMMA ServerClosedKeeps ==
    ASSUME InOrder, NEW s \in Signal, ServerClosed(s)
    PROVE  InOrder'
<1>1. /\ Alive /\ stops[s].at = "server" /\ requests = 0 /\ StopPublisher(s, TRUE)
      /\ UNCHANGED <<start, server, requests, ticking, bus, handling, fatal, exit>>
      /\ s \in Runs /\ s # Undo
  BY NamesAssumption DEF ServerClosed, Does, Runs
<1>2. TypeOK /\ StartInOrder /\ ClosedByAStop /\ StopInOrder(s)
  BY <1>1 DEF InOrder
<1>3. /\ polling' = FALSE
      /\ stops' \in [Runs -> Stops]
      /\ stops'[s].at = "batch"
      /\ stops'[s].up = TRUE
      /\ ticking => Batch \in stops'[s].awaits
      /\ Others(s)
  BY <1>1, <1>2, PublisherStops
<1>4. TypeOK' /\ StartInOrder'
  BY <1>1, <1>2, <1>3 DEF TypeOK, StartInOrder
<1>5. ASSUME NEW t \in Runs PROVE StopInOrder(t)'
  <2>1. StopInOrder(t)
    BY DEF InOrder
  <2>2. CASE t = s
    BY <1>1, <1>2, <1>3, <2>2 DEF StopInOrder
  <2>3. CASE t # s
    BY <2>1, <2>3, <1>1, <1>3 DEF StopInOrder, Others, Begun
  <2> QED
    BY <2>2, <2>3
<1>6. ClosedByAStop' /\ CleanlyDone'
  BY <1>1, <1>2, <1>3, AliveIsNotDone DEF ClosedByAStop, Others
<1> QED
  BY <1>4, <1>5, <1>6 DEF InOrder

\* Who awaits nothing after the publisher's batch has no batch beside it.
LEMMA BatchEndedKeeps ==
    ASSUME InOrder, NEW s \in Runs, BatchEnded(s)
    PROVE  InOrder'
<1>1. /\ Alive /\ stops[s].at = "batch" /\ stops[s].awaits = {}
      /\ stops' = [stops EXCEPT ![s].at = "handlers", ![s].awaits = handling]
      /\ UNCHANGED <<start, server, requests, polling, ticking, bus, handling, fatal, exit>>
  BY DEF BatchEnded, Does
<1>2. TypeOK /\ StartInOrder /\ ClosedByAStop /\ StopInOrder(s)
  BY DEF InOrder
<1>3. /\ stops' \in [Runs -> Stops]
      /\ stops'[s].at = "handlers"
      /\ stops'[s].up = stops[s].up
      /\ Others(s)
  BY <1>1, <1>2, StopAwaits
<1>4. TypeOK' /\ StartInOrder'
  BY <1>1, <1>2, <1>3 DEF TypeOK, StartInOrder
<1>5. ASSUME NEW t \in Runs PROVE StopInOrder(t)'
  <2>1. StopInOrder(t)
    BY DEF InOrder
  <2>2. CASE t = s
    BY <1>1, <1>2, <1>3, <2>2 DEF StopInOrder, Begun
  <2>3. CASE t # s
    BY <2>1, <2>3, <1>1, <1>3 DEF StopInOrder, Others, Begun
  <2> QED
    BY <2>2, <2>3
<1>6. ClosedByAStop' /\ CleanlyDone'
  BY <1>1, <1>2, <1>3, AliveIsNotDone DEF ClosedByAStop, Others
<1> QED
  BY <1>4, <1>5, <1>6 DEF InOrder

\* Of the runs that come to an open bus one closes it, and fails no more.
LEMMA CloseBusKeeps ==
    ASSUME InOrder, NEW s \in Runs, CloseBus(s)
    PROVE  InOrder'
<1> DEFINE x == IF bus = "closed" THEN "failed" ELSE "done"
<1>1. /\ Alive /\ stops[s].at = "handlers"
      /\ bus' = IF bus = "open" THEN "closed" ELSE bus
      /\ stops' = [stops EXCEPT ![s].at = x]
      /\ UNCHANGED <<start, server, requests, polling, ticking, handling, fatal, exit>>
  BY DEF CloseBus, Does
<1>2. TypeOK /\ StartInOrder /\ ClosedByAStop /\ StopInOrder(s)
  BY DEF InOrder
<1>3. x \in StopSteps
  BY DEF StopSteps
<1>4. /\ stops' \in [Runs -> Stops]
      /\ stops'[s].at = x
      /\ stops'[s].up = stops[s].up
      /\ Others(s)
  <2> HIDE DEF x
  <2> QED
    BY <1>1, <1>2, <1>3, StopMoves
<1>5. TypeOK' /\ StartInOrder'
  BY <1>1, <1>2, <1>4 DEF TypeOK, StartInOrder
<1>6. ASSUME NEW t \in Runs PROVE StopInOrder(t)'
  <2>1. StopInOrder(t)
    BY DEF InOrder
  <2>2. CASE t = s
    <3>1. stops[s].up => bus # "none"
      BY <1>2 DEF StopInOrder, StartInOrder
    <3>2. stops[s].up /\ x = "done" => bus' = "closed"
      BY <3>1, <1>1, <1>2 DEF TypeOK
    <3> QED
      BY <1>1, <1>2, <1>4, <2>2, <3>2 DEF StopInOrder, Begun
  <2>3. CASE t # s
    BY <2>1, <2>3, <1>1, <1>4 DEF StopInOrder, Others, Begun
  <2> QED
    BY <2>2, <2>3
<1>7. ClosedByAStop'
  <2>1. CASE bus = "closed"
    BY <1>1, <1>2, <1>4, <2>1 DEF ClosedByAStop, Others
  <2>2. CASE bus # "closed"
    BY <1>4, <2>2 DEF ClosedByAStop
  <2> QED
    BY <2>1, <2>2
<1>8. CleanlyDone'
  BY <1>1, AliveIsNotDone
<1> QED
  BY <1>5, <1>6, <1>7, <1>8 DEF InOrder

LEMMA StopFailsKeeps ==
    ASSUME InOrder, NEW s \in Runs, StopFails(s)
    PROVE  InOrder'
<1>1. /\ Alive /\ stops[s].at \in Pending
      /\ stops' = [stops EXCEPT ![s].at = "failed"]
      /\ UNCHANGED <<start, server, requests, polling, ticking, bus, handling, fatal, exit>>
  BY DEF StopFails
<1>2. TypeOK /\ StartInOrder /\ ClosedByAStop /\ StopInOrder(s)
  BY DEF InOrder
<1>3. /\ stops' \in [Runs -> Stops]
      /\ stops'[s].at = "failed"
      /\ stops'[s].up = stops[s].up
      /\ Others(s)
  BY <1>1, <1>2, StopMoves DEF StopSteps
<1>4. TypeOK' /\ StartInOrder'
  BY <1>1, <1>2, <1>3 DEF TypeOK, StartInOrder
<1>5. ASSUME NEW t \in Runs PROVE StopInOrder(t)'
  <2>1. StopInOrder(t)
    BY DEF InOrder
  <2>2. CASE t = s
    BY <1>1, <1>2, <1>3, <2>2 DEF StopInOrder, Begun, Pending
  <2>3. CASE t # s
    BY <2>1, <2>3, <1>1, <1>3 DEF StopInOrder, Others, Begun
  <2> QED
    BY <2>2, <2>3
<1>6. ClosedByAStop' /\ CleanlyDone'
  BY <1>1, <1>2, <1>3, AliveIsNotDone DEF ClosedByAStop, Others, Pending
<1> QED
  BY <1>4, <1>5, <1>6 DEF InOrder

LEMMA SignalHandlerThrowsKeeps ==
    ASSUME InOrder, NEW s \in Signal, SignalHandlerThrows(s)
    PROVE  InOrder'
<1>1. /\ Alive /\ stops[s].at \in {"not begun", "failed"}
      /\ stops' = [stops EXCEPT ![s].at = "rejected"]
      /\ fatal' = TRUE
      /\ UNCHANGED <<start, server, requests, polling, ticking, bus, handling, exit>>
      /\ s \in Runs /\ s # Undo
  BY NamesAssumption DEF SignalHandlerThrows, Runs
<1>2. TypeOK /\ StartInOrder /\ ClosedByAStop /\ StopInOrder(s)
  BY <1>1 DEF InOrder
<1>3. /\ stops' \in [Runs -> Stops]
      /\ stops'[s].at = "rejected"
      /\ stops'[s].up = stops[s].up
      /\ Others(s)
  BY <1>1, <1>2, StopMoves DEF StopSteps
<1>4. TypeOK' /\ StartInOrder'
  BY <1>1, <1>2, <1>3 DEF TypeOK, StartInOrder
<1>5. ASSUME NEW t \in Runs PROVE StopInOrder(t)'
  <2>1. StopInOrder(t)
    BY DEF InOrder
  <2>2. CASE t = s
    BY <1>1, <1>2, <1>3, <2>2 DEF StopInOrder
  <2>3. CASE t # s
    BY <2>1, <2>3, <1>1, <1>3 DEF StopInOrder, Others, Begun
  <2> QED
    BY <2>2, <2>3
<1>6. ClosedByAStop' /\ CleanlyDone'
  BY <1>1, <1>2, <1>3, AliveIsNotDone DEF ClosedByAStop, Others
<1> QED
  BY <1>4, <1>5, <1>6 DEF InOrder

-----------------------------------------------------------------------------
(* The exits, and the steps together.                                      *)

LEMMA ExitsKeep ==
    ASSUME InOrder, NEW code \in {0, 1}, NEW by \in Signal \cup {"fatal"}, Exits(code, by),
           code = 0 => by \in Signal /\ stops[by].at = "done"
    PROVE  InOrder'
<1>1. /\ exit' = [code |-> code, by |-> by]
      /\ UNCHANGED <<start, server, requests, polling, ticking, bus, handling, stops, fatal>>
  BY DEF Exits
<1>2. TypeOK' /\ StartInOrder'
  BY <1>1 DEF InOrder, TypeOK, StartInOrder
<1>3. ASSUME NEW t \in Runs PROVE StopInOrder(t)'
  BY <1>1 DEF InOrder, StopInOrder, Begun
<1>4. ClosedByAStop' /\ CleanlyDone'
  BY <1>1 DEF InOrder, ClosedByAStop, CleanlyDone
<1> QED
  BY <1>2, <1>3, <1>4 DEF InOrder

LEMMA InitIsInOrder == Init => InOrder
<1> SUFFICES ASSUME Init PROVE InOrder
  OBVIOUS
<1>1. NotBegun \in Stops
  BY DEF NotBegun, Stops, StopSteps
<1>2. stops \in [Runs -> Stops] /\ \A t \in Runs : stops[t] = NotBegun
  BY <1>1 DEF Init
<1>3. TypeOK
  <2>1. /\ start \in {"loading", "indexing", "connecting", "listening", "up", "undoing", "failed"}
        /\ server \in {"none", "open", "closing"}
        /\ bus \in {"none", "open", "closed"}
    BY DEF Init
  <2>2. requests \in 0..MaxRequests
    BY RequestsAssumption DEF Init
  <2>3. polling \in BOOLEAN /\ ticking \in BOOLEAN /\ fatal \in BOOLEAN
    BY Zenon DEF Init
  <2>4. handling \in SUBSET Message /\ exit \in {Running} \cup [code : {0, 1}, by : Signal \cup {"fatal"}]
    BY DEF Init
  <2> QED
    BY <1>2, <2>1, <2>2, <2>3, <2>4 DEF TypeOK
<1>4. StartInOrder
  BY DEF Init, StartInOrder
<1>5. ASSUME NEW t \in Runs PROVE StopInOrder(t)
  <2>1. NotBegun.at = "not begun" /\ NotBegun.up = FALSE
    BY DEF NotBegun
  <2>2. stops[t] = NotBegun
    BY <1>2
  <2> QED
    BY <2>1, <2>2 DEF StopInOrder, Begun
<1>6. ClosedByAStop /\ CleanlyDone
  BY DEF Init, ClosedByAStop, CleanlyDone, Running
<1> QED
  BY <1>3, <1>4, <1>5, <1>6 DEF InOrder

LEMMA NextKeeps == InOrder /\ [Next]_vars => InOrder'
<1> SUFFICES ASSUME InOrder, [Next]_vars PROVE InOrder'
  OBVIOUS
<1>1. CASE UNCHANGED vars
  <2>1. TypeOK' /\ StartInOrder'
    BY <1>1 DEF InOrder, TypeOK, StartInOrder, vars
  <2>2. ASSUME NEW t \in Runs PROVE StopInOrder(t)'
    BY <1>1 DEF InOrder, StopInOrder, Begun, vars
  <2>3. ClosedByAStop' /\ CleanlyDone'
    BY <1>1 DEF InOrder, ClosedByAStop, CleanlyDone, vars
  <2> QED
    BY <2>1, <2>2, <2>3 DEF InOrder
<1>2. CASE Load \/ Index \/ Connect \/ Listen \/ ListenFails \/ StartFails
  BY <1>2, LoadKeeps, IndexKeeps, ConnectKeeps, ListenKeeps, ListenFailsKeeps, StartFailsKeeps
<1>3. CASE RequestArrives \/ RequestEnds \/ Tick \/ TickEnds
  BY <1>3, RequestArrivesKeeps, RequestEndsKeeps, TickKeeps, TickEndsKeeps
<1>4. ASSUME NEW m \in Message, Deliver(m) \/ Handled(m) PROVE InOrder'
  BY <1>4, DeliverKeeps, HandledKeeps
<1>5. ASSUME NEW s \in Signal, ReceiveSignal(s) \/ ServerClosed(s) \/ SignalHandlerThrows(s)
      PROVE  InOrder'
  BY <1>5, ReceiveSignalKeeps, ServerClosedKeeps, SignalHandlerThrowsKeeps
<1>6. ASSUME NEW s \in Runs, BatchEnded(s) \/ CloseBus(s) \/ StopFails(s) PROVE InOrder'
  BY <1>6, BatchEndedKeeps, CloseBusKeeps, StopFailsKeeps
<1>7. ASSUME NEW s \in Signal, ExitGracefully(s) PROVE InOrder'
  BY <1>7, ExitsKeep DEF ExitGracefully, Does
<1>8. ASSUME NEW s \in Signal, ExitWithError(s) \/ StopTimesOut(s) PROVE InOrder'
  BY <1>8, ExitsKeep DEF ExitWithError, StopTimesOut
<1>9. CASE FatalError \/ FlushSettles
  BY <1>9, FatalErrorKeeps, ExitsKeep DEF FlushSettles
<1> QED
  BY <1>1, <1>2, <1>3, <1>4, <1>5, <1>6, <1>7, <1>8, <1>9 DEF Next

LEMMA SpecKeepsOrder == Spec => []InOrder
<1>1. Init => InOrder
  BY InitIsInOrder
<1>2. InOrder /\ [Next]_vars => InOrder'
  BY NextKeeps
<1> QED
  BY <1>1, <1>2, PTL DEF Spec

\* The order of start and stop, for any signals and any amount of work: a
\* bus that is closed has been closed by a finished stop, after whoever
\* publishes (MybandnowBackendApp.stop, stopEventBus, OutboxPublisher.stop).
THEOREM StopsAreInOrder == Spec => []RuntimeInv
<1>1. InOrder => RuntimeInv
  BY InOrderImplies
<1> QED
  BY <1>1, SpecKeepsOrder, PTL

\* Exit code 0 after a stop of the running application: nothing was cut off
\* (the handlers of signals in start.ts).
THEOREM ExitsCleanly == Spec => []CleanExit
<1>1. InOrder => CleanExit
  BY InOrderImplies
<1> QED
  BY <1>1, SpecKeepsOrder, PTL

=============================================================================
