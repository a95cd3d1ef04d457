------------------------ MODULE AtLeastOnceDelivery ------------------------
(***************************************************************************)
(* What the outbox owes the rest of the system, without rows, pollers,     *)
(* processes or clocks: a batch of events is accepted as a whole, an       *)
(* accepted event is owed until RabbitMQ has it, and the only other way    *)
(* out is to give it up after MaxRetries failed attempts.                  *)
(***************************************************************************)
EXTENDS Naturals

CONSTANTS
    Event,      \* the events that can be accepted
    Batch,      \* the sets of events that are accepted together
    MaxRetries  \* failed attempts after which an event may be given up

VARIABLES
    phase,  \* where each event stands
    tries   \* failed attempts counted against it

Init ==
    /\ phase = [e \in Event |-> "none"]
    /\ tries = [e \in Event |-> 0]

Accept(b) ==
    /\ \A e \in b : phase[e] = "none"
    /\ phase' = [e \in Event |-> IF e \in b THEN "owed" ELSE phase[e]]
    /\ UNCHANGED tries

\* A late delivery also rescues an event that was given up.
Deliver(e) ==
    /\ phase[e] \in {"owed", "abandoned"}
    /\ phase' = [phase EXCEPT ![e] = "delivered"]
    /\ UNCHANGED tries

\* An attempt fails.  The count says when the event may be given up.
FailAttempt(e) ==
    /\ phase[e] # "none"
    /\ tries' = [tries EXCEPT ![e] = @ + 1]
    /\ \/ UNCHANGED phase
       \/ /\ phase[e] = "owed" /\ tries'[e] >= MaxRetries
          /\ phase' = [phase EXCEPT ![e] = "abandoned"]

Next ==
    \/ \E b \in Batch : Accept(b)
    \/ \E e \in Event : Deliver(e) \/ FailAttempt(e)

Spec == Init /\ [][Next]_<<phase, tries>>
=============================================================================
