-------------------------- MODULE RabbitMQConsumers --------------------------
(***************************************************************************)
(* The subscribers of one process and RabbitMQ: deliveries, retries and    *)
(* dead letters (RabbitMQConsumer), and the connection they share, which   *)
(* can be lost, reconnected and closed (RabbitMQConnection).               *)
(*                                                                         *)
(* Each subscriber has a queue, a retry queue whose messages return to it  *)
(* when their TTL is over, and a dead-letter queue that nobody consumes    *)
(* (RabbitMQConfigurer).  A republished message is a new copy of it with   *)
(* redelivery_count one higher; no header is a count of 0.  A queue is a   *)
(* bag: RabbitMQ does not keep the order of what it requeues.              *)
(*                                                                         *)
(* A handler acknowledges with the delivery tag of its message on whatever *)
(* channel the connection has by then.  Tags count from 1 on each channel. *)
(*                                                                         *)
(* Artificial: "handled", "failed", "refused" and "strayed" record what    *)
(* happened, for the properties; MaxFaults caps lost connections, refused  *)
(* publishes, signals to stop and crashes.                                 *)
(***************************************************************************)
EXTENDS Integers

CONSTANTS
    Message,        \* messages, each bound for the queue of one subscriber
    Queue,
    QueueOf,        \* Message -> Queue
    MaxRetries,     \* RabbitMQConsumer.maxRetries
    MaxReconnects,  \* RabbitMQConnection.MAX_RECONNECT_ATTEMPTS
    MaxFaults

ASSUME ConsumersAssumption ==
    /\ QueueOf \in [Message -> Queue]
    /\ MaxRetries \in Nat
    /\ MaxReconnects \in Nat \ {0}
    /\ MaxFaults \in Nat

VARIABLES
    ready,      \* copies waiting in the queues
    retrying,   \* copies in the retry queues
    dead,       \* copies in the dead-letter queues
    unacked,    \* deliveries on the current channel that are not acknowledged
    arrived,    \* messages the outbox has published
    link,       \* the connection of the process, or that the process is down
    channel,    \* how many channels the process has opened
    tag,        \* deliveries on the current channel so far
    consuming,  \* queues with a consumer on the current channel
    attempts,   \* RabbitMQConnection.reconnectAttempts
    closing,    \* RabbitMQConnection.isClosing
    awaited,    \* the handlers close() waits for
    handlers,   \* RabbitMQConnection.inflightMessages
    handled,    \* messages some handler has succeeded on
    failed,     \* how often a handler has thrown on each message
    refused,    \* messages a handler has thrown a NonRetryableException on
    strayed,    \* messages whose ack or nack went to a channel not their own
    faults

brokerVars == <<ready, retrying, dead, unacked, arrived>>
linkVars == <<link, channel, tag, consuming, attempts, closing, awaited>>
history == <<handled, failed, refused>>
vars == <<brokerVars, linkVars, handlers, history, strayed, faults>>

\* A message without redelivery_count is retried even if MaxRetries is 0.
Retries == IF MaxRetries = 0 THEN 1 ELSE MaxRetries

\* The dead-letter publish increments redelivery_count as well.
Copy == [msg : Message, count : 0..(Retries + 1)]
Delivery == [tag : Nat, copy : Copy]

\* run:   the subscriber is at work
\* retry, dead: its republish is on the way to RabbitMQ
\* ack:   RabbitMQ has the republish, its confirm is on the way back
HandlerRecord ==
    [channel : Nat, tag : Nat, copy : Copy, at : {"run", "retry", "dead", "ack"}]

\* lost: closed, a reconnect is under way or scheduled    cut: closed for good
Links == {"open", "lost", "cut", "down"}

Bags == [Copy -> Nat]

TypeOK ==
    /\ ready \in Bags /\ retrying \in Bags /\ dead \in Bags
    /\ unacked \in SUBSET Delivery
    /\ arrived \in SUBSET Message
    /\ link \in Links
    /\ channel \in Nat
    /\ tag \in Nat
    /\ consuming \in SUBSET Queue
    /\ attempts \in 0..MaxReconnects
    /\ closing \in BOOLEAN
    /\ awaited \in SUBSET (Nat \X Nat)
    /\ handlers \in SUBSET HandlerRecord
    /\ handled \in SUBSET Message
    /\ failed \in [Message -> Nat]
    /\ refused \in SUBSET Message
    /\ strayed \in SUBSET Message
    /\ faults \in 0..MaxFaults

Empty == [c \in Copy |-> 0]

Init ==
    /\ ready = Empty /\ retrying = Empty /\ dead = Empty
    /\ unacked = {}
    /\ arrived = {}
    /\ link = "open"
    /\ channel = 1
    /\ tag = 0
    /\ consuming = Queue
    /\ attempts = 0
    /\ closing = FALSE
    /\ awaited = {}
    /\ handlers = {}
    /\ handled = {}
    /\ failed = [m \in Message |-> 0]
    /\ refused = {}
    /\ strayed = {}
    /\ faults = 0

Fault == faults < MaxFaults /\ faults' = faults + 1

More(bag, c) == [bag EXCEPT ![c] = @ + 1]
Fewer(bag, c) == [bag EXCEPT ![c] = @ - 1]

-----------------------------------------------------------------------------
(* The broker.                                                             *)

\* The event bus publishes an event that the subscriber of m listens to.
Arrive(m) ==
    /\ m \notin arrived
    /\ arrived' = arrived \cup {m}
    /\ ready' = More(ready, [msg |-> m, count |-> 0])
    /\ UNCHANGED <<retrying, dead, unacked, linkVars, handlers, history, strayed, faults>>

\* The TTL of the retry queue is over.
Expire(c) ==
    /\ retrying[c] > 0
    /\ retrying' = Fewer(retrying, c)
    /\ ready' = More(ready, c)
    /\ UNCHANGED <<dead, unacked, arrived, linkVars, handlers, history, strayed, faults>>

\* prefetch(1): a consumer gets no message while one is unacknowledged.
\* Mutant: no prefetch.
DeliverAnyway(c) ==
    /\ link = "open" /\ QueueOf[c.msg] \in consuming
    /\ ready[c] > 0
    /\ ready' = Fewer(ready, c)
    /\ tag' = tag + 1
    /\ unacked' = unacked \cup {[tag |-> tag + 1, copy |-> c]}
    /\ handlers' = handlers \cup {[channel |-> channel, tag |-> tag + 1, copy |-> c, at |-> "run"]}
    /\ UNCHANGED <<retrying, dead, arrived, link, channel, consuming, attempts, closing, awaited, history, strayed, faults>>

Deliver(c) ==
    /\ link = "open" /\ QueueOf[c.msg] \in consuming
    /\ ready[c] > 0
    /\ \A d \in unacked : QueueOf[d.copy.msg] # QueueOf[c.msg]
    /\ ready' = Fewer(ready, c)
    /\ tag' = tag + 1
    /\ unacked' = unacked \cup {[tag |-> tag + 1, copy |-> c]}
    /\ handlers' = handlers \cup {[channel |-> channel, tag |-> tag + 1, copy |-> c, at |-> "run"]}
    /\ UNCHANGED <<retrying, dead, arrived, link, channel, consuming, attempts, closing, awaited, history, strayed, faults>>

\* What the channel had not acknowledged returns to its queue, once.
Requeue(deliveries) ==
    ready' = [c \in Copy |-> IF \E d \in deliveries : d.copy = c THEN ready[c] + 1 ELSE ready[c]]

\* The connection closes.  Pending confirms are rejected, the nack that
\* follows throws on the closed channel, and those handlers end; the others
\* know nothing of it.  A reconnect that had consumers left to register
\* counts as a failed one.
LinkLost(ending) ==
    /\ Requeue(unacked)
    /\ unacked' = {}
    /\ handlers' = {h \in handlers \ ending : h.at = "run"}
    /\ link' = IF closing THEN "cut" ELSE "lost"
    /\ attempts' = IF consuming = Queue THEN attempts ELSE 1
    /\ consuming' = {}
    /\ UNCHANGED <<retrying, dead, arrived, channel, tag, closing, awaited>>

\* RabbitMQConnection.ack and nack of handler h, which ends with it.  On a
\* closed channel they throw, and so do the retry and the nack that follow.
\* A tag the channel does not know is a channel error: nobody listens to it,
\* and it takes the connection down.
Settle(h, again) ==
    /\ strayed' = IF link = "open" /\ h.channel # channel THEN strayed \cup {h.copy.msg} ELSE strayed
    /\ \/ /\ link # "open"
          /\ handlers' = handlers \ {h}
          /\ UNCHANGED <<brokerVars, linkVars>>
       \/ /\ link = "open"
          /\ \E d \in unacked :
                /\ d.tag = h.tag
                /\ unacked' = unacked \ {d}
                /\ IF again THEN Requeue({d}) ELSE UNCHANGED ready
          /\ handlers' = handlers \ {h}
          /\ UNCHANGED <<retrying, dead, arrived, linkVars>>
       \/ /\ link = "open"
          /\ \A d \in unacked : d.tag # h.tag
          /\ LinkLost({h})

Ack(h) == Settle(h, FALSE)
Nack(h) == Settle(h, TRUE)

-----------------------------------------------------------------------------
(* A handler: RabbitMQConsumer.onMessage.                                  *)

Succeed(h) ==
    /\ h.at = "run"
    /\ handled' = handled \cup {h.copy.msg}
    /\ Ack(h)
    /\ UNCHANGED <<failed, refused, faults>>

\* Mutant: the last retry is skipped.
RedeliveredTooMuchEarly(c) == c.count + 1 >= MaxRetries

\* hasBeenRedeliveredTooMuch: a message has a redelivery_count when it was
\* published again.
RedeliveredTooMuch(c) == c.count > 0 /\ c.count >= MaxRetries

\* The handler goes on to publish its message to a retry or dead-letter
\* exchange, which throws on a closed channel, as the nack after it does.
GoOn(h, exchange) ==
    handlers' = (handlers \ {h}) \cup (IF link = "open" THEN {[h EXCEPT !.at = exchange]} ELSE {})

\* Counted up to Retries + 1.
Failed(h) == failed' = [failed EXCEPT ![h.copy.msg] = IF @ > Retries THEN @ ELSE @ + 1]

\* Mutant: the message is acknowledged before it is published again.
ThrowAcksFirst(h) ==
    /\ h.at = "run" /\ h.channel = channel
    /\ Failed(h)
    /\ unacked' = {d \in unacked : d.tag # h.tag}
    /\ GoOn(h, IF RedeliveredTooMuch(h.copy) THEN "dead" ELSE "retry")
    /\ UNCHANGED <<ready, retrying, dead, arrived, linkVars, handled, refused, strayed, faults>>

\* The subscriber throws: handleError.
Throw(h) ==
    /\ h.at = "run"
    /\ Failed(h)
    /\ GoOn(h, IF RedeliveredTooMuch(h.copy) THEN "dead" ELSE "retry")
    /\ UNCHANGED <<brokerVars, linkVars, handled, refused, strayed, faults>>

\* The subscriber throws a NonRetryableException.
Refuse(h) ==
    /\ h.at = "run"
    /\ refused' = refused \cup {h.copy.msg}
    /\ GoOn(h, "dead")
    /\ UNCHANGED <<brokerVars, linkVars, handled, failed, strayed, faults>>

\* incrementRedeliveryCount
Recounted(c) == [c EXCEPT !.count = @ + 1]

\* RabbitMQ takes the new copy.
Republish(h) ==
    /\ \/ h.at = "retry" /\ retrying' = More(retrying, Recounted(h.copy)) /\ UNCHANGED dead
       \/ h.at = "dead" /\ dead' = More(dead, Recounted(h.copy)) /\ UNCHANGED retrying
    /\ handlers' = (handlers \ {h}) \cup {[h EXCEPT !.at = "ack"]}
    /\ UNCHANGED <<ready, unacked, arrived, linkVars, history, strayed, faults>>

\* RabbitMQ does not take it, and its confirm says so.
RepublishFails(h) ==
    /\ h.at \in {"retry", "dead"}
    /\ Fault
    /\ Nack(h)
    /\ UNCHANGED history

AckRepublished(h) ==
    /\ h.at = "ack"
    /\ Ack(h)
    /\ UNCHANGED <<history, faults>>

-----------------------------------------------------------------------------
(* The connection and the process.                                         *)

Drop ==
    /\ link = "open"
    /\ Fault
    /\ LinkLost({})
    /\ UNCHANGED <<history, strayed>>

\* The consumers are registered again one by one.
Reconnect ==
    /\ link = "lost"
    /\ link' = "open"
    /\ channel' = channel + 1
    /\ tag' = 0
    /\ attempts' = 0
    /\ UNCHANGED <<brokerVars, consuming, closing, awaited, handlers, history, strayed, faults>>

Consume(q) ==
    /\ link = "open" /\ q \notin consuming
    /\ consuming' = consuming \cup {q}
    /\ UNCHANGED <<brokerVars, link, channel, tag, attempts, closing, awaited, handlers, history, strayed, faults>>

\* The process ends and its handlers with it.
Die ==
    /\ Requeue(unacked)
    /\ unacked' = {}
    /\ handlers' = {}
    /\ link' = "down"
    /\ consuming' = {}
    /\ attempts' = 0
    /\ closing' = FALSE
    /\ awaited' = {}
    /\ UNCHANGED <<retrying, dead, arrived, channel, tag, history, strayed>>

\* Mutant: isReconnecting is not reset when an attempt fails.
ReconnectFailsForGood ==
    /\ link = "lost"
    /\ link' = "cut"
    /\ UNCHANGED <<brokerVars, channel, tag, consuming, attempts, closing, awaited, handlers, history, strayed, faults>>

\* scheduleReconnect; after the last attempt the process exits.
ReconnectFails ==
    /\ link = "lost"
    /\ UNCHANGED faults
    /\ IF ~closing /\ attempts = MaxReconnects
         THEN Die
         ELSE /\ link' = IF closing THEN "cut" ELSE "lost"
              /\ attempts' = IF closing THEN attempts ELSE attempts + 1
              /\ UNCHANGED <<brokerVars, channel, tag, consuming, closing, awaited, handlers, history, strayed>>

\* A signal: close() waits for the handlers of this moment, while the
\* consumers go on.  It cancels a scheduled reconnect, not one under way.
Close ==
    /\ link # "down" /\ ~closing
    /\ Fault
    /\ closing' = TRUE
    /\ awaited' = {<<h.channel, h.tag>> : h \in handlers}
    /\ link' \in IF link = "lost" THEN {"lost", "cut"} ELSE {link}
    /\ UNCHANGED <<brokerVars, channel, tag, consuming, attempts, handlers, history, strayed>>

\* They have ended: the channel and the connection are closed, the process exits.
Exit ==
    /\ closing
    /\ \A h \in handlers : <<h.channel, h.tag>> \notin awaited
    /\ Die
    /\ UNCHANGED faults

Crash == link # "down" /\ Fault /\ Die

\* RabbitMQEventBus.start, in a new process.
Restart ==
    /\ link = "down"
    /\ link' = "open"
    /\ channel' = 1
    /\ tag' = 0
    /\ consuming' = Queue
    /\ UNCHANGED <<brokerVars, attempts, closing, awaited, handlers, history, strayed, faults>>

-----------------------------------------------------------------------------
HandlerStep(h) ==
    \/ Succeed(h) \/ Throw(h) \/ Refuse(h)
    \/ Republish(h) \/ RepublishFails(h) \/ AckRepublished(h)

Broker ==
    \/ \E m \in Message : Arrive(m)
    \/ \E c \in Copy : Expire(c) \/ Deliver(c)

Process ==
    \/ Drop \/ Reconnect \/ ReconnectFails
    \/ \E q \in Queue : Consume(q)
    \/ Close \/ Exit \/ Crash \/ Restart

Next ==
    \/ Broker
    \/ \E h \in handlers : HandlerStep(h)
    \/ Process

Spec == Init /\ [][Next]_vars

\* RabbitMQ delivers what is ready and expires what waits, subscribers end,
\* the timers of the reconnect fire, and the platform restarts the process.
\* Nothing is assumed of whether RabbitMQ can be reached.
Fairness ==
    /\ WF_vars(\E c \in Copy : Expire(c))
    /\ WF_vars(\E c \in Copy : Deliver(c))
    /\ WF_vars(\E h \in handlers : HandlerStep(h))
    /\ WF_vars(Reconnect \/ ReconnectFails \/ (\E q \in Queue : Consume(q)) \/ Exit \/ Restart)

FairSpec == Spec /\ Fairness

-----------------------------------------------------------------------------
(* Properties.                                                             *)

Queued(m) == \E c \in Copy : c.msg = m /\ (ready[c] > 0 \/ retrying[c] > 0 \/ dead[c] > 0)

\* m has been handled, or RabbitMQ has it and would deliver it again.
Held(m) ==
    \/ m \in handled
    \/ Queued(m)
    \/ \E d \in unacked : d.copy.msg = m

\* Crashes, lost connections, lost confirms and stops take no message from
\* RabbitMQ before it is handled, with one exception: a handler that outlives
\* the channel of its message acknowledges another one's on the next channel.
HeldUnlessStrayed == strayed = {} => \A m \in arrived : Held(m)

\* Consumers take every message at least once (docs/adr/0007): it has been
\* handled, or RabbitMQ has it, or a handler is at work on it.
NotLost == \A m \in arrived : Held(m) \/ \E h \in handlers : h.copy.msg = m

\* A message is dead only after a first try and all its retries have
\* thrown, or when its subscriber called it not retryable: what RabbitMQ
\* redelivers by itself does not use up its retries.
DeadWasTried ==
    \A c \in Copy : dead[c] > 0 => c.msg \in refused \/ failed[c.msg] > Retries

\* The handlers of a subscriber run one at a time as long as their channel
\* lives: the awaits of a retry never let the next message in.
OneAtATime ==
    strayed = {} => \A h, k \in handlers :
        h.channel = k.channel /\ QueueOf[h.copy.msg] = QueueOf[k.copy.msg] => h = k

-----------------------------------------------------------------------------
(* The inductive invariant behind them.                                    *)

Tried(c) == c.count <= Retries /\ c.count <= failed[c.msg]

\* redelivery_count never runs ahead of the failures it stands for.
CountedFailures ==
    /\ \A c \in Copy : ready[c] > 0 \/ retrying[c] > 0 => Tried(c)
    /\ \A d \in unacked : Tried(d.copy)
    /\ \A h \in handlers :
        /\ Tried(h.copy)
        /\ h.at = "retry" => h.copy.count < Retries /\ h.copy.count < failed[h.copy.msg]
        /\ h.at = "dead" => h.copy.msg \in refused \/ failed[h.copy.msg] > Retries

\* Deliveries and handlers of a channel are told apart by their tags; each
\* queue has one delivery out; a dead channel has none, and a dead process
\* has no handlers.
Deliveries ==
    /\ \A d \in unacked : d.tag <= tag
    /\ \A d, e \in unacked : d.tag = e.tag \/ QueueOf[d.copy.msg] = QueueOf[e.copy.msg] => d = e
    /\ \A h \in handlers : h.channel <= channel /\ (h.channel = channel => h.tag <= tag)
    /\ \A h, k \in handlers : h.channel = k.channel /\ h.tag = k.tag => h = k
    /\ link # "open" => unacked = {} /\ \A h \in handlers : h.at = "run"
    /\ link = "down" => handlers = {}

\* A handler of the open channel still has its delivery, and what it has
\* published again is in some queue as long as it has not acknowledged it.
OwnDeliveries ==
    strayed = {} /\ link = "open" => \A h \in handlers : h.channel = channel =>
        /\ [tag |-> h.tag, copy |-> h.copy] \in unacked
        /\ h.at = "ack" =>
              \/ h.copy.msg \in handled
              \/ Queued(h.copy.msg)

ConsumersInv ==
    /\ TypeOK
    /\ CountedFailures /\ DeadWasTried
    /\ Deliveries /\ OwnDeliveries /\ OneAtATime
    /\ HeldUnlessStrayed

-----------------------------------------------------------------------------
(* Liveness.                                                               *)

Settled(m) ==
    \/ m \in handled
    \/ \E c \in Copy : c.msg = m /\ dead[c] > 0

\* Every message is handled or dead in the end, whatever was lost on the way;
\* a settled message stays settled.
Settles == []<>(strayed # {} \/ \A m \in arrived : Settled(m))

=============================================================================
