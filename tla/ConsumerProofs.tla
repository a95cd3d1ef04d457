--------------------------- MODULE ConsumerProofs ---------------------------
(***************************************************************************)
(* Proofs about RabbitMQConsumers: ConsumersInv is inductive, for every    *)
(* number of messages, queues, retries, reconnects and faults.             *)
(***************************************************************************)
EXTENDS RabbitMQConsumers, TLAPS

LEMMA RetriesType == Retries \in Nat /\ Retries >= MaxRetries
  BY ConsumersAssumption DEF Retries

\* Requeueing takes nothing out of a queue and puts each delivery back.
LEMMA RequeueGrows ==
    ASSUME ready \in Bags, NEW S \in SUBSET Delivery, Requeue(S)
    PROVE  /\ ready' \in Bags
           /\ \A c \in Copy : ready'[c] >= ready[c]
           /\ \A c \in Copy : ready'[c] > ready[c] => \E d \in S : d.copy = c
           /\ \A d \in S : ready'[d.copy] > 0
  BY DEF Bags, Requeue, Delivery

-----------------------------------------------------------------------------
(* Types.                                                                  *)

LEMMA LinkLostType ==
    ASSUME TypeOK, NEW ending, LinkLost(ending)
    PROVE  /\ ready' \in Bags /\ retrying' \in Bags /\ dead' \in Bags
           /\ unacked' \in SUBSET Delivery
           /\ arrived' \in SUBSET Message
           /\ link' \in Links /\ channel' \in Nat /\ tag' \in Nat
           /\ consuming' \in SUBSET Queue /\ attempts' \in 0..MaxReconnects
           /\ closing' \in BOOLEAN /\ awaited' \in SUBSET (Nat \X Nat)
           /\ handlers' \in SUBSET HandlerRecord
  <1>1. ready' \in Bags
    BY RequeueGrows DEF LinkLost, TypeOK
  <1> QED
    BY <1>1, ConsumersAssumption, RetriesType DEF LinkLost, TypeOK, Links

LEMMA DieType ==
    ASSUME TypeOK, Die, faults' \in 0..MaxFaults
    PROVE  TypeOK'
  <1>1. ready' \in Bags
    BY RequeueGrows DEF Die, TypeOK
  <1>2. closing' \in BOOLEAN
    BY Zenon DEF Die
  <1>3. attempts' \in 0..MaxReconnects
    BY ConsumersAssumption, RetriesType DEF Die
  <1> QED
    BY <1>1, <1>2, <1>3 DEF Die, TypeOK, Links, history

LEMMA SettleType ==
    ASSUME TypeOK, NEW h \in handlers, NEW again \in BOOLEAN, Settle(h, again)
    PROVE  /\ ready' \in Bags /\ retrying' \in Bags /\ dead' \in Bags
           /\ unacked' \in SUBSET Delivery
           /\ arrived' \in SUBSET Message
           /\ link' \in Links /\ channel' \in Nat /\ tag' \in Nat
           /\ consuming' \in SUBSET Queue /\ attempts' \in 0..MaxReconnects
           /\ closing' \in BOOLEAN /\ awaited' \in SUBSET (Nat \X Nat)
           /\ handlers' \in SUBSET HandlerRecord
           /\ strayed' \in SUBSET Message
  <1>1. strayed' \in SUBSET Message
    BY DEF Settle, TypeOK, HandlerRecord, Copy
  <1>2. CASE link # "open"
    BY <1>1, <1>2 DEF Settle, TypeOK, brokerVars, linkVars
  <1>3. CASE LinkLost({h})
    BY <1>1, <1>3, LinkLostType
  <1>4. CASE /\ \E d \in unacked :
                   /\ d.tag = h.tag
                   /\ unacked' = unacked \ {d}
                   /\ IF again THEN Requeue({d}) ELSE UNCHANGED ready
             /\ handlers' = handlers \ {h}
             /\ UNCHANGED <<retrying, dead, arrived, linkVars>>
    <2>1. PICK d \in unacked :
              /\ unacked' = unacked \ {d}
              /\ IF again THEN Requeue({d}) ELSE UNCHANGED ready
      BY <1>4
    <2>2. ready' \in Bags
      BY <2>1, RequeueGrows DEF TypeOK
    <2> QED
      BY <1>1, <1>4, <2>1, <2>2 DEF TypeOK, linkVars
  <1> QED
    BY <1>2, <1>3, <1>4 DEF Settle

LEMMA HandlerType ==
    ASSUME TypeOK, NEW h \in handlers, HandlerStep(h)
    PROVE  TypeOK'
  <1>0. h \in HandlerRecord /\ h.copy \in Copy /\ h.copy.msg \in Message
    BY DEF TypeOK, HandlerRecord, Copy
  <1>1. CASE Succeed(h)
    <2>1. Settle(h, FALSE)
      BY <1>1 DEF Succeed, Ack
    <2> QED
      BY <1>0, <1>1, <2>1, SettleType DEF Succeed, TypeOK
  <1>2. ASSUME NEW exchange \in {"retry", "dead"}, GoOn(h, exchange)
        PROVE  handlers' \in SUBSET HandlerRecord
    BY <1>0, <1>2 DEF GoOn, TypeOK, HandlerRecord
  <1>3. CASE Throw(h)
    <2>1. handlers' \in SUBSET HandlerRecord
      BY <1>2, <1>3 DEF Throw
    <2>2. failed' \in [Message -> Nat]
      BY <1>0, <1>3 DEF Throw, Failed, TypeOK
    <2> QED
      BY <1>3, <2>1, <2>2 DEF Throw, TypeOK, brokerVars, linkVars
  <1>4. CASE Refuse(h)
    <2>1. handlers' \in SUBSET HandlerRecord
      BY <1>2, <1>4 DEF Refuse
    <2> QED
      BY <1>0, <1>4, <2>1 DEF Refuse, TypeOK, brokerVars, linkVars
  <1>5. CASE Republish(h)
    <2>1. handlers' \in SUBSET HandlerRecord
      BY <1>0, <1>5 DEF Republish, TypeOK, HandlerRecord
    <2>2. retrying' \in Bags /\ dead' \in Bags
      BY <1>0, <1>5 DEF Republish, TypeOK, More, Bags
    <2> QED
      BY <1>5, <2>1, <2>2 DEF Republish, TypeOK, linkVars, history
  <1>6. CASE RepublishFails(h)
    <2>1. Settle(h, TRUE)
      BY <1>6 DEF RepublishFails, Nack
    <2>2. faults' \in 0..MaxFaults
      BY <1>6, ConsumersAssumption, RetriesType DEF RepublishFails, Fault, TypeOK
    <2> QED
      BY <1>6, <2>1, <2>2, SettleType DEF RepublishFails, TypeOK, history
  <1>7. CASE AckRepublished(h)
    <2>1. Settle(h, FALSE)
      BY <1>7 DEF AckRepublished, Ack
    <2> QED
      BY <1>7, <2>1, SettleType DEF AckRepublished, TypeOK, history
  <1> QED
    BY <1>1, <1>3, <1>4, <1>5, <1>6, <1>7 DEF HandlerStep

LEMMA BrokerType ==
    ASSUME TypeOK, Broker
    PROVE  TypeOK'
  <1>1. CASE \E m \in Message : Arrive(m)
    <2>1. PICK m \in Message : Arrive(m)
      BY <1>1
    <2>2. [msg |-> m, count |-> 0] \in Copy
      BY ConsumersAssumption, RetriesType DEF Copy
    <2>3. ready' \in Bags
      BY <2>1, <2>2 DEF Arrive, More, Bags, TypeOK
    <2> QED
      BY <2>1, <2>3 DEF Arrive, TypeOK, linkVars, history
  <1>2. CASE \E c \in Copy : Expire(c)
    <2>1. PICK c \in Copy : Expire(c)
      BY <1>2
    <2>2. ready' \in Bags /\ retrying' \in Bags
      BY <2>1 DEF Expire, More, Fewer, Bags, TypeOK
    <2> QED
      BY <2>1, <2>2 DEF Expire, TypeOK, linkVars, history
  <1>3. CASE \E c \in Copy : Deliver(c)
    <2>1. PICK c \in Copy : Deliver(c)
      BY <1>3
    <2>2. ready' \in Bags
      BY <2>1 DEF Deliver, Fewer, Bags, TypeOK
    <2>3. unacked' \in SUBSET Delivery /\ handlers' \in SUBSET HandlerRecord
      BY <2>1 DEF Deliver, TypeOK, Delivery, HandlerRecord
    <2> QED
      BY <2>1, <2>2, <2>3 DEF Deliver, TypeOK, history
  <1> QED
    BY <1>1, <1>2, <1>3 DEF Broker

LEMMA ProcessType ==
    ASSUME TypeOK, Process
    PROVE  TypeOK'
  <1>1. CASE Drop
    <2>1. faults' \in 0..MaxFaults
      BY <1>1, ConsumersAssumption, RetriesType DEF Drop, Fault, TypeOK
    <2>2. LinkLost({})
      BY <1>1 DEF Drop
    <2> QED
      BY <1>1, <2>1, <2>2, LinkLostType DEF Drop, TypeOK, history
  <1>2. CASE Reconnect
    BY <1>2, ConsumersAssumption, RetriesType DEF Reconnect, TypeOK, brokerVars, history, Links
  <1>3. CASE ReconnectFails
    <2>1. CASE Die
      BY <1>3, <2>1, DieType DEF ReconnectFails, TypeOK
    <2>2. CASE /\ closing \/ attempts # MaxReconnects
               /\ link' = IF closing THEN "cut" ELSE "lost"
               /\ attempts' = IF closing THEN attempts ELSE attempts + 1
               /\ UNCHANGED <<brokerVars, channel, tag, consuming, closing, awaited, handlers, history, strayed>>
      <3>1. attempts' \in 0..MaxReconnects
        BY <2>2, ConsumersAssumption, RetriesType DEF TypeOK
      <3> QED
        BY <1>3, <2>2, <3>1 DEF ReconnectFails, TypeOK, brokerVars, history, Links
    <2> QED
      BY <1>3, <2>1, <2>2 DEF ReconnectFails
  <1>4. CASE \E q \in Queue : Consume(q)
    BY <1>4 DEF Consume, TypeOK, brokerVars, history
  <1>5. CASE Close
    <2>1. faults' \in 0..MaxFaults
      BY <1>5, ConsumersAssumption, RetriesType DEF Close, Fault, TypeOK
    <2>2. awaited' \in SUBSET (Nat \X Nat)
      BY <1>5 DEF Close, TypeOK, HandlerRecord
    <2> QED
      BY <1>5, <2>1, <2>2 DEF Close, TypeOK, brokerVars, history, Links
  <1>6. CASE Exit
    BY <1>6, DieType DEF Exit, TypeOK
  <1>7. CASE Crash
    <2>1. faults' \in 0..MaxFaults
      BY <1>7, ConsumersAssumption, RetriesType DEF Crash, Fault, TypeOK
    <2> QED
      BY <1>7, <2>1, DieType DEF Crash
  <1>8. CASE Restart
    BY <1>8 DEF Restart, TypeOK, brokerVars, history, Links
  <1> QED
    BY <1>1, <1>2, <1>3, <1>4, <1>5, <1>6, <1>7, <1>8 DEF Process

LEMMA TypeStep ==
    ASSUME TypeOK, [Next]_vars
    PROVE  TypeOK'
  <1>1. CASE UNCHANGED vars
    BY <1>1 DEF TypeOK, vars, brokerVars, linkVars, history
  <1> QED
    BY <1>1, BrokerType, HandlerType, ProcessType DEF Next

-----------------------------------------------------------------------------
(* redelivery_count and the failures behind it.                            *)

CountInv == CountedFailures /\ DeadWasTried

LEMMA RequeueCounts ==
    ASSUME TypeOK, CountInv, NEW S \in SUBSET unacked, Requeue(S)
    PROVE  \A c \in Copy : ready'[c] > 0 => Tried(c)
  <1>1. \A c \in Copy : ready'[c] > ready[c] => \E d \in S : d.copy = c
    BY RequeueGrows DEF TypeOK
  <1>2. \A c \in Copy : ready[c] \in Nat /\ ready'[c] \in Nat
    BY RequeueGrows DEF TypeOK, Bags
  <1> QED
    BY <1>1, <1>2 DEF CountInv, CountedFailures

\* A connection that is lost, a process that ends, a handler that settles:
\* copies only move, and no handler goes on.
LEMMA MoveCounts ==
    ASSUME TypeOK, CountInv, UNCHANGED <<retrying, dead, failed>>,
           \A c \in Copy : ready'[c] > 0 => Tried(c),
           unacked' \subseteq unacked, handlers' \subseteq handlers, refused \subseteq refused'
    PROVE  CountInv'
  <1>1. \A c : Tried(c)' <=> Tried(c)
    BY DEF Tried
  <1>2. DeadWasTried'
    BY DEF CountInv, DeadWasTried
  <1>3. CountedFailures'
    BY <1>1 DEF CountInv, CountedFailures
  <1> QED
    BY <1>2, <1>3 DEF CountInv

LEMMA LinkLostCounts ==
    ASSUME TypeOK, CountInv, NEW ending, LinkLost(ending), UNCHANGED <<failed, refused>>
    PROVE  CountInv'
  <1>1. \A c \in Copy : ready'[c] > 0 => Tried(c)
    BY RequeueCounts DEF LinkLost
  <1> QED
    BY <1>1, MoveCounts DEF LinkLost

LEMMA DieCounts ==
    ASSUME TypeOK, CountInv, Die
    PROVE  CountInv'
  <1>1. \A c \in Copy : ready'[c] > 0 => Tried(c)
    BY RequeueCounts DEF Die
  <1> QED
    BY <1>1, MoveCounts DEF Die, history

LEMMA SettleCounts ==
    ASSUME TypeOK, CountInv, NEW h \in handlers, NEW again \in BOOLEAN, Settle(h, again),
           UNCHANGED <<failed, refused>>
    PROVE  CountInv'
  <1>1. CASE LinkLost({h})
    BY <1>1, LinkLostCounts
  <1>2. \A c \in Copy : ready[c] > 0 => Tried(c)
    BY DEF CountInv, CountedFailures
  <1>3. CASE link # "open" /\ handlers' = handlers \ {h} /\ UNCHANGED <<brokerVars, linkVars>>
    BY <1>2, <1>3, MoveCounts DEF brokerVars
  <1>4. ASSUME NEW d \in unacked, unacked' = unacked \ {d}, handlers' = handlers \ {h},
               IF again THEN Requeue({d}) ELSE UNCHANGED ready,
               UNCHANGED <<retrying, dead>>
        PROVE  CountInv'
    <2>1. \A c \in Copy : ready'[c] > 0 => Tried(c)
      BY <1>2, <1>4, RequeueCounts
    <2> QED
      BY <1>4, <2>1, MoveCounts
  <1> QED
    BY <1>1, <1>3, <1>4 DEF Settle

LEMMA ThrowCounts ==
    ASSUME TypeOK, CountInv, NEW h \in handlers, Throw(h)
    PROVE  CountInv'
  <1> DEFINE m == h.copy.msg
  <1>0. h \in HandlerRecord /\ h.copy \in Copy /\ m \in Message /\ h.copy.count \in Nat
    BY ConsumersAssumption, RetriesType DEF TypeOK, HandlerRecord, Copy
  <1>1. \A n \in Message : failed[n] \in Nat /\ failed'[n] \in Nat /\ failed'[n] >= failed[n]
    BY <1>0 DEF Throw, Failed, TypeOK
  <1>2. failed'[m] > failed[m] \/ failed'[m] > Retries
    BY <1>0, <1>1, ConsumersAssumption, RetriesType DEF Throw, Failed, TypeOK
  <1>3. \A c \in Copy : Tried(c) => Tried(c)'
    BY <1>1, ConsumersAssumption, RetriesType DEF Tried, Copy
  <1>4. h.copy.count <= Retries /\ h.copy.count <= failed[m]
    BY DEF CountInv, CountedFailures, Tried
  <1>5. h.copy.count < failed'[m]
    BY <1>0, <1>1, <1>2, <1>4, ConsumersAssumption, RetriesType
  <1>6. DeadWasTried'
    <2>1. dead' = dead /\ refused' = refused
      BY DEF Throw, brokerVars
    <2>2. \A c \in Copy : c.msg \in Message
      BY DEF Copy
    <2> QED
      BY <1>1, <2>1, <2>2, ConsumersAssumption, RetriesType DEF CountInv, DeadWasTried
  <1>7. ASSUME NEW k \in handlers'
        PROVE  /\ Tried(k.copy)'
               /\ k.at = "retry" => k.copy.count < Retries /\ k.copy.count < failed'[k.copy.msg]
               /\ k.at = "dead" => k.copy.msg \in refused' \/ failed'[k.copy.msg] > Retries
    <2>1. CASE k \in handlers
      <3>1. k.copy \in Copy /\ k.copy.msg \in Message /\ k.copy.count \in Nat
        BY <2>1, ConsumersAssumption, RetriesType DEF TypeOK, HandlerRecord, Copy
      <3> QED
        BY <1>1, <1>3, <2>1, <3>1, ConsumersAssumption, RetriesType DEF CountInv, CountedFailures, Throw
    <2>2. CASE k = [h EXCEPT !.at = IF RedeliveredTooMuch(h.copy) THEN "dead" ELSE "retry"]
      <3>1. k.copy = h.copy /\ k.at = IF RedeliveredTooMuch(h.copy) THEN "dead" ELSE "retry"
        BY <1>0, <2>2 DEF HandlerRecord
      <3>2. Tried(k.copy)'
        BY <1>0, <1>3, <3>1 DEF CountInv, CountedFailures
      <3>3. RedeliveredTooMuch(h.copy) <=> h.copy.count >= Retries
        BY <1>0, ConsumersAssumption, RetriesType DEF RedeliveredTooMuch, Retries
      <3> QED
        BY <1>0, <1>1, <1>4, <1>5, <3>1, <3>2, <3>3, ConsumersAssumption, RetriesType
    <2> QED
      BY <2>1, <2>2 DEF Throw, GoOn
  <1>8. CountedFailures'
    <2>1. UNCHANGED <<ready, retrying, unacked>>
      BY DEF Throw, brokerVars
    <2>2. \A d \in unacked : d.copy \in Copy
      BY DEF TypeOK, Delivery
    <2> QED
      BY <1>3, <1>7, <2>1, <2>2 DEF CountInv, CountedFailures
  <1> QED
    BY <1>6, <1>8 DEF CountInv

LEMMA RefuseCounts ==
    ASSUME TypeOK, CountInv, NEW h \in handlers, Refuse(h)
    PROVE  CountInv'
  <1>0. h \in HandlerRecord
    BY DEF TypeOK
  <1>1. UNCHANGED <<ready, retrying, dead, unacked, failed>> /\ refused' = refused \cup {h.copy.msg}
    BY DEF Refuse, brokerVars
  <1>2. \A c : Tried(c)' <=> Tried(c)
    BY <1>1 DEF Tried
  <1>3. handlers' \subseteq handlers \cup {[h EXCEPT !.at = "dead"]}
    BY DEF Refuse, GoOn
  <1>4. DeadWasTried'
    BY <1>1 DEF CountInv, DeadWasTried
  <1>5. CountedFailures'
    BY <1>0, <1>1, <1>2, <1>3 DEF CountInv, CountedFailures, HandlerRecord
  <1> QED
    BY <1>4, <1>5 DEF CountInv

LEMMA RepublishCounts ==
    ASSUME TypeOK, CountInv, NEW h \in handlers, Republish(h)
    PROVE  CountInv'
  <1> DEFINE c == Recounted(h.copy)
  <1>0. /\ h \in HandlerRecord /\ h.copy \in Copy /\ h.copy.count \in Nat
        /\ c.msg = h.copy.msg /\ c.count = h.copy.count + 1
    BY ConsumersAssumption, RetriesType DEF TypeOK, HandlerRecord, Copy, Recounted
  <1>1. UNCHANGED <<ready, unacked, failed, refused>>
    BY DEF Republish, history
  <1>2. \A e : Tried(e)' <=> Tried(e)
    BY <1>1 DEF Tried
  <1>3. \A e \in Copy : retrying[e] \in Nat /\ dead[e] \in Nat /\ failed[e.msg] \in Nat
    BY DEF TypeOK, Bags, Copy
  <1>4. \A k \in handlers' : k \in handlers \/ (k.copy = h.copy /\ k.at = "ack")
    BY <1>0 DEF Republish, HandlerRecord
  <1>5. \A e \in Copy : retrying'[e] > 0 => retrying[e] > 0 \/ (e = c /\ h.at = "retry")
    BY <1>3 DEF Republish, More, TypeOK, Bags
  <1>6. \A e \in Copy : dead'[e] > 0 => dead[e] > 0 \/ (e = c /\ h.at = "dead")
    BY <1>3 DEF Republish, More, TypeOK, Bags
  <1>7. h.at = "retry" => Tried(c)
    BY <1>0, <1>3, ConsumersAssumption, RetriesType DEF CountInv, CountedFailures, Tried
  <1>8. DeadWasTried'
    BY <1>0, <1>1, <1>6 DEF CountInv, CountedFailures, DeadWasTried
  <1>9. CountedFailures'
    <2>1. \A e \in Copy : ready'[e] > 0 \/ retrying'[e] > 0 => Tried(e)'
      BY <1>1, <1>2, <1>5, <1>7 DEF CountInv, CountedFailures
    <2>2. \A d \in unacked' : Tried(d.copy)'
      BY <1>1, <1>2 DEF CountInv, CountedFailures
    <2>3. \A k \in handlers' :
             /\ Tried(k.copy)'
             /\ k.at = "retry" => k.copy.count < Retries /\ k.copy.count < failed'[k.copy.msg]
             /\ k.at = "dead" => k.copy.msg \in refused' \/ failed'[k.copy.msg] > Retries
      BY <1>1, <1>2, <1>4 DEF CountInv, CountedFailures
    <2> QED
      BY <2>1, <2>2, <2>3 DEF CountedFailures
  <1> QED
    BY <1>8, <1>9 DEF CountInv

LEMMA BrokerCounts ==
    ASSUME TypeOK, CountInv, Broker
    PROVE  CountInv'
  <1>0. \A c \in Copy : ready[c] \in Nat /\ retrying[c] \in Nat /\ failed[c.msg] \in Nat
    BY DEF TypeOK, Bags, Copy
  <1>1. ASSUME UNCHANGED <<dead, failed, refused>>,
               \A c \in Copy : ready'[c] > 0 \/ retrying'[c] > 0 => Tried(c),
               \A d \in unacked' : Tried(d.copy),
               \A h \in handlers' : h \in handlers \/ (h.at = "run" /\ Tried(h.copy))
        PROVE  CountInv'
    <2>1. \A c : Tried(c)' <=> Tried(c)
      BY <1>1 DEF Tried
    <2>2. DeadWasTried'
      BY <1>1 DEF CountInv, DeadWasTried
    <2>3. CountedFailures'
      BY <1>1, <2>1 DEF CountInv, CountedFailures
    <2> QED
      BY <2>2, <2>3 DEF CountInv
  <1>2. CASE \E m \in Message : Arrive(m)
    <2>1. PICK m \in Message : Arrive(m)
      BY <1>2
    <2>2. Tried([msg |-> m, count |-> 0])
      BY ConsumersAssumption, RetriesType DEF Tried, TypeOK
    <2>3. \A c \in Copy : ready'[c] > 0 => ready[c] > 0 \/ c = [msg |-> m, count |-> 0]
      BY <1>0, <2>1 DEF Arrive, More, TypeOK, Bags
    <2> QED
      BY <1>1, <2>1, <2>2, <2>3 DEF Arrive, history, CountInv, CountedFailures
  <1>3. CASE \E c \in Copy : Expire(c)
    <2>1. PICK c \in Copy : Expire(c)
      BY <1>3
    <2>2. \A e \in Copy : ready'[e] > 0 \/ retrying'[e] > 0 => ready[e] > 0 \/ retrying[e] > 0
      BY <1>0, <2>1 DEF Expire, More, Fewer, TypeOK, Bags
    <2> QED
      BY <1>1, <2>1, <2>2 DEF Expire, history, CountInv, CountedFailures
  <1>4. CASE \E c \in Copy : Deliver(c)
    <2>1. PICK c \in Copy : Deliver(c)
      BY <1>4
    <2>2. Tried(c)
      BY <2>1 DEF Deliver, CountInv, CountedFailures
    <2>3. \A e \in Copy : ready'[e] > 0 => ready[e] > 0
      BY <1>0, <2>1 DEF Deliver, Fewer, TypeOK, Bags
    <2> QED
      BY <1>1, <2>1, <2>2, <2>3 DEF Deliver, history, CountInv, CountedFailures
  <1> QED
    BY <1>2, <1>3, <1>4 DEF Broker

LEMMA CountStep ==
    ASSUME TypeOK, CountInv, [Next]_vars
    PROVE  CountInv'
  <1>0. ASSUME UNCHANGED <<ready, retrying, dead, unacked, handlers, failed, refused>>
        PROVE  CountInv'
    <2>1. \A c : Tried(c)' <=> Tried(c)
      BY <1>0 DEF Tried
    <2> QED
      BY <1>0, <2>1 DEF CountInv, CountedFailures, DeadWasTried
  <1>1. CASE UNCHANGED vars
    BY <1>0, <1>1 DEF vars, brokerVars, history
  <1>2. ASSUME NEW h \in handlers, HandlerStep(h)
        PROVE  CountInv'
    <2>1. CASE Succeed(h)
      BY <2>1, SettleCounts DEF Succeed, Ack
    <2>2. CASE RepublishFails(h)
      BY <2>2, SettleCounts DEF RepublishFails, Nack, history
    <2>3. CASE AckRepublished(h)
      BY <2>3, SettleCounts DEF AckRepublished, Ack, history
    <2> QED
      BY <1>2, <2>1, <2>2, <2>3, ThrowCounts, RefuseCounts, RepublishCounts DEF HandlerStep
  <1>3. CASE Process
    <2>1. CASE Drop
      BY <2>1, LinkLostCounts DEF Drop, history
    <2>2. CASE Die
      BY <2>2, DieCounts
    <2>3. CASE ReconnectFails /\ ~Die
      BY <1>0, <2>3 DEF ReconnectFails, brokerVars, history
    <2>4. CASE Reconnect \/ (\E q \in Queue : Consume(q)) \/ Close \/ Restart
      BY <1>0, <2>4 DEF Reconnect, Consume, Close, Restart, brokerVars, history
    <2> QED
      BY <1>3, <2>1, <2>2, <2>3, <2>4 DEF Process, Exit, Crash
  <1> QED
    BY <1>1, <1>2, <1>3, BrokerCounts DEF Next

-----------------------------------------------------------------------------
(* Channels, tags and prefetch.                                            *)

\* Deliveries and handlers go, none comes.
LEMMA ShrinkDeliveries ==
    ASSUME TypeOK, Deliveries, UNCHANGED <<channel, tag>>,
           unacked' \subseteq unacked, handlers' \subseteq handlers,
           link' # "open" => unacked' = {} /\ \A h \in handlers' : h.at = "run",
           link' = "down" => handlers' = {}
    PROVE  Deliveries'
  BY DEF Deliveries

LEMMA LinkLostDeliveries ==
    ASSUME TypeOK, Deliveries, NEW ending, LinkLost(ending)
    PROVE  Deliveries'
  BY ShrinkDeliveries DEF LinkLost

LEMMA DieDeliveries ==
    ASSUME TypeOK, Deliveries, Die
    PROVE  Deliveries'
  BY ShrinkDeliveries DEF Die

LEMMA SettleDeliveries ==
    ASSUME TypeOK, Deliveries, NEW h \in handlers, NEW again \in BOOLEAN, Settle(h, again)
    PROVE  Deliveries'
  <1>1. CASE LinkLost({h})
    BY <1>1, LinkLostDeliveries
  <1>2. CASE link # "open" /\ handlers' = handlers \ {h} /\ UNCHANGED <<brokerVars, linkVars>>
    <2>1. UNCHANGED <<unacked, link, channel, tag>>
      BY <1>2 DEF brokerVars, linkVars
    <2> QED
      BY <1>2, <2>1, ShrinkDeliveries DEF Deliveries
  <1>3. ASSUME NEW d \in unacked, link = "open", unacked' = unacked \ {d},
               handlers' = handlers \ {h}, UNCHANGED linkVars
        PROVE  Deliveries'
    <2>1. UNCHANGED <<link, channel, tag>>
      BY <1>3 DEF linkVars
    <2> QED
      BY <1>3, <2>1, ShrinkDeliveries
  <1> QED
    BY <1>1, <1>2, <1>3 DEF Settle

\* A handler goes on under another "at" on an open link, or ends.
LEMMA ReplaceDeliveries ==
    ASSUME TypeOK, Deliveries, NEW h \in handlers, NEW k, k.channel = h.channel, k.tag = h.tag,
           \/ handlers' = handlers \ {h}
           \/ link = "open" /\ handlers' = (handlers \ {h}) \cup {k},
           UNCHANGED <<unacked, link, channel, tag>>
    PROVE  Deliveries'
  BY DEF Deliveries

LEMMA HandlerDeliveries ==
    ASSUME TypeOK, Deliveries, NEW h \in handlers, HandlerStep(h)
    PROVE  Deliveries'
  <1>0. h \in HandlerRecord
    BY DEF TypeOK
  <1>1. CASE Succeed(h)
    BY <1>1, SettleDeliveries DEF Succeed, Ack
  <1>2. CASE RepublishFails(h)
    BY <1>2, SettleDeliveries DEF RepublishFails, Nack
  <1>3. CASE AckRepublished(h)
    BY <1>3, SettleDeliveries DEF AckRepublished, Ack
  <1>4. ASSUME NEW exchange \in {"retry", "dead"}, GoOn(h, exchange), UNCHANGED <<brokerVars, linkVars>>
        PROVE  Deliveries'
    <2> DEFINE k == [h EXCEPT !.at = exchange]
    <2>1. k.channel = h.channel /\ k.tag = h.tag
      BY <1>0 DEF HandlerRecord
    <2>2. handlers' = handlers \ {h} \/ (link = "open" /\ handlers' = (handlers \ {h}) \cup {k})
      BY <1>4 DEF GoOn
    <2>3. UNCHANGED <<unacked, link, channel, tag>>
      BY <1>4 DEF brokerVars, linkVars
    <2> HIDE DEF k
    <2> QED
      BY <2>1, <2>2, <2>3, ReplaceDeliveries
  <1>5. CASE Throw(h)
    BY <1>4, <1>5 DEF Throw
  <1>6. CASE Refuse(h)
    BY <1>4, <1>6 DEF Refuse
  <1>7. CASE Republish(h)
    <2> DEFINE k == [h EXCEPT !.at = "ack"]
    <2>1. k.channel = h.channel /\ k.tag = h.tag
      BY <1>0 DEF HandlerRecord
    <2>2. link = "open" /\ handlers' = (handlers \ {h}) \cup {k}
      BY <1>7 DEF Republish, Deliveries
    <2>3. UNCHANGED <<unacked, link, channel, tag>>
      BY <1>7 DEF Republish, linkVars
    <2> HIDE DEF k
    <2> QED
      BY <2>1, <2>2, <2>3, ReplaceDeliveries
  <1> QED
    BY <1>1, <1>2, <1>3, <1>5, <1>6, <1>7 DEF HandlerStep

LEMMA DeliverDeliveries ==
    ASSUME TypeOK, Deliveries, NEW c \in Copy, Deliver(c)
    PROVE  Deliveries'
  <1> DEFINE d == [tag |-> tag + 1, copy |-> c]
             h == [channel |-> channel, tag |-> tag + 1, copy |-> c, at |-> "run"]
  <1>1. /\ link = "open" /\ link' = "open" /\ channel' = channel /\ tag' = tag + 1
        /\ unacked' = unacked \cup {d} /\ handlers' = handlers \cup {h}
        /\ \A e \in unacked : QueueOf[e.copy.msg] # QueueOf[c.msg]
    BY DEF Deliver
  <1>2. /\ d.tag = tag + 1 /\ d.copy = c
        /\ h.channel = channel /\ h.tag = tag + 1 /\ h.copy = c /\ h.at = "run"
    OBVIOUS
  <1>3. tag \in Nat /\ channel \in Nat /\ \A e \in unacked : e.tag \in Nat
    BY DEF TypeOK, Delivery
  <1>4. \A k \in handlers : k.tag \in Nat /\ k.channel \in Nat
    BY DEF TypeOK, HandlerRecord
  <1> HIDE DEF d, h
  <1>5. \A e \in unacked' : e.tag <= tag'
    BY <1>1, <1>2, <1>3 DEF Deliveries
  <1>6. \A e, f \in unacked' : e.tag = f.tag \/ QueueOf[e.copy.msg] = QueueOf[f.copy.msg] => e = f
    <2>1. \A e \in unacked : e.tag # d.tag
      BY <1>2, <1>3 DEF Deliveries
    <2>2. \A e \in unacked : QueueOf[e.copy.msg] # QueueOf[d.copy.msg]
      BY <1>1, <1>2
    <2> QED
      BY <1>1, <2>1, <2>2 DEF Deliveries
  <1>7. \A k \in handlers' : k.channel <= channel' /\ (k.channel = channel' => k.tag <= tag')
    BY <1>1, <1>2, <1>3, <1>4 DEF Deliveries
  <1>8. \A k, l \in handlers' : k.channel = l.channel /\ k.tag = l.tag => k = l
    <2>1. \A k \in handlers : ~(k.channel = h.channel /\ k.tag = h.tag)
      BY <1>2, <1>3, <1>4 DEF Deliveries
    <2> QED
      BY <1>1, <2>1 DEF Deliveries
  <1> QED
    BY <1>1, <1>5, <1>6, <1>7, <1>8 DEF Deliveries

LEMMA DeliveriesStep ==
    ASSUME TypeOK, Deliveries, [Next]_vars
    PROVE  Deliveries'
  <1>0. ASSUME UNCHANGED <<unacked, handlers, channel, tag>>,
               link' = link \/ (link # "open" /\ link' \in {"lost", "cut"})
        PROVE  Deliveries'
    BY <1>0 DEF Deliveries
  <1>1. CASE UNCHANGED vars
    BY <1>0, <1>1 DEF vars, brokerVars, linkVars
  <1>2. CASE Broker
    BY <1>0, <1>2, DeliverDeliveries DEF Broker, Arrive, Expire, linkVars
  <1>3. CASE Process
    <2>1. CASE Drop
      BY <2>1, LinkLostDeliveries DEF Drop
    <2>2. CASE Die
      BY <2>2, DieDeliveries
    <2>3. CASE ReconnectFails /\ ~Die
      BY <1>0, <2>3 DEF ReconnectFails, brokerVars
    <2>4. CASE (\E q \in Queue : Consume(q)) \/ Close
      BY <1>0, <2>4 DEF Consume, Close, brokerVars
    <2>5. CASE Reconnect
      <3>1. channel \in Nat /\ \A h \in handlers : h.channel \in Nat
        BY DEF TypeOK, HandlerRecord
      <3> QED
        BY <2>5, <3>1 DEF Reconnect, Deliveries, brokerVars
    <2>6. CASE Restart
      BY <2>6 DEF Restart, Deliveries, brokerVars
    <2> QED
      BY <1>3, <2>1, <2>2, <2>3, <2>4, <2>5, <2>6 DEF Process, Exit, Crash
  <1> QED
    BY <1>1, <1>2, <1>3, HandlerDeliveries DEF Next

-----------------------------------------------------------------------------
(* What the broker holds, and the handlers that hold it up.                *)

HoldInv == OwnDeliveries /\ OneAtATime /\ HeldUnlessStrayed

\* Queues that only grow keep what they have.
LEMMA QueuedStays ==
    ASSUME TypeOK, \A c \in Copy : ready'[c] \in Nat /\ ready'[c] >= ready[c],
           UNCHANGED <<retrying, dead>>, NEW m, Queued(m)
    PROVE  Queued(m)'
  BY DEF Queued, TypeOK, Bags

\* A delivery that returns to its queue is held.
LEMMA RequeueHolds ==
    ASSUME TypeOK, NEW S \in SUBSET unacked, Requeue(S), UNCHANGED <<retrying, dead>>,
           handled \subseteq handled', unacked' = unacked \ S, NEW m, Held(m)
    PROVE  Held(m)'
  <1>1. /\ \A c \in Copy : ready[c] \in Nat /\ ready'[c] \in Nat /\ ready'[c] >= ready[c]
        /\ \A d \in S : d.copy \in Copy /\ ready'[d.copy] > 0
    BY RequeueGrows DEF TypeOK, Bags, Delivery
  <1>2. CASE m \in handled
    BY <1>2 DEF Held
  <1>3. CASE Queued(m)
    BY <1>1, <1>3, QueuedStays DEF Held
  <1>4. CASE \E d \in unacked : d.copy.msg = m
    <2>1. PICK d \in unacked : d.copy.msg = m
      BY <1>4
    <2>2. CASE d \in S
      BY <1>1, <2>1, <2>2 DEF Held, Queued
    <2>3. CASE d \notin S
      BY <2>1, <2>3 DEF Held
    <2> QED
      BY <2>2, <2>3
  <1> QED
    BY <1>2, <1>3, <1>4 DEF Held

\* The connection closes or the process ends.
LEMMA UnlinkHolds ==
    ASSUME TypeOK, HoldInv, Requeue(unacked), UNCHANGED <<retrying, dead, arrived>>,
           unacked' = {}, handlers' \subseteq handlers, link' # "open",
           handled \subseteq handled', strayed \subseteq strayed'
    PROVE  HoldInv'
  <1>1. \A m : Held(m) => Held(m)'
    BY RequeueHolds
  <1>2. strayed' = {} => strayed = {}
    OBVIOUS
  <1>3. HeldUnlessStrayed'
    BY <1>1, <1>2 DEF HoldInv, HeldUnlessStrayed
  <1>4. OwnDeliveries'
    BY DEF OwnDeliveries
  <1>5. OneAtATime'
    BY <1>2 DEF HoldInv, OneAtATime
  <1> QED
    BY <1>3, <1>4, <1>5 DEF HoldInv

\* Handler h settles the delivery d.
LEMMA SettleOwnHolds ==
    ASSUME TypeOK, Deliveries, HoldInv, NEW h \in handlers, NEW d \in unacked,
           d.tag = h.tag, link = "open", unacked' = unacked \ {d}, handlers' = handlers \ {h},
           UNCHANGED <<retrying, dead, arrived, channel, link>>,
           Requeue({d}) \/ (UNCHANGED ready /\ (h.copy.msg \in handled' \/ h.at = "ack")),
           handled \subseteq handled', strayed \subseteq strayed',
           h.channel # channel => h.copy.msg \in strayed'
    PROVE  HoldInv'
  <1> SUFFICES ASSUME strayed' = {}
               PROVE  HoldInv'
    BY DEF HoldInv, OwnDeliveries, OneAtATime, HeldUnlessStrayed
  <1>1. strayed = {} /\ h.channel = channel
    OBVIOUS
  <1>2. d = [tag |-> h.tag, copy |-> h.copy]
    BY <1>1 DEF HoldInv, OwnDeliveries, Deliveries
  <1>3. d.copy = h.copy
    BY <1>2
  <1>4. \A c \in Copy : ready[c] \in Nat /\ ready'[c] \in Nat /\ ready'[c] >= ready[c]
    <2>1. CASE Requeue({d})
      BY <2>1, RequeueGrows DEF TypeOK, Bags
    <2>2. CASE UNCHANGED ready
      BY <2>2 DEF TypeOK, Bags
    <2> QED
      BY <2>1, <2>2
  <1>5. \A m : Queued(m) => Queued(m)'
    BY <1>4, QueuedStays
  <1>6. \A m : Held(m) => Held(m)'
    <2> SUFFICES ASSUME NEW m, Held(m)
                 PROVE  Held(m)'
      OBVIOUS
    <2>1. CASE Requeue({d})
      BY <2>1, RequeueHolds
    <2>2. CASE UNCHANGED ready /\ (h.copy.msg \in handled' \/ h.at = "ack")
      <3>1. CASE m \in handled \/ Queued(m)
        BY <1>5, <3>1 DEF Held
      <3>2. CASE \E e \in unacked \ {d} : e.copy.msg = m
        BY <3>2 DEF Held
      <3>3. CASE m = h.copy.msg
        <4>1. h.at = "ack" => m \in handled \/ Queued(m)
          BY <1>1, <3>3 DEF HoldInv, OwnDeliveries
        <4> QED
          BY <1>5, <2>2, <3>3, <4>1 DEF Held
      <3> QED
        BY <1>3, <3>1, <3>2, <3>3 DEF Held
    <2> QED
      BY <2>1, <2>2
  <1>7. HeldUnlessStrayed'
    BY <1>1, <1>6 DEF HoldInv, HeldUnlessStrayed
  <1>8. OneAtATime'
    BY <1>1 DEF HoldInv, OneAtATime
  <1>9. OwnDeliveries'
    <2> SUFFICES ASSUME NEW k \in handlers \ {h}, k.channel = channel
                 PROVE  /\ [tag |-> k.tag, copy |-> k.copy] \in unacked'
                        /\ k.at = "ack" => k.copy.msg \in handled' \/ Queued(k.copy.msg)'
      BY DEF OwnDeliveries
    <2>1. k.tag # h.tag
      BY <1>1 DEF Deliveries
    <2>2. /\ [tag |-> k.tag, copy |-> k.copy] \in unacked
          /\ k.at = "ack" => k.copy.msg \in handled \/ Queued(k.copy.msg)
      BY <1>1 DEF HoldInv, OwnDeliveries
    <2>3. [tag |-> k.tag, copy |-> k.copy] # d
      BY <2>1
    <2> QED
      BY <1>5, <2>2, <2>3
  <1> QED
    BY <1>7, <1>8, <1>9 DEF HoldInv

LEMMA SettleHolds ==
    ASSUME TypeOK, Deliveries, HoldInv, NEW h \in handlers, NEW again \in BOOLEAN,
           Settle(h, again), handled \subseteq handled',
           again = TRUE \/ h.copy.msg \in handled' \/ h.at = "ack"
    PROVE  HoldInv'
  <1>1. strayed \subseteq strayed' /\ (link = "open" /\ h.channel # channel => h.copy.msg \in strayed')
    BY DEF Settle
  <1>2. CASE LinkLost({h})
    BY <1>1, <1>2, UnlinkHolds DEF LinkLost
  <1>3. CASE link # "open" /\ handlers' = handlers \ {h} /\ UNCHANGED <<brokerVars, linkVars>>
    <2>1. UNCHANGED <<ready, retrying, dead, unacked, arrived, link>>
      BY <1>3 DEF brokerVars, linkVars
    <2>2. \A m : Held(m) => Held(m)'
      BY <2>1 DEF Held, Queued
    <2>3. strayed' = {} => strayed = {}
      BY <1>1
    <2> QED
      BY <1>3, <2>1, <2>2, <2>3 DEF HoldInv, OwnDeliveries, OneAtATime, HeldUnlessStrayed
  <1>4. ASSUME NEW d \in unacked, link = "open", d.tag = h.tag, unacked' = unacked \ {d},
               IF again THEN Requeue({d}) ELSE UNCHANGED ready,
               handlers' = handlers \ {h}, UNCHANGED <<retrying, dead, arrived, linkVars>>
        PROVE  HoldInv'
    <2>1. UNCHANGED <<channel, link>>
      BY <1>4 DEF linkVars
    <2>2. Requeue({d}) \/ (UNCHANGED ready /\ (h.copy.msg \in handled' \/ h.at = "ack"))
      BY <1>4
    <2> QED
      BY <1>1, <1>4, <2>1, <2>2, SettleOwnHolds
  <1> QED
    BY <1>2, <1>3, <1>4 DEF Settle

\* A handler goes on under another "at"; what RabbitMQ holds only grows.
LEMMA ReplaceHolds ==
    ASSUME TypeOK, Deliveries, HoldInv, NEW h \in handlers, NEW k,
           k.channel = h.channel, k.tag = h.tag, k.copy = h.copy,
           handlers' \subseteq (handlers \ {h}) \cup {k},
           UNCHANGED <<unacked, arrived, link, channel, handled, strayed>>,
           \A m : Queued(m) => Queued(m)',
           k.at = "ack" => Queued(h.copy.msg)'
    PROVE  HoldInv'
  <1>1. HeldUnlessStrayed'
    BY DEF HoldInv, HeldUnlessStrayed, Held
  <1>2. OneAtATime'
    BY DEF HoldInv, OneAtATime
  <1>3. OwnDeliveries'
    BY DEF HoldInv, OwnDeliveries
  <1> QED
    BY <1>1, <1>2, <1>3 DEF HoldInv

LEMMA HandlerHolds ==
    ASSUME TypeOK, CountInv, Deliveries, HoldInv, NEW h \in handlers, HandlerStep(h)
    PROVE  HoldInv'
  <1>0. h \in HandlerRecord /\ h.copy \in Copy /\ h.copy.count \in Nat
    BY ConsumersAssumption, RetriesType DEF TypeOK, HandlerRecord, Copy
  <1>1. CASE Succeed(h)
    BY <1>1, SettleHolds DEF Succeed, Ack
  <1>2. CASE RepublishFails(h)
    BY <1>2, SettleHolds DEF RepublishFails, Nack, history
  <1>3. CASE AckRepublished(h)
    BY <1>3, SettleHolds DEF AckRepublished, Ack, history
  <1>4. ASSUME NEW exchange \in {"retry", "dead"}, GoOn(h, exchange),
               UNCHANGED <<brokerVars, linkVars, handled, strayed>>
        PROVE  HoldInv'
    <2> DEFINE k == [h EXCEPT !.at = exchange]
    <2>1. k.channel = h.channel /\ k.tag = h.tag /\ k.copy = h.copy /\ k.at # "ack"
      BY <1>0 DEF HandlerRecord
    <2>2. handlers' \subseteq (handlers \ {h}) \cup {k}
      BY <1>4 DEF GoOn
    <2>3. UNCHANGED <<ready, retrying, dead, unacked, arrived, link, channel, handled, strayed>>
      BY <1>4 DEF brokerVars, linkVars
    <2>4. \A m : Queued(m) => Queued(m)'
      BY <2>3 DEF Queued
    <2> HIDE DEF k
    <2> QED
      BY <2>1, <2>2, <2>3, <2>4, ReplaceHolds
  <1>5. CASE Throw(h)
    BY <1>4, <1>5 DEF Throw
  <1>6. CASE Refuse(h)
    BY <1>4, <1>6 DEF Refuse
  <1>7. CASE Republish(h)
    <2> DEFINE k == [h EXCEPT !.at = "ack"]
               c == Recounted(h.copy)
    <2>1. k.channel = h.channel /\ k.tag = h.tag /\ k.copy = h.copy
      BY <1>0 DEF HandlerRecord
    <2>2. handlers' \subseteq (handlers \ {h}) \cup {k}
      BY <1>7 DEF Republish
    <2>3. UNCHANGED <<ready, unacked, arrived, link, channel, handled, strayed>>
      BY <1>7 DEF Republish, linkVars, history
    <2>4. h.copy.count <= Retries
      BY DEF CountInv, CountedFailures, Tried
    <2>5. c \in Copy /\ c.msg = h.copy.msg
      BY <1>0, <2>4, ConsumersAssumption, RetriesType DEF Copy, Recounted
    <2>6. \A e \in Copy : retrying[e] \in Nat /\ dead[e] \in Nat
      BY DEF TypeOK, Bags
    <2> HIDE DEF c
    <2>7. /\ \A e \in Copy : retrying[e] > 0 => retrying'[e] > 0
          /\ \A e \in Copy : dead[e] > 0 => dead'[e] > 0
          /\ retrying'[c] > 0 \/ dead'[c] > 0
      BY <1>7, <2>5, <2>6 DEF Republish, More, TypeOK, Bags, c
    <2>8. \A m : Queued(m) => Queued(m)'
      BY <2>3, <2>7 DEF Queued
    <2>9. Queued(h.copy.msg)'
      BY <2>5, <2>7 DEF Queued
    <2> HIDE DEF k
    <2> QED
      BY <2>1, <2>2, <2>3, <2>8, <2>9, ReplaceHolds
  <1> QED
    BY <1>1, <1>2, <1>3, <1>5, <1>6, <1>7 DEF HandlerStep

LEMMA DeliverHolds ==
    ASSUME TypeOK, Deliveries, HoldInv, NEW c \in Copy, Deliver(c)
    PROVE  HoldInv'
  <1> DEFINE d == [tag |-> tag + 1, copy |-> c]
             h == [channel |-> channel, tag |-> tag + 1, copy |-> c, at |-> "run"]
  <1>1. /\ link = "open" /\ link' = "open" /\ channel' = channel
        /\ unacked' = unacked \cup {d} /\ handlers' = handlers \cup {h}
        /\ \A e \in unacked : QueueOf[e.copy.msg] # QueueOf[c.msg]
        /\ UNCHANGED <<retrying, dead, arrived, handled, strayed>>
    BY DEF Deliver, history
  <1>2. /\ d.copy = c /\ d = [tag |-> h.tag, copy |-> h.copy]
        /\ h.channel = channel /\ h.copy = c /\ h.at = "run"
    OBVIOUS
  <1>3. \A e \in Copy : ready[e] \in Nat /\ (e # c => ready'[e] = ready[e])
    BY DEF Deliver, Fewer, TypeOK, Bags
  <1> HIDE DEF d, h
  <1>4. \A m : Queued(m) => Queued(m)' \/ m = c.msg
    BY <1>1, <1>3 DEF Queued
  <1>5. HeldUnlessStrayed'
    <2>1. \A m : Held(m) => Held(m)'
      BY <1>1, <1>2, <1>4 DEF Held
    <2> QED
      BY <1>1, <2>1 DEF HoldInv, HeldUnlessStrayed
  <1>6. \A k \in handlers : strayed = {} /\ k.channel = channel =>
            QueueOf[k.copy.msg] # QueueOf[c.msg]
    BY <1>1 DEF HoldInv, OwnDeliveries
  <1>7. OneAtATime'
    BY <1>1, <1>2, <1>6 DEF HoldInv, OneAtATime
  <1>8. OwnDeliveries'
    <2> SUFFICES ASSUME strayed = {}, NEW k \in handlers', k.channel = channel
                 PROVE  /\ [tag |-> k.tag, copy |-> k.copy] \in unacked'
                        /\ k.at = "ack" => k.copy.msg \in handled' \/ Queued(k.copy.msg)'
      BY <1>1 DEF OwnDeliveries
    <2>1. CASE k = h
      BY <1>1, <1>2, <2>1
    <2>2. CASE k \in handlers
      BY <1>1, <1>4, <1>6, <2>2 DEF HoldInv, OwnDeliveries
    <2> QED
      BY <1>1, <2>1, <2>2
  <1> QED
    BY <1>5, <1>7, <1>8 DEF HoldInv

LEMMA HoldStep ==
    ASSUME TypeOK, CountInv, Deliveries, HoldInv, [Next]_vars
    PROVE  HoldInv'
  <1>0. ASSUME UNCHANGED <<unacked, handlers, handled, strayed, channel>>,
               link' = link \/ (link # "open" /\ link' # "open"),
               \A m : Queued(m) => Queued(m)',
               \A m \in arrived' \ arrived : Queued(m)'
        PROVE  HoldInv'
    <2>1. HeldUnlessStrayed'
      BY <1>0 DEF HoldInv, HeldUnlessStrayed, Held
    <2>2. OwnDeliveries' /\ OneAtATime'
      BY <1>0 DEF HoldInv, OwnDeliveries, OneAtATime
    <2> QED
      BY <2>1, <2>2 DEF HoldInv
  <1>1. ASSUME UNCHANGED <<brokerVars, handlers, handled, strayed, channel>>,
               link' = link \/ (link # "open" /\ link' # "open")
        PROVE  HoldInv'
    <2>1. \A m : Queued(m) => Queued(m)'
      BY <1>1 DEF Queued, brokerVars
    <2> QED
      BY <1>0, <1>1, <2>1 DEF brokerVars
  <1>2. CASE UNCHANGED vars
    <2>1. UNCHANGED <<brokerVars, handlers, handled, strayed, channel, link>>
      BY <1>2 DEF vars, linkVars, history
    <2> QED
      BY <1>1, <2>1
  <1>3. CASE Broker
    <2>0. \A c \in Copy : ready[c] \in Nat /\ retrying[c] \in Nat
      BY DEF TypeOK, Bags
    <2>1. CASE \E m \in Message : Arrive(m)
      <3>1. PICK m \in Message : Arrive(m)
        BY <2>1
      <3> DEFINE c == [msg |-> m, count |-> 0]
      <3>2. c \in Copy /\ c.msg = m
        BY ConsumersAssumption, RetriesType DEF Copy
      <3> HIDE DEF c
      <3>3. ready'[c] > 0 /\ \A e \in Copy : ready[e] > 0 => ready'[e] > 0
        BY <2>0, <3>1, <3>2 DEF Arrive, More, TypeOK, Bags, c
      <3>4. \A n : Queued(n) => Queued(n)'
        BY <3>1, <3>3 DEF Arrive, Queued
      <3>5. Queued(m)'
        BY <3>2, <3>3 DEF Queued
      <3>6. /\ UNCHANGED <<unacked, handlers, handled, strayed, channel, link>>
            /\ arrived' \ arrived \subseteq {m}
        BY <3>1 DEF Arrive, linkVars, history
      <3> QED
        BY <1>0, <3>4, <3>5, <3>6
    <2>2. CASE \E c \in Copy : Expire(c)
      <3>1. PICK c \in Copy : Expire(c)
        BY <2>2
      <3>2. \A e \in Copy : ready[e] > 0 \/ retrying[e] > 0 => ready'[e] > 0 \/ retrying'[e] > 0
        BY <2>0, <3>1 DEF Expire, More, Fewer, TypeOK, Bags
      <3>3. \A n : Queued(n) => Queued(n)'
        BY <3>1, <3>2 DEF Expire, Queued
      <3>4. UNCHANGED <<unacked, handlers, handled, strayed, channel, link, arrived>>
        BY <3>1 DEF Expire, linkVars, history
      <3> QED
        BY <1>0, <3>3, <3>4
    <2> QED
      BY <1>3, <2>1, <2>2, DeliverHolds DEF Broker
  <1>4. CASE Process
    <2>1. CASE Drop
      BY <2>1, UnlinkHolds DEF Drop, LinkLost, history
    <2>2. CASE Die
      BY <2>2, UnlinkHolds DEF Die, history
    <2>3. CASE ReconnectFails /\ ~Die
      BY <1>1, <2>3 DEF ReconnectFails, history
    <2>4. CASE (\E q \in Queue : Consume(q)) \/ Close
      <3>1. UNCHANGED <<brokerVars, handlers, handled, strayed, channel>>
        BY <2>4 DEF Consume, Close, history
      <3>2. link' = link \/ (link # "open" /\ link' # "open")
        BY <2>4 DEF Consume, Close
      <3> QED
        BY <1>1, <3>1, <3>2
    <2>5. ASSUME UNCHANGED <<brokerVars, handlers, handled, strayed>>,
                 \A h \in handlers : h.channel # channel'
          PROVE  HoldInv'
      <3>1. \A m : Held(m) => Held(m)'
        BY <2>5 DEF Held, Queued, brokerVars
      <3> QED
        BY <2>5, <3>1 DEF HoldInv, HeldUnlessStrayed, OwnDeliveries, OneAtATime, brokerVars
    <2>6. CASE Reconnect
      <3>1. channel \in Nat /\ \A h \in handlers : h.channel \in Nat /\ h.channel <= channel
        BY DEF TypeOK, HandlerRecord, Deliveries
      <3> QED
        BY <2>5, <2>6, <3>1 DEF Reconnect, history
    <2>7. CASE Restart
      BY <2>5, <2>7 DEF Restart, Deliveries, history
    <2> QED
      BY <1>4, <2>1, <2>2, <2>3, <2>4, <2>6, <2>7 DEF Process, Exit, Crash
  <1> QED
    BY <1>2, <1>3, <1>4, HandlerHolds DEF Next

-----------------------------------------------------------------------------
(* The theorems.                                                           *)

LEMMA InvInit == Init => ConsumersInv
  <1> SUFFICES ASSUME Init
               PROVE  ConsumersInv
    OBVIOUS
  <1>1. TypeOK
    <2>1. ready \in Bags /\ retrying \in Bags /\ dead \in Bags
      BY DEF Init, Bags, Empty
    <2>2. closing \in BOOLEAN
      BY Zenon DEF Init
    <2>3. /\ link \in Links /\ channel \in Nat /\ tag \in Nat
          /\ attempts \in 0..MaxReconnects /\ faults \in 0..MaxFaults
          /\ failed \in [Message -> Nat]
      BY ConsumersAssumption, RetriesType DEF Init, Links
    <2>4. /\ unacked = {} /\ arrived = {} /\ consuming = Queue /\ awaited = {}
          /\ handlers = {} /\ handled = {} /\ refused = {} /\ strayed = {}
      BY DEF Init
    <2> QED
      BY <2>1, <2>2, <2>3, <2>4 DEF TypeOK
  <1>2. CountedFailures /\ DeadWasTried
    BY DEF Init, CountedFailures, DeadWasTried, Empty
  <1>3. Deliveries
    BY DEF Init, Deliveries
  <1>4. OwnDeliveries /\ OneAtATime /\ HeldUnlessStrayed
    BY DEF Init, OwnDeliveries, OneAtATime, HeldUnlessStrayed
  <1> QED
    BY <1>1, <1>2, <1>3, <1>4 DEF ConsumersInv

LEMMA InvStep == ConsumersInv /\ [Next]_vars => ConsumersInv'
  BY TypeStep, CountStep, DeliveriesStep, HoldStep DEF ConsumersInv, CountInv, HoldInv

\* Types, counts, channels and holdings are as the invariant says, in every
\* reachable state and for every number of messages, queues and faults.
THEOREM InvariantCorrect == Spec => []ConsumersInv
  BY InvInit, InvStep, PTL DEF Spec

\* RabbitMQ parts with a message only when it has been handled, unless a
\* handler has acknowledged on a channel that is not its own: crashes, lost
\* connections and confirms, refused publishes and stops do not matter.
THEOREM NothingLeavesUnhandled == Spec => []HeldUnlessStrayed
  BY InvariantCorrect, PTL DEF ConsumersInv

\* What is in a dead-letter queue was refused as not retryable, or has failed
\* in a first try and in every one of its retries.
THEOREM DeadLettersWereTried == Spec => []DeadWasTried
  BY InvariantCorrect, PTL DEF ConsumersInv

\* Unless a handler has acknowledged on a channel that is not its own, the
\* deliveries of one channel to one subscriber never overlap.
THEOREM OneHandlerPerChannel == Spec => []OneAtATime
  BY InvariantCorrect, PTL DEF ConsumersInv
=============================================================================
