--------------------------- MODULE KafkaSubscriber ---------------------------
(***************************************************************************)
(* KafkaSubscriber: the processes of one consumer group, each with its     *)
(* registry entry for the group, the Kafka consumers consume() makes, and  *)
(* the deliveries they dispatch.  Groups share nothing but the code, so    *)
(* one is modelled, over topics of one partition.                          *)
(*                                                                         *)
(* A consumer is named after the consume() call that creates it.  A step   *)
(* is the synchronous code between two awaits.                             *)
(***************************************************************************)
EXTENDS Naturals

CONSTANTS
    Calls,              \* consume() calls
    Topics,
    Processes,
    Homes,              \* bound: the placements of the calls in processes that are tried
    Wishes,             \* bound: the choices of topics for the calls that are tried
    Malformed,          \* the <<topic, offset>>s whose message cannot be decoded
    None,
    LogEnd,             \* bound: messages in each partition
    MaxMisses           \* bound on rejected requests, crashes, rebalances

ASSUME KafkaAssumption ==
    /\ Homes \subseteq [Calls -> Processes] /\ Wishes \subseteq [Calls -> Topics]
    /\ LogEnd \in Nat /\ MaxMisses \in Nat
    /\ Malformed \subseteq Topics \X (1 .. LogEnd)
    /\ None \notin Calls

VARIABLES
    home,               \* the process of a call
    wanted,             \* the topic of a call
    registry,           \* groups map of a process: the group's consumer, or None
    consumer,           \* the Kafka consumers with their GroupState
    call,               \* the consume() calls
    closing,            \* close() of a process: the consumers left to disconnect
    owner,              \* broker: the consumer a partition is assigned to
    position,           \* next offset the owner fetches
    committed,          \* broker: the group's committed offset
    flight,             \* the dispatchDelivery a consumer is in
    consumed,           \* history: messages whose handler resolved
    raced,              \* history: consume() overlapped consume() or close()
    misses              \* faults so far

kafkaVars == <<home, wanted, registry, consumer, call, closing, owner, position, committed,
               flight, consumed, raced, misses>>

Offsets == 1 .. LogEnd
\* handlers, running: fields of GroupState.  topics: subscribed ones.  polls: run()
\* took effect.  stranded: disconnect() was rejected, and no map holds it any more.
NoConsumer == [state |-> "none", handlers |-> {}, running |-> FALSE, topics |-> {},
               polls |-> FALSE]
NoCall     == [pc |-> "idle", via |-> None]
NoDelivery == [topic |-> None, offset |-> 0, pc |-> "none", via |-> None]

KafkaTypeOK ==
    /\ home \in [Calls -> Processes] /\ wanted \in [Calls -> Topics]
    /\ registry \in [Processes -> Calls \cup {None}]
    /\ consumer \in [Calls -> [state : {"none", "connected", "stranded", "closed"},
                               handlers : SUBSET Topics, running : BOOLEAN,
                               topics : SUBSET Topics, polls : BOOLEAN]]
    /\ call \in [Calls -> [pc : {"idle", "ensure", "connect", "subscribe", "run",
                                 "cleanup", "resolved", "rejected", "closed"},
                           via : Calls \cup {None}]]
    /\ closing \in [Processes -> SUBSET Calls]
    /\ owner \in [Topics -> Calls \cup {None}]
    /\ position \in [Topics -> 1 .. LogEnd + 1] /\ committed \in [Topics -> 1 .. LogEnd + 1]
    /\ flight \in [Calls -> [topic : Topics \cup {None}, offset : 0 .. LogEnd,
                             pc : {"none", "handling", "committing"},
                             via : Calls \cup {None}]]
    /\ consumed \subseteq Topics \X Offsets
    /\ raced \in BOOLEAN /\ misses \in 0 .. MaxMisses

KafkaInit ==
    /\ home \in Homes /\ wanted \in Wishes
    /\ registry = [p \in Processes |-> None]
    /\ consumer = [c \in Calls |-> NoConsumer]
    /\ call = [c \in Calls |-> NoCall]
    /\ closing = [p \in Processes |-> {}]
    /\ owner = [t \in Topics |-> None]
    /\ position = [t \in Topics |-> 1]
    /\ committed = [t \in Topics |-> 1]
    /\ flight = [c \in Calls |-> NoDelivery]
    /\ consumed = {}
    /\ raced = FALSE
    /\ misses = 0

callers      == <<home, wanted>>
offsetVars   == <<position, committed>>
deliveryVars == <<owner, offsetVars, flight, consumed>>
Misses == misses < MaxMisses /\ misses' = misses + 1
Pending(c) == call[c].pc \notin {"idle", "resolved", "rejected", "closed"}
Neighbours(c) == {d \in Calls \ {c} : home[d] = home[c]}

------------------------------------------------------------------------------
(* consume()                                                               *)

\* handlers.has, handlers.set, and the call to subscribe, on the group's consumer d.
Registers(c, d, consumers) ==
    IF wanted[c] \in consumers[d].handlers
    THEN /\ call' = [call EXCEPT ![c] = [pc |-> "resolved", via |-> d]]
         /\ consumer' = consumers
    ELSE /\ call' = [call EXCEPT ![c] = [pc |-> "subscribe", via |-> d]]
         /\ consumer' = [consumers EXCEPT ![d].handlers = @ \cup {wanted[c]}]

KafkaConsume(c) ==
    /\ call[c].pc = "idle"
    /\ call' = [call EXCEPT ![c].pc = "ensure"]
    /\ raced' = (raced \/ closing[home[c]] # {} \/ \E d \in Neighbours(c) : Pending(d))
    /\ UNCHANGED <<callers, registry, consumer, closing, deliveryVars, misses>>

\* The topic is there: the group's consumer is looked up, or one is made.
TopicEnsured(c) ==
    LET d == registry[home[c]]
    IN  /\ call[c].pc = "ensure"
        /\ IF d = None
           THEN call' = [call EXCEPT ![c].pc = "connect"] /\ UNCHANGED consumer
           ELSE Registers(c, d, consumer)
        /\ UNCHANGED <<callers, registry, closing, deliveryVars, raced, misses>>

\* connect() resolves; a consumer another call has entered meanwhile is overwritten.
ConsumerConnected(c) ==
    /\ call[c].pc = "connect"
    /\ registry' = [registry EXCEPT ![home[c]] = c]
    /\ Registers(c, c, [consumer EXCEPT ![c] = [NoConsumer EXCEPT !.state = "connected"]])
    /\ UNCHANGED <<callers, closing, deliveryVars, raced, misses>>

Subscribed(c) ==
    LET d == call[c].via
    IN  /\ call[c].pc = "subscribe"
        /\ consumer[d].state = "connected"
        /\ consumer' = [consumer EXCEPT ![d].topics = @ \cup {wanted[c]},
                                        ![d].running = TRUE]
        /\ call' = [call EXCEPT ![c].pc = IF consumer[d].running THEN "resolved" ELSE "run"]
        /\ UNCHANGED <<callers, registry, closing, deliveryVars, raced, misses>>

ConsumerRuns(c) ==
    /\ call[c].pc = "run"
    /\ consumer[call[c].via].state = "connected"
    /\ consumer' = [consumer EXCEPT ![call[c].via].polls = TRUE]
    /\ call' = [call EXCEPT ![c].pc = "resolved"]
    /\ UNCHANGED <<callers, registry, closing, deliveryVars, raced, misses>>

\* Mutant: the group is deleted whatever handlers it has left.
ConsumeThrows_all(c) ==
    LET d == call[c].via
    IN  IF call[c].pc \in {"ensure", "connect"}
        THEN /\ call' = [call EXCEPT ![c].pc = "rejected"]
             /\ UNCHANGED <<registry, consumer>>
        ELSE /\ consumer' = [consumer EXCEPT ![d].handlers = @ \ {wanted[c]}]
             /\ registry' = [registry EXCEPT ![home[c]] = None]
             /\ call' = [call EXCEPT ![c].pc = "cleanup"]

\* The catch clause of consume(): the handler is taken back, and with the last one
\* the group.
ConsumeThrows(c) ==
    LET d    == call[c].via
        left == consumer[d].handlers \ {wanted[c]}
    IN  IF call[c].pc \in {"ensure", "connect"}
        THEN /\ call' = [call EXCEPT ![c].pc = "rejected"]
             /\ UNCHANGED <<registry, consumer>>
        ELSE /\ consumer' = [consumer EXCEPT ![d].handlers = left]
             /\ registry' = IF left = {} THEN [registry EXCEPT ![home[c]] = None] ELSE registry
             /\ call' = [call EXCEPT ![c].pc = IF left = {} THEN "cleanup" ELSE "rejected"]

KafkaConsumeFails(c) ==
    /\ Pending(c) /\ call[c].pc # "cleanup"
    /\ \/ Misses
       \/ /\ call[c].via # None /\ consumer[call[c].via].state = "closed"
          /\ UNCHANGED misses
    /\ ConsumeThrows(c)
    /\ UNCHANGED <<callers, closing, deliveryVars, raced>>

\* A member leaves the group.
Leaves(members) == owner' = [t \in Topics |-> IF owner[t] \in members THEN None ELSE owner[t]]

\* stop() and disconnect() of a consumer that is out of the map already: both
\* resolve, or the disconnect does after a stop that was rejected,
Disconnects(d) ==
    /\ consumer' = [consumer EXCEPT ![d].state = "closed", ![d].polls = FALSE]
    /\ Leaves({d})
    /\ UNCHANGED misses

\* ... or the disconnect is rejected, after a stop that took effect or did not, and
\* the rejection swallowed or logged.
Strands(d) ==
    /\ Misses
    /\ \/ /\ consumer' = [consumer EXCEPT ![d].state = "stranded", ![d].polls = FALSE]
          /\ Leaves({d})
       \/ /\ consumer' = [consumer EXCEPT ![d].state = "stranded"]
          /\ UNCHANGED owner

\* After the last handler is gone.
CleanedUp(c) ==
    /\ call[c].pc = "cleanup"
    /\ Disconnects(call[c].via) \/ Strands(call[c].via)
    /\ call' = [call EXCEPT ![c].pc = "rejected"]
    /\ UNCHANGED <<callers, registry, closing, offsetVars, flight, consumed, raced>>

------------------------------------------------------------------------------
(* dispatchDelivery()                                                      *)

\* It talks to the broker as a member of the group.
Live(c) ==
    \/ consumer[c].state = "connected"
    \/ consumer[c].state = "stranded" /\ consumer[c].polls

Fetches(c, t) ==
    /\ Live(c) /\ consumer[c].polls
    /\ owner[t] = c
    /\ flight[c] = NoDelivery
    /\ position[t] <= LogEnd

\* Mutant: a message that cannot be decoded throws like any other.
DispatchDelivery_poison(c, t) ==
    LET d == registry[home[c]]
    IN  /\ Fetches(c, t)
        /\ d # None /\ t \in consumer[d].handlers
        /\ <<t, position[t]>> \notin Malformed
        /\ flight' = [flight EXCEPT ![c] = [topic |-> t, offset |-> position[t],
                                            via |-> d, pc |-> "handling"]]
        /\ position' = [position EXCEPT ![t] = @ + 1]
        /\ UNCHANGED <<callers, registry, consumer, call, closing, owner, committed,
                       consumed, raced, misses>>

\* The group state that is registered by now need not be the one that fetched; a
\* delivery it has no handler for throws, and the client fetches it again: no change.
DispatchDelivery(c, t) ==
    LET d == registry[home[c]]
    IN  /\ Fetches(c, t)
        /\ d # None /\ t \in consumer[d].handlers
        /\ flight' = [flight EXCEPT ![c] = [topic |-> t, offset |-> position[t],
                          via |-> d,
                          pc |-> IF <<t, position[t]>> \in Malformed THEN "committing"
                                 ELSE "handling"]]
        /\ position' = [position EXCEPT ![t] = @ + 1]
        /\ UNCHANGED <<callers, registry, consumer, call, closing, owner, committed, consumed,
                       raced, misses>>

DeliveryHandled(c) ==
    /\ flight[c].pc = "handling"
    /\ flight' = [flight EXCEPT ![c].pc = "committing"]
    /\ consumed' = consumed \cup {<<flight[c].topic, flight[c].offset>>}
    /\ UNCHANGED <<callers, registry, consumer, call, closing, owner, position, committed,
                   raced, misses>>

\* eachMessage rejects: the client seeks back to the message.
DeliveryThrows(c) ==
    /\ flight' = [flight EXCEPT ![c] = NoDelivery]
    /\ position' = IF owner[flight[c].topic] = c
                   THEN [position EXCEPT ![flight[c].topic] = flight[c].offset] ELSE position

\* Mutant: a rejecting handler is caught, and its message passed over.
DeliveryFails_passed(c) ==
    /\ Misses
    /\ flight[c].pc = "handling"
    /\ flight' = [flight EXCEPT ![c].pc = "committing"]
    /\ UNCHANGED <<callers, registry, consumer, call, closing, owner, position, committed,
                   consumed, raced>>

\* The handler rejects, or commitOffsets does (the member was fenced).
DeliveryFails(c) ==
    /\ Misses
    /\ flight[c].pc # "none"
    /\ DeliveryThrows(c)
    /\ UNCHANGED <<callers, registry, consumer, call, closing, owner, committed, consumed,
                   raced>>

\* commitOffsets(offset + 1), by the consumer of the state that dispatched; the
\* broker takes the offset of any live member of the group.
OffsetCommitted(c) ==
    /\ flight[c].pc = "committing"
    /\ IF Live(flight[c].via)
       THEN /\ committed' = [committed EXCEPT ![flight[c].topic] = flight[c].offset + 1]
            /\ flight' = [flight EXCEPT ![c] = NoDelivery]
            /\ UNCHANGED position
       ELSE DeliveryThrows(c) /\ UNCHANGED committed
    /\ UNCHANGED <<callers, registry, consumer, call, closing, owner, consumed, raced, misses>>

------------------------------------------------------------------------------
(* close(), crashes and the group coordinator                              *)

KafkaClose(p) ==
    /\ closing[p] = {}
    /\ registry[p] # None
    /\ closing' = [closing EXCEPT ![p] = {registry[p]}]
    /\ registry' = [registry EXCEPT ![p] = None]
    /\ raced' = (raced \/ \E c \in Calls : home[c] = p /\ Pending(c))
    /\ call' = [c \in Calls |-> IF home[c] = p /\ call[c].pc = "resolved"
                                  THEN [call[c] EXCEPT !.pc = "closed"] ELSE call[c]]
    /\ UNCHANGED <<callers, consumer, deliveryVars, misses>>

\* stop() and disconnect(): a delivery in flight may outlive them.
ConsumerStopped(p, c) ==
    /\ c \in closing[p]
    /\ closing' = [closing EXCEPT ![p] = @ \ {c}]
    /\ Disconnects(c) \/ Strands(c)
    /\ UNCHANGED <<callers, registry, call, offsetVars, flight, consumed, raced>>

\* The process dies and starts anew; its calls are made again.
ProcessCrash(p) ==
    LET own == {c \in Calls : home[c] = p}
    IN  /\ Misses
        /\ registry' = [registry EXCEPT ![p] = None]
        /\ closing' = [closing EXCEPT ![p] = {}]
        /\ consumer' = [c \in Calls |-> IF c \in own THEN NoConsumer ELSE consumer[c]]
        /\ call' = [c \in Calls |-> IF c \in own THEN NoCall ELSE call[c]]
        /\ flight' = [c \in Calls |-> IF c \in own THEN NoDelivery ELSE flight[c]]
        /\ Leaves(own)
        /\ UNCHANGED <<callers, offsetVars, consumed, raced>>

Member(c, t) == Live(c) /\ consumer[c].polls /\ t \in consumer[c].topics

\* A partition is given to a member, which begins at the committed offset.
Assign(t, c) ==
    /\ Member(c, t)
    /\ owner' = [owner EXCEPT ![t] = c]
    /\ position' = [position EXCEPT ![t] = committed[t]]
    /\ UNCHANGED <<callers, registry, consumer, call, closing, committed, flight, consumed, raced>>

\* It has no owner, or one that left ...
Reassign(t, c) ==
    /\ ~\E d \in Calls : owner[t] = d /\ Member(d, t)
    /\ Assign(t, c)
    /\ UNCHANGED misses

\* ... or the group is rebalanced, and it goes elsewhere or comes back.
Rebalance(t, c) == Misses /\ Assign(t, c)

------------------------------------------------------------------------------
KafkaConsumeStep(c) ==
    \/ TopicEnsured(c)
    \/ ConsumerConnected(c)
    \/ Subscribed(c)
    \/ ConsumerRuns(c)
    \/ CleanedUp(c)

DeliveryStep(c) ==
    \/ \E t \in Topics : DispatchDelivery(c, t)
    \/ DeliveryHandled(c)
    \/ OffsetCommitted(c)

KafkaNext ==
    \/ \E c \in Calls : KafkaConsume(c) \/ KafkaConsumeStep(c) \/ KafkaConsumeFails(c)
    \/ \E c \in Calls : DeliveryStep(c) \/ DeliveryFails(c)
    \/ \E p \in Processes : KafkaClose(p) \/ ProcessCrash(p)
    \/ \E p \in Processes, c \in Calls : ConsumerStopped(p, c)
    \/ \E t \in Topics, c \in Calls : Reassign(t, c) \/ Rebalance(t, c)

\* Requests are answered, handlers settle, and the coordinator assigns partitions.
\* Fairness to all of it together is weaker than to each, and enough as it all ends.
KafkaGoesOn ==
    \/ \E c \in Calls : KafkaConsumeStep(c) \/ DeliveryStep(c)
    \/ \E p \in Processes, c \in Calls : ConsumerStopped(p, c)
    \/ \E t \in Topics, c \in Calls : Reassign(t, c)

------------------------------------------------------------------------------
(* Properties                                                              *)

\* Every message below the committed offset of a partition was handled or cannot be
\* decoded, whatever was rebalanced, retried, committed twice or out of turn, or lost
\* in a crash: nothing a restarted group member skips was left undone.
CommittedWasConsumed ==
    \A t \in Topics : \A o \in 1 .. committed[t] - 1 : <<t, o>> \in consumed \cup Malformed

\* A consume() that resolved is in effect: until close() or a crash its process has a
\* registered, polling consumer that is subscribed to the topic and has a handler for
\* it, unless calls overlapped.
ResolvedIsAttached ==
    \A c \in Calls : ~raced /\ call[c].pc = "resolved" =>
        LET d == registry[home[c]]
        IN  d # None /\ Member(d, wanted[c]) /\ wanted[c] \in consumer[d].handlers

\* No consumer is left behind: one that is connected is registered, or about to be
\* disconnected by close() or by the consume() that failed - unless calls overlapped,
\* or its disconnect() was rejected: such a stranded one is out of reach for good.
NoConsumerLeaked ==
    ~raced => \A c \in Calls : consumer[c].state = "connected" =>
        \/ registry[home[c]] = c
        \/ c \in closing[home[c]]
        \/ call[c].pc = "cleanup"

\* While a subscription stays in effect in some process, every message of its partition
\* is handled in the end, those after one that cannot be decoded too - unless calls
\* overlapped, or a stranded consumer still polls: it keeps the partitions it has.
Effective(t) == \E c \in Calls : call[c].pc = "resolved" /\ wanted[c] = t
StrandedPoller == \E c \in Calls : consumer[c].state = "stranded" /\ consumer[c].polls
PartitionConsumed ==
    <>[](\A t \in Topics : ~raced /\ Effective(t) /\ ~StrandedPoller =>
            {t} \X Offsets \subseteq consumed \cup Malformed)
=============================================================================
