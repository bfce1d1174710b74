------------------------- MODULE ServiceBusSubscriber -------------------------
(***************************************************************************)
(* ServiceBusSubscriber: consume() calls that provision their entity and   *)
(* subscribe a receiver, the receivers map, the messages the SDK hands to  *)
(* processMessage under a lock, and close().  A receiver is named after    *)
(* the call that creates it.                                               *)
(***************************************************************************)
EXTENDS Naturals, FiniteSets

CONSTANTS
    Requests,           \* consume() calls
    TopicFor,           \* the topic of a call
    GroupFor,           \* its group
    BusTopics,
    BusGroups,
    Letters,            \* messages, each sent to the entity of every call's key
    MaxTroubles         \* bound on rejected requests, handlers and lost locks

ASSUME ServiceBusAssumption ==
    /\ TopicFor \in [Requests -> BusTopics]
    /\ GroupFor \in [Requests -> BusGroups]
    /\ MaxTroubles \in Nat

VARIABLES
    queueMode,          \* config.mode = 'queue'
    queues, topics,     \* entities that exist
    subs,               \* subscriptions that exist
    receivers,          \* receivers map: key to receiver
    request,            \* the consume() calls
    open,               \* receivers that are open
    shutting,           \* close() is in progress
    closeLeft,          \* receivers it has left to close
    locked,             \* <<receiver, message>> whose lock is held
    serving,            \* <<receiver, message>> in processMessage
    served,             \* history: <<receiver, message>> whose handler resolved
    completed,          \* <<key, message>>s completed
    doubled,            \* history: consume() overlapped consume() of its key, or close()
    unclosed,           \* history: receivers whose close() was rejected
    troubles

busVars == <<queueMode, queues, topics, subs, receivers, request, open, shutting,
             closeLeft, locked, serving, served, completed, doubled, unclosed, troubles>>

busHistory == <<doubled, unclosed>>

\* resolveSubscriptionTarget: in queue mode the group is no part of the key.
Key(r) == IF queueMode THEN <<TopicFor[r], "queue">> ELSE <<TopicFor[r], GroupFor[r]>>
Keys   == {Key(r) : r \in Requests}
\* The receiver a key is mapped to.
Mapped(k) == {r \in receivers : Key(r) = k}

BusTypeOK ==
    /\ queueMode \in BOOLEAN
    /\ queues \subseteq BusTopics /\ topics \subseteq BusTopics
    /\ subs \subseteq BusTopics \X {GroupFor[r] : r \in Requests}
    /\ receivers \subseteq Requests /\ open \subseteq Requests
    /\ \A k \in Keys : Cardinality(Mapped(k)) <= 1
    /\ request \in [Requests ->
         [pc : {"idle", "getQueue", "getTopic", "createQueue", "createTopic", "getSub",
                "createSub", "attach", "resolved", "ignored"},
          queue : BOOLEAN]]
    /\ shutting \in BOOLEAN /\ closeLeft \subseteq Requests
    /\ locked \subseteq Requests \X Letters /\ serving \subseteq Requests \X Letters
    /\ served \subseteq Requests \X Letters /\ completed \subseteq Keys \X Letters
    /\ doubled \in BOOLEAN /\ unclosed \subseteq Requests /\ troubles \in 0 .. MaxTroubles

BusInit ==
    /\ queueMode \in BOOLEAN
    /\ queues \in SUBSET BusTopics /\ topics \in SUBSET BusTopics
    /\ subs = {}
    /\ receivers = {}
    /\ request = [r \in Requests |-> [pc |-> "idle", queue |-> queueMode]]
    /\ open = {}
    /\ shutting = FALSE
    /\ closeLeft = {}
    /\ locked = {}
    /\ serving = {}
    /\ served = {}
    /\ completed = {}
    /\ doubled = FALSE /\ unclosed = {}
    /\ troubles = 0

entities == <<queueMode, queues, topics, subs>>
shutVars == <<shutting, closeLeft>>
lockVars == <<locked, serving, served, completed>>
Trouble  == troubles < MaxTroubles /\ troubles' = troubles + 1
Smooth   == UNCHANGED troubles
Waits(r) == request[r].pc \notin {"idle", "resolved", "ignored"}
Goes(r, pc) == request' = [request EXCEPT ![r].pc = pc]

------------------------------------------------------------------------------
(* consume(): provisionTarget                                              *)

BusConsume(r) ==
    /\ request[r].pc = "idle"
    /\ Goes(r, IF Mapped(Key(r)) # {} THEN "ignored"
               ELSE IF queueMode THEN "getQueue" ELSE "getTopic")
    /\ doubled' = (doubled \/ shutting
                     \/ \E q \in Requests : Key(q) = Key(r) /\ Waits(q))
    /\ UNCHANGED <<entities, receivers, open, shutVars, lockVars, unclosed, troubles>>

\* A get request finds the entity or rejects, because it is not there or as a fault.
Looked(there, found, missing) ==
    \/ there /\ found /\ Smooth
    \/ ~there /\ missing /\ Smooth
    \/ Trouble /\ missing

\* provisionQueueTarget
QueueLooked(r) ==
    /\ request[r].pc = "getQueue"
    /\ Looked(TopicFor[r] \in queues, Goes(r, "attach"), Goes(r, "getTopic"))
    /\ UNCHANGED <<entities, receivers, open, shutVars, lockVars, busHistory>>

\* provisionQueueFallback, or ensureTopic: in queue mode a topic of that name is used
\* through a subscription.
TopicLooked(r) ==
    /\ request[r].pc = "getTopic"
    /\ Looked(TopicFor[r] \in topics,
              request' = [request EXCEPT ![r] = [pc |-> "getSub", queue |-> FALSE]],
              Goes(r, IF queueMode THEN "createQueue" ELSE "createTopic"))
    /\ UNCHANGED <<entities, receivers, open, shutVars, lockVars, busHistory>>

\* A create request: its failure is logged, and provisioning goes on.
QueueCreated(r) ==
    /\ request[r].pc = "createQueue"
    /\ \/ queues' = queues \cup {TopicFor[r]} /\ Smooth
       \/ Trouble /\ UNCHANGED queues
    /\ Goes(r, "attach")
    /\ UNCHANGED <<queueMode, topics, subs, receivers, open, shutVars, lockVars, busHistory>>

TopicCreated(r) ==
    /\ request[r].pc = "createTopic"
    /\ \/ topics' = topics \cup {TopicFor[r]} /\ Smooth
       \/ Trouble /\ UNCHANGED topics
    /\ Goes(r, "getSub")
    /\ UNCHANGED <<queueMode, queues, subs, receivers, open, shutVars, lockVars, busHistory>>

\* ensureSubscription
SubscriptionLooked(r) ==
    /\ request[r].pc = "getSub"
    /\ Looked(<<TopicFor[r], GroupFor[r]>> \in subs, Goes(r, "attach"), Goes(r, "createSub"))
    /\ UNCHANGED <<entities, receivers, open, shutVars, lockVars, busHistory>>

SubscriptionCreated(r) ==
    /\ request[r].pc = "createSub"
    /\ \/ /\ TopicFor[r] \in topics
          /\ subs' = subs \cup {<<TopicFor[r], GroupFor[r]>>} /\ Smooth
       \/ TopicFor[r] \notin topics /\ UNCHANGED subs /\ Smooth
       \/ Trouble /\ UNCHANGED subs
    /\ Goes(r, "attach")
    /\ UNCHANGED <<queueMode, queues, topics, receivers, open, shutVars, lockVars, busHistory>>

\* createReceiver, subscribeReceiver and receivers.set.  The loop of close() sees the
\* entries that are added while it runs.
ReceiverAttached(r) ==
    /\ request[r].pc = "attach"
    /\ receivers' = (receivers \ Mapped(Key(r))) \cup {r}
    /\ open' = open \cup {r}
    /\ closeLeft' = IF shutting THEN (closeLeft \ Mapped(Key(r))) \cup {r} ELSE {}
    /\ Goes(r, "resolved")
    /\ UNCHANGED <<entities, shutting, lockVars, busHistory, troubles>>

------------------------------------------------------------------------------
(* processMessage and the SDK                                              *)

Entity(r) == IF request[r].queue THEN TopicFor[r] \in queues
             ELSE <<TopicFor[r], GroupFor[r]>> \in subs

\* A message is locked for a receiver and handed to its handler.
MessageServed(r, m) ==
    /\ r \in open /\ Entity(r)
    /\ <<Key(r), m>> \notin completed
    /\ \A q \in Requests : Key(q) = Key(r) => <<q, m>> \notin locked
    /\ <<r, m>> \notin serving
    /\ locked' = locked \cup {<<r, m>>}
    /\ serving' = serving \cup {<<r, m>>}
    /\ UNCHANGED <<entities, receivers, request, open, shutVars, served, completed, busHistory, troubles>>

\* The handler resolves: the SDK completes the message, if its lock still holds.
ServingResolves(r, m) ==
    /\ <<r, m>> \in serving
    /\ serving' = serving \ {<<r, m>>}
    /\ served' = served \cup {<<r, m>>}
    /\ completed' = IF <<r, m>> \in locked THEN completed \cup {<<Key(r), m>>} ELSE completed
    /\ locked' = locked \ {<<r, m>>}
    /\ UNCHANGED <<entities, receivers, request, open, shutVars, busHistory, troubles>>

\* It rejects: the SDK abandons the message.
ServingRejects(r, m) ==
    /\ Trouble
    /\ <<r, m>> \in serving
    /\ serving' = serving \ {<<r, m>>}
    /\ locked' = locked \ {<<r, m>>}
    /\ UNCHANGED <<entities, receivers, request, open, shutVars, served, completed, busHistory>>

LockLost(r, m) ==
    /\ Trouble
    /\ <<r, m>> \in locked
    /\ locked' = locked \ {<<r, m>>}
    /\ UNCHANGED <<entities, receivers, request, open, shutVars, serving, served,
                   completed, busHistory>>

------------------------------------------------------------------------------
(* close()                                                                 *)

BusClose ==
    /\ ~shutting
    /\ receivers # {}
    /\ shutting' = TRUE
    /\ closeLeft' = receivers
    /\ doubled' = (doubled \/ \E r \in Requests : Waits(r))
    /\ UNCHANGED <<entities, receivers, request, open, lockVars, unclosed, troubles>>

\* receiver.close() resolves, or rejects and is logged: the receiver stays open.
ReceiverClosed(r) ==
    /\ r \in closeLeft
    /\ \/ open' = open \ {r} /\ Smooth /\ UNCHANGED unclosed
       \/ Trouble /\ unclosed' = unclosed \cup {r} /\ UNCHANGED open
    /\ closeLeft' = closeLeft \ {r}
    /\ UNCHANGED <<entities, receivers, request, shutting, lockVars, doubled>>

\* receivers.clear().
BusClosed ==
    /\ shutting /\ closeLeft = {}
    /\ receivers' = {}
    /\ shutting' = FALSE
    /\ UNCHANGED <<entities, request, closeLeft, open, lockVars, busHistory, troubles>>

------------------------------------------------------------------------------
BusConsumeStep(r) ==
    \/ QueueLooked(r) \/ TopicLooked(r) \/ SubscriptionLooked(r)
    \/ QueueCreated(r) \/ TopicCreated(r) \/ SubscriptionCreated(r)
    \/ ReceiverAttached(r)

BusNext ==
    \/ \E r \in Requests : BusConsume(r) \/ BusConsumeStep(r) \/ ReceiverClosed(r)
    \/ \E r \in Requests, m \in Letters :
          \/ MessageServed(r, m) \/ ServingResolves(r, m)
          \/ ServingRejects(r, m) \/ LockLost(r, m)
    \/ BusClose
    \/ BusClosed

\* Requests are answered, the broker serves an open receiver, handlers settle.
BusGoesOn ==
    \/ \E r \in Requests : BusConsumeStep(r) \/ ReceiverClosed(r)
    \/ \E r \in Requests, m \in Letters : MessageServed(r, m) \/ ServingResolves(r, m)
    \/ BusClosed

------------------------------------------------------------------------------
(* Properties                                                              *)

\* A message is completed only after a handler of its key resolved on it, though its
\* lock was lost, it was served twice, or the receiver is being closed.
CompletedWasServed ==
    \A k \in Keys, m \in Letters : <<k, m>> \in completed =>
        \E r \in Requests : Key(r) = k /\ <<r, m>> \in served

\* Every open receiver is in the map, and so will be closed by close() - unless calls
\* overlapped: one is forgotten then - or has rejected its close() before.
NoReceiverLeaked == ~doubled => open \subseteq receivers \cup unclosed

\* When no request was rejected, consume() resolves with its entity in place, whether
\* it was there, was created, or a topic stands in for the queue.
ResolvedHasEntity ==
    troubles = 0 => \A r \in Requests : request[r].pc = "resolved" => Entity(r)

\* A message of a subscription that stays attached is completed.
LetterCompleted ==
    <>[](\A r \in Requests, m \in Letters :
            r \in open /\ Entity(r) => <<Key(r), m>> \in completed)
=============================================================================
