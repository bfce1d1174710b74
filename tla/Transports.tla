----------------------------- MODULE Transports -----------------------------
(***************************************************************************)
(* One run of the broker adapters: a deployment has one of them, so a      *)
(* behaviour is one of one adapter, and the variables of the others stay   *)
(* as they began.                                                          *)
(***************************************************************************)
EXTENDS RabbitSubscriber, RabbitPublisher, KafkaSubscriber, SqsSubscriber,
        ServiceBusSubscriber, DirectPublisher

VARIABLE adapter

transportVars ==
    <<vars, rabbitPubVars, kafkaVars, sqsVars, busVars, directVars, adapter>>

Adapters == {"RabbitMqSubscriber", "RabbitMqPublisher", "KafkaSubscriber",
             "AwsSqsSubscriber", "ServiceBusSubscriber", "direct publishers"}

\* An adapter that is not followed begins in one way only.
TransportsInit ==
    /\ adapter \in Adapters
    /\ Init /\ PubInit /\ KafkaInit /\ SqsInit /\ BusInit /\ DirectPublisherInit
    /\ adapter # "RabbitMqSubscriber" => Load = (CHOOSE load \in Loads : TRUE)
    /\ adapter # "KafkaSubscriber" =>
          home = (CHOOSE h \in Homes : TRUE) /\ wanted = (CHOOSE w \in Wishes : TRUE)
    /\ adapter # "ServiceBusSubscriber" => ~queueMode /\ queues = {} /\ topics = {}
    /\ adapter # "direct publishers" => broker = "sns"

\* A step of the adapter that is followed; the variables of the rest stay.
Follow(a, step, rest) == adapter = a /\ step /\ UNCHANGED <<rest, adapter>>

TransportsNext ==
    \/ Follow("RabbitMqSubscriber", Next,
              <<rabbitPubVars, kafkaVars, sqsVars, busVars, directVars>>)
    \/ Follow("RabbitMqPublisher", PubNext,
              <<vars, kafkaVars, sqsVars, busVars, directVars>>)
    \/ Follow("KafkaSubscriber", KafkaNext,
              <<vars, rabbitPubVars, sqsVars, busVars, directVars>>)
    \/ Follow("AwsSqsSubscriber", SqsNext,
              <<vars, rabbitPubVars, kafkaVars, busVars, directVars>>)
    \/ Follow("ServiceBusSubscriber", BusNext,
              <<vars, rabbitPubVars, kafkaVars, sqsVars, directVars>>)
    \/ Follow("direct publishers", DirectPublisherNext,
              <<vars, rabbitPubVars, kafkaVars, sqsVars, busVars>>)

\* What the network, timers and handlers owe the adapter that is followed.
TransportsGoesOn ==
    \/ Follow("RabbitMqSubscriber", GoesOn,
              <<rabbitPubVars, kafkaVars, sqsVars, busVars, directVars>>)
    \/ Follow("RabbitMqPublisher", PubGoesOn,
              <<vars, kafkaVars, sqsVars, busVars, directVars>>)
    \/ Follow("KafkaSubscriber", KafkaGoesOn,
              <<vars, rabbitPubVars, sqsVars, busVars, directVars>>)
    \/ Follow("AwsSqsSubscriber", SqsGoesOn,
              <<vars, rabbitPubVars, kafkaVars, busVars, directVars>>)
    \/ Follow("ServiceBusSubscriber", BusGoesOn,
              <<vars, rabbitPubVars, kafkaVars, sqsVars, directVars>>)
    \/ Follow("direct publishers", DirectGoesOn,
              <<vars, rabbitPubVars, kafkaVars, sqsVars, busVars>>)

TransportsSpec ==
    TransportsInit /\ [][TransportsNext]_transportVars /\ WF_transportVars(TransportsGoesOn)

------------------------------------------------------------------------------
(* What every adapter owes the engine, each in the terms of its broker       *)

\* A broker forgets a message - its offset committed, the message deleted or completed -
\* only after the handler resolved on it or because it cannot be decoded, whatever was
\* rebalanced, received twice, served under a lost lock, or lost in a crash.  (RabbitMQ:
\* while no two loops ran at once.)
SettledWasHandled ==
    /\ AckedWasHandled /\ CommittedWasConsumed
    /\ RemovedWasProcessed /\ CompletedWasServed

\* emit() resolves only for a message the broker has taken, whatever became of the link,
\* the timer and close() meanwhile, and none waits on a link that is gone.
EmitWasTaken == ResolvedWasAccepted /\ SendResolvedWasTaken /\ WaitingHasLink

\* A consume() that resolved is in effect: its consumer polls the topic, its entity is
\* there to be received from, and the queue's policy lets in its topic, whatever other
\* topics were provisioned after it.  Unless Kafka calls of a process overlapped (raced), a
\* Service Bus request was rejected (troubles), two provisionings read the same policy
\* (overwrote).
SubscriptionsServed == ResolvedIsAttached /\ ResolvedHasEntity /\ PolicyKept

\* No poll loop outlives the client it uses, and a consumer, receiver, client or link that
\* is open is one that the adapter holds or is taking down - under conditions, for without
\* them the code does forget some.  The calls did not overlap: no two RabbitMQ loops ran at
\* once (crossed, tangled: the later link overwrites the earlier), no Kafka call ran beside
\* another of its process or close() (raced), no Service Bus consume() beside another of its
\* key or close() (doubled), no emit() or initialize() beside close() (closedMidway).  And
\* what was told to close did: a Kafka client or a Service Bus sender or receiver that
\* rejects its disconnect is dropped all the same (stranded, unclosed).
NothingLeaked ==
    /\ NoConsumerLeaked /\ NoReceiverLeaked /\ NoClientLeaked
    /\ ClosedPublisherHasNoLink /\ ClosedIsDrained /\ LinksAccounted

\* While a subscription stays in effect every message of it is settled in the end, those
\* behind one that cannot be decoded too.  (Kafka: unless calls of a process overlapped, or a
\* consumer that rejected its disconnect keeps its partitions.)
MessagesEnd == PartitionConsumed /\ MessageEnds /\ LetterCompleted

\* Once faults cease, a RabbitMQ subscriber has its subscriptions consumed again, and a
\* publisher its confirm channel, unless it was closed or its loops overlapped, and if the
\* faults were fewer than reconnect.attempts: a loop gives up for good after as many.
LinksRecover == Recovers /\ PublisherRecovers

\* Every emit() and every close() settles.
CallsSettle == CloseEnds /\ EmitSettles /\ SendSettles
=============================================================================
