--------------------------- MODULE DirectPublisher ---------------------------
(***************************************************************************)
(* The publishers that hold a client and send over it: KafkaPublisher,     *)
(* AwsSnsPublisher and ServiceBusPublisher.  Clients are numbered as they  *)
(* are made; `client` is this.producer, this.sns or the cached sender.     *)
(***************************************************************************)
EXTENDS Naturals

CONSTANTS
    Sends,              \* emit() calls, all to one topic
    AutoCreate,         \* autoCreateTopics or autoProvision
    MaxClients,         \* bound on clients made
    MaxRefusals         \* bound on rejected requests

ASSUME DirectPublisherAssumption ==
    /\ AutoCreate \in BOOLEAN
    /\ MaxClients \in Nat \ {0} /\ MaxRefusals \in Nat

VARIABLES
    broker,             \* "kafka", "sns" or "servicebus"
    client,             \* the client in use, or 0
    joining,            \* the client initialize() is connecting, or 0
    made,               \* clients made so far
    live,               \* clients that are connected
    going,              \* clients close() disconnects
    ensured,            \* the topic is known to exist
    send,               \* the emit() calls
    taken,              \* messages the broker has taken
    closedMidway,       \* history: close() while initialize() or emit() ran
    stranded,           \* history: forgotten clients whose disconnect was rejected
    refusals

directVars == <<broker, client, joining, made, live, going, ensured, send, taken,
                closedMidway, stranded, refusals>>

directHistory == <<closedMidway, stranded>>
Clients == 1 .. MaxClients
InFlight(e) == send[e].pc \in {"ensuring", "sending"}
Refuse == refusals < MaxRefusals /\ refusals' = refusals + 1

SendTypeOK ==
    /\ broker \in {"kafka", "sns", "servicebus"}
    /\ {client, joining, made} \subseteq 0 .. MaxClients
    /\ live \subseteq Clients /\ going \subseteq Clients /\ stranded \subseteq Clients
    /\ joining # 0 => joining # client
    /\ ensured \in BOOLEAN /\ closedMidway \in BOOLEAN
    /\ send \in [Sends -> [pc : {"idle", "ensuring", "sending", "resolved", "rejected"},
                           via : 0 .. MaxClients]]
    /\ taken \subseteq Sends /\ refusals \in 0 .. MaxRefusals

DirectPublisherInit ==
    /\ broker \in {"kafka", "sns", "servicebus"}
    /\ client = 0 /\ joining = 0 /\ made = 0
    /\ live = {} /\ going = {}
    /\ ensured = FALSE
    /\ send = [e \in Sends |-> [pc |-> "idle", via |-> 0]]
    /\ taken = {}
    /\ closedMidway = FALSE /\ stranded = {}
    /\ refusals = 0

------------------------------------------------------------------------------
\* initialize(): callers share the attempt in progress.  Service Bus only warms up.
DirectInitialize ==
    /\ broker # "servicebus"
    /\ client = 0 /\ joining = 0 /\ going = {}
    /\ made < MaxClients
    /\ made' = made + 1
    /\ joining' = made'
    /\ UNCHANGED <<broker, client, live, going, ensured, send, taken, directHistory, refusals>>

\* It connects: the client is put to use, even if close() ran meanwhile.
ClientJoined ==
    /\ joining # 0
    /\ client' = joining
    /\ live' = live \cup {joining}
    /\ joining' = 0
    /\ UNCHANGED <<broker, made, going, ensured, send, taken, directHistory, refusals>>

\* A producer that cannot connect is disconnected; making an SNS client cannot fail.
ClientRefused ==
    /\ Refuse
    /\ broker = "kafka" /\ joining # 0
    /\ joining' = 0
    /\ UNCHANGED <<broker, client, made, live, going, ensured, send, taken, directHistory>>

\* emit() to its first await.
DirectEmit(e) ==
    /\ send[e].pc = "idle"
    /\ \/ /\ broker # "servicebus"
          /\ send' = [send EXCEPT ![e] = IF client = 0 THEN [@ EXCEPT !.pc = "rejected"]
                 ELSE [via |-> client,
                       pc |-> IF AutoCreate /\ ~ensured THEN "ensuring" ELSE "sending"]]
          /\ UNCHANGED <<client, made, live>>
       \/ /\ broker = "servicebus" /\ client # 0
          /\ send' = [send EXCEPT ![e] = [via |-> client, pc |-> "sending"]]
          /\ UNCHANGED <<client, made, live>>
       \/ /\ broker = "servicebus" /\ client = 0 /\ made < MaxClients
          /\ made' = made + 1
          /\ client' = made'
          /\ live' = live \cup {made'}
          /\ send' = [send EXCEPT ![e] = [via |-> made', pc |-> "sending"]]
    /\ UNCHANGED <<broker, joining, going, ensured, taken, directHistory, refusals>>

\* The topic is created, or known by its ARN.  This await has no timeout.
TopicThere(e) ==
    /\ send[e].pc = "ensuring"
    /\ ensured' = TRUE
    /\ send' = [send EXCEPT ![e].pc = "sending"]
    /\ UNCHANGED <<broker, client, joining, made, live, going, taken, directHistory, refusals>>

\* The broker takes a message; the client that sent it may be closed by then.
Taken(e) ==
    /\ send[e].via \in live /\ send[e].pc \in {"sending", "rejected"}
    /\ taken' = taken \cup {e}
    /\ UNCHANGED <<broker, client, joining, made, live, going, ensured, send, directHistory, refusals>>

SendResolves(e) ==
    /\ send[e].pc = "sending" /\ e \in taken
    /\ send' = [send EXCEPT ![e].pc = "resolved"]
    /\ UNCHANGED <<broker, client, joining, made, live, going, ensured, taken, directHistory, refusals>>

\* A request is refused before the message was taken.
SendRefused(e) ==
    /\ Refuse
    /\ InFlight(e) /\ e \notin taken
    /\ send' = [send EXCEPT ![e] = [pc |-> "rejected", via |-> 0]]
    /\ UNCHANGED <<broker, client, joining, made, live, going, ensured, taken, directHistory>>

\* Mutant: only the SNS request has a timer.
SendTimesOut_sns(e) ==
    /\ broker = "sns"
    /\ send[e].pc = "sending"
    /\ send' = [send EXCEPT ![e].pc = "rejected"]
    /\ UNCHANGED <<broker, client, joining, made, live, going, ensured, taken, directHistory, refusals>>

\* withTimeout, or for Service Bus the client's own: the message may be taken later.
SendTimesOut(e) ==
    /\ send[e].pc = "sending"
    /\ send' = [send EXCEPT ![e].pc = "rejected"]
    /\ UNCHANGED <<broker, client, joining, made, live, going, ensured, taken, directHistory, refusals>>

\* close(): the client is forgotten, then disconnected.  ServiceBusPublisher closes
\* first and forgets all senders then.
DirectClose ==
    /\ going = {}
    /\ client # 0 \/ joining # 0
    /\ going' = {client} \ {0}
    /\ client' = IF broker = "servicebus" THEN client ELSE 0
    /\ closedMidway' = (closedMidway \/ joining # 0 \/ \E e \in Sends : InFlight(e))
    /\ UNCHANGED <<broker, joining, made, live, ensured, send, taken, stranded, refusals>>

\* It disconnects, or the disconnect is rejected: KafkaPublisher passes that on to the
\* caller of close() and ServiceBusPublisher logs it, and neither has the client any
\* more.  AwsSnsPublisher destroys its own, which cannot fail.
ClientLeft(n) ==
    /\ n \in going
    /\ \/ /\ live' = live \ {n}
          /\ UNCHANGED <<stranded, refusals>>
       \/ /\ Refuse /\ broker # "sns"
          /\ stranded' = stranded \cup {n}
          /\ UNCHANGED live
    /\ going' = going \ {n}
    /\ client' = IF broker = "servicebus" THEN 0 ELSE client
    /\ UNCHANGED <<broker, joining, made, ensured, send, taken, closedMidway>>

------------------------------------------------------------------------------
SendStep(e) == TopicThere(e) \/ SendResolves(e) \/ SendTimesOut(e)

DirectPublisherNext ==
    \/ DirectInitialize \/ ClientJoined \/ ClientRefused
    \/ \E e \in Sends : DirectEmit(e) \/ Taken(e) \/ SendStep(e) \/ SendRefused(e)
    \/ DirectClose
    \/ \E n \in Clients : ClientLeft(n)

\* Connecting, topic creation and disconnecting are answered, and timers fire.
DirectGoesOn ==
    \/ ClientJoined
    \/ \E e \in Sends : SendStep(e)
    \/ \E n \in Clients : ClientLeft(n)

------------------------------------------------------------------------------
(* Properties                                                              *)

\* emit() resolves only for a message the broker has taken: an answer that comes after
\* the timeout, or over a client that was closed, is never mistaken for another's.
SendResolvedWasTaken == \A e \in Sends : send[e].pc = "resolved" => e \in taken

\* No client stays connected that the publisher has forgotten: close() asks each to
\* disconnect, unless it ran while initialize() or emit() did; one that rejects that
\* is stranded, and a second close() does not try it again.
NoClientLeaked == ~closedMidway => live \subseteq {client} \cup going \cup stranded

\* Every emit() settles.
SendSettles == <>[](\A e \in Sends : ~InFlight(e))
=============================================================================
