---------------------------- MODULE SqsSubscriber ----------------------------
(***************************************************************************)
(* AwsSqsSubscriber and AwsSnsSqsTopology: subscribers that share one SQS  *)
(* queue, each of which provisions it, polls it with `concurrency` loops,  *)
(* deletes what it has handled, and drains its loops when it is closed.    *)
(*                                                                         *)
(* A received message is hidden until its visibility timeout; each receipt *)
(* has a handle of its own.                                                *)
(***************************************************************************)
EXTENDS Naturals, Sequences, FiniteSets

CONSTANTS
    Subscribers,        \* AwsSqsSubscriber instances, in as many processes
    ArnOf,              \* the SNS topic each subscriber is configured with
    Arns,
    Pollers,            \* poll loops of a subscriber (options.concurrency)
    Messages,
    Unreadable,         \* messages that cannot be decoded
    Foreign,            \* a statement of the queue policy CAP does not own
    BatchSize,          \* maxNumberOfMessages
    MaxReceipts,        \* bound on receipts of one message
    MaxErrors           \* bound on rejected requests and handlers

ASSUME SqsAssumption ==
    /\ ArnOf \in [Subscribers -> Arns]
    /\ Unreadable \subseteq Messages
    /\ Foreign \notin Arns
    /\ {BatchSize, MaxReceipts} \subseteq Nat \ {0} /\ MaxErrors \in Nat

VARIABLES
    policy,             \* the queue's policy statements
    sub,                \* the subscribers: provisioning, consume() and close()
    poller,             \* the poll loops
    hidden,             \* messages within their visibility timeout
    receipts,           \* receipts of a message so far: the last handle
    removed,            \* messages deleted from the queue
    processed,          \* history: messages whose handler resolved
    overwrote,          \* history: two provisionings of the policy overlapped
    errors

sqsVars == <<policy, sub, poller, hidden, receipts, removed, processed, overwrote, errors>>

PollLoops == Subscribers \X Pollers
\* A message as received, before the receipt is counted.
Receipt(m) == [msg |-> m, handle |-> receipts[m] + 1]

SqsTypeOK ==
    /\ policy \subseteq Arns \cup {Foreign}
    /\ sub \in [Subscribers ->
         [pc : {"idle", "policy", "setPolicy", "subscribe", "ready", "rejected"},
          read : SUBSET (Arns \cup {Foreign}),
          stopping : BOOLEAN, stopped : BOOLEAN, closed : BOOLEAN]]
    /\ \A l \in PollLoops :
         /\ poller[l].pc \in {"off", "receive", "handling", "delete", "delay", "done"}
         /\ Len(poller[l].batch) <= BatchSize
         /\ \A i \in DOMAIN poller[l].batch :
               LET r == poller[l].batch[i] IN r.msg \in Messages /\ r.handle \in 1 .. receipts[r.msg]
    /\ hidden \subseteq Messages /\ removed \subseteq Messages /\ processed \subseteq Messages
    /\ receipts \in [Messages -> 0 .. MaxReceipts]
    /\ overwrote \in BOOLEAN /\ errors \in 0 .. MaxErrors

SqsInit ==
    /\ policy = {Foreign}
    /\ sub = [s \in Subscribers |-> [pc |-> "idle", read |-> {}, stopping |-> FALSE,
                                     stopped |-> FALSE, closed |-> FALSE]]
    /\ poller = [l \in PollLoops |-> [pc |-> "off", batch |-> <<>>]]
    /\ hidden = {}
    /\ receipts = [m \in Messages |-> 0]
    /\ removed = {}
    /\ processed = {}
    /\ overwrote = FALSE
    /\ errors = 0

queueVars == <<hidden, receipts, removed, processed>>
Errs == errors < MaxErrors /\ errors' = errors + 1

------------------------------------------------------------------------------
(* consume(): setupQueue and ensureSubscription                            *)

SqsConsume(s) ==
    /\ sub[s].pc = "idle"
    /\ sub' = [sub EXCEPT ![s].pc = IF sub[s].stopping THEN "rejected" ELSE "policy"]
    /\ UNCHANGED <<policy, poller, queueVars, overwrote, errors>>

\* The topic and the queue are there: GetQueueAttributes.
PolicyRead(s) ==
    /\ sub[s].pc = "policy"
    /\ sub' = [sub EXCEPT ![s].pc = "setPolicy", ![s].read = policy]
    /\ overwrote' = (overwrote \/ \E r \in Subscribers : sub[r].pc = "setPolicy")
    /\ UNCHANGED <<policy, poller, queueVars, errors>>

\* mergeQueuePolicy and SetQueueAttributes: the topic's own statement is added to
\* what was read or replaces what it was.
PolicyMerged(s) ==
    /\ sub[s].pc = "setPolicy"
    /\ policy' = sub[s].read \cup {ArnOf[s]}
    /\ sub' = [sub EXCEPT ![s].pc = "subscribe", ![s].read = {}]
    /\ UNCHANGED <<poller, queueVars, overwrote, errors>>

\* The subscription is there, and consume() goes on: its loops begin.
QueueReady(s) ==
    /\ sub[s].pc = "subscribe"
    /\ IF sub[s].stopping
       THEN sub' = [sub EXCEPT ![s].pc = "rejected"] /\ UNCHANGED poller
       ELSE /\ sub' = [sub EXCEPT ![s].pc = "ready"]
            /\ poller' = [l \in PollLoops |-> IF l[1] = s THEN [poller[l] EXCEPT !.pc = "receive"]
                                          ELSE poller[l]]
    /\ UNCHANGED <<policy, queueVars, overwrote, errors>>

\* A request of the provisioning is rejected; consume() may be called again.
ProvisioningFails(s) ==
    /\ Errs
    /\ sub[s].pc \in {"policy", "setPolicy", "subscribe"}
    /\ sub' = [sub EXCEPT ![s].pc = "idle", ![s].read = {}]
    /\ UNCHANGED <<policy, poller, queueVars, overwrote>>

------------------------------------------------------------------------------
(* startPolling()                                                          *)

\* The loop is at the head of `while` or `for`, with the rest of a batch: the next
\* message is handed to the handler, or deleted at once if it cannot be decoded.
LoopGoes(l, rest) ==
    poller' = [poller EXCEPT ![l] =
        IF sub[l[1]].stopped THEN [pc |-> "done", batch |-> <<>>]
        ELSE [batch |-> rest,
              pc |-> IF rest = <<>> THEN "receive"
                     ELSE IF Head(rest).msg \in Unreadable THEN "delete" ELSE "handling"]]

Available == (Messages \ hidden) \ removed

\* ReceiveMessage answers with one to BatchSize messages, in any order.
Received(l) ==
    \E n \in 1 .. BatchSize :
    \E ms \in [1 .. n -> Available] :
        /\ poller[l].pc = "receive"
        /\ \A i, j \in 1 .. n : ms[i] = ms[j] => i = j
        /\ \A i \in 1 .. n : receipts[ms[i]] < MaxReceipts
        /\ hidden' = hidden \cup {ms[i] : i \in 1 .. n}
        /\ receipts' = [m \in Messages |-> IF \E i \in 1 .. n : ms[i] = m THEN receipts[m] + 1
                                           ELSE receipts[m]]
        /\ LoopGoes(l, [i \in 1 .. n |-> Receipt(ms[i])])
        /\ UNCHANGED <<policy, sub, removed, processed, overwrote, errors>>

\* It answers with none; the loop waits a moment and looks whether it is stopped.
ReceivedNone(l) ==
    /\ poller[l].pc = "receive"
    /\ sub[l[1]].stopped
    /\ LoopGoes(l, <<>>)
    /\ UNCHANGED <<policy, sub, queueVars, overwrote, errors>>

MessageHandled(l) ==
    /\ poller[l].pc = "handling"
    /\ poller' = [poller EXCEPT ![l].pc = "delete"]
    /\ processed' = processed \cup {Head(poller[l].batch).msg}
    /\ UNCHANGED <<policy, sub, hidden, receipts, removed, overwrote, errors>>

\* DeleteMessage.  With a handle that is not the last one SQS may delete or not.
MessageDeleted(l) ==
    LET r == Head(poller[l].batch)
    IN  /\ poller[l].pc = "delete"
        /\ \/ removed' = removed \cup {r.msg}
           \/ r.handle # receipts[r.msg] /\ UNCHANGED removed
        /\ hidden' = hidden \ removed'
        /\ LoopGoes(l, Tail(poller[l].batch))
        /\ UNCHANGED <<policy, sub, receipts, processed, overwrote, errors>>

\* A request or the handler rejects: the rest of the batch is left to its timeout.
PollFails(l) ==
    /\ Errs
    /\ poller[l].pc \in {"receive", "handling", "delete"}
    /\ poller' = [poller EXCEPT ![l] = [pc |-> IF sub[l[1]].stopped THEN "done" ELSE "delay",
                                        batch |-> <<>>]]
    /\ UNCHANGED <<policy, sub, queueVars, overwrote>>

DelayOver(l) ==
    /\ poller[l].pc = "delay"
    /\ LoopGoes(l, <<>>)
    /\ UNCHANGED <<policy, sub, queueVars, overwrote, errors>>

\* The visibility timeout of a message ends, though its handler may still run.
VisibilityEnds(m) ==
    /\ m \in hidden
    /\ receipts[m] < MaxReceipts
    /\ hidden' = hidden \ {m}
    /\ UNCHANGED <<policy, sub, poller, receipts, removed, processed, overwrote, errors>>

------------------------------------------------------------------------------
(* close()                                                                 *)

SqsClose(s) ==
    /\ ~sub[s].stopping
    /\ sub' = [sub EXCEPT ![s].stopping = TRUE]
    /\ UNCHANGED <<policy, poller, queueVars, overwrote, errors>>

\* drainAndClose() has awaited the setup: the loops are told to stop.
SqsStops(s) ==
    /\ sub[s].stopping /\ ~sub[s].stopped
    /\ sub[s].pc \notin {"policy", "setPolicy", "subscribe"}
    /\ sub' = [sub EXCEPT ![s].stopped = TRUE]
    /\ UNCHANGED <<policy, poller, queueVars, overwrote, errors>>

\* Mutant: the client is destroyed before the loops are drained.
SqsDrained_early(s) ==
    /\ sub[s].stopped /\ ~sub[s].closed
    /\ sub' = [sub EXCEPT ![s].closed = TRUE]
    /\ UNCHANGED <<policy, poller, queueVars, overwrote, errors>>

\* All its loops have ended: the client is destroyed.
SqsDrained(s) ==
    /\ sub[s].stopped /\ ~sub[s].closed
    /\ \A n \in Pollers : poller[<<s, n>>].pc \in {"off", "done"}
    /\ sub' = [sub EXCEPT ![s].closed = TRUE]
    /\ UNCHANGED <<policy, poller, queueVars, overwrote, errors>>

------------------------------------------------------------------------------
ProvisionStep(s) == PolicyRead(s) \/ PolicyMerged(s) \/ QueueReady(s)
PollStep(l) ==
    \/ Received(l) \/ ReceivedNone(l)
    \/ MessageHandled(l) \/ MessageDeleted(l)
    \/ DelayOver(l)
CloseStep(s) == SqsStops(s) \/ SqsDrained(s)

SqsNext ==
    \/ \E s \in Subscribers : SqsConsume(s) \/ ProvisionStep(s) \/ ProvisioningFails(s)
    \/ \E l \in PollLoops : PollStep(l) \/ PollFails(l)
    \/ \E m \in Messages : VisibilityEnds(m)
    \/ \E s \in Subscribers : SqsClose(s) \/ CloseStep(s)

\* Requests are answered, handlers settle, timers and visibility timeouts end.
SqsGoesOn ==
    \/ \E s \in Subscribers : ProvisionStep(s) \/ CloseStep(s)
    \/ \E l \in PollLoops : PollStep(l)
    \/ \E m \in Messages : VisibilityEnds(m)

------------------------------------------------------------------------------
(* Properties                                                              *)

\* A message leaves the queue only after a handler resolved on it or when it cannot be
\* decoded, however often it was received, by whom, and with whichever handle.
RemovedWasProcessed == removed \subseteq processed \cup Unreadable

\* close() resolves only when no loop of the subscriber has a message in hand: no
\* handler runs and no request is sent after the client is destroyed.
ClosedIsDrained ==
    \A s \in Subscribers : sub[s].closed =>
        /\ sub[s].pc \in {"idle", "ready", "rejected"}
        /\ \A n \in Pollers : poller[<<s, n>>].pc \in {"off", "done"}

\* Provisioning keeps every other statement of the queue policy: those of CAP's other
\* topics and those of others, unless two provisionings read the same policy.
PolicyKept ==
    ~overwrote => /\ Foreign \in policy
                  /\ \A s \in Subscribers : sub[s].pc = "ready" => ArnOf[s] \in policy

\* close() always comes to its end.
CloseEnds == <>[](\A s \in Subscribers : sub[s].stopping => sub[s].closed)

\* While a subscriber polls, a message is received until it is removed (or the model
\* runs out of receipts).
MessageEnds ==
    <>[]((\E s \in Subscribers : sub[s].pc = "ready" /\ ~sub[s].stopping)
            => \A m \in Messages : m \in removed \/ receipts[m] = MaxReceipts)
=============================================================================
