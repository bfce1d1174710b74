-------------------------- MODULE RabbitSubscriber --------------------------
(***************************************************************************)
(* RabbitMqSubscriber: one connection with one channel, the consumers on   *)
(* it, and two retry loops that may each bring up another one: the loop    *)
(* behind initialize() and the one behind scheduleRecovery().              *)
(*                                                                         *)
(* A link is a connection with its channel.  The fields `connection` and   *)
(* `channel` of the class are always set and cleared together: `current`.  *)
(* A step is the synchronous code between two awaits.                      *)
(***************************************************************************)
EXTENDS Naturals, FiniteSets

CONSTANTS
    Subs,               \* (topic, group) pairs
    Groups,             \* consumer groups; each has one queue
    GroupOf,            \* the group of a subscription
    Msgs,               \* messages
    Loads,              \* the sets of them the queues may begin with
    TopicOf,            \* the subscription a message is for
    Requeue,            \* requeueOnHandlerError
    Attempts,           \* reconnect.attempts
    Concurrent,         \* whether consume() calls overlap (dynamic subscribe())
    Overlap,            \* bound: whether a run is followed after its loops overlapped
    MaxLinks,           \* bound on connections
    MaxTags,            \* bound on deliveries over one channel
    MaxFaults           \* bound on lost links, refused connections, cancels, per load

ASSUME RabbitAssumption ==
    /\ GroupOf \in [Subs -> Groups]
    /\ TopicOf \in [Msgs -> Subs]
    /\ Subs \cap {"initialize", "recovery"} = {}    \* a call is neither of the loops
    /\ {Requeue, Concurrent, Overlap} \subseteq BOOLEAN
    /\ {Attempts, MaxLinks} \subseteq Nat \ {0}
    /\ MaxTags \in Nat
    /\ Loads \subseteq SUBSET Msgs /\ MaxFaults \in [Loads -> Nat]

VARIABLES
    disposed,
    current,            \* the link in this.connection and this.channel, or 0
    subscriptions,      \* keys of the subscriptions map
    groups,             \* groups map: the GroupConsumer object, or NoGroup
    links,
    procs,              \* the two retry loops, and the consume() call of each subscription
    closer,             \* the close() in progress
    canceller,          \* the dispatchDelivery(null) in progress
    queue,              \* the broker's view of each message
    unacked,            \* deliveries the broker awaits a settlement of
    runs,               \* handlers that run
    handled,            \* history: messages whose handler resolved
    crossed,            \* history: a loop began beside the other, or beside a link in use
    faults

vars == <<disposed, current, subscriptions, groups, links, procs, closer,
          canceller, queue, unacked, runs, handled, crossed, faults>>

connectionVars == <<disposed, current, groups, links, crossed>>
brokerVars     == <<queue, unacked>>
handlerVars    == <<runs, handled>>
closeVars      == <<closer, canceller>>

Links == 1 .. MaxLinks
Loops == {"initialize", "recovery"}
Procs == Loops \cup Subs

\* A GroupConsumer object is told apart by who created it, on which link.
Objects == Procs \X Links \X Groups
NoGroup == <<>>

\* heard: the close listeners of the class are attached.  tags: deliveries made.
\* consumers: of each group.  tagged: the GroupConsumers that got their consumerTag on
\* it, which those keep that are in use when it is gone.
Link == [state : {"unused", "open", "closed"}, heard : BOOLEAN,
         tags : 0 .. MaxTags, consumers : [Groups -> Nat], tagged : SUBSET Objects]
Unused == [state |-> "unused", heard |-> FALSE, tags |-> 0,
           consumers |-> [g \in Groups |-> 0], tagged |-> {}]
Opened == [Unused EXCEPT !.state = "open", !.heard = TRUE]
InUse(l) == {procs[p].obj : p \in {q \in Procs : procs[q].link # l}}
                \cup {groups'[g] : g \in Groups}
ClosedLink(l) == [Unused EXCEPT !.state = "closed", !.tagged = links[l].tagged \cap InUse(l)]
Open(l) == l # 0 /\ links[l].state = "open"
Tagged(obj) == \E l \in Links : obj \in links[l].tagged

\* "queue", "bind" and "attach" are the awaits of restoreSubscription, for the
\* subscription in `sub` and the groupConsumer `obj`; a call is "waiting" for
\* initialize(), which "resolved" or "rejected".
Proc == [pc : {"idle", "connecting", "setup", "dropping", "delay", "queue", "bind",
               "attach", "waiting", "resolved", "rejected"},
         attempt : 0 .. Attempts, link : 0 .. MaxLinks, visited : SUBSET Subs,
         sub : SUBSET Subs, obj : {NoGroup} \cup Objects]
Idle == [pc |-> "idle", attempt |-> 0, link |-> 0, visited |-> {}, sub |-> {},
         obj |-> NoGroup]
Connecting(attempt) == [Idle EXCEPT !.pc = "connecting", !.attempt = attempt]
Restoring(proc) == proc.pc \in {"queue", "bind", "attach"}
SubOf(proc)     == CHOOSE s \in proc.sub : TRUE
Running(loop)   == procs[loop].pc # "idle"

Init ==
    /\ disposed = FALSE
    /\ current = 0
    /\ subscriptions = {}
    /\ groups = [g \in Groups |-> NoGroup]
    /\ links = [l \in Links |-> Unused]
    /\ procs = [p \in Procs |-> Idle]
    /\ closer = [pc |-> "idle", link |-> 0]
    /\ canceller = [pc |-> "idle", link |-> 0]
    /\ \E load \in Loads : queue = [m \in Msgs |-> IF m \in load THEN "ready" ELSE "none"]
    /\ unacked = {}
    /\ runs = {}
    /\ handled = {}
    /\ crossed = FALSE
    /\ faults = 0

Load == {m \in Msgs : queue[m] # "none"}
Faulty == faults < MaxFaults[Load] /\ faults' = faults + 1
\* Bound: a link to begin with and one for each fault.
Dialled == {l \in Links : l <= MaxFaults[Load] + 1}

\* The awaited call has been rejected, or the awaited initialize() has settled:
\* the continuation runs before the next event of the network.  (Nor does anything
\* but a continuation happen past the bound Overlap.)
Doomed(p) == (procs[p].pc = "setup" \/ Restoring(procs[p])) /\ ~Open(procs[p].link)
Urgent == (crossed /\ ~Overlap) \/ \E p \in Procs : Doomed(p) \/ procs[p].pc \in {"resolved", "rejected"}

------------------------------------------------------------------------------
(* Losing a link                                                           *)

\* The loops after scheduleRecovery, and whether it began beside another.
ScheduleRecovery(ps) ==
    IF disposed \/ Running("recovery") THEN ps
    ELSE [ps EXCEPT !["recovery"] = Connecting(1)]

\* The broker gives back what these links had not settled.
CloseLinks(lost) ==
    /\ links' = [l \in Links |-> IF l \in lost /\ Open(l) THEN ClosedLink(l) ELSE links[l]]
    /\ unacked' = {u \in unacked : u.link \notin lost}
    /\ queue' = [m \in Msgs |-> IF \E u \in unacked : u.msg = m /\ u.link \in lost
                                 THEN "ready" ELSE queue[m]]

\* Mutant: no recovery is scheduled.
LinkCloses_gone(l) ==
    /\ current' = IF links[l].heard THEN 0 ELSE current
    /\ groups' = IF links[l].heard THEN [g \in Groups |-> NoGroup] ELSE groups
    /\ CloseLinks(IF links[l].heard THEN {l, current} ELSE {l})
    /\ UNCHANGED <<procs, crossed>>

\* Link l closes.  onChannelClose and onConnectionClose take down whatever link
\* is current, which need not be l.
LinkCloses(l) ==
    IF links[l].heard
    THEN /\ current' = 0
         /\ groups' = [g \in Groups |-> NoGroup]
         /\ CloseLinks({l, current})
         /\ procs' = ScheduleRecovery(procs)
         /\ crossed' = (crossed \/ (procs' # procs /\ Running("initialize")))
    ELSE /\ UNCHANGED <<current, groups, procs, crossed>>
         /\ CloseLinks({l})

\* The network or the broker closes a link.
LinkLost(l) ==
    /\ Faulty
    /\ Open(l)
    /\ ~Urgent
    /\ LinkCloses(l)
    /\ UNCHANGED <<disposed, subscriptions, closeVars, handlerVars>>

------------------------------------------------------------------------------
(* restoreSubscription                                                     *)

\* The process begins to restore s on its link; gs is the groups map.
Begins(proc, s, gs) ==
    LET begun == [proc EXCEPT !.sub = {s}, !.visited = @ \cup {s},
                              !.obj = gs[GroupOf[s]]]
    IN  [begun EXCEPT !.pc = IF gs[GroupOf[s]] = NoGroup THEN "queue" ELSE "bind"]

\* What follows initialize() when it settles, for the calls that wait for it.
Resumed(ps, outcome) ==
    [p \in Procs |-> IF ps[p].pc = "waiting" THEN [ps[p] EXCEPT !.pc = outcome] ELSE ps[p]]

LoopEnds(loop, outcome) ==
    LET ended == [procs EXCEPT ![loop] = Idle]
    IN  procs' = IF loop = "initialize" THEN Resumed(ended, outcome) ELSE ended

\* The loop goes on to another subscription of the map, or is done.
RestoresNext(loop, proc, gs) ==
    IF subscriptions \subseteq proc.visited
    THEN LoopEnds(loop, "resolved")
    ELSE \E s \in subscriptions \ proc.visited :
            procs' = [procs EXCEPT ![loop] = Begins(proc, s, gs)]

Restored(p) ==
    IF p \in Loops THEN RestoresNext(p, procs[p], groups)
    ELSE procs' = [procs EXCEPT ![p] = Idle]

\* assertQueue resolves.
QueueAsserted(p) ==
    LET g == GroupOf[SubOf(procs[p])]
        obj == <<p, procs[p].link, g>>
    IN  /\ procs[p].pc = "queue"
        /\ ~Urgent
        /\ groups' = [groups EXCEPT ![g] = obj]
        /\ procs' = [procs EXCEPT ![p].pc = "bind", ![p].obj = obj]
        /\ UNCHANGED <<disposed, current, links, crossed, subscriptions, closeVars,
                       brokerVars, handlerVars, faults>>

\* bindQueue resolves.
QueueBound(p) ==
    /\ procs[p].pc = "bind"
    /\ ~Urgent
    /\ IF Tagged(procs[p].obj) THEN Restored(p)
       ELSE procs' = [procs EXCEPT ![p].pc = "attach"]
    /\ UNCHANGED <<connectionVars, subscriptions, closeVars, brokerVars, handlerVars, faults>>

\* channel.consume resolves.
Attached(p) ==
    LET proc == procs[p]
    IN  /\ proc.pc = "attach"
        /\ ~Urgent
        /\ links' = [links EXCEPT ![proc.link].consumers[GroupOf[SubOf(proc)]] = @ + 1,
                                  ![proc.link].tagged = @ \cup {proc.obj}]
        /\ Restored(p)
        /\ UNCHANGED <<disposed, current, groups, crossed, subscriptions, closeVars,
                       brokerVars, handlerVars, faults>>

------------------------------------------------------------------------------
(* connectAndRestore in the two retry loops                                *)

\* An attempt throws: the next one waits for its backoff.  Only the recovery is
\* given shouldStop.
AttemptThrows(loop) ==
    IF procs[loop].attempt = Attempts \/ (loop = "recovery" /\ disposed)
    THEN LoopEnds(loop, "rejected")
    ELSE procs' = [procs EXCEPT ![loop] =
                      [Idle EXCEPT !.pc = "delay", !.attempt = procs[loop].attempt]]

Connected(loop, l) ==
    /\ procs[loop].pc = "connecting"
    /\ ~Urgent
    /\ l \in Dialled /\ links[l].state = "unused"
    /\ \A k \in 1 .. l - 1 : links[k].state # "unused"
    /\ links' = [links EXCEPT ![l] = Opened]
    /\ procs' = [procs EXCEPT ![loop].pc = "setup", ![loop].link = l]
    /\ UNCHANGED <<disposed, current, groups, crossed, subscriptions, closeVars, brokerVars,
                   handlerVars, faults>>

ConnectionRefused(loop) ==
    /\ Faulty
    /\ procs[loop].pc = "connecting"
    /\ ~Urgent
    /\ AttemptThrows(loop)
    /\ UNCHANGED <<connectionVars, subscriptions, closeVars, brokerVars, handlerVars>>

\* The channel and the exchange are there: the link becomes the current one.
LinkSetUp(loop) ==
    /\ procs[loop].pc = "setup"
    /\ ~Urgent
    /\ IF disposed
       THEN /\ procs' = [procs EXCEPT ![loop].pc = "dropping"]
            /\ UNCHANGED <<current, groups>>
       ELSE /\ current' = procs[loop].link
            /\ groups' = [g \in Groups |-> NoGroup]
            /\ RestoresNext(loop, procs[loop], groups')
    /\ UNCHANGED <<disposed, links, crossed, subscriptions, closeVars, brokerVars, handlerVars,
                   faults>>

\* The link of a subscriber that was closed meanwhile is closed; its listeners are
\* still attached, and a recovery cannot be scheduled as one is pending or disposed
\* holds.
LinkDropped(loop) ==
    /\ procs[loop].pc = "dropping"
    /\ ~Urgent
    /\ current' = 0
    /\ groups' = [g \in Groups |-> NoGroup]
    /\ CloseLinks({procs[loop].link, current})
    /\ LoopEnds(loop, "resolved")
    /\ UNCHANGED <<disposed, crossed, subscriptions, closeVars, handlerVars, faults>>

\* The attempt's link was lost under one of its awaits: the catch clause.
AttemptFails(loop) ==
    /\ Doomed(loop)
    /\ AttemptThrows(loop)
    /\ UNCHANGED <<connectionVars, subscriptions, closeVars, brokerVars, handlerVars, faults>>

Retry(loop) ==
    /\ procs[loop].pc = "delay"
    /\ ~Urgent
    /\ IF loop = "recovery" /\ disposed THEN LoopEnds(loop, "rejected")
       ELSE procs' = [procs EXCEPT ![loop] = Connecting(procs[loop].attempt + 1)]
    /\ UNCHANGED <<connectionVars, subscriptions, closeVars, brokerVars, handlerVars, faults>>

------------------------------------------------------------------------------
(* initialize(), consume() and close()                                     *)

\* The runtimes await close() before they begin anew.
CallerActs == ~Urgent /\ closer.pc # "closing"

\* initialize() up to its first await, with the processes ps.
Initializes(ps) ==
    IF Running("initialize") THEN procs' = ps /\ UNCHANGED <<disposed, crossed>>
    ELSE /\ disposed' = FALSE
         /\ procs' = [ps EXCEPT !["initialize"] = Connecting(1)]
         /\ crossed' = (crossed \/ Running("recovery") \/ canceller.pc = "closing")

Initialize ==
    /\ CallerActs
    /\ current = 0
    /\ ~Running("initialize")
    /\ Initializes(procs)
    /\ UNCHANGED <<current, groups, links, subscriptions, closeVars, brokerVars, handlerVars,
                   faults>>

Consume(s) ==
    /\ CallerActs
    /\ s \notin subscriptions
    /\ Concurrent \/ \A t \in Subs : procs[t].pc = "idle"
    /\ procs[s].pc = "idle"
    /\ subscriptions' = subscriptions \cup {s}
    /\ IF current = 0
       THEN Initializes([procs EXCEPT ![s] = [Idle EXCEPT !.pc = "waiting"]])
       ELSE /\ procs' = [procs EXCEPT ![s] = Begins([Idle EXCEPT !.link = current], s, groups)]
            /\ UNCHANGED <<disposed, crossed>>
    /\ UNCHANGED <<current, groups, links, closeVars, brokerVars, handlerVars,
                   faults>>

\* The catch clause of consume().
ConsumeRejects(s) ==
    /\ subscriptions' = subscriptions \ {s}
    /\ procs' = [procs EXCEPT ![s] = Idle]

\* consume() after initialize().
ConsumeResumes(s) ==
    /\ procs[s].pc \in {"resolved", "rejected"}
    /\ IF procs[s].pc = "resolved" /\ current # 0
       THEN /\ procs' = [procs EXCEPT ![s] = Begins([Idle EXCEPT !.link = current], s, groups)]
            /\ UNCHANGED subscriptions
       ELSE ConsumeRejects(s)
    /\ UNCHANGED <<connectionVars, closeVars, brokerVars, handlerVars, faults>>

\* The link of a consume() was lost.
ConsumeFails(s) ==
    /\ Doomed(s)
    /\ ConsumeRejects(s)
    /\ UNCHANGED <<connectionVars, closeVars, brokerVars, handlerVars, faults>>

\* close() up to its first await: the link is detached from the class.
Close ==
    /\ closer.pc = "idle"
    /\ ~Urgent
    /\ disposed => current # 0
    /\ disposed' = TRUE
    /\ links' = [l \in Links |-> IF l = current THEN [links[l] EXCEPT !.heard = FALSE]
                                  ELSE links[l]]
    /\ current' = 0
    /\ groups' = [g \in Groups |-> NoGroup]
    /\ closer' = [pc |-> "closing", link |-> current]
    /\ UNCHANGED <<procs, crossed, subscriptions, canceller, brokerVars, handlerVars, faults>>

\* Consumers cancelled, channel and connection closed.  (A rejection is swallowed;
\* amqplib rejects the close only of what is closed already.)  One close() is enough
\* for what is asked, so there is no other.
ClosesLink ==
    /\ closer.pc = "closing"
    /\ ~Urgent
    /\ closer' = [pc |-> "done", link |-> 0]
    /\ UNCHANGED <<disposed, current, groups, crossed, procs, subscriptions, canceller,
                   handlerVars, faults>>
    /\ CloseLinks({closer.link})

------------------------------------------------------------------------------
(* Deliveries                                                              *)

\* ack or nack on link l, of the delivery with this tag on that link.  A link that
\* has no such delivery open is closed by the broker; a closed one throws.
Settle(l, tag, outcome) ==
    LET owed == {u \in unacked : u.link = l /\ u.tag = tag}
    IN  IF ~Open(l) THEN UNCHANGED <<brokerVars, links, current, groups, procs, crossed>>
        ELSE IF owed = {} THEN LinkCloses(l)
        ELSE /\ unacked' = unacked \ owed
             /\ queue' = [m \in Msgs |-> IF \E u \in owed : u.msg = m THEN outcome
                                         ELSE queue[m]]
             /\ UNCHANGED <<links, current, groups, procs, crossed>>

\* The broker sends m over link l, and dispatchDelivery runs to its first await.
Deliver(l, m) ==
    LET g   == GroupOf[TopicOf[m]]
        tag == links[l].tags + 1
        sent == [link |-> l, tag |-> tag, msg |-> m]
    IN  /\ Open(l)
        /\ queue[m] = "ready"
        /\ tag <= MaxTags
        /\ ~Urgent
        /\ Cardinality({u \in unacked : u.link = l /\ GroupOf[TopicOf[u.msg]] = g})
              < links[l].consumers[g]
        /\ links' = [links EXCEPT ![l].tags = tag]
        /\ unacked' = unacked \cup {sent}
        /\ queue' = [queue EXCEPT ![m] = "out"]
        /\ runs' = IF current = 0 THEN runs
                   ELSE runs \cup {[msg |-> m, tag |-> tag, via |-> current,
                                    matched |-> TopicOf[m] \in subscriptions]}
        /\ UNCHANGED <<disposed, current, groups, procs, crossed, subscriptions, closeVars,
                       handled, faults>>

\* No subscription matches: nacked without requeue at once.
Unmatched(r) ==
    /\ r \in runs /\ ~r.matched
    /\ runs' = runs \ {r}
    /\ Settle(r.via, r.tag, "dropped")
    /\ UNCHANGED <<disposed, subscriptions, closeVars, handled, faults>>

\* The handler resolves: ack on the channel captured at dispatch.
HandlerResolves(r) ==
    /\ r \in runs /\ r.matched
    /\ ~Urgent
    /\ runs' = runs \ {r}
    /\ handled' = handled \cup {r.msg}
    /\ Settle(r.via, r.tag, "acked")
    /\ UNCHANGED <<disposed, subscriptions, closeVars, faults>>

\* The handler rejects, or the message is malformed.
HandlerRejects(r) ==
    /\ Faulty
    /\ r \in runs /\ r.matched
    /\ ~Urgent
    /\ runs' = runs \ {r}
    /\ Settle(r.via, r.tag, IF Requeue THEN "ready" ELSE "dropped")
    /\ UNCHANGED <<disposed, subscriptions, closeVars, handled>>

\* dispatchDelivery(null) up to its first await: the broker cancelled a consumer.
ConsumerCancelled(l, g) ==
    /\ Faulty
    /\ Open(l)
    /\ links[l].consumers[g] > 0
    /\ canceller.pc = "idle"
    /\ ~Urgent
    /\ links' = [k \in Links |->
                   [links[k] EXCEPT !.heard = @ /\ k # current,
                                    !.consumers[g] = IF k = l THEN @ - 1 ELSE @]]
    /\ canceller' = [pc |-> "closing", link |-> current]
    /\ current' = 0
    /\ groups' = [h \in Groups |-> NoGroup]
    /\ UNCHANGED <<disposed, procs, crossed, subscriptions, closer, brokerVars, handlerVars>>

\* It has closed the channel and the connection.
CancelRecovers ==
    /\ canceller.pc = "closing"
    /\ ~Urgent
    /\ canceller' = [pc |-> "idle", link |-> 0]
    /\ procs' = ScheduleRecovery(procs)
    /\ crossed' = (crossed \/ (procs' # procs /\ (current # 0 \/ Running("initialize"))))
    /\ UNCHANGED <<disposed, current, groups, subscriptions, closer, handlerVars, faults>>
    /\ CloseLinks({canceller.link})

------------------------------------------------------------------------------
ConnectStep(loop) ==
    \/ \E l \in Links : Connected(loop, l)
    \/ ConnectionRefused(loop)
    \/ LinkSetUp(loop)
    \/ LinkDropped(loop)
    \/ AttemptFails(loop)
    \/ Retry(loop)

RestoreStep(p) ==
    \/ QueueAsserted(p)
    \/ QueueBound(p)
    \/ Attached(p)

Dispatch ==
    \/ \E l \in Links, m \in Msgs : Deliver(l, m)
    \/ \E r \in runs : Unmatched(r) \/ HandlerResolves(r) \/ HandlerRejects(r)
    \/ \E l \in Links, g \in Groups : ConsumerCancelled(l, g)
    \/ CancelRecovers

ConsumeStep(s) == Consume(s) \/ ConsumeResumes(s) \/ ConsumeFails(s)

\* Nothing more happens: no fault is left and nothing is in flight.
Quiet == /\ \/ \A p \in Procs : procs[p].pc = "idle"
            \/ \A l \in Dialled : links[l].state # "unused"
            \/ crossed
         /\ UNCHANGED vars

Next ==
    \/ \E loop \in Loops : ConnectStep(loop)
    \/ \E p \in Procs : RestoreStep(p)
    \/ Initialize
    \/ \E s \in Subs : ConsumeStep(s)
    \/ Close
    \/ ClosesLink
    \/ \E l \in Links : LinkLost(l)
    \/ Dispatch
    \/ Quiet

\* The network answers each request, a timer fires, and each handler settles: no
\* process is left behind.  Nothing is assumed of callers, faults or the broker's
\* choice of what to deliver.
GoesOn ==
    \/ \E loop \in Loops : ConnectStep(loop)
    \/ \E p \in Procs : RestoreStep(p)
    \/ \E s \in Subs : ConsumeResumes(s) \/ ConsumeFails(s)
    \/ ClosesLink
    \/ CancelRecovers
    \/ \E r \in runs : Unmatched(r)

Spec == Init /\ [][Next]_vars /\ WF_vars(GoesOn)

------------------------------------------------------------------------------
(* Properties                                                              *)

\* cap-transport-rabbitmq/README.md:27-28: "The delivery is acknowledged only after
\* the CAP inbound handler resolves".
AckedAfterItsHandler == \A m \in Msgs : queue[m] = "acked" => m \in handled

\* The types of the variables.
TypeOK ==
    /\ disposed \in BOOLEAN /\ crossed \in BOOLEAN
    /\ current \in 0 .. MaxLinks
    /\ subscriptions \subseteq Subs /\ handled \subseteq Msgs
    /\ groups \in [Groups -> Objects \cup {NoGroup}]
    /\ links \in [Links -> Link]
    /\ procs \in [Procs -> Proc]
    /\ queue \in [Msgs -> {"none", "ready", "out", "acked", "dropped"}]
    /\ \A u \in unacked : u.link \in Links /\ u.msg \in Msgs
    /\ \A r \in runs : r.via \in Links /\ r.msg \in Msgs

\* While the loops never overlap, a message is acknowledged only if its own handler
\* resolved: a delivery tag of one channel is never settled on another, whatever
\* was lost and recovered between the delivery and the end of its handler.
AckedWasHandled ==
    ~crossed => \A m \in Msgs : queue[m] = "acked" => m \in handled

\* While the two retry loops never overlap, an open link is the current one, or one
\* that a loop, close() or a consumer cancel is bringing up or taking down: none
\* is left open with consumers nobody knows of (connectAndRestore overwrites
\* this.connection without closing what it held), none once close() is done, and
\* the current link is open but for the moment its own loss takes.
LinksAccounted ==
    ~crossed =>
        /\ \A l \in Links : Open(l) =>
              \/ l = current
              \/ \E loop \in Loops : procs[loop].link = l /\ procs[loop].pc \in {"setup", "dropping"}
              \/ l \in {closer.link, canceller.link}
        /\ current # 0 => Open(current) /\ ~disposed

\* Once faults cease, a subscriber that is not closed gets every subscription it
\* accepted a consumer on its current link, if the faults were fewer than the attempts
\* of a loop: after as many a recovery stops for good ("stopped after bounded
\* retries"), and nothing but initialize() brings up a link again.  It is not claimed
\* of a subscriber whose loops overlapped (or where the model has no link left).
Recovered == \A s \in subscriptions :
    current # 0 /\ links[current].consumers[GroupOf[s]] > 0
Exhausted == current = 0 /\ \A l \in Dialled : links[l].state # "unused"
Recovers == <>[](disposed \/ crossed \/ faults >= Attempts \/ Recovered \/ Exhausted)
=============================================================================
