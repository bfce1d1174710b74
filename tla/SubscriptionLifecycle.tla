----------------------- MODULE SubscriptionLifecycle ------------------------
(***************************************************************************)
(* The subscription lifecycle of CapEngine: registerSubscription,          *)
(* startSubscriptions, stopSubscriptions and subscribe over one shared     *)
(* subscriber, whose consume() and close() are promises that settle later. *)
(*                                                                         *)
(* A step is the synchronous code between two awaits.  The finally clause  *)
(* of the shared promise and the continuations behind it run in later      *)
(* microtasks, so they are steps of their own.                             *)
(***************************************************************************)
EXTENDS Naturals, FiniteSets

CONSTANTS
    Subs,               \* (topic, group) pairs
    Callers,            \* concurrent callers of start and stop
    Styles,             \* how the application may use the engine
    MaxFaults,          \* bound on rejected consume() and close() calls
    MaxCalls            \* bound on the calls of the application

ASSUME LifecycleAssumption ==
    /\ Styles \subseteq {"tasks", "continuations", "dynamic"}
    /\ MaxFaults \in Nat
    /\ MaxCalls \in Nat

\* An application that calls "tasks" registers, starts and stops from timers,
\* sockets and requests; one that calls "continuations" does so from promise
\* continuations too; a "dynamic" one also calls subscribe().
VARIABLES
    style,              \* which of them this application is
    lifecycle,          \* CapSubscriptionLifecycleState
    registered,         \* keys of the subscriptions map
    attached,           \* ... whose descriptor has attached = true
    stopRequested,
    shutdownIncomplete,
    starter,            \* doStartSubscriptions behind startPromise
    stopper,            \* doStopSubscriptions behind stopPromise
    adding,             \* subscribe() calls awaiting consume()
    callers,            \* what each caller awaits
    faults,             \* rejected calls so far
    calls               \* calls so far

vars == <<style, lifecycle, registered, attached, stopRequested, shutdownIncomplete,
          starter, stopper, adding, callers, faults, calls>>

Outcome == {"none", "resolved", "rejected"}

\* "attaching" awaits consume() of cur; "settled" has returned, and the finally
\* clause has yet to clear the promise.
Starter == [pc : {"none", "attaching", "settled"},
            todo : SUBSET Subs, cur : SUBSET Subs, outcome : Outcome]

\* "waiting" awaits startPromise, which has settled in "resuming"; "closing"
\* awaits close().
Stopper == [pc : {"none", "waiting", "resuming", "closing", "settled"},
            outcome : Outcome]

NoStart == [pc |-> "none", todo |-> {}, cur |-> {}, outcome |-> "none"]
NoStop  == [pc |-> "none", outcome |-> "none"]

StartSettled(outcome) == [NoStart EXCEPT !.pc = "settled", !.outcome = outcome]
StopSettled(outcome)  == [pc |-> "settled", outcome |-> outcome]

Init ==
    /\ style \in Styles
    /\ lifecycle = "idle"
    /\ registered = {}
    /\ attached = {}
    /\ stopRequested = FALSE
    /\ shutdownIncomplete = FALSE
    /\ starter = NoStart
    /\ stopper = NoStop
    /\ adding = {}
    /\ callers = [c \in Callers |-> "idle"]
    /\ faults = 0
    /\ calls = 0

\* Subscriptions some consume() is outstanding for.
Consuming == starter.cur \cup adding

\* A continuation is queued: timers, sockets and requests come after it.
MicrotaskQueued ==
    \/ starter.pc = "settled"
    \/ stopper.pc \in {"resuming", "settled"}
    \/ \E c \in Callers : callers[c] = "again"

\* The application makes a call.
CallsIn ==
    /\ style = "tasks" => ~MicrotaskQueued
    /\ calls < MaxCalls
    /\ calls' = calls + 1

Rejected == faults < MaxFaults /\ faults' = faults + 1

------------------------------------------------------------------------------
(* Registration                                                            *)

RegisterSubscription(s) ==
    /\ CallsIn
    /\ lifecycle \notin {"starting", "stopping", "ready"}
    /\ s \notin registered
    /\ registered' = registered \cup {s}
    /\ UNCHANGED <<style, lifecycle, attached, stopRequested, shutdownIncomplete,
                   starter, stopper, adding, callers, faults>>

------------------------------------------------------------------------------
(* Starting                                                                *)

\* Mutant: attached descriptors are not filtered out.
BeginAttaching_all ==
    \/ /\ registered = {}
       /\ lifecycle' = "ready"
       /\ starter' = StartSettled("resolved")
    \/ \E s \in registered :
         /\ lifecycle' = "starting"
         /\ starter' = [pc |-> "attaching", todo |-> registered \ {s},
                        cur |-> {s}, outcome |-> "none"]

\* doStartSubscriptions up to its first await.
BeginAttaching ==
    LET unattached == registered \ attached
    IN \/ /\ unattached = {}
          /\ lifecycle' = "ready"
          /\ starter' = StartSettled("resolved")
       \/ \E s \in unattached :
            /\ lifecycle' = "starting"
            /\ starter' = [pc |-> "attaching", todo |-> unattached \ {s},
                           cur |-> {s}, outcome |-> "none"]

\* startSubscriptions: ready at once, after the stop in progress, rejected, or
\* behind the shared or a fresh start.
Start(c) ==
    \/ /\ lifecycle = "ready"
       /\ callers' = [callers EXCEPT ![c] = "idle"]
       /\ UNCHANGED <<lifecycle, stopRequested, starter>>
    \/ /\ lifecycle = "stopping" /\ stopper # NoStop
       /\ callers' = [callers EXCEPT ![c] = "restart"]
       /\ UNCHANGED <<lifecycle, stopRequested, starter>>
    \/ /\ lifecycle # "ready"
       /\ ~(lifecycle = "stopping" /\ stopper # NoStop)
       /\ \/ /\ shutdownIncomplete
             /\ callers' = [callers EXCEPT ![c] = "idle"]
             /\ UNCHANGED <<lifecycle, stopRequested, starter>>
          \/ /\ ~shutdownIncomplete
             /\ callers' = [callers EXCEPT ![c] = "start"]
             /\ \/ starter # NoStart /\ UNCHANGED <<lifecycle, stopRequested, starter>>
                \/ starter = NoStart /\ stopRequested' = FALSE /\ BeginAttaching

StartSubscriptions(c) ==
    /\ CallsIn
    /\ callers[c] = "idle"
    /\ Start(c)
    /\ UNCHANGED <<style, registered, attached, shutdownIncomplete, stopper, adding, faults>>

\* Mutant: doStartSubscriptions is called instead, without the guards.
StartAgain_unguarded(c) ==
    /\ callers[c] = "again"
    /\ starter = NoStart
    /\ callers' = [callers EXCEPT ![c] = "start"]
    /\ BeginAttaching
    /\ UNCHANGED <<style, registered, attached, stopRequested, shutdownIncomplete,
                   stopper, adding, faults, calls>>

\* The stop a start waited for is over: startSubscriptions is called again.
StartAgain(c) ==
    /\ callers[c] = "again"
    /\ Start(c)
    /\ UNCHANGED <<style, registered, attached, shutdownIncomplete, stopper, adding, faults, calls>>

\* consume() resolves: the next one, or the end, early if a stop is requested.
StartConsumed ==
    /\ starter.pc = "attaching"
    /\ attached' = attached \cup starter.cur
    /\ \/ /\ stopRequested
          /\ starter' = StartSettled("resolved")
          /\ lifecycle' = lifecycle
       \/ /\ ~stopRequested
          /\ starter.todo = {}
          /\ starter' = StartSettled("resolved")
          /\ lifecycle' = "ready"
       \/ /\ ~stopRequested
          /\ \E s \in starter.todo :
               starter' = [starter EXCEPT !.todo = @ \ {s}, !.cur = {s}]
          /\ lifecycle' = lifecycle
    /\ UNCHANGED <<style, registered, stopRequested, shutdownIncomplete, stopper, adding,
                   callers, faults, calls>>

StartFailed ==
    /\ starter.pc = "attaching"
    /\ Rejected
    /\ starter' = StartSettled("rejected")
    /\ lifecycle' = "failed"
    /\ UNCHANGED <<style, registered, attached, stopRequested, shutdownIncomplete, stopper,
                   adding, callers, calls>>

\* The finally clause clears startPromise; its callers and a waiting stop go on.
StartCleared ==
    /\ starter.pc = "settled"
    /\ starter' = NoStart
    /\ callers' = [c \in Callers |-> IF callers[c] = "start" THEN "idle" ELSE callers[c]]
    /\ stopper' = IF stopper.pc = "waiting" THEN [stopper EXCEPT !.pc = "resuming"]
                                            ELSE stopper
    /\ UNCHANGED <<style, lifecycle, registered, attached, stopRequested, shutdownIncomplete,
                   adding, faults, calls>>

------------------------------------------------------------------------------
(* Stopping                                                                *)

\* doStopSubscriptions up to its first await.
BeginStopping ==
    \/ /\ starter # NoStart
       /\ stopper' = [NoStop EXCEPT !.pc = "waiting"]
       /\ lifecycle' = lifecycle
    \/ /\ starter = NoStart
       /\ stopper' = [NoStop EXCEPT !.pc = "closing"]
       /\ lifecycle' = "stopping"

\* stopSubscriptions: behind the shared or a fresh stop.
Stop(c) ==
    /\ lifecycle # "stopped"
    /\ callers' = [callers EXCEPT ![c] = "stop"]
    /\ \/ stopper # NoStop /\ UNCHANGED <<lifecycle, stopRequested, stopper>>
       \/ stopper = NoStop /\ stopRequested' = TRUE /\ BeginStopping

StopSubscriptions(c) ==
    /\ CallsIn
    /\ callers[c] = "idle"
    /\ Stop(c)
    /\ UNCHANGED <<style, registered, attached, shutdownIncomplete, starter, adding, faults>>

\* The start a stop waited for has settled, one way or the other.
StopResumes ==
    /\ stopper.pc = "resuming"
    /\ stopper' = [stopper EXCEPT !.pc = "closing"]
    /\ lifecycle' = "stopping"
    /\ UNCHANGED <<style, registered, attached, stopRequested, shutdownIncomplete, starter,
                   adding, callers, faults, calls>>

\* Mutant: the descriptors stay attached.
StopClosed_keepsAttached ==
    /\ stopper.pc = "closing"
    /\ stopper' = StopSettled("resolved")
    /\ shutdownIncomplete' = FALSE
    /\ lifecycle' = "stopped"
    /\ UNCHANGED <<style, registered, attached, stopRequested, starter, adding, callers,
                   faults, calls>>

\* close() resolves.
StopClosed ==
    /\ stopper.pc = "closing"
    /\ stopper' = StopSettled("resolved")
    /\ attached' = {}
    /\ shutdownIncomplete' = FALSE
    /\ lifecycle' = "stopped"
    /\ UNCHANGED <<style, registered, stopRequested, starter, adding, callers, faults, calls>>

\* Mutant: the lifecycle is left as it was.
StopFailed_keepsState ==
    /\ stopper.pc = "closing"
    /\ Rejected
    /\ stopper' = StopSettled("rejected")
    /\ shutdownIncomplete' = TRUE
    /\ UNCHANGED <<style, lifecycle, registered, attached, stopRequested, starter, adding,
                   callers, calls>>

StopFailed ==
    /\ stopper.pc = "closing"
    /\ Rejected
    /\ stopper' = StopSettled("rejected")
    /\ shutdownIncomplete' = TRUE
    /\ lifecycle' = "failed"
    /\ UNCHANGED <<style, registered, attached, stopRequested, starter, adding, callers, calls>>

\* The finally clause clears stopPromise; its callers and queued starts go on.
StopCleared ==
    /\ stopper.pc = "settled"
    /\ stopper' = NoStop
    /\ stopRequested' = FALSE
    /\ callers' = [c \in Callers |-> CASE callers[c] = "stop"    -> "idle"
                                       [] callers[c] = "restart" -> "again"
                                       [] OTHER                  -> callers[c]]
    /\ UNCHANGED <<style, lifecycle, registered, attached, shutdownIncomplete, starter,
                   adding, faults, calls>>

------------------------------------------------------------------------------
(* Dynamic subscriptions                                                   *)

Subscribe(s) ==
    /\ style = "dynamic"
    /\ CallsIn
    /\ s \notin registered
    /\ ~shutdownIncomplete
    /\ lifecycle \notin {"starting", "stopping"}
    /\ registered' = registered \cup {s}
    /\ adding' = adding \cup {s}
    /\ UNCHANGED <<style, lifecycle, attached, stopRequested, shutdownIncomplete, starter,
                   stopper, callers, faults>>

SubscribeConsumed(s) ==
    /\ s \in adding
    /\ adding' = adding \ {s}
    /\ attached' = attached \cup {s}
    /\ lifecycle' = IF lifecycle \notin {"starting", "stopping"} /\ registered \subseteq attached'
                    THEN "ready" ELSE lifecycle
    /\ UNCHANGED <<style, registered, stopRequested, shutdownIncomplete, starter, stopper,
                   callers, faults, calls>>

SubscribeFailed(s) ==
    /\ s \in adding
    /\ Rejected
    /\ adding' = adding \ {s}
    /\ lifecycle' = "failed"
    /\ UNCHANGED <<style, registered, attached, stopRequested, shutdownIncomplete, starter,
                   stopper, callers, calls>>

------------------------------------------------------------------------------
\* The application is free to make no further call.
Done ==
    /\ starter = NoStart
    /\ stopper = NoStop
    /\ adding = {}
    /\ \A c \in Callers : callers[c] = "idle"
    /\ UNCHANGED vars

StartStep == StartConsumed \/ StartFailed \/ StartCleared

StopStep == StopResumes \/ StopClosed \/ StopFailed \/ StopCleared

SubscribeStep(s) == SubscribeConsumed(s) \/ SubscribeFailed(s)

Next ==
    \/ StartStep \/ StopStep
    \/ \E c \in Callers : StartSubscriptions(c) \/ StartAgain(c) \/ StopSubscriptions(c)
    \/ \E s \in Subs : RegisterSubscription(s) \/ Subscribe(s) \/ SubscribeStep(s)
    \/ Done

Spec == Init /\ [][Next]_vars

\* consume() and close() settle, and queued continuations run.
Fairness ==
    /\ WF_vars(StartStep) /\ WF_vars(StopStep)
    /\ \A c \in Callers : WF_vars(StartAgain(c))
    /\ \A s \in Subs : WF_vars(SubscribeStep(s))

FairSpec == Spec /\ Fairness

------------------------------------------------------------------------------
(* Properties                                                              *)

TypeOK ==
    /\ style \in Styles
    /\ lifecycle \in {"idle", "starting", "ready", "failed", "stopping", "stopped"}
    /\ registered \subseteq Subs
    /\ attached \subseteq registered
    /\ stopRequested \in BOOLEAN
    /\ shutdownIncomplete \in BOOLEAN
    /\ starter \in Starter
    /\ stopper \in Stopper
    /\ adding \subseteq registered
    /\ callers \in [Callers -> {"idle", "start", "stop", "restart", "again"}]
    /\ faults \in 0 .. MaxFaults
    /\ calls \in 0 .. MaxCalls

\* With no call in progress the lifecycle is not left "starting" (by a start
\* that was aborted) or "stopping": somebody finishes the transition.
NoLimbo ==
    /\ starter = NoStart
    /\ stopper = NoStop
    /\ \A c \in Callers : callers[c] # "again"
    => lifecycle \notin {"starting", "stopping"}

\* The engine reports ready only when every registered subscription is
\* attached, whatever starts were aborted, failed or retried before.  This and
\* the next four are about applications that call from tasks: a continuation
\* can slip between startPromise and the stop behind it, and subscribe() takes
\* part in neither promise.
ReadyIsAttached ==
    style = "tasks" /\ lifecycle = "ready" => registered = attached

\* README of cap-core: a retried start does not duplicate attachments: no
\* consume() is outstanding for a subscription that is attached.
OneConsumePerSubscription ==
    style # "dynamic" => starter.cur \cap attached = {}

\* ... and "a start requested during shutdown waits for shutdown before
\* attaching a fresh consumer cycle": no consume() beside a close().
NoConsumeDuringClose ==
    style = "tasks" => ~(starter.pc = "attaching" /\ stopper.pc = "closing")

\* When a stop resolves, nothing is attached or being attached, however it
\* crossed the starts before it.
StopHasLastWord ==
    style = "tasks" /\ stopper.pc = "settled" /\ stopper.outcome = "resolved" =>
        lifecycle = "stopped" /\ attached = {} /\ Consuming = {}

\* After a failed close no consume() is issued until a close has succeeded.
FailedShutdownBlocks ==
    [][style = "tasks" /\ shutdownIncomplete => Consuming' \subseteq Consuming]_vars

\* README of cap-core: "startSubscriptions() resolves only after every initial
\* SubscriberPort.consume() call has resolved".
StartResolvesAttached ==
    [][\A c \in Callers :
         callers[c] = "start" /\ callers'[c] = "idle" /\ starter.outcome = "resolved" =>
             registered \subseteq attached]_vars

\* Every start and every stop settles: the two may wait for one another, but
\* never in a circle.
EveryCallSettles ==
    \A c \in Callers : []<>(callers[c] = "idle")

------------------------------------------------------------------------------
(* The inductive invariant behind the safety properties                    *)

\* For every application: the shared promises and the lifecycle agree on who
\* has to move next.
PromiseInv ==
    /\ starter.pc = "none" <=> starter = NoStart
    /\ starter.pc = "settled" => starter.cur = {}
    /\ stopper.pc = "none" <=> stopper = NoStop
    /\ starter.cur \cup starter.todo \subseteq registered
    /\ starter.cur \cap starter.todo = {}
    /\ stopper.pc = "waiting" => starter # NoStart
    /\ stopRequested => stopper # NoStop
    /\ stopRequested /\ starter.pc = "attaching" => stopper.pc = "waiting"
    /\ lifecycle = "starting" =>
           starter.pc = "attaching" \/ stopper.pc \in {"waiting", "resuming"}
    /\ lifecycle = "stopping" => stopper.pc = "closing"

\* Without subscribe(), only the one start attaches.
AttachInv ==
    style # "dynamic" =>
        /\ adding = {}
        /\ (starter.cur \cup starter.todo) \cap attached = {}

\* Without calls from continuations, starts and stops never overlap.
TaskInv ==
    style = "tasks" =>
        /\ stopper.pc \in {"resuming", "closing", "settled"} => starter = NoStart
        /\ stopper.pc = "closing" => lifecycle = "stopping"
        /\ stopper.pc = "settled" =>
             IF stopper.outcome = "resolved" THEN lifecycle = "stopped" /\ attached = {}
                                             ELSE lifecycle = "failed"
        /\ starter.pc = "attaching" =>
             /\ lifecycle = "starting"
             /\ registered = attached \cup starter.cur \cup starter.todo
        /\ lifecycle = "ready" => registered = attached
        /\ shutdownIncomplete => starter = NoStart
        /\ (\E c \in Callers : callers[c] = "again") => stopper = NoStop

\* Inductive: who moves next, what is still to be attached and which promise is
\* pending agree after every step of startSubscriptions, stop and subscribe.
LifecycleInv == TypeOK /\ PromiseInv /\ AttachInv /\ TaskInv
==============================================================================
