----------------------------- MODULE CapExpress ------------------------------
(***************************************************************************)
(* createCapExpress: an application that starts and stops the engine and   *)
(* the scheduler together, under promises of its own, and reports the      *)
(* outcome through cap.ready.  The engine below it is the one of           *)
(* SubscriptionLifecycle, which an application may also drive directly.    *)
(***************************************************************************)
EXTENDS SubscriptionLifecycle

CONSTANTS
    Apps,               \* "engine": no runtime; "express": behind CapExpress
    Users,              \* concurrent callers of start() and stop()
    Opener, Closer,     \* the engine's callers: thisStart and thisStop
    Rounds              \* what the scheduler runs; {} when it is disabled

ASSUME ExpressAssumption ==
    /\ Apps \subseteq {"engine", "express"}
    /\ Opener \in Callers /\ Closer \in Callers /\ Opener # Closer

VARIABLES
    app,                \* which of the two this is
    started,
    initialized,
    opening,            \* thisStart behind startPromise
    closing,            \* thisStop behind stopPromise
    readiness,          \* cap.ready of the current cycle
    users,              \* what each caller awaits
    timers,             \* rounds whose interval is set
    running             \* rounds in flight

expressVars == <<app, started, initialized, opening, closing, readiness, users, timers, running>>
engineVars  == <<style, lifecycle, registered, attached, stopRequested, shutdownIncomplete,
                 starter, stopper, adding, callers, faults>>
allVars     == <<vars, expressVars>>

\* "initializing" awaits the adapters, "attaching" and "closing" the engine,
\* "waiting" the start before a stop, "draining" the rounds in flight; the
\* continuations of a promise that is "settled" have yet to run.
Opening == [pc : {"none", "initializing", "attaching", "settled"}, outcome : Outcome]
Closing == [pc : {"none", "waiting", "draining", "closing", "settled"}, outcome : Outcome]

Phase(pc)        == [pc |-> pc, outcome |-> "none"]
Settled(outcome) == [pc |-> "settled", outcome |-> outcome]
Idle             == Phase("none")

ExpressInit ==
    /\ Init
    /\ app \in Apps
    /\ app = "express" => style # "tasks"
    /\ started = FALSE
    /\ initialized = FALSE
    /\ opening = Idle
    /\ closing = Idle
    /\ readiness = "pending"
    /\ users = [u \in Users |-> "idle"]
    /\ timers = {}
    /\ running = {}

\* A readiness promise that has settled is replaced by a fresh one.
Renewed == IF readiness = "pending" THEN readiness ELSE "pending"

\* A readiness promise settles once.
Resolved(outcome) == IF readiness = "pending" THEN outcome ELSE readiness

------------------------------------------------------------------------------
(* Starting                                                                *)

\* thisStart calls engine.startSubscriptions(), which may answer at once.
Open ==
    /\ Start(Opener)
    /\ opening' = IF callers'[Opener] # "idle" THEN Phase("attaching")
                  ELSE Settled(IF lifecycle = "ready" THEN "resolved" ELSE "rejected")
    /\ UNCHANGED <<style, registered, attached, shutdownIncomplete, stopper, adding, faults>>

\* Mutant: a start requested during a stop does not wait for it.
AppStart_atOnce(u) ==
    \/ /\ started
       /\ users' = [users EXCEPT ![u] = "idle"]
       /\ UNCHANGED <<engineVars, opening, readiness, initialized>>
    \/ /\ ~started
       /\ opening # Idle
       /\ users' = [users EXCEPT ![u] = "start"]
       /\ UNCHANGED <<engineVars, opening, readiness, initialized>>
    \/ /\ ~started
       /\ opening = Idle
       /\ users' = [users EXCEPT ![u] = "start"]
       /\ readiness' = Renewed
       /\ \/ initialized /\ Open
          \/ ~initialized /\ opening' = Phase("initializing") /\ UNCHANGED engineVars
       /\ UNCHANGED initialized

\* start(): after the stop in progress, at once, or behind the shared or a
\* fresh start.
AppStart(u) ==
    \/ /\ closing # Idle
       /\ users' = [users EXCEPT ![u] = "restart"]
       /\ UNCHANGED <<engineVars, opening, readiness, initialized>>
    \/ /\ closing = Idle
       /\ started
       /\ users' = [users EXCEPT ![u] = "idle"]
       /\ UNCHANGED <<engineVars, opening, readiness, initialized>>
    \/ /\ closing = Idle
       /\ ~started
       /\ users' = [users EXCEPT ![u] = "start"]
       /\ \/ opening # Idle /\ UNCHANGED <<engineVars, opening, readiness>>
          \/ /\ opening = Idle
             /\ readiness' = Renewed
             /\ \/ initialized /\ Open
                \/ ~initialized /\ opening' = Phase("initializing") /\ UNCHANGED engineVars
       /\ UNCHANGED initialized

UserStarts(u) ==
    /\ users[u] = "idle"
    /\ CallsIn
    /\ AppStart(u)
    /\ UNCHANGED <<app, started, closing, timers, running>>

\* stopPromise.then(() => app.start())
UserStartsAgain(u) ==
    /\ users[u] = "again"
    /\ AppStart(u)
    /\ UNCHANGED <<calls, app, started, closing, timers, running>>

\* initializeAdapters resolves.
Initialized ==
    /\ opening.pc = "initializing"
    /\ initialized' = TRUE
    /\ Open
    /\ UNCHANGED <<calls, app, started, closing, readiness, users, timers, running>>

InitializeFailed ==
    /\ opening.pc = "initializing"
    /\ Rejected
    /\ opening' = Settled("rejected")
    /\ UNCHANGED <<style, lifecycle, registered, attached, stopRequested, shutdownIncomplete,
                   starter, stopper, adding, callers, calls>>
    /\ UNCHANGED <<app, started, initialized, closing, readiness, users, timers, running>>

\* The engine's startPromise is cleared, and thisStart goes on behind it.
EngineStarted ==
    /\ StartCleared
    /\ opening' = IF opening.pc = "attaching" THEN Settled(starter.outcome) ELSE opening
    /\ UNCHANGED <<app, started, initialized, closing, readiness, users, timers, running>>

\* Mutant: readiness is resolved whatever the outcome.
StartSettles_ready ==
    /\ opening.pc = "settled"
    /\ opening' = Idle
    /\ started' = (opening.outcome = "resolved")
    /\ readiness' = Resolved("resolved")
    /\ users' = [u \in Users |-> IF users[u] = "start" THEN "idle" ELSE users[u]]
    /\ \/ /\ closing.pc = "waiting"
          /\ closing' = Phase("draining")
          /\ timers' = {}
       \/ /\ closing.pc # "waiting"
          /\ closing' = closing
          /\ timers' = IF started' THEN Rounds ELSE timers
    /\ UNCHANGED <<engineVars, calls, app, initialized, running>>

\* The rest of thisStart and what awaits it, a stop among them: scheduler.start
\* and, for that stop, the synchronous part of scheduler.stop.
StartSettles ==
    /\ opening.pc = "settled"
    /\ opening' = Idle
    /\ started' = (opening.outcome = "resolved")
    /\ readiness' = Resolved(opening.outcome)
    /\ users' = [u \in Users |-> IF users[u] = "start" THEN "idle" ELSE users[u]]
    /\ \/ /\ closing.pc = "waiting"
          /\ closing' = Phase("draining")
          /\ timers' = {}
       \/ /\ closing.pc # "waiting"
          /\ closing' = closing
          /\ timers' = IF started' THEN Rounds ELSE timers
    /\ UNCHANGED <<engineVars, calls, app, initialized, running>>

------------------------------------------------------------------------------
(* Stopping                                                                *)

\* stop(): behind the shared or a fresh stop.
UserStops(u) ==
    /\ users[u] = "idle"
    /\ CallsIn
    /\ users' = [users EXCEPT ![u] = "stop"]
    /\ \/ closing # Idle /\ UNCHANGED <<closing, timers>>
       \/ /\ closing = Idle
          /\ opening # Idle
          /\ closing' = Phase("waiting")
          /\ UNCHANGED timers
       \/ /\ closing = Idle
          /\ opening = Idle
          /\ closing' = Phase("draining")
          /\ timers' = {}
    /\ UNCHANGED <<engineVars, app, started, initialized, opening, readiness, running>>

\* engine.close(), which answers at once when the engine is stopped.
Close ==
    \/ /\ lifecycle = "stopped"
       /\ closing' = Settled("resolved")
       /\ UNCHANGED engineVars
    \/ /\ Stop(Closer)
       /\ closing' = Phase("closing")
       /\ UNCHANGED <<style, registered, attached, shutdownIncomplete, starter, adding, faults>>

\* Mutant: the rounds in flight are not awaited.
Drained_atOnce ==
    /\ closing.pc = "draining"
    /\ started' = FALSE
    /\ readiness' = Renewed
    /\ Close
    /\ UNCHANGED <<calls, app, initialized, opening, users, timers, running>>

\* Both rounds are over: scheduler.stop() resolves.
Drained ==
    /\ closing.pc = "draining"
    /\ running = {}
    /\ started' = FALSE
    /\ readiness' = Renewed
    /\ Close
    /\ UNCHANGED <<calls, app, initialized, opening, users, timers, running>>

\* The engine's stopPromise is cleared, and thisStop goes on behind it.
EngineStopped ==
    /\ StopCleared
    /\ closing' = IF closing.pc = "closing" THEN Settled(stopper.outcome) ELSE closing
    /\ UNCHANGED <<app, started, initialized, opening, readiness, users, timers, running>>

\* Mutant: a start queued behind a stop is dropped with it.
StopSettles_forgets ==
    /\ closing.pc = "settled"
    /\ closing' = Idle
    /\ \/ /\ closing.outcome = "resolved"
          /\ initialized' = FALSE
          /\ users' = [u \in Users |-> IF users[u] = "stop" THEN "idle" ELSE users[u]]
          /\ readiness' = readiness
       \/ /\ closing.outcome = "rejected"
          /\ initialized' = initialized
          /\ users' = [u \in Users |-> IF users[u] \in {"stop", "restart"} THEN "idle" ELSE users[u]]
          /\ readiness' = Resolved("rejected")
    /\ UNCHANGED <<engineVars, calls, app, started, opening, timers, running>>

\* The rest of thisStop; the starts queued behind it begin, or reject with it.
StopSettles ==
    /\ closing.pc = "settled"
    /\ closing' = Idle
    /\ \/ /\ closing.outcome = "resolved"
          /\ initialized' = FALSE
          /\ users' = [u \in Users |-> CASE users[u] = "stop"    -> "idle"
                                         [] users[u] = "restart" -> "again"
                                         [] OTHER                -> users[u]]
          /\ readiness' = readiness
       \/ /\ closing.outcome = "rejected"
          /\ initialized' = initialized
          /\ users' = [u \in Users |-> IF users[u] \in {"stop", "restart"} THEN "idle" ELSE users[u]]
          /\ readiness' = Resolved("rejected")
    /\ UNCHANGED <<engineVars, calls, app, started, opening, timers, running>>

------------------------------------------------------------------------------
(* The scheduler                                                           *)

\* An interval fires; a round in flight is shared.
RoundBegins(r) ==
    /\ r \in timers
    /\ r \notin running
    /\ running' = running \cup {r}
    /\ UNCHANGED <<engineVars, calls, app, started, initialized, opening, closing, readiness,
                   users, timers>>

\* The round settles; its error, if any, is logged.
RoundEnds(r) ==
    /\ r \in running
    /\ running' = running \ {r}
    /\ UNCHANGED <<engineVars, calls, app, started, initialized, opening, closing, readiness,
                   users, timers>>

------------------------------------------------------------------------------
\* The engine's own steps that no caller sees.
EngineStep ==
    \/ StartConsumed \/ StartFailed
    \/ StopResumes \/ StopClosed \/ StopFailed
    \/ \E s \in Subs : SubscribeStep(s)

\* Calls of an application without the runtime.
EngineCall ==
    \E c \in Callers : StartSubscriptions(c) \/ StartAgain(c) \/ StopSubscriptions(c)

\* subscribe(): registered before the application has started, attached after.
AppSubscribe(s) ==
    \/ ~started /\ RegisterSubscription(s)
    \/ (app = "express" => started) /\ Subscribe(s)

UserStep(u) == UserStarts(u) \/ UserStartsAgain(u) \/ UserStops(u)

ExpressStep ==
    \/ Initialized \/ InitializeFailed
    \/ StartSettles \/ Drained \/ StopSettles

ExpressDone ==
    /\ Done
    /\ opening = Idle
    /\ closing = Idle
    /\ running = {}
    /\ \A u \in Users : users[u] = "idle"
    /\ UNCHANGED expressVars

ExpressNext ==
    \/ EngineStep /\ UNCHANGED expressVars
    \/ EngineStarted \/ EngineStopped
    \/ app = "engine" /\ EngineCall /\ UNCHANGED expressVars
    \/ \E s \in Subs : AppSubscribe(s) /\ UNCHANGED expressVars
    \/ app = "express" /\ (ExpressStep \/ \E u \in Users : UserStep(u))
    \/ \E r \in Rounds : RoundBegins(r) \/ RoundEnds(r)
    \/ ExpressDone

ExpressSpec == ExpressInit /\ [][ExpressNext]_allVars

\* The engine's promises, the adapters and the rounds settle, and queued
\* continuations run.
ExpressFairness ==
    /\ WF_allVars((StartConsumed \/ StartFailed) /\ UNCHANGED expressVars)
    /\ WF_allVars(EngineStarted) /\ WF_allVars(EngineStopped)
    /\ WF_allVars((StopResumes \/ StopClosed \/ StopFailed) /\ UNCHANGED expressVars)
    /\ \A c \in Callers : WF_allVars(StartAgain(c) /\ UNCHANGED expressVars)
    /\ WF_allVars(ExpressStep)
    /\ \A u \in Users : WF_allVars(UserStartsAgain(u))
    /\ \A r \in Rounds : WF_allVars(RoundEnds(r))

FairExpressSpec == ExpressSpec /\ ExpressFairness

------------------------------------------------------------------------------
(* Properties                                                              *)

ExpressTypeOK ==
    /\ app \in Apps
    /\ started \in BOOLEAN
    /\ initialized \in BOOLEAN
    /\ opening \in Opening
    /\ closing \in Closing
    /\ readiness \in {"pending", "resolved", "rejected"}
    /\ users \in [Users -> {"idle", "start", "stop", "restart", "again"}]
    /\ timers \subseteq Rounds
    /\ running \subseteq Rounds

\* NoConsumeDuringClose and, for an application behind the runtime, more: its
\* calls may come from continuations, and subscribe() at any time, and yet no
\* start of the engine is ever pending beside a stop.
StartsApartFromStops ==
    /\ NoConsumeDuringClose
    /\ app = "express" => starter = NoStart \/ stopper = NoStop

\* README of cap-express: start() "awaits initial consumer attachment, and then
\* starts the retry scheduler", and cap.ready "resolves or rejects with that
\* cycle's startup attempt": while it is resolved the engine is ready with
\* every subscription attached, and the scheduler runs until a stop.
ReadyIsTrue ==
    app = "express" /\ readiness = "resolved" =>
        /\ started
        /\ closing = Idle => timers = Rounds
        /\ style # "dynamic" => lifecycle = "ready" /\ registered = attached

\* "stop() stops the scheduler and closes consumers": once the application is
\* down no timer is set, no round is in flight, and only a start or a close
\* that failed leaves a consumer behind.
StoppedIsQuiet ==
    app = "express" /\ ~started /\ opening = Idle /\ closing.pc \notin {"waiting", "draining"} =>
        /\ timers = {}
        /\ running = {}
        /\ style # "dynamic" /\ closing.pc # "closing" =>
             Consuming = {} /\ (attached = {} \/ lifecycle = "failed")

\* Every start and every stop settles, of the engine and of the application:
\* they wait for one another, for the rounds and for the engine, never in a
\* circle.
CallsReturn ==
    /\ \A c \in Callers : []<>(callers[c] = "idle")
    /\ \A u \in Users : []<>(users[u] = "idle")

------------------------------------------------------------------------------
(* The inductive invariant behind the safety properties                    *)

\* A promise that has settled has an outcome.
OutcomeInv ==
    /\ starter.pc = "settled" => starter.outcome # "none"
    /\ stopper.pc = "settled" => stopper.outcome # "none"
    /\ opening.pc = "settled" <=> opening.outcome # "none"
    /\ closing.pc = "settled" <=> closing.outcome # "none"

\* The engine starts only for thisStart and stops only for thisStop, and the
\* two take turns.
TurnInv ==
    app = "express" =>
        /\ style # "tasks"
        /\ \A c \in Callers : \/ callers[c] = "idle"
                              \/ callers[c] = "start" /\ c = Opener
                              \/ callers[c] = "stop" /\ c = Closer
        /\ callers[Opener] = "start" => opening.pc = "attaching"
        /\ callers[Closer] = "stop" => closing.pc = "closing"
        /\ starter # NoStart => opening.pc = "attaching"
        /\ stopper # NoStop => closing.pc = "closing"
        /\ opening # Idle => closing.pc \in {"none", "waiting"} /\ ~started /\ readiness = "pending"
        /\ started => closing.pc \in {"none", "draining"}
        /\ closing.pc = "waiting" => opening # Idle

\* The scheduler runs between a start that resolved and the next stop.
SchedulerInv ==
    app = "express" =>
        /\ timers = IF started /\ closing = Idle THEN Rounds ELSE {}
        /\ running # {} => started \/ closing.pc = "draining"
        /\ readiness = "resolved" => started

\* Without subscribe(), what is attached follows from where the engine stands.
AttachedInv ==
    app = "express" /\ style # "dynamic" =>
        /\ lifecycle = "ready" => registered = attached
        /\ lifecycle = "stopped" => attached = {}
        /\ started \/ opening = Settled("resolved") => lifecycle = "ready"
        /\ starter.pc = "attaching" =>
             lifecycle = "starting" /\ registered = attached \cup starter.cur \cup starter.todo
        /\ starter.pc = "settled" =>
             lifecycle = IF starter.outcome = "resolved" THEN "ready" ELSE "failed"
        /\ stopper.pc = "closing" => lifecycle = "stopping"
        /\ stopper.pc = "settled" =>
             lifecycle = IF stopper.outcome = "resolved" THEN "stopped" ELSE "failed"
        /\ ~started /\ opening.pc # "attaching" /\ opening # Settled("resolved")
           /\ closing.pc \notin {"draining", "closing"} =>
             attached = {} \/ lifecycle = "failed"

\* Inductive: whose turn it is, what the scheduler does and what is attached.
ExpressInv ==
    LifecycleInv /\ ExpressTypeOK /\ OutcomeInv /\ TurnInv /\ SchedulerInv /\ AttachedInv
==============================================================================
